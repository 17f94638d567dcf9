----------------------------- MODULE MCEdgeConnect -----------------------------
(* Small instances of EdgeConnect for TLC. *)
EXTENDS EdgeConnect

MCTexts == {"short", "long"}
MCLongTexts == {"long"}
===============================================================================
