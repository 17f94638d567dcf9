------------------------------- MODULE GraceLock -------------------------------
(***************************************************************************)
(* What the edge-connect off-chain worker wants of its local-storage lock:  *)
(* "we only attempt to send one every `GRACE_PERIOD` blocks" (Config of     *)
(* pallets/edge-connect/src/lib.rs).  On each node the blocks whose worker  *)
(* was allowed to send lie at least GracePeriod apart, and later ones are   *)
(* granted later.                                                          *)
(***************************************************************************)
EXTENDS Naturals

CONSTANTS Node, Block, GracePeriod

VARIABLE granted    \* node -> the set of block numbers granted on it

GraceInit == granted = [n \in Node |-> {}]

Grant(n, b) ==
    /\ \A g \in granted[n] : g + GracePeriod <= b
    /\ granted' = [granted EXCEPT ![n] = @ \cup {b}]

GraceNext == \E n \in Node, b \in Block : Grant(n, b)

GraceSpec == GraceInit /\ [][GraceNext]_granted
===============================================================================
