---- MODULE MCNodeService ----
(***************************************************************************)
(* Every configuration of a node, started up to twice, with two blocks.     *)
(***************************************************************************)
EXTENDS NodeService

\* Both KEY_TYPEs: worker-registration's and edge-connect's.
MCKeyTypes == {"ping", "edge"}

=============================================================================
