----------------------------- MODULE MCOffchainCall -----------------------------
(* Small instances of OffchainCall for TLC. *)
EXTENDS OffchainCall

\* A node with both keys and one with only the ping key run the calls of block 4, which
\* is one for signed responses; another node with both keys, and again the one with the
\* ping key, those of block 8, the next such block.
MCRuns == {<<"a", 4>>, <<"c", 4>>, <<"b", 8>>, <<"c", 8>>}
MCNodeOf == [r \in MCRuns |-> r[1]]
MCNumberOf == [r \in MCRuns |-> r[2]]
===============================================================================
