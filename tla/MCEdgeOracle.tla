------------------------------ MODULE MCEdgeOracle ------------------------------
(* Small instances of EdgeOracle for TLC. *)
EXTENDS EdgeOracle

\* One worker for each node and block.
MCRuns == Nodes \X (1 .. MaxBlock)
MCNodeOf == [r \in MCRuns |-> r[1]]
MCNumberOf == [r \in MCRuns |-> r[2]]

\* A selection of them, with a block for every kind of transaction: node "a" races with
\* itself for the lock; node "b" meets it with the tag of block 1 and the nonces of 4.
MCRunsTwo == {<<"a", 1>>, <<"a", 3>>, <<"a", 4>>, <<"b", 2>>, <<"b", 4>>}
MCNodeOfTwo == [r \in MCRunsTwo |-> r[1]]
MCNumberOfTwo == [r \in MCRunsTwo |-> r[2]]

\* One key of its own for each node.
MCKeys == [n \in Nodes |-> {n}]

\* Node "b" has a second key, which is also the key of node "a".
MCKeysTwo == [n \in Nodes |-> {"a", n}]
===============================================================================
