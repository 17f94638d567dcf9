------------------------------- MODULE MCSendLock -------------------------------
(* Small instances of SendLock for TLC. *)
EXTENDS SendLock

\* Two nodes; on the first, five workers, two of them for blocks of one height;
\* consecutive heights, so that the grace period bites from both sides.
MCRuns == {"a1", "a2", "a2fork", "a4", "a5", "b1", "b3"}
MCNodeOf == [r \in MCRuns |-> IF r \in {"b1", "b3"} THEN "b" ELSE "a"]
MCNumberOf ==
    [r \in MCRuns |-> CASE r \in {"a1", "b1"} -> 1
                        [] r \in {"a2", "a2fork"} -> 2
                        [] r = "b3" -> 3
                        [] r = "a4" -> 4
                        [] r = "a5" -> 5]
===============================================================================
