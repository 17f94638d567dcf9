------------------------------- MODULE WorkBoard -------------------------------
(***************************************************************************)
(* What the worker-registration pallet promises, without its ids, counters, *)
(* tables and events: accounts join once and stay with the endpoint they    *)
(* named, somebody reports an account's worker up or down, and a task, once *)
(* on the board, keeps its owner and its worker until every slot is taken.  *)
(***************************************************************************)
EXTENDS Maps

CONSTANTS Account, Endpoint, Data, Slot

VARIABLES
    roster,     \* account -> endpoint, partial
    up,         \* the accounts whose worker was last reported up
    jobs        \* slot -> [owner, worker, data], partial

boardVars == <<roster, up, jobs>>

Init ==
    /\ roster = Empty
    /\ up = {}
    /\ jobs = Empty

\* A newcomer is down until somebody reports it up.
Join(a, e) ==
    /\ a \notin DOMAIN roster
    /\ roster' = Insert(roster, a, e)
    /\ UNCHANGED <<up, jobs>>

Report(a, isUp) ==
    /\ a \in DOMAIN roster
    /\ up' = IF isUp THEN up \cup {a} ELSE up \ {a}
    /\ UNCHANGED <<roster, jobs>>

\* A slot in use is given away only when no slot is free.
Post(s, owner, worker, data) ==
    /\ s \in DOMAIN jobs => DOMAIN jobs = Slot
    /\ worker \in DOMAIN roster
    /\ jobs' = Insert(jobs, s, [owner |-> owner, worker |-> worker, data |-> data])
    /\ UNCHANGED <<roster, up>>

Next ==
    \/ \E a \in Account, e \in Endpoint : Join(a, e)
    \/ \E a \in Account, isUp \in BOOLEAN : Report(a, isUp)
    \/ \E s \in Slot, owner \in Account, worker \in Account, data \in Data :
          Post(s, owner, worker, data)

Spec == Init /\ [][Next]_boardVars
===============================================================================
