-------------------------------- MODULE SendLock --------------------------------
(***************************************************************************)
(* choose_transaction_type of pallets/edge-connect/src/lib.rs: off-chain    *)
(* workers of one node, running concurrently and in any order, take a lock  *)
(* in the node's local storage, whose value is the block of the last send.  *)
(* StorageValueRef::mutate reads the value, runs the closure and writes     *)
(* with compare_and_set: two steps, between which other workers may run.    *)
(*                                                                         *)
(* A run is one invocation of the worker: several may have the same block   *)
(* number, when the node sees two blocks of one height.                    *)
(***************************************************************************)
EXTENDS Naturals, FiniteSets

CONSTANTS
    Nodes,
    Runs,           \* the invocations of the off-chain worker
    NodeOf,         \* run -> node
    NumberOf,       \* run -> the block_number argument
    GracePeriod

ASSUME LockAssumption ==
    /\ NodeOf \in [Runs -> Nodes]
    /\ NumberOf \in [Runs -> Nat \ {0}]
    /\ GracePeriod \in Nat \ {0}

VARIABLES
    lastSend,   \* node -> "example_ocw::last_send"; Never when absent
    phase,      \* run -> where it is in choose_transaction_type
    seen        \* run -> the value mutate read

lockVars == <<lastSend, phase, seen>>

Never == 0

\* Mutant: a grace period one block short.
RecentlySentShort(number, last) == last # Never /\ number + 1 < last + GracePeriod

RecentlySent(number, last) == last # Never /\ number < last + GracePeriod

LockInit ==
    /\ lastSend = [n \in Nodes |-> Never]
    /\ phase = [r \in Runs |-> "idle"]
    /\ seen = [r \in Runs |-> Never]

\* mutate reads the value and runs the closure, which may fail with
\* RECENTLY_SENT.
ReadLast(r) ==
    LET last == lastSend[NodeOf[r]]
    IN  /\ phase[r] = "idle"
        /\ seen' = [seen EXCEPT ![r] = last]
        /\ phase' = [phase EXCEPT ![r] = IF RecentlySent(NumberOf[r], last)
                                         THEN "refused" ELSE "read"]
        /\ UNCHANGED lastSend

\* Mutant: a plain set, as StorageValueRef::set would do.
PlainSet(r) ==
    /\ phase[r] = "read"
    /\ lastSend' = [lastSend EXCEPT ![NodeOf[r]] = NumberOf[r]]
    /\ phase' = [phase EXCEPT ![r] = "granted"]
    /\ UNCHANGED seen

\* Mutant: the two results of compare_and_set swapped.
SwappedResult(r) ==
    /\ phase[r] = "read"
    /\ phase' = [phase EXCEPT ![r] = IF lastSend[NodeOf[r]] = seen[r]
                                     THEN "refused" ELSE "granted"]
    /\ lastSend' = [lastSend EXCEPT ![NodeOf[r]] = IF @ = seen[r] THEN NumberOf[r] ELSE @]
    /\ UNCHANGED seen

\* Mutant: the end of the grace period stored, not the block.
StoreGraceEnd(r) ==
    /\ phase[r] = "read"
    /\ \/ /\ lastSend[NodeOf[r]] = seen[r]
          /\ lastSend' = [lastSend EXCEPT ![NodeOf[r]] = NumberOf[r] + GracePeriod]
          /\ phase' = [phase EXCEPT ![r] = "granted"]
       \/ /\ lastSend[NodeOf[r]] # seen[r]
          /\ phase' = [phase EXCEPT ![r] = "refused"]
          /\ UNCHANGED lastSend
    /\ UNCHANGED seen

\* mutate writes the block number if the value is still the one it read;
\* otherwise it fails with ConcurrentModification.
CompareAndSet(r) ==
    /\ phase[r] = "read"
    /\ \/ /\ lastSend[NodeOf[r]] = seen[r]
          /\ lastSend' = [lastSend EXCEPT ![NodeOf[r]] = NumberOf[r]]
          /\ phase' = [phase EXCEPT ![r] = "granted"]
       \/ /\ lastSend[NodeOf[r]] # seen[r]
          /\ phase' = [phase EXCEPT ![r] = "refused"]
          /\ UNCHANGED lastSend
    /\ UNCHANGED seen

\* The node stops: workers between the read and the write are gone, the local
\* storage persists.
LockRestart(n) ==
    /\ phase' = [r \in Runs |-> IF NodeOf[r] = n /\ phase[r] = "read"
                                THEN "gone" ELSE phase[r]]
    /\ UNCHANGED <<lastSend, seen>>

LockNext ==
    \/ \E r \in Runs : ReadLast(r) \/ CompareAndSet(r)
    \/ \E n \in Nodes : LockRestart(n)

LockSpec == LockInit /\ [][LockNext]_lockVars

\* The host runs a worker that has read the lock to its end, unless the node
\* stops.  That a worker starts at all is not assumed.
FairLockSpec == LockSpec /\ \A r \in Runs : WF_lockVars(CompareAndSet(r))

-------------------------------------------------------------------------------
(* Properties *)

\* The types: what the local storage of a node holds, and what mutate read from it,
\* is nothing or the block number of a worker of that node.
LockTypeOK ==
    /\ lastSend \in [Nodes -> Nat]
    /\ phase \in [Runs -> {"idle", "read", "granted", "refused", "gone"}]
    /\ seen \in [Runs -> Nat]
    /\ \A n \in Nodes : lastSend[n] # Never =>
          \E q \in Runs : NodeOf[q] = n /\ NumberOf[q] = lastSend[n]
    /\ \A r \in Runs : seen[r] # Never =>
          \E q \in Runs : NodeOf[q] = NodeOf[r] /\ NumberOf[q] = seen[r]

\* "only one worker will be able to acquire a lock and send a transaction if
\* multiple workers happen to be executed concurrently": two workers of a node
\* that may send have block numbers at least GracePeriod apart, in whatever
\* order the workers ran and however their steps interleaved.
GrantsSpaced ==
    \A r1, r2 \in Runs :
        (/\ r1 # r2 /\ NodeOf[r1] = NodeOf[r2]
         /\ phase[r1] = "granted" /\ phase[r2] = "granted")
        => \/ NumberOf[r1] + GracePeriod <= NumberOf[r2]
           \/ NumberOf[r2] + GracePeriod <= NumberOf[r1]

\* The stored value is the newest block that was granted, and what a worker read
\* is never ahead of it: a value that came back unchanged was never overwritten
\* in between (no ABA), which is what compare_and_set relies on.
LastSendIsNewest ==
    /\ \A r \in Runs :
          /\ phase[r] = "granted" => NumberOf[r] <= lastSend[NodeOf[r]]
          /\ phase[r] = "read" => /\ seen[r] <= lastSend[NodeOf[r]]
                                  /\ ~RecentlySent(NumberOf[r], seen[r])
    /\ \A n \in Nodes :
          lastSend[n] # Never =>
             \E r \in Runs : NodeOf[r] = n /\ phase[r] = "granted" /\ NumberOf[r] = lastSend[n]

\* A worker gives up only for another one: the value it found recent, or the one
\* that came in between, is the block of a worker of its node that may send.
RefusedForAnother ==
    \A r \in Runs : phase[r] = "refused" =>
        \E q \in Runs :
            /\ NodeOf[q] = NodeOf[r] /\ phase[q] = "granted"
            /\ IF RecentlySent(NumberOf[r], seen[r])
               THEN NumberOf[q] = seen[r] ELSE NumberOf[q] > seen[r]

\* The block numbers of the workers that may send, by node.
Granted ==
    [n \in Nodes |->
        {NumberOf[r] : r \in {q \in Runs : NodeOf[q] = n /\ phase[q] = "granted"}}]

Grace == INSTANCE GraceLock WITH
    Node <- Nodes, Block <- {NumberOf[r] : r \in Runs}, granted <- Granted

\* Every behaviour of the concurrent workers is one in which sends are granted
\* one at a time, GracePeriod apart and in block order.
ImplementsGrace == Grace!GraceSpec

\* The lock is never lost in the race for it: on a node where a worker got as
\* far as wanting to send, some worker is allowed to, unless the node stopped
\* under one.
SomeoneSends ==
    \A n \in Nodes :
        (\E r \in Runs : NodeOf[r] = n /\ phase[r] = "read")
        ~> (\E r \in Runs : NodeOf[r] = n /\ phase[r] \in {"granted", "gone"})
===============================================================================
