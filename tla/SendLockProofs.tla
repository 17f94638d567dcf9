----------------------------- MODULE SendLockProofs -----------------------------
(***************************************************************************)
(* Proofs about the off-chain workers' lock, for any nodes, any runs in any *)
(* order and any grace period of at least one block.                       *)
(***************************************************************************)
EXTENDS SendLock, TLAPS

\* The inductive invariant.  GrantsSpaced alone is not inductive: that a write
\* lands at least GracePeriod after every earlier grant needs LastSendIsNewest,
\* which bounds the earlier grants by the stored value.
LockInv == LockTypeOK /\ GrantsSpaced /\ LastSendIsNewest

\* The lock starts empty.
LEMMA LockInitInv == LockInit => LockInv
  BY LockAssumption
     DEF LockInit, LockInv, LockTypeOK, GrantsSpaced, LastSendIsNewest, Never

\* The read of mutate preserves the invariant.
LEMMA ReadLastInv ==
    ASSUME LockInv, NEW r \in Runs, ReadLast(r)
    PROVE  LockInv'
<1>1. /\ lastSend \in [Nodes -> Nat]
      /\ phase \in [Runs -> {"idle", "read", "granted", "refused", "gone"}]
      /\ seen \in [Runs -> Nat]
      /\ NodeOf[r] \in Nodes
  BY LockAssumption DEF LockInv, LockTypeOK
<1>2. /\ phase[r] = "idle" /\ lastSend' = lastSend
      /\ seen' = [seen EXCEPT ![r] = lastSend[NodeOf[r]]]
      /\ phase' \in [Runs -> {"idle", "read", "granted", "refused", "gone"}]
      /\ \A q \in Runs : q # r => phase'[q] = phase[q] /\ seen'[q] = seen[q]
      /\ phase'[r] \in {"read", "refused"}
      /\ phase'[r] = "read" => ~RecentlySent(NumberOf[r], seen'[r])
      /\ seen'[r] = lastSend[NodeOf[r]]
  BY <1>1 DEF ReadLast
<1>3. \A q \in Runs : phase'[q] = "granted" <=> phase[q] = "granted"
  BY <1>2
<1>4. LockTypeOK'
  <2>1. ASSUME NEW p \in Runs, seen'[p] # Never
        PROVE  \E q \in Runs : NodeOf[q] = NodeOf[p] /\ NumberOf[q] = seen'[p]
    <3>1. CASE p = r
      BY <1>1, <1>2, <2>1, <3>1 DEF LockInv, LockTypeOK
    <3>2. CASE p # r
      BY <1>2, <2>1, <3>2 DEF LockInv, LockTypeOK
    <3> QED
      BY <3>1, <3>2
  <2>2. seen' \in [Runs -> Nat] /\ lastSend' \in [Nodes -> Nat]
    BY <1>1, <1>2
  <2> QED
    BY <1>2, <2>1, <2>2 DEF LockInv, LockTypeOK, Never
<1>5. GrantsSpaced'
  BY <1>3 DEF LockInv, GrantsSpaced
<1>6. LastSendIsNewest'
  <2>1. ASSUME NEW q \in Runs
        PROVE  /\ phase'[q] = "granted" => NumberOf[q] <= lastSend'[NodeOf[q]]
               /\ phase'[q] = "read" => /\ seen'[q] <= lastSend'[NodeOf[q]]
                                        /\ ~RecentlySent(NumberOf[q], seen'[q])
    <3>1. CASE q = r
      BY <1>1, <1>2, <3>1
    <3>2. CASE q # r
      BY <1>2, <3>2 DEF LockInv, LastSendIsNewest
    <3> QED
      BY <3>1, <3>2
  <2>2. ASSUME NEW n \in Nodes, lastSend'[n] # Never
        PROVE  \E q \in Runs : /\ NodeOf[q] = n /\ phase'[q] = "granted"
                               /\ NumberOf[q] = lastSend'[n]
    BY <1>2, <1>3, <2>2 DEF LockInv, LastSendIsNewest
  <2> QED
    BY <2>1, <2>2 DEF LastSendIsNewest, Never, RecentlySent
<1> QED
  BY <1>4, <1>5, <1>6 DEF LockInv

\* The winner of compare_and_set is GracePeriod past every earlier grant of its
\* node: the value it read is still there, and bounds them all.
LEMMA WinnerIsLate ==
    ASSUME LockInv, NEW r \in Runs, phase[r] = "read", lastSend[NodeOf[r]] = seen[r]
    PROVE  /\ \A q \in Runs : NodeOf[q] = NodeOf[r] /\ phase[q] = "granted"
                                => NumberOf[q] + GracePeriod <= NumberOf[r]
           /\ lastSend[NodeOf[r]] <= NumberOf[r]
<1>1. ~RecentlySent(NumberOf[r], lastSend[NodeOf[r]])
  BY DEF LockInv, LastSendIsNewest
<1>2. /\ lastSend[NodeOf[r]] \in Nat /\ NumberOf[r] \in Nat /\ GracePeriod \in Nat
  BY LockAssumption DEF LockInv, LockTypeOK
<1>3. ASSUME NEW q \in Runs, NodeOf[q] = NodeOf[r], phase[q] = "granted"
      PROVE  NumberOf[q] + GracePeriod <= NumberOf[r]
  <2>1. NumberOf[q] <= lastSend[NodeOf[r]] /\ NumberOf[q] \in Nat \ {0}
    BY <1>3, LockAssumption DEF LockInv, LastSendIsNewest
  <2> QED
    BY <1>1, <1>2, <2>1 DEF RecentlySent, Never
<1>4. lastSend[NodeOf[r]] <= NumberOf[r]
  BY <1>1, <1>2 DEF RecentlySent, Never
<1> QED
  BY <1>3, <1>4

\* The write of mutate, won or lost, preserves the invariant.
LEMMA CompareAndSetInv ==
    ASSUME LockInv, NEW r \in Runs, CompareAndSet(r)
    PROVE  LockInv'
<1>1. /\ lastSend \in [Nodes -> Nat]
      /\ phase \in [Runs -> {"idle", "read", "granted", "refused", "gone"}]
      /\ seen \in [Runs -> Nat]
      /\ NodeOf \in [Runs -> Nodes] /\ NumberOf \in [Runs -> Nat \ {0}]
      /\ GracePeriod \in Nat
  BY LockAssumption DEF LockInv, LockTypeOK
<1>2. CASE lastSend[NodeOf[r]] = seen[r]
  <2>1. /\ lastSend' = [lastSend EXCEPT ![NodeOf[r]] = NumberOf[r]]
        /\ phase' = [phase EXCEPT ![r] = "granted"]
        /\ seen' = seen /\ phase[r] = "read"
    BY <1>2 DEF CompareAndSet
  <2>2. /\ \A q \in Runs : NodeOf[q] = NodeOf[r] /\ phase[q] = "granted"
                             => NumberOf[q] + GracePeriod <= NumberOf[r]
        /\ lastSend[NodeOf[r]] <= NumberOf[r]
    BY <1>2, <2>1, WinnerIsLate
  <2>3. LockTypeOK'
    <3>1. ASSUME NEW n \in Nodes, lastSend'[n] # Never
          PROVE  \E q \in Runs : NodeOf[q] = n /\ NumberOf[q] = lastSend'[n]
      <4>1. CASE n = NodeOf[r]
        BY <1>1, <2>1, <4>1
      <4>2. CASE n # NodeOf[r]
        BY <1>1, <2>1, <3>1, <4>2 DEF LockInv, LockTypeOK
      <4> QED
        BY <4>1, <4>2
    <3>2. /\ lastSend' \in [Nodes -> Nat]
          /\ phase' \in [Runs -> {"idle", "read", "granted", "refused", "gone"}]
      BY <1>1, <2>1
    <3> QED
      BY <1>1, <2>1, <3>1, <3>2 DEF LockInv, LockTypeOK, Never
  <2>4. GrantsSpaced'
    <3>1. \A q \in Runs : q # r => phase'[q] = phase[q]
      BY <1>1, <2>1
    <3> QED
      BY <2>2, <3>1 DEF LockInv, GrantsSpaced
  <2>5. \A n \in Nodes : /\ lastSend[n] <= lastSend'[n]
                         /\ n # NodeOf[r] => lastSend'[n] = lastSend[n]
    BY <1>1, <2>1, <2>2
  <2>6. lastSend'[NodeOf[r]] = NumberOf[r] /\ phase'[r] = "granted"
    BY <1>1, <2>1
  <2>7. ASSUME NEW q \in Runs
        PROVE  /\ phase'[q] = "granted" => NumberOf[q] <= lastSend'[NodeOf[q]]
               /\ phase'[q] = "read" => /\ seen'[q] <= lastSend'[NodeOf[q]]
                                        /\ ~RecentlySent(NumberOf[q], seen'[q])
    <3>1. CASE q = r
      BY <1>1, <2>6, <3>1
    <3>2. CASE q # r
      <4>1. phase'[q] = phase[q] /\ seen'[q] = seen[q]
        BY <1>1, <2>1, <3>2
      <4>2. /\ lastSend[NodeOf[q]] \in Nat /\ lastSend'[NodeOf[q]] \in Nat
            /\ NumberOf[q] \in Nat /\ seen[q] \in Nat
            /\ lastSend[NodeOf[q]] <= lastSend'[NodeOf[q]]
        BY <1>1, <2>3, <2>5 DEF LockTypeOK
      <4> QED
        BY <4>1, <4>2 DEF LockInv, LastSendIsNewest
    <3> QED
      BY <3>1, <3>2
  <2>8. ASSUME NEW n \in Nodes, lastSend'[n] # Never
        PROVE  \E q \in Runs : /\ NodeOf[q] = n /\ phase'[q] = "granted"
                               /\ NumberOf[q] = lastSend'[n]
    <3>1. CASE n = NodeOf[r]
      BY <2>6, <3>1
    <3>2. CASE n # NodeOf[r]
      <4>1. PICK q \in Runs : /\ NodeOf[q] = n /\ phase[q] = "granted"
                              /\ NumberOf[q] = lastSend[n]
        BY <2>5, <2>8, <3>2 DEF LockInv, LastSendIsNewest
      <4> QED
        BY <1>1, <2>1, <2>5, <3>2, <4>1
    <3> QED
      BY <3>1, <3>2
  <2>9. LastSendIsNewest'
    BY <2>7, <2>8 DEF LastSendIsNewest, Never, RecentlySent
  <2> QED
    BY <2>3, <2>4, <2>9 DEF LockInv
<1>3. CASE lastSend[NodeOf[r]] # seen[r]
  <2>1. /\ lastSend' = lastSend /\ seen' = seen /\ phase[r] = "read"
        /\ phase' = [phase EXCEPT ![r] = "refused"]
    BY <1>3 DEF CompareAndSet
  <2>2. \A q \in Runs : /\ phase'[q] = "granted" <=> phase[q] = "granted"
                        /\ phase'[q] = "read" => phase[q] = "read"
    BY <1>1, <2>1
  <2>3. LockTypeOK'
    BY <1>1, <2>1 DEF LockInv, LockTypeOK, Never
  <2> QED
    BY <2>1, <2>2, <2>3 DEF LockInv, GrantsSpaced, LastSendIsNewest, Never, RecentlySent
<1> QED
  BY <1>2, <1>3

\* A restart of a node preserves the invariant.
LEMMA LockRestartInv ==
    ASSUME LockInv, NEW n \in Nodes, LockRestart(n)
    PROVE  LockInv'
<1>1. /\ lastSend' = lastSend /\ seen' = seen
      /\ phase' = [r \in Runs |-> IF NodeOf[r] = n /\ phase[r] = "read"
                                  THEN "gone" ELSE phase[r]]
  BY DEF LockRestart
<1>2. \A q \in Runs : /\ phase'[q] = "granted" <=> phase[q] = "granted"
                      /\ phase'[q] = "read" => phase[q] = "read"
  BY <1>1
<1>3. LockTypeOK'
  BY <1>1 DEF LockInv, LockTypeOK
<1> QED
  BY <1>1, <1>2, <1>3 DEF LockInv, GrantsSpaced, LastSendIsNewest, Never, RecentlySent

\* Every step preserves the invariant.
LEMMA LockNextInv == LockInv /\ [LockNext]_lockVars => LockInv'
<1> SUFFICES ASSUME LockInv, [LockNext]_lockVars PROVE LockInv'
  OBVIOUS
<1>1. CASE LockNext
  BY <1>1, ReadLastInv, CompareAndSetInv, LockRestartInv DEF LockNext
<1>2. CASE UNCHANGED lockVars
  BY <1>2 DEF lockVars, LockInv, LockTypeOK, GrantsSpaced, LastSendIsNewest,
              Never, RecentlySent
<1> QED
  BY <1>1, <1>2

\* The invariant holds of every behaviour, restarts included.
THEOREM LockSafety == LockSpec => []LockInv
  BY LockInitInv, LockNextInv, PTL DEF LockSpec

\* The types of the local storage and of the runs, through all interleavings and restarts:
\* what a node's storage holds is the block of one of its own workers.
THEOREM LockTypes == LockSpec => []LockTypeOK
<1>1. LockInv => LockTypeOK
  BY DEF LockInv
<1> QED
  BY <1>1, LockSafety, PTL

\* Workers of one node that were allowed to send are GracePeriod blocks apart.
THEOREM SpacingTheorem == LockSpec => []GrantsSpaced
<1>1. LockInv => GrantsSpaced
  BY DEF LockInv
<1> QED
  BY <1>1, LockSafety, PTL

\* The value in local storage is the newest block granted, and a value that
\* mutate finds unchanged was not overwritten in between.
THEOREM NewestTheorem == LockSpec => []LastSendIsNewest
<1>1. LockInv => LastSendIsNewest
  BY DEF LockInv
<1> QED
  BY <1>1, LockSafety, PTL

-------------------------------------------------------------------------------
(* Why a worker is refused *)

\* Whatever was granted stays granted.
LEMMA GrantsStay ==
    ASSUME LockInv, LockNext, NEW q \in Runs, phase[q] = "granted"
    PROVE  phase'[q] = "granted"
  BY DEF LockInv, LockTypeOK, LockNext, ReadLast, CompareAndSet, LockRestart

\* A stored value has its worker.
LEMMA StoredByWorker ==
    ASSUME LockInv, NEW n \in Nodes, lastSend[n] # Never
    PROVE  \E q \in Runs : NodeOf[q] = n /\ phase[q] = "granted" /\ NumberOf[q] = lastSend[n]
  BY DEF LockInv, LastSendIsNewest

\* A worker that a step refuses is refused for a worker that may send: it found
\* that worker's value recent, or lost compare_and_set to it.
LEMMA NewlyRefused ==
    ASSUME LockInv, LockNext, NEW r \in Runs, phase[r] # "refused", phase'[r] = "refused"
    PROVE  \E q \in Runs :
              /\ NodeOf[q] = NodeOf[r] /\ phase[q] = "granted"
              /\ IF RecentlySent(NumberOf[r], seen'[r])
                 THEN NumberOf[q] = seen'[r] ELSE NumberOf[q] > seen'[r]
<1>1. /\ lastSend \in [Nodes -> Nat] /\ seen \in [Runs -> Nat]
      /\ phase \in [Runs -> {"idle", "read", "granted", "refused", "gone"}]
      /\ NodeOf[r] \in Nodes
  BY LockAssumption DEF LockInv, LockTypeOK
<1>2. CASE ReadLast(r)
  <2>1. seen'[r] = lastSend[NodeOf[r]]
    BY <1>1, <1>2 DEF ReadLast
  <2>2. RecentlySent(NumberOf[r], lastSend[NodeOf[r]])
    BY <1>1, <1>2 DEF ReadLast
  <2>3. lastSend[NodeOf[r]] # Never
    BY <2>2 DEF RecentlySent
  <2> QED
    BY <1>1, <2>1, <2>2, <2>3, StoredByWorker
<1>3. CASE CompareAndSet(r)
  <2>1. seen'[r] = seen[r] /\ lastSend[NodeOf[r]] # seen[r] /\ phase[r] = "read"
    BY <1>1, <1>3 DEF CompareAndSet
  <2>2. seen[r] <= lastSend[NodeOf[r]] /\ ~RecentlySent(NumberOf[r], seen[r])
    BY <2>1 DEF LockInv, LastSendIsNewest
  <2>3. lastSend[NodeOf[r]] > seen[r] /\ lastSend[NodeOf[r]] # Never
    BY <1>1, <2>1, <2>2 DEF Never
  <2> QED
    BY <1>1, <2>1, <2>2, <2>3, StoredByWorker
<1>4. CASE \E p \in Runs : p # r /\ (ReadLast(p) \/ CompareAndSet(p))
  BY <1>1, <1>4 DEF ReadLast, CompareAndSet
<1>5. CASE \E n \in Nodes : LockRestart(n)
  BY <1>1, <1>5 DEF LockRestart
<1> QED
  BY <1>2, <1>3, <1>4, <1>5 DEF LockNext

\* No worker gives up in vain: one of its node was granted the lock.
THEOREM RefusedTheorem == LockSpec => []RefusedForAnother
<1>1. LockInit => RefusedForAnother
  BY DEF LockInit, RefusedForAnother
<1>2. LockInv /\ RefusedForAnother /\ [LockNext]_lockVars => RefusedForAnother'
  <2> SUFFICES ASSUME LockInv, RefusedForAnother, [LockNext]_lockVars
               PROVE  RefusedForAnother'
    OBVIOUS
  <2>1. CASE LockNext
    <3> SUFFICES ASSUME NEW r \in Runs, phase'[r] = "refused"
                 PROVE  \E q \in Runs :
                           /\ NodeOf[q] = NodeOf[r] /\ phase'[q] = "granted"
                           /\ IF RecentlySent(NumberOf[r], seen'[r])
                              THEN NumberOf[q] = seen'[r] ELSE NumberOf[q] > seen'[r]
      BY DEF RefusedForAnother, RecentlySent, Never
    <3>1. CASE phase[r] = "refused"
      <4>1. seen'[r] = seen[r]
        BY <2>1, <3>1 DEF LockInv, LockTypeOK, LockNext, ReadLast, CompareAndSet, LockRestart
      <4> QED
        BY <2>1, <3>1, <4>1, GrantsStay DEF RefusedForAnother
    <3>2. CASE phase[r] # "refused"
      BY <2>1, <3>2, NewlyRefused, GrantsStay
    <3> QED
      BY <3>1, <3>2
  <2>2. CASE UNCHANGED lockVars
    BY <2>2 DEF lockVars, RefusedForAnother, RecentlySent, Never
  <2> QED
    BY <2>1, <2>2
<1> QED
  BY <1>1, <1>2, LockSafety, PTL DEF LockSpec

-------------------------------------------------------------------------------
(* Refinement of the grace period *)

\* A step that grants nobody leaves the abstract grants alone.
LEMMA NoGrant ==
    ASSUME \A q \in Runs : phase'[q] = "granted" <=> phase[q] = "granted"
    PROVE  Granted' = Granted
  BY DEF Granted

\* The concurrent lock implements the grace period.
THEOREM LockRefinement == LockSpec => ImplementsGrace
<1>1. LockInit => Grace!GraceInit
  BY DEF LockInit, Grace!GraceInit, Granted
<1>2. LockInv /\ [LockNext]_lockVars => [Grace!GraceNext]_Granted
  <2> SUFFICES ASSUME LockInv, [LockNext]_lockVars PROVE [Grace!GraceNext]_Granted
    OBVIOUS
  <2>1. phase \in [Runs -> {"idle", "read", "granted", "refused", "gone"}]
    BY DEF LockInv, LockTypeOK
  <2>2. ASSUME NEW r \in Runs, ReadLast(r) PROVE Granted' = Granted
    BY <2>1, <2>2, NoGrant DEF ReadLast
  <2>3. ASSUME NEW n \in Nodes, LockRestart(n) PROVE Granted' = Granted
    BY <2>1, <2>3, NoGrant DEF LockRestart
  <2>4. ASSUME NEW r \in Runs, CompareAndSet(r) PROVE [Grace!GraceNext]_Granted
    <3>1. CASE lastSend[NodeOf[r]] # seen[r]
      BY <2>1, <2>4, <3>1, NoGrant DEF CompareAndSet
    <3>2. CASE lastSend[NodeOf[r]] = seen[r]
      <4>1. phase[r] = "read" /\ phase' = [phase EXCEPT ![r] = "granted"]
        BY <2>4, <3>2 DEF CompareAndSet
      <4>2. NodeOf[r] \in Nodes
        BY LockAssumption
      <4>3. Granted' = [Granted EXCEPT ![NodeOf[r]] = @ \cup {NumberOf[r]}]
        BY <2>1, <4>1, <4>2, ZenonT(60) DEF Granted
      <4>4. \A g \in Granted[NodeOf[r]] : g + GracePeriod <= NumberOf[r]
        BY <3>2, <4>1, <4>2, WinnerIsLate DEF Granted
      <4>5. Grace!Grant(NodeOf[r], NumberOf[r])
        BY <4>3, <4>4 DEF Grace!Grant
      <4> QED
        BY <4>2, <4>5 DEF Grace!GraceNext
    <3> QED
      BY <3>1, <3>2
  <2>5. CASE UNCHANGED lockVars
    BY <2>5 DEF lockVars, Granted
  <2> QED
    BY <2>2, <2>3, <2>4, <2>5 DEF LockNext
<1> QED
  BY <1>1, <1>2, LockSafety, PTL DEF LockSpec, ImplementsGrace, Grace!GraceSpec
===============================================================================
