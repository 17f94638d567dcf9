--------------------------- MODULE OffchainCallProofs ---------------------------
(***************************************************************************)
(* Proofs about both pallets' off-chain workers in one runtime call, for any *)
(* nodes, runs, blocks and grace period: how the calls of all nodes share     *)
(* the nonces of one account.                                              *)
(***************************************************************************)
EXTENDS OffchainCall, SendLockProofs, SequenceTheorems

-------------------------------------------------------------------------------
(* The inductive invariant.  GapOnlyIfReplaced says nothing of the calls that  *)
(* are about to submit; inductive it becomes with what each call has in its    *)
(* overlay and what became of the transaction that moved the overlay on.       *)

Stages == {"due", "edge", "ping", "over", "stalled"}

\* The nonce that the call of r begins from.
Start(r) == nonceAt[NumberOf[r]]

\* A transaction has one of the first two nonces of its call, which is past it.
FromCall(tx) ==
    /\ tx.run \in Runs /\ stage[tx.run] # "due"
    /\ tx.tag \in {Start(tx.run), Start(tx.run) + 1}
    /\ tx.tag < overlay[tx.run]

\* The first transaction of a call depends on nothing.
FromPool(tx) ==
    /\ FromCall(tx)
    /\ tx.tag = Start(tx.run) => tx.behind = {}

StatesInOrder ==
    /\ \A b, c \in FirstBlock - 1 .. block - 1 : b <= c => nonceAt[b] <= nonceAt[c]
    /\ nonceAt[block - 1] <= nonce

CallsInOrder ==
    \A r \in Runs :
        /\ stage[r] # "due" => /\ NumberOf[r] < block
                               /\ overlay[r] \in Nat /\ Start(r) <= overlay[r]
        /\ stage[r] = "edge" => overlay[r] = Start(r) /\ NodeOf[r] \in EdgeNodes
        /\ stage[r] = "ping" => overlay[r] <= Start(r) + 1

\* Another call's transaction took the place of the first one of the call of r.
Replaced(r) == \E rival \in accepted : rival.tag = Start(r) /\ r \in rival.replaced

\* A call that counted on has its first transaction in the pool until a block with its
\* nonce is sealed, or another took its place.
FirstWaits ==
    \A r \in Runs :
        (stage[r] # "due" /\ Start(r) < overlay[r] /\ Start(r) = nonceAt[block - 1])
        => (\E tx \in pool : tx.run = r /\ tx.tag = Start(r)) \/ Replaced(r)

AppliedInOrder ==
    /\ applied \in Seq(accepted) /\ nonce = Len(applied)
    /\ \A i \in DOMAIN applied : applied[i].tag = i - 1 /\ FromCall(applied[i])

CallInv ==
    /\ LockInv /\ CallTypeOK
    /\ stage \in [Runs -> Stages] /\ overlay \in [Runs -> Nat]
    /\ block \in Nat /\ block >= FirstBlock /\ nonce \in Nat
    /\ pool \subseteq accepted
    /\ \A tx \in pool : FromPool(tx)
    /\ StatesInOrder /\ CallsInOrder /\ FirstWaits /\ AppliedInOrder

-------------------------------------------------------------------------------
(* What the invariant gives *)

\* The numbers in the invariant.
LEMMA CallNumbers ==
    ASSUME CallInv
    PROVE  /\ FirstBlock \in Nat \ {0} /\ MaxBlock \in Nat
           /\ block \in Nat /\ block >= FirstBlock /\ nonce \in Nat
           /\ nonceAt \in [FirstBlock - 1 .. block - 1 -> Nat]
           /\ nonceAt[block - 1] \in Nat /\ nonceAt[block - 1] <= nonce
           /\ \A r \in Runs : NumberOf[r] \in Nat /\ NumberOf[r] >= FirstBlock
           /\ \A r \in Runs : stage[r] # "due" =>
                 /\ Start(r) \in Nat /\ Start(r) <= nonceAt[block - 1] /\ overlay[r] \in Nat
<1>1. /\ FirstBlock \in Nat \ {0} /\ MaxBlock \in Nat
      /\ \A r \in Runs : NumberOf[r] \in Nat /\ NumberOf[r] >= FirstBlock
  BY CallAssumption, LockAssumption
<1>2. /\ block \in Nat /\ block >= FirstBlock /\ nonce \in Nat
      /\ nonceAt \in [FirstBlock - 1 .. block - 1 -> Nat]
  BY DEF CallInv, CallTypeOK
<1>3. nonceAt[block - 1] \in Nat /\ nonceAt[block - 1] <= nonce
  BY <1>1, <1>2 DEF CallInv, StatesInOrder
<1>4. ASSUME NEW r \in Runs, stage[r] # "due"
      PROVE  Start(r) \in Nat /\ Start(r) <= nonceAt[block - 1] /\ overlay[r] \in Nat
  <2>1. NumberOf[r] < block /\ overlay[r] \in Nat
    BY <1>4 DEF CallInv, CallsInOrder
  <2>2. NumberOf[r] \in FirstBlock - 1 .. block - 1 /\ block - 1 \in FirstBlock - 1 .. block - 1
    BY <1>1, <1>2, <2>1
  <2>3. nonceAt[NumberOf[r]] <= nonceAt[block - 1]
    BY <1>1, <1>2, <2>1, <2>2 DEF CallInv, StatesInOrder
  <2> QED
    BY <1>2, <2>1, <2>2, <2>3 DEF Start
<1> QED
  BY <1>1, <1>2, <1>3, <1>4

\* Only the second nonce of a call that began in the newest state can have one before
\* it, and then the call's first transaction waits, or was replaced.
LEMMA GapByInv == CallInv => GapOnlyIfReplaced
<1> SUFFICES ASSUME CallInv, NEW tx \in pool, NEW k \in nonceAt[block - 1] .. tx.tag - 1
             PROVE  \/ \E other \in pool : other.tag = k
                    \/ \E rival \in accepted : rival.tag = k /\ tx.run \in rival.replaced
  BY DEF GapOnlyIfReplaced
<1> DEFINE r == tx.run
<1>1. /\ r \in Runs /\ stage[r] # "due" /\ tx.tag \in {Start(r), Start(r) + 1}
      /\ tx.tag < overlay[r]
  BY DEF CallInv, FromPool, FromCall
<1>2. /\ nonceAt[block - 1] \in Nat
      /\ Start(r) \in Nat /\ Start(r) <= nonceAt[block - 1] /\ overlay[r] \in Nat
  BY <1>1, CallNumbers
<1> HIDE DEF r
<1>3. k = Start(r) /\ Start(r) = nonceAt[block - 1] /\ Start(r) < overlay[r]
  BY <1>1, <1>2
<1>4. (\E other \in pool : other.run = r /\ other.tag = Start(r)) \/ Replaced(r)
  BY <1>1, <1>3 DEF CallInv, FirstWaits
<1> QED
  BY <1>3, <1>4 DEF Replaced, r

\* Each nonce is on chain once, and the calls of a block have two between them.
LEMMA SecondReportByInv == CallInv => SecondReportBehindResponse
<1> SUFFICES ASSUME CallInv, NEW i \in DOMAIN applied, NEW j \in DOMAIN applied, i < j,
                    NumberOf[applied[j].run] = NumberOf[applied[i].run]
             PROVE  LET b == NumberOf[applied[i].run]
                    IN  /\ applied[i].tag = nonceAt[b] /\ applied[j].tag = nonceAt[b] + 1
                        /\ overlay[applied[j].run] = nonceAt[b] + 2
  BY DEF SecondReportBehindResponse
<1> DEFINE q == applied[i].run
           r == applied[j].run
<1>1. applied[i].tag = i - 1 /\ applied[j].tag = j - 1 /\ i \in Nat /\ j \in Nat
  BY DEF CallInv, AppliedInOrder
<1>2. /\ q \in Runs /\ stage[q] # "due" /\ applied[i].tag \in {Start(q), Start(q) + 1}
      /\ r \in Runs /\ stage[r] # "due" /\ applied[j].tag \in {Start(r), Start(r) + 1}
      /\ applied[j].tag < overlay[r]
  BY DEF CallInv, AppliedInOrder, FromCall
<1>3. Start(q) \in Nat /\ Start(r) = Start(q) /\ overlay[r] \in Nat
  BY <1>2, CallNumbers DEF Start
<1>4. overlay[r] <= Start(r) + 2
  BY <1>2, <1>3, SMTT(40) DEF CallInv, CallTypeOK, Start
<1>5. /\ applied[i].tag = Start(q) /\ applied[j].tag = Start(q) + 1
      /\ overlay[r] = Start(q) + 2
  BY <1>1, <1>2, <1>3, <1>4
<1> QED
  BY <1>5 DEF Start

-------------------------------------------------------------------------------
(* The steps *)

\* Before the first block is sealed nothing was sent.
LEMMA CallInitInv == CallInit => CallInv
<1> SUFFICES ASSUME CallInit PROVE CallInv
  OBVIOUS
<1>1. LockInv
  BY LockInitInv DEF CallInit
<1>2. /\ FirstBlock \in Nat \ {0} /\ block = FirstBlock /\ nonce = 0
      /\ nonceAt = [b \in {FirstBlock - 1} |-> 0] /\ pinged = {}
      /\ pool = {} /\ taken = {} /\ accepted = {} /\ applied = <<>>
      /\ stage = [r \in Runs |-> "due"] /\ overlay = [r \in Runs |-> 0]
      /\ phase = [r \in Runs |-> "idle"]
  BY CallAssumption DEF CallInit, LockInit
<1>3. FirstBlock - 1 .. block - 1 = {FirstBlock - 1}
  BY <1>2
<1>4. CallTypeOK
  BY <1>1, <1>2, <1>3 DEF CallTypeOK, LockInv
<1>5. StatesInOrder
  BY <1>2, <1>3 DEF StatesInOrder
<1>6. CallsInOrder /\ FirstWaits /\ AppliedInOrder
  BY <1>2 DEF CallsInOrder, FirstWaits, AppliedInOrder
<1> QED
  BY <1>1, <1>2, <1>4, <1>5, <1>6 DEF CallInv, Stages

\* While calls only go on, what was sent stays as it was.
LEMMA CallsGoOn ==
    ASSUME CallInv,
           \A r \in Runs : stage[r] # "due" =>
              /\ stage'[r] # "due" /\ Start(r)' = Start(r)
              /\ overlay'[r] \in Nat /\ overlay[r] <= overlay'[r]
    PROVE  /\ \A tx : FromCall(tx) => FromCall(tx)'
           /\ \A tx : FromPool(tx) => FromPool(tx)'
<1>1. \A r \in Runs : stage[r] # "due" => Start(r) \in Nat /\ overlay[r] \in Nat
  BY CallNumbers
<1>2. ASSUME NEW tx, FromCall(tx) PROVE FromCall(tx)' /\ tx.tag \in Nat
  BY <1>1, <1>2 DEF FromCall
<1>3. ASSUME NEW tx, FromPool(tx) PROVE FromPool(tx)'
  <2>1. FromCall(tx) /\ FromCall(tx)'
    BY <1>2, <1>3 DEF FromPool
  <2>2. Start(tx.run)' = Start(tx.run)
    BY <2>1 DEF FromCall
  <2> QED
    BY <1>3, <2>1, <2>2 DEF FromPool
<1> QED
  BY <1>2, <1>3

\* A new block: its state has the nonce so far, and the pool keeps what it lacks.
LEMMA CallSealInv ==
    ASSUME CallInv, NEW registered \in BOOLEAN, Seal(registered)
    PROVE  CallInv'
<1>1. /\ FirstBlock \in Nat \ {0} /\ block \in Nat /\ block >= FirstBlock /\ nonce \in Nat
      /\ nonceAt \in [FirstBlock - 1 .. block - 1 -> Nat]
      /\ nonceAt[block - 1] \in Nat /\ nonceAt[block - 1] <= nonce
      /\ \A r \in Runs : NumberOf[r] \in Nat /\ NumberOf[r] >= FirstBlock
      /\ \A r \in Runs : stage[r] # "due" => NumberOf[r] < block
  BY CallNumbers DEF CallInv, CallsInOrder
<1>2. /\ block' = block + 1
      /\ nonceAt' = [b \in DOMAIN nonceAt \cup {block} |->
                        IF b = block THEN nonce ELSE nonceAt[b]]
      /\ pool' = {tx \in pool : tx.tag \notin nonceAt[block - 1] .. nonce - 1} /\ taken' = {}
      /\ lastSend' = lastSend /\ phase' = phase /\ seen' = seen
      /\ nonce' = nonce /\ stage' = stage /\ overlay' = overlay
      /\ accepted' = accepted /\ applied' = applied
      /\ pinged' \subseteq pinged \cup {block}
  BY DEF Seal, lockVars
<1>3. /\ nonceAt' \in [FirstBlock - 1 .. block' - 1 -> Nat]
      /\ nonceAt'[block] = nonce /\ block' - 1 = block
      /\ \A b \in FirstBlock - 1 .. block - 1 : nonceAt'[b] = nonceAt[b]
  <2>1. DOMAIN nonceAt \cup {block} = FirstBlock - 1 .. block' - 1
    BY <1>1, <1>2
  <2> QED
    BY <1>1, <1>2, <2>1
<1>4. \A r \in Runs : stage[r] # "due" => Start(r)' = Start(r)
  BY <1>1, <1>3 DEF Start
<1>5. LockInv'
  BY <1>2, LockNextInv DEF CallInv, lockVars
<1>6. CallTypeOK'
  <2>1. pinged' \subseteq FirstBlock .. block' - 1
    BY <1>1, <1>2 DEF CallInv, CallTypeOK
  <2> QED
    BY <1>2, <1>3, <1>4, <1>5, <2>1, ZenonT(40) DEF CallInv, CallTypeOK, LockInv, Start
<1>7. StatesInOrder'
  <2>1. ASSUME NEW b \in FirstBlock - 1 .. block, NEW c \in FirstBlock - 1 .. block, b <= c
        PROVE  nonceAt'[b] <= nonceAt'[c]
    <3>1. CASE c = block
      <4>1. CASE b = block
        BY <1>1, <1>3, <3>1, <4>1
      <4>2. CASE b # block
        <5>1. b \in FirstBlock - 1 .. block - 1 /\ block - 1 \in FirstBlock - 1 .. block - 1
          BY <1>1, <4>2
        <5>2. nonceAt[b] <= nonceAt[block - 1] /\ nonceAt[b] \in Nat
          BY <1>1, <5>1 DEF CallInv, StatesInOrder
        <5> QED
          BY <1>1, <1>3, <3>1, <5>1, <5>2
      <4> QED
        BY <4>1, <4>2
    <3>2. CASE c # block
      BY <1>1, <1>3, <2>1, <3>2 DEF CallInv, StatesInOrder
    <3> QED
      BY <3>1, <3>2
  <2>2. nonceAt'[block' - 1] <= nonce'
    BY <1>1, <1>2, <1>3
  <2>3. FirstBlock - 1 .. block' - 1 = FirstBlock - 1 .. block
    BY <1>3
  <2> QED
    BY <2>1, <2>2, <2>3, ZenonT(40) DEF StatesInOrder
<1>8. CallsInOrder'
  BY <1>1, <1>2, <1>4 DEF CallInv, CallsInOrder
<1>9. /\ \A tx : FromCall(tx) => FromCall(tx)'
      /\ \A tx : FromPool(tx) => FromPool(tx)'
  BY <1>1, <1>2, <1>4, CallsGoOn, CallNumbers
<1>10. FirstWaits'
  <2> SUFFICES ASSUME NEW r \in Runs, stage[r] # "due", Start(r) < overlay[r],
                      Start(r) = nonce
               PROVE  (\E tx \in pool' : tx.run = r /\ tx.tag = Start(r)) \/ Replaced(r)
    BY <1>2, <1>3, <1>4 DEF FirstWaits, Replaced
  <2>1. Start(r) = nonceAt[block - 1] /\ nonce = nonceAt[block - 1]
    BY <1>1, CallNumbers
  <2>2. pool' = pool
    BY <1>1, <1>2, <2>1
  <2> QED
    BY <2>1, <2>2 DEF CallInv, FirstWaits
<1>11. AppliedInOrder' /\ pool' \subseteq accepted'
  BY <1>2, <1>9 DEF CallInv, AppliedInOrder
<1>12. \A tx \in pool' : FromPool(tx)'
  BY <1>2, <1>9 DEF CallInv
<1> QED
  BY <1>1, <1>2, <1>5, <1>6, <1>7, <1>8, <1>10, <1>11, <1>12 DEF CallInv

\* What a step has to keep that only moves calls on, and neither the pool nor the chain.
LEMMA SamePoolInv ==
    ASSUME CallInv, LockInv',
           UNCHANGED <<block, pinged, nonce, nonceAt, pool, taken, accepted, applied>>,
           stage' \in [Runs -> Stages], overlay' \in [Runs -> Nat],
           \A r \in Runs :
              /\ stage[r] # "due" => stage'[r] # "due" /\ overlay'[r] = overlay[r]
              /\ stage[r] = "due" /\ stage'[r] # "due" =>
                    NumberOf[r] < block /\ overlay'[r] = Start(r)
              /\ stage'[r] = "edge" => overlay'[r] = Start(r) /\ NodeOf[r] \in EdgeNodes
              /\ stage'[r] = "ping" => overlay'[r] <= Start(r) + 1
              /\ phase'[r] # "idle" => stage'[r] # "due" /\ NodeOf[r] \in EdgeNodes
    PROVE  CallInv'
<1>1. \A r \in Runs : Start(r)' = Start(r)
  BY DEF Start
<1>2. \A r \in Runs : stage'[r] # "due" =>
         /\ NumberOf[r] < block /\ overlay'[r] \in Nat
         /\ Start(r) \in Nat /\ Start(r) <= overlay'[r] /\ overlay'[r] <= Start(r) + 2
  <2> SUFFICES ASSUME NEW r \in Runs, stage'[r] # "due"
               PROVE  /\ NumberOf[r] < block /\ overlay'[r] \in Nat
                      /\ Start(r) \in Nat /\ Start(r) <= overlay'[r]
                      /\ overlay'[r] <= Start(r) + 2
    OBVIOUS
  <2>1. CASE stage[r] = "due"
    <3>1. NumberOf[r] < block /\ overlay'[r] = Start(r)
      BY <2>1
    <3>2. NumberOf[r] \in FirstBlock - 1 .. block - 1
      BY <3>1, CallNumbers
    <3>3. Start(r) \in Nat
      BY <3>2, CallNumbers DEF Start
    <3> QED
      BY <3>1, <3>3
  <2>2. CASE stage[r] # "due"
    <3>1. Start(r) \in Nat /\ overlay[r] \in Nat /\ overlay'[r] = overlay[r]
      BY <2>2, CallNumbers
    <3>2. NumberOf[r] < block /\ Start(r) <= overlay[r] /\ overlay[r] <= Start(r) + 2
      BY <2>2, <3>1 DEF CallInv, CallsInOrder, CallTypeOK, Start
    <3> QED
      BY <3>1, <3>2
  <2> QED
    BY <2>1, <2>2
<1>3. /\ \A tx : FromCall(tx) => FromCall(tx)'
      /\ \A tx : FromPool(tx) => FromPool(tx)'
  BY <1>1, <1>2, CallsGoOn, CallNumbers
<1>4. CallTypeOK'
  BY <1>1, <1>2 DEF CallInv, CallTypeOK, LockInv, Start, Stages
<1>5. CallsInOrder'
  BY <1>1, <1>2 DEF CallsInOrder
<1>6. StatesInOrder'
  BY DEF CallInv, StatesInOrder
<1>7. FirstWaits'
  <2>1. ASSUME NEW r \in Runs, stage'[r] # "due", Start(r) < overlay'[r],
               Start(r) = nonceAt[block - 1]
        PROVE  (\E tx \in pool : tx.run = r /\ tx.tag = Start(r)) \/ Replaced(r)
    <3>1. stage[r] # "due" /\ overlay'[r] = overlay[r]
      BY <1>2, <2>1
    <3> QED
      BY <2>1, <3>1 DEF CallInv, FirstWaits
  <2> QED
    BY <1>1, <2>1 DEF FirstWaits, Replaced
<1>8. AppliedInOrder'
  BY <1>3 DEF CallInv, AppliedInOrder
<1>9. \A tx \in pool' : FromPool(tx)'
  BY <1>3 DEF CallInv
<1> QED
  BY <1>4, <1>5, <1>6, <1>7, <1>8, <1>9 DEF CallInv

\* A call begins, in the state of its own block.
LEMMA BeginInv ==
    ASSUME CallInv, NEW r \in Runs, Begin(r)
    PROVE  CallInv'
<1>1. /\ stage[r] = "due" /\ NumberOf[r] < block
      /\ stage' = [stage EXCEPT ![r] = FirstStage(r)]
      /\ overlay' = [overlay EXCEPT ![r] = Start(r)]
      /\ UNCHANGED <<lockVars, block, pinged, nonce, nonceAt, pool, taken, accepted, applied>>
  BY DEF Begin, OverlayAtStart, Start
<1>2. /\ stage \in [Runs -> Stages] /\ overlay \in [Runs -> Nat]
      /\ \A q \in Runs : phase[q] # "idle" => stage[q] # "due" /\ NodeOf[q] \in EdgeNodes
      /\ \A q \in Runs : stage[q] = "edge" => overlay[q] = Start(q) /\ NodeOf[q] \in EdgeNodes
      /\ \A q \in Runs : stage[q] = "ping" => overlay[q] <= Start(q) + 1
  BY DEF CallInv, CallTypeOK, CallsInOrder
<1>3. FirstStage(r) \in {"edge", "ping"} /\ (FirstStage(r) = "edge" => NodeOf[r] \in EdgeNodes)
  BY DEF FirstStage
<1>4. Start(r) \in Nat /\ Start(r) <= Start(r) + 1
  <2>1. NumberOf[r] \in FirstBlock - 1 .. block - 1
    BY <1>1, CallNumbers
  <2>2. Start(r) \in Nat
    BY <2>1, CallNumbers DEF Start
  <2> QED
    BY <2>2
<1>5. /\ stage' \in [Runs -> Stages] /\ overlay' \in [Runs -> Nat]
      /\ stage'[r] = FirstStage(r) /\ overlay'[r] = Start(r)
      /\ \A q \in Runs : q # r => stage'[q] = stage[q] /\ overlay'[q] = overlay[q]
  BY <1>1, <1>2, <1>3, <1>4 DEF Stages
<1>6. LockInv' /\ phase' = phase
  BY <1>1, LockNextInv DEF CallInv, lockVars
<1> QED
  BY <1>1, <1>2, <1>3, <1>4, <1>5, <1>6, SamePoolInv

\* edge-connect in a call tries the lock, as any worker does.
LEMMA EdgeLockInv ==
    ASSUME CallInv, NEW r \in Runs, EdgeLock(r)
    PROVE  CallInv'
<1>1. LockInv'
  BY ReadLastInv, CompareAndSetInv DEF CallInv, EdgeLock
<1>2. UNCHANGED callVars /\ stage[r] = "edge"
  BY DEF EdgeLock
<1>3. \A q \in Runs : q # r => phase'[q] = phase[q]
  BY DEF CallInv, LockInv, LockTypeOK, EdgeLock, ReadLast, CompareAndSet
<1>4. /\ stage \in [Runs -> Stages] /\ overlay \in [Runs -> Nat]
      /\ \A q \in Runs : phase[q] # "idle" => stage[q] # "due" /\ NodeOf[q] \in EdgeNodes
      /\ \A q \in Runs : stage[q] = "edge" => overlay[q] = Start(q) /\ NodeOf[q] \in EdgeNodes
      /\ \A q \in Runs : stage[q] = "ping" => overlay[q] <= Start(q) + 1
  BY DEF CallInv, CallTypeOK, CallsInOrder
<1> QED
  BY <1>1, <1>2, <1>3, <1>4, SamePoolInv DEF callVars

\* A pallet's turn ends without a transaction, or does not end.
LEMMA SilentTurnInv ==
    ASSUME CallInv, NEW r \in Runs, NEW next \in {"ping", "over", "stalled"},
           \/ <<stage[r], next>> \in {<<"edge", "ping">>, <<"ping", "over">>}
           \/ stage[r] \in {"edge", "ping"} /\ next = "stalled",
           stage' = [stage EXCEPT ![r] = next],
           UNCHANGED <<lockVars, block, pinged, nonce, nonceAt, pool, taken, overlay,
                       accepted, applied>>
    PROVE  CallInv'
<1>1. /\ stage \in [Runs -> Stages] /\ overlay \in [Runs -> Nat]
      /\ \A q \in Runs : phase[q] # "idle" => stage[q] # "due" /\ NodeOf[q] \in EdgeNodes
      /\ \A q \in Runs : stage[q] = "edge" => overlay[q] = Start(q) /\ NodeOf[q] \in EdgeNodes
      /\ \A q \in Runs : stage[q] = "ping" => overlay[q] <= Start(q) + 1
  BY DEF CallInv, CallTypeOK, CallsInOrder
<1>2. LockInv' /\ phase' = phase
  BY LockNextInv DEF CallInv, lockVars
<1>3. stage[r] # "due" /\ next \in Stages \ {"due", "edge"}
  BY DEF Stages
<1>4. next = "ping" => overlay[r] = Start(r) /\ Start(r) <= Start(r) + 1
  BY <1>1, <1>3, CallNumbers
<1>5. /\ stage' \in [Runs -> Stages] /\ stage'[r] = next
      /\ \A q \in Runs : q # r => stage'[q] = stage[q]
  BY <1>1, <1>3
<1>6. /\ \A q \in Runs : phase[q] # "idle" => stage'[q] # "due" /\ NodeOf[q] \in EdgeNodes
      /\ \A q \in Runs : stage'[q] = "edge" => overlay[q] = Start(q) /\ NodeOf[q] \in EdgeNodes
      /\ \A q \in Runs : stage'[q] = "ping" => overlay[q] <= Start(q) + 1
  BY <1>1, <1>3, <1>4, <1>5
<1> QED
  BY <1>1, <1>2, <1>3, <1>5, <1>6, SamePoolInv

\* The pool takes the transaction of a pallet's turn.  Whose first transaction had the
\* tag is among those the new one replaced.
LEMMA AcceptedTurnInv ==
    ASSUME CallInv, NEW r \in Runs, NEW pallet, NEW next \in {"ping", "over"},
           <<stage[r], next>> \in {<<"edge", "ping">>, <<"ping", "over">>},
           stage' = [stage EXCEPT ![r] = next],
           pool' = Replace(pool, Tx(r, overlay[r], pallet)),
           taken' = taken \ Rivals(pool, Tx(r, overlay[r], pallet)),
           overlay' = [overlay EXCEPT ![r] = @ + 1],
           accepted' = accepted \cup {Tx(r, overlay[r], pallet)},
           UNCHANGED <<lockVars, block, pinged, nonce, nonceAt, applied>>
    PROVE  CallInv'
<1> DEFINE k == overlay[r]
<1>0. PICK tx : tx = Tx(r, overlay[r], pallet)
  OBVIOUS
<1>1. /\ tx.tag = k /\ tx.run = r
      /\ tx.behind = {other.run : other \in {t \in pool : k > Start(r) /\ t.tag = k - 1}}
      /\ \A t \in pool : t.tag = k => t.run \in tx.replaced
  BY <1>0 DEF Tx, Start
<1>2. /\ Start(r) \in Nat /\ k \in Nat /\ Start(r) <= k /\ k <= Start(r) + 1 /\ nonce \in Nat
      /\ next = "ping" => k = Start(r) /\ NodeOf[r] \in EdgeNodes
      /\ stage[r] # "due" /\ next # "due"
  <2>1. stage[r] # "due" /\ next # "due"
    OBVIOUS
  <2>2. Start(r) \in Nat /\ k \in Nat /\ nonce \in Nat
    BY <2>1, CallNumbers
  <2> QED
    BY <2>1, <2>2 DEF CallInv, CallsInOrder
<1>3. /\ pool' = {t \in pool : t.tag # k} \cup {tx}
      /\ taken' = {t \in taken : t \notin pool \/ t.tag # k}
      /\ accepted' = accepted \cup {tx}
  BY <1>0, <1>1 DEF Replace, Rivals
<1>4. overlay' = [overlay EXCEPT ![r] = k + 1]
  OBVIOUS
<1>5. /\ overlay \in [Runs -> Nat] /\ stage \in [Runs -> Stages]
      /\ block' = block /\ nonce' = nonce /\ nonceAt' = nonceAt /\ pinged' = pinged
      /\ applied' = applied
      /\ lastSend' = lastSend /\ phase' = phase /\ seen' = seen
  BY DEF CallInv, lockVars
<1>6. /\ overlay' \in [Runs -> Nat] /\ stage' \in [Runs -> Stages]
      /\ stage'[r] = next /\ overlay'[r] = k + 1
      /\ \A q \in Runs : q # r => stage'[q] = stage[q] /\ overlay'[q] = overlay[q]
  <2>1. next \in Stages /\ k + 1 \in Nat
    BY <1>2 DEF Stages
  <2> QED
    BY <1>4, <1>5, <2>1
<1>7. \A q \in Runs : Start(q)' = Start(q)
  BY <1>5 DEF Start
<1>8. \A q \in Runs : stage[q] # "due" => overlay[q] \in Nat
  BY CallNumbers
<1>9. /\ \A t : FromCall(t) => FromCall(t)'
      /\ \A t : FromPool(t) => FromPool(t)'
  <2>1. \A q \in Runs : stage[q] # "due" =>
           stage'[q] # "due" /\ overlay'[q] \in Nat /\ overlay[q] <= overlay'[q]
    BY <1>2, <1>6, <1>8
  <2> QED
    BY <1>7, <2>1, CallsGoOn
<1>10. FromPool(tx)'
  <2>1. FromCall(tx)'
    BY <1>1, <1>2, <1>6, <1>7 DEF FromCall
  <2>2. k = Start(r) => tx.behind = {}
    BY <1>1, <1>2
  <2> QED
    BY <1>1, <1>7, <2>1, <2>2 DEF FromPool
<1>11. FirstWaits'
  <2> SUFFICES ASSUME NEW q \in Runs, stage'[q] # "due", Start(q) < overlay'[q],
                      Start(q) = nonceAt[block - 1]
               PROVE  \/ \E t \in pool' : t.run = q /\ t.tag = Start(q)
                      \/ \E t \in accepted' : t.tag = Start(q) /\ q \in t.replaced
    BY <1>5, <1>7 DEF FirstWaits, Replaced
  <2>1. ASSUME stage[q] # "due", Start(q) < overlay[q]
        PROVE  \/ \E t \in pool' : t.run = q /\ t.tag = Start(q)
               \/ \E t \in accepted' : t.tag = Start(q) /\ q \in t.replaced
    <3>1. CASE \E t \in pool : t.run = q /\ t.tag = Start(q)
      <4>1. PICK t \in pool : t.run = q /\ t.tag = Start(q)
        BY <3>1
      <4>2. CASE t.tag = k
        BY <1>1, <1>3, <4>1, <4>2
      <4>3. CASE t.tag # k
        BY <1>3, <4>1, <4>3
      <4> QED
        BY <4>2, <4>3
    <3>2. CASE Replaced(q)
      BY <1>3, <3>2 DEF Replaced
    <3> QED
      BY <2>1, <3>1, <3>2 DEF CallInv, FirstWaits
  <2>2. CASE q # r
    BY <1>6, <2>1, <2>2
  <2>3. CASE q = r /\ k = Start(r)
    BY <1>1, <1>3, <2>3
  <2>4. CASE q = r /\ k # Start(r)
    <3>1. Start(r) < overlay[r]
      BY <1>2, <2>4
    <3> QED
      BY <1>2, <2>1, <2>4, <3>1
  <2> QED
    BY <2>2, <2>3, <2>4
<1>12. CallTypeOK'
  <2>1. \A q \in Runs : stage'[q] # "due" => overlay'[q] \in Start(q) .. Start(q) + 2
    <3>1. overlay'[r] \in Start(r) .. Start(r) + 2
      BY <1>2, <1>6
    <3> QED
      BY <1>6, <3>1 DEF CallInv, CallTypeOK, Start
  <2>2. \A q \in Runs : phase[q] # "idle" => stage'[q] # "due" /\ NodeOf[q] \in EdgeNodes
    BY <1>2, <1>6 DEF CallInv, CallTypeOK
  <2>3. taken' \subseteq pool'
    BY <1>3 DEF CallInv, CallTypeOK
  <2>4. \A q \in Runs : stage'[q] \in Stages
    BY <1>6
  <2> QED
    BY <1>5, <1>7, <2>1, <2>2, <2>3, <2>4 DEF CallInv, CallTypeOK, LockTypeOK, Start, Stages
<1>13. CallsInOrder'
  <2>1. ASSUME NEW q \in Runs
        PROVE  /\ stage'[q] # "due" => /\ NumberOf[q] < block
                                       /\ overlay'[q] \in Nat /\ Start(q) <= overlay'[q]
               /\ stage'[q] = "edge" => overlay'[q] = Start(q) /\ NodeOf[q] \in EdgeNodes
               /\ stage'[q] = "ping" => overlay'[q] <= Start(q) + 1
    <3>1. CASE q = r
      <4>1. NumberOf[r] < block
        BY <1>2 DEF CallInv, CallsInOrder
      <4>2. next # "edge"
        OBVIOUS
      <4> QED
        BY <1>2, <1>6, <3>1, <4>1, <4>2
    <3>2. CASE q # r
      BY <1>6, <3>2 DEF CallInv, CallsInOrder
    <3> QED
      BY <3>1, <3>2
  <2> QED
    BY <1>5, <1>7, <2>1 DEF CallsInOrder
<1>14. StatesInOrder' /\ pool' \subseteq accepted'
  BY <1>3, <1>5, SMTT(40) DEF CallInv, StatesInOrder
<1>15. AppliedInOrder'
  <2>1. applied \in Seq(accepted')
    BY <1>3 DEF CallInv, AppliedInOrder
  <2> QED
    BY <1>5, <1>9, <2>1, SMTT(40) DEF CallInv, AppliedInOrder
<1>16. LockInv'
  BY LockNextInv DEF CallInv, lockVars
<1>17. \A t \in pool' : FromPool(t)'
  BY <1>3, <1>9, <1>10, SMTT(40) DEF CallInv
<1> QED
  BY <1>5, <1>6, <1>11, <1>12, <1>13, <1>14, <1>15, <1>16, <1>17 DEF CallInv

\* send_signed_transaction in a pallet's turn, whatever the pool makes of it.
LEMMA SendingTurnInv ==
    ASSUME CallInv, NEW r \in Runs, NEW pallet, NEW next \in {"ping", "over"},
           <<stage[r], next>> \in {<<"edge", "ping">>, <<"ping", "over">>},
           stage' = [stage EXCEPT ![r] = next],
           SendSigned(r, pallet),
           UNCHANGED <<lockVars, block, pinged, nonce, nonceAt, applied>>
    PROVE  CallInv'
<1>1. CASE /\ pool' = Replace(pool, Tx(r, overlay[r], pallet))
           /\ taken' = taken \ Rivals(pool, Tx(r, overlay[r], pallet))
           /\ overlay' = [overlay EXCEPT ![r] = @ + 1]
           /\ accepted' = accepted \cup {Tx(r, overlay[r], pallet)}
  BY <1>1, AcceptedTurnInv, ZenonT(40)
<1>2. CASE UNCHANGED <<pool, taken, overlay, accepted>>
  BY <1>2, SilentTurnInv, ZenonT(40)
<1> QED
  BY <1>1, <1>2, ZenonT(40) DEF SendSigned

\* The turn of edge-connect.
LEMMA EdgeTurnInv ==
    ASSUME CallInv, NEW r \in Runs, EdgeWithout(r) \/ EdgeSigned(r)
    PROVE  CallInv'
<1>1. CASE EdgeWithout(r)
  BY <1>1, SilentTurnInv, ZenonT(40) DEF EdgeWithout
<1>2. CASE EdgeSigned(r)
  BY <1>2, SendingTurnInv, ZenonT(40) DEF EdgeSigned
<1> QED
  BY <1>1, <1>2

\* The turn of worker-registration.
LEMMA PingTurnInv ==
    ASSUME CallInv, NEW r \in Runs, Ping(r)
    PROVE  CallInv'
<1>1. CASE NumberOf[r] \in pinged
  <2>1. SendSigned(r, "worker-registration")
    BY <1>1 DEF Ping
  <2> QED
    BY <2>1, SendingTurnInv, ZenonT(40) DEF Ping
<1>2. CASE NumberOf[r] \notin pinged
  <2>1. UNCHANGED <<pool, taken, overlay, accepted>>
    BY <1>2 DEF Ping
  <2> QED
    BY <2>1, SilentTurnInv, ZenonT(40) DEF Ping
<1> QED
  BY <1>1, <1>2

\* A call hangs.
LEMMA StallInv ==
    ASSUME CallInv, NEW r \in Runs, Stall(r)
    PROVE  CallInv'
<1>1. stage[r] \in {"edge", "ping"}
  BY DEF Stall
<1> QED
  BY <1>1, SilentTurnInv, ZenonT(40) DEF Stall

\* The account's next transaction enters the block: its nonce is the number of those
\* before it.
LEMMA CallApplyInv ==
    ASSUME CallInv, NEW tx \in pool, Apply(tx)
    PROVE  CallInv'
<1>1. /\ tx \in pool \ taken /\ tx.tag = nonce
      /\ nonce' = nonce + 1 /\ taken' = taken \cup {tx} /\ applied' = Append(applied, tx)
      /\ lastSend' = lastSend /\ phase' = phase /\ seen' = seen
      /\ block' = block /\ pinged' = pinged /\ nonceAt' = nonceAt /\ pool' = pool
      /\ stage' = stage /\ overlay' = overlay /\ accepted' = accepted
  BY DEF Apply, lockVars
<1>2. /\ nonce \in Nat /\ nonceAt[block - 1] \in Nat /\ nonceAt[block - 1] <= nonce
      /\ \A r \in Runs : stage[r] # "due" => Start(r) \in Nat /\ Start(r) <= nonceAt[block - 1]
      /\ \A r \in Runs : stage[r] # "due" => overlay[r] \in Nat
  BY CallNumbers
<1>3. \A r \in Runs : Start(r)' = Start(r)
  BY <1>1 DEF Start
<1>4. \A t : FromCall(t)' = FromCall(t)
  BY <1>1 DEF FromCall, Start
<1>5. \A t \in pool' : FromPool(t)'
  BY <1>1, <1>4 DEF CallInv, FromPool, Start
<1>6. taken' \subseteq pool'
  BY <1>1 DEF CallInv, CallTypeOK
<1>7. AppliedInOrder'
  <2>1. applied \in Seq(accepted) /\ nonce = Len(applied) /\ tx \in accepted
    BY <1>1 DEF CallInv, AppliedInOrder
  <2>2. /\ applied' \in Seq(accepted) /\ Len(applied') = Len(applied) + 1
        /\ \A i \in 1 .. Len(applied) : applied'[i] = applied[i]
        /\ applied'[Len(applied) + 1] = tx
    BY <1>1, <2>1, AppendProperties
  <2>3. FromCall(tx)
    BY DEF CallInv, FromPool
  <2>4. ASSUME NEW i \in DOMAIN applied' PROVE applied'[i].tag = i - 1 /\ FromCall(applied'[i])
    <3>1. i \in 1 .. Len(applied) \/ i = Len(applied) + 1
      BY <2>1, <2>2, LenProperties
    <3>2. CASE i \in 1 .. Len(applied)
      BY <2>1, <2>2, <3>2, LenProperties DEF CallInv, AppliedInOrder
    <3>3. CASE i = Len(applied) + 1
      BY <1>1, <1>2, <2>1, <2>2, <2>3, <3>3
    <3> QED
      BY <3>1, <3>2, <3>3
  <2> QED
    BY <1>1, <1>4, <2>1, <2>2, <2>4 DEF AppliedInOrder
<1>8. FirstWaits'
  BY <1>1, <1>3 DEF CallInv, FirstWaits, Replaced
<1>9. CallTypeOK'
  BY <1>1, <1>3, <1>6, <1>7 DEF CallInv, CallTypeOK, LockTypeOK, AppliedInOrder
<1>10. StatesInOrder' /\ CallsInOrder' /\ nonce' \in Nat
  <2>1. StatesInOrder' /\ nonce' \in Nat
    BY <1>1, <1>2 DEF CallInv, StatesInOrder
  <2>2. CallsInOrder'
    BY <1>1, <1>3 DEF CallInv, CallsInOrder
  <2> QED
    BY <2>1, <2>2
<1>11. LockInv'
  BY <1>1, LockNextInv DEF CallInv, lockVars
<1> QED
  BY <1>1, <1>5, <1>6, <1>7, <1>8, <1>9, <1>10, <1>11 DEF CallInv

\* What depends on nothing does not go with another.
LEMMA SubtreeSpares ==
    ASSUME NEW tx \in pool, NEW t \in pool, t # tx, t.behind = {}
    PROVE  t \notin Subtree(tx)
<1> DEFINE gone == pool \ {t}
<1>1. Providers(t) = {}
  BY DEF Providers
<1>2. gone \in SUBSET pool /\ tx \in gone /\ t \notin gone
  OBVIOUS
<1>3. \A u \in pool : Providers(u) \cap gone # {} => u \in gone
  BY <1>1
<1> HIDE DEF gone
<1> QED
  BY <1>2, <1>3 DEF Subtree

\* A stale transaction leaves with what depends on it, never with the first transaction
\* of a call whose nonce is still to come.
LEMMA CallDropStaleInv ==
    ASSUME CallInv, NEW tx \in pool, DropStale(tx)
    PROVE  CallInv'
<1>1. /\ tx.tag < nonceAt[block - 1]
      /\ pool' = pool \ Subtree(tx) /\ taken' = taken \ Subtree(tx)
      /\ lastSend' = lastSend /\ phase' = phase /\ seen' = seen
      /\ block' = block /\ pinged' = pinged /\ nonce' = nonce /\ nonceAt' = nonceAt
      /\ stage' = stage /\ overlay' = overlay
      /\ accepted' = accepted /\ applied' = applied
  BY DEF DropStale, lockVars
<1>2. \A r \in Runs : Start(r)' = Start(r)
  BY <1>1 DEF Start
<1>3. \A t : FromCall(t)' = FromCall(t) /\ FromPool(t)' = FromPool(t)
  BY <1>1 DEF FromCall, FromPool, Start
<1>4. FirstWaits'
  <2> SUFFICES ASSUME NEW r \in Runs, stage[r] # "due", Start(r) < overlay[r],
                      Start(r) = nonceAt[block - 1]
               PROVE  (\E t \in pool' : t.run = r /\ t.tag = Start(r)) \/ Replaced(r)
    BY <1>1, <1>2 DEF FirstWaits, Replaced
  <2>1. CASE \E t \in pool : t.run = r /\ t.tag = Start(r)
    <3>1. PICK t \in pool : t.run = r /\ t.tag = Start(r)
      BY <2>1
    <3>2. t # tx
      BY <1>1, <3>1, CallNumbers
    <3>3. t.behind = {}
      BY <3>1 DEF CallInv, FromPool
    <3>4. t \notin Subtree(tx)
      BY <3>2, <3>3, SubtreeSpares
    <3> QED
      BY <1>1, <3>1, <3>4
  <2> QED
    BY <2>1 DEF CallInv, FirstWaits
<1>5. CallTypeOK'
  <2>1. taken' \subseteq pool'
    BY <1>1 DEF CallInv, CallTypeOK
  <2> QED
    BY <1>1, <1>2, <2>1 DEF CallInv, CallTypeOK, LockTypeOK
<1>6. StatesInOrder' /\ CallsInOrder' /\ AppliedInOrder'
  BY <1>1, <1>2, <1>3 DEF CallInv, StatesInOrder, CallsInOrder, AppliedInOrder
<1>7. LockInv'
  BY <1>1, LockNextInv DEF CallInv, lockVars
<1>8. \A t \in pool' : FromPool(t)'
  BY <1>1, <1>3 DEF CallInv
<1> QED
  BY <1>1, <1>4, <1>5, <1>6, <1>7, <1>8 DEF CallInv

\* Every step keeps the invariant.
LEMMA CallNextInv == CallInv /\ [CallNext]_allVars => CallInv'
<1> SUFFICES ASSUME CallInv, [CallNext]_allVars PROVE CallInv'
  OBVIOUS
<1>1. CASE \E registered \in BOOLEAN : Seal(registered)
  BY <1>1, CallSealInv
<1>2. ASSUME NEW r \in Runs, Step(r) \/ Stall(r) PROVE CallInv'
  BY <1>2, BeginInv, EdgeLockInv, EdgeTurnInv, PingTurnInv, StallInv DEF Step
<1>3. ASSUME NEW tx \in pool, Apply(tx) \/ DropStale(tx) PROVE CallInv'
  BY <1>3, CallApplyInv, CallDropStaleInv
<1>4. CASE UNCHANGED allVars
  <2>1. LockInv' /\ UNCHANGED callVars /\ phase' = phase
    BY <1>4, LockNextInv DEF CallInv, allVars, lockVars
  <2>2. /\ stage \in [Runs -> Stages] /\ overlay \in [Runs -> Nat]
        /\ \A q \in Runs : phase[q] # "idle" => stage[q] # "due" /\ NodeOf[q] \in EdgeNodes
        /\ \A q \in Runs : stage[q] = "edge" => overlay[q] = Start(q) /\ NodeOf[q] \in EdgeNodes
        /\ \A q \in Runs : stage[q] = "ping" => overlay[q] <= Start(q) + 1
    BY DEF CallInv, CallTypeOK, CallsInOrder
  <2> QED
    BY <2>1, <2>2, SamePoolInv DEF callVars
<1> QED
  BY <1>1, <1>2, <1>3, <1>4 DEF CallNext

-------------------------------------------------------------------------------
(* Theorems *)

\* Whatever the nodes, the keys, the order of the calls and the blocks they run for:
\* the calls and the account's nonces stay in order as CallInv says.
THEOREM CallSafety == CallSpec => []CallInv
  BY CallInitInv, CallNextInv, PTL DEF CallSpec

\* The types; a call's overlay is never ahead of its block's state by more than the
\* two transactions the pallets may send in it.
THEOREM CallTypes == CallSpec => []CallTypeOK
<1>1. CallInv => CallTypeOK
  BY DEF CallInv
<1> QED
  BY <1>1, CallSafety, PTL

\* Every pooled transaction has the nonces before its own in the pool or on chain,
\* unless another call's transaction took the place of the one its own call sent first:
\* send_signed_transaction never opens a gap by counting on, only a replacement does.
THEOREM NoOtherGap == CallSpec => []GapOnlyIfReplaced
  BY GapByInv, CallSafety, PTL

\* A ping is reported at most twice, and the second time only behind a response of
\* edge-connect in the same call.
THEOREM SecondReport == CallSpec => []SecondReportBehindResponse
  BY SecondReportByInv, CallSafety, PTL

\* The calls use the lock of choose_transaction_type as its own specification says,
\* although the rest of the call goes on around it.
THEOREM CallKeepsLock == CallSpec => LockSpec
<1>1. CallInit => LockInit
  BY DEF CallInit
<1>2. [CallNext]_allVars => [LockNext]_lockVars
  <2>1. ASSUME NEW r \in Runs, EdgeLock(r) PROVE LockNext
    BY <2>1 DEF EdgeLock, LockNext
  <2> QED
    BY <2>1
    DEF CallNext, Step, Seal, Begin, EdgeWithout, EdgeSigned, Ping, Stall, Apply, DropStale, allVars
<1> QED
  BY <1>1, <1>2, PTL DEF CallSpec, LockSpec
===============================================================================
