---------------------------- MODULE EdgeOracleProofs ----------------------------
(***************************************************************************)
(* Proofs about the edge-connect oracle end to end, for any nodes, keys,     *)
(* runs, restarts and blocks, however late workers and transactions are:     *)
(* what the cooldown check of the workers and the tags of validate_unsigned   *)
(* make of the interval that no call enforces.                             *)
(***************************************************************************)
EXTENDS EdgeOracle, SendLockProofs, EdgeConnectProofs

\* The obligations of this module are many rather than hard.
USE SMTT(30)

\* r is the run that a transaction, or a response on chain, comes from.
MadeBy(r, node, number) == NodeOf[r] = node /\ NumberOf[r] = number /\ sender[r] # "no"

\* What an unsigned transaction provides is a matter of its call alone.
UnsignedTag(call) ==
    IF call = "submit_response_unsigned" THEN <<"submit_number_unsigned", 0>>
    ELSE <<"submit_number_unsigned_with_signed_payload", 0>>

\* Where every run is in its life.
RunsInOrder ==
    \A r \in Runs :
        /\ phase[r] # "idle" => NumberOf[r] < block
        /\ sender[r] \in {"no", "sending", "over"}
        /\ sender[r] # "no" => phase[r] = "granted"
        /\ todo[r] # {} => sender[r] = "sending"

\* What a run has to send, and the pool holds, passed the cooldown check of its run.
Checked(tx) ==
    ~IsSigned(tx) => /\ tx.call \in UnsignedCalls /\ tx.tag = UnsignedTag(tx.call)
                     /\ nextAt[tx.number] <= tx.number

TransactionsChecked ==
    /\ \A r \in Runs : \A tx \in todo[r] :
          tx.node = NodeOf[r] /\ tx.number = NumberOf[r] /\ Checked(tx)
    /\ \A tx \in pool : Checked(tx) /\ \E r \in Runs : MadeBy(r, tx.node, tx.number)

\* What is on chain passed the check as well, and moved the cooldown in every state
\* that has it.
ChainChecked ==
    \A i \in DOMAIN applied :
        /\ \E r \in Runs : MadeBy(r, applied[i].node, applied[i].from)
        /\ applied[i].call \in UnsignedCalls
        /\ applied[i].in \in Nat /\ applied[i].in <= block
        /\ nextAt[applied[i].from] <= applied[i].from
        /\ applied[i].in + UnsignedInterval <= NextUnsignedAt
        /\ \A b \in 1 .. block - 1 :
              applied[i].in <= b => applied[i].in + UnsignedInterval <= nextAt[b]

\* The pool has one unsigned transaction of each call at most, and it keeps the one
\* that the block under construction has.
OneOfEachCall ==
    /\ taken \subseteq pool
    /\ \A tx, other \in pool : (~IsSigned(tx) /\ other.call = tx.call) => other = tx
    /\ \A i \in DOMAIN applied :
          applied[i].in = block => \E tx \in taken : tx.call = applied[i].call
    /\ UnsignedDeduplicated

OracleInv ==
    /\ LockInv
    /\ block \in Nat \ {0} /\ NextUnsignedAt \in Nat
    /\ nextAt \in Seq(Nat) /\ Len(nextAt) = block - 1
    /\ sender \in [Runs -> {"no", "sending", "over"}] /\ todo = [r \in Runs |-> todo[r]]
    /\ \E S : applied \in Seq(S)
    /\ RunsInOrder /\ TransactionsChecked /\ ChainChecked /\ OneOfEachCall

-------------------------------------------------------------------------------
(* What the invariant gives *)

\* What is waiting or on chain comes from a block that is sealed.
LEMMA SealedBefore ==
    ASSUME OracleInv, NEW r \in Runs, NEW node, NEW number, MadeBy(r, node, number)
    PROVE  number \in 1 .. block - 1 /\ number \in Nat \ {0}
<1>1. NumberOf[r] \in Nat \ {0} /\ block \in Nat /\ number = NumberOf[r]
  BY LockAssumption DEF OracleInv, MadeBy
<1>2. NumberOf[r] < block
  BY DEF OracleInv, RunsInOrder, MadeBy
<1> QED
  BY <1>1, <1>2

\* The argument for the cooldown.  A response that was on chain when the later worker's
\* block was sealed had moved NextUnsignedAt in the state that the worker checked.
LEMMA CooldownByInv == OracleInv => CooldownObserved
<1> SUFFICES ASSUME OracleInv, NEW i \in DOMAIN applied, NEW j \in DOMAIN applied,
                    applied[i].in <= applied[j].from
             PROVE  applied[i].in + UnsignedInterval <= applied[j].from
  BY DEF CooldownObserved
<1> DEFINE a == applied[i].in
           z == applied[j].from
<1>1. /\ a \in Nat /\ nextAt[z] <= z
      /\ \A b \in 1 .. block - 1 : a <= b => a + UnsignedInterval <= nextAt[b]
  BY DEF OracleInv, ChainChecked
<1>2. PICK r \in Runs : MadeBy(r, applied[j].node, z)
  BY DEF OracleInv, ChainChecked
<1>3. z \in 1 .. block - 1 /\ z \in Nat
  BY <1>2, SealedBefore
<1>4. nextAt[z] \in Nat /\ UnsignedInterval \in Nat
  BY <1>3, EdgeAssumption DEF OracleInv
<1> HIDE DEF a, z
<1>5. a + UnsignedInterval <= nextAt[z]
  BY <1>1, <1>3 DEF a, z
<1>6. a + UnsignedInterval <= z
  BY <1>1, <1>3, <1>4, <1>5
<1> QED
  BY <1>6 DEF a, z

-------------------------------------------------------------------------------
(* Every step preserves the invariant *)

\* Nothing has run yet.
LEMMA OracleInitInv == OracleInit => OracleInv
<1> SUFFICES ASSUME OracleInit PROVE OracleInv
  OBVIOUS
<1>1. LockInv
  BY LockInitInv DEF OracleInit
<1>2. /\ block = 1 /\ NextUnsignedAt = 0 /\ nextAt = <<>> /\ applied = <<>>
      /\ pool = {} /\ taken = {}
      /\ todo = [r \in Runs |-> {}] /\ sender = [r \in Runs |-> "no"]
      /\ phase = [r \in Runs |-> "idle"]
  BY DEF OracleInit, Init, LockInit
<1>3. RunsInOrder
  BY <1>2 DEF RunsInOrder
<1>4. TransactionsChecked /\ ChainChecked /\ OneOfEachCall
  BY <1>2 DEF TransactionsChecked, ChainChecked, OneOfEachCall, UnsignedDeduplicated
<1> QED
  BY <1>1, <1>2, <1>3, <1>4 DEF OracleInv

\* A user's call is no business of the workers, and neither is a step that changes
\* nothing.
LEMMA SameInv ==
    ASSUME OracleInv, UNCHANGED <<lockVars, oracleVars, block, NextUnsignedAt>>
    PROVE  OracleInv'
<1>1. UNCHANGED <<lastSend, phase, seen, nextAt, pool, taken, todo, sender, applied, block,
                  NextUnsignedAt>>
  BY DEF lockVars, oracleVars
<1>2. LockInv'
  BY LockNextInv DEF OracleInv, lockVars
<1>3. RunsInOrder'
  BY <1>1 DEF OracleInv, RunsInOrder
<1>4. TransactionsChecked'
  BY <1>1 DEF OracleInv, TransactionsChecked, MadeBy, Checked
<1>5. ChainChecked'
  BY <1>1 DEF OracleInv, ChainChecked, MadeBy
<1>6. OneOfEachCall'
  BY <1>1 DEF OracleInv, OneOfEachCall, UnsignedDeduplicated
<1> QED
  BY <1>1, <1>2, <1>3, <1>4, <1>5, <1>6 DEF OracleInv

\* A block is sealed: the state kept for it has every cooldown before it, and the next
\* block has no response yet.
LEMMA SealInv ==
    ASSUME OracleInv, Seal
    PROVE  OracleInv'
<1>1. /\ block' = block + 1 /\ NextUnsignedAt' = NextUnsignedAt
      /\ UNCHANGED <<lastSend, phase, seen, todo, sender, applied>>
      /\ nextAt' = Append(nextAt, NextUnsignedAt)
      /\ pool' \subseteq pool /\ taken' = {}
  BY DEF Seal, NewBlock, lockVars
<1>2. /\ block \in Nat \ {0} /\ NextUnsignedAt \in Nat /\ nextAt \in Seq(Nat)
      /\ Len(nextAt) = block - 1 /\ NumberOf \in [Runs -> Nat \ {0}]
  BY LockAssumption DEF OracleInv
<1>3. LockInv'
  BY <1>1, LockNextInv DEF OracleInv, lockVars
<1>4. /\ nextAt' \in Seq(Nat) /\ Len(nextAt') = block' - 1
      /\ \A b \in 1 .. block - 1 : nextAt'[b] = nextAt[b]
      /\ nextAt'[block] = NextUnsignedAt
  BY <1>1, <1>2
<1>5. RunsInOrder'
  <2> SUFFICES ASSUME NEW r \in Runs
               PROVE  phase[r] # "idle" => NumberOf[r] < block + 1
    BY <1>1 DEF OracleInv, RunsInOrder
  <2>1. NumberOf[r] \in Nat
    BY <1>2
  <2> QED
    BY <1>1, <1>2, <2>1 DEF OracleInv, RunsInOrder
<1>6. \A r \in Runs : \A node, number : MadeBy(r, node, number)' <=> MadeBy(r, node, number)
  BY <1>1 DEF MadeBy
<1>7. \A r \in Runs : \A node, number : MadeBy(r, node, number) => nextAt'[number] = nextAt[number]
  BY <1>4, SealedBefore
<1>8. TransactionsChecked'
  <2>1. ASSUME NEW r \in Runs, NEW tx \in todo[r]
        PROVE  tx.node = NodeOf[r] /\ tx.number = NumberOf[r] /\ Checked(tx)'
    <3>1. MadeBy(r, tx.node, tx.number) /\ Checked(tx)
      BY <2>1 DEF OracleInv, TransactionsChecked, RunsInOrder, MadeBy
    <3> QED
      BY <2>1, <3>1, <1>7 DEF OracleInv, TransactionsChecked, Checked
  <2>2. ASSUME NEW tx \in pool'
        PROVE  Checked(tx)' /\ \E r \in Runs : MadeBy(r, tx.node, tx.number)'
    <3>1. tx \in pool
      BY <1>1, <2>2
    <3>2. PICK r \in Runs : MadeBy(r, tx.node, tx.number)
      BY <3>1 DEF OracleInv, TransactionsChecked
    <3>3. Checked(tx)
      BY <3>1 DEF OracleInv, TransactionsChecked
    <3>4. Checked(tx)'
      BY <3>2, <3>3, <1>7 DEF Checked
    <3> QED
      BY <3>2, <3>4, <1>6
  <2> QED
    BY <2>1, <2>2, <1>1 DEF TransactionsChecked
<1>9. ChainChecked'
  <2>1. block' - 1 = block
    BY <1>1, <1>2
  <2>2. ASSUME NEW i \in DOMAIN applied
        PROVE  /\ \E r \in Runs : /\ NodeOf[r] = applied[i].node
                                   /\ NumberOf[r] = applied[i].from /\ sender[r] # "no"
               /\ applied[i].call \in UnsignedCalls
               /\ applied[i].in \in Nat /\ applied[i].in <= block'
               /\ nextAt'[applied[i].from] <= applied[i].from
               /\ applied[i].in + UnsignedInterval <= NextUnsignedAt
               /\ \A b \in 1 .. block' - 1 :
                     applied[i].in <= b => applied[i].in + UnsignedInterval <= nextAt'[b]
    <3>1. PICK r \in Runs : MadeBy(r, applied[i].node, applied[i].from)
      BY DEF OracleInv, ChainChecked
    <3>2. /\ applied[i].call \in UnsignedCalls
          /\ applied[i].in \in Nat /\ applied[i].in <= block
          /\ nextAt[applied[i].from] <= applied[i].from
          /\ applied[i].in + UnsignedInterval <= NextUnsignedAt
          /\ \A b \in 1 .. block - 1 :
                applied[i].in <= b => applied[i].in + UnsignedInterval <= nextAt[b]
      BY DEF OracleInv, ChainChecked
    <3>3. \A b \in 1 .. block' - 1 :
             applied[i].in <= b => applied[i].in + UnsignedInterval <= nextAt'[b]
      <4> TAKE b \in 1 .. block' - 1
      <4>1. CASE b = block
        BY <4>1, <3>2, <1>4
      <4>2. CASE b \in 1 .. block - 1
        BY <4>2, <3>2, <1>4
      <4> QED
        BY <4>1, <4>2, <1>2, <2>1
    <3>4. nextAt'[applied[i].from] <= applied[i].from
      BY <3>1, <3>2, <1>7
    <3>5. applied[i].in <= block'
      BY <3>2, <1>1, <1>2
    <3> QED
      BY <3>1, <3>2, <3>3, <3>4, <3>5 DEF MadeBy
  <2>3. applied' = applied /\ sender' = sender /\ NextUnsignedAt' = NextUnsignedAt
    BY <1>1
  <2> QED
    BY <2>2, <2>3 DEF ChainChecked, MadeBy
<1>10. OneOfEachCall'
  <2>1. \A i \in DOMAIN applied : applied[i].in # block + 1
    BY <1>2 DEF OracleInv, ChainChecked
  <2>2. \A tx, other \in pool' : (~IsSigned(tx) /\ other.call = tx.call) => other = tx
    BY <1>1 DEF OracleInv, OneOfEachCall
  <2> QED
    BY <1>1, <2>1, <2>2 DEF OracleInv, OneOfEachCall, UnsignedDeduplicated
<1> QED
  BY <1>1, <1>2, <1>3, <1>4, <1>5, <1>8, <1>9, <1>10 DEF OracleInv

\* A run starts, or ends its turn at the lock: it has sent nothing.
LEMMA TakeLockInv ==
    ASSUME OracleInv, NEW r \in Runs, TakeLock(r)
    PROVE  OracleInv'
<1>1. /\ UNCHANGED <<nextAt, pool, taken, todo, sender, applied, block, NextUnsignedAt>>
      /\ NumberOf[r] < block
      /\ ReadLast(r) \/ CompareAndSet(r)
  BY DEF TakeLock, edgeVars, oracleVars
<1>2. LockInv'
  BY <1>1, ReadLastInv, CompareAndSetInv DEF OracleInv
<1>3. /\ phase[r] \in {"idle", "read"}
      /\ \A q \in Runs : q # r => phase'[q] = phase[q]
  BY <1>1 DEF OracleInv, LockInv, LockTypeOK, ReadLast, CompareAndSet
<1>4. RunsInOrder'
  <2> SUFFICES ASSUME NEW q \in Runs
               PROVE  /\ phase'[q] # "idle" => NumberOf[q] < block
                      /\ sender[q] \in {"no", "sending", "over"}
                      /\ sender[q] # "no" => phase'[q] = "granted"
                      /\ todo[q] # {} => sender[q] = "sending"
    BY <1>1 DEF RunsInOrder
  <2>1. CASE q = r
    BY <2>1, <1>1, <1>3 DEF OracleInv, RunsInOrder
  <2>2. CASE q # r
    BY <2>2, <1>1, <1>3 DEF OracleInv, RunsInOrder
  <2> QED
    BY <2>1, <2>2
<1>5. TransactionsChecked'
  BY <1>1 DEF OracleInv, TransactionsChecked, MadeBy, Checked
<1>6. ChainChecked'
  BY <1>1 DEF OracleInv, ChainChecked, MadeBy
<1>7. OneOfEachCall'
  BY <1>1 DEF OracleInv, OneOfEachCall, UnsignedDeduplicated
<1> QED
  BY <1>1, <1>2, <1>4, <1>5, <1>6, <1>7 DEF OracleInv

\* What a run prepares carries its node and block, and is unsigned only if the cooldown
\* check passed.
LEMMA PreparedChecked ==
    ASSUME OracleInv, NEW r \in Runs, phase[r] = "granted", NEW text,
           TransactionType(NumberOf[r]) # "Signed" => ~TooEarly(NumberOf[r]),
           NEW txs \in Prepared(r, text)
    PROVE  \A tx \in txs : tx.node = NodeOf[r] /\ tx.number = NumberOf[r] /\ Checked(tx)
<1>1. /\ NumberOf[r] \in Nat \ {0} /\ NumberOf[r] < block /\ block \in Nat
      /\ nextAt \in Seq(Nat) /\ Len(nextAt) = block - 1
  BY LockAssumption DEF OracleInv, RunsInOrder
<1>2. nextAt[NumberOf[r]] \in Nat
  BY <1>1
<1>3. NumberOf[r] % 4 \in 0 .. 3
  BY <1>1
<1>4. CASE TransactionType(NumberOf[r]) = "Signed"
  <2>1. txs = {SignedTx(r, k, text) : k \in Keys[NodeOf[r]]}
    BY <1>4 DEF Prepared
  <2> QED
    BY <2>1 DEF SignedTx, Checked, IsSigned
<1>5. CASE TransactionType(NumberOf[r]) # "Signed"
  <2>1. nextAt[NumberOf[r]] <= NumberOf[r]
    BY <1>1, <1>2, <1>5 DEF TooEarly
  <2>2. \/ \E k \in Keys[NodeOf[r]] : txs = {PayloadTx(r, k, text)}
        \/ txs = {PayloadTx(r, k, text) : k \in Keys[NodeOf[r]]}
        \/ txs = {RawTx(r, text)}
    <3>1. CASE TransactionType(NumberOf[r]) = "UnsignedForAny"
      BY <3>1 DEF Prepared
    <3>2. CASE TransactionType(NumberOf[r]) = "UnsignedForAll"
      BY <3>2 DEF Prepared
    <3>3. CASE TransactionType(NumberOf[r]) = "Raw"
      BY <3>3 DEF Prepared
    <3>4. NumberOf[r] % 4 = 0 \/ NumberOf[r] % 4 = 1 \/ NumberOf[r] % 4 = 2 \/ NumberOf[r] % 4 = 3
      BY <1>3
    <3> QED
      BY <3>1, <3>2, <3>3, <3>4, <1>5 DEF TransactionType
  <2> QED
    BY <2>1, <2>2 DEF PayloadTx, RawTx, Checked, IsSigned, UnsignedCalls, UnsignedTag
<1> QED
  BY <1>4, <1>5

\* A run fetches, and has something to send or is over.
LEMMA FetchInv ==
    ASSUME OracleInv, NEW r \in Runs, Fetch(r)
    PROVE  OracleInv'
<1>1. /\ UNCHANGED <<lastSend, phase, seen, nextAt, pool, taken, applied, block, NextUnsignedAt>>
      /\ phase[r] = "granted" /\ sender[r] = "no"
  BY DEF Fetch, edgeVars, lockVars
<1>2. LockInv'
  BY <1>1, LockNextInv DEF OracleInv, lockVars
<1>3. /\ sender \in [Runs -> {"no", "sending", "over"}] /\ todo = [q \in Runs |-> todo[q]]
      /\ todo[r] = {}
  BY <1>1 DEF OracleInv, RunsInOrder
<1>4. \/ sender' = [sender EXCEPT ![r] = "over"] /\ todo' = todo
      \/ \E text : \E txs \in Prepared(r, text) :
            /\ TransactionType(NumberOf[r]) # "Signed" => ~TooEarly(NumberOf[r])
            /\ sender' = [sender EXCEPT ![r] = "sending"]
            /\ todo' = [todo EXCEPT ![r] = txs]
  BY DEF Fetch
<1>5. /\ sender' \in [Runs -> {"no", "sending", "over"}] /\ sender'[r] # "no"
      /\ todo' = [q \in Runs |-> todo'[q]]
      /\ todo'[r] # {} => sender'[r] = "sending"
      /\ \A q \in Runs : q # r => sender'[q] = sender[q] /\ todo'[q] = todo[q]
  BY <1>3, <1>4
<1>6. \A tx \in todo'[r] : tx.node = NodeOf[r] /\ tx.number = NumberOf[r] /\ Checked(tx)
  <2>1. CASE todo' = todo
    BY <2>1, <1>3
  <2>2. ASSUME NEW text, NEW txs \in Prepared(r, text),
               TransactionType(NumberOf[r]) # "Signed" => ~TooEarly(NumberOf[r]),
               todo' = [todo EXCEPT ![r] = txs]
        PROVE  \A tx \in todo'[r] : tx.node = NodeOf[r] /\ tx.number = NumberOf[r] /\ Checked(tx)
    <3>1. \A tx \in txs : tx.node = NodeOf[r] /\ tx.number = NumberOf[r] /\ Checked(tx)
      BY <2>2, <1>1, PreparedChecked
    <3>2. todo'[r] = txs
      BY <2>2, <1>3
    <3> QED
      BY <3>1, <3>2
  <2> QED
    BY <1>4, <2>1, <2>2
<1>8. RunsInOrder'
  <2> SUFFICES ASSUME NEW q \in Runs
               PROVE  /\ phase[q] # "idle" => NumberOf[q] < block
                      /\ sender'[q] \in {"no", "sending", "over"}
                      /\ sender'[q] # "no" => phase[q] = "granted"
                      /\ todo'[q] # {} => sender'[q] = "sending"
    BY <1>1 DEF RunsInOrder
  <2>1. CASE q = r
    BY <2>1, <1>1, <1>5, <1>6 DEF OracleInv, RunsInOrder
  <2>2. CASE q # r
    BY <2>2, <1>1, <1>5, <1>6 DEF OracleInv, RunsInOrder
  <2> QED
    BY <2>1, <2>2
<1>9. \A q \in Runs : \A node, number : MadeBy(q, node, number) => MadeBy(q, node, number)'
  BY <1>1, <1>5, <1>6 DEF MadeBy
<1>10. TransactionsChecked'
  <2>1. ASSUME NEW q \in Runs, NEW tx \in todo'[q]
        PROVE  tx.node = NodeOf[q] /\ tx.number = NumberOf[q] /\ Checked(tx)
    <3>1. CASE q = r
      BY <2>1, <3>1, <1>5, <1>6
    <3>2. CASE q # r
      BY <2>1, <3>2, <1>5, <1>6 DEF OracleInv, TransactionsChecked
    <3> QED
      BY <3>1, <3>2
  <2> QED
    BY <2>1, <1>1, <1>9 DEF OracleInv, TransactionsChecked, Checked
<1>11. ChainChecked'
  BY <1>1, <1>9 DEF OracleInv, ChainChecked, MadeBy
<1>12. OneOfEachCall'
  BY <1>1 DEF OracleInv, OneOfEachCall, UnsignedDeduplicated
<1> QED
  BY <1>1, <1>2, <1>5, <1>6, <1>8, <1>10, <1>11, <1>12, ZenonT(40) DEF OracleInv

\* What a submission does to the pool: an unsigned transaction in it stays, and the new
\* one comes in only where no other keeps its tag.
LEMMA PoolAfterSubmit ==
    ASSUME NEW r \in Runs, NEW tx \in todo[r], SubmitTx(r, tx)
    PROVE  /\ pool' \subseteq pool \cup {tx}
           /\ \A other \in pool : ~IsSigned(other) => other \in pool'
           /\ pool' = pool \/ \A other \in pool' : other = tx \/ other.tag # tx.tag
<1>1. CASE pool' = Submit(pool, tx)
  BY <1>1 DEF Submit, Rivals
<1>2. CASE pool' = Replace(pool, tx) /\ \A other \in Rivals(pool, tx) : MayReplace(tx, other)
  BY <1>2 DEF Replace, Rivals, MayReplace
<1> QED
  BY <1>1, <1>2 DEF SubmitTx

\* A run submits: the transaction leaves its list for the pool, or for nowhere.
LEMMA SubmitTxInv ==
    ASSUME OracleInv, NEW r \in Runs, NEW tx \in todo[r], SubmitTx(r, tx)
    PROVE  OracleInv'
<1>1. /\ UNCHANGED <<lastSend, phase, seen, nextAt, applied, block, NextUnsignedAt>>
      /\ taken' = taken \cap pool'
      /\ todo' = [todo EXCEPT ![r] = @ \ {tx}]
      /\ sender' = [sender EXCEPT ![r] = IF todo[r] = {tx} THEN "over" ELSE @]
  BY DEF SubmitTx, edgeVars, lockVars
<1>2. LockInv'
  BY <1>1, LockNextInv DEF OracleInv, lockVars
<1>3. /\ sender \in [Runs -> {"no", "sending", "over"}] /\ todo = [q \in Runs |-> todo[q]]
      /\ sender[r] = "sending" /\ phase[r] = "granted"
      /\ tx.node = NodeOf[r] /\ tx.number = NumberOf[r] /\ Checked(tx)
  BY DEF OracleInv, RunsInOrder, TransactionsChecked
<1>4. /\ sender' \in [Runs -> {"no", "sending", "over"}] /\ sender'[r] \in {"sending", "over"}
      /\ todo' = [q \in Runs |-> todo'[q]]
      /\ todo'[r] = todo[r] \ {tx}
      /\ todo'[r] # {} => sender'[r] = "sending"
      /\ \A q \in Runs : q # r => sender'[q] = sender[q] /\ todo'[q] = todo[q]
  BY <1>1, <1>3
<1>5. RunsInOrder'
  <2> SUFFICES ASSUME NEW q \in Runs
               PROVE  /\ phase[q] # "idle" => NumberOf[q] < block
                      /\ sender'[q] \in {"no", "sending", "over"}
                      /\ sender'[q] # "no" => phase[q] = "granted"
                      /\ todo'[q] # {} => sender'[q] = "sending"
    BY <1>1 DEF RunsInOrder
  <2>1. CASE q = r
    BY <2>1, <1>1, <1>3, <1>4 DEF OracleInv, RunsInOrder
  <2>2. CASE q # r
    BY <2>2, <1>1, <1>4 DEF OracleInv, RunsInOrder
  <2> QED
    BY <2>1, <2>2
<1>6. \A q \in Runs : \A node, number : MadeBy(q, node, number) <=> MadeBy(q, node, number)'
  BY <1>3, <1>4 DEF MadeBy
<1>7. MadeBy(r, tx.node, tx.number)
  BY <1>3 DEF MadeBy
<1>8. pool' \subseteq pool \cup {tx}
  BY PoolAfterSubmit
<1>9. TransactionsChecked'
  <2>1. \A q \in Runs : todo'[q] \subseteq todo[q]
    BY <1>4
  <2>2. ASSUME NEW t \in pool'
        PROVE  Checked(t) /\ \E q \in Runs : MadeBy(q, t.node, t.number)
    <3>1. CASE t = tx
      BY <3>1, <1>3, <1>7
    <3>2. CASE t \in pool
      BY <3>2 DEF OracleInv, TransactionsChecked
    <3> QED
      BY <2>2, <3>1, <3>2, <1>8
  <2> QED
    BY <2>1, <2>2, <1>1, <1>6 DEF OracleInv, TransactionsChecked, Checked
<1>10. ChainChecked'
  BY <1>1, <1>4, <1>3 DEF OracleInv, ChainChecked, MadeBy
<1>11. OneOfEachCall'
  <2>1. ASSUME NEW t \in pool', NEW other \in pool', ~IsSigned(t), other.call = t.call
        PROVE  other = t
    <3>1. CASE pool' = pool
      BY <2>1, <3>1 DEF OracleInv, OneOfEachCall
    <3>2. CASE \A u \in pool' : u = tx \/ u.tag # tx.tag
      <4>1. ~IsSigned(other)
        BY <2>1 DEF IsSigned
      <4>2. t.tag = other.tag
        <5>1. Checked(t) /\ Checked(other)
          BY <1>3, <1>8 DEF OracleInv, TransactionsChecked
        <5> QED
          BY <2>1, <4>1, <5>1 DEF Checked
      <4>3. CASE t # tx /\ other # tx
        BY <1>8, <2>1, <4>3 DEF OracleInv, OneOfEachCall
      <4> QED
        BY <3>2, <4>2, <4>3
    <3> QED
      BY <3>1, <3>2, PoolAfterSubmit
  <2>2. ASSUME NEW i \in DOMAIN applied, applied[i].in = block
        PROVE  \E t \in taken' : t.call = applied[i].call
    <3>1. PICK t \in taken : t.call = applied[i].call
      BY <2>2 DEF OracleInv, OneOfEachCall
    <3>2. ~IsSigned(t) /\ t \in pool
      BY <3>1 DEF OracleInv, OneOfEachCall, ChainChecked, UnsignedCalls, IsSigned
    <3> QED
      BY <1>1, <3>1, <3>2, PoolAfterSubmit
  <2> QED
    BY <1>1, <2>1, <2>2 DEF OracleInv, OneOfEachCall, UnsignedDeduplicated
<1> QED
  BY <1>1, <1>2, <1>4, <1>5, <1>9, <1>10, <1>11 DEF OracleInv

\* A signed response is applied: the cooldown and the unsigned responses are as before.
LEMMA ApplySignedInv ==
    ASSUME OracleInv, NEW tx \in pool, Apply(tx), ApplySigned(tx)
    PROVE  OracleInv'
<1>1. /\ UNCHANGED <<lastSend, phase, seen, nextAt, pool, todo, sender, applied, block,
                     NextUnsignedAt>>
      /\ taken' = taken \cup {tx}
  BY DEF Apply, ApplySigned, SubmitResponse, edgeVars, lockVars
<1>2. LockInv'
  BY <1>1, LockNextInv DEF OracleInv, lockVars
<1>3. RunsInOrder'
  BY <1>1 DEF OracleInv, RunsInOrder
<1>4. TransactionsChecked'
  BY <1>1 DEF OracleInv, TransactionsChecked, MadeBy, Checked
<1>5. ChainChecked'
  BY <1>1 DEF OracleInv, ChainChecked, MadeBy
<1>6. OneOfEachCall'
  BY <1>1 DEF OracleInv, OneOfEachCall, UnsignedDeduplicated
<1> QED
  BY <1>1, <1>2, <1>3, <1>4, <1>5, <1>6 DEF OracleInv

\* An unsigned response is applied: it moves the cooldown past its block, which has no
\* other of its call.
LEMMA ApplyUnsignedInv ==
    ASSUME OracleInv, NEW tx \in pool, Apply(tx), ApplyUnsigned(tx)
    PROVE  OracleInv'
<1> DEFINE e == [call |-> tx.call, node |-> tx.node, from |-> tx.number, in |-> block]
<1>1. /\ UNCHANGED <<lastSend, phase, seen, nextAt, pool, todo, sender, block>>
      /\ taken' = taken \cup {tx} /\ tx \notin taken
      /\ ~IsSigned(tx) /\ tx.call \in UnsignedCalls
      /\ applied' = Append(applied, e) /\ NextUnsignedAt' = block + UnsignedInterval
  BY DEF Apply, ApplyUnsigned, SubmitResponseUnsigned, SubmitResponseUnsignedWithSignedPayload,
         Cooldown, IsSigned, UnsignedCalls, lockVars
<1>2. block \in Nat \ {0} /\ UnsignedInterval \in Nat
  BY EdgeAssumption DEF OracleInv
<1>3. PICK S : applied \in Seq(S)
  BY DEF OracleInv
<1>4. /\ applied' \in Seq(S \cup {e})
      /\ DOMAIN applied' = DOMAIN applied \cup {Len(applied) + 1}
      /\ DOMAIN applied \subseteq Nat /\ Len(applied) \in Nat
      /\ \A i \in DOMAIN applied : applied'[i] = applied[i] /\ i <= Len(applied)
      /\ applied'[Len(applied) + 1] = e
  <2>1. applied \in Seq(S \cup {e}) /\ e \in S \cup {e}
    BY <1>3
  <2> HIDE DEF e
  <2> QED
    BY <2>1, <1>1
<1>5. e.call = tx.call /\ e.node = tx.node /\ e.from = tx.number /\ e.in = block
  OBVIOUS
<1> HIDE DEF e
<1>6. LockInv'
  BY <1>1, LockNextInv DEF OracleInv, lockVars
<1>7. RunsInOrder'
  BY <1>1 DEF OracleInv, RunsInOrder
<1>8. TransactionsChecked'
  BY <1>1 DEF OracleInv, TransactionsChecked, MadeBy, Checked
<1>9. PICK r \in Runs : MadeBy(r, tx.node, tx.number)
  BY DEF OracleInv, TransactionsChecked
<1>10. tx.number \in Nat /\ tx.number < block /\ nextAt[tx.number] <= tx.number
  <2>1. nextAt[tx.number] <= tx.number
    BY <1>1 DEF OracleInv, TransactionsChecked, Checked
  <2> QED
    BY <2>1, <1>2, <1>9, SealedBefore
<1>11. ChainChecked'
  <2>1. ASSUME NEW i \in DOMAIN applied'
        PROVE  /\ \E q \in Runs : /\ NodeOf[q] = applied'[i].node
                                   /\ NumberOf[q] = applied'[i].from /\ sender[q] # "no"
               /\ applied'[i].call \in UnsignedCalls
               /\ applied'[i].in \in Nat /\ applied'[i].in <= block
               /\ nextAt[applied'[i].from] <= applied'[i].from
               /\ applied'[i].in + UnsignedInterval <= block + UnsignedInterval
               /\ \A b \in 1 .. block - 1 :
                     applied'[i].in <= b => applied'[i].in + UnsignedInterval <= nextAt[b]
    <3>1. CASE i \in DOMAIN applied
      <4>1. applied'[i] = applied[i]
        BY <3>1, <1>4
      <4>2. /\ \E q \in Runs : MadeBy(q, applied[i].node, applied[i].from)
            /\ applied[i].call \in UnsignedCalls
            /\ applied[i].in \in Nat /\ applied[i].in <= block
            /\ nextAt[applied[i].from] <= applied[i].from
            /\ \A b \in 1 .. block - 1 :
                  applied[i].in <= b => applied[i].in + UnsignedInterval <= nextAt[b]
        BY <3>1 DEF OracleInv, ChainChecked
      <4>3. applied[i].in + UnsignedInterval <= block + UnsignedInterval
        BY <4>2, <1>2
      <4> QED
        BY <4>1, <4>2, <4>3 DEF MadeBy
    <3>2. CASE i = Len(applied) + 1
      <4>1. applied'[i] = e
        BY <3>2, <1>4
      <4>2. \E q \in Runs : NodeOf[q] = tx.node /\ NumberOf[q] = tx.number /\ sender[q] # "no"
        BY <1>9 DEF MadeBy
      <4> QED
        BY <4>1, <4>2, <1>1, <1>2, <1>5, <1>10
    <3> QED
      BY <2>1, <3>1, <3>2, <1>4
  <2> QED
    BY <1>1, <2>1 DEF ChainChecked, MadeBy
<1>12. OneOfEachCall'
  <2>1. ASSUME NEW i \in DOMAIN applied, applied[i].in = block
        PROVE  applied[i].call # tx.call
    <3>1. PICK t \in taken : t.call = applied[i].call
      BY <2>1 DEF OracleInv, OneOfEachCall
    <3>2. t \in pool /\ t # tx
      BY <1>1, <3>1 DEF OracleInv, OneOfEachCall
    <3> QED
      BY <1>1, <3>1, <3>2 DEF OracleInv, OneOfEachCall
  <2>2. ASSUME NEW i \in DOMAIN applied', NEW j \in DOMAIN applied', i # j,
               applied'[i].in = applied'[j].in
        PROVE  applied'[i].call # applied'[j].call
    <3>1. CASE i \in DOMAIN applied /\ j \in DOMAIN applied
      BY <2>2, <3>1, <1>4 DEF OracleInv, OneOfEachCall, UnsignedDeduplicated
    <3>2. CASE i \in DOMAIN applied /\ j = Len(applied) + 1
      BY <2>1, <2>2, <3>2, <1>4, <1>5
    <3>3. CASE i = Len(applied) + 1 /\ j \in DOMAIN applied
      BY <2>1, <2>2, <3>3, <1>4, <1>5
    <3> QED
      BY <2>2, <3>1, <3>2, <3>3, <1>4
  <2>3. ASSUME NEW i \in DOMAIN applied', applied'[i].in = block
        PROVE  \E t \in taken' : t.call = applied'[i].call
    <3>1. CASE i \in DOMAIN applied
      BY <2>3, <3>1, <1>1, <1>4 DEF OracleInv, OneOfEachCall
    <3>2. CASE i = Len(applied) + 1
      BY <3>2, <1>1, <1>4, <1>5
    <3> QED
      BY <2>3, <3>1, <3>2, <1>4
  <2>4. taken' \subseteq pool'
    BY <1>1 DEF OracleInv, OneOfEachCall
  <2> QED
    BY <1>1, <2>2, <2>3, <2>4 DEF OracleInv, OneOfEachCall, UnsignedDeduplicated
<1>13. NextUnsignedAt' \in Nat /\ \E T : applied' \in Seq(T)
  BY <1>1, <1>2, <1>4
<1> QED
  BY <1>1, <1>6, <1>7, <1>8, <1>11, <1>12, <1>13 DEF OracleInv

\* A node restarts: what its runs had to send is gone, and some of what was waiting.
LEMMA OracleRestartInv ==
    ASSUME OracleInv, NEW n \in Nodes, OracleRestart(n)
    PROVE  OracleInv'
<1>1. /\ UNCHANGED <<nextAt, applied, taken, block, NextUnsignedAt>>
      /\ LockRestart(n) /\ pool' \subseteq pool /\ pool \cap taken \subseteq pool'
      /\ sender' = [r \in Runs |-> sender'[r]] /\ todo' = [r \in Runs |-> todo'[r]]
      /\ \A r \in Runs :
            LET hit == NodeOf[r] = n /\ InProgress(r)
            IN  /\ sender'[r] = IF hit /\ phase[r] = "granted" THEN "over" ELSE sender[r]
                /\ todo'[r] = IF hit THEN {} ELSE todo[r]
  BY DEF OracleRestart, edgeVars
<1>2. LockInv'
  BY <1>1, LockRestartInv DEF OracleInv
<1>3. phase' = [r \in Runs |-> IF NodeOf[r] = n /\ phase[r] = "read" THEN "gone" ELSE phase[r]]
  BY <1>1 DEF LockRestart
<1>4. sender \in [Runs -> {"no", "sending", "over"}]
  BY DEF OracleInv
<1>5. \A r \in Runs :
         /\ sender'[r] \in {"no", "sending", "over"}
         /\ sender'[r] # sender[r] =>
               sender'[r] = "over" /\ phase[r] = "granted" /\ todo'[r] = {}
         /\ sender[r] # "no" => sender'[r] # "no"
         /\ todo'[r] \subseteq todo[r]
  BY <1>1, <1>4
<1>6. RunsInOrder'
  <2> SUFFICES ASSUME NEW r \in Runs
               PROVE  /\ phase'[r] # "idle" => NumberOf[r] < block
                      /\ sender'[r] \in {"no", "sending", "over"}
                      /\ sender'[r] # "no" => phase'[r] = "granted"
                      /\ todo'[r] # {} => sender'[r] = "sending"
    BY <1>1 DEF RunsInOrder
  <2>1. phase'[r] # "idle" => phase[r] # "idle"
    BY <1>3
  <2>2. phase[r] = "granted" => phase'[r] = "granted"
    BY <1>3
  <2>3. todo'[r] # {} => todo[r] # {} /\ sender'[r] = sender[r]
    BY <1>5
  <2> QED
    BY <2>1, <2>2, <2>3, <1>5 DEF OracleInv, RunsInOrder
<1>7. \A r \in Runs : \A node, number : MadeBy(r, node, number) => MadeBy(r, node, number)'
  BY <1>5 DEF MadeBy
<1>8. TransactionsChecked'
  BY <1>1, <1>5, <1>7 DEF OracleInv, TransactionsChecked, Checked
<1>9. ChainChecked'
  BY <1>1, <1>5 DEF OracleInv, ChainChecked, MadeBy
<1>10. OneOfEachCall'
  <2>1. taken \subseteq pool'
    BY <1>1 DEF OracleInv, OneOfEachCall
  <2>2. \A tx, other \in pool' : (~IsSigned(tx) /\ other.call = tx.call) => other = tx
    BY <1>1 DEF OracleInv, OneOfEachCall
  <2> QED
    BY <1>1, <2>1, <2>2 DEF OracleInv, OneOfEachCall, UnsignedDeduplicated
<1>11. sender' \in [Runs -> {"no", "sending", "over"}]
  BY <1>1, <1>5
<1> QED
  BY <1>1, <1>2, <1>6, <1>8, <1>9, <1>10, <1>11 DEF OracleInv

\* The invariant is inductive.
LEMMA OracleNextInv == OracleInv /\ [OracleNext]_allVars => OracleInv'
<1> SUFFICES ASSUME OracleInv, [OracleNext]_allVars PROVE OracleInv'
  OBVIOUS
<1>1. CASE UserCall
  BY <1>1, SameInv DEF UserCall, CreateConnection, RemoveConnection
<1>2. CASE Seal
  BY <1>2, SealInv
<1>3. ASSUME NEW r \in Runs, TakeLock(r) \/ Fetch(r) PROVE OracleInv'
  BY <1>3, TakeLockInv, FetchInv
<1>4. ASSUME NEW r \in Runs, NEW tx \in todo[r], SubmitTx(r, tx) PROVE OracleInv'
  BY <1>4, SubmitTxInv
<1>5. ASSUME NEW tx \in pool, Apply(tx) PROVE OracleInv'
  <2>1. ApplySigned(tx) \/ ApplyUnsigned(tx)
    BY <1>5 DEF Apply
  <2> QED
    BY <1>5, <2>1, ApplySignedInv, ApplyUnsignedInv
<1>6. ASSUME NEW n \in Nodes, OracleRestart(n) PROVE OracleInv'
  BY <1>6, OracleRestartInv
<1>7. CASE UNCHANGED allVars
  BY <1>7, SameInv DEF allVars, edgeVars
<1> QED
  BY <1>1, <1>2, <1>3, <1>4, <1>5, <1>6, <1>7 DEF OracleNext

\* The workers, the lock, the pool and the chain keep the invariant.
THEOREM OracleSafety == OracleSpec => []OracleInv
  BY OracleInitInv, OracleNextInv, PTL DEF OracleSpec

\* The workers' look at NextUnsignedAt does what it can, for any nodes, keys, restarts and
\* delays: no unsigned response on chain comes from a worker whose block was within
\* UnsignedInterval of an unsigned response that was on chain by then.
THEOREM CooldownObservedTheorem == OracleSpec => []CooldownObserved
  BY CooldownByInv, OracleSafety, PTL

\* The tags of validate_unsigned keep every block to one unsigned response of each call,
\* whichever workers and keys send them and although neither call refuses a second one.
THEOREM DeduplicatedTheorem == OracleSpec => []UnsignedDeduplicated
<1>1. OracleInv => UnsignedDeduplicated
  BY DEF OracleInv, OneOfEachCall
<1> QED
  BY <1>1, OracleSafety, PTL

-------------------------------------------------------------------------------
(* Signed responses and the pallet *)

\* A transaction of a run: the pallet can take its text, and a signed one has a nonce of
\* an account that signs.
TxOK(tx) ==
    /\ tx.text \in Texts
    /\ IsSigned(tx) => tx.who \in Signers /\ tx.tag[2] \in Nat

\* OracleTypeOK becomes inductive with what the runs hold and the pool has.
NonceInv ==
    /\ nonces \in [Signers -> Nat]
    /\ noncesAt \in Seq([Signers -> Nat]) /\ Len(noncesAt) = block - 1
    /\ \A r \in Runs : /\ phase[r] # "idle" => Keys[NodeOf[r]] # {}
                       /\ sender[r] = "sending" => todo[r] # {}
                       /\ \A tx \in todo[r] : TxOK(tx)
    /\ \A tx \in pool : TxOK(tx)
    /\ \A i \in DOMAIN applied :
          applied[i] \in [call : UnsignedCalls, node : Nodes, from : Nat, in : 1 .. MaxBlock + 1]

\* The accounts of the keys are accounts.
LEMMA SignersAreUsers ==
    /\ Signers \subseteq Users
    /\ \A n \in Nodes : Keys[n] \subseteq Signers
  BY OracleAssumption DEF Signers

\* What the step does to the pallet is a step of the pallet.
LEMMA PalletStep ==
    ASSUME NonceInv, [OracleNext]_allVars
    PROVE  [Next]_edgeVars
<1>1. CASE UserCall
  BY <1>1 DEF UserCall, Next
<1>2. CASE Seal
  BY <1>2 DEF Seal, Next
<1>3. ASSUME NEW tx \in pool, Apply(tx) PROVE [Next]_edgeVars
  <2>1. /\ tx.text \in Texts
        /\ IsSigned(tx) => tx.who \in Users
    BY SignersAreUsers DEF NonceInv, TxOK
  <2>2. CASE ApplySigned(tx)
    BY <2>1, <2>2 DEF ApplySigned, Next
  <2>3. CASE ApplyUnsigned(tx)
    <3>1. [response |-> tx.text, verifies |-> TRUE] \in [response : Texts, verifies : BOOLEAN]
      BY <2>1
    <3>2. CASE SubmitResponseUnsigned(tx.text)
      BY <2>1, <3>2 DEF Next
    <3>3. CASE SubmitResponseUnsignedWithSignedPayload([response |-> tx.text, verifies |-> TRUE])
      BY <3>1, <3>3, Zenon DEF Next
    <3> QED
      BY <2>3, <3>2, <3>3 DEF ApplyUnsigned
  <2> QED
    BY <1>3, <2>2, <2>3 DEF Apply
<1>4. ASSUME NEW r \in Runs, TakeLock(r) \/ Fetch(r) PROVE UNCHANGED edgeVars
  BY <1>4 DEF TakeLock, Fetch
<1>5. ASSUME NEW r \in Runs, NEW tx \in todo[r], SubmitTx(r, tx) PROVE UNCHANGED edgeVars
  BY <1>5 DEF SubmitTx
<1>6. ASSUME NEW n \in Nodes, OracleRestart(n) PROVE UNCHANGED edgeVars
  BY <1>6 DEF OracleRestart
<1> QED
  BY <1>1, <1>2, <1>3, <1>4, <1>5, <1>6 DEF OracleNext, allVars

\* Nothing has run yet, and no account has sent anything.
LEMMA NonceInitInv == OracleInit => NonceInv
<1> SUFFICES ASSUME OracleInit PROVE NonceInv
  OBVIOUS
<1>1. /\ block = 1 /\ nonces = [k \in Signers |-> 0] /\ noncesAt = <<>> /\ applied = <<>>
      /\ pool = {} /\ todo = [r \in Runs |-> {}] /\ sender = [r \in Runs |-> "no"]
      /\ phase = [r \in Runs |-> "idle"]
  BY DEF OracleInit, Init, LockInit
<1> QED
  BY <1>1 DEF NonceInv

\* Steps that leave the nonces alone, and only take from what is to be sent and pooled.
LEMMA NonceLessInv ==
    ASSUME OracleInv, NonceInv,
           UNCHANGED <<nonces, noncesAt, block, applied>>, pool' \subseteq pool,
           \A r \in Runs : /\ phase'[r] # "idle" => Keys[NodeOf[r]] # {}
                           /\ sender'[r] = "sending" => todo'[r] # {}
                           /\ todo'[r] \subseteq todo[r]
    PROVE  NonceInv'
  BY DEF NonceInv

\* The state of the sealed block has the nonces as they are now.
LEMMA NonceSealInv ==
    ASSUME OracleInv, NonceInv, Seal
    PROVE  NonceInv'
<1>1. /\ block' = block + 1 /\ nonces' = nonces /\ noncesAt' = Append(noncesAt, nonces)
      /\ pool' \subseteq pool
      /\ UNCHANGED <<phase, todo, sender, applied>>
  BY DEF Seal, NewBlock, lockVars
<1>2. block \in Nat \ {0} /\ noncesAt \in Seq([Signers -> Nat]) /\ Len(noncesAt) = block - 1
      /\ nonces \in [Signers -> Nat]
  BY DEF OracleInv, NonceInv
<1>3. /\ noncesAt' \in Seq([Signers -> Nat]) /\ Len(noncesAt') = block' - 1
  BY <1>1, <1>2
<1> QED
  BY <1>1, <1>3 DEF NonceInv

\* A run reaches the lock only on a node with a key.
LEMMA NonceTakeLockInv ==
    ASSUME OracleInv, NonceInv, NEW r \in Runs, TakeLock(r)
    PROVE  NonceInv'
<1>1. /\ UNCHANGED <<nonces, noncesAt, block, applied, pool, todo, sender>>
      /\ Keys[NodeOf[r]] # {} /\ (ReadLast(r) \/ CompareAndSet(r))
  BY DEF TakeLock, edgeVars, oracleVars
<1>2. \A q \in Runs : q # r => phase'[q] = phase[q]
  BY <1>1 DEF OracleInv, LockInv, LockTypeOK, ReadLast, CompareAndSet
<1>3. \A q \in Runs : phase'[q] # "idle" => Keys[NodeOf[q]] # {}
  BY <1>1, <1>2 DEF NonceInv
<1>4. \A q \in Runs : sender[q] = "sending" => todo[q] # {}
  BY DEF NonceInv
<1> QED
  BY <1>1, <1>3, <1>4, NonceLessInv

\* A run has something to send if it sends, and signs with the nonces of its block.
LEMMA PreparedOK ==
    ASSUME OracleInv, NonceInv, NEW r \in Runs, phase[r] = "granted", NEW text \in Texts,
           NEW txs \in Prepared(r, text)
    PROVE  txs # {} /\ \A tx \in txs : TxOK(tx)
<1>1. /\ NumberOf[r] \in Nat \ {0} /\ NumberOf[r] < block /\ block \in Nat
      /\ NodeOf[r] \in Nodes
  BY LockAssumption DEF OracleInv, RunsInOrder
<1>2. Keys[NodeOf[r]] # {} /\ Keys[NodeOf[r]] \subseteq Signers
  BY <1>1, SignersAreUsers DEF NonceInv
<1>3. \A k \in Signers : noncesAt[NumberOf[r]][k] \in Nat
  <2>1. NumberOf[r] \in 1 .. block - 1
    BY <1>1
  <2>2. noncesAt[NumberOf[r]] \in [Signers -> Nat]
    BY <2>1 DEF NonceInv
  <2> QED
    BY <2>2
<1>4. CASE TransactionType(NumberOf[r]) = "Signed"
  <2>1. txs = {SignedTx(r, k, text) : k \in Keys[NodeOf[r]]}
    BY <1>4 DEF Prepared
  <2>2. ASSUME NEW k \in Keys[NodeOf[r]] PROVE TxOK(SignedTx(r, k, text))
    <3>1. LET tx == SignedTx(r, k, text)
          IN  tx.text = text /\ tx.who = k /\ tx.tag[2] = noncesAt[NumberOf[r]][k]
      BY DEF SignedTx
    <3> QED
      BY <1>2, <1>3, <3>1 DEF TxOK
  <2> QED
    BY <1>2, <2>1, <2>2
<1>5. CASE TransactionType(NumberOf[r]) # "Signed"
  <2>1. \/ \E k \in Keys[NodeOf[r]] : txs = {PayloadTx(r, k, text)}
        \/ txs = {PayloadTx(r, k, text) : k \in Keys[NodeOf[r]]}
        \/ txs = {RawTx(r, text)}
    <3>1. CASE TransactionType(NumberOf[r]) = "UnsignedForAny"
      BY <3>1 DEF Prepared
    <3>2. CASE TransactionType(NumberOf[r]) = "UnsignedForAll"
      BY <3>2 DEF Prepared
    <3>3. CASE TransactionType(NumberOf[r]) = "Raw"
      BY <3>3 DEF Prepared
    <3>4. NumberOf[r] % 4 \in 0 .. 3
      BY <1>1
    <3>5. NumberOf[r] % 4 = 0 \/ NumberOf[r] % 4 = 1 \/ NumberOf[r] % 4 = 2 \/ NumberOf[r] % 4 = 3
      BY <3>4
    <3> QED
      BY <1>5, <3>1, <3>2, <3>3, <3>5 DEF TransactionType
  <2>2. txs # {}
    BY <1>2, <2>1
  <2>3. \A tx \in txs : tx.text = text /\ ~IsSigned(tx)
    BY <2>1 DEF PayloadTx, RawTx, IsSigned
  <2> QED
    BY <2>2, <2>3 DEF TxOK
<1> QED
  BY <1>4, <1>5

\* A run fetches and prepares its transactions, or ends.
LEMMA NonceFetchInv ==
    ASSUME OracleInv, NonceInv, NEW r \in Runs, Fetch(r)
    PROVE  NonceInv'
<1>0. \A q \in Runs : /\ phase[q] # "idle" => Keys[NodeOf[q]] # {}
                      /\ sender[q] = "sending" => todo[q] # {}
                      /\ \A tx \in todo[q] : TxOK(tx)
  BY DEF NonceInv
<1>1. /\ UNCHANGED <<phase, nonces, noncesAt, pool, applied, block>>
      /\ phase[r] = "granted" /\ sender[r] = "no"
  BY DEF Fetch, edgeVars, lockVars
<1>2. sender \in [Runs -> {"no", "sending", "over"}] /\ todo = [q \in Runs |-> todo[q]]
  BY DEF OracleInv
<1>3. CASE sender' = [sender EXCEPT ![r] = "over"] /\ todo' = todo
  <2>1. \A q \in Runs : sender'[q] = "sending" => sender[q] = "sending"
    BY <1>2, <1>3, ZenonT(40)
  <2>2. \A q \in Runs : /\ phase'[q] # "idle" => Keys[NodeOf[q]] # {}
                        /\ sender'[q] = "sending" => todo'[q] # {}
                        /\ todo'[q] \subseteq todo[q]
    BY <1>0, <1>1, <1>3, <2>1, ZenonT(40)
  <2>3. UNCHANGED <<nonces, noncesAt, block, applied>> /\ pool' \subseteq pool
    BY <1>1
  <2> QED
    BY <2>2, <2>3, NonceLessInv, ZenonT(40)
<1>4. ASSUME NEW text \in Texts, NEW txs \in Prepared(r, text),
             sender' = [sender EXCEPT ![r] = "sending"], todo' = [todo EXCEPT ![r] = txs]
      PROVE  NonceInv'
  <2>1. txs # {} /\ \A tx \in txs : TxOK(tx)
    BY <1>1, <1>4, PreparedOK
  <2>2. /\ todo'[r] = txs
        /\ \A q \in Runs : q # r => sender'[q] = sender[q] /\ todo'[q] = todo[q]
    BY <1>2, <1>4
  <2>3. \A q \in Runs : /\ sender'[q] = "sending" => todo'[q] # {}
                        /\ \A tx \in todo'[q] : TxOK(tx)
    BY <1>0, <2>1, <2>2, ZenonT(40)
  <2> QED
    BY <1>1, <2>3, ZenonT(40) DEF NonceInv
<1>5. \/ sender' = [sender EXCEPT ![r] = "over"] /\ todo' = todo
      \/ \E text \in Texts : \E txs \in Prepared(r, text) :
            /\ sender' = [sender EXCEPT ![r] = "sending"]
            /\ todo' = [todo EXCEPT ![r] = txs]
  BY ZenonT(40) DEF Fetch, FetchResponse
<1> QED
  BY <1>3, <1>4, <1>5

\* The pool has what it had, or the new transaction.
LEMMA NonceSubmitInv ==
    ASSUME OracleInv, NonceInv, NEW r \in Runs, NEW tx \in todo[r], SubmitTx(r, tx)
    PROVE  NonceInv'
<1>1. /\ UNCHANGED <<phase, nonces, noncesAt, applied, block>>
      /\ todo' = [todo EXCEPT ![r] = @ \ {tx}]
      /\ sender' = [sender EXCEPT ![r] = IF todo[r] = {tx} THEN "over" ELSE @]
  BY DEF SubmitTx, edgeVars, lockVars
<1>2. sender \in [Runs -> {"no", "sending", "over"}] /\ todo = [q \in Runs |-> todo[q]]
  BY DEF OracleInv
<1>3. /\ todo'[r] = todo[r] \ {tx} /\ (todo[r] = {tx} => sender'[r] = "over")
      /\ \A q \in Runs : q # r => sender'[q] = sender[q] /\ todo'[q] = todo[q]
  BY <1>1, <1>2
<1>4. \A q \in Runs : /\ sender'[q] = "sending" => todo'[q] # {}
                      /\ \A t \in todo'[q] : TxOK(t)
  <2>1. sender'[r] = "sending" => todo'[r] # {}
    BY <1>3
  <2> QED
    BY <1>3, <2>1 DEF NonceInv
<1>5. \A t \in pool' : TxOK(t)
  BY PoolAfterSubmit DEF NonceInv
<1> QED
  BY <1>1, <1>4, <1>5, ZenonT(40) DEF NonceInv

\* A signed response spends its nonce.
LEMMA NonceApplySignedInv ==
    ASSUME OracleInv, NonceInv, NEW tx \in pool, Apply(tx), ApplySigned(tx)
    PROVE  NonceInv'
<1>1. /\ UNCHANGED <<phase, noncesAt, pool, todo, sender, applied, block>>
      /\ nonces' = [nonces EXCEPT ![tx.who] = @ + 1] /\ tx.who \in Signers
  BY DEF Apply, ApplySigned, SubmitResponse, edgeVars, lockVars, NonceInv, TxOK
<1>2. nonces \in [Signers -> Nat]
  BY DEF NonceInv
<1>3. nonces' \in [Signers -> Nat]
  BY <1>1, <1>2
<1> QED
  BY <1>1, <1>3, ZenonT(40) DEF NonceInv

\* An unsigned response is entered in the history, in the block under construction.
LEMMA NonceApplyUnsignedInv ==
    ASSUME OracleInv, NonceInv, TypeOK, NEW tx \in pool, Apply(tx), ApplyUnsigned(tx)
    PROVE  NonceInv'
<1> DEFINE e == [call |-> tx.call, node |-> tx.node, from |-> tx.number, in |-> block]
           History == [call : UnsignedCalls, node : Nodes, from : Nat, in : 1 .. MaxBlock + 1]
<1>1. /\ UNCHANGED <<phase, nonces, noncesAt, pool, todo, sender, block>>
      /\ applied' = Append(applied, e) /\ tx.call \in UnsignedCalls
  BY DEF Apply, ApplyUnsigned, SubmitResponseUnsigned, SubmitResponseUnsignedWithSignedPayload,
         UnsignedCalls, lockVars
<1>2. PICK r \in Runs : MadeBy(r, tx.node, tx.number)
  BY DEF OracleInv, TransactionsChecked
<1>3. tx.number \in Nat /\ tx.node \in Nodes /\ block \in 1 .. MaxBlock + 1
  BY <1>2, LockAssumption, SealedBefore DEF MadeBy, TypeOK
<1>4. e \in History
  BY <1>1, <1>3
<1>5. PICK S : applied \in Seq(S)
  BY DEF OracleInv
<1>6. applied \in Seq(S \cup {e}) /\ e \in S \cup {e}
  BY <1>5
<1> HIDE DEF e, History
<1>7. /\ DOMAIN applied' = DOMAIN applied \cup {Len(applied) + 1}
      /\ \A i \in DOMAIN applied : applied'[i] = applied[i]
      /\ applied'[Len(applied) + 1] = e
  BY <1>1, <1>6
<1>8. \A i \in DOMAIN applied' : applied'[i] \in History
  BY <1>4, <1>7 DEF NonceInv, History
<1> QED
  BY <1>1, <1>8, ZenonT(40) DEF NonceInv, History

\* A restart takes transactions away, and ends the runs that had any left.
LEMMA NonceRestartInv ==
    ASSUME OracleInv, NonceInv, NEW n \in Nodes, OracleRestart(n)
    PROVE  NonceInv'
<1>1. /\ UNCHANGED <<nonces, noncesAt, block, applied>> /\ pool' \subseteq pool
      /\ LockRestart(n)
      /\ \A r \in Runs :
            LET hit == NodeOf[r] = n /\ InProgress(r)
            IN  /\ sender'[r] = IF hit /\ phase[r] = "granted" THEN "over" ELSE sender[r]
                /\ todo'[r] = IF hit THEN {} ELSE todo[r]
  BY ZenonT(40) DEF OracleRestart, edgeVars
<1>2. \A r \in Runs : phase'[r] # "idle" => Keys[NodeOf[r]] # {}
  BY <1>1 DEF LockRestart, NonceInv
<1>3. ASSUME NEW r \in Runs
      PROVE  todo'[r] \subseteq todo[r] /\ (sender'[r] = "sending" => todo'[r] # {})
  <2>1. sender[r] # "no" => phase[r] = "granted"
    BY DEF OracleInv, RunsInOrder
  <2>2. sender[r] = "sending" => todo[r] # {}
    BY DEF NonceInv
  <2> QED
    BY <1>1, <2>1, <2>2
<1> QED
  BY <1>1, <1>2, <1>3, NonceLessInv, ZenonT(40)

\* Together the invariants of the workers, the nonces and the pallet are inductive.
LEMMA NonceNextInv ==
    ASSUME OracleInv, NonceInv, EdgeInv, [OracleNext]_allVars
    PROVE  NonceInv' /\ EdgeInv'
<1>1. EdgeInv'
  BY PalletStep, EdgeNextInv
<1>2. \A r \in Runs : /\ phase[r] # "idle" => Keys[NodeOf[r]] # {}
                      /\ sender[r] = "sending" => todo[r] # {}
  BY DEF NonceInv
<1>3. CASE UserCall \/ UNCHANGED allVars
  <2>1. UNCHANGED <<lockVars, oracleVars>> /\ block' = block
    BY <1>3 DEF UserCall, CreateConnection, RemoveConnection, allVars, edgeVars
  <2>2. UNCHANGED <<nonces, noncesAt, block, applied, pool, phase, todo, sender>>
    BY <2>1 DEF lockVars, oracleVars
  <2> QED
    BY <1>1, <1>2, <2>2, NonceLessInv
<1>4. ASSUME NEW tx \in pool, Apply(tx) PROVE NonceInv'
  <2>1. ApplySigned(tx) \/ ApplyUnsigned(tx)
    BY <1>4 DEF Apply
  <2> QED
    BY <1>4, <2>1, NonceApplySignedInv, NonceApplyUnsignedInv DEF EdgeInv
<1>5. ASSUME NEW r \in Runs, TakeLock(r) \/ Fetch(r) PROVE NonceInv'
  BY <1>5, NonceTakeLockInv, NonceFetchInv
<1>6. ASSUME NEW r \in Runs, NEW tx \in todo[r], SubmitTx(r, tx) PROVE NonceInv'
  BY <1>6, NonceSubmitInv
<1>7. ASSUME NEW n \in Nodes, OracleRestart(n) PROVE NonceInv'
  BY <1>7, NonceRestartInv
<1> QED
  BY <1>1, <1>3, <1>4, <1>5, <1>6, <1>7, NonceSealInv DEF OracleNext

\* The nonces and the pallet's storage stay in order as well.
THEOREM NonceSafety == OracleSpec => [](NonceInv /\ EdgeInv)
<1>1. OracleInit => NonceInv /\ EdgeInv
  BY NonceInitInv, EdgeInitInv DEF OracleInit
<1> QED
  BY <1>1, NonceNextInv, OracleSafety, PTL DEF OracleSpec

\* The types, and the life of a run: only one that was granted the lock sends, and it
\* is sending exactly while it has something left to submit.
THEOREM OracleTypeTheorem == OracleSpec => []OracleTypeOK
<1>1. ASSUME OracleInv, NonceInv, EdgeInv PROVE OracleTypeOK
  <2>1. /\ nextAt \in [1 .. block - 1 -> Nat]
        /\ noncesAt \in [1 .. block - 1 -> [Signers -> Nat]]
    BY <1>1 DEF OracleInv, NonceInv
  <2>2. \A r \in Runs : /\ sender[r] # "no" => phase[r] = "granted"
                        /\ todo[r] # {} <=> sender[r] = "sending"
    BY <1>1 DEF OracleInv, RunsInOrder, NonceInv
  <2> QED
    BY <1>1, <2>1, <2>2 DEF OracleInv, LockInv, OneOfEachCall, NonceInv, EdgeInv, OracleTypeOK
<1> QED
  BY <1>1, OracleSafety, NonceSafety, PTL

\* End to end the pallet does nothing that its own specification does not allow, so
\* what is proved of it (bounds, order of the responses, cooldown) holds here as well.
THEOREM OracleKeepsPallet == OracleSpec => Spec
<1>1. OracleInit => Init
  BY DEF OracleInit
<1> QED
  BY <1>1, PalletStep, NonceSafety, PTL DEF OracleSpec, Spec

\* And the workers use the lock as its specification says.
THEOREM OracleKeepsLock == OracleSpec => LockSpec
<1>1. OracleInit => LockInit
  BY DEF OracleInit
<1>2. [OracleNext]_allVars => [LockNext]_lockVars
  <2>1. ASSUME NEW r \in Runs, TakeLock(r) PROVE LockNext
    BY <2>1 DEF TakeLock, LockNext
  <2>2. ASSUME NEW n \in Nodes, OracleRestart(n) PROVE LockNext
    BY <2>2 DEF OracleRestart, LockNext
  <2> QED
    BY <2>1, <2>2, ZenonT(40) DEF OracleNext, UserCall, Seal, Fetch, SubmitTx, Apply, allVars
<1> QED
  BY <1>1, <1>2, PTL DEF OracleSpec, LockSpec

\* So from the first read of the lock to the applied response the workers of each node
\* are granted sending GracePeriod apart, in block order, as the abstract lock says.
THEOREM OracleGrace == OracleSpec => ImplementsGrace
  BY OracleKeepsLock, LockRefinement, PTL

\* And what the workers send does not change which responses the pallet keeps.
THEOREM OracleFirstFitting == OracleSpec => []FirstFittingKept
  BY OracleKeepsPallet, FirstFittingTheorem, PTL
===============================================================================
