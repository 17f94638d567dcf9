------------------------------- MODULE EdgeOracle -------------------------------
(***************************************************************************)
(* The edge-connect oracle, end to end: on every node, after every block,   *)
(* an off-chain worker takes the local lock (SendLock), fetches a response  *)
(* over HTTP and submits it, signed or unsigned by block number; the        *)
(* transaction pool de-duplicates by tag; later blocks apply what is left   *)
(* of it to the pallet (EdgeConnect).                                      *)
(*                                                                         *)
(* A worker of block b runs on the state of block b: NextUnsignedAt and the *)
(* nonces it reads are those, however late it comes to read them.  Nothing  *)
(* bounds how late that is: a request has a deadline, but reading its body  *)
(* has none.  Nor is a pooled transaction's age bounded by its longevity,   *)
(* which every pool counts from the block at which it validates it.  The    *)
(* worker's first fetch, whose result is only logged, is no step.           *)
(* send_command is left out: nothing here reads Commands.                  *)
(***************************************************************************)
EXTENDS EdgeConnect, SendLock, TxPool, MortalEra

CONSTANTS
    Keys        \* node -> accounts of its keystore the worker can sign with

ASSUME OracleAssumption == Keys \in [Nodes -> SUBSET Users]

VARIABLES
    nextAt,     \* sealed block -> NextUnsignedAt in its state
    nonces,     \* account -> nonce in the block under construction
    noncesAt,   \* sealed block -> nonces in its state
    pool,
    taken,      \* the pooled transactions already in the block under construction
    todo,       \* run -> the transactions it has yet to submit
    sender,     \* run -> "no" before its fetch, "sending", "over"
    applied     \* history, unsigned responses: call, node and block of the worker, block it is in

oracleVars == <<nextAt, nonces, noncesAt, pool, taken, todo, sender, applied>>
allVars == <<edgeVars, lockVars, oracleVars>>

Signers == UNION {Keys[n] : n \in Nodes}
IsSigned(tx) == tx.call = "submit_response"
UnsignedCalls == {"submit_response_unsigned", "submit_response_unsigned_with_signed_payload"}

-------------------------------------------------------------------------------
OracleInit ==
    /\ Init /\ LockInit
    /\ nextAt = <<>>
    /\ nonces = [k \in Signers |-> 0]
    /\ noncesAt = <<>>
    /\ pool = {} /\ taken = {}
    /\ todo = [r \in Runs |-> {}]
    /\ sender = [r \in Runs |-> "no"]
    /\ applied = <<>>

UserCall ==
    /\ \E who \in Users \ Signers, c \in ConnectionIds :
          CreateConnection(who, c) \/ RemoveConnection(who, c)
    /\ UNCHANGED <<lockVars, oracleVars>>

\* The run has read the lock and is neither refused nor at its end.
InProgress(r) == phase[r] = "read" \/ (phase[r] = "granted" /\ sender[r] # "over")

\* A signed transaction whose nonce was spent by another one.
Stale(tx) == IsSigned(tx) /\ tx.tag[2] < nonces[tx.who]

\* A signed transaction whose era is over.
Dead(tx) == IsSigned(tx) /\ tx.validTill <= block

\* The block is sealed and imported: its state is kept for its workers and the
\* pool drops what the block contains, what is stale and what is past its validity.
\* For an unsigned transaction that is any moment, as its longevity counts from when
\* this pool received or last revalidated it.
Seal ==
    /\ NewBlock
    /\ nextAt' = Append(nextAt, NextUnsignedAt)
    /\ noncesAt' = Append(noncesAt, nonces)
    /\ \E expired \in SUBSET {tx \in pool \ taken : ~IsSigned(tx)} :
          pool' = {tx \in pool \ (taken \cup expired) : ~Stale(tx) /\ ~Dead(tx)}
    /\ taken' = {}
    /\ UNCHANGED <<lockVars, nonces, todo, sender, applied>>

\* The worker of a sealed block starts, if it can sign, and reaches the lock.
\* It may also never start: a node that restarts or catches up skips blocks.
TakeLock(r) ==
    /\ NumberOf[r] < block
    /\ Keys[NodeOf[r]] # {}
    /\ ReadLast(r) \/ CompareAndSet(r)
    /\ UNCHANGED <<edgeVars, oracleVars>>

TransactionType(number) ==
    CASE number % 4 = 0 -> "Signed"
      [] number % 4 = 1 -> "UnsignedForAny"
      [] number % 4 = 2 -> "UnsignedForAll"
      [] number % 4 = 3 -> "Raw"

\* The transactions of one run, each with what it provides to the pool: a signed
\* one its nonce, an unsigned one the tag of validate_unsigned.  A signed one lives
\* as long as its era.
SignedTx(r, k, text) ==
    LET b == NumberOf[r] IN
    [call |-> "submit_response", tag |-> <<k, noncesAt[b][k]>>, who |-> k,
     node |-> NodeOf[r], number |-> b, text |-> text, validTill |-> DeathOf(b)]

\* Mutant: the worker's block number in the tag.
PayloadTxByBlock(r, k, text) ==
    [call |-> "submit_response_unsigned_with_signed_payload",
     tag |-> <<"submit_number_unsigned_with_signed_payload", NumberOf[r]>>, who |-> k,
     node |-> NodeOf[r], number |-> NumberOf[r], text |-> text]

PayloadTx(r, k, text) ==
    [call |-> "submit_response_unsigned_with_signed_payload",
     tag |-> <<"submit_number_unsigned_with_signed_payload", 0>>, who |-> k,
     node |-> NodeOf[r], number |-> NumberOf[r], text |-> text]

RawTx(r, text) ==
    [call |-> "submit_response_unsigned", tag |-> <<"submit_number_unsigned", 0>>, who |-> None,
     node |-> NodeOf[r], number |-> NumberOf[r], text |-> text]

\* Mutant: the check forgotten.
NeverTooEarly(b) == FALSE

\* "Too early to send unsigned transaction"
TooEarly(b) == nextAt[b] > b

\* fetch_response: a non-empty text, or one error for a request that fails, is
\* late, has another status than 200, is not UTF-8 or is empty.
FetchResponse == Texts \cup {None}

\* What the run submits for a response, by the kind of its block; the run
\* chooses one key for UnsignedForAny.
Prepared(r, text) ==
    LET b == NumberOf[r]
        keys == Keys[NodeOf[r]]
    IN  CASE TransactionType(b) = "Signed" -> {{SignedTx(r, k, text) : k \in keys}}
          [] TransactionType(b) = "UnsignedForAny" -> {{PayloadTx(r, k, text)} : k \in keys}
          [] TransactionType(b) = "UnsignedForAll" -> {{PayloadTx(r, k, text) : k \in keys}}
          [] TransactionType(b) = "Raw" -> {{RawTx(r, text)}}

\* Holding the lock, a run that sends unsigned first checks the cooldown; then it
\* fetches a response.  A failed check or fetch ends the run, with the lock spent.
Fetch(r) ==
    LET b == NumberOf[r]
        tooEarly == TransactionType(b) # "Signed" /\ TooEarly(b)
    IN  /\ phase[r] = "granted"
        /\ sender[r] = "no"
        /\ \E answer \in IF tooEarly THEN {None} ELSE FetchResponse :
              \/ /\ answer = None
                 /\ sender' = [sender EXCEPT ![r] = "over"]
                 /\ UNCHANGED todo
              \/ /\ answer # None
                 /\ \E txs \in Prepared(r, answer) : todo' = [todo EXCEPT ![r] = txs]
                 /\ sender' = [sender EXCEPT ![r] = "sending"]
        /\ UNCHANGED <<edgeVars, lockVars, nextAt, nonces, noncesAt, pool, taken, applied>>

\* Two signed responses have the priorities of their lengths, all unsigned ones have
\* UNSIGNED_TXS_PRIORITY.
MayReplace(tx, other) == IsSigned(tx) /\ IsSigned(other)

\* Mutant: the run is over when its first transaction is submitted.
SubmitFirstTx(r, tx) ==
    /\ tx \in todo[r]
    /\ pool' = Submit(pool, tx)
    /\ todo' = [todo EXCEPT ![r] = @ \ {tx}]
    /\ sender' = [sender EXCEPT ![r] = "over"]
    /\ UNCHANGED <<edgeVars, lockVars, nextAt, nonces, noncesAt, taken, applied>>

\* One of the run's transactions is submitted; a refusal is only logged.
SubmitTx(r, tx) ==
    /\ tx \in todo[r]
    /\ \/ pool' = Submit(pool, tx)
       \/ /\ \A other \in Rivals(pool, tx) : MayReplace(tx, other)
          /\ pool' = Replace(pool, tx)
    /\ taken' = taken \cap pool'
    /\ todo' = [todo EXCEPT ![r] = @ \ {tx}]
    /\ sender' = [sender EXCEPT ![r] = IF todo[r] = {tx} THEN "over" ELSE @]
    /\ UNCHANGED <<edgeVars, lockVars, nextAt, nonces, noncesAt, applied>>

\* A block author applies a pooled transaction, which the pool keeps until the
\* block is imported.  A signed one must be within its era and needs the next
\* nonce, which it spends also when the call fails for want of a connection.
ApplySigned(tx) ==
    /\ IsSigned(tx)
    /\ block < tx.validTill
    /\ tx.tag = <<tx.who, nonces[tx.who]>>
    /\ \/ SubmitResponse(tx.who, tx.text)
       \/ Connection = None /\ UNCHANGED edgeVars
    /\ nonces' = [nonces EXCEPT ![tx.who] = @ + 1]
    /\ UNCHANGED applied

ApplyUnsigned(tx) ==
    /\ \/ /\ tx.call = "submit_response_unsigned"
          /\ SubmitResponseUnsigned(tx.text)
       \/ /\ tx.call = "submit_response_unsigned_with_signed_payload"
          /\ SubmitResponseUnsignedWithSignedPayload([response |-> tx.text, verifies |-> TRUE])
    /\ applied' = Append(applied, [call |-> tx.call, node |-> tx.node,
                                   from |-> tx.number, in |-> block])
    /\ UNCHANGED nonces

Apply(tx) ==
    /\ tx \in pool \ taken
    /\ ApplySigned(tx) \/ ApplyUnsigned(tx)
    /\ taken' = taken \cup {tx}
    /\ UNCHANGED <<lockVars, nextAt, noncesAt, pool, todo, sender>>

\* A node stops: its workers are gone, and so is what only its pool held; what is in
\* the block under construction stays there.  The lock stays taken.
OracleRestart(n) ==
    LET hit == {r \in Runs : NodeOf[r] = n /\ InProgress(r)}
    IN  /\ LockRestart(n)
        /\ sender' = [r \in Runs |-> IF r \in hit /\ phase[r] = "granted"
                                     THEN "over" ELSE sender[r]]
        /\ todo' = [r \in Runs |-> IF r \in hit THEN {} ELSE todo[r]]
        /\ \E lost \in SUBSET (pool \ taken) : pool' = pool \ lost
        /\ UNCHANGED <<edgeVars, nextAt, nonces, noncesAt, taken, applied>>

OracleNext ==
    \/ UserCall
    \/ Seal
    \/ \E r \in Runs : TakeLock(r) \/ Fetch(r)
    \/ \E r \in Runs : \E tx \in todo[r] : SubmitTx(r, tx)
    \/ \E tx \in pool : Apply(tx)
    \/ \E n \in Nodes : OracleRestart(n)

OracleSpec == OracleInit /\ [][OracleNext]_allVars

-------------------------------------------------------------------------------
(* Properties *)

\* The types, and how far the parts of a run may be apart: only a granted run
\* sends, and only a sending run has transactions to submit.
OracleTypeOK ==
    /\ TypeOK /\ LockTypeOK
    /\ nextAt \in [1 .. block - 1 -> Nat]
    /\ noncesAt \in [1 .. block - 1 -> [Signers -> Nat]]
    /\ nonces \in [Signers -> Nat]
    /\ sender \in [Runs -> {"no", "sending", "over"}]
    /\ \A r \in Runs : /\ sender[r] # "no" => phase[r] = "granted"
                       /\ todo[r] # {} <=> sender[r] = "sending"
    /\ taken \subseteq pool
    /\ \A i \in DOMAIN applied :
          applied[i] \in [call : UnsignedCalls, node : Nodes, from : Nat, in : 1 .. MaxBlock + 1]

\* "This function can be called only once every `T::UnsignedInterval` blocks":
\* the blocks that apply unsigned responses are UnsignedInterval apart.  No call
\* checks it: what keeps them apart is only that workers look at NextUnsignedAt in
\* the state of their own block before they fetch.
UnsignedSpaced ==
    \A i, j \in DOMAIN applied :
        i < j => applied[j].in >= applied[i].in + UnsignedInterval

\* What that look achieves: however late workers, submissions and blocks are, and
\* whichever nodes and keys are at work, an unsigned response is on chain only if its
\* worker's block is not within UnsignedInterval of an unsigned response that was on
\* chain by then.  Responses can come closer only by being on their way together.
CooldownObserved ==
    \A i, j \in DOMAIN applied :
        applied[i].in <= applied[j].from => applied[i].in + UnsignedInterval <= applied[j].from

\* "Transactions that call that function are de-duplicated on the pool level via
\* `validate_unsigned`": no block has two unsigned responses of one call, from
\* whichever workers and keys they come.  Neither call refuses a second one; only the
\* tags, and that the pool keeps what a block has until it is imported, see to it.
UnsignedDeduplicated ==
    \A i, j \in DOMAIN applied :
        (i # j /\ applied[i].in = applied[j].in) => applied[i].call # applied[j].call
===============================================================================
