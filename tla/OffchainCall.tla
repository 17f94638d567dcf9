------------------------------ MODULE OffchainCall ------------------------------
(***************************************************************************)
(* Both pallets in one runtime.  A node runs the off-chain workers of a      *)
(* block in one call of the runtime, one pallet after the other in the order *)
(* of construct_runtime: first edge-connect (its lock, perhaps a signed      *)
(* response), then worker-registration (the ping).  They share the storage   *)
(* overlay of the call, and that is where send_signed_transaction counts the *)
(* nonce on; here they also share the account, as they do when the operator  *)
(* gives edge-connect the key that worker-registration has.                 *)
(*                                                                         *)
(* Of the chain only the account's nonce and the blocks with a ping matter.  *)
(* Unsigned responses, which have no nonce, are those of EdgeOracle.        *)
(***************************************************************************)
EXTENDS SendLock, TxPool, Sequences

CONSTANTS
    FirstBlock,     \* the first block with a call that is modelled
    MaxBlock,       \* bound on sealed blocks
    EdgeNodes       \* nodes with a key for edge-connect

ASSUME CallAssumption ==
    /\ FirstBlock \in Nat \ {0} /\ MaxBlock \in Nat /\ FirstBlock <= MaxBlock
    /\ EdgeNodes \subseteq Nodes
    /\ \A r \in Runs : NumberOf[r] >= FirstBlock

VARIABLES
    block,      \* number of the block under construction
    pinged,     \* blocks in which a worker was registered
    nonce,      \* of the account, in the block under construction
    nonceAt,    \* sealed block -> nonce in its state
    pool,
    taken,      \* the pooled transactions already in the block under construction
    stage,      \* run -> where its call is
    overlay,    \* run -> the account's nonce in the call's overlay
    accepted,   \* history: the transactions the pool ever took
    applied     \* history: the transactions of the chain, in order

callVars == <<block, pinged, nonce, nonceAt, pool, taken, stage, overlay, accepted, applied>>
allVars == <<lockVars, callVars>>

Blocks == FirstBlock .. MaxBlock

\* A transaction of the account: its nonce is the tag.  One that the call signed
\* behind another of its own requires that one's tag, and depends on the pooled
\* transaction that provides it, if there is one, or on what replaces that one.
Tx(r, k, pallet) ==
    [tag |-> k, pallet |-> pallet, run |-> r,
     behind |-> {other.run : other \in {tx \in pool : k > nonceAt[NumberOf[r]] /\ tx.tag = k - 1}},
     replaced |-> UNION {{other.run} \cup other.replaced : other \in {tx \in pool : tx.tag = k}}]

\* Without a tip the priority is a matter of weight and length.  Two reports have the
\* same; a response may have more or less than a report or another response.
MayReplace(tx, other) == tx.pallet = "edge-connect" \/ other.pallet = "edge-connect"

-------------------------------------------------------------------------------
CallInit ==
    /\ LockInit
    /\ block = FirstBlock
    /\ pinged = {}
    /\ nonce = 0
    /\ nonceAt = [b \in {FirstBlock - 1} |-> 0]
    /\ pool = {} /\ taken = {}
    /\ stage = [r \in Runs |-> "due"]
    /\ overlay = [r \in Runs |-> 0]
    /\ accepted = {}
    /\ applied = <<>>

\* The block is sealed, with or without a registration, and imported everywhere;
\* the pool drops what has the tags that the block provides.  A registration in a block
\* that no call is for would change nothing.
Seal(registered) ==
    /\ block <= MaxBlock
    /\ registered => \E r \in Runs : NumberOf[r] = block
    /\ block' = block + 1
    /\ pinged' = IF registered THEN pinged \cup {block} ELSE pinged
    /\ nonceAt' = [b \in DOMAIN nonceAt \cup {block} |-> IF b = block THEN nonce ELSE nonceAt[b]]
    /\ pool' = {tx \in pool : tx.tag \notin nonceAt[block - 1] .. nonce - 1}
    /\ taken' = {}
    /\ UNCHANGED <<lockVars, nonce, stage, overlay, accepted, applied>>

\* Mutant: a nonce counted on before its first use.
OverlayAhead(r) == nonceAt[NumberOf[r]] + 1

\* Mutant: the nonce of the newest state.
OverlayNow(r) == nonce

\* The account's nonce in the state the call starts from.
OverlayAtStart(r) == nonceAt[NumberOf[r]]

\* Without a key edge-connect returns at once, and the next pallet's turn comes.
FirstStage(r) == IF NodeOf[r] \in EdgeNodes THEN "edge" ELSE "ping"

Begin(r) ==
    /\ stage[r] = "due"
    /\ NumberOf[r] < block
    /\ stage' = [stage EXCEPT ![r] = FirstStage(r)]
    /\ overlay' = [overlay EXCEPT ![r] = OverlayAtStart(r)]
    /\ UNCHANGED <<lockVars, block, pinged, nonce, nonceAt, pool, taken, accepted, applied>>

\* edge-connect tries the lock.
EdgeLock(r) ==
    /\ stage[r] = "edge"
    /\ ReadLast(r) \/ CompareAndSet(r)
    /\ UNCHANGED callVars

\* send_signed_transaction: the nonce in the overlay goes on if the pool took the
\* transaction.  It is validated in the state of the worker's own block, so a nonce
\* spent since is no reason to refuse it; a tag that is provided already is, unless the
\* new transaction has the higher priority and takes the place of the other.
SendSigned(r, pallet) ==
    LET tx == Tx(r, overlay[r], pallet)
    IN  \/ /\ \A other \in Rivals(pool, tx) : MayReplace(tx, other)
          /\ pool' = Replace(pool, tx)
          /\ taken' = taken \ Rivals(pool, tx)
          /\ overlay' = [overlay EXCEPT ![r] = @ + 1]
          /\ accepted' = accepted \cup {tx}
       \/ /\ Rivals(pool, tx) # {}
          /\ UNCHANGED <<pool, taken, overlay, accepted>>

\* Mutant: edge-connect's return ends the whole call.
EdgeReturns(r) ==
    /\ stage[r] = "edge"
    /\ phase[r] \in {"refused", "granted"}
    /\ stage' = [stage EXCEPT ![r] = "over"]
    /\ UNCHANGED <<lockVars, block, pinged, nonce, nonceAt, pool, taken, overlay, accepted, applied>>

\* edge-connect is refused the lock, fails to fetch, or sends unsigned: no nonce.
EdgeWithout(r) ==
    /\ stage[r] = "edge"
    /\ phase[r] \in {"refused", "granted"}
    /\ stage' = [stage EXCEPT ![r] = "ping"]
    /\ UNCHANGED <<lockVars, block, pinged, nonce, nonceAt, pool, taken, overlay, accepted, applied>>

\* edge-connect got the lock in a block for signed responses, and sends one.
EdgeSigned(r) ==
    /\ stage[r] = "edge"
    /\ phase[r] = "granted"
    /\ NumberOf[r] % 4 = 0
    /\ SendSigned(r, "edge-connect")
    /\ stage' = [stage EXCEPT ![r] = "ping"]
    /\ UNCHANGED <<lockVars, block, pinged, nonce, nonceAt, applied>>

\* worker-registration: a report for the block's ping, if it has one.
Ping(r) ==
    /\ stage[r] = "ping"
    /\ stage' = [stage EXCEPT ![r] = "over"]
    /\ \/ NumberOf[r] \in pinged /\ SendSigned(r, "worker-registration")
       \/ NumberOf[r] \notin pinged /\ UNCHANGED <<pool, taken, overlay, accepted>>
    /\ UNCHANGED <<lockVars, block, pinged, nonce, nonceAt, applied>>

\* Both pallets read a body without a deadline: an endpoint that never ends its answer
\* holds the call for good, in the fetches of edge-connect around its lock or in the
\* check of the ping.
Stall(r) ==
    /\ \/ stage[r] = "edge" /\ phase[r] \in {"idle", "granted"}
       \/ stage[r] = "ping" /\ NumberOf[r] \in pinged
    /\ stage' = [stage EXCEPT ![r] = "stalled"]
    /\ UNCHANGED <<lockVars, block, pinged, nonce, nonceAt, pool, taken, overlay, accepted, applied>>

\* The transaction it depends on, while that is in the pool.
Providers(tx) ==
    {other \in pool \ taken : /\ other.tag = tx.tag - 1
                              /\ ({other.run} \cup other.replaced) \cap tx.behind # {}}

\* What goes when tx goes: itself and, in turn, whatever depends on what goes.
Subtree(tx) ==
    {other \in pool : \A gone \in SUBSET pool :
        (tx \in gone /\ \A t \in pool : Providers(t) \cap gone # {} => t \in gone)
        => other \in gone}

\* A block author applies the account's next transaction, unless it depends on one
\* that is still in the pool.
Apply(tx) ==
    /\ tx \in pool \ taken
    /\ tx.tag = nonce
    /\ Providers(tx) = {}
    /\ nonce' = nonce + 1
    /\ taken' = taken \cup {tx}
    /\ applied' = Append(applied, tx)
    /\ UNCHANGED <<lockVars, block, pinged, nonceAt, pool, stage, overlay, accepted>>

\* An author or the pool finds that a transaction's nonce is spent in the state of the
\* last block, and removes it with what depends on it.
DropStale(tx) ==
    /\ tx \in pool
    /\ tx.tag < nonceAt[block - 1]
    /\ pool' = pool \ Subtree(tx)
    /\ taken' = taken \ Subtree(tx)
    /\ UNCHANGED <<lockVars, block, pinged, nonce, nonceAt, stage, overlay, accepted, applied>>

Step(r) == Begin(r) \/ EdgeLock(r) \/ EdgeWithout(r) \/ EdgeSigned(r) \/ Ping(r)

CallNext ==
    \/ \E registered \in BOOLEAN : Seal(registered)
    \/ \E r \in Runs : Step(r) \/ Stall(r)
    \/ \E tx \in pool : Apply(tx) \/ DropStale(tx)

CallSpec == CallInit /\ [][CallNext]_allVars

\* Blocks keep coming and take what is ready; the host runs each call on, to its end
\* or to a body that does not end.
CallFairness ==
    /\ WF_allVars(\E registered \in BOOLEAN : Seal(registered))
    /\ WF_allVars(\E tx \in pool : Apply(tx) \/ DropStale(tx))
    /\ \A r \in Runs : WF_allVars(Step(r))

FairCallSpec == CallSpec /\ CallFairness

-------------------------------------------------------------------------------
(* Properties *)

\* The types, and how the parts of a call hang together: the lock is touched only by
\* calls in edge-connect or past it, and the overlay is ahead of the state by the
\* transactions the call got into the pool.
CallTypeOK ==
    /\ LockTypeOK
    /\ nonceAt \in [FirstBlock - 1 .. block - 1 -> Nat]
    /\ pinged \subseteq FirstBlock .. block - 1
    /\ taken \subseteq pool
    /\ nonce = Len(applied)
    /\ \A r \in Runs :
          /\ stage[r] \in {"due", "edge", "ping", "over", "stalled"}
          /\ phase[r] # "idle" => stage[r] # "due" /\ NodeOf[r] \in EdgeNodes
          /\ stage[r] # "due" => overlay[r] \in nonceAt[NumberOf[r]] .. nonceAt[NumberOf[r]] + 2

\* However the calls of the nodes interleave, every pooled transaction has all the
\* nonces before its own in the pool or on chain: send_signed_transaction counts on
\* only from a nonce somebody has.  The one way to a gap, which keeps the transaction
\* from every block until somebody fills it, is that a transaction of another call took
\* the place of the first one of its own call, and then left.
GapOnlyIfReplaced ==
    \A tx \in pool : \A k \in nonceAt[block - 1] .. tx.tag - 1 :
        \/ \E other \in pool : other.tag = k
        \/ \E rival \in accepted : rival.tag = k /\ tx.run \in rival.replaced

\* The nodes report the ping of a block once with the nonce of its state, and at most
\* once more: behind a response that the pool took although the first report had
\* spent its nonce.  Further reports are impossible however late the nodes are.
SecondReportBehindResponse ==
    \A i, j \in DOMAIN applied :
        LET b == NumberOf[applied[i].run]
        IN  (/\ i < j /\ NumberOf[applied[j].run] = b
             /\ applied[i].pallet = "worker-registration"
             /\ applied[j].pallet = "worker-registration")
            => /\ applied[i].tag = nonceAt[b] /\ applied[j].tag = nonceAt[b] + 1
               /\ overlay[applied[j].run] = nonceAt[b] + 2

\* What becomes of every ping while the nodes stay up: it is reported, or the calls of
\* all nodes for its block hang on a body without an end, or the pool at
\* some time took another transaction with the nonce its workers begin from: another
\* block's report, or a response of edge-connect.  Such a rival need not reach the
\* chain to cost the report: it can hold the nonce in the pool, and then be dropped
\* with the stale transaction it depends on.  Without a rival no ping is lost.
PingReportedOrOvertaken ==
    \A b \in Blocks :
        (b \in pinged)
        ~> \/ \E i \in DOMAIN applied :
                 NumberOf[applied[i].run] = b /\ applied[i].pallet = "worker-registration"
           \/ \A r \in Runs : NumberOf[r] = b => stage[r] = "stalled"
           \/ b < block /\ \E tx \in accepted :
                 /\ tx.tag = nonceAt[b]
                 /\ tx.pallet = "edge-connect" \/ NumberOf[tx.run] # b
===============================================================================
