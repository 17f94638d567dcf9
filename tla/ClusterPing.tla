------------------------------ MODULE ClusterPing ------------------------------
(***************************************************************************)
(* The health check of a new cluster, end to end: worker_register leaves an *)
(* off-chain index entry for its block; on every node the off-chain worker  *)
(* of that block reads it, calls the cluster over HTTP and submits a signed *)
(* verify_connection, which a later block applies.                         *)
(*                                                                         *)
(* Every node built with the `ocw` feature signs with the same account. An  *)
(* off-chain worker of block b runs on the state of block b, so the nonce   *)
(* it signs with is the account's nonce at the end of block b, however late *)
(* the transaction is submitted.                                           *)
(*                                                                         *)
(* task_scheduler is left out: it writes only the task tables, which no     *)
(* step here reads.                                                        *)
(***************************************************************************)
EXTENDS WorkerRegistration, TxPool

CONSTANTS
    Nodes,
    SigningNodes,   \* nodes with a "ping" key in the keystore (feature `ocw`)
    IndexingNodes,  \* nodes run with --enable-offchain-indexing=true
    OcwAccount,     \* the account of that key
    Verifiers,      \* accounts that also call verify_connection by hand
    MaxNonce,       \* bound on the nonce OcwAccount reaches by calls made by hand
    MaxRestarts     \* bound on node restarts

ASSUME NodesAssumption ==
    /\ SigningNodes \subseteq Nodes /\ IndexingNodes \subseteq Nodes
    /\ Verifiers \subseteq Accounts
    /\ MaxNonce \in Nat /\ MaxRestarts \in Nat

VARIABLES
    nonce,      \* of OcwAccount, in the block under construction
    nonceAt,    \* sealed block -> nonce of OcwAccount in its state
    pool,       \* the verify_connection transactions submitted and not yet applied
    run,        \* run[n][b]: the off-chain worker of block b on node n
    restarts,
    vouched,    \* history: clusters somebody claimed to be up
    reports     \* history: the off-chain workers' transactions that were applied

ocwVars == <<nonce, nonceAt, pool, run, restarts, vouched, reports>>
pingVars == <<vars, ocwVars>>

Blocks == 1 .. MaxBlock

\* How an HTTP call to a cluster can end.
Outcomes == {"up", "down", "io_error", "deadline", "bad_status", "no_utf8", "empty", "bad_json"}

Verification(n, b, c, s, k) ==
    [tag |-> <<OcwAccount, k>>, nonce |-> k, node |-> n, block |-> b, cluster |-> c, status |-> s]

-------------------------------------------------------------------------------
PingInit ==
    /\ Init
    /\ nonce = 0
    /\ nonceAt = Empty
    /\ pool = {}
    /\ run = [n \in Nodes |-> [b \in Blocks |-> "idle"]]
    /\ restarts = 0
    /\ vouched = {}
    /\ reports = {}

\* A call made by hand spends a nonce of its signer.
Signed(who) ==
    /\ who = OcwAccount => nonce < MaxNonce
    /\ nonce' = IF who = OcwAccount THEN nonce + 1 ELSE nonce

UserRegister(who, ip, port) ==
    /\ WorkerRegister(who, ip, port)
    /\ Signed(who)
    /\ UNCHANGED <<nonceAt, pool, run, restarts, vouched, reports>>

UserVerify(who, c, s) ==
    /\ VerifyConnection(c, s)
    /\ Signed(who)
    /\ vouched' = IF s THEN vouched \cup {c} ELSE vouched
    /\ UNCHANGED <<nonceAt, pool, run, restarts, reports>>

\* The block is sealed, imported by every node, and its state kept.
Seal ==
    /\ NewBlock
    /\ nonceAt' = Insert(nonceAt, block, nonce)
    /\ UNCHANGED <<nonce, pool, run, restarts, vouched, reports>>

\* The off-chain worker starts: without a key, an index entry or the cluster it
\* returns at once, which is no step; otherwise it sends the HTTP request.
OffchainWorker(n, b) ==
    /\ run[n][b] = "idle"
    /\ b < block
    /\ n \in SigningNodes
    /\ n \in IndexingNodes
    /\ DerivedKey(b, "ping") \in DOMAIN offchainIndex
    /\ offchainIndex[DerivedKey(b, "ping")] \in DOMAIN WorkerClusters
    /\ run' = [run EXCEPT ![n][b] = "fetching"]
    /\ UNCHANGED <<vars, nonce, nonceAt, pool, restarts, vouched, reports>>

\* Mutant: an error taken for an answer.
StatusIfAnswered(outcome) == outcome # "down"

\* fetch_cluster_status, and the off-chain worker's default for its errors.
DeploymentStatus(outcome) == outcome = "up"

\* Mutant: the nonce of the newest state instead of the worker's own block.
NonceNow(b) == nonce

\* The nonce that send_signed_transaction reads for the worker of block b.
NonceFor(b) == nonceAt[b]

\* The HTTP call ends and the worker submits its transaction; a refused
\* submission is only logged.  All reports have the same length and weight, so the
\* same priority: none takes the place of another.
SubmitVerification(n, b, outcome) ==
    LET c == offchainIndex[DerivedKey(b, "ping")]
        s == DeploymentStatus(outcome)
    IN  /\ run[n][b] = "fetching"
        /\ run' = [run EXCEPT ![n][b] = "done"]
        /\ pool' = Submit(pool, Verification(n, b, c, s, NonceFor(b)))
        /\ vouched' = IF outcome = "up" THEN vouched \cup {c} ELSE vouched
        /\ UNCHANGED <<vars, nonce, nonceAt, restarts, reports>>

\* A block author applies a pooled transaction whose nonce is next.
Apply(tx) ==
    /\ tx \in pool
    /\ tx.nonce = nonce
    /\ VerifyConnection(tx.cluster, tx.status)
    /\ nonce' = nonce + 1
    /\ pool' = pool \ {tx}
    /\ reports' = reports \cup {tx}
    /\ UNCHANGED <<nonceAt, run, restarts, vouched>>

\* The pool drops a transaction whose nonce was spent by another one.
DropStale(tx) ==
    /\ tx \in pool
    /\ tx.nonce < nonce
    /\ pool' = pool \ {tx}
    /\ UNCHANGED <<vars, nonce, nonceAt, run, restarts, vouched, reports>>

\* A node restarts: its off-chain workers, begun or due, are gone, and so is
\* whatever had not reached another node's pool.
Restart(n) ==
    /\ restarts < MaxRestarts
    /\ restarts' = restarts + 1
    /\ run' = [run EXCEPT ![n] = [b \in Blocks |-> IF b < block THEN "done" ELSE @[b]]]
    /\ \E kept \in SUBSET pool : pool' = kept
    /\ UNCHANGED <<vars, nonce, nonceAt, vouched, reports>>

PingNext ==
    \/ \E who \in Accounts, ip \in Ip, port \in Ports : UserRegister(who, ip, port)
    \/ \E who \in Verifiers, c \in ClusterId, s \in BOOLEAN : UserVerify(who, c, s)
    \/ Seal
    \/ \E n \in Nodes, b \in Blocks : OffchainWorker(n, b)
    \/ \E n \in Nodes, b \in Blocks, outcome \in Outcomes : SubmitVerification(n, b, outcome)
    \/ \E tx \in pool : Apply(tx) \/ DropStale(tx)
    \/ \E n \in Nodes : Restart(n)

PingSpec == PingInit /\ [][PingNext]_pingVars

\* Blocks keep coming, every off-chain worker is started and its HTTP call ends, and
\* block authors take what the pool offers.  Users and restarts are under no
\* obligation.  That the call ends is more than the code sees to: the request has a
\* deadline of 3 s, reading the body has none.  EveryPingReported fails even for
\* endpoints that end what they send; OffchainCall has the others.
Fairness ==
    /\ WF_pingVars(Seal)
    /\ WF_pingVars(\E tx \in pool : Apply(tx) \/ DropStale(tx))
    /\ \A n \in Nodes, b \in Blocks :
          /\ WF_pingVars(OffchainWorker(n, b))
          /\ WF_pingVars(\E outcome \in Outcomes : SubmitVerification(n, b, outcome))

FairPingSpec == PingSpec /\ Fairness

-------------------------------------------------------------------------------
(* Properties *)

PingTypeOK ==
    /\ TypeOK
    /\ nonce \in Nat
    /\ nonceAt \in [1 .. block - 1 -> Nat]
    /\ \A tx \in pool \cup reports :
          \E n \in Nodes, b \in Blocks, c \in ClusterId, s \in BOOLEAN :
             tx = Verification(n, b, c, s, tx.nonce)
    /\ run \in [Nodes -> [Blocks -> {"idle", "fetching", "done"}]]
    /\ restarts \in 0 .. MaxRestarts
    /\ vouched \subseteq ClusterId

\* A cluster is shown as up only if its endpoint answered that it is, or an
\* account claimed so in a signed verify_connection: no timeout, HTTP error or
\* bad body, and no other cluster's answer, ever turns the status to true.
UpOnlyIfVouched ==
    \A c \in DOMAIN WorkerClusters : WorkerClusters[c].status => c \in vouched

\* A pooled verify_connection is ready or stale, never ahead of the account,
\* and no two compete for a nonce: the account is never blocked by a gap.
NoNonceGap ==
    \A tx \in pool :
        /\ tx.nonce <= nonce
        /\ \A other \in pool : other.nonce = tx.nonce => other = tx

\* All nodes check the clusters of a block, but the chain takes at most one
\* report for it: they all sign with the same nonce, that of the block's state.
OneReportPerBlock ==
    \A r1, r2 \in reports : r1.block = r2.block => r1 = r2

\* What the off-chain worker of a block submits is about a cluster registered
\* in that very block, the newest one: it exists when the call is applied.
ReportsOwnBlock ==
    \A tx \in pool \cup reports :
        /\ tx.cluster \in DOMAIN WorkerClusters
        /\ \A c \in DOMAIN WorkerClusters :
              c >= tx.cluster =>
                 (WorkerClusters[c].start_block = tx.block <=> c = tx.cluster)

\* "Use response to submit info to blockchain about cluster": the ping that a
\* sealed block holds for its off-chain worker leads to a report on chain.
EveryPingReported ==
    \A c \in ClusterId :
        (/\ c \in DOMAIN WorkerClusters
         /\ WorkerClusters[c].start_block < block
         /\ offchainIndex[DerivedKey(WorkerClusters[c].start_block, "ping")] = c)
        ~> (\E tx \in reports : tx.cluster = c)
===============================================================================
