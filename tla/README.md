# Verification of the Cyborg chain

TLA+ models of the two pallets of this repository, of their off-chain
workers and of the node that runs them, model-checked with TLC on small
instances; every safety property of a passing run is also proved with TLAPS for
every value of the constants.
`PROJECT.json` maps each definition to the source lines it models and lists runs,
mutants, findings, hazards and theorems.

## The system

A Substrate node (`node/`) runs a runtime (`runtime/src/lib.rs`) that composes
FRAME's pallets with two of this repository:

| part | source | state | who changes it |
|---|---|---|---|
| worker-registration, on chain | `pallets/worker-registration/src/lib.rs` | registry of workers, four task tables, two id counters, off-chain index | `worker_register`, `task_scheduler`, `verify_connection` |
| worker-registration, off chain | same, `offchain_worker` | a transaction in the pool | one worker for each node and block |
| edge-connect, on chain | `pallets/edge-connect/src/lib.rs` | one connection, bounded commands and responses, the unsigned cooldown | six calls |
| edge-connect, off chain | same, `offchain_worker` | `last_send` in the node's local storage, transactions in the pool | one worker for each node and block |
| signing for workers | `runtime/src/lib.rs`, `create_transaction` | the nonce in the call's storage overlay | the workers |
| node service | `node/src/service.rs` | the node's tasks, the keystore | `new_partial`, `new_full`, the end of a task, restarts |
| everything else | chain specs, CLI, RPC, benchmarking, FRAME configuration, runtime APIs | none of its own | – |

After a block became its best block, a node runs the off-chain workers of that
block in one call of the runtime, edge-connect's before worker-registration's,
concurrently with the calls of other blocks. A worker of block *b* reads the
chain state of *b* (nonces, `NextUnsignedAt`), does an HTTP request, which has a
deadline, reads its body, which has none, and submits a transaction that a later block
applies, or none does. The hard part of this system is between those steps.

## Modules

| module | models |
|---|---|
| `Maps` | FRAME storage maps as partial functions |
| `WorkerRegistration` | the worker-registration pallet on chain: one action per call, one variable per storage item, the off-chain index, the last event |
| `WorkBoard` | what that pallet promises: accounts join once, are reported up or down, tasks keep owner and worker |
| `TxPool` | the transaction pool as the workers meet it: one transaction per tag, replaced only at a higher priority (external) |
| `ClusterPing` | `WorkerRegistration` + pool + its off-chain worker on several nodes that sign with one account, with restarts |
| `EdgeConnect` | the edge-connect pallet on chain |
| `SendLock` | `choose_transaction_type`: the read and the compare-and-set of the lock, any interleaving and order of workers, restarts |
| `GraceLock` | what the lock promises: grants `GracePeriod` apart, in block order |
| `EdgeOracle` | `EdgeConnect` + `SendLock` + pool: the edge-connect worker from lock to applied response, with no bound on delays |
| `MortalEra` | `create_transaction`'s period and era, and how long what it signs is valid (era encoding and block-hash window are external) |
| `ForkPing` | the health check on a tree of blocks: every node's off-chain index, imports in any order, reports valid on other forks |
| `OffchainCall` | both pallets' workers in one call with one account: lock, overlay nonce, pool dependencies and replacement, calls that hang |
| `NodeService` | a node's start-up step by step, beside the tasks already spawned; failures, restarts, the keystore |
| `WorkerRegistrationProofs`, `ClusterPingProofs`, `ForkPingProofs` (with the era's), `EdgeConnectProofs`, `SendLockProofs`, `EdgeOracleProofs`, `OffchainCallProofs`, `NodeServiceProofs` | theorems |
| `MC*` | instances for TLC |

### How state and actions correspond to the code

*Calls.* FRAME runs a call in a storage transaction, so a call that returns an
error leaves no trace: an error path is a disabled action. A call that is applied
from the pool and fails still spends its nonce (`EdgeOracle!ApplySigned`).
`WorkerAccounts` is hashed with `Identity`, so iteration goes by account id:
accounts are numbers and `IsNthWorker` counts the smaller ones. `+= 1` on a `u64`
wraps in a release build, as `wrapping_add` does: `NextOf`. The id space is a
constant so that it wraps within a run.

*Data.* A worker's name, the digits of an address, the type of a task and its
unused measurements are left out. A response is a model value, long or short. The
first hash byte of a task string is a constant function, so selection is any
function of the string. `derived_key` drops its `extend` argument, and so does
`DerivedKey`.

*Off-chain workers.* An HTTP call is one of the outcomes `http_call`,
`fetch_cluster_status` and `fetch_response` tell apart. `nonceAt`, `noncesAt`
and `nextAt` keep what the state of each sealed block says, because that is what
a worker reads. The edge-connect worker fetches once before it tries the lock, only
to log the result; that fetch is not a step. Nothing in `EdgeOracle` bounds how late a
worker is: reading the body (edge-connect 713, worker-registration 604) has no deadline.
A restart loses workers and what only that node's pool had, never the local storage or
what is in a block.

*Pool.* One set stands for the pools of all nodes, as transactions are propagated. It
keeps an included transaction until its block is imported (`taken`); the import frees
its tag. A signed transaction leaves when its nonce is spent or its era is over. An
unsigned one may leave at any import: `longevity(3)` counts from when a pool validates it,
which every pool does anew, so it bounds nothing from the worker's block on. A second
transaction with the same tag is refused, or takes the other's place if its priority is
higher: all unsigned ones have `UNSIGNED_TXS_PRIORITY` and two reports have the same, so
only signed responses replace or are replaced (`MayReplace`). A transaction that
Substrate would keep in its queue of future ones, as nobody provides the nonce before
it, stays in the set and is not applied.

*Eras.* In an off-chain worker of block *n*, `System::block_number()` is *n*, so
`CurrentBlock(n)` is *n*-1 and the hash signed is the parent's. `Birth` is
evaluated again in the block that applies the transaction, as `CheckEra` does.

*Forks.* In `ForkPing` a block is the sequence of the extrinsics up to it, at most
one for each block, so the state of a block (who is registered under which id, the
account's nonce) is a function of the block. A node writes its index whenever it
imports a block and runs a worker only for a new best block. Authors take any
submitted report that `Valid` admits, on any block.

*One call.* In `OffchainCall` the overlay begins with the nonce of the block's
state; `SendSigned` signs with it and counts it on if the pool accepted the
transaction, which the pool validates at the worker's own block. A transaction
signed behind one of the same call depends on whatever provides that nonce in the
pool, also after a replacement, and is dropped with it and with what that depends on
(`Subtree`). `Stall` is a body that never ends.

*Start-up.* `Following` is the order of `new_full`; each step spawns what the
configuration wants or fails (`Abort`: a `?` or an `expect`), which drops the task
manager with all tasks. Meanwhile the spawned tasks run: the runner is polled for
the first time at any later moment, Aura may author at once, peers are heard after
`start_network`. Any task may end by itself; essential ones are noticed only when
`new_full` has returned the task manager. A key made from a seed is in memory
only, one from `author_insertKey` is on disk.

*History variables* (`workers`, `vouched`, `reports`, `submitted`, `applied`, `accepted`) record what
properties talk about; no guard of the program reads them.

## Runs

Passing:

| run | shows | instance |
|---|---|---|
| `worker_registration` | tables inverse to each other, four task tables agree, counters in step, index names the newest cluster of its block, event names the stored endpoint, registration is permanent, refinement of `WorkBoard` | 2 accounts, 2 ids (both counters wrap), 2 blocks; 186,219 states |
| `cluster_ping` | an up status was vouched for by an answer or a manual call; no nonce gap; one report for a block; reports are about the worker's own block | 2 nodes, 2 accounts, one of which is also the workers' account, 1 restart; 454,839 states |
| `edge_connect` | the list is the first responses that fit; events match; cooldown is monotone | 2 users, lists of 2, 4 submissions; 885,096 states |
| `send_lock` | grants spaced, no ABA, refused only for another, refinement of `GraceLock`, the race has a winner | 2 nodes, 7 workers, two at one height; 87,894 states |
| `edge_oracle` | an unsigned response on chain comes from a worker whose block is not within `UnsignedInterval` of one already on chain; no block has two of one call | 2 nodes, one of them with a key of its own beside the one they share, all four ways of sending, 5 blocks, any delay, restarts; 1,129,445 states |
| `fork_ping` | on the worker's own chain a report is about the account whose endpoint was asked; another chain takes it only from next door; no chain takes two for one block, though both nodes send one | 2 nodes, 2 accounts, 5 blocks up to height 3; 380,280 states |
| `offchain_call` | a nonce gap only after a replacement; a second report of a ping only behind a response; every ping reported, unless its calls all hang or another transaction took its nonce | 3 nodes, two with an edge-connect key, two blocks with signed responses, fairness; 106,006 states |
| `node_service` | no worker begins without its key, peers reach only a complete node, the end of Aura or the voter takes the node down | all 16 configurations, 2 starts, 2 blocks; 345,080 states |

Failing, each against a sentence of the source:

| run | sentence | what happens |
|---|---|---|
| `same_block` | worker-registration 387: indexing lets extrinsics write "so it can be read in off-chain worker context" | two registrations of one block share a key, the first is overwritten |
| `ping_lost` | worker-registration 274: "submit info to blockchain about cluster" | workers of consecutive blocks sign with the same nonce, one report is lost |
| `oracle_two_nodes` | edge-connect 287: "only once every `T::UnsignedInterval` blocks" | the workers of block 1 on two nodes both find the cooldown over; the response of one is applied in block 2, that of the other comes in when the tag is free again and is applied in block 3 |
| `fork_report` | worker-registration 469: "from successful connection" | two blocks of one height give an id to different accounts; a good report on the one is valid on the other and sets up a cluster nobody connected to |

Read off the model without a run: `verify_connection` deposits
`ConnectionEstablished` for a failed check too; `remove_connection` ignores which
connection it is told to remove; the unsigned calls store a response without a
connection, although edge-connect 284 says they work "exactly like the
`submit_response` function", which asks for one. And the lists:
edge-connect 358 and 365 call them vectors of "recently submitted" commands and
responses, and 260 says that `submit_response` "appends given `response`". The code never removes an entry. When a list is full `send_command` fails, and
`submit_response` returns `Ok` with the response dropped. So the lists are the
*first* entries that fit, not the recent ones; `FirstFittingKept` states what the code
does, and a list of the recent ones, as the docs have it, would violate it.

*Bounds.* Two accounts, nodes and lists of two are enough to have a winner and a
loser, a full list and an overflow, a wrapped counter and an overwritten slot.
`MaxBlock` bounds calls; `verify_connection` stays possible in the block after
the last. `MaxSubmissions`, `MaxNonce` and `MaxRestarts` bound histories. Deadlock
is not checked because a bounded chain stops. The grace period and
the interval have the runtime's values (3). Five blocks of tree are two forks of
heights 3 and 2, so that a worker's block, its sibling and a descendant of each exist;
`BlockHashCount` is the runtime's 2400 and only the width
of a block number is smaller (16 bits), which changes nothing below 2^15.
`OffchainCall` has the blocks 4 and 8, two whose responses are signed, so that one can
replace what is left of the other; a call of block 8 that is refused the lock stands for
a block whose responses are not. There a transaction behind one that is already on chain is ready;
Substrate's pool remembers the tags of the last two blocks for that, which this
instance stays within.

*Fairness.* `FairCallSpec`: blocks keep being produced, authors take ready
transactions, the host starts the call of each block while the node is up and runs it
on. It does not say that a call ends: the requests have deadlines, but the bodies are
read without one, so each fetch may go to `Stall`, and `PingReportedOrOvertaken` has
that outcome. `FairPingSpec` (for `ping_lost`) is the same for one pallet with
endpoints that do end their answers: more than the code sees to, and the report is lost
all the same. Users and restarts are under no obligation; these runs have
no restarts, since nothing in the code resumes a lost check. `FairLockSpec`: a
worker that has read the lock goes on to its compare-and-set. `ServiceSpec`:
`new_full` runs to its end, and the node awaits its task manager.

## Proofs

`WorkerRegistrationProofs`, from `AccountsAssumption` (accounts are finitely many
numbers), `CapacityAssumption` (no more accounts than ids) and
`InputAssumption`. The inductive invariant `Inv` is the conjunction of the six
invariants. `RegistryConsistent` alone is not inductive: a registration must take
an unused id, which needs `CountersInStep` (ids are dense and the counter is the
number of registrations until it wraps) and the cardinality argument of
`OneMoreAccount`. `PingNamesNewest` needs it too, as "newest" is the largest id.
Each call has its lemma; `Safety` combines them, and `TypeTheorem`,
`RegistryTheorem`, `TaskTablesTheorem`, `CountersTheorem`, `PingTheorem`,
`EndpointTheorem`, `PermanenceTheorem` and `Refinement` follow. `SelectionReach`
is about an operator: with one hash byte as index, exactly the first 256 workers can
ever be selected, however many there are.

`ClusterPingProofs`, from the assumptions above and `NodesAssumption`. The safety
properties need each other: `PingInv` adds to the pallet's `Inv` that every
transaction, and every worker about to send one, belongs to a sealed block with a
ping, that nonces of later blocks are no smaller (`NoncesInOrder`), and that a
report with status up is vouched for while it waits (`StatusVouched`).
`VouchedTheorem`, `NonceTheorem`, `OneReportTheorem`, `OwnBlockTheorem` and
`PingTypes` follow. `PingKeepsPallet` shows that the chain with its workers
implements `WorkerRegistration`: the only thing a worker can do to the storage is a
`verify_connection` with an id and a status of the right type. So all theorems of
the pallet hold end to end, the refinement of `WorkBoard` among them (`PingBoard`).

`ForkPingProofs` begins with the era, from `HashCountAssumption` and
`PeriodAssumption` (an era ends before the window of hashes has passed its first
block). `BirthRecovered`: signer and `CheckEra` agree on the birth block exactly
until the era's death; `AcceptedUntilDeath`: and the hash is there as long;
`BirthIsParent`: it is the parent of the worker's block. On these and
`PhaseAssumption` (the period is short enough for the encoding to keep the whole
phase, as 2048 is) rest the proofs about the tree of blocks. A report that is valid on a
block agrees with it on the birth block (`ValidIsNextDoor`, by `BirthIsParent`). The
inductive invariant `ForkInv` says of each block that ids are given densely and that
every report in it has the nonce of the state below it (`ChainOK`, `ReportsOK`), and
of each report that it has the nonce, the cluster and the account of its worker's own
state (`SentOK`). An index entry may come from any fork; that does no harm on the
worker's chain because the worker looks the cluster up in its own state, and a longer
chain gives an id to the same account (`SameAccount`). `NextDoorTheorem`,
`OwnChainTheorem`, `OneReportTheorem` (a chain counts each nonce once, `CallByCount`)
and `ForkTypes` follow, for any tree. A state counts its calls with cardinalities of
sets of positions, which is what the prover can reason about.

`EdgeConnectProofs`, from `EdgeAssumption`. `CooldownMonotone` needs `CooldownNear`:
a call sets `NextUnsignedAt` from the block number, whatever it was before.
`EdgeTypeTheorem`, `EventTheorem` and `CooldownTheorem` follow. `FirstFittingTheorem`
is a proof of its own over `EdgeInv`: response *i* of the list is the submission
that has *i* fitting ones up to it. A submission that fits adds one to
that count and, while there is room, one to the list (`FittingAppend`,
`AddResponseKeeps`).

`SendLockProofs`, from `LockAssumption`. `GrantsSpaced` is inductive only with
`LastSendIsNewest`: the stored value bounds all grants, so a worker whose
compare-and-set succeeds saw a value from which it is a grace period away, and
therefore is so from every grant (`WinnerIsLate`). `SpacingTheorem`,
`NewestTheorem`, `RefusedTheorem`, `LockTypes` and `LockRefinement` follow.

`EdgeOracleProofs`, from the assumptions of its parts and `OracleAssumption` (the
accounts of a node's keys are accounts of the chain); no assumption on delays. Each
response on chain moved `NextUnsignedAt` in the states of all blocks from its own on
(`ChainChecked`), and a run sends unsigned only if the state of its block has a cooldown
that is over; nothing that happens to the transaction after that undoes it
(`TransactionsChecked`). So `CooldownObserved` holds, though the run may come to its check,
and its transaction to a block, arbitrarily late. The pool has one unsigned transaction
of each call, those of the block under construction included (`OneOfEachCall`), which
gives `UnsignedDeduplicated`. `OracleInv` is the conjunction, with `RunsInOrder` for what
runs still hold; `CooldownObservedTheorem` and `DeduplicatedTheorem` follow. For the
signed responses `NonceInv` adds that a sealed block's nonces are never above the present
ones, so whatever a late worker signs with is spent or next. `OracleTypeTheorem`
follows; and, as each transaction is one that a call accepts, `OracleKeepsPallet` and
`OracleKeepsLock`: end to end is an implementation of `EdgeConnect` and of
`SendLock`, which brings their theorems with it (`OracleFirstFitting`, `OracleGrace`).

`OffchainCallProofs`, from `LockAssumption` and `CallAssumption` (every modelled
call is of a modelled block). `GapOnlyIfReplaced` speaks of the pool; the inductive
invariant `CallInv` relates it to the overlay of each call in progress: a call is at the
nonce of its state or past it by what the pool accepted (`CallsInOrder`), a transaction
has one of the first two nonces of its call (`FromCall`, `FromPool`), and a call that
counted on has its first transaction in the pool until its nonce is spent, or was
replaced (`FirstWaits`). Dropping a stale transaction with its subtree keeps that, because
the first transaction of a call depends on nothing (`SubtreeSpares`). `NoOtherGap`
follows, `SecondReport` from the nonces of the applied transactions being their positions
(`AppliedInOrder`), `CallTypes`, and `CallKeepsLock`: the calls implement `SendLock`.

`NodeServiceProofs`. `KeyBeforeWorkers` speaks of workers;
inductive is only `KeyInv`, which adds that before the key's step neither Aura nor
the network runs, so no block can arrive, and after it the key is there.
`NetworkLast` needs `SpawnInv`: what each step of `new_full` has spawned is running
or has ended by itself. `KeyTheorem` and `NetworkTheorem` follow, from no assumption.
That a task never runs after it ended (`ServiceTypeOK`) needs the converse,
`LifeInv`: what a step has yet to spawn is neither running nor ended.
`ServiceTypeTheorem` follows, from `ServiceAssumption`.

Only model-checked: liveness (`PingReportedOrOvertaken`, `SomeoneSends`,
`EssentialTakesDown`), because the prover has neither fairness nor `ENABLED`; and the
four failing runs, whose counterexamples are the result. In the proofs the
bounds in the guards (`MaxBlock`, `MaxRestarts`, `MaxBlocks` and the like) are
constants of any size.

## Not modelled

Of forks: how a best chain is chosen beyond its length, finality, and the pool's
resubmission of retracted transactions (an author may take any report ever
submitted, which includes it); edge-connect on forks (several runs at one height
are in `SendLock`). Fees and weights, FRAME's own pallets and runtime APIs, consensus
and networking, CLI, RPC, chain specifications: they hold no state of this
repository's own, only configuration. Code that is commented out
(`submit_completed_task`, `verify_completed_task`) is not modelled.
Pools that differ between nodes are not modelled apart: what one node's pool lacks is a
transaction that is late there. Hash collisions,
signature checks that fail, and the SCALE encoding are outside the abstraction.

## Plan

What would add most from here: edge-connect's unsigned responses on forks, where
`NextUnsignedAt` differs between chains; and restarts in `OffchainCall`, where a lost
first transaction would leave the second one waiting.
