------------------------------ MODULE NodeService ------------------------------
(***************************************************************************)
(* A node's life (node/src/service.rs): new_full builds the service step by *)
(* step on one thread, while the tasks it has already spawned run; once it  *)
(* has returned, the node runs until an essential task ends.  Blocks come   *)
(* from the node's own Aura task and, once the network is started, from     *)
(* peers.  The runner of the off-chain workers sees the blocks imported     *)
(* after it was first polled.                                              *)
(*                                                                         *)
(* Left out: telemetry, metrics, and what the parts are configured with.    *)
(***************************************************************************)
EXTENDS Naturals, FiniteSets

CONSTANTS
    KeyTypes,   \* key types of the off-chain workers: "ping" and "edge"
    MaxHeight,  \* bound on the blocks imported
    MaxStarts   \* bound on the times the operator starts the node

ASSUME ServiceAssumption ==
    /\ "ping" \in KeyTypes
    /\ MaxHeight \in Nat /\ MaxStarts \in Nat \ {0}

VARIABLES
    config,     \* the node's configuration and the `ocw` feature of its build
    step,       \* what new_full does next; "up" when it has returned, or "down"
    tasks,      \* the tasks that are running
    failed,     \* the tasks that have ended by themselves since the node was started
    subscribed, \* the runner was polled and listens to imported blocks
    networkOn,  \* start_network was called
    keystore,   \* key types present in the keystore
    keyfiles,   \* those of them that are on disk
    height,     \* of the chain, which a restart keeps
    workers,    \* history: [block, keys] for every off-chain worker begun
    starts

serviceVars == <<config, step, tasks, failed, subscribed, networkOn, keystore, keyfiles,
                 height, workers, starts>>

Config == [authority : BOOLEAN, grandpa : BOOLEAN, offchain : BOOLEAN, ocw : BOOLEAN]

Steps == {"partial", "network", "runner", "key", "rpc", "aura", "grandpa", "start_network",
          "up", "down"}

Tasks == {"pool", "import_queue", "network", "runner", "rpc", "aura", "grandpa"}

\* Mutant: the voter spawned with spawn_handle.
EssentialButVoter == {"pool", "import_queue", "aura"}

\* The tasks spawned with spawn_essential_handle.
Essential == {"pool", "import_queue", "aura", "grandpa"}

\* Mutants: the key inserted when all tasks are there, and the network started
\* as soon as it is built.
KeyAfterTasks(s) ==
    CASE s = "partial" -> "network" [] s = "network" -> "runner"
      [] s = "runner" -> "rpc" [] s = "rpc" -> "aura"
      [] s = "aura" -> "grandpa" [] s = "grandpa" -> "key"
      [] s = "key" -> "start_network" [] s = "start_network" -> "up"
NetworkAtOnce(s) ==
    CASE s = "partial" -> "network" [] s = "network" -> "start_network"
      [] s = "start_network" -> "runner" [] s = "runner" -> "key"
      [] s = "key" -> "rpc" [] s = "rpc" -> "aura"
      [] s = "aura" -> "grandpa" [] s = "grandpa" -> "up"

\* The order of new_full.
Following(s) ==
    CASE s = "partial" -> "network" [] s = "network" -> "runner"
      [] s = "runner" -> "key" [] s = "key" -> "rpc"
      [] s = "rpc" -> "aura" [] s = "aura" -> "grandpa"
      [] s = "grandpa" -> "start_network" [] s = "start_network" -> "up"

\* What the configuration asks for.
Wanted ==
    {"pool", "import_queue", "network", "rpc"}
    \cup (IF config.offchain THEN {"runner"} ELSE {})
    \cup (IF config.authority THEN {"aura"} ELSE {})
    \cup (IF config.grandpa THEN {"grandpa"} ELSE {})

-------------------------------------------------------------------------------
ServiceInit ==
    /\ config \in Config
    /\ step = "partial"
    /\ tasks = {} /\ failed = {}
    /\ subscribed = FALSE /\ networkOn = FALSE
    /\ keystore = {} /\ keyfiles = {}
    /\ height = 0 /\ workers = {}
    /\ starts = 1

\* Mutant: the conditions on the configuration dropped.
SpawnAlways(s, ts) ==
    /\ step = s
    /\ step' = Following(s)
    /\ tasks' = tasks \cup ts
    /\ UNCHANGED <<config, failed, subscribed, networkOn, keystore, keyfiles, height, workers, starts>>

\* One step of new_full, which spawns those of the tasks ts that are wanted.
Spawn(s, ts) ==
    /\ step = s
    /\ step' = Following(s)
    /\ tasks' = tasks \cup (ts \cap Wanted)
    /\ UNCHANGED <<config, failed, subscribed, networkOn, keystore, keyfiles, height, workers, starts>>

\* new_partial: the client, the pool, the import queue.
NewPartial == Spawn("partial", {"pool", "import_queue"})

BuildNetwork == Spawn("network", {"network"})

SpawnRunner == Spawn("runner", {"runner"})

\* With the feature `ocw`, the "ping" key is made from a seed, in memory only.
InsertKey ==
    /\ step = "key"
    /\ step' = Following("key")
    /\ keystore' = keystore \cup (IF config.offchain /\ config.ocw THEN {"ping"} ELSE {})
    /\ UNCHANGED <<config, tasks, failed, subscribed, networkOn, keyfiles, height, workers, starts>>

SpawnTasks == Spawn("rpc", {"rpc"})

StartAura == Spawn("aura", {"aura"})

RunGrandpaVoter == Spawn("grandpa", {"grandpa"})

StartNetwork ==
    /\ step = "start_network"
    /\ step' = Following("start_network")
    /\ networkOn' = TRUE
    /\ UNCHANGED <<config, tasks, failed, subscribed, keystore, keyfiles, height, workers, starts>>

\* The service is dropped: every task stops, keys in memory are gone.
Shutdown ==
    /\ step' = "down"
    /\ tasks' = {} /\ subscribed' = FALSE /\ networkOn' = FALSE
    /\ keystore' = keyfiles
    /\ UNCHANGED <<config, failed, keyfiles, height, workers, starts>>

\* A step of new_full returns an error or panics.
Abort ==
    /\ \/ step \in {"partial", "network", "rpc"}
       \/ step = "key" /\ config.offchain /\ config.ocw
       \/ step = "aura" /\ config.authority
       \/ step = "grandpa" /\ config.grandpa
    /\ Shutdown

\* Once new_full has returned, the end of an essential task ends the node.
TakeDown ==
    /\ step = "up"
    /\ failed \cap Essential # {}
    /\ Shutdown

-------------------------------------------------------------------------------
(* The tasks, the operator and the chain *)

\* The runner's first poll.
Subscribe ==
    /\ "runner" \in tasks
    /\ ~subscribed
    /\ subscribed' = TRUE
    /\ UNCHANGED <<config, step, tasks, failed, networkOn, keystore, keyfiles, height, workers, starts>>

\* A block is imported, by the node's own Aura or from a peer through the import
\* queue; the runner starts its off-chain workers.
ImportBlock ==
    /\ height < MaxHeight
    /\ \/ "aura" \in tasks
       \/ networkOn /\ {"network", "import_queue"} \subseteq tasks
    /\ height' = height + 1
    /\ workers' = IF subscribed /\ "runner" \in tasks
                  THEN workers \cup {[block |-> height + 1, keys |-> keystore]}
                  ELSE workers
    /\ UNCHANGED <<config, step, tasks, failed, subscribed, networkOn, keystore, keyfiles, starts>>

TaskEnds(task) ==
    /\ task \in tasks
    /\ tasks' = tasks \ {task}
    /\ failed' = failed \cup {task}
    /\ UNCHANGED <<config, step, subscribed, networkOn, keystore, keyfiles, height, workers, starts>>

\* The author_insertKey RPC, which writes the key to disk.
AuthorInsertKey(key) ==
    /\ "rpc" \in tasks
    /\ keystore' = keystore \cup {key}
    /\ keyfiles' = keyfiles \cup {key}
    /\ UNCHANGED <<config, step, tasks, failed, subscribed, networkOn, height, workers, starts>>

StartAgain ==
    /\ step = "down"
    /\ starts < MaxStarts
    /\ starts' = starts + 1
    /\ step' = "partial"
    /\ failed' = {}
    /\ UNCHANGED <<config, tasks, subscribed, networkOn, keystore, keyfiles, height, workers>>

NewFull ==
    \/ NewPartial \/ BuildNetwork \/ SpawnRunner \/ InsertKey
    \/ SpawnTasks \/ StartAura \/ RunGrandpaVoter \/ StartNetwork

ServiceNext ==
    \/ NewFull \/ Abort \/ TakeDown
    \/ Subscribe \/ ImportBlock
    \/ \E task \in Tasks : TaskEnds(task)
    \/ \E key \in KeyTypes : AuthorInsertKey(key)
    \/ StartAgain

\* new_full goes on until it returns, and the node then watches its tasks.
\* Nothing is assumed of blocks, failures and the operator.
ServiceSpec ==
    /\ ServiceInit /\ [][ServiceNext]_serviceVars
    /\ WF_serviceVars(NewFull) /\ WF_serviceVars(TakeDown)

-------------------------------------------------------------------------------
(* Properties *)

ServiceTypeOK ==
    /\ config \in Config /\ step \in Steps
    /\ tasks \subseteq Wanted /\ failed \subseteq Wanted
    /\ tasks \cap failed = {}
    /\ subscribed \in BOOLEAN /\ networkOn \in BOOLEAN
    /\ keyfiles \subseteq keystore /\ keystore \subseteq KeyTypes
    /\ height \in 0 .. MaxHeight /\ starts \in 1 .. MaxStarts
    /\ workers \subseteq [block : 1 .. height, keys : SUBSET KeyTypes]

\* On a node built with `ocw`, no off-chain worker ever runs without the key it
\* signs with.  new_full spawns the runner before it makes the key, in memory and
\* anew at every start; it holds because the sources of blocks come later still.
KeyBeforeWorkers ==
    config.ocw => \A w \in workers : "ping" \in w.keys

\* Peers reach only a complete node: when start_network is called, every task the
\* configuration asks for was spawned, so nothing that peers send is missed
\* unless a task has ended by itself.
NetworkLast == networkOn => Wanted \subseteq tasks \cup failed

\* "if it fails we take down the service with it", of Aura and of the GRANDPA
\* voter: also when the task ends while new_full is still at work.
EssentialTakesDown ==
    (failed \cap {"aura", "grandpa"} # {}) ~> (step = "down")
===============================================================================
