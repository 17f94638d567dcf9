--------------------------- MODULE NodeServiceProofs ---------------------------
(***************************************************************************)
(* Proofs about a node's start-up, for any number of blocks and restarts.   *)
(***************************************************************************)
EXTENDS NodeService, TLAPS

\* The steps of new_full up to the insertion of the key, and a node that is down.
BeforeKey == {"partial", "network", "runner", "key", "down"}

\* The inductive invariant.  KeyBeforeWorkers needs that no block arrives before
\* the key is there, which is a fact about the order of three other steps.
KeyInv ==
    /\ config \in Config /\ step \in Steps
    /\ "runner" \in tasks => config.offchain
    /\ step \in BeforeKey => "aura" \notin tasks /\ ~networkOn
    /\ step \notin BeforeKey /\ config.offchain /\ config.ocw => "ping" \in keystore
    /\ KeyBeforeWorkers

\* A node is first started with nothing spawned and no worker begun.
LEMMA KeyInitInv == ServiceInit => KeyInv
  BY DEF ServiceInit, KeyInv, KeyBeforeWorkers, Steps, BeforeKey

\* The steps of new_full preserve the invariant: those that bring blocks, Aura
\* and the network, come after the one that inserts the key.
LEMMA NewFullInv == KeyInv /\ NewFull => KeyInv'
<1> SUFFICES ASSUME KeyInv, NewFull PROVE KeyInv'
  OBVIOUS
<1> USE DEF KeyInv, KeyBeforeWorkers, Steps, BeforeKey, Following
<1>1. CASE NewPartial
  BY <1>1 DEF NewPartial, Spawn
<1>2. CASE BuildNetwork
  BY <1>2 DEF BuildNetwork, Spawn
<1>3. CASE SpawnRunner
  <2>1. "runner" \in tasks' => config.offchain
    BY <1>3 DEF SpawnRunner, Spawn, Wanted
  <2> QED
    BY <1>3, <2>1 DEF SpawnRunner, Spawn
<1>4. CASE InsertKey
  BY <1>4 DEF InsertKey
<1>5. CASE SpawnTasks
  BY <1>5 DEF SpawnTasks, Spawn
<1>6. CASE StartAura
  BY <1>6 DEF StartAura, Spawn
<1>7. CASE RunGrandpaVoter
  BY <1>7 DEF RunGrandpaVoter, Spawn
<1>8. CASE StartNetwork
  BY <1>8 DEF StartNetwork
<1> QED
  BY <1>1, <1>2, <1>3, <1>4, <1>5, <1>6, <1>7, <1>8 DEF NewFull

\* An imported block preserves the invariant: its source was spawned after the
\* key was inserted.
LEMMA ImportInv == KeyInv /\ ImportBlock => KeyInv'
<1> SUFFICES ASSUME KeyInv, ImportBlock PROVE KeyInv'
  OBVIOUS
<1>1. step \notin BeforeKey
  BY DEF KeyInv, ImportBlock
<1>2. CASE subscribed /\ "runner" \in tasks
  <2>1. config.ocw => "ping" \in keystore
    BY <1>1, <1>2 DEF KeyInv
  <2>2. workers' = workers \cup {[block |-> height + 1, keys |-> keystore]}
    BY <1>2 DEF ImportBlock
  <2>3. KeyBeforeWorkers'
    BY <2>1, <2>2 DEF KeyInv, KeyBeforeWorkers, ImportBlock
  <2> QED
    BY <2>3 DEF KeyInv, ImportBlock
<1>3. CASE ~(subscribed /\ "runner" \in tasks)
  BY <1>3 DEF KeyInv, KeyBeforeWorkers, ImportBlock
<1> QED
  BY <1>2, <1>3

\* What a step may do besides preserves the invariant: a shutdown loses the key
\* together with every task, and nothing else takes a key away.
LEMMA OtherInv ==
    ASSUME KeyInv,
           \/ Abort \/ TakeDown \/ Subscribe \/ StartAgain \/ UNCHANGED serviceVars
           \/ \E task \in Tasks : TaskEnds(task)
           \/ \E key \in KeyTypes : AuthorInsertKey(key)
    PROVE  KeyInv'
<1> USE DEF KeyInv, KeyBeforeWorkers, Steps, BeforeKey
<1>1. CASE Abort \/ TakeDown
  BY <1>1 DEF Abort, TakeDown, Shutdown
<1>2. CASE Subscribe
  BY <1>2 DEF Subscribe
<1>3. CASE StartAgain
  BY <1>3 DEF StartAgain
<1>4. CASE UNCHANGED serviceVars
  BY <1>4 DEF serviceVars
<1>5. ASSUME NEW task \in Tasks, TaskEnds(task) PROVE KeyInv'
  BY <1>5 DEF TaskEnds
<1>6. ASSUME NEW key \in KeyTypes, AuthorInsertKey(key) PROVE KeyInv'
  BY <1>6 DEF AuthorInsertKey
<1> QED
  BY <1>1, <1>2, <1>3, <1>4, <1>5, <1>6

\* On a node built with `ocw`, whatever fails and however often it is restarted,
\* no off-chain worker begins without its key, although new_full spawns the
\* runner before it inserts the key.
THEOREM KeyTheorem == ServiceSpec => []KeyBeforeWorkers
<1>1. KeyInv /\ [ServiceNext]_serviceVars => KeyInv'
  BY NewFullInv, ImportInv, OtherInv DEF ServiceNext
<1>2. KeyInv => KeyBeforeWorkers
  BY DEF KeyInv
<1> QED
  BY KeyInitInv, <1>1, <1>2, PTL DEF ServiceSpec

-------------------------------------------------------------------------------
\* The tasks new_full has spawned when it reaches each step.
Reached(ss, ts) == step \in ss => ts \cap Wanted \subseteq tasks \cup failed

\* The inductive invariant of NetworkLast, which speaks of the last step only.
SpawnInv ==
    /\ step \in Steps
    /\ networkOn => step = "up"
    /\ Reached(Steps \ {"down", "partial"}, {"pool", "import_queue"})
    /\ Reached(Steps \ {"down", "partial", "network"}, {"network"})
    /\ Reached(Steps \ {"down", "partial", "network", "runner"}, {"runner"})
    /\ Reached({"aura", "grandpa", "start_network", "up"}, {"rpc"})
    /\ Reached({"grandpa", "start_network", "up"}, {"aura"})
    /\ Reached({"start_network", "up"}, {"grandpa"})

\* The steps of new_full preserve it, each for the task it spawns.
LEMMA NewFullSpawns == SpawnInv /\ NewFull => SpawnInv'
<1> SUFFICES ASSUME SpawnInv, NewFull PROVE SpawnInv'
  OBVIOUS
<1>1. Wanted' = Wanted
  BY DEF NewFull, NewPartial, BuildNetwork, SpawnRunner, InsertKey, SpawnTasks, StartAura,
         RunGrandpaVoter, StartNetwork, Spawn, Wanted
<1> USE <1>1 DEF SpawnInv, Reached, Steps, Following
<1>2. CASE NewPartial
  BY <1>2 DEF NewPartial, Spawn
<1>3. CASE BuildNetwork
  BY <1>3 DEF BuildNetwork, Spawn
<1>4. CASE SpawnRunner
  BY <1>4 DEF SpawnRunner, Spawn
<1>5. CASE InsertKey
  BY <1>5 DEF InsertKey
<1>6. CASE SpawnTasks
  BY <1>6 DEF SpawnTasks, Spawn
<1>7. CASE StartAura
  BY <1>7 DEF StartAura, Spawn
<1>8. CASE RunGrandpaVoter
  BY <1>8 DEF RunGrandpaVoter, Spawn
<1>9. CASE StartNetwork
  BY <1>9 DEF StartNetwork
<1> QED
  BY <1>2, <1>3, <1>4, <1>5, <1>6, <1>7, <1>8, <1>9 DEF NewFull

\* Outside new_full a task only moves from the running to the ended ones, or all
\* are dropped with the service.
LEMMA OtherSpawns ==
    ASSUME SpawnInv, [ServiceNext]_serviceVars, ~NewFull
    PROVE  SpawnInv'
<1>1. Wanted' = Wanted
  BY DEF ServiceNext, Abort, TakeDown, Shutdown, Subscribe, ImportBlock, TaskEnds,
         AuthorInsertKey, StartAgain, serviceVars, Wanted
<1> USE <1>1 DEF SpawnInv, Reached, Steps
<1>2. CASE Abort \/ TakeDown
  BY <1>2 DEF Abort, TakeDown, Shutdown
<1>3. CASE Subscribe \/ ImportBlock \/ UNCHANGED serviceVars
  BY <1>3 DEF Subscribe, ImportBlock, serviceVars
<1>4. ASSUME NEW task \in Tasks, TaskEnds(task) PROVE SpawnInv'
  <2>1. tasks' \cup failed' = tasks \cup failed
    BY <1>4 DEF TaskEnds
  <2> QED
    BY <1>4, <2>1 DEF TaskEnds
<1>5. ASSUME NEW key \in KeyTypes, AuthorInsertKey(key) PROVE SpawnInv'
  BY <1>5 DEF AuthorInsertKey
<1>6. CASE StartAgain
  BY <1>6 DEF StartAgain
<1> QED
  BY <1>2, <1>3, <1>4, <1>5, <1>6 DEF ServiceNext

\* Whatever fails and however often the node is restarted, start_network is called
\* on a node on which every task of the configuration was spawned.
THEOREM NetworkTheorem == ServiceSpec => []NetworkLast
<1>1. ServiceInit => SpawnInv
  BY DEF ServiceInit, SpawnInv, Reached, Steps
<1>2. SpawnInv /\ [ServiceNext]_serviceVars => SpawnInv'
  BY NewFullSpawns, OtherSpawns
<1>3. SpawnInv => NetworkLast
  <2>1. Wanted \subseteq {"pool", "import_queue", "network", "runner", "rpc", "aura", "grandpa"}
    BY DEF Wanted
  <2> QED
    BY <2>1 DEF SpawnInv, Reached, Steps, NetworkLast
<1> QED
  BY <1>1, <1>2, <1>3, PTL DEF ServiceSpec

-------------------------------------------------------------------------------
\* Tasks that have not been spawned since the node was started when it is at one of
\* the steps ss.
NotYet(ss, ts) == step \in ss => ts \cap (tasks \cup failed) = {}

\* The inductive invariant of ServiceTypeOK: that no task runs which has ended rests
\* on new_full's spawning each task once, and on a shutdown's leaving none.
LifeInv ==
    /\ ServiceTypeOK
    /\ step = "down" => tasks = {}
    /\ NotYet({"partial"}, {"pool", "import_queue"})
    /\ NotYet({"partial", "network"}, {"network"})
    /\ NotYet({"partial", "network", "runner"}, {"runner"})
    /\ NotYet({"partial", "network", "runner", "key", "rpc"}, {"rpc"})
    /\ NotYet({"partial", "network", "runner", "key", "rpc", "aura"}, {"aura"})
    /\ NotYet({"partial", "network", "runner", "key", "rpc", "aura", "grandpa"}, {"grandpa"})

\* A step of new_full that spawns the tasks ts, which were not spawned before.
LEMMA SpawnKeepsTypes ==
    ASSUME ServiceTypeOK, NEW s \in Steps \ {"up", "down"}, NEW ts, Spawn(s, ts),
           ts \cap (tasks \cup failed) = {}
    PROVE  ServiceTypeOK'
<1>1. Wanted' = Wanted /\ step' \in Steps
  BY DEF Spawn, Wanted, Following, Steps
<1> QED
  BY <1>1 DEF ServiceTypeOK, Spawn

\* The steps of new_full.
LEMMA NewFullLife == LifeInv /\ NewFull => LifeInv'
<1> SUFFICES ASSUME LifeInv, NewFull PROVE LifeInv'
  OBVIOUS
<1>0. ServiceTypeOK /\ Steps \ {"up", "down"} =
        {"partial", "network", "runner", "key", "rpc", "aura", "grandpa", "start_network"}
  BY DEF LifeInv, Steps
<1>1. CASE NewPartial
  <2>1. ServiceTypeOK'
    BY <1>0, <1>1, SpawnKeepsTypes, ZenonT(40) DEF NewPartial, Spawn, LifeInv, NotYet
  <2> QED
    BY <1>1, <2>1 DEF NewPartial, Spawn, LifeInv, NotYet, Following
<1>2. CASE BuildNetwork
  <2>1. ServiceTypeOK'
    BY <1>0, <1>2, SpawnKeepsTypes, ZenonT(40) DEF BuildNetwork, Spawn, LifeInv, NotYet
  <2> QED
    BY <1>2, <2>1 DEF BuildNetwork, Spawn, LifeInv, NotYet, Following
<1>3. CASE SpawnRunner
  <2>1. ServiceTypeOK'
    BY <1>0, <1>3, SpawnKeepsTypes, ZenonT(40) DEF SpawnRunner, Spawn, LifeInv, NotYet
  <2> QED
    BY <1>3, <2>1 DEF SpawnRunner, Spawn, LifeInv, NotYet, Following
<1>4. CASE InsertKey
  <2>1. Wanted' = Wanted /\ step' \in Steps /\ keystore' \subseteq KeyTypes
    BY <1>0, <1>4, ServiceAssumption DEF InsertKey, Wanted, Following, Steps, ServiceTypeOK
  <2>2. ServiceTypeOK'
    BY <1>0, <1>4, <2>1 DEF InsertKey, ServiceTypeOK
  <2> QED
    BY <1>4, <2>2 DEF InsertKey, LifeInv, NotYet, Following
<1>5. CASE SpawnTasks
  <2>1. ServiceTypeOK'
    BY <1>0, <1>5, SpawnKeepsTypes, ZenonT(40) DEF SpawnTasks, Spawn, LifeInv, NotYet
  <2> QED
    BY <1>5, <2>1 DEF SpawnTasks, Spawn, LifeInv, NotYet, Following
<1>6. CASE StartAura
  <2>1. ServiceTypeOK'
    BY <1>0, <1>6, SpawnKeepsTypes, ZenonT(40) DEF StartAura, Spawn, LifeInv, NotYet
  <2> QED
    BY <1>6, <2>1 DEF StartAura, Spawn, LifeInv, NotYet, Following
<1>7. CASE RunGrandpaVoter
  <2>1. ServiceTypeOK'
    BY <1>0, <1>7, SpawnKeepsTypes, ZenonT(40) DEF RunGrandpaVoter, Spawn, LifeInv, NotYet
  <2> QED
    BY <1>7, <2>1 DEF RunGrandpaVoter, Spawn, LifeInv, NotYet, Following
<1>8. CASE StartNetwork
  <2>1. Wanted' = Wanted /\ step' \in Steps
    BY <1>8 DEF StartNetwork, Wanted, Following, Steps
  <2>2. ServiceTypeOK'
    BY <1>0, <1>8, <2>1 DEF StartNetwork, ServiceTypeOK
  <2> QED
    BY <1>8, <2>2 DEF StartNetwork, LifeInv, NotYet, Following
<1> QED
  BY <1>1, <1>2, <1>3, <1>4, <1>5, <1>6, <1>7, <1>8 DEF NewFull

\* The tasks, the operator and the chain.
LEMMA OtherLife ==
    ASSUME LifeInv, [ServiceNext]_serviceVars, ~NewFull
    PROVE  LifeInv'
<1>0. ServiceTypeOK
  BY DEF LifeInv
<1>1. Wanted' = Wanted
  BY DEF ServiceNext, Abort, TakeDown, Shutdown, Subscribe, ImportBlock, TaskEnds,
         AuthorInsertKey, StartAgain, serviceVars, Wanted
<1>2. CASE Abort \/ TakeDown
  BY <1>1, <1>2, ZenonT(40) DEF LifeInv, ServiceTypeOK, NotYet, Steps, Abort, TakeDown, Shutdown
<1>3. CASE Subscribe \/ UNCHANGED serviceVars
  BY <1>1, <1>3, ZenonT(40) DEF LifeInv, ServiceTypeOK, NotYet, Subscribe, serviceVars
<1>4. CASE ImportBlock
  <2>1. height' \in 0 .. MaxHeight /\ height' = height + 1 /\ height \in Nat
    BY <1>0, <1>4, ServiceAssumption DEF ServiceTypeOK, ImportBlock
  <2>2. workers' \subseteq [block : 1 .. height', keys : SUBSET KeyTypes]
    <3> DEFINE new == [block |-> height + 1, keys |-> keystore]
    <3>1. new \in [block : 1 .. height', keys : SUBSET KeyTypes]
      BY <1>0, <2>1 DEF ServiceTypeOK
    <3>2. [block : 1 .. height, keys : SUBSET KeyTypes]
             \subseteq [block : 1 .. height', keys : SUBSET KeyTypes]
      BY <2>1
    <3>3. workers' \subseteq workers \cup {new}
      BY <1>4 DEF ImportBlock
    <3> QED
      BY <1>0, <3>1, <3>2, <3>3 DEF ServiceTypeOK
  <2>3. ServiceTypeOK'
    BY <1>0, <1>1, <1>4, <2>1, <2>2 DEF ServiceTypeOK, ImportBlock
  <2> QED
    BY <1>4, <2>3 DEF LifeInv, NotYet, ImportBlock
<1>5. ASSUME NEW task \in Tasks, TaskEnds(task) PROVE LifeInv'
  <2>1. tasks' \cup failed' = tasks \cup failed
    BY <1>5 DEF TaskEnds
  <2>2. ServiceTypeOK'
    BY <1>0, <1>1, <1>5 DEF ServiceTypeOK, TaskEnds
  <2> QED
    BY <1>5, <2>1, <2>2 DEF LifeInv, NotYet, TaskEnds
<1>6. ASSUME NEW key \in KeyTypes, AuthorInsertKey(key) PROVE LifeInv'
  BY <1>1, <1>6 DEF LifeInv, ServiceTypeOK, NotYet, AuthorInsertKey
<1>7. CASE StartAgain
  <2>1. starts' \in 1 .. MaxStarts
    BY <1>0, <1>7, ServiceAssumption DEF ServiceTypeOK, StartAgain
  <2> QED
    BY <1>1, <1>7, <2>1 DEF LifeInv, ServiceTypeOK, NotYet, Steps, StartAgain
<1> QED
  BY <1>2, <1>3, <1>4, <1>5, <1>6, <1>7 DEF ServiceNext

\* No task is spawned that the configuration does not ask for, none that has ended
\* runs again before the node is started again, and every key on disk is in the
\* keystore, through all failures and restarts.
THEOREM ServiceTypeTheorem == ServiceSpec => []ServiceTypeOK
<1>1. ServiceInit => LifeInv
  <2> SUFFICES ASSUME ServiceInit PROVE LifeInv
    OBVIOUS
  <2>1. height \in 0 .. MaxHeight /\ starts \in 1 .. MaxStarts
    BY ServiceAssumption DEF ServiceInit
  <2>2. subscribed \in BOOLEAN /\ networkOn \in BOOLEAN
    BY ZenonT(40) DEF ServiceInit
  <2>3. ServiceTypeOK
    BY <2>1, <2>2 DEF ServiceInit, ServiceTypeOK, Steps
  <2> QED
    BY <2>3 DEF ServiceInit, LifeInv, NotYet
<1>2. LifeInv /\ [ServiceNext]_serviceVars => LifeInv'
  BY NewFullLife, OtherLife
<1>3. LifeInv => ServiceTypeOK
  BY DEF LifeInv
<1> QED
  BY <1>1, <1>2, <1>3, PTL DEF ServiceSpec
===============================================================================
