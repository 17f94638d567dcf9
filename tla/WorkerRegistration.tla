-------------------------- MODULE WorkerRegistration --------------------------
(***************************************************************************)
(* The worker-registration pallet (pallets/worker-registration/src/lib.rs) *)
(* as the chain executes it: one action per dispatchable call, one variable *)
(* per storage item, and the off-chain index that worker_register writes.  *)
(*                                                                         *)
(* A dispatchable runs in a storage transaction of the runtime: a call that *)
(* returns an error leaves no trace.  An error path is therefore a state in *)
(* which the action is not enabled.                                        *)
(*                                                                         *)
(* Left out, because no guard reads it: a worker's name, the length and the *)
(* decimal rendering of an address, a task's type (always Docker) and the   *)
(* two optional measurements, which every call leaves at None.              *)
(***************************************************************************)
EXTENDS Naturals, FiniteSets, Maps

CONSTANTS
    Accounts,   \* account ids; raw ids are the Identity-hashed storage keys, hence ordered
    Addresses,  \* what Some(..) may hold in a field of Ip
    None,       \* the missing Option
    Ports,      \* u32 ports a caller may name, 0 among them
    TaskData,   \* the task strings a caller may submit
    FirstByte,  \* [TaskData -> 0..255], byte 0 of blake2_256 of a task string
    IdSpace,    \* number of values of a ClusterId or TaskId (2^64 in the code)
    MaxBlock    \* bound: the last block in which users' calls are made

ASSUME AccountsAssumption ==
    /\ Accounts \subseteq Nat
    /\ IsFiniteSet(Accounts)

\* The ids outlast the registrations: fewer than 2^64 accounts ever register.
ASSUME CapacityAssumption ==
    /\ IdSpace \in Nat \ {0}
    /\ Cardinality(Accounts) <= IdSpace

ASSUME InputAssumption ==
    /\ None \notin Addresses
    /\ Ports \subseteq Nat
    /\ FirstByte \in [TaskData -> 0..255]
    /\ MaxBlock \in Nat \ {0}

VARIABLES
    NextClusterId,
    WorkerAccounts,     \* account -> cluster id, partial
    WorkerClusters,     \* cluster id -> Worker, partial
    NextTaskId,
    Tasks,              \* task id -> TaskInfo, partial
    TaskStatus,         \* task id -> TaskStatusType, partial
    TaskAllocations,    \* task id -> account of the worker, partial
    TaskOwners,         \* task id -> account of the owner, partial
    block,              \* the block under construction, System::block_number()
    offchainIndex,      \* key -> cluster id, written by offchain_index::set
    event               \* the last event deposited in this block

registryVars == <<NextClusterId, WorkerAccounts, WorkerClusters>>
taskVars == <<NextTaskId, Tasks, TaskStatus, TaskAllocations, TaskOwners>>
vars == <<registryVars, taskVars, block, offchainIndex, event>>

-------------------------------------------------------------------------------
(* Data *)

ClusterId == 0 .. IdSpace - 1

TaskId == 0 .. IdSpace - 1

Ip == [ipv4 : Addresses \cup {None}, ipv6 : Addresses \cup {None}]

Worker == [id : ClusterId, account : Accounts, start_block : 1 .. MaxBlock,
           ip : Ip, port : Ports \ {0}, status : BOOLEAN]

TaskInfo == [task_owner : Accounts, create_block : 1 .. MaxBlock,
             metadata : TaskData, assigned_worker : ClusterId]

TaskStatusType == {"Pending", "Completed", "Expired"}

NoEvent == [type |-> "None"]

Event ==
    {NoEvent}
    \cup [type : {"WorkerRegistered"}, creator : Accounts]
    \cup [type : {"TaskScheduled"}, worker : Accounts, owner : Accounts, task_id : TaskId,
          assigned_ip : {"v4", "v6", "localhost"} \X (Addresses \cup {None})]
    \cup [type : {"ConnectionEstablished"}, cluster_id : ClusterId]

\* Mutant: the key without the block number.
DerivedKeyNoBlock(bn, extend) == <<"cluster::storage::tx", extend>>

\* The off-chain key of a block.  The code drops `extend`: every kind of
\* entry of one block has the same key.
DerivedKey(bn, extend) == <<"cluster::storage::tx", bn>>

Keys == {DerivedKey(bn, "ping") : bn \in 1 .. MaxBlock}

\* The host part of a worker's URL and of the TaskScheduled event: IPv4 is
\* preferred, then IPv6, then localhost.
StringIp(ip) ==
    CASE ip.ipv4 # None -> <<"v4", ip.ipv4>>
      [] ip.ipv4 = None /\ ip.ipv6 # None -> <<"v6", ip.ipv6>>
      [] OTHER -> <<"localhost", None>>

\* Mutants: a counter that is not written back, one that saturates, and one
\* wider than the id it feeds.
NextOfWide(id) == id + 1
NextOfStuck(id) == id
NextOfSaturating(id) == IF id + 1 = IdSpace THEN id ELSE id + 1

\* The step of NextClusterId and NextTaskId.  `+= 1` wraps like wrapping_add:
\* the release profile of the runtime has no overflow checks.
NextOf(id) == (id + 1) % IdSpace

\* Mutants: one of the two ensure! calls forgotten.
NoPortCheck(ip, port) == ip.ipv4 # None \/ ip.ipv6 # None
NoIpCheck(ip, port) == port > 0

ValidEndpoint(ip, port) ==
    /\ ip.ipv4 # None \/ ip.ipv6 # None
    /\ port > 0

\* Mutant: the ClusterExists check forgotten.
AnyAccount(creator) == TRUE

NotRegistered(creator) == creator \notin DOMAIN WorkerAccounts

\* a is the entry at position i of WorkerAccounts::iter(), which walks the
\* raw account ids in increasing order.
IsNthWorker(a, i) ==
    /\ a \in DOMAIN WorkerAccounts
    /\ Cardinality({b \in DOMAIN WorkerAccounts : b < a}) = i

RandomIndex(data) == FirstByte[data] % Cardinality(DOMAIN WorkerAccounts)

\* Mutant: the position in the iteration stored as the cluster id.
NewTaskByIndex(who, data, selected) ==
    [task_owner |-> who, create_block |-> block,
     metadata |-> data, assigned_worker |-> RandomIndex(data)]

NewTask(who, data, selected) ==
    [task_owner |-> who, create_block |-> block,
     metadata |-> data, assigned_worker |-> WorkerAccounts[selected]]

-------------------------------------------------------------------------------
(* The dispatchable calls *)

Init ==
    /\ NextClusterId = 0
    /\ WorkerAccounts = Empty
    /\ WorkerClusters = Empty
    /\ NextTaskId = 0
    /\ Tasks = Empty
    /\ TaskStatus = Empty
    /\ TaskAllocations = Empty
    /\ TaskOwners = Empty
    /\ block = 1
    /\ offchainIndex = Empty
    /\ event = NoEvent

WorkerRegister(creator, ip, port) ==
    /\ block <= MaxBlock
    /\ ValidEndpoint(ip, port)
    /\ NotRegistered(creator)
    /\ LET cid == NextClusterId
           cluster == [id |-> cid, account |-> creator, start_block |-> block,
                       ip |-> ip, port |-> port, status |-> FALSE]
       IN  /\ WorkerAccounts' = Insert(WorkerAccounts, creator, cid)
           /\ WorkerClusters' = Insert(WorkerClusters, cid, cluster)
           /\ NextClusterId' = NextOf(cid)
           /\ offchainIndex' = Insert(offchainIndex, DerivedKey(block, "ping"), cid)
    /\ event' = [type |-> "WorkerRegistered", creator |-> creator]
    /\ UNCHANGED <<taskVars, block>>

TaskScheduler(who, data) ==
    /\ block <= MaxBlock
    /\ DOMAIN WorkerAccounts # {}
    /\ \E selected \in DOMAIN WorkerAccounts :
          /\ IsNthWorker(selected, RandomIndex(data))
          /\ WorkerAccounts[selected] \in DOMAIN WorkerClusters
          /\ LET task_id == NextTaskId
                 cluster_id == WorkerAccounts[selected]
             IN  /\ NextTaskId' = NextOf(task_id)
                 /\ TaskAllocations' = Insert(TaskAllocations, task_id, selected)
                 /\ TaskOwners' = Insert(TaskOwners, task_id, who)
                 /\ Tasks' = Insert(Tasks, task_id, NewTask(who, data, selected))
                 /\ TaskStatus' = Insert(TaskStatus, task_id, "Pending")
                 /\ event' = [type |-> "TaskScheduled", worker |-> selected,
                              owner |-> who, task_id |-> task_id,
                              assigned_ip |-> StringIp(WorkerClusters[cluster_id].ip)]
    /\ UNCHANGED <<registryVars, block, offchainIndex>>

\* Mutant: a failed connection recorded without its event.
VerifyConnectionQuiet(worker_index, deployment_status) ==
    /\ worker_index \in DOMAIN WorkerClusters
    /\ WorkerClusters' = [WorkerClusters EXCEPT ![worker_index].status = deployment_status]
    /\ event' = IF deployment_status
                THEN [type |-> "ConnectionEstablished", cluster_id |-> worker_index]
                ELSE event
    /\ UNCHANGED <<NextClusterId, WorkerAccounts, taskVars, block, offchainIndex>>

\* Any signed account may call it; the caller leaves no trace in storage.
VerifyConnection(worker_index, deployment_status) ==
    /\ worker_index \in DOMAIN WorkerClusters
    /\ WorkerClusters' = [WorkerClusters EXCEPT ![worker_index].status = deployment_status]
    /\ event' = [type |-> "ConnectionEstablished", cluster_id |-> worker_index]
    /\ UNCHANGED <<NextClusterId, WorkerAccounts, taskVars, block, offchainIndex>>

\* The block is sealed and the next one is initialised; System::events is
\* emptied at the start of a block.
NewBlock ==
    /\ block <= MaxBlock
    /\ block' = block + 1
    /\ event' = NoEvent
    /\ UNCHANGED <<registryVars, taskVars, offchainIndex>>

Next ==
    \/ \E creator \in Accounts, ip \in Ip, port \in Ports : WorkerRegister(creator, ip, port)
    \/ \E who \in Accounts, data \in TaskData : TaskScheduler(who, data)
    \/ \E c \in ClusterId, s \in BOOLEAN : VerifyConnection(c, s)
    \/ NewBlock

Spec == Init /\ [][Next]_vars

-------------------------------------------------------------------------------
(* Properties *)

\* Every storage item holds values of its declared type; in particular no
\* worker is stored with port 0, and no index entry is outside the block keys.
TypeOK ==
    /\ NextClusterId \in ClusterId
    /\ DOMAIN WorkerAccounts \subseteq Accounts
    /\ WorkerAccounts \in [DOMAIN WorkerAccounts -> ClusterId]
    /\ DOMAIN WorkerClusters \subseteq ClusterId
    /\ WorkerClusters \in [DOMAIN WorkerClusters -> Worker]
    /\ NextTaskId \in TaskId
    /\ DOMAIN Tasks \subseteq TaskId
    /\ Tasks \in [DOMAIN Tasks -> TaskInfo]
    /\ TaskStatus \in [DOMAIN TaskStatus -> TaskStatusType]
    /\ TaskAllocations \in [DOMAIN TaskAllocations -> Accounts]
    /\ TaskOwners \in [DOMAIN TaskOwners -> Accounts]
    /\ block \in 1 .. MaxBlock + 1
    /\ DOMAIN offchainIndex \subseteq Keys
    /\ offchainIndex \in [DOMAIN offchainIndex -> ClusterId]
    /\ event \in Event

\* WorkerAccounts and WorkerClusters are inverse to each other: the two
\* inserts of worker_register never give one id to two accounts, although the
\* id counter wraps, so task_scheduler's two lookups never fail.
RegistryConsistent ==
    /\ \A a \in DOMAIN WorkerAccounts :
          /\ WorkerAccounts[a] \in DOMAIN WorkerClusters
          /\ WorkerClusters[WorkerAccounts[a]].account = a
    /\ \A c \in DOMAIN WorkerClusters :
          /\ WorkerClusters[c].id = c
          /\ WorkerClusters[c].account \in DOMAIN WorkerAccounts
          /\ WorkerAccounts[WorkerClusters[c].account] = c

\* The four task tables of task_scheduler have the same keys and tell the
\* same story, also after NextTaskId has wrapped: the owner and the worker of
\* a task agree, the worker is registered and was so when the task came in.
TaskTablesAgree ==
    /\ DOMAIN TaskStatus = DOMAIN Tasks
    /\ DOMAIN TaskAllocations = DOMAIN Tasks
    /\ DOMAIN TaskOwners = DOMAIN Tasks
    /\ \A t \in DOMAIN Tasks :
          /\ Tasks[t].task_owner = TaskOwners[t]
          /\ TaskAllocations[t] \in DOMAIN WorkerAccounts
          /\ Tasks[t].assigned_worker = WorkerAccounts[TaskAllocations[t]]
          /\ WorkerClusters[Tasks[t].assigned_worker].start_block <= Tasks[t].create_block
          /\ Tasks[t].create_block <= block

\* The off-chain index has an entry for a block exactly when a cluster was
\* registered in it, and the entry names the newest of these: what
\* worker_register leaves for the off-chain worker of that block.
PingNamesNewest ==
    /\ \A c \in DOMAIN WorkerClusters :
          LET key == DerivedKey(WorkerClusters[c].start_block, "ping")
          IN  key \in DOMAIN offchainIndex /\ c <= offchainIndex[key]
    /\ \A bn \in 1 .. MaxBlock :
          LET key == DerivedKey(bn, "ping")
          IN  key \in DOMAIN offchainIndex =>
                 /\ offchainIndex[key] \in DOMAIN WorkerClusters
                 /\ WorkerClusters[offchainIndex[key]].start_block = bn

\* The two id counters against the tables they feed.  Cluster ids are handed
\* out densely, so NextClusterId is the number of registrations until they fill
\* the id space; task ids are dense until NextTaskId first wraps, and from then
\* on every id is in use.  Clusters come from blocks that exist, with an address.
CountersInStep ==
    LET n == Cardinality(DOMAIN WorkerAccounts)
    IN  /\ n <= IdSpace
        /\ NextClusterId = IF n = IdSpace THEN 0 ELSE n
        /\ DOMAIN WorkerClusters = 0 .. n - 1
        /\ DOMAIN Tasks = 0 .. NextTaskId - 1 \/ DOMAIN Tasks = TaskId
        /\ \A c \in DOMAIN WorkerClusters :
              /\ WorkerClusters[c].start_block <= block
              /\ WorkerClusters[c].ip.ipv4 # None \/ WorkerClusters[c].ip.ipv6 # None

\* A TaskScheduled event sends the client to the endpoint that the worker of
\* the stored task registered; the localhost arm of the match is dead, because
\* worker_register refuses an Ip with no address.
ScheduledEndpoint ==
    event.type = "TaskScheduled" =>
        /\ event.task_id \in DOMAIN Tasks
        /\ TaskAllocations[event.task_id] = event.worker
        /\ TaskOwners[event.task_id] = event.owner
        /\ LET ip == WorkerClusters[Tasks[event.task_id].assigned_worker].ip
           IN  \/ ip.ipv4 # None /\ event.assigned_ip = <<"v4", ip.ipv4>>
               \/ ip.ipv4 = None /\ ip.ipv6 # None /\ event.assigned_ip = <<"v6", ip.ipv6>>

\* A registration is for good: no call rebinds an account, removes a cluster
\* or changes anything of it but its status, and a status changes only with a
\* ConnectionEstablished event for that cluster.
RegistrationPermanent ==
    [][ /\ \A a \in DOMAIN WorkerAccounts :
              a \in DOMAIN WorkerAccounts' /\ WorkerAccounts'[a] = WorkerAccounts[a]
        /\ \A c \in DOMAIN WorkerClusters :
              /\ c \in DOMAIN WorkerClusters'
              /\ WorkerClusters'[c] =
                    [WorkerClusters[c] EXCEPT !.status = WorkerClusters'[c].status]
              /\ WorkerClusters'[c] # WorkerClusters[c] =>
                    event' = [type |-> "ConnectionEstablished", cluster_id |-> c]
      ]_vars

\* The work board seen in the tables: cluster ids are resolved to accounts.
BoardRoster ==
    [a \in DOMAIN WorkerAccounts |-> <<WorkerClusters[WorkerAccounts[a]].ip,
                                       WorkerClusters[WorkerAccounts[a]].port>>]

BoardUp == {a \in DOMAIN WorkerAccounts : WorkerClusters[WorkerAccounts[a]].status}

BoardJobs ==
    [t \in DOMAIN Tasks |->
        [owner |-> TaskOwners[t],
         worker |-> WorkerClusters[Tasks[t].assigned_worker].account,
         data |-> Tasks[t].metadata]]

Board == INSTANCE WorkBoard WITH
    Account <- Accounts, Endpoint <- Ip \X Ports, Data <- TaskData, Slot <- TaskId,
    roster <- BoardRoster, up <- BoardUp, jobs <- BoardJobs

\* Every behaviour of the pallet is a behaviour of the work board: worker_register,
\* verify_connection and task_scheduler are the board's three operations, whatever
\* the ids are and although the counters wrap.
ImplementsBoard == Board!Spec

\* What a comment of worker_register says, and the code does not do:
\* "Off-chain indexing allowing on-chain extrinsics to write to off-chain
\* storage predictably so it can be read in off-chain worker context": what a
\* registration wrote is there for the off-chain worker to read.
EveryRegistrationIndexed ==
    \A c \in DOMAIN WorkerClusters :
        offchainIndex[DerivedKey(WorkerClusters[c].start_block, "ping")] = c
===============================================================================
