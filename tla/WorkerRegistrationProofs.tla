----------------------- MODULE WorkerRegistrationProofs -----------------------
(***************************************************************************)
(* Proofs about the worker-registration pallet, for any number of accounts, *)
(* addresses, ports, task strings, ids and blocks.                         *)
(***************************************************************************)
EXTENDS WorkerRegistration, FiniteSetTheorems, TLAPS

\* The counters of worker_register and task_scheduler step to the next id and
\* wrap to 0 at the end of the id space.
LEMMA NextId ==
    ASSUME NEW i \in 0 .. IdSpace - 1
    PROVE  (i + 1) % IdSpace = IF i + 1 = IdSpace THEN 0 ELSE i + 1
  BY CapacityAssumption

\* Inserting a value of the right type keeps the type of a map.
LEMMA InsertType ==
    ASSUME NEW S, NEW map, map \in [DOMAIN map -> S], NEW key, NEW value \in S
    PROVE  Insert(map, key, value) \in [DOMAIN Insert(map, key, value) -> S]
  BY DEF Insert

\* Registering one more account: the count grows by one and stays within the
\* number of ids, so the counter had not wrapped when the id was taken.
LEMMA OneMoreAccount ==
    ASSUME NEW D, D \subseteq Accounts, NEW a \in Accounts \ D
    PROVE  /\ Cardinality(D) \in Nat
           /\ Cardinality(D \cup {a}) = Cardinality(D) + 1
           /\ Cardinality(D) < IdSpace
<1>1. IsFiniteSet(D) /\ IsFiniteSet(D \cup {a})
  BY AccountsAssumption, FS_Subset, ZenonT(40)
<1>2. Cardinality(D) \in Nat /\ Cardinality(D \cup {a}) = Cardinality(D) + 1
  BY <1>1, FS_CardinalityType, FS_AddElement
<1>3. Cardinality(D \cup {a}) <= Cardinality(Accounts)
  BY AccountsAssumption, FS_Subset, ZenonT(40)
<1>4. Cardinality(Accounts) \in Nat
  BY AccountsAssumption, FS_CardinalityType
<1> QED
  BY <1>2, <1>3, <1>4, CapacityAssumption

-------------------------------------------------------------------------------
(* The inductive invariant: the invariants of the module strengthen each     *)
(* other.  RegistryConsistent needs CountersInStep, so that a registration   *)
(* takes an unused id; ScheduledEndpoint and TaskTablesAgree need both.      *)

Inv ==
    /\ TypeOK
    /\ RegistryConsistent
    /\ TaskTablesAgree
    /\ PingNamesNewest
    /\ CountersInStep
    /\ ScheduledEndpoint

\* The genesis state, in which the pallet's storage is empty, satisfies the
\* invariant.
LEMMA InitInv == Init => Inv
<1> SUFFICES ASSUME Init PROVE Inv
  OBVIOUS
<1> USE DEF Init, Empty
<1>1. Cardinality({}) = 0
  BY FS_EmptySet
<1>2. TypeOK
  BY CapacityAssumption, InputAssumption DEF TypeOK, ClusterId, TaskId, Event
<1>3. RegistryConsistent /\ TaskTablesAgree /\ PingNamesNewest
  BY DEF RegistryConsistent, TaskTablesAgree, PingNamesNewest, DerivedKey
<1>4. CountersInStep
  BY <1>1, CapacityAssumption DEF CountersInStep
<1>5. ScheduledEndpoint
  BY DEF ScheduledEndpoint, NoEvent
<1> QED
  BY <1>2, <1>3, <1>4, <1>5 DEF Inv

\* worker_register preserves the invariant.
LEMMA RegisterInv ==
    ASSUME Inv, NEW creator \in Accounts, NEW ip \in Ip, NEW port \in Ports,
           WorkerRegister(creator, ip, port)
    PROVE  Inv'
<1> DEFINE n == Cardinality(DOMAIN WorkerAccounts)
           cid == NextClusterId
           cluster == [id |-> cid, account |-> creator, start_block |-> block,
                       ip |-> ip, port |-> port, status |-> FALSE]
           key == DerivedKey(block, "ping")
<1>1. /\ TypeOK /\ RegistryConsistent /\ TaskTablesAgree
      /\ PingNamesNewest /\ CountersInStep
  BY DEF Inv
<1>2. /\ block \in 1 .. MaxBlock
      /\ creator \notin DOMAIN WorkerAccounts
      /\ ip.ipv4 # None \/ ip.ipv6 # None
      /\ WorkerAccounts' = Insert(WorkerAccounts, creator, cid)
      /\ WorkerClusters' = Insert(WorkerClusters, cid, cluster)
      /\ NextClusterId' = (cid + 1) % IdSpace
      /\ offchainIndex' = Insert(offchainIndex, key, cid)
      /\ event' = [type |-> "WorkerRegistered", creator |-> creator]
      /\ NextTaskId' = NextTaskId /\ Tasks' = Tasks /\ TaskStatus' = TaskStatus
      /\ TaskAllocations' = TaskAllocations /\ TaskOwners' = TaskOwners
      /\ block' = block
  BY <1>1, InputAssumption
     DEF WorkerRegister, ValidEndpoint, NotRegistered, NextOf, taskVars, TypeOK
<1>3. /\ n \in Nat /\ n < IdSpace
      /\ Cardinality(DOMAIN WorkerAccounts') = n + 1
  <2>1. DOMAIN WorkerAccounts' = DOMAIN WorkerAccounts \cup {creator}
    BY <1>2 DEF Insert
  <2>2. DOMAIN WorkerAccounts \subseteq Accounts /\ creator \in Accounts \ DOMAIN WorkerAccounts
    BY <1>1, <1>2 DEF TypeOK
  <2> QED
    BY <2>1, <2>2, OneMoreAccount
<1>4. /\ cid = n /\ cid \in ClusterId
      /\ DOMAIN WorkerClusters = 0 .. n - 1
      /\ cid \notin DOMAIN WorkerClusters
  BY <1>1, <1>3, CapacityAssumption DEF CountersInStep, ClusterId
<1>5. /\ DOMAIN WorkerAccounts' = DOMAIN WorkerAccounts \cup {creator}
      /\ WorkerAccounts'[creator] = cid
      /\ \A a \in DOMAIN WorkerAccounts : WorkerAccounts'[a] = WorkerAccounts[a]
      /\ DOMAIN WorkerClusters' = DOMAIN WorkerClusters \cup {cid}
      /\ WorkerClusters'[cid] = cluster
      /\ \A c \in DOMAIN WorkerClusters : WorkerClusters'[c] = WorkerClusters[c]
  BY <1>2, <1>4 DEF Insert
<1>6. /\ DOMAIN offchainIndex' = DOMAIN offchainIndex \cup {key}
      /\ offchainIndex'[key] = cid
      /\ \A k \in DOMAIN offchainIndex : k # key => offchainIndex'[k] = offchainIndex[k]
  BY <1>2 DEF Insert
<1>7. TypeOK'
  <2>1. cluster \in Worker
    BY <1>2, <1>4, InputAssumption DEF WorkerRegister, ValidEndpoint, Worker
  <2>2. /\ WorkerAccounts' \in [DOMAIN WorkerAccounts' -> ClusterId]
        /\ WorkerClusters' \in [DOMAIN WorkerClusters' -> Worker]
        /\ offchainIndex' \in [DOMAIN offchainIndex' -> ClusterId]
    BY <1>1, <1>2, <1>4, <2>1, InsertType, ZenonT(40) DEF TypeOK
  <2>3. key \in Keys
    BY <1>2 DEF Keys
  <2>4. NextClusterId' \in ClusterId
    BY <1>2, <1>3, <1>4, NextId, CapacityAssumption DEF ClusterId
  <2>5. event' \in Event
    BY <1>2 DEF Event
  <2> QED
    BY <1>1, <1>2, <1>4, <1>5, <1>6, <2>2, <2>3, <2>4, <2>5, ZenonT(40) DEF TypeOK
<1>8. RegistryConsistent'
  <2>1. ASSUME NEW a \in DOMAIN WorkerAccounts'
        PROVE  /\ WorkerAccounts'[a] \in DOMAIN WorkerClusters'
               /\ WorkerClusters'[WorkerAccounts'[a]].account = a
    <3>1. CASE a = creator
      BY <1>5, <3>1
    <3>2. CASE a \in DOMAIN WorkerAccounts
      BY <1>1, <1>5, <3>2 DEF RegistryConsistent
    <3> QED
      BY <1>5, <3>1, <3>2
  <2>2. ASSUME NEW c \in DOMAIN WorkerClusters'
        PROVE  /\ WorkerClusters'[c].id = c
               /\ WorkerClusters'[c].account \in DOMAIN WorkerAccounts'
               /\ WorkerAccounts'[WorkerClusters'[c].account] = c
    <3>1. CASE c = cid
      BY <1>5, <3>1
    <3>2. CASE c \in DOMAIN WorkerClusters
      BY <1>1, <1>5, <3>2 DEF RegistryConsistent
    <3> QED
      BY <1>5, <3>1, <3>2
  <2> QED
    BY <2>1, <2>2 DEF RegistryConsistent
<1>9. TaskTablesAgree'
  <2>1. ASSUME NEW t \in DOMAIN Tasks
        PROVE  /\ Tasks[t].task_owner = TaskOwners[t]
               /\ TaskAllocations[t] \in DOMAIN WorkerAccounts'
               /\ Tasks[t].assigned_worker = WorkerAccounts'[TaskAllocations[t]]
               /\ WorkerClusters'[Tasks[t].assigned_worker].start_block
                     <= Tasks[t].create_block
               /\ Tasks[t].create_block <= block
    BY <1>1, <1>5 DEF TaskTablesAgree, RegistryConsistent
  <2> QED
    BY <1>1, <1>2, <2>1, ZenonT(40) DEF TaskTablesAgree
<1>10. PingNamesNewest'
  <2>1. ASSUME NEW c \in DOMAIN WorkerClusters'
        PROVE  LET k == DerivedKey(WorkerClusters'[c].start_block, "ping")
               IN  k \in DOMAIN offchainIndex' /\ c <= offchainIndex'[k]
    <3>1. CASE c = cid
      BY <1>5, <1>6, <1>4, <1>3, <3>1
    <3>2. CASE c # cid
      BY <1>1, <1>3, <1>4, <1>5, <1>6, <3>2 DEF PingNamesNewest
    <3> QED
      BY <3>1, <3>2
  <2>2. ASSUME NEW bn \in 1 .. MaxBlock, DerivedKey(bn, "ping") \in DOMAIN offchainIndex'
        PROVE  /\ offchainIndex'[DerivedKey(bn, "ping")] \in DOMAIN WorkerClusters'
               /\ WorkerClusters'[offchainIndex'[DerivedKey(bn, "ping")]].start_block = bn
    <3>1. CASE bn = block
      BY <1>5, <1>6, <3>1
    <3>2. CASE bn # block
      <4>1. DerivedKey(bn, "ping") # key
        BY <1>2, <3>2 DEF DerivedKey
      <4> QED
        BY <1>1, <1>5, <1>6, <2>2, <4>1 DEF PingNamesNewest
    <3> QED
      BY <3>1, <3>2
  <2> QED
    BY <2>1, <2>2 DEF PingNamesNewest, DerivedKey
<1>11. CountersInStep'
  <2>1. NextClusterId' = IF n + 1 = IdSpace THEN 0 ELSE n + 1
    <3>1. n \in 0 .. IdSpace - 1
      BY <1>3, CapacityAssumption
    <3>2. (n + 1) % IdSpace = IF n + 1 = IdSpace THEN 0 ELSE n + 1
      BY <3>1, NextId
    <3> QED
      BY <1>2, <1>4, <3>2
  <2>2. DOMAIN WorkerClusters' = 0 .. (n + 1) - 1
    BY <1>3, <1>4, <1>5
  <2>3. ASSUME NEW c \in DOMAIN WorkerClusters'
        PROVE  /\ WorkerClusters'[c].start_block <= block'
               /\ WorkerClusters'[c].ip.ipv4 # None \/ WorkerClusters'[c].ip.ipv6 # None
    <3>1. CASE c = cid
      BY <1>2, <1>5, <3>1
    <3>2. CASE c \in DOMAIN WorkerClusters
      BY <1>1, <1>2, <1>5, <3>2, ZenonT(40) DEF CountersInStep
    <3> QED
      BY <1>5, <3>1, <3>2
  <2>4. /\ n + 1 <= IdSpace
        /\ DOMAIN Tasks' = 0 .. NextTaskId' - 1 \/ DOMAIN Tasks' = TaskId
    BY <1>1, <1>2, <1>3, CapacityAssumption DEF CountersInStep
  <2> QED
    BY <1>3, <2>1, <2>2, <2>3, <2>4 DEF CountersInStep
<1>12. ScheduledEndpoint'
  BY <1>2 DEF ScheduledEndpoint
<1> QED
  BY <1>7, <1>8, <1>9, <1>10, <1>11, <1>12 DEF Inv

\* task_scheduler preserves the invariant.
LEMMA ScheduleInv ==
    ASSUME Inv, NEW who \in Accounts, NEW data \in TaskData, TaskScheduler(who, data)
    PROVE  Inv'
<1>1. /\ TypeOK /\ RegistryConsistent /\ TaskTablesAgree
      /\ PingNamesNewest /\ CountersInStep
  BY DEF Inv
<1>2. PICK selected \in DOMAIN WorkerAccounts :
         LET cluster_id == WorkerAccounts[selected]
             task_info == [task_owner |-> who, create_block |-> block,
                           metadata |-> data, assigned_worker |-> cluster_id]
         IN  /\ NextTaskId' = (NextTaskId + 1) % IdSpace
             /\ TaskAllocations' = Insert(TaskAllocations, NextTaskId, selected)
             /\ TaskOwners' = Insert(TaskOwners, NextTaskId, who)
             /\ Tasks' = Insert(Tasks, NextTaskId, task_info)
             /\ TaskStatus' = Insert(TaskStatus, NextTaskId, "Pending")
             /\ event' = [type |-> "TaskScheduled", worker |-> selected,
                          owner |-> who, task_id |-> NextTaskId,
                          assigned_ip |-> StringIp(WorkerClusters[cluster_id].ip)]
  BY DEF TaskScheduler, NewTask, NextOf
<1> DEFINE cluster_id == WorkerAccounts[selected]
           task_info == [task_owner |-> who, create_block |-> block,
                         metadata |-> data, assigned_worker |-> cluster_id]
<1>3. /\ block \in 1 .. MaxBlock /\ block' = block
      /\ NextClusterId' = NextClusterId /\ WorkerAccounts' = WorkerAccounts
      /\ WorkerClusters' = WorkerClusters /\ offchainIndex' = offchainIndex
  BY <1>1, InputAssumption DEF TaskScheduler, registryVars, TypeOK
<1>4. /\ selected \in Accounts /\ NextTaskId \in TaskId
      /\ cluster_id \in DOMAIN WorkerClusters /\ cluster_id \in ClusterId
      /\ WorkerClusters[cluster_id] \in Worker
      /\ WorkerClusters[cluster_id].start_block <= block
      /\ \/ WorkerClusters[cluster_id].ip.ipv4 # None
         \/ WorkerClusters[cluster_id].ip.ipv6 # None
  BY <1>1 DEF TypeOK, RegistryConsistent, CountersInStep
<1>5. /\ DOMAIN Tasks' = DOMAIN Tasks \cup {NextTaskId}
      /\ DOMAIN TaskStatus' = DOMAIN TaskStatus \cup {NextTaskId}
      /\ DOMAIN TaskAllocations' = DOMAIN TaskAllocations \cup {NextTaskId}
      /\ DOMAIN TaskOwners' = DOMAIN TaskOwners \cup {NextTaskId}
      /\ Tasks'[NextTaskId] = task_info
      /\ TaskAllocations'[NextTaskId] = selected
      /\ TaskOwners'[NextTaskId] = who
      /\ \A t \in DOMAIN Tasks : t # NextTaskId => Tasks'[t] = Tasks[t]
      /\ \A t \in DOMAIN TaskAllocations :
            t # NextTaskId => TaskAllocations'[t] = TaskAllocations[t]
      /\ \A t \in DOMAIN TaskOwners : t # NextTaskId => TaskOwners'[t] = TaskOwners[t]
  BY <1>2, SMTT(40) DEF Insert
<1>6. NextTaskId' = IF NextTaskId + 1 = IdSpace THEN 0 ELSE NextTaskId + 1
  BY <1>2, <1>4, NextId DEF TaskId
<1>7. LET ip == WorkerClusters[cluster_id].ip
      IN  \/ ip.ipv4 # None /\ event'.assigned_ip = <<"v4", ip.ipv4>>
          \/ ip.ipv4 = None /\ ip.ipv6 # None /\ event'.assigned_ip = <<"v6", ip.ipv6>>
  BY <1>2, <1>4 DEF StringIp
<1>8. TypeOK'
  <2>1. task_info \in TaskInfo
    BY <1>3, <1>4 DEF TaskInfo
  <2>2. /\ Tasks' \in [DOMAIN Tasks' -> TaskInfo]
        /\ TaskStatus' \in [DOMAIN TaskStatus' -> TaskStatusType]
        /\ TaskAllocations' \in [DOMAIN TaskAllocations' -> Accounts]
        /\ TaskOwners' \in [DOMAIN TaskOwners' -> Accounts]
    <3>1. "Pending" \in TaskStatusType
      BY DEF TaskStatusType
    <3> QED
      BY <1>1, <1>2, <1>4, <2>1, <3>1, InsertType, ZenonT(40) DEF TypeOK
  <2>3. NextTaskId' \in TaskId
    BY <1>4, <1>6, CapacityAssumption DEF TaskId
  <2>4. event' \in Event
    <3>1. /\ WorkerClusters[cluster_id].ip.ipv4 \in Addresses \cup {None}
          /\ WorkerClusters[cluster_id].ip.ipv6 \in Addresses \cup {None}
      BY <1>4 DEF Worker, Ip
    <3>2. event'.assigned_ip \in {"v4", "v6", "localhost"} \X (Addresses \cup {None})
      BY <1>7, <3>1
    <3> QED
      BY <1>2, <1>4, <3>2 DEF Event
  <2> QED
    BY <1>1, <1>3, <1>4, <1>5, <2>2, <2>3, <2>4 DEF TypeOK
<1>9. RegistryConsistent' /\ PingNamesNewest'
  BY <1>1, <1>3 DEF RegistryConsistent, PingNamesNewest, DerivedKey
<1>10. TaskTablesAgree'
  <2>1. ASSUME NEW t \in DOMAIN Tasks'
        PROVE  /\ Tasks'[t].task_owner = TaskOwners'[t]
               /\ TaskAllocations'[t] \in DOMAIN WorkerAccounts
               /\ Tasks'[t].assigned_worker = WorkerAccounts[TaskAllocations'[t]]
               /\ WorkerClusters[Tasks'[t].assigned_worker].start_block
                     <= Tasks'[t].create_block
               /\ Tasks'[t].create_block <= block
    <3>1. CASE t = NextTaskId
      BY <1>3, <1>4, <1>5, <3>1, SMTT(40)
    <3>2. CASE t # NextTaskId
      BY <1>1, <1>5, <3>2 DEF TaskTablesAgree
    <3> QED
      BY <3>1, <3>2, SMTT(40)
  <2> QED
    BY <1>1, <1>3, <1>5, <2>1 DEF TaskTablesAgree
<1>11. CountersInStep'
  <2>1. DOMAIN Tasks' = 0 .. NextTaskId' - 1 \/ DOMAIN Tasks' = TaskId
    <3>1. CASE DOMAIN Tasks = TaskId
      BY <1>4, <1>5, <3>1
    <3>2. CASE DOMAIN Tasks = 0 .. NextTaskId - 1
      BY <1>4, <1>5, <1>6, <3>2, CapacityAssumption, SMTT(40) DEF TaskId
    <3> QED
      BY <1>1, <3>1, <3>2 DEF CountersInStep
  <2> QED
    BY <1>1, <1>3, <2>1 DEF CountersInStep
<1>12. ScheduledEndpoint'
  <2>1. /\ event'.task_id = NextTaskId
        /\ event'.worker = selected
        /\ event'.owner = who
    BY <1>2
  <2>2. Tasks'[NextTaskId].assigned_worker = cluster_id
    BY <1>5
  <2>3. WorkerClusters' = WorkerClusters
    BY <1>3
  <2>4. /\ NextTaskId \in DOMAIN Tasks'
        /\ TaskAllocations'[NextTaskId] = selected
        /\ TaskOwners'[NextTaskId] = who
    BY <1>5
  <2> QED
    BY <1>7, <2>1, <2>2, <2>3, <2>4, Zenon DEF ScheduledEndpoint
<1> QED
  BY <1>8, <1>9, <1>10, <1>11, <1>12 DEF Inv

\* verify_connection preserves the invariant.
LEMMA VerifyInv ==
    ASSUME Inv, NEW c \in ClusterId, NEW s \in BOOLEAN, VerifyConnection(c, s)
    PROVE  Inv'
<1>1. /\ TypeOK /\ RegistryConsistent /\ TaskTablesAgree
      /\ PingNamesNewest /\ CountersInStep
  BY DEF Inv
<1>2. /\ c \in DOMAIN WorkerClusters
      /\ WorkerClusters' = [WorkerClusters EXCEPT ![c].status = s]
      /\ event' = [type |-> "ConnectionEstablished", cluster_id |-> c]
      /\ NextClusterId' = NextClusterId /\ WorkerAccounts' = WorkerAccounts
      /\ NextTaskId' = NextTaskId /\ Tasks' = Tasks /\ TaskStatus' = TaskStatus
      /\ TaskAllocations' = TaskAllocations /\ TaskOwners' = TaskOwners
      /\ block' = block /\ offchainIndex' = offchainIndex
  BY DEF VerifyConnection, taskVars
<1>3. /\ DOMAIN WorkerClusters' = DOMAIN WorkerClusters
      /\ WorkerClusters' \in [DOMAIN WorkerClusters -> Worker]
      /\ \A d \in DOMAIN WorkerClusters :
            /\ WorkerClusters'[d].id = WorkerClusters[d].id
            /\ WorkerClusters'[d].account = WorkerClusters[d].account
            /\ WorkerClusters'[d].start_block = WorkerClusters[d].start_block
            /\ WorkerClusters'[d].ip = WorkerClusters[d].ip
  BY <1>1, <1>2 DEF TypeOK, Worker
<1>4. TypeOK'
  BY <1>1, <1>2, <1>3 DEF TypeOK, Event
<1>5. RegistryConsistent'
  BY <1>1, <1>2, <1>3 DEF RegistryConsistent
<1>6. TaskTablesAgree'
  BY <1>1, <1>2, <1>3 DEF TaskTablesAgree, RegistryConsistent
<1>7. PingNamesNewest'
  BY <1>1, <1>2, <1>3 DEF PingNamesNewest, DerivedKey
<1>8. CountersInStep'
  BY <1>1, <1>2, <1>3 DEF CountersInStep
<1>9. ScheduledEndpoint'
  BY <1>2 DEF ScheduledEndpoint
<1> QED
  BY <1>4, <1>5, <1>6, <1>7, <1>8, <1>9 DEF Inv

\* Sealing a block preserves the invariant.
LEMMA NewBlockInv ==
    ASSUME Inv, NewBlock
    PROVE  Inv'
<1>1. /\ TypeOK /\ RegistryConsistent /\ TaskTablesAgree
      /\ PingNamesNewest /\ CountersInStep
  BY DEF Inv
<1>2. /\ block <= MaxBlock /\ block' = block + 1 /\ event' = NoEvent
      /\ NextClusterId' = NextClusterId /\ WorkerAccounts' = WorkerAccounts
      /\ WorkerClusters' = WorkerClusters
      /\ NextTaskId' = NextTaskId /\ Tasks' = Tasks /\ TaskStatus' = TaskStatus
      /\ TaskAllocations' = TaskAllocations /\ TaskOwners' = TaskOwners
      /\ offchainIndex' = offchainIndex
  BY DEF NewBlock, registryVars, taskVars
<1>3. TypeOK'
  BY <1>1, <1>2, InputAssumption DEF TypeOK, Event
<1>4. RegistryConsistent' /\ PingNamesNewest'
  BY <1>1, <1>2 DEF RegistryConsistent, PingNamesNewest, DerivedKey
<1>5. TaskTablesAgree'
  BY <1>1, <1>2, <1>3 DEF TaskTablesAgree, TypeOK, TaskInfo
<1>6. CountersInStep'
  BY <1>1, <1>2 DEF CountersInStep, TypeOK, Worker
<1>7. ScheduledEndpoint'
  BY <1>2 DEF ScheduledEndpoint, NoEvent
<1> QED
  BY <1>3, <1>4, <1>5, <1>6, <1>7 DEF Inv

\* Every step, and every stuttering step, preserves the invariant.
LEMMA NextInv == Inv /\ [Next]_vars => Inv'
<1> SUFFICES ASSUME Inv, [Next]_vars PROVE Inv'
  OBVIOUS
<1>1. CASE \E creator \in Accounts, ip \in Ip, port \in Ports :
              WorkerRegister(creator, ip, port)
  BY <1>1, RegisterInv
<1>2. CASE \E who \in Accounts, data \in TaskData : TaskScheduler(who, data)
  BY <1>2, ScheduleInv
<1>3. CASE \E c \in ClusterId, s \in BOOLEAN : VerifyConnection(c, s)
  BY <1>3, VerifyInv
<1>4. CASE NewBlock
  BY <1>4, NewBlockInv, SMTT(40)
<1>5. CASE UNCHANGED vars
  BY <1>5, ZenonT(40) DEF vars, registryVars, taskVars, Inv, TypeOK, RegistryConsistent,
              TaskTablesAgree, PingNamesNewest, CountersInStep, ScheduledEndpoint,
              DerivedKey
<1> QED
  BY <1>1, <1>2, <1>3, <1>4, <1>5 DEF Next

\* Main safety theorem: at every point of every run the pallet's tables have
\* their types and agree with each other, with the id counters, with the
\* off-chain index and with the event just deposited.
THEOREM Safety == Spec => []Inv
<1>1. Init => Inv
  BY InitInv
<1>2. Inv /\ [Next]_vars => Inv'
  BY NextInv
<1> QED
  BY <1>1, <1>2, PTL DEF Spec

-------------------------------------------------------------------------------
(* What the invariant gives *)

\* WorkerAccounts and WorkerClusters stay inverse to each other: no cluster id
\* of worker_register is ever given to two accounts.
THEOREM RegistryTheorem == Spec => []RegistryConsistent
<1>1. Inv => RegistryConsistent
  BY DEF Inv
<1> QED
  BY <1>1, Safety, PTL

\* The four tables of task_scheduler agree, before and after NextTaskId wraps.
THEOREM TaskTablesTheorem == Spec => []TaskTablesAgree
<1>1. Inv => TaskTablesAgree
  BY DEF Inv
<1> QED
  BY <1>1, Safety, PTL

\* The storage of the pallet keeps its declared types: no id leaves the id space
\* and no worker is stored with port 0.
THEOREM TypeTheorem == Spec => []TypeOK
<1>1. Inv => TypeOK
  BY DEF Inv
<1> QED
  BY <1>1, Safety, PTL

\* The counters of worker_register and task_scheduler stay in step with the
\* tables they feed, wrapped or not.
THEOREM CountersTheorem == Spec => []CountersInStep
<1>1. Inv => CountersInStep
  BY DEF Inv
<1> QED
  BY <1>1, Safety, PTL

\* The entry that worker_register leaves under a block's key names the newest
\* cluster of that block, and there is one for every block with a registration.
THEOREM PingTheorem == Spec => []PingNamesNewest
<1>1. Inv => PingNamesNewest
  BY DEF Inv
<1> QED
  BY <1>1, Safety, PTL

\* The TaskScheduled event of task_scheduler names the endpoint of the worker
\* stored for that task; its localhost arm is never taken.
THEOREM EndpointTheorem == Spec => []ScheduledEndpoint
<1>1. Inv => ScheduledEndpoint
  BY SMTT(40) DEF Inv
<1> QED
  BY <1>1, Safety, PTL

\* A registration takes an id that no cluster has.
LEMMA FreshId ==
    ASSUME Inv, NEW creator \in Accounts, NEW ip, NEW port, WorkerRegister(creator, ip, port)
    PROVE  /\ NextClusterId \notin DOMAIN WorkerClusters
           /\ creator \notin DOMAIN WorkerAccounts
<1>1. creator \in Accounts \ DOMAIN WorkerAccounts /\ DOMAIN WorkerAccounts \subseteq Accounts
  BY DEF WorkerRegister, NotRegistered, Inv, TypeOK
<1>2. /\ Cardinality(DOMAIN WorkerAccounts) \in Nat
      /\ Cardinality(DOMAIN WorkerAccounts) < IdSpace
  BY <1>1, OneMoreAccount, ZenonT(40)
<1> QED
  BY <1>1, <1>2, CapacityAssumption, SMTT(40) DEF Inv, CountersInStep

\* No step rebinds an account, removes a cluster or changes more of it than its
\* status, and the status only with its ConnectionEstablished event.
THEOREM PermanenceTheorem == Spec => RegistrationPermanent
<1> DEFINE Kept ==
      /\ \A a \in DOMAIN WorkerAccounts :
            a \in DOMAIN WorkerAccounts' /\ WorkerAccounts'[a] = WorkerAccounts[a]
      /\ \A c \in DOMAIN WorkerClusters :
            /\ c \in DOMAIN WorkerClusters'
            /\ WorkerClusters'[c] =
                  [WorkerClusters[c] EXCEPT !.status = WorkerClusters'[c].status]
            /\ WorkerClusters'[c] # WorkerClusters[c] =>
                  event' = [type |-> "ConnectionEstablished", cluster_id |-> c]
<1>1. ASSUME Inv, [Next]_vars PROVE [Kept]_vars
  <2>1. ASSUME NEW c \in DOMAIN WorkerClusters
        PROVE  WorkerClusters[c] = [WorkerClusters[c] EXCEPT !.status = WorkerClusters[c].status]
    BY <1>1 DEF Inv, TypeOK, Worker
  <2>2. ASSUME NEW creator \in Accounts, NEW ip \in Ip, NEW port \in Ports,
               WorkerRegister(creator, ip, port)
        PROVE  Kept
    <3>1. /\ NextClusterId \notin DOMAIN WorkerClusters
          /\ creator \notin DOMAIN WorkerAccounts
      BY <1>1, <2>2, FreshId
    <3>2. /\ \A a \in DOMAIN WorkerAccounts :
                a \in DOMAIN WorkerAccounts' /\ WorkerAccounts'[a] = WorkerAccounts[a]
          /\ \A c \in DOMAIN WorkerClusters :
                c \in DOMAIN WorkerClusters' /\ WorkerClusters'[c] = WorkerClusters[c]
      BY <2>2, <3>1 DEF WorkerRegister, Insert
    <3> QED
      BY <2>1, <3>2
  <2>3. ASSUME NEW c \in ClusterId, NEW s \in BOOLEAN, VerifyConnection(c, s)
        PROVE  Kept
    <3>1. WorkerAccounts' = WorkerAccounts
      BY <2>3 DEF VerifyConnection
    <3>2. ASSUME NEW d \in DOMAIN WorkerClusters
          PROVE  /\ d \in DOMAIN WorkerClusters'
                 /\ WorkerClusters'[d] =
                       [WorkerClusters[d] EXCEPT !.status = WorkerClusters'[d].status]
                 /\ WorkerClusters'[d] # WorkerClusters[d] =>
                       event' = [type |-> "ConnectionEstablished", cluster_id |-> d]
      <4>1. CASE d = c
        BY <1>1, <2>3, <4>1 DEF VerifyConnection, Inv, TypeOK, Worker
      <4>2. CASE d # c
        BY <2>1, <2>3, <4>2 DEF VerifyConnection
      <4> QED
        BY <4>1, <4>2
    <3> QED
      BY <3>1, <3>2
  <2>4. ASSUME UNCHANGED registryVars
        PROVE  Kept
    BY <2>1, <2>4 DEF registryVars
  <2> QED
    BY <1>1, <2>2, <2>3, <2>4 DEF Next, TaskScheduler, NewBlock
<1> QED
  BY <1>1, Safety, PTL DEF Spec, RegistrationPermanent

-------------------------------------------------------------------------------
(* Refinement of the work board *)

\* worker_register is the board's Join.
LEMMA RegisterJoins ==
    ASSUME Inv, NEW creator \in Accounts, NEW ip \in Ip, NEW port \in Ports,
           WorkerRegister(creator, ip, port)
    PROVE  Board!Join(creator, <<ip, port>>)
<1>1. /\ NextClusterId \notin DOMAIN WorkerClusters
      /\ creator \notin DOMAIN WorkerAccounts
  BY FreshId, SMTT(40)
<1>2. /\ DOMAIN WorkerAccounts' = DOMAIN WorkerAccounts \cup {creator}
      /\ WorkerAccounts'[creator] = NextClusterId
      /\ WorkerClusters'[NextClusterId].ip = ip
      /\ WorkerClusters'[NextClusterId].port = port
      /\ WorkerClusters'[NextClusterId].status = FALSE
      /\ Tasks' = Tasks /\ TaskOwners' = TaskOwners
  BY ZenonT(40) DEF WorkerRegister, Insert, taskVars
<1>3. /\ \A a \in DOMAIN WorkerAccounts : WorkerAccounts'[a] = WorkerAccounts[a]
      /\ \A c \in DOMAIN WorkerClusters : WorkerClusters'[c] = WorkerClusters[c]
  BY <1>1 DEF WorkerRegister, Insert
<1>4. \A a \in DOMAIN WorkerAccounts : WorkerAccounts[a] \in DOMAIN WorkerClusters
  BY DEF Inv, RegistryConsistent
<1>5. BoardRoster' = Board!Insert(BoardRoster, creator, <<ip, port>>)
  BY <1>1, <1>2, <1>3, <1>4 DEF BoardRoster, Board!Insert
<1>6. BoardUp' = BoardUp
  BY <1>1, <1>2, <1>3, <1>4 DEF BoardUp
<1>7. BoardJobs' = BoardJobs
  <2>1. \A t \in DOMAIN Tasks : Tasks[t].assigned_worker \in DOMAIN WorkerClusters
    BY DEF Inv, TaskTablesAgree, RegistryConsistent
  <2> QED
    BY <1>2, <1>3, <2>1 DEF BoardJobs
<1> QED
  BY <1>1, <1>5, <1>6, <1>7 DEF Board!Join, BoardRoster

\* task_scheduler is the board's Post: it overwrites a task only when every
\* task id is in use.
LEMMA SchedulePosts ==
    ASSUME Inv, NEW who \in Accounts, NEW data \in TaskData, TaskScheduler(who, data)
    PROVE  \E s \in TaskId, w \in Accounts : Board!Post(s, who, w, data)
<1>1. PICK selected \in DOMAIN WorkerAccounts :
         /\ Tasks' = Insert(Tasks, NextTaskId,
                        [task_owner |-> who, create_block |-> block, metadata |-> data,
                         assigned_worker |-> WorkerAccounts[selected]])
         /\ TaskOwners' = Insert(TaskOwners, NextTaskId, who)
  BY SMTT(40) DEF TaskScheduler, NewTask
<1>2. WorkerAccounts' = WorkerAccounts /\ WorkerClusters' = WorkerClusters
  BY DEF TaskScheduler, registryVars
<1>3. /\ NextTaskId \in TaskId /\ selected \in Accounts
      /\ DOMAIN TaskOwners = DOMAIN Tasks
      /\ WorkerClusters[WorkerAccounts[selected]].account = selected
  BY DEF Inv, TypeOK, TaskTablesAgree, RegistryConsistent
<1>4. NextTaskId \in DOMAIN Tasks => DOMAIN Tasks = TaskId
  BY <1>3 DEF Inv, CountersInStep, TaskId
<1>5. BoardJobs' = Board!Insert(BoardJobs, NextTaskId,
                       [owner |-> who, worker |-> selected, data |-> data])
  BY <1>1, <1>2, <1>3 DEF BoardJobs, Insert, Board!Insert
<1>6. BoardRoster' = BoardRoster /\ BoardUp' = BoardUp
  BY <1>2, SMTT(40) DEF BoardRoster, BoardUp
<1>7. Board!Post(NextTaskId, who, selected, data)
  BY <1>4, <1>5, <1>6 DEF Board!Post, BoardJobs, BoardRoster
<1> QED
  BY <1>3, <1>7

\* verify_connection is the board's Report about the one account that owns the
\* cluster.
LEMMA VerifyReports ==
    ASSUME Inv, NEW c \in ClusterId, NEW s \in BOOLEAN, VerifyConnection(c, s)
    PROVE  \E a \in Accounts : Board!Report(a, s)
<1> DEFINE a == WorkerClusters[c].account
<1>1. /\ c \in DOMAIN WorkerClusters
      /\ WorkerClusters' = [WorkerClusters EXCEPT ![c].status = s]
      /\ WorkerAccounts' = WorkerAccounts /\ Tasks' = Tasks /\ TaskOwners' = TaskOwners
  BY DEF VerifyConnection, taskVars
<1>2. /\ a \in DOMAIN WorkerAccounts /\ a \in Accounts
      /\ WorkerAccounts[a] = c
      /\ \A b \in DOMAIN WorkerAccounts :
            /\ WorkerAccounts[b] \in DOMAIN WorkerClusters
            /\ WorkerAccounts[b] = c => b = a
  BY <1>1 DEF Inv, TypeOK, RegistryConsistent
<1>3. /\ \A d \in DOMAIN WorkerClusters : d # c => WorkerClusters'[d] = WorkerClusters[d]
      /\ \A d \in DOMAIN WorkerClusters :
            /\ WorkerClusters'[d].ip = WorkerClusters[d].ip
            /\ WorkerClusters'[d].port = WorkerClusters[d].port
            /\ WorkerClusters'[d].account = WorkerClusters[d].account
      /\ WorkerClusters'[c].status = s
  BY <1>1 DEF Inv, TypeOK, Worker
<1>4. BoardRoster' = BoardRoster
  BY <1>1, <1>2, <1>3 DEF BoardRoster
<1>5. BoardJobs' = BoardJobs
  <2>1. \A t \in DOMAIN Tasks : Tasks[t].assigned_worker \in DOMAIN WorkerClusters
    BY DEF Inv, TaskTablesAgree, RegistryConsistent
  <2> QED
    BY <1>1, <1>3, <2>1 DEF BoardJobs
<1>6. BoardUp' = IF s THEN BoardUp \cup {a} ELSE BoardUp \ {a}
  BY <1>1, <1>2, <1>3, SMTT(40) DEF BoardUp
<1>7. Board!Report(a, s)
  BY <1>2, <1>4, <1>5, <1>6 DEF Board!Report, BoardRoster
<1> QED
  BY <1>2, <1>7

\* The pallet implements the work board.
THEOREM Refinement == Spec => ImplementsBoard
<1>1. Init => Board!Init
  BY ZenonT(40) DEF Init, Empty, Board!Init, Board!Empty, BoardRoster, BoardUp, BoardJobs
<1>2. Inv /\ [Next]_vars => [Board!Next]_(Board!boardVars)
  <2> SUFFICES ASSUME Inv, [Next]_vars PROVE [Board!Next]_(Board!boardVars)
    OBVIOUS
  <2>1. CASE \E creator \in Accounts, ip \in Ip, port \in Ports :
                WorkerRegister(creator, ip, port)
    BY <2>1, RegisterJoins, ZenonT(40) DEF Board!Next
  <2>2. CASE \E who \in Accounts, data \in TaskData : TaskScheduler(who, data)
    BY <2>2, SchedulePosts DEF Board!Next
  <2>3. CASE \E c \in ClusterId, s \in BOOLEAN : VerifyConnection(c, s)
    BY <2>3, VerifyReports DEF Board!Next
  <2>4. CASE NewBlock \/ UNCHANGED vars
    BY <2>4 DEF NewBlock, vars, registryVars, taskVars, Board!boardVars,
                BoardRoster, BoardUp, BoardJobs
  <2> QED
    BY <2>1, <2>2, <2>3, <2>4 DEF Next
<1> QED
  BY <1>1, <1>2, Safety, PTL DEF Spec, ImplementsBoard, Board!Spec

-------------------------------------------------------------------------------
(* Which workers task_scheduler can select *)

\* "Select one worker randomly": the index is one byte modulo the number of workers, so
\* even if the hashes of the tasks take every value of a byte, exactly the first 256
\* workers in the order of iteration can be selected; the others never get a task.
THEOREM SelectionReach ==
    ASSUME NEW n \in Nat \ {0}, Cardinality(DOMAIN WorkerAccounts) = n,
           \A byte \in 0 .. 255 : \E data \in TaskData : FirstByte[data] = byte
    PROVE  {RandomIndex(data) : data \in TaskData} = {i \in 0 .. n - 1 : i < 256}
<1>1. \A byte \in 0 .. 255 : (byte % n) \in 0 .. n - 1 /\ (byte % n) < 256
  <2> TAKE byte \in 0 .. 255
  <2>1. (byte % n) \in 0 .. n - 1
    OBVIOUS
  <2>2. (byte % n) <= byte
    BY Z3
  <2> QED
    BY <2>1, <2>2
<1>2. ASSUME NEW data \in TaskData
      PROVE  RandomIndex(data) \in {i \in 0 .. n - 1 : i < 256}
  BY <1>1, InputAssumption DEF RandomIndex
<1>3. ASSUME NEW i \in 0 .. n - 1, i < 256
      PROVE  \E data \in TaskData : RandomIndex(data) = i
  <2>1. PICK data \in TaskData : FirstByte[data] = i
    BY <1>3
  <2>2. (i % n) = i
    BY <1>3
  <2> QED
    BY <2>1, <2>2, SMTT(40) DEF RandomIndex
<1> QED
  BY <1>2, <1>3
===============================================================================
