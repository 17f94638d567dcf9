--------------------------- MODULE ClusterPingProofs ---------------------------
(***************************************************************************)
(* Proofs about the health check of new clusters, for any number of nodes,   *)
(* accounts, blocks and restarts.                                          *)
(***************************************************************************)
EXTENDS ClusterPing, WorkerRegistrationProofs

-------------------------------------------------------------------------------
(* The inductive invariant.  The properties speak of nonces and of the status; *)
(* inductive they become with where a transaction comes from: the worker of a   *)
(* sealed block, the nonce of that block's state, the cluster in the index      *)
(* entry of that block, which nothing overwrites any more.                     *)

\* The index entry of a sealed block.
SealedPing(b) == b \in Blocks /\ b < block /\ DerivedKey(b, "ping") \in DOMAIN offchainIndex

FromSealedBlock(tx) ==
    /\ SealedPing(tx.block)
    /\ offchainIndex[DerivedKey(tx.block, "ping")] = tx.cluster
    /\ tx.nonce = nonceAt[tx.block]

NoncesInOrder ==
    /\ \A b \in 1 .. block - 1 : nonceAt[b] <= nonce
    /\ \A tx \in reports : tx.nonce < nonce
    /\ \A r1, r2 \in reports : r1.nonce = r2.nonce => r1 = r2
    /\ NoNonceGap

StatusVouched ==
    /\ \A tx \in pool : tx.status => tx.cluster \in vouched
    /\ UpOnlyIfVouched

PingInv ==
    /\ Inv /\ PingTypeOK
    /\ \A tx \in pool \cup reports : FromSealedBlock(tx)
    /\ \A n \in Nodes, b \in Blocks : run[n][b] = "fetching" => SealedPing(b)
    /\ NoncesInOrder
    /\ StatusVouched

\* The parts of the invariant, and what the types say of a transaction.
LEMMA PingInvParts ==
    ASSUME PingInv
    PROVE  /\ Inv /\ TypeOK /\ PingTypeOK /\ NoncesInOrder /\ NoNonceGap /\ StatusVouched
           /\ UpOnlyIfVouched
           /\ block \in 1 .. MaxBlock + 1 /\ nonce \in Nat
           /\ nonceAt \in [1 .. block - 1 -> Nat]
           /\ \A tx \in pool \cup reports :
                 /\ FromSealedBlock(tx)
                 /\ tx.tag = <<OcwAccount, tx.nonce>> /\ tx.nonce \in Nat
                 /\ tx.block \in Blocks /\ tx.cluster \in ClusterId /\ tx.status \in BOOLEAN
<1>1. /\ Inv /\ TypeOK /\ PingTypeOK /\ NoncesInOrder /\ NoNonceGap /\ StatusVouched
      /\ UpOnlyIfVouched
      /\ block \in 1 .. MaxBlock + 1 /\ nonce \in Nat
      /\ nonceAt \in [1 .. block - 1 -> Nat]
  BY DEF PingInv, Inv, PingTypeOK, TypeOK, NoncesInOrder, StatusVouched
<1>2. ASSUME NEW tx \in pool \cup reports
      PROVE  /\ FromSealedBlock(tx)
             /\ tx.tag = <<OcwAccount, tx.nonce>> /\ tx.nonce \in Nat
             /\ tx.block \in Blocks /\ tx.cluster \in ClusterId /\ tx.status \in BOOLEAN
  <2>1. FromSealedBlock(tx)
    BY DEF PingInv
  <2>2. PICK n \in Nodes, b \in Blocks, c \in ClusterId, s \in BOOLEAN :
               tx = Verification(n, b, c, s, tx.nonce)
    BY <1>1 DEF PingTypeOK
  <2>3. /\ tx.tag = <<OcwAccount, tx.nonce>> /\ tx.block = b
        /\ tx.cluster = c /\ tx.status = s
    BY <2>2 DEF Verification
  <2>4. tx.block \in 1 .. block - 1
    BY <1>1, <2>1 DEF FromSealedBlock, SealedPing, Blocks
  <2>5. tx.nonce \in Nat
    BY <1>1, <2>1, <2>4 DEF FromSealedBlock
  <2> QED
    BY <2>1, <2>2, <2>3, <2>5
<1> QED
  BY <1>1, <1>2

\* Nothing registered, nothing sent.
LEMMA PingInitInv == PingInit => PingInv
<1> SUFFICES ASSUME PingInit PROVE PingInv
  OBVIOUS
<1>1. Inv
  BY InitInv DEF PingInit
<1>2. PingTypeOK
  BY <1>1, NodesAssumption DEF PingTypeOK, PingInit, Init, Inv, Empty
<1>3. NoncesInOrder /\ StatusVouched
  BY DEF NoncesInOrder, StatusVouched, NoNonceGap, UpOnlyIfVouched, PingInit, Init, Empty
<1>4. \A n \in Nodes, b \in Blocks : run[n][b] # "fetching"
  BY DEF PingInit
<1> QED
  BY <1>1, <1>2, <1>3, <1>4 DEF PingInv, PingInit

-------------------------------------------------------------------------------
(* The steps *)

\* worker_register writes the key of the block under construction, and sealing keeps
\* the nonces of earlier states: what a transaction comes from stays.
LEMMA SealedStays ==
    ASSUME PingInv, block' = block \/ block' = block + 1,
           \/ offchainIndex' = offchainIndex
           \/ \E c : offchainIndex' = Insert(offchainIndex, DerivedKey(block, "ping"), c),
           \A b \in 1 .. block - 1 : nonceAt'[b] = nonceAt[b]
    PROVE  /\ \A b : SealedPing(b) => SealedPing(b)'
           /\ \A tx : FromSealedBlock(tx) => FromSealedBlock(tx)'
<1>1. block \in 1 .. MaxBlock + 1
  BY PingInvParts
<1>2. ASSUME NEW b, SealedPing(b)
      PROVE  SealedPing(b)' /\ offchainIndex'[DerivedKey(b, "ping")] = offchainIndex[DerivedKey(b, "ping")]
  <2>1. b \in 1 .. block - 1 /\ b # block /\ b < block'
    BY <1>1, <1>2 DEF SealedPing, Blocks
  <2>2. DerivedKey(b, "ping") # DerivedKey(block, "ping")
    BY <2>1 DEF DerivedKey
  <2>3. /\ DerivedKey(b, "ping") \in DOMAIN offchainIndex'
        /\ offchainIndex'[DerivedKey(b, "ping")] = offchainIndex[DerivedKey(b, "ping")]
    BY <1>2, <2>2 DEF SealedPing, Insert
  <2> QED
    BY <1>2, <2>1, <2>3 DEF SealedPing, Blocks, DerivedKey
<1>3. ASSUME NEW tx, FromSealedBlock(tx) PROVE FromSealedBlock(tx)'
  <2>1. SealedPing(tx.block) /\ tx.block \in 1 .. block - 1
    BY <1>1, <1>3 DEF FromSealedBlock, SealedPing, Blocks
  <2>2. /\ SealedPing(tx.block)'
        /\ offchainIndex'[DerivedKey(tx.block, "ping")] = offchainIndex[DerivedKey(tx.block, "ping")]
    BY <1>2, <2>1
  <2>3. nonceAt'[tx.block] = nonceAt[tx.block]
    BY <2>1
  <2> QED
    BY <1>3, <2>2, <2>3 DEF FromSealedBlock, DerivedKey
<1> QED
  BY <1>2, <1>3

\* A call made by hand: the nonce of the workers' account may go on by one.
LEMMA SignedNonce ==
    ASSUME nonce \in Nat, NEW who, Signed(who)
    PROVE  nonce' \in Nat /\ nonce <= nonce'
  BY DEF Signed

\* The nonces stay in order when only the account's nonce goes on and the pool
\* shrinks or stays.
LEMMA NoncesGoOn ==
    ASSUME PingInv, nonce' \in Nat, nonce <= nonce', pool' \subseteq pool,
           reports' = reports, block' = block, nonceAt' = nonceAt
    PROVE  NoncesInOrder'
<1>1. /\ nonce \in Nat /\ nonceAt \in [1 .. block - 1 -> Nat] /\ NoncesInOrder
      /\ \A tx \in pool \cup reports : tx.nonce \in Nat
  BY PingInvParts
<1> QED
  BY <1>1 DEF NoncesInOrder, NoNonceGap

\* worker_register, called by a user, stores a cluster that is not up.
LEMMA UserRegisterInv ==
    ASSUME PingInv, NEW who \in Accounts, NEW ip \in Ip, NEW port \in Ports,
           UserRegister(who, ip, port)
    PROVE  PingInv'
<1>1. /\ Inv /\ TypeOK /\ PingTypeOK /\ StatusVouched /\ nonce \in Nat
  BY PingInvParts
<1>2. /\ WorkerRegister(who, ip, port) /\ Signed(who)
      /\ nonceAt' = nonceAt /\ pool' = pool /\ run' = run /\ restarts' = restarts
      /\ vouched' = vouched /\ reports' = reports /\ block' = block
      /\ offchainIndex' = Insert(offchainIndex, DerivedKey(block, "ping"), NextClusterId)
  BY DEF UserRegister, WorkerRegister
<1>3. Inv'
  BY <1>1, <1>2, RegisterInv
<1>4. nonce' \in Nat /\ nonce <= nonce'
  BY <1>1, <1>2, SignedNonce
<1>5. PingTypeOK'
  BY <1>1, <1>2, <1>3, <1>4 DEF PingTypeOK, Inv
<1>6. /\ \A b : SealedPing(b) => SealedPing(b)'
      /\ \A tx : FromSealedBlock(tx) => FromSealedBlock(tx)'
  BY <1>2, SealedStays
<1>7. NoncesInOrder'
  BY <1>2, <1>4, NoncesGoOn
<1>8. StatusVouched'
  <2>1. ASSUME NEW c \in DOMAIN WorkerClusters', WorkerClusters'[c].status
        PROVE  c \in vouched
    <3>1. PICK cluster : /\ WorkerClusters' = Insert(WorkerClusters, NextClusterId, cluster)
                         /\ cluster.status = FALSE
      BY <1>2 DEF WorkerRegister
    <3>2. c \in DOMAIN WorkerClusters /\ WorkerClusters'[c] = WorkerClusters[c]
      BY <2>1, <3>1 DEF Insert
    <3> QED
      BY <1>1, <2>1, <3>2 DEF StatusVouched, UpOnlyIfVouched
  <2> QED
    BY <1>1, <1>2, <2>1 DEF StatusVouched, UpOnlyIfVouched
<1> QED
  BY <1>2, <1>3, <1>5, <1>6, <1>7, <1>8 DEF PingInv

\* verify_connection with status s, once the claim counts as vouched for.
LEMMA VerifyVouched ==
    ASSUME PingInv, NEW c \in ClusterId, NEW s \in BOOLEAN, VerifyConnection(c, s),
           vouched \subseteq vouched', s => c \in vouched', pool' \subseteq pool
    PROVE  StatusVouched'
<1>1. TypeOK /\ StatusVouched
  BY PingInvParts
<1>2. ASSUME NEW d \in DOMAIN WorkerClusters', WorkerClusters'[d].status
      PROVE  d \in vouched'
  <2>1. /\ d \in DOMAIN WorkerClusters /\ WorkerClusters[d] \in Worker
        /\ WorkerClusters' = [WorkerClusters EXCEPT ![c].status = s]
    BY <1>1, <1>2 DEF VerifyConnection, TypeOK
  <2>2. CASE d = c
    <3>1. WorkerClusters'[d].status = s
      BY <2>1, <2>2 DEF Worker
    <3> QED
      BY <1>2, <2>2, <3>1
  <2>3. CASE d # c
    BY <1>1, <1>2, <2>1, <2>3 DEF StatusVouched, UpOnlyIfVouched
  <2> QED
    BY <2>2, <2>3
<1> QED
  BY <1>1, <1>2 DEF StatusVouched, UpOnlyIfVouched

\* verify_connection, called by hand.
LEMMA UserVerifyInv ==
    ASSUME PingInv, NEW who \in Verifiers, NEW c \in ClusterId, NEW s \in BOOLEAN,
           UserVerify(who, c, s)
    PROVE  PingInv'
<1>1. Inv /\ PingTypeOK /\ nonce \in Nat
  BY PingInvParts
<1>2. /\ VerifyConnection(c, s) /\ Signed(who)
      /\ vouched' = IF s THEN vouched \cup {c} ELSE vouched
      /\ nonceAt' = nonceAt /\ pool' = pool /\ run' = run /\ restarts' = restarts
      /\ reports' = reports /\ block' = block /\ offchainIndex' = offchainIndex
  BY DEF UserVerify, VerifyConnection
<1>3. Inv'
  BY <1>1, <1>2, VerifyInv
<1>4. nonce' \in Nat /\ nonce <= nonce'
  BY <1>1, <1>2, SignedNonce
<1>5. PingTypeOK'
  BY <1>1, <1>2, <1>3, <1>4 DEF PingTypeOK, Inv
<1>6. /\ \A b : SealedPing(b) => SealedPing(b)'
      /\ \A tx : FromSealedBlock(tx) => FromSealedBlock(tx)'
  BY <1>2, SealedStays
<1>7. NoncesInOrder'
  BY <1>2, <1>4, NoncesGoOn
<1>8. StatusVouched'
  BY <1>2, VerifyVouched
<1> QED
  BY <1>2, <1>3, <1>5, <1>6, <1>7, <1>8 DEF PingInv

\* The state of the sealed block has the nonce of the moment.
LEMMA SealInv ==
    ASSUME PingInv, Seal
    PROVE  PingInv'
<1>1. /\ Inv /\ TypeOK /\ PingTypeOK /\ NoncesInOrder /\ StatusVouched /\ nonce \in Nat
      /\ block \in 1 .. MaxBlock + 1 /\ nonceAt \in [1 .. block - 1 -> Nat]
  BY PingInvParts
<1>2. /\ NewBlock /\ block' = block + 1 /\ nonceAt' = Insert(nonceAt, block, nonce)
      /\ nonce' = nonce /\ pool' = pool /\ run' = run /\ restarts' = restarts
      /\ vouched' = vouched /\ reports' = reports /\ offchainIndex' = offchainIndex
      /\ WorkerClusters' = WorkerClusters
  BY DEF Seal, NewBlock, registryVars
<1>3. Inv'
  BY <1>1, <1>2, NewBlockInv
<1>4. /\ nonceAt' \in [1 .. block' - 1 -> Nat] /\ nonceAt'[block] = nonce
      /\ \A b \in 1 .. block - 1 : nonceAt'[b] = nonceAt[b]
  BY <1>1, <1>2 DEF Insert
<1>5. PingTypeOK'
  BY <1>1, <1>2, <1>3, <1>4 DEF PingTypeOK, Inv
<1>6. /\ \A b : SealedPing(b) => SealedPing(b)'
      /\ \A tx : FromSealedBlock(tx) => FromSealedBlock(tx)'
  BY <1>2, <1>4, SealedStays
<1>7. NoncesInOrder'
  <2>1. \A b \in 1 .. block' - 1 : nonceAt'[b] <= nonce'
    BY <1>1, <1>2, <1>4 DEF NoncesInOrder
  <2> QED
    BY <1>1, <1>2, <2>1 DEF NoncesInOrder, NoNonceGap
<1>8. StatusVouched'
  BY <1>1, <1>2 DEF StatusVouched, UpOnlyIfVouched
<1> QED
  BY <1>2, <1>3, <1>5, <1>6, <1>7, <1>8 DEF PingInv

\* Steps that leave the chain alone keep what the invariant says of it.
LEMMA ChainStays ==
    ASSUME PingInv, UNCHANGED <<vars, nonce, nonceAt>>
    PROVE  /\ Inv' /\ block' = block
           /\ \A b : SealedPing(b) => SealedPing(b)'
           /\ \A tx : FromSealedBlock(tx) => FromSealedBlock(tx)'
<1>1. Inv'
  BY NextInv DEF PingInv
<1>2. block' = block /\ offchainIndex' = offchainIndex /\ nonceAt' = nonceAt
  BY DEF vars
<1> QED
  BY <1>1, <1>2, SealedStays

\* The off-chain worker starts only for a sealed block with an index entry.
LEMMA WorkerStartsInv ==
    ASSUME PingInv, NEW n \in Nodes, NEW b \in Blocks, OffchainWorker(n, b)
    PROVE  PingInv'
<1>1. PingTypeOK /\ StatusVouched /\ nonce \in Nat
  BY PingInvParts
<1>2. /\ UNCHANGED <<vars, nonce, nonceAt>> /\ WorkerClusters' = WorkerClusters
      /\ pool' = pool /\ restarts' = restarts /\ vouched' = vouched /\ reports' = reports
      /\ run' = [run EXCEPT ![n][b] = "fetching"] /\ nonce' = nonce /\ nonceAt' = nonceAt
  BY DEF OffchainWorker, vars, registryVars
<1>3. /\ Inv' /\ block' = block
      /\ \A d : SealedPing(d) => SealedPing(d)'
      /\ \A tx : FromSealedBlock(tx) => FromSealedBlock(tx)'
  BY <1>2, ChainStays
<1>4. PingTypeOK'
  BY <1>1, <1>2, <1>3 DEF PingTypeOK, Inv
<1>5. SealedPing(b)
  BY DEF OffchainWorker, SealedPing
<1>6. \A m \in Nodes, d \in Blocks : run'[m][d] = "fetching" => SealedPing(d)'
  <2>1. ASSUME NEW m \in Nodes, NEW d \in Blocks, run'[m][d] = "fetching"
        PROVE  d = b \/ run[m][d] = "fetching"
    BY <1>1, <1>2, <2>1 DEF PingTypeOK
  <2> QED
    BY <1>3, <1>5, <2>1 DEF PingInv
<1>7. NoncesInOrder'
  BY <1>1, <1>2, <1>3, NoncesGoOn
<1>8. StatusVouched'
  BY <1>1, <1>2 DEF StatusVouched, UpOnlyIfVouched
<1> QED
  BY <1>2, <1>3, <1>4, <1>6, <1>7, <1>8 DEF PingInv

\* The worker submits: with the nonce of its block's state, for the cluster of its
\* block's entry, and as up only if the cluster said so.
LEMMA SubmitInv ==
    ASSUME PingInv, NEW n \in Nodes, NEW b \in Blocks, NEW outcome \in Outcomes,
           SubmitVerification(n, b, outcome)
    PROVE  PingInv'
<1> DEFINE c == offchainIndex[DerivedKey(b, "ping")]
           s == DeploymentStatus(outcome)
           new == Verification(n, b, c, s, nonceAt[b])
<1>1. /\ Inv /\ TypeOK /\ PingTypeOK /\ NoncesInOrder /\ NoNonceGap /\ StatusVouched
      /\ nonce \in Nat /\ block \in 1 .. MaxBlock + 1 /\ nonceAt \in [1 .. block - 1 -> Nat]
      /\ \A tx \in pool \cup reports : tx.tag = <<OcwAccount, tx.nonce>>
  BY PingInvParts
<1>2. /\ run[n][b] = "fetching" /\ run' = [run EXCEPT ![n][b] = "done"]
      /\ pool' = Submit(pool, new)
      /\ vouched' = IF outcome = "up" THEN vouched \cup {c} ELSE vouched
      /\ UNCHANGED <<vars, nonce, nonceAt>> /\ WorkerClusters' = WorkerClusters
      /\ restarts' = restarts /\ reports' = reports /\ nonce' = nonce /\ nonceAt' = nonceAt
  BY DEF SubmitVerification, NonceFor, vars, registryVars
<1>3. /\ Inv' /\ block' = block
      /\ \A d : SealedPing(d) => SealedPing(d)'
      /\ \A tx : FromSealedBlock(tx) => FromSealedBlock(tx)'
  BY <1>2, ChainStays
<1>4. SealedPing(b) /\ b \in 1 .. block - 1 /\ c \in ClusterId /\ s \in BOOLEAN
  BY <1>1, <1>2 DEF PingInv, SealedPing, Blocks, TypeOK, DeploymentStatus
<1>5. /\ new.tag = <<OcwAccount, nonceAt[b]>> /\ new.nonce = nonceAt[b] /\ new.block = b
      /\ new.cluster = c /\ new.status = s
  BY SMTT(40) DEF Verification
<1>6. FromSealedBlock(new)
  BY <1>4, <1>5 DEF FromSealedBlock
<1>7. \/ pool' = pool
      \/ pool' = pool \cup {new} /\ \A tx \in pool : tx.nonce # new.nonce
  BY <1>1, <1>2, <1>5, SMTT(40) DEF Submit, Rivals
<1> HIDE DEF new
<1>8. PingTypeOK'
  <2>1. \E m \in Nodes, d \in Blocks, e \in ClusterId, t \in BOOLEAN :
           new = Verification(m, d, e, t, new.nonce)
    BY <1>4, <1>5 DEF new
  <2>2. \A tx \in pool' \cup reports' :
           \E m \in Nodes, d \in Blocks, e \in ClusterId, t \in BOOLEAN :
              tx = Verification(m, d, e, t, tx.nonce)
    BY <1>1, <1>2, <1>7, <2>1 DEF PingTypeOK
  <2>3. run' \in [Nodes -> [Blocks -> {"idle", "fetching", "done"}]] /\ vouched' \subseteq ClusterId
    BY <1>1, <1>2, <1>4 DEF PingTypeOK
  <2> QED
    BY <1>1, <1>2, <1>3, <2>2, <2>3, ZenonT(60) DEF PingTypeOK, Inv
<1>9. \A m \in Nodes, d \in Blocks : run'[m][d] = "fetching" => run[m][d] = "fetching"
  BY <1>1, <1>2 DEF PingTypeOK
<1>10. NoncesInOrder'
  <2>1. new.nonce <= nonce
    BY <1>1, <1>4, <1>5 DEF NoncesInOrder
  <2>2. NoNonceGap'
    BY <1>1, <1>2, <1>7, <2>1 DEF NoNonceGap
  <2> QED
    BY <1>1, <1>2, <1>3, <2>2 DEF NoncesInOrder
<1>11. StatusVouched'
  <2>1. new.status => new.cluster \in vouched'
    BY <1>2, <1>5, ZenonT(60) DEF DeploymentStatus
  <2>2. vouched \subseteq vouched'
    BY <1>2
  <2> QED
    BY <1>1, <1>2, <1>7, <2>1, <2>2 DEF StatusVouched, UpOnlyIfVouched
<1> QED
  BY <1>2, <1>3, <1>6, <1>7, <1>8, <1>9, <1>10, <1>11 DEF PingInv

\* A block applies a report: nobody had this nonce before.
LEMMA ApplyInv ==
    ASSUME PingInv, NEW tx \in pool, Apply(tx)
    PROVE  PingInv'
<1>1. /\ Inv /\ PingTypeOK /\ NoncesInOrder /\ NoNonceGap /\ StatusVouched /\ nonce \in Nat
      /\ nonceAt \in [1 .. block - 1 -> Nat]
      /\ FromSealedBlock(tx) /\ tx.cluster \in ClusterId /\ tx.status \in BOOLEAN
      /\ \A r \in pool \cup reports : r.nonce \in Nat
  BY PingInvParts
<1>2. /\ VerifyConnection(tx.cluster, tx.status) /\ tx.nonce = nonce
      /\ nonce' = nonce + 1 /\ pool' = pool \ {tx} /\ reports' = reports \cup {tx}
      /\ nonceAt' = nonceAt /\ run' = run /\ restarts' = restarts /\ vouched' = vouched
      /\ block' = block /\ offchainIndex' = offchainIndex
  BY DEF Apply, VerifyConnection
<1>3. Inv'
  BY <1>1, <1>2, VerifyInv
<1>4. PingTypeOK'
  BY <1>1, <1>2, <1>3 DEF PingTypeOK, Inv
<1>5. /\ \A b : SealedPing(b) => SealedPing(b)'
      /\ \A r : FromSealedBlock(r) => FromSealedBlock(r)'
  BY <1>2, SealedStays
<1>6. NoncesInOrder'
  <2>1. \A r \in reports : r.nonce # tx.nonce
    BY <1>1, <1>2 DEF NoncesInOrder
  <2>2. \A r1, r2 \in reports' : r1.nonce = r2.nonce => r1 = r2
    BY <1>1, <1>2, <2>1 DEF NoncesInOrder
  <2>3. \A r \in reports' : r.nonce < nonce'
    BY <1>1, <1>2 DEF NoncesInOrder
  <2>4. NoNonceGap'
    BY <1>1, <1>2 DEF NoNonceGap
  <2>5. \A b \in 1 .. block' - 1 : nonceAt'[b] <= nonce'
    BY <1>1, <1>2 DEF NoncesInOrder
  <2> QED
    BY <2>2, <2>3, <2>4, <2>5 DEF NoncesInOrder
<1>7. StatusVouched'
  BY <1>1, <1>2, VerifyVouched DEF StatusVouched
<1> QED
  BY <1>2, <1>3, <1>4, <1>5, <1>6, <1>7 DEF PingInv

\* A transaction dropped as stale, or a node that restarts with part of the pool and
\* none of its workers: less of everything.
LEMMA LossInv ==
    ASSUME PingInv, UNCHANGED <<vars, nonce, nonceAt, vouched, reports>>,
           pool' \subseteq pool, restarts' \in 0 .. MaxRestarts,
           run' \in [Nodes -> [Blocks -> {"idle", "fetching", "done"}]],
           \A n \in Nodes, b \in Blocks : run'[n][b] = "fetching" => run[n][b] = "fetching"
    PROVE  PingInv'
<1>1. PingTypeOK /\ StatusVouched /\ nonce \in Nat
  BY PingInvParts
<1>2. /\ Inv' /\ block' = block
      /\ \A d : SealedPing(d) => SealedPing(d)'
      /\ \A tx : FromSealedBlock(tx) => FromSealedBlock(tx)'
  BY ChainStays
<1>3. PingTypeOK'
  BY <1>1, <1>2 DEF PingTypeOK, Inv
<1>4. NoncesInOrder'
  BY <1>1, <1>2, NoncesGoOn
<1>5. StatusVouched'
  BY <1>1 DEF StatusVouched, UpOnlyIfVouched, vars, registryVars
<1> QED
  BY <1>2, <1>3, <1>4, <1>5 DEF PingInv

\* The pool drops a transaction whose nonce is spent.
LEMMA DropStaleInv ==
    ASSUME PingInv, NEW tx \in pool, DropStale(tx)
    PROVE  PingInv'
<1>1. PingTypeOK
  BY PingInvParts
<1> QED
  BY <1>1, LossInv DEF DropStale, PingTypeOK

\* A node that restarts forgets its workers, and with them what they were fetching.
LEMMA RestartInv ==
    ASSUME PingInv, NEW n \in Nodes, Restart(n)
    PROVE  PingInv'
<1>1. PingTypeOK /\ block \in Nat
  BY PingInvParts
<1>2. run' = [run EXCEPT ![n] = [b \in Blocks |-> IF b < block THEN "done" ELSE run[n][b]]]
  BY DEF Restart
<1>3. run' \in [Nodes -> [Blocks -> {"idle", "fetching", "done"}]]
  BY <1>1, <1>2 DEF PingTypeOK
<1>4. ASSUME NEW m \in Nodes, NEW b \in Blocks, run'[m][b] = "fetching"
      PROVE  run[m][b] = "fetching"
  BY <1>1, <1>2, <1>4 DEF PingTypeOK
<1>5. restarts' \in 0 .. MaxRestarts
  BY <1>1, NodesAssumption DEF Restart, PingTypeOK
<1>6. pool' \subseteq pool /\ UNCHANGED <<vars, nonce, nonceAt, vouched, reports>>
  BY DEF Restart
<1> QED
  BY <1>3, <1>4, <1>5, <1>6, LossInv

-------------------------------------------------------------------------------
(* What it gives *)

\* The invariant holds at every point of every run of the chain with its workers.
THEOREM PingSafety == PingSpec => []PingInv
<1>1. PingInv /\ [PingNext]_pingVars => PingInv'
  <2> SUFFICES ASSUME PingInv, [PingNext]_pingVars PROVE PingInv'
    OBVIOUS
  <2>1. CASE \E who \in Accounts, ip \in Ip, port \in Ports : UserRegister(who, ip, port)
    BY <2>1, UserRegisterInv
  <2>2. CASE \E who \in Verifiers, c \in ClusterId, s \in BOOLEAN : UserVerify(who, c, s)
    BY <2>2, UserVerifyInv
  <2>3. CASE Seal
    BY <2>3, SealInv
  <2>4. CASE \E n \in Nodes, b \in Blocks : OffchainWorker(n, b)
    BY <2>4, WorkerStartsInv
  <2>5. CASE \E n \in Nodes, b \in Blocks, outcome \in Outcomes :
                SubmitVerification(n, b, outcome)
    BY <2>5, SubmitInv
  <2>6. CASE \E tx \in pool : Apply(tx) \/ DropStale(tx)
    BY <2>6, ApplyInv, DropStaleInv
  <2>7. CASE \E n \in Nodes : Restart(n)
    BY <2>7, RestartInv
  <2>8. CASE UNCHANGED pingVars
    <3>1. PingTypeOK
      BY PingInvParts
    <3> QED
      BY <2>8, <3>1, LossInv DEF pingVars, ocwVars, PingTypeOK
  <2> QED
    BY <2>1, <2>2, <2>3, <2>4, <2>5, <2>6, <2>7, <2>8 DEF PingNext
<1> QED
  BY PingInitInv, <1>1, PTL DEF PingSpec

\* No failed or missing answer to the off-chain worker's request ever makes
\* verify_connection set a cluster to up.
THEOREM VouchedTheorem == PingSpec => []UpOnlyIfVouched
<1>1. PingInv => UpOnlyIfVouched
  BY DEF PingInv, StatusVouched
<1> QED
  BY <1>1, PingSafety, PTL

\* The nonces that send_signed_transaction reads from old states never leave a gap
\* in the pool.
THEOREM NonceTheorem == PingSpec => []NoNonceGap
<1>1. PingInv => NoNonceGap
  BY DEF PingInv, NoncesInOrder
<1> QED
  BY <1>1, PingSafety, PTL

\* However many nodes run the off-chain worker of a block, the chain takes at most one
\* of their reports.
THEOREM OneReportTheorem == PingSpec => []OneReportPerBlock
<1>1. PingInv => OneReportPerBlock
  <2> SUFFICES ASSUME PingInv, NEW r1 \in reports, NEW r2 \in reports, r1.block = r2.block
               PROVE  r1 = r2
    BY DEF OneReportPerBlock
  <2>1. r1.nonce = nonceAt[r1.block] /\ r2.nonce = nonceAt[r2.block]
    BY DEF PingInv, FromSealedBlock
  <2> QED
    BY <2>1 DEF PingInv, NoncesInOrder
<1> QED
  BY <1>1, PingSafety, PTL

\* What the off-chain worker of a block sends is about the newest cluster registered
\* in that block, and about no other.
THEOREM OwnBlockTheorem == PingSpec => []ReportsOwnBlock
<1>1. PingInv => ReportsOwnBlock
  <2> SUFFICES ASSUME PingInv, NEW tx \in pool \cup reports
               PROVE  /\ tx.cluster \in DOMAIN WorkerClusters
                      /\ \A c \in DOMAIN WorkerClusters :
                            c >= tx.cluster =>
                               (WorkerClusters[c].start_block = tx.block <=> c = tx.cluster)
    BY DEF ReportsOwnBlock
  <2> DEFINE key == DerivedKey(tx.block, "ping")
  <2>1. /\ tx.block \in 1 .. MaxBlock /\ key \in DOMAIN offchainIndex
        /\ offchainIndex[key] = tx.cluster /\ tx.cluster \in Nat
    BY PingInvParts, CapacityAssumption DEF FromSealedBlock, SealedPing, Blocks, ClusterId
  <2>2. PingNamesNewest /\ DOMAIN WorkerClusters \subseteq Nat
    BY PingInvParts, CapacityAssumption DEF Inv, TypeOK, ClusterId
  <2>3. /\ tx.cluster \in DOMAIN WorkerClusters
        /\ WorkerClusters[tx.cluster].start_block = tx.block
    BY <2>1, <2>2 DEF PingNamesNewest
  <2>4. ASSUME NEW c \in DOMAIN WorkerClusters, WorkerClusters[c].start_block = tx.block
        PROVE  c <= tx.cluster
    BY <2>1, <2>2, <2>4 DEF PingNamesNewest
  <2> QED
    BY <2>1, <2>2, <2>3, <2>4
<1> QED
  BY <1>1, PingSafety, PTL

\* The types: what is pooled or reported was made by a worker of some node and block,
\* and a nonce is kept for every sealed block.
THEOREM PingTypes == PingSpec => []PingTypeOK
<1>1. PingInv => PingTypeOK
  BY DEF PingInv
<1> QED
  BY <1>1, PingSafety, PTL

\* The off-chain workers change the chain only by calls it offers to everybody: what
\* is proved of the pallet alone holds with its workers, nodes and transaction pool.
THEOREM PingKeepsPallet == PingSpec => Spec
<1>1. PingInit => Init
  BY DEF PingInit
<1>2. ASSUME PingInv, [PingNext]_pingVars PROVE [Next]_vars
  <2>1. ASSUME NEW tx \in pool, Apply(tx) PROVE Next
    <3>1. PICK n \in Nodes, b \in Blocks, c \in ClusterId, s \in BOOLEAN :
             tx = Verification(n, b, c, s, tx.nonce)
      BY <1>2 DEF PingInv, PingTypeOK
    <3>2. tx.cluster \in ClusterId /\ tx.status \in BOOLEAN
      BY <3>1 DEF Verification
    <3> QED
      BY <2>1, <3>2 DEF Apply, Next
  <2>2. ASSUME NEW who \in Verifiers, NEW c \in ClusterId, NEW s \in BOOLEAN, UserVerify(who, c, s)
        PROVE  Next
    BY <2>2 DEF UserVerify, Next
  <2>3. ASSUME NEW who \in Accounts, NEW ip \in Ip, NEW port \in Ports, UserRegister(who, ip, port)
        PROVE  Next
    BY <2>3 DEF UserRegister, Next
  <2>4. CASE Seal
    BY <2>4 DEF Seal, Next
  <2> QED
    BY <1>2, <2>1, <2>2, <2>3, <2>4
       DEF PingNext, OffchainWorker, SubmitVerification, DropStale, Restart, pingVars
<1> QED
  BY <1>1, <1>2, PingSafety, PTL DEF PingSpec, Spec

\* With its workers the pallet still keeps the abstract promise: accounts join once,
\* are reported up or down, and tasks keep owner and worker.
THEOREM PingBoard == PingSpec => ImplementsBoard
  BY PingKeepsPallet, Refinement, PTL
===============================================================================
