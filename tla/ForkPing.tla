-------------------------------- MODULE ForkPing --------------------------------
(***************************************************************************)
(* The health check of ClusterPing when the chain forks.  Every node keeps   *)
(* one off-chain index, written by every block it imports and keyed by the  *)
(* block's number only; a worker runs for a block that was the node's best  *)
(* when imported, reads the index when it gets to it and everything else in *)
(* the state of its own block; and its report is valid wherever the era      *)
(* (MortalEra) and the nonce allow.                                        *)
(*                                                                         *)
(* A block is the sequence of the extrinsics from genesis to itself, one for *)
(* each block: prefixes are ancestors, and the state of a block is a         *)
(* function of the block.                                                  *)
(***************************************************************************)
EXTENDS MortalEra, Sequences, FiniteSets, SequencesExt, Maps

CONSTANTS
    Nodes,      \* nodes with the key and off-chain indexing
    Accounts,   \* accounts that register a worker
    MaxNumber,  \* bound on block numbers
    MaxBlocks   \* bound on blocks, genesis included

ASSUME ForkAssumption == MaxNumber \in Nat /\ MaxBlocks \in Nat

\* The period is short enough for the era to keep every bit of its phase.
ASSUME PhaseAssumption ==
    EraPeriod(Period) > 1 /\ QuantizeFactor(EraPeriod(Period)) = 1

VARIABLES
    blocks,     \* every block authored
    imported,   \* node -> the blocks it has
    best,       \* node -> the head of the chain it follows
    index,      \* node -> its off-chain index: block number -> cluster id
    due,        \* node -> blocks whose off-chain worker has yet to run
    sent        \* every report ever submitted

forkVars == <<blocks, imported, best, index, due, sent>>

Genesis == <<>>
Parent(b) == Front(b)
Ancestor(b, number) == SubSeq(b, 1, number)
OnChain(a, b) == IsPrefix(a, b)

Register(who) == [call |-> "worker_register", who |-> who]
Verify(tx) == [call |-> "verify_connection", tx |-> tx]
Nothing == [call |-> "none"]

\* The calls of a kind on the chain of b, by the numbers of their blocks.
Calls(b, name) == {i \in DOMAIN b : b[i].call = name}

\* The nonce of the workers' account in the state of b.
NonceIn(b) == Cardinality(Calls(b, "verify_connection"))

\* Cluster ids count from 0: a registration gets the number of those before it.
NextClusterId(b) == Cardinality(Calls(b, "worker_register"))

Clusters(b) == 0 .. NextClusterId(b) - 1
AccountOf(b, c) ==
    b[CHOOSE i \in Calls(b, "worker_register") : NextClusterId(Ancestor(b, i - 1)) = c].who

HasWorker(b, who) == \E i \in Calls(b, "worker_register") : b[i].who = who

-------------------------------------------------------------------------------
ForkInit ==
    /\ blocks = {Genesis}
    /\ imported = [n \in Nodes |-> {Genesis}]
    /\ best = [n \in Nodes |-> Genesis]
    /\ index = [n \in Nodes |-> Empty]
    /\ due = [n \in Nodes |-> {}]
    /\ sent = {}

\* Mutant: the nonce not among the signed extensions.
ValidForAnyNonce(p, tx) ==
    LET birth == Birth(EraOf(Len(tx.worker)), Len(p) + 1)
    IN  birth \in HashesIn(Len(p) + 1) /\ Ancestor(p, birth) = tx.birth

\* A block on top of p may contain a report if the era's birth block on this chain
\* is the one that was signed, and the nonce is next.
Valid(p, tx) ==
    LET number == Len(p) + 1
        birth == Birth(EraOf(Len(tx.worker)), number)
    IN  /\ birth \in HashesIn(number)
        /\ Ancestor(p, birth) = tx.birth
        /\ tx.nonce = NonceIn(p)

\* Some validator authors a block, on any block it may know.
Author(p, x) ==
    /\ Len(p) < MaxNumber
    /\ Cardinality(blocks) < MaxBlocks
    /\ \/ x = Nothing
       \/ \E who \in Accounts : x = Register(who) /\ ~HasWorker(p, who)
       \/ \E tx \in sent : x = Verify(tx) /\ Valid(p, tx)
    /\ blocks' = blocks \cup {Append(p, x)}
    /\ UNCHANGED <<imported, best, index, due, sent>>

\* Mutant: the key of the next block.
IndexAhead(entries, b) ==
    IF Last(b).call = "worker_register"
    THEN Insert(entries, Len(b) + 1, NextClusterId(Parent(b)))
    ELSE entries

\* The index entry that a block writes: worker_register puts the new id under the
\* block's number, on whatever fork the block is.
IndexAfter(entries, b) ==
    IF Last(b).call = "worker_register"
    THEN Insert(entries, Len(b), NextClusterId(Parent(b)))
    ELSE entries

\* A node imports a block: its index entry is written, and if it is longer than the
\* best chain it becomes the best block and gets an off-chain worker.
Import(n, b) ==
    /\ b \in blocks \ imported[n]
    /\ Parent(b) \in imported[n]
    /\ imported' = [imported EXCEPT ![n] = @ \cup {b}]
    /\ index' = [index EXCEPT ![n] = IndexAfter(@, b)]
    /\ \/ /\ Len(b) > Len(best[n])
          /\ best' = [best EXCEPT ![n] = b]
          /\ due' = [due EXCEPT ![n] = @ \cup {b}]
       \/ /\ Len(b) <= Len(best[n])
          /\ UNCHANGED <<best, due>>
    /\ UNCHANGED <<blocks, sent>>

\* Mutant: the state of the node's best block instead of the worker's own.
BestState(n, b) == best[n]

\* The state the off-chain worker of block b runs on.
StateOf(n, b) == b

HasPing(entries, state, number) ==
    number \in DOMAIN entries /\ entries[number] \in Clusters(state)

\* The off-chain worker: it reads the index entry of its number, the cluster in its
\* own state, asks the cluster's endpoint and signs for its own nonce and era.  It
\* ends without a report if there is no entry or no such cluster.
OffchainWorker(n, b, up) ==
    LET s == StateOf(n, b)
    IN  /\ b \in due[n]
        /\ due' = [due EXCEPT ![n] = @ \ {b}]
        /\ \/ ~HasPing(index[n], s, Len(b)) /\ UNCHANGED sent
           \/ /\ HasPing(index[n], s, Len(b))
              /\ sent' = sent \cup
                    {[cluster |-> index[n][Len(b)], status |-> up, nonce |-> NonceIn(s),
                      birth |-> Ancestor(b, BirthOf(Len(b))), worker |-> b,
                      about |-> AccountOf(s, index[n][Len(b)])]}
        /\ UNCHANGED <<blocks, imported, best, index>>

ForkNext ==
    \/ \E p \in blocks :
          \E x \in {Nothing} \cup {Register(who) : who \in Accounts} \cup {Verify(tx) : tx \in sent} :
             Author(p, x)
    \/ \E n \in Nodes : \E b \in blocks : Import(n, b)
    \/ \E n \in Nodes : \E b \in due[n], up \in BOOLEAN : OffchainWorker(n, b, up)

ForkSpec == ForkInit /\ [][ForkNext]_forkVars

-------------------------------------------------------------------------------
(* Properties *)

\* The types, and what a node has: chains without holes, the best among the longest,
\* workers only for blocks it has, index entries only at numbers it has seen.
ForkTypeOK ==
    /\ \A n \in Nodes :
          /\ imported[n] \subseteq blocks
          /\ \A b \in imported[n] : b # Genesis => Parent(b) \in imported[n]
          /\ best[n] \in imported[n]
          /\ \A b \in imported[n] : Len(b) <= Len(best[n])
          /\ due[n] \subseteq imported[n]
          /\ \A number \in DOMAIN index[n] :
                \E b \in imported[n] : /\ Len(b) = number
                                       /\ index[n][number] \in Clusters(b)
    /\ \A tx \in sent : tx.status \in BOOLEAN /\ tx.about \in Accounts /\ tx.worker \in blocks

\* The reports that the state of b has seen, each with the state it was applied to.
Applied(b) ==
    {[tx |-> b[i].tx, on |-> Ancestor(b, i - 1)] :
        i \in Calls(b, "verify_connection")}

\* On the chain of the block whose worker made it, a report always meets an existing
\* cluster, and that of the account whose endpoint was asked: although the index
\* the worker read may come from a block of another fork with the same number.
OwnChainReports ==
    \A b \in blocks : \A r \in Applied(b) :
        OnChain(r.tx.worker, r.on) =>
            /\ r.tx.cluster \in Clusters(r.on)
            /\ AccountOf(r.on, r.tx.cluster) = r.tx.about

\* A report reaches another fork only from right beside it: the fork contains the
\* parent of the worker's block.  The era that create_transaction signs for keeps
\* the reports of longer forks out.
OnlyFromNextDoor ==
    \A b \in blocks : \A r \in Applied(b) : OnChain(Parent(r.tx.worker), r.on)

\* No chain takes two reports from workers of one block, and none takes one report
\* twice, although all chains share all that was ever submitted.
OneReportPerChain ==
    \A b \in blocks : \A r1, r2 \in Applied(b) : r1.tx.worker = r2.tx.worker => r1 = r2

\* "Submit updates worker cluster status and information from successful
\* connection": a cluster is set to up on account of a connection to that cluster,
\* whatever forks there are.
UpFromOwnConnection ==
    \A b \in blocks : \A r \in Applied(b) :
        (r.tx.status /\ r.tx.cluster \in Clusters(r.on))
        => AccountOf(r.on, r.tx.cluster) = r.tx.about
===============================================================================
