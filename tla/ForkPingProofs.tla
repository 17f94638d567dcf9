----------------------------- MODULE ForkPingProofs -----------------------------
(***************************************************************************)
(* How far a report of the health check travels between forks and what it    *)
(* meets there, for any number of nodes, accounts and blocks and any shape   *)
(* of the block tree; and, first, what the era of the report means to the    *)
(* blocks that may apply it, for every BlockHashCount with PeriodAssumption. *)
(***************************************************************************)
EXTENDS ForkPing, SequenceTheorems, FiniteSetTheorems, TLAPS

-------------------------------------------------------------------------------
(* Eras *)


\* Division and remainder, as the steps below use them.
LEMMA Division ==
    ASSUME NEW a \in Nat, NEW p \in Nat \ {0}
    PROVE  /\ a \div p \in Nat /\ a % p \in Nat
           /\ a = (a \div p) * p + (a % p)
           /\ a % p < p
  OBVIOUS

\* Multiples of p at most x and more than x - p: there is only one.
LEMMA OneMultiple ==
    ASSUME NEW p \in Nat \ {0}, NEW x \in Int, NEW i \in Int, NEW j \in Int,
           i * p <= x, x < i * p + p, j * p <= x, x < j * p + p
    PROVE  i = j
<1>1. CASE i < j
  <2>1. (i + 1) * p <= j * p
    BY <1>1
  <2> QED BY <2>1
<1>2. CASE j < i
  <2>1. (j + 1) * p <= i * p
    BY <1>2
  <2> QED BY <2>1
<1> QED BY <1>1, <1>2

\* An era as Era::mortal makes it.
IsEra(era) ==
    /\ era.period \in Nat \ {0}
    /\ era.phase \in Nat /\ era.phase < era.period

LEMMA QuantizedPhase ==
    ASSUME NEW c \in Nat, NEW p \in Nat \ {0}
    PROVE  LET f == QuantizeFactor(p)
               phase == ((c % p) \div f) * f
           IN  phase \in Nat /\ phase < p /\ phase <= c
<1> DEFINE f == QuantizeFactor(p)
<1> DEFINE r == c % p
<1>1. r \in Nat /\ r < p /\ r <= c
  <2>1. c \div p \in Nat /\ r \in Nat /\ c = (c \div p) * p + r /\ r < p
    BY Division
  <2>2. (c \div p) * p \in Nat
    BY <2>1
  <2> QED BY <2>1, <2>2
<1>2. f \in Nat \ {0}
  BY DEF QuantizeFactor
<1> HIDE DEF f, r
<1>3. r \div f \in Nat /\ r % f \in Nat /\ r = (r \div f) * f + (r % f)
  BY <1>1, <1>2, Division
<1>4. (r \div f) * f \in Nat
  BY <1>2, <1>3
<1>5. (r \div f) * f <= r
  BY <1>1, <1>3, <1>4
<1> QED BY <1>1, <1>4, <1>5 DEF f, r

LEMMA MortalIsEra ==
    ASSUME NEW n \in Nat \ {0}
    PROVE  /\ IsEra(EraOf(n)) /\ EraOf(n).phase <= n
           /\ EraOf(n).period = EraPeriod(Period)
<1> DEFINE p == EraPeriod(Period)
<1>1. p \in Nat \ {0}
  BY PeriodAssumption, HashCountAssumption
<1>2. CurrentBlock(n) \in Nat /\ CurrentBlock(n) <= n
  BY DEF CurrentBlock
<1> DEFINE phase == ((CurrentBlock(n) % p) \div QuantizeFactor(p)) * QuantizeFactor(p)
<1>3. EraOf(n) = [period |-> p, phase |-> phase]
  BY DEF EraOf, Mortal
<1> HIDE DEF p
<1>4. phase \in Nat /\ phase < p /\ phase <= CurrentBlock(n)
  BY <1>1, <1>2, QuantizedPhase
<1> HIDE DEF phase
<1>5. EraOf(n).period = p /\ EraOf(n).phase = phase
  BY <1>3
<1> QED BY <1>1, <1>2, <1>4, <1>5 DEF IsEra, p

\* Birth is the last block at or before v that is in phase.
LEMMA BirthIsLast ==
    ASSUME NEW era, IsEra(era), NEW v \in Nat, era.phase <= v
    PROVE  \E k \in Nat : /\ Birth(era, v) = k * era.period + era.phase
                          /\ Birth(era, v) <= v /\ v < Birth(era, v) + era.period
<1> DEFINE a == v - era.phase
<1> DEFINE k == a \div era.period
<1>1. a \in Nat /\ era.period \in Nat \ {0} /\ era.phase \in Nat
  BY DEF IsEra
<1>2. k \in Nat /\ a % era.period \in Nat /\ a = k * era.period + (a % era.period)
      /\ a % era.period < era.period
  BY <1>1, Division, ZenonT(40)
<1>3. Birth(era, v) = k * era.period + era.phase
  BY <1>1 DEF Birth
<1> HIDE DEF k
<1>4. k * era.period \in Nat
  BY <1>1, <1>2
<1>5. Birth(era, v) <= v /\ v < Birth(era, v) + era.period
  BY <1>1, <1>2, <1>3, <1>4
<1> QED BY <1>2, <1>3, <1>5

LEMMA WorkersBirth ==
    ASSUME NEW n \in Nat \ {0}
    PROVE  /\ EraOf(n).period \in Nat \ {0} /\ BirthOf(n) \in Nat
           /\ BirthOf(n) <= n /\ n < BirthOf(n) + EraOf(n).period
<1>1. IsEra(EraOf(n)) /\ EraOf(n).phase <= n
  BY MortalIsEra
<1>2. PICK k \in Nat : /\ Birth(EraOf(n), n) = k * EraOf(n).period + EraOf(n).phase
                       /\ Birth(EraOf(n), n) <= n
                       /\ n < Birth(EraOf(n), n) + EraOf(n).period
  BY <1>1, BirthIsLast
<1>3. k * EraOf(n).period + EraOf(n).phase \in Nat
  BY <1>1 DEF IsEra
<1> QED BY <1>1, <1>2, <1>3 DEF BirthOf, IsEra

\* create_transaction and CheckEra agree on the block whose hash is signed exactly
\* until the era's death: no later block takes the era for one of another birth
\* block before, and none for this one afterwards.
THEOREM BirthRecovered ==
    ASSUME NEW n \in Nat \ {0}, NEW v \in Nat, n <= v
    PROVE  Birth(EraOf(n), v) = BirthOf(n) <=> v < DeathOf(n)
<1> DEFINE era == EraOf(n)
<1>1. IsEra(era) /\ era.phase <= n /\ era.phase <= v
  BY MortalIsEra DEF IsEra
<1>2. PICK i \in Nat : /\ Birth(era, n) = i * era.period + era.phase
                       /\ Birth(era, n) <= n /\ n < Birth(era, n) + era.period
  BY <1>1, BirthIsLast
<1>3. PICK j \in Nat : /\ Birth(era, v) = j * era.period + era.phase
                       /\ Birth(era, v) <= v /\ v < Birth(era, v) + era.period
  BY <1>1, BirthIsLast
<1>4. DeathOf(n) = Birth(era, n) + era.period /\ BirthOf(n) = Birth(era, n)
  BY DEF DeathOf, Death, BirthOf
<1>5. era.period \in Nat \ {0} /\ era.phase \in Nat
  BY <1>1 DEF IsEra
<1> HIDE DEF era
<1>6. i * era.period \in Nat /\ j * era.period \in Nat
  BY <1>5
<1>7. ASSUME v < DeathOf(n)
      PROVE  Birth(era, v) = BirthOf(n)
  <2> DEFINE x == v - era.phase
  <2>1. x \in Int /\ i * era.period <= x /\ x < i * era.period + era.period
    BY <1>2, <1>4, <1>5, <1>6, <1>7
  <2>2. j * era.period <= x /\ x < j * era.period + era.period
    BY <1>3, <1>5, <1>6
  <2> HIDE DEF x
  <2>3. i = j
    BY <1>5, <2>1, <2>2, OneMultiple
  <2> QED BY <1>2, <1>3, <1>4, <2>3
<1>8. ASSUME Birth(era, v) = BirthOf(n)
      PROVE  v < DeathOf(n)
  BY <1>3, <1>4, <1>8
<1> QED BY <1>7, <1>8 DEF era

\* What the worker of block n signs is accepted by the later blocks of its chain
\* up to the era's death, and by none after: in particular the runtime never has
\* lost the hash of the birth block (AncientBirthBlock) while the era lasts.
THEOREM AcceptedUntilDeath ==
    ASSUME NEW n \in Nat \ {0}, NEW v \in Nat, n < v
    PROVE  EraAccepts(n, v) <=> v < DeathOf(n)
<1>1. BirthOf(n) \in Nat /\ BirthOf(n) < v
  BY WorkersBirth
<1>2. Birth(EraOf(n), v) = BirthOf(n) <=> v < DeathOf(n)
  BY BirthRecovered
<1>3. EraOf(n).period \in 1 .. BlockHashCount + 2
  BY MortalIsEra, PeriodAssumption
<1>4. DeathOf(n) = BirthOf(n) + EraOf(n).period
  BY DEF DeathOf, Death, BirthOf
<1>5. v < DeathOf(n) => BirthOf(n) \in HashesIn(v)
  BY <1>1, <1>3, <1>4, HashCountAssumption DEF HashesIn
<1> QED BY <1>2, <1>5 DEF EraAccepts

\* With a period that the encoding need not round (the runtime's 2048), the worker
\* of block n signs the hash of its block's parent, not of its block: the
\* subtraction in create_transaction undoes an increment that an off-chain worker
\* does not see.
THEOREM BirthIsParent ==
    ASSUME NEW n \in Nat \ {0},
           EraPeriod(Period) > 1, QuantizeFactor(EraPeriod(Period)) = 1
    PROVE  BirthOf(n) = n - 1
<1> DEFINE p == EraPeriod(Period)
<1> DEFINE r == (n - 1) % p
<1>1. p \in Nat \ {0} /\ 1 < p
  BY PeriodAssumption, HashCountAssumption
<1> HIDE DEF p
<1>2. r \in Nat /\ (n - 1) \div p \in Nat /\ n - 1 = ((n - 1) \div p) * p + r
  BY <1>1, Division
<1> HIDE DEF r
<1>3. (r \div 1) * 1 = r
  BY <1>2
<1>4. EraOf(n) = [period |-> p, phase |-> r]
  <2>1. EraOf(n) = [period |-> p, phase |-> (r \div 1) * 1]
    BY DEF EraOf, Mortal, CurrentBlock, p, r
  <2> QED BY <1>3, <2>1
<1>5. EraOf(n).period = p /\ EraOf(n).phase = r /\ IsEra(EraOf(n)) /\ r <= n
  BY <1>4, MortalIsEra
<1>6. PICK k \in Nat : BirthOf(n) = k * p + r /\ BirthOf(n) <= n /\ n < BirthOf(n) + p
  BY <1>5, BirthIsLast DEF BirthOf
<1>7. k * p \in Nat /\ ((n - 1) \div p) * p \in Nat
  BY <1>1, <1>2
<1>8. k = (n - 1) \div p
  <2> DEFINE x == n - r
  <2> DEFINE i == (n - 1) \div p
  <2>1. x \in Int /\ i * p <= x /\ x < i * p + p
    BY <1>1, <1>2, <1>7
  <2>2. k * p <= x /\ x < k * p + p
    BY <1>1, <1>2, <1>6, <1>7
  <2>3. i \in Int
    BY <1>2
  <2> HIDE DEF x, i
  <2>4. k = i
    BY <1>1, <2>1, <2>2, <2>3, OneMultiple
  <2> QED BY <2>4 DEF i
<1> QED BY <1>2, <1>6, <1>8

-------------------------------------------------------------------------------
(* Chains *)

IsSequence(b) == \E S : b \in Seq(S)

\* What is on a chain with prefix p is there whatever comes on top of p.
LEMMA Extension ==
    ASSUME NEW p, IsSequence(p), NEW x
    PROVE  LET b == Append(p, x)
           IN  /\ IsSequence(b) /\ Len(p) \in Nat /\ Len(b) = Len(p) + 1
               /\ DOMAIN b = 1 .. Len(p) + 1 /\ DOMAIN p = 1 .. Len(p)
               /\ b[Len(p) + 1] = x
               /\ \A i \in 1 .. Len(p) : b[i] = p[i]
               /\ \A k \in 0 .. Len(p) : Ancestor(b, k) = Ancestor(p, k)
               /\ Ancestor(p, Len(p)) = p
<1>1. PICK S : p \in Seq(S)
  BY DEF IsSequence
<1> DEFINE T == S \cup {x}
<1> DEFINE b == Append(p, x)
<1>2. p \in Seq(T) /\ x \in T
  BY <1>1
<1> HIDE DEF T
<1>3. /\ b \in Seq(T) /\ Len(p) \in Nat /\ Len(b) = Len(p) + 1
      /\ DOMAIN p = 1 .. Len(p) /\ DOMAIN b = 1 .. Len(p) + 1
      /\ b[Len(p) + 1] = x
      /\ \A i \in 1 .. Len(p) : b[i] = p[i]
  BY <1>2
<1>4. ASSUME NEW k \in 0 .. Len(p) PROVE SubSeq(b, 1, k) = SubSeq(p, 1, k)
  <2>1. /\ SubSeq(b, 1, k) = [i \in 1 .. k |-> b[i]]
        /\ SubSeq(p, 1, k) = [i \in 1 .. k |-> p[i]]
    BY <1>2, <1>3
  <2> QED
    BY <1>3, <2>1
<1>5. SubSeq(p, 1, Len(p)) = p
  BY <1>2, <1>3
<1> QED
  BY <1>3, <1>4, <1>5 DEF IsSequence, Ancestor

\* A report that a block on top of p may contain was made for a block whose parent
\* is on the chain of p.
LEMMA ValidIsNextDoor ==
    ASSUME NEW p, IsSequence(p), NEW tx, Valid(p, tx),
           IsSequence(tx.worker), tx.worker # <<>>,
           tx.birth = Ancestor(tx.worker, BirthOf(Len(tx.worker)))
    PROVE  OnChain(Parent(tx.worker), p)
<1> DEFINE w == tx.worker
           number == Len(p) + 1
           birth == Birth(EraOf(Len(w)), number)
<1>1. PICK S : p \in Seq(S)
  BY DEF IsSequence
<1>2. PICK T : w \in Seq(T)
  BY DEF IsSequence
<1>3. Len(p) \in Nat /\ Len(w) \in Nat \ {0}
  BY <1>1, <1>2
<1>4. BirthOf(Len(w)) = Len(w) - 1
  BY <1>3, PhaseAssumption, BirthIsParent
<1>5. tx.birth = SubSeq(w, 1, Len(w) - 1) /\ Len(SubSeq(w, 1, Len(w) - 1)) = Len(w) - 1
  BY <1>2, <1>3, <1>4 DEF Ancestor
<1>6. birth \in HashesIn(number) /\ SubSeq(p, 1, birth) = tx.birth
  BY ZenonT(40) DEF Valid, Ancestor
<1>7. birth \in 0 .. Len(p)
  <2>1. birth = 0 \/ (birth \in Int /\ birth < number)
    BY <1>6 DEF HashesIn
  <2>2. IsEra(EraOf(Len(w)))
    BY <1>3, MortalIsEra
  <2>3. birth >= 0
    <3> DEFINE era == EraOf(Len(w))
               v == IF number > era.phase THEN number ELSE era.phase
    <3>1. era.phase \in Nat /\ era.period \in Nat \ {0} /\ v - era.phase \in Nat
      BY <1>3, <2>2 DEF IsEra
    <3>2. (v - era.phase) \div era.period \in Nat
      BY <3>1, Division
    <3>3. birth = ((v - era.phase) \div era.period) * era.period + era.phase
      BY DEF Birth
    <3> HIDE DEF v, era, birth
    <3> QED
      BY <3>1, <3>2, <3>3
  <2> QED
    BY <1>3, <2>1, <2>3
<1> HIDE DEF birth
<1>8. Len(SubSeq(p, 1, birth)) = birth
  BY <1>1, <1>7
<1>9. birth = Len(w) - 1 /\ SubSeq(p, 1, birth) = SubSeq(w, 1, Len(w) - 1)
  BY <1>5, <1>6, <1>8, ZenonT(40)
<1> DEFINE parent == SubSeq(w, 1, Len(w) - 1)
<1>10. parent \in Seq(T) /\ Len(parent) = birth
  BY <1>2, <1>3, <1>5, <1>9
<1>11. SubSeq(parent, 1, Len(parent)) = parent
  BY <1>10
<1>12. Len(parent) <= Len(p) /\ SubSeq(parent, 1, Len(parent)) = SubSeq(p, 1, Len(parent))
  BY <1>7, <1>9, <1>10, <1>11
<1> QED
  BY <1>12 DEF OnChain, IsPrefix, Parent, Front

-------------------------------------------------------------------------------
(* Counting the calls on a chain *)

\* The calls of an ancestor are the descendant's up to there, finitely many.
LEMMA CallsOfAncestor ==
    ASSUME NEW b, IsSequence(b), NEW name, NEW k \in 0 .. Len(b)
    PROVE  /\ Calls(Ancestor(b, k), name) = {i \in Calls(b, name) : i <= k}
           /\ IsFiniteSet(Calls(Ancestor(b, k), name))
           /\ Cardinality(Calls(Ancestor(b, k), name)) \in Nat
<1> DEFINE a == SubSeq(b, 1, k)
<1>1. PICK S : b \in Seq(S)
  BY DEF IsSequence
<1>2. Len(b) \in Nat /\ DOMAIN b = 1 .. Len(b)
  BY <1>1
<1>3. a = [i \in 1 .. k |-> b[i]]
  BY <1>1, <1>2
<1>4. DOMAIN a = 1 .. k /\ \A i \in 1 .. k : a[i] = b[i]
  BY <1>3
<1> HIDE DEF a
<1>5. Calls(a, name) = {i \in Calls(b, name) : i <= k}
  BY <1>2, <1>4 DEF Calls
<1>6. Calls(a, name) \subseteq 1 .. k
  BY <1>4 DEF Calls
<1>7. IsFiniteSet(Calls(a, name))
  <2>0. 1 \in Int /\ k \in Int
    BY <1>2
  <2>1. IsFiniteSet(1 .. k)
    BY <2>0, FS_Interval, ZenonT(40)
  <2> QED
    BY <1>6, <2>1, FS_Subset, ZenonT(40)
<1>8. Cardinality(Calls(a, name)) \in Nat
  BY <1>7, FS_CardinalityType
<1> QED
  BY <1>5, <1>7, <1>8 DEF Ancestor, a

\* Counts never go down along a chain, and go up with every call that is counted.
LEMMA CallsGrow ==
    ASSUME NEW b, IsSequence(b), NEW name, NEW m \in 0 .. Len(b)
    PROVE  /\ \A k \in 0 .. m : Cardinality(Calls(Ancestor(b, k), name))
                                <= Cardinality(Calls(Ancestor(b, m), name))
           /\ \A i \in Calls(b, name) : i <= m =>
                 Cardinality(Calls(Ancestor(b, i - 1), name))
                 < Cardinality(Calls(Ancestor(b, m), name))
<1> DEFINE C(k) == Calls(Ancestor(b, k), name)
<1>1. Len(b) \in Nat /\ DOMAIN b = 1 .. Len(b)
  BY DEF IsSequence
<1>2. \A k \in 0 .. Len(b) : /\ C(k) = {i \in Calls(b, name) : i <= k}
                             /\ IsFiniteSet(C(k)) /\ Cardinality(C(k)) \in Nat
  BY CallsOfAncestor
<1> HIDE DEF C
<1>3. ASSUME NEW k \in 0 .. m PROVE Cardinality(C(k)) <= Cardinality(C(m))
  <2>1. k \in 0 .. Len(b)
    BY <1>1
  <2>2. C(k) \subseteq C(m)
    BY <1>1, <1>2, <2>1 DEF Calls
  <2> QED
    BY <1>2, <2>2, FS_Subset
<1>4. ASSUME NEW i \in Calls(b, name), i <= m PROVE Cardinality(C(i - 1)) < Cardinality(C(m))
  <2>1. i \in 1 .. Len(b) /\ i - 1 \in 0 .. Len(b) /\ i \in 0 .. m
    BY <1>1, <1>4 DEF Calls
  <2>2. i \notin C(i - 1)
    BY <1>2, <2>1
  <2>3. C(i) = C(i - 1) \cup {i}
    <3>1. i \in 0 .. Len(b) /\ \A k \in Calls(b, name) : k \in Nat
      BY <1>1, <2>1 DEF Calls
    <3>2. /\ C(i) = {k \in Calls(b, name) : k <= i}
          /\ C(i - 1) = {k \in Calls(b, name) : k <= i - 1}
      BY <1>2, <2>1, <3>1, ZenonT(40)
    <3>3. \A k \in Calls(b, name) : k <= i <=> k <= i - 1 \/ k = i
      BY <3>1
    <3> QED
      BY <3>2, <3>3
  <2>4. Cardinality(C(i)) = Cardinality(C(i - 1)) + 1
    <3>1. IsFiniteSet(C(i - 1))
      BY <1>2, <2>1
    <3>2. Cardinality(C(i - 1) \cup {i}) = Cardinality(C(i - 1)) + 1
      BY <2>2, <3>1, FS_AddElement, ZenonT(40)
    <3> QED
      BY <2>3, <3>2
  <2>5. Cardinality(C(i)) <= Cardinality(C(m))
    BY <1>3, <2>1
  <2> QED
    BY <1>1, <1>2, <2>1, <2>4, <2>5
<1> QED
  BY <1>3, <1>4 DEF C

\* So a call is known by the number of those before it.
LEMMA CallByCount ==
    ASSUME NEW b, IsSequence(b), NEW name, NEW i \in Calls(b, name), NEW j \in Calls(b, name),
           Cardinality(Calls(Ancestor(b, i - 1), name))
           = Cardinality(Calls(Ancestor(b, j - 1), name))
    PROVE  i = j
<1> DEFINE C(k) == Cardinality(Calls(Ancestor(b, k), name))
<1>1. Len(b) \in Nat /\ i \in 1 .. Len(b) /\ j \in 1 .. Len(b)
  BY DEF IsSequence, Calls
<1>2. i - 1 \in 0 .. Len(b) /\ j - 1 \in 0 .. Len(b)
  BY <1>1
<1>3. C(i - 1) \in Nat /\ C(j - 1) \in Nat
  BY <1>2, CallsOfAncestor
<1>4. i <= j - 1 => C(i - 1) < C(j - 1)
  BY <1>2, CallsGrow
<1>5. j <= i - 1 => C(j - 1) < C(i - 1)
  BY <1>2, CallsGrow
<1> HIDE DEF C
<1>6. C(i - 1) = C(j - 1)
  BY DEF C
<1> QED
  BY <1>1, <1>3, <1>4, <1>5, <1>6

\* An ancestor with its own ancestors, seen from the descendant.
LEMMA AncestorOf ==
    ASSUME NEW w, NEW b, IsSequence(w), IsSequence(b), OnChain(w, b)
    PROVE  /\ Len(w) \in 0 .. Len(b) /\ w = Ancestor(b, Len(w))
           /\ \A k \in 0 .. Len(w) : Ancestor(w, k) = Ancestor(b, k)
           /\ \A i \in 1 .. Len(w) : w[i] = b[i]
<1>1. PICK S : w \in Seq(S)
  BY DEF IsSequence
<1>2. PICK T : b \in Seq(T)
  BY DEF IsSequence
<1>3. Len(w) \in Nat /\ Len(b) \in Nat /\ Len(w) <= Len(b)
  BY <1>1, <1>2 DEF OnChain, IsPrefix
<1>4. SubSeq(w, 1, Len(w)) = SubSeq(b, 1, Len(w)) /\ SubSeq(w, 1, Len(w)) = w
  BY <1>1 DEF OnChain, IsPrefix
<1>5. SubSeq(b, 1, Len(w)) = [i \in 1 .. Len(w) |-> b[i]]
  BY <1>2, <1>3
<1>6. \A i \in 1 .. Len(w) : w[i] = b[i]
  BY <1>4, <1>5
<1>7. ASSUME NEW k \in 0 .. Len(w) PROVE SubSeq(w, 1, k) = SubSeq(b, 1, k)
  <2>1. /\ SubSeq(b, 1, k) = [i \in 1 .. k |-> b[i]]
        /\ SubSeq(w, 1, k) = [i \in 1 .. k |-> w[i]]
    BY <1>1, <1>2, <1>3
  <2> QED
    BY <1>3, <1>6, <2>1
<1> QED
  BY <1>3, <1>4, <1>6, <1>7 DEF Ancestor

\* A cluster keeps its account wherever the chain goes on.
LEMMA SameAccount ==
    ASSUME NEW w, NEW b, IsSequence(w), IsSequence(b), OnChain(w, b), NEW c \in Clusters(w),
           \E i \in Calls(w, "worker_register") : NextClusterId(Ancestor(w, i - 1)) = c
    PROVE  c \in Clusters(b) /\ AccountOf(b, c) = AccountOf(w, c)
<1> DEFINE reg == "worker_register"
           C(a) == NextClusterId(a)
           i == CHOOSE k \in Calls(w, reg) : C(Ancestor(w, k - 1)) = c
           j == CHOOSE k \in Calls(b, reg) : C(Ancestor(b, k - 1)) = c
<1>1. /\ Len(w) \in 0 .. Len(b) /\ w = Ancestor(b, Len(w)) /\ Len(b) \in Nat
      /\ DOMAIN w = 1 .. Len(w) /\ DOMAIN b = 1 .. Len(b)
      /\ \A k \in 0 .. Len(w) : Ancestor(w, k) = Ancestor(b, k)
      /\ \A k \in 1 .. Len(w) : w[k] = b[k]
      /\ b = Ancestor(b, Len(b))
  BY AncestorOf DEF IsSequence, Ancestor
<1>2. i \in Calls(w, reg) /\ C(Ancestor(w, i - 1)) = c
  OBVIOUS
<1> HIDE DEF i
<1>3. i \in 1 .. Len(w) /\ i \in Calls(b, reg) /\ w[i] = b[i]
  BY <1>1, <1>2 DEF Calls
<1>4. C(Ancestor(b, i - 1)) = c
  <2>1. i - 1 \in 0 .. Len(w)
    BY <1>1, <1>3
  <2> QED
    BY <1>1, <1>2, <2>1
<1>5. j \in Calls(b, reg) /\ C(Ancestor(b, j - 1)) = c
  BY <1>3, <1>4
<1> HIDE DEF j
<1>6. i = j
  BY <1>3, <1>4, <1>5, CallByCount DEF NextClusterId
<1>7. AccountOf(b, c) = AccountOf(w, c)
  BY <1>3, <1>6, ZenonT(40) DEF AccountOf, i, j
<1>8. C(w) \in Nat /\ C(b) \in Nat /\ C(w) <= C(b)
  <2>1. Len(b) \in 0 .. Len(b) /\ Len(w) \in 0 .. Len(b)
    BY <1>1
  <2>2. C(Ancestor(b, Len(w))) <= C(Ancestor(b, Len(b)))
    BY <2>1, CallsGrow DEF NextClusterId
  <2>3. C(Ancestor(b, Len(w))) \in Nat /\ C(Ancestor(b, Len(b))) \in Nat
    BY <2>1, CallsOfAncestor DEF NextClusterId
  <2> QED
    BY <1>1, <2>2, <2>3
<1>9. c \in Clusters(b)
  BY <1>8 DEF Clusters
<1> QED
  BY <1>7, <1>9

\* A block adds its own call to those of its parent.
LEMMA ExtensionCalls ==
    ASSUME NEW p, IsSequence(p), NEW x, NEW name
    PROVE  LET b == Append(p, x)
           IN  /\ Cardinality(Calls(p, name)) \in Nat
               /\ x.call = name =>
                     /\ Calls(b, name) = Calls(p, name) \cup {Len(p) + 1}
                     /\ Cardinality(Calls(b, name)) = Cardinality(Calls(p, name)) + 1
               /\ x.call # name => Calls(b, name) = Calls(p, name)
<1> DEFINE b == Append(p, x)
<1>1. /\ Len(p) \in Nat /\ DOMAIN b = 1 .. Len(p) + 1 /\ DOMAIN p = 1 .. Len(p)
      /\ b[Len(p) + 1] = x /\ \A i \in 1 .. Len(p) : b[i] = p[i]
      /\ Ancestor(p, Len(p)) = p
  BY Extension
<1> HIDE DEF b
<1>2. 1 .. Len(p) + 1 = (1 .. Len(p)) \cup {Len(p) + 1}
  BY <1>1
<1>3. IsFiniteSet(Calls(p, name)) /\ Cardinality(Calls(p, name)) \in Nat
  <2>1. Len(p) \in 0 .. Len(p)
    BY <1>1
  <2>2. /\ IsFiniteSet(Calls(Ancestor(p, Len(p)), name))
        /\ Cardinality(Calls(Ancestor(p, Len(p)), name)) \in Nat
    BY <2>1, CallsOfAncestor
  <2> QED
    BY <1>1, <2>2
<1>4. ASSUME x.call = name
      PROVE  /\ Calls(b, name) = Calls(p, name) \cup {Len(p) + 1}
             /\ Cardinality(Calls(b, name)) = Cardinality(Calls(p, name)) + 1
  <2>1. Calls(b, name) = Calls(p, name) \cup {Len(p) + 1}
    BY <1>1, <1>2, <1>4 DEF Calls
  <2>2. Len(p) + 1 \notin Calls(p, name)
    BY <1>1 DEF Calls
  <2> QED
    BY <1>3, <2>1, <2>2, FS_AddElement, ZenonT(40)
<1>5. ASSUME x.call # name PROVE Calls(b, name) = Calls(p, name)
  BY <1>1, <1>2, <1>5 DEF Calls
<1> QED
  BY <1>3, <1>4, <1>5 DEF b

-------------------------------------------------------------------------------
(* The inductive invariant.  The properties speak of the reports on a chain; that *)
(* one which is valid on p comes from next door, meets its own cluster and is      *)
(* the only one of its worker's block depends on what its worker signed, and on   *)
(* ids and nonces being counts of the calls before.  Workers only run for blocks  *)
(* other than genesis, which has no parent.                                       *)

\* Every id of a chain was given to an account by a registration on it.
ChainOK(b) ==
    /\ IsSequence(b)
    /\ \A i \in Calls(b, "worker_register") : b[i].who \in Accounts
    /\ \A c \in Clusters(b) :
          \E i \in Calls(b, "worker_register") : NextClusterId(Ancestor(b, i - 1)) = c

\* Every report on a chain was submitted, and had the nonce and the era of its place.
ReportsOK(b) ==
    \A i \in Calls(b, "verify_connection") :
        /\ b[i].tx \in sent
        /\ b[i].tx.nonce = NonceIn(Ancestor(b, i - 1))
        /\ OnChain(Parent(b[i].tx.worker), Ancestor(b, i - 1))

\* What a worker signs is all from the state of its own block.
SentOK(tx) ==
    /\ tx.worker \in blocks /\ tx.worker # Genesis
    /\ tx.birth = Ancestor(tx.worker, BirthOf(Len(tx.worker)))
    /\ tx.nonce = NonceIn(tx.worker)
    /\ tx.cluster \in Clusters(tx.worker)
    /\ tx.about = AccountOf(tx.worker, tx.cluster)

ForkInv ==
    /\ \A b \in blocks : ChainOK(b) /\ ReportsOK(b)
    /\ imported \in [Nodes -> SUBSET blocks] /\ due \in [Nodes -> SUBSET blocks]
    /\ DOMAIN best = Nodes /\ DOMAIN index = Nodes
    /\ \A n \in Nodes : Genesis \in imported[n] /\ Genesis \notin due[n]
    /\ \A tx \in sent : SentOK(tx)
    /\ ForkTypeOK

\* Only genesis, and nothing sent.
LEMMA ForkInitInv == ForkInit => ForkInv
<1> SUFFICES ASSUME ForkInit PROVE ForkInv
  OBVIOUS
<1>1. /\ IsSequence(<<>>) /\ Len(<<>>) = 0 /\ \A name : Calls(<<>>, name) = {}
  <2>1. <<>> \in Seq({})
    OBVIOUS
  <2> QED
    BY <2>1 DEF IsSequence, Calls
<1>2. Clusters(<<>>) = {}
  BY <1>1, FS_EmptySet DEF Clusters, NextClusterId
<1>3. ChainOK(<<>>) /\ ReportsOK(<<>>)
  BY <1>1, <1>2 DEF ChainOK, ReportsOK
<1>4. ForkTypeOK
  BY <1>1 DEF ForkInit, ForkTypeOK, Genesis, Empty
<1> QED
  BY <1>3, <1>4 DEF ForkInit, ForkInv, Genesis

\* A new block keeps the reports and the ids of its parent where they were, and adds at
\* most one: a report was valid there, a registration gets the next id.
LEMMA AuthorInv ==
    ASSUME ForkInv, NEW p \in blocks, NEW x, Author(p, x)
    PROVE  ForkInv'
<1> DEFINE b == Append(p, x)
<1>1. /\ blocks' = blocks \cup {b} /\ imported' = imported /\ best' = best
      /\ index' = index /\ due' = due /\ sent' = sent
  BY DEF Author
<1>2. /\ IsSequence(p) /\ IsSequence(b) /\ Len(p) \in Nat
      /\ DOMAIN b = 1 .. Len(p) + 1 /\ DOMAIN p = 1 .. Len(p)
      /\ b[Len(p) + 1] = x
      /\ \A i \in 1 .. Len(p) : b[i] = p[i]
      /\ \A k \in 0 .. Len(p) : Ancestor(b, k) = Ancestor(p, k)
      /\ Ancestor(p, Len(p)) = p
  BY Extension DEF ForkInv, ChainOK
<1>3. \A name : \A i \in Calls(p, name) :
         i \in 1 .. Len(p) /\ b[i] = p[i] /\ Ancestor(b, i - 1) = Ancestor(p, i - 1)
  BY <1>2 DEF Calls
<1>4. Ancestor(b, (Len(p) + 1) - 1) = p
  BY <1>2
<1>5. /\ x.call = "worker_register" => x.who \in Accounts
      /\ x.call = "verify_connection" => x.tx \in sent /\ Valid(p, x.tx)
  BY DEF Author, Nothing, Register, Verify
<1>6. ChainOK(b)
  <2>1. NextClusterId(p) \in Nat
    BY <1>2, ExtensionCalls, ZenonT(40) DEF NextClusterId
  <2>2. CASE x.call = "worker_register"
    <3>1. /\ Calls(b, "worker_register") = Calls(p, "worker_register") \cup {Len(p) + 1}
          /\ NextClusterId(b) = NextClusterId(p) + 1
      BY <1>2, <2>2, ExtensionCalls, ZenonT(40) DEF NextClusterId
    <3>2. \A i \in Calls(b, "worker_register") : b[i].who \in Accounts
      BY <1>2, <1>3, <1>5, <2>2, <3>1 DEF ForkInv, ChainOK
    <3>3. ASSUME NEW c \in Clusters(b)
          PROVE  \E i \in Calls(b, "worker_register") : NextClusterId(Ancestor(b, i - 1)) = c
      <4>1. CASE c = NextClusterId(p)
        BY <1>4, <3>1, <4>1, ZenonT(40)
      <4>2. CASE c # NextClusterId(p)
        <5>1. c \in Clusters(p)
          BY <2>1, <3>1, <4>2 DEF Clusters
        <5>2. PICK i \in Calls(p, "worker_register") : NextClusterId(Ancestor(p, i - 1)) = c
          BY <5>1 DEF ForkInv, ChainOK
        <5> QED
          BY <1>3, <3>1, <5>2
      <4> QED
        BY <4>1, <4>2
    <3> QED
      BY <1>2, <3>2, <3>3, ZenonT(40) DEF ChainOK
  <2>3. CASE x.call # "worker_register"
    <3>1. Calls(b, "worker_register") = Calls(p, "worker_register") /\ Clusters(b) = Clusters(p)
      BY <1>2, <2>3, ExtensionCalls DEF NextClusterId, Clusters
    <3> QED
      BY <1>2, <1>3, <3>1 DEF ForkInv, ChainOK
  <2> QED
    BY <2>2, <2>3
<1>7. ReportsOK(b)
  <2> SUFFICES ASSUME NEW i \in Calls(b, "verify_connection")
               PROVE  /\ b[i].tx \in sent
                      /\ b[i].tx.nonce = NonceIn(Ancestor(b, i - 1))
                      /\ OnChain(Parent(b[i].tx.worker), Ancestor(b, i - 1))
    BY ZenonT(40) DEF ReportsOK
  <2>1. CASE i \in Calls(p, "verify_connection")
    BY <1>3, <2>1 DEF ForkInv, ReportsOK
  <2>2. CASE i \notin Calls(p, "verify_connection")
    <3>1. x.call = "verify_connection" /\ i = Len(p) + 1
      BY <1>2, <2>2, ExtensionCalls
    <3>2. x.tx \in sent /\ Valid(p, x.tx) /\ b[i].tx = x.tx /\ Ancestor(b, i - 1) = p
      BY <1>2, <1>4, <1>5, <3>1
    <3>3. x.tx.nonce = NonceIn(p)
      BY <3>2 DEF Valid
    <3>4. OnChain(Parent(x.tx.worker), p)
      BY <1>2, <3>2, ValidIsNextDoor DEF ForkInv, SentOK, ChainOK, Genesis
    <3> QED
      BY <3>2, <3>3, <3>4
  <2> QED
    BY <2>1, <2>2, ZenonT(40)
<1> HIDE DEF b
<1>8. \A a \in blocks' : ChainOK(a)' /\ ReportsOK(a)'
  BY <1>1, <1>6, <1>7 DEF ForkInv, ReportsOK
<1>9. \A tx \in sent' : SentOK(tx)'
  BY <1>1 DEF ForkInv, SentOK
<1>10. ForkTypeOK'
  BY <1>1 DEF ForkInv, ForkTypeOK
<1> QED
  BY <1>1, <1>8, <1>9, <1>10 DEF ForkInv

\* A registration's block has the id that it writes to the index.
LEMMA IndexEntry ==
    ASSUME NEW b, IsSequence(b), b # Genesis
    PROVE  /\ Len(b) \in Nat \ {0} /\ Parent(b) = Ancestor(b, Len(b) - 1)
           /\ Last(b).call = "worker_register" => NextClusterId(Parent(b)) \in Clusters(b)
<1>1. PICK S : b \in Seq(S)
  BY DEF IsSequence
<1>2. Len(b) \in Nat \ {0} /\ DOMAIN b = 1 .. Len(b) /\ b = Ancestor(b, Len(b))
  BY <1>1 DEF Genesis, Ancestor
<1>3. Parent(b) = Ancestor(b, Len(b) - 1)
  BY DEF Parent, Front, Ancestor
<1>4. ASSUME Last(b).call = "worker_register"
      PROVE  NextClusterId(Parent(b)) \in Clusters(b)
  <2>1. Len(b) \in Calls(b, "worker_register") /\ Len(b) \in 0 .. Len(b)
    BY <1>2, <1>4 DEF Calls, Last
  <2>2. NextClusterId(Ancestor(b, Len(b) - 1)) < NextClusterId(Ancestor(b, Len(b)))
    BY <1>2, <2>1, CallsGrow DEF NextClusterId
  <2>3. Len(b) - 1 \in 0 .. Len(b)
    BY <1>2
  <2>4. /\ NextClusterId(Ancestor(b, Len(b) - 1)) \in Nat
        /\ NextClusterId(Ancestor(b, Len(b))) \in Nat
    BY <2>1, <2>3, CallsOfAncestor DEF NextClusterId
  <2> QED
    BY <1>2, <1>3, <2>2, <2>4 DEF Clusters
<1> QED
  BY <1>2, <1>3, <1>4

\* An import adds a worker only for a block the node did not have, so not for genesis;
\* the index entry it may overwrite was of a block with the same number.
LEMMA ImportInv ==
    ASSUME ForkInv, NEW n \in Nodes, NEW b \in blocks, Import(n, b)
    PROVE  ForkInv'
<1>1. /\ blocks' = blocks /\ sent' = sent /\ b \notin imported[n] /\ Parent(b) \in imported[n]
      /\ imported' = [imported EXCEPT ![n] = @ \cup {b}]
      /\ index' = [index EXCEPT ![n] = IndexAfter(@, b)]
      /\ \/ /\ Len(b) > Len(best[n])
            /\ best' = [best EXCEPT ![n] = b] /\ due' = [due EXCEPT ![n] = @ \cup {b}]
         \/ /\ Len(b) <= Len(best[n])
            /\ best' = best /\ due' = due
  BY DEF Import
<1>2. b # Genesis /\ \A a \in blocks : IsSequence(a) /\ Len(a) \in Nat
  BY <1>1 DEF ForkInv, ChainOK, IsSequence
<1>3. /\ imported' \in [Nodes -> SUBSET blocks] /\ due' \in [Nodes -> SUBSET blocks]
      /\ DOMAIN best' = Nodes /\ DOMAIN index' = Nodes
      /\ imported'[n] = imported[n] \cup {b} /\ index'[n] = IndexAfter(index[n], b)
      /\ \A m \in Nodes : m # n => /\ imported'[m] = imported[m] /\ best'[m] = best[m]
                                   /\ due'[m] = due[m] /\ index'[m] = index[m]
  BY <1>1 DEF ForkInv
<1>4. \A m \in Nodes : Genesis \in imported'[m] /\ Genesis \notin due'[m]
  BY <1>1, <1>2 DEF ForkInv
<1>5. ASSUME NEW m \in Nodes
      PROVE  /\ imported[m] \subseteq blocks
             /\ \A a \in imported[m] : a # Genesis => Parent(a) \in imported[m]
             /\ best[m] \in imported[m] /\ due[m] \subseteq imported[m]
             /\ \A a \in imported[m] : Len(a) <= Len(best[m])
             /\ \A number \in DOMAIN index[m] :
                   \E a \in imported[m] : Len(a) = number /\ index[m][number] \in Clusters(a)
  BY DEF ForkInv, ForkTypeOK
<1>6. /\ best'[n] \in imported'[n] /\ due'[n] \subseteq imported'[n]
      /\ \A a \in imported'[n] : Len(a) <= Len(best'[n])
  <2>1. CASE Len(b) > Len(best[n])
    <3>1. best'[n] = b /\ due'[n] = due[n] \cup {b}
      BY <1>1, <1>2, <1>5, <2>1 DEF ForkInv
    <3> QED
      BY <1>2, <1>3, <1>5, <2>1, <3>1
  <2>2. CASE ~(Len(b) > Len(best[n]))
    <3>1. best' = best /\ due' = due
      BY <1>1, <2>2
    <3> QED
      BY <1>2, <1>3, <1>5, <2>2, <3>1
  <2> QED
    BY <2>1, <2>2
<1>7. ASSUME NEW number \in DOMAIN index'[n]
      PROVE  \E a \in imported'[n] : Len(a) = number /\ index'[n][number] \in Clusters(a)
  <2>1. CASE number = Len(b) /\ Last(b).call = "worker_register"
    <3>1. index'[n][number] = NextClusterId(Parent(b))
      BY <1>3, <2>1 DEF IndexAfter, Insert
    <3>2. NextClusterId(Parent(b)) \in Clusters(b)
      BY <1>2, <2>1, IndexEntry
    <3> QED
      BY <1>3, <2>1, <3>1, <3>2
  <2>2. CASE ~(number = Len(b) /\ Last(b).call = "worker_register")
    <3>1. number \in DOMAIN index[n] /\ index'[n][number] = index[n][number]
      BY <1>3, <1>7, <2>2 DEF IndexAfter, Insert
    <3> QED
      BY <1>3, <1>5, <3>1
  <2> QED
    BY <2>1, <2>2
<1>8. \A a \in imported'[n] : a # Genesis => Parent(a) \in imported'[n]
  BY <1>1, <1>3, <1>5
<1>9. ForkTypeOK'
  BY <1>1, <1>3, <1>5, <1>6, <1>7, <1>8, SMTT(40) DEF ForkInv, ForkTypeOK
<1>10. /\ \A a \in blocks' : ChainOK(a)' /\ ReportsOK(a)'
       /\ \A tx \in sent' : SentOK(tx)'
  BY <1>1 DEF ForkInv, ReportsOK, SentOK
<1> QED
  BY <1>1, <1>3, <1>4, <1>9, <1>10 DEF ForkInv

\* A worker signs what the state of its own block says, for the era of that block.
LEMMA WorkerInv ==
    ASSUME ForkInv, NEW n \in Nodes, NEW b \in due[n], NEW up \in BOOLEAN,
           OffchainWorker(n, b, up)
    PROVE  ForkInv'
<1>1. /\ blocks' = blocks /\ imported' = imported /\ best' = best /\ index' = index
      /\ due' = [due EXCEPT ![n] = @ \ {b}]
  BY ZenonT(40) DEF OffchainWorker
<1>2. b \in blocks /\ b # Genesis /\ ChainOK(b)
  BY DEF ForkInv
<1>3. /\ sent \subseteq sent'
      /\ \A tx \in sent' \ sent :
            LET c == index[n][Len(b)]
            IN  /\ c \in Clusters(b) /\ tx.cluster = c /\ tx.status = up
                /\ tx.nonce = NonceIn(b) /\ tx.worker = b
                /\ tx.birth = Ancestor(b, BirthOf(Len(b))) /\ tx.about = AccountOf(b, c)
  BY DEF OffchainWorker, HasPing, StateOf
<1>4. \A c \in Clusters(b) : AccountOf(b, c) \in Accounts
  BY <1>2 DEF ChainOK, AccountOf
<1>5. \A tx \in sent' : SentOK(tx)'
  BY <1>1, <1>2, <1>3 DEF ForkInv, SentOK
<1>6. \A tx \in sent' : tx.status \in BOOLEAN /\ tx.about \in Accounts /\ tx.worker \in blocks
  BY <1>2, <1>3, <1>4 DEF ForkInv, ForkTypeOK
<1>7. \A a \in blocks' : ChainOK(a)' /\ ReportsOK(a)'
  BY <1>1, <1>3 DEF ForkInv, ReportsOK
<1>8. /\ due' \in [Nodes -> SUBSET blocks]
      /\ \A m \in Nodes : Genesis \notin due'[m] /\ due'[m] \subseteq due[m]
  BY <1>1 DEF ForkInv
<1>9. ForkTypeOK'
  <2>1. ForkTypeOK
    BY DEF ForkInv
  <2> QED
    BY <1>1, <1>6, <1>8, <2>1, SMTT(40) DEF ForkTypeOK
<1> QED
  BY <1>1, <1>5, <1>7, <1>8, <1>9, SMTT(40) DEF ForkInv

\* Every step keeps the invariant.
LEMMA ForkNextInv == ForkInv /\ [ForkNext]_forkVars => ForkInv'
<1> SUFFICES ASSUME ForkInv, [ForkNext]_forkVars PROVE ForkInv'
  OBVIOUS
<1>1. ASSUME NEW p \in blocks, NEW x, Author(p, x) PROVE ForkInv'
  BY <1>1, AuthorInv
<1>2. ASSUME NEW n \in Nodes, NEW b \in blocks, Import(n, b) PROVE ForkInv'
  BY <1>2, ImportInv
<1>3. ASSUME NEW n \in Nodes, NEW b \in due[n], NEW up \in BOOLEAN, OffchainWorker(n, b, up)
      PROVE  ForkInv'
  BY <1>3, WorkerInv
<1>4. CASE UNCHANGED forkVars
  BY <1>4 DEF forkVars, ForkInv, ForkTypeOK, ReportsOK, SentOK
<1> QED
  BY <1>1, <1>2, <1>3, <1>4 DEF ForkNext

-------------------------------------------------------------------------------
(* Theorems *)

\* However nodes author, import and run workers, the tree, the indexes and the reports
\* stay as ForkInv says.
THEOREM ForkSafety == ForkSpec => []ForkInv
  BY ForkInitInv, ForkNextInv, PTL DEF ForkSpec

\* The types; a node's chains have no holes, its best is among the longest, and every
\* index entry names a cluster of some block it imported with that number.
THEOREM ForkTypes == ForkSpec => []ForkTypeOK
<1>1. ForkInv => ForkTypeOK
  BY DEF ForkInv
<1> QED
  BY <1>1, ForkSafety, PTL

\* "The `System::block_number` is initialized with `n+1`, so the actual block number is
\* `n`": whatever the tree of blocks, a report that create_transaction signed is only
\* ever applied on a chain that contains the parent of its worker's block.
THEOREM NextDoorTheorem == ForkSpec => []OnlyFromNextDoor
<1>1. ForkInv => OnlyFromNextDoor
  BY DEF ForkInv, ReportsOK, OnlyFromNextDoor, Applied
<1> QED
  BY <1>1, ForkSafety, PTL

\* On the chain of its worker's block a report meets the cluster whose endpoint was
\* asked, although the index entry may have come from a block of another fork: the
\* worker looks the cluster up in its own state, and ids are never given twice.
THEOREM OwnChainTheorem == ForkSpec => []OwnChainReports
<1>1. ASSUME ForkInv PROVE OwnChainReports
  <2> SUFFICES ASSUME NEW b \in blocks, NEW i \in Calls(b, "verify_connection"),
                      OnChain(b[i].tx.worker, Ancestor(b, i - 1))
               PROVE  /\ b[i].tx.cluster \in Clusters(Ancestor(b, i - 1))
                      /\ AccountOf(Ancestor(b, i - 1), b[i].tx.cluster) = b[i].tx.about
    BY DEF OwnChainReports, Applied
  <2> DEFINE tx == b[i].tx
             on == Ancestor(b, i - 1)
  <2>1. tx \in sent /\ IsSequence(b)
    BY <1>1 DEF ForkInv, ReportsOK, ChainOK
  <2>2. /\ ChainOK(tx.worker) /\ tx.cluster \in Clusters(tx.worker)
        /\ tx.about = AccountOf(tx.worker, tx.cluster)
    BY <1>1, <2>1 DEF ForkInv, SentOK
  <2>3. IsSequence(on)
    <3>1. PICK S : b \in Seq(S)
      BY <2>1 DEF IsSequence
    <3>2. i \in 1 .. Len(b) /\ Len(b) \in Nat
      BY <3>1 DEF Calls
    <3>3. SubSeq(b, 1, i - 1) \in Seq(S)
      BY <3>1, <3>2
    <3> QED
      BY <3>3 DEF IsSequence, Ancestor
  <2> HIDE DEF tx, on
  <2>4. OnChain(tx.worker, on)
    BY DEF tx, on
  <2>5. \E k \in Calls(tx.worker, "worker_register") :
           NextClusterId(Ancestor(tx.worker, k - 1)) = tx.cluster
    BY <2>2 DEF ChainOK
  <2>6. tx.cluster \in Clusters(on) /\ AccountOf(on, tx.cluster) = AccountOf(tx.worker, tx.cluster)
    BY <2>2, <2>3, <2>4, <2>5, SameAccount DEF ChainOK
  <2> QED
    BY <2>2, <2>6 DEF tx, on
<1> QED
  BY <1>1, ForkSafety, PTL

\* No chain takes two reports from workers of one block: they have the nonce of that
\* block's state, and a chain spends every nonce once.
THEOREM OneReportTheorem == ForkSpec => []OneReportPerChain
<1>1. ASSUME ForkInv PROVE OneReportPerChain
  <2> SUFFICES ASSUME NEW b \in blocks, NEW i \in Calls(b, "verify_connection"),
                      NEW j \in Calls(b, "verify_connection"),
                      b[i].tx.worker = b[j].tx.worker
               PROVE  i = j
    BY DEF OneReportPerChain, Applied
  <2>1. /\ b[i].tx.nonce = NonceIn(b[i].tx.worker) /\ b[i].tx.nonce = NonceIn(Ancestor(b, i - 1))
        /\ b[j].tx.nonce = NonceIn(b[j].tx.worker) /\ b[j].tx.nonce = NonceIn(Ancestor(b, j - 1))
        /\ IsSequence(b)
    BY <1>1 DEF ForkInv, ReportsOK, ChainOK, SentOK
  <2>2. NonceIn(Ancestor(b, i - 1)) = NonceIn(Ancestor(b, j - 1))
    BY <2>1
  <2> QED
    BY <2>1, <2>2, CallByCount DEF NonceIn
<1> QED
  BY <1>1, ForkSafety, PTL
===============================================================================
