--------------------------- MODULE EdgeConnectProofs ---------------------------
(***************************************************************************)
(* Proofs about the edge-connect pallet, for any accounts, texts, bounds of  *)
(* the lists, interval and number of blocks.                               *)
(***************************************************************************)
EXTENDS EdgeConnect, SequenceTheorems, FiniteSetTheorems, TLAPS

\* The cooldown is never more than an interval ahead of the chain.  Without it
\* CooldownMonotone is not inductive: a call sets NextUnsignedAt from the block
\* number alone, whatever it was.
CooldownNear == NextUnsignedAt <= block + UnsignedInterval

EdgeInv == TypeOK /\ EventMatchesList /\ CooldownNear

\* The genesis state.
LEMMA EdgeInitInv == Init => EdgeInv
  BY EdgeAssumption
     DEF Init, EdgeInv, TypeOK, Event, NoEvent, EventMatchesList, CooldownNear

\* add_response appends a response that fits to a list that is not full and announces
\* it, or leaves list and event alone.
LEMMA AddResponseInv ==
    ASSUME TypeOK, EventMatchesList, NEW who \in Users \cup {None}, NEW text \in Texts,
           AddResponse(who, text)
    PROVE  /\ Responses' \in Seq((Users \cup {None}) \X (Texts \ LongTexts))
           /\ Len(Responses') <= MaxResponses
           /\ event' \in Event
           /\ submitted' \in Seq((Users \cup {None}) \X Texts)
           /\ EventMatchesList'
<1> DEFINE Entry == (Users \cup {None}) \X (Texts \ LongTexts)
<1>1. Responses \in Seq(Entry) /\ Len(Responses) <= MaxResponses /\ MaxResponses \in Nat
  BY EdgeAssumption DEF TypeOK
<1>2. submitted' \in Seq((Users \cup {None}) \X Texts)
  BY DEF AddResponse, TypeOK
<1>3. CASE text \notin LongTexts /\ Len(Responses) < MaxResponses
  <2>1. /\ Responses' = Append(Responses, <<who, text>>)
        /\ event' = [type |-> "NewResponse", response |-> text, maybe_who |-> who]
    BY <1>3 DEF AddResponse
  <2>2. <<who, text>> \in Entry
    BY <1>3
  <2>3. event' \in Event
    BY <1>3, <2>1 DEF Event
  <2> HIDE DEF Entry
  <2>4. /\ Responses' \in Seq(Entry) /\ Len(Responses') = Len(Responses) + 1
        /\ Responses'[Len(Responses')] = <<who, text>> /\ Len(Responses) \in Nat
    BY <1>1, <2>1, <2>2
  <2>5. Len(Responses') <= MaxResponses /\ Responses' # <<>>
    BY <1>1, <1>3, <2>4
  <2>6. EventMatchesList'
    BY <2>1, <2>4, <2>5 DEF EventMatchesList
  <2> QED
    BY <1>2, <2>3, <2>4, <2>5, <2>6 DEF Entry
<1>4. CASE ~(text \notin LongTexts /\ Len(Responses) < MaxResponses)
  <2>1. Responses' = Responses /\ event' = event
    BY <1>4 DEF AddResponse
  <2> QED
    BY <1>1, <1>2, <2>1 DEF TypeOK, EventMatchesList
<1> QED
  BY <1>3, <1>4

\* Every call and every new block preserves the invariant.
LEMMA EdgeNextInv == EdgeInv /\ [Next]_edgeVars => EdgeInv'
<1> SUFFICES ASSUME EdgeInv, [Next]_edgeVars PROVE EdgeInv'
  OBVIOUS
<1>1. TypeOK /\ EventMatchesList /\ CooldownNear
  BY DEF EdgeInv
<1>2. ASSUME NEW who \in Users, NEW c \in ConnectionIds, CreateConnection(who, c)
      PROVE  EdgeInv'
  BY <1>1, <1>2 DEF CreateConnection, EdgeInv, TypeOK, Event, EventMatchesList, CooldownNear
<1>3. ASSUME NEW who \in Users, NEW c \in ConnectionIds, RemoveConnection(who, c)
      PROVE  EdgeInv'
  BY <1>1, <1>3 DEF RemoveConnection, EdgeInv, TypeOK, Event, EventMatchesList, CooldownNear
<1>4. ASSUME NEW who \in Users, NEW command \in CommandTexts, SendCommand(who, command)
      PROVE  EdgeInv'
  <2>1. /\ Commands' \in Seq(Users \X {"ping"}) /\ Len(Commands') <= MaxCommand
        /\ event' = [type |-> "CommandSent", command |-> "ping", who |-> who]
    BY <1>1, <1>4, EdgeAssumption DEF SendCommand, IsCommand, TypeOK
  <2>2. event' \in Event
    BY <2>1 DEF Event
  <2>3. EventMatchesList'
    BY <2>1 DEF EventMatchesList
  <2> QED
    BY <1>1, <1>4, <2>1, <2>2, <2>3 DEF SendCommand, EdgeInv, TypeOK, CooldownNear
<1>5. ASSUME NEW who \in Users, NEW text \in Texts, SubmitResponse(who, text)
      PROVE  EdgeInv'
  <2>1. AddResponse(who, text) /\ UNCHANGED <<Connection, Commands, NextUnsignedAt, block>>
    BY <1>5 DEF SubmitResponse
  <2> QED
    BY <1>1, <2>1, AddResponseInv DEF EdgeInv, TypeOK, CooldownNear
<1>6. ASSUME NEW text \in Texts, AddResponse(None, text), NextUnsignedAt' = Cooldown,
             UNCHANGED <<Connection, Commands, block>>
      PROVE  EdgeInv'
  <2>1. /\ Responses' \in Seq((Users \cup {None}) \X (Texts \ LongTexts))
        /\ Len(Responses') <= MaxResponses /\ event' \in Event
        /\ submitted' \in Seq((Users \cup {None}) \X Texts)
        /\ EventMatchesList'
    BY <1>1, <1>6, AddResponseInv
  <2>2. NextUnsignedAt' = block + UnsignedInterval /\ block \in Nat /\ UnsignedInterval \in Nat
    BY <1>1, <1>6, EdgeAssumption DEF Cooldown, TypeOK
  <2> QED
    BY <1>1, <1>6, <2>1, <2>2 DEF EdgeInv, TypeOK, CooldownNear
<1>7. CASE NewBlock
  BY <1>1, <1>7, EdgeAssumption
     DEF NewBlock, NoEvent, EdgeInv, TypeOK, Event, EventMatchesList, CooldownNear
<1>8. CASE UNCHANGED edgeVars
  BY <1>1, <1>8 DEF edgeVars, EdgeInv, TypeOK, EventMatchesList, CooldownNear
<1> QED
  BY <1>2, <1>3, <1>4, <1>5, <1>6, <1>7, <1>8
     DEF Next, SubmitResponseUnsigned, SubmitResponseUnsignedWithSignedPayload

\* The invariant of the pallet holds at every point of every run.
THEOREM EdgeSafety == Spec => []EdgeInv
  BY EdgeInitInv, EdgeNextInv, PTL DEF Spec

\* The lists keep to the bounds of their BoundedVec, and "ping" is the only command.
THEOREM EdgeTypeTheorem == Spec => []TypeOK
<1>1. EdgeInv => TypeOK
  BY DEF EdgeInv
<1> QED
  BY <1>1, EdgeSafety, PTL

\* A NewResponse event of add_response tells what the list ends with; a response that
\* was dropped is never announced.
THEOREM EventTheorem == Spec => []EventMatchesList
<1>1. EdgeInv => EventMatchesList
  BY DEF EdgeInv
<1> QED
  BY <1>1, EdgeSafety, PTL

\* Whatever the order of signed and unsigned calls, NextUnsignedAt never goes back, and
\* is never more than an interval ahead of the block that set it.
THEOREM CooldownTheorem == Spec => CooldownMonotone
<1> DEFINE Onward == /\ NextUnsignedAt' >= NextUnsignedAt
                     /\ NextUnsignedAt' <= block + UnsignedInterval
<1>1. ASSUME EdgeInv, [Next]_edgeVars PROVE [Onward]_edgeVars
  <2>1. /\ NextUnsignedAt \in Nat /\ block \in Nat /\ UnsignedInterval \in Nat
        /\ NextUnsignedAt <= block + UnsignedInterval
    BY <1>1, EdgeAssumption DEF EdgeInv, TypeOK, CooldownNear
  <2>2. \/ NextUnsignedAt' = NextUnsignedAt
        \/ NextUnsignedAt' = block + UnsignedInterval
    BY <1>1 DEF Next, CreateConnection, RemoveConnection, SendCommand, SubmitResponse,
                SubmitResponseUnsigned, SubmitResponseUnsignedWithSignedPayload, Cooldown,
                NewBlock, edgeVars
  <2> QED
    BY <2>1, <2>2
<1> QED
  BY <1>1, EdgeSafety, PTL DEF Spec, CooldownMonotone

-------------------------------------------------------------------------------
(* The list of responses against the history of what was submitted *)

\* The entries that fit among the first k are finitely many, and no more than all.
LEMMA FittingCount ==
    ASSUME NEW S, NEW s \in Seq(S), NEW k \in 0 .. Len(s)
    PROVE  /\ IsFiniteSet(Fitting(s, k)) /\ Cardinality(Fitting(s, k)) \in Nat
           /\ Cardinality(Fitting(s, k)) <= Cardinality(Fitting(s, Len(s)))
           /\ k \in Fitting(s, Len(s)) => Cardinality(Fitting(s, k)) >= 1
<1>1. Len(s) \in Nat
  OBVIOUS
<1>2. ASSUME NEW m \in 0 .. Len(s)
      PROVE  IsFiniteSet(Fitting(s, m)) /\ Cardinality(Fitting(s, m)) \in Nat
  <2>1. Fitting(s, m) \subseteq 1 .. m
    BY DEF Fitting
  <2>2. IsFiniteSet(1 .. m)
    BY FS_Interval
  <2>3. IsFiniteSet(Fitting(s, m))
    BY <2>1, <2>2, FS_Subset
  <2> QED
    BY <2>3, FS_CardinalityType
<1>3. Fitting(s, k) \subseteq Fitting(s, Len(s)) /\ Len(s) \in 0 .. Len(s)
  BY <1>1 DEF Fitting
<1>4. Cardinality(Fitting(s, k)) <= Cardinality(Fitting(s, Len(s)))
  BY <1>2, <1>3, FS_Subset
<1>5. ASSUME k \in Fitting(s, Len(s)) PROVE Cardinality(Fitting(s, k)) >= 1
  <2>1. k \in Fitting(s, k)
    BY <1>5 DEF Fitting
  <2>2. Cardinality(Fitting(s, k)) # 0
    BY <1>2, <2>1, FS_EmptySet
  <2> QED
    BY <1>2, <2>2
<1> QED
  BY <1>2, <1>4, <1>5

\* What one more entry adds to the count.
LEMMA FittingAppend ==
    ASSUME NEW S, NEW s \in Seq(S), NEW e \in S
    PROVE  LET t == Append(s, e)
               n == Len(s)
           IN  /\ t \in Seq(S) /\ n \in Nat /\ Len(t) = n + 1 /\ t[n + 1] = e
               /\ \A p \in 1 .. n : t[p] = s[p] /\ Fitting(t, p) = Fitting(s, p)
               /\ ~Fits(e) => Fitting(t, n + 1) = Fitting(s, n)
               /\ Fits(e) => /\ Fitting(t, n + 1) = Fitting(s, n) \cup {n + 1}
                             /\ Cardinality(Fitting(t, n + 1)) = Cardinality(Fitting(s, n)) + 1
<1> DEFINE t == Append(s, e)
           n == Len(s)
<1>1. /\ t \in Seq(S) /\ n \in Nat /\ Len(t) = n + 1 /\ t[n + 1] = e
      /\ \A p \in 1 .. n : t[p] = s[p]
  BY AppendProperties
<1> HIDE DEF t, n
<1>2. \A p \in 1 .. n : Fitting(t, p) = Fitting(s, p)
  BY <1>1 DEF Fitting
<1>3. 1 .. n + 1 = (1 .. n) \cup {n + 1}
  BY <1>1
<1>4. ~Fits(e) => Fitting(t, n + 1) = Fitting(s, n)
  BY <1>1, <1>3 DEF Fitting
<1>5. Fits(e) => Fitting(t, n + 1) = Fitting(s, n) \cup {n + 1}
  BY <1>1, <1>3 DEF Fitting
<1>6. n + 1 \notin Fitting(s, n) /\ IsFiniteSet(Fitting(s, n))
  <2>1. n \in 0 .. Len(s)
    BY <1>1 DEF n
  <2>2. IsFiniteSet(Fitting(s, n))
    BY <2>1, FittingCount
  <2>3. n + 1 \notin 1 .. n
    BY <1>1
  <2> QED
    BY <2>2, <2>3 DEF Fitting
<1>7. Cardinality(Fitting(s, n) \cup {n + 1}) = Cardinality(Fitting(s, n)) + 1
  BY <1>6, FS_AddElement, ZenonT(40)
<1> QED
  BY <1>1, <1>2, <1>4, <1>5, <1>7, ZenonT(40) DEF t, n

\* add_response keeps the list the first of those that fit.
LEMMA AddResponseKeeps ==
    ASSUME TypeOK, FirstFittingKept, NEW who \in Users \cup {None}, NEW text \in Texts,
           AddResponse(who, text)
    PROVE  FirstFittingKept'
<1> DEFINE e == <<who, text>>
           n == Len(submitted)
           c == Cardinality(Fitting(submitted, n))
           Entries == (Users \cup {None}) \X Texts
<1>1. /\ submitted \in Seq(Entries) /\ e \in Entries
      /\ submitted' = Append(submitted, e)
  BY DEF TypeOK, AddResponse
<1>2. Fits(e) <=> text \notin LongTexts
  BY DEF Fits
<1>3. Responses \in Seq((Users \cup {None}) \X (Texts \ LongTexts)) /\ MaxResponses \in Nat
  BY EdgeAssumption DEF TypeOK
<1> HIDE DEF Entries, e
<1>4. /\ n \in Nat /\ Len(submitted') = n + 1 /\ submitted'[n + 1] = e
      /\ \A p \in 1 .. n : /\ submitted'[p] = submitted[p]
                           /\ Fitting(submitted', p) = Fitting(submitted, p)
      /\ ~Fits(e) => Fitting(submitted', n + 1) = Fitting(submitted, n)
      /\ Fits(e) => /\ Fitting(submitted', n + 1) = Fitting(submitted, n) \cup {n + 1}
                    /\ Cardinality(Fitting(submitted', n + 1)) = c + 1
  BY <1>1, FittingAppend
<1>5. /\ c \in Nat
      /\ \A p \in Fitting(submitted, n) :
            /\ p \in 1 .. n /\ Cardinality(Fitting(submitted, p)) \in 1 .. c
  <2>1. c \in Nat
    BY <1>1, <1>4, FittingCount
  <2>2. ASSUME NEW p \in Fitting(submitted, n)
        PROVE  p \in 1 .. n /\ Cardinality(Fitting(submitted, p)) \in 1 .. c
    <3>1. p \in 1 .. n /\ p \in 0 .. n
      BY <1>4 DEF Fitting
    <3> QED
      BY <1>1, <2>1, <3>1, FittingCount
  <2> QED
    BY <2>1, <2>2
<1>6. /\ Len(Responses) = IF c < MaxResponses THEN c ELSE MaxResponses
      /\ \A p \in Fitting(submitted, n) :
            Cardinality(Fitting(submitted, p)) <= MaxResponses
            => Responses[Cardinality(Fitting(submitted, p))] = submitted[p]
  BY DEF FirstFittingKept
<1> HIDE DEF c, n
<1>7. CASE Fits(e) /\ Len(Responses) < MaxResponses
  <2>1. Responses' = Append(Responses, e) /\ e \in (Users \cup {None}) \X (Texts \ LongTexts)
    BY <1>1, <1>2, <1>7 DEF AddResponse, e
  <2>2. c = Len(Responses) /\ c + 1 <= MaxResponses
    BY <1>3, <1>5, <1>6, <1>7
  <2>3. /\ Len(Responses') = c + 1 /\ Responses'[c + 1] = e
        /\ \A i \in 1 .. c : Responses'[i] = Responses[i]
    BY <1>3, <2>1, <2>2, AppendProperties
  <2>4. Len(Responses') = IF c + 1 < MaxResponses THEN c + 1 ELSE MaxResponses
    BY <1>3, <1>5, <2>2, <2>3
  <2>5. ASSUME NEW p \in Fitting(submitted', n + 1)
        PROVE  Responses'[Cardinality(Fitting(submitted', p))] = submitted'[p]
    <3>1. CASE p = n + 1
      BY <1>4, <1>7, <2>3, <3>1
    <3>2. CASE p \in Fitting(submitted, n)
      <4> DEFINE k == Cardinality(Fitting(submitted, p))
      <4>1. /\ submitted'[p] = submitted[p] /\ Cardinality(Fitting(submitted', p)) = k
            /\ k \in 1 .. c
        BY <1>4, <1>5, <3>2
      <4>2. k <= MaxResponses => Responses[k] = submitted[p]
        BY <1>6, <3>2
      <4> HIDE DEF k
      <4>3. k <= MaxResponses
        BY <1>3, <1>5, <2>2, <4>1
      <4> QED
        BY <2>3, <4>1, <4>2, <4>3
    <3> QED
      BY <1>4, <1>7, <3>1, <3>2
  <2> QED
    BY <1>4, <1>7, <2>4, <2>5 DEF FirstFittingKept
<1>8. CASE ~(Fits(e) /\ Len(Responses) < MaxResponses)
  <2>1. Responses' = Responses
    BY <1>2, <1>8 DEF AddResponse
  <2>2. CASE Fits(e)
    <3>1. c >= MaxResponses /\ Len(Responses) = MaxResponses
      BY <1>3, <1>5, <1>6, <1>8, <2>2
    <3>2. Len(Responses') = IF c + 1 < MaxResponses THEN c + 1 ELSE MaxResponses
      BY <1>3, <1>5, <2>1, <3>1
    <3>3. ASSUME NEW p \in Fitting(submitted', n + 1),
                 Cardinality(Fitting(submitted', p)) <= MaxResponses
          PROVE  Responses'[Cardinality(Fitting(submitted', p))] = submitted'[p]
      <4>1. p # n + 1
        BY <1>3, <1>4, <1>5, <2>2, <3>1, <3>3
      <4>2. p \in Fitting(submitted, n)
        BY <1>4, <2>2, <4>1
      <4> QED
        BY <1>4, <1>5, <1>6, <2>1, <3>3, <4>2
    <3> QED
      BY <1>4, <2>2, <3>2, <3>3 DEF FirstFittingKept
  <2>3. CASE ~Fits(e)
    <3>1. ASSUME NEW p \in Fitting(submitted', n + 1),
                 Cardinality(Fitting(submitted', p)) <= MaxResponses
          PROVE  Responses'[Cardinality(Fitting(submitted', p))] = submitted'[p]
      BY <1>4, <1>5, <1>6, <2>1, <2>3, <3>1
    <3>2. Cardinality(Fitting(submitted', n + 1)) = c
      BY <1>4, <2>3 DEF c
    <3> QED
      BY <1>4, <1>6, <2>1, <3>1, <3>2 DEF FirstFittingKept
  <2> QED
    BY <2>2, <2>3
<1> QED
  BY <1>7, <1>8

\* The list of responses is the first MaxResponses of the submitted ones that fit, in
\* order, after any number of calls of the three submit functions.
THEOREM FirstFittingTheorem == Spec => []FirstFittingKept
<1>1. Init => FirstFittingKept
  <2> SUFFICES ASSUME Init PROVE FirstFittingKept
    OBVIOUS
  <2>1. submitted = <<>> /\ Responses = <<>> /\ Len(<<>>) = 0 /\ MaxResponses \in Nat
    BY EdgeAssumption DEF Init
  <2>2. Fitting(submitted, Len(submitted)) = {}
    BY <2>1 DEF Fitting
  <2>3. Cardinality(Fitting(submitted, Len(submitted))) = 0 /\ Len(Responses) = 0
    BY <2>1, <2>2, FS_EmptySet
  <2> QED
    BY <2>1, <2>2, <2>3 DEF FirstFittingKept
<1>2. ASSUME EdgeInv, FirstFittingKept, [Next]_edgeVars PROVE FirstFittingKept'
  <2>1. ASSUME NEW who \in Users \cup {None}, NEW text \in Texts, AddResponse(who, text)
        PROVE  FirstFittingKept'
    BY <1>2, <2>1, AddResponseKeeps DEF EdgeInv
  <2>2. CASE UNCHANGED <<Responses, submitted>>
    BY <1>2, <2>2 DEF FirstFittingKept
  <2> QED
    BY <1>2, <2>1, <2>2
       DEF Next, edgeVars, CreateConnection, RemoveConnection, SendCommand, SubmitResponse,
           SubmitResponseUnsigned, SubmitResponseUnsignedWithSignedPayload, NewBlock
<1> QED
  BY <1>1, <1>2, EdgeSafety, PTL DEF Spec
===============================================================================
