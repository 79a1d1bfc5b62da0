---------------------------- MODULE KnowledgeProofs ----------------------------
(***************************************************************************)
(* Proofs about Mastery and Knowledge, for any number of attempts,         *)
(* concepts and workers and for every value of the settings.               *)
(***************************************************************************)
EXTENDS Knowledge, FiniteSetTheorems, TLAPS

\* The rule of recalculate: whatever the counts of a window with evidence are,
\* mastery falls by one state at most, does not leap over Developing, and is
\* not Mastered under an active flaw.
THEOREM MasteryRule ==
  ASSUME NEW previous \in States, NEW count \in Nat \ {0}, NEW passes \in 0..count,
         NEW strong \in 0..passes, NEW flaw \in BOOLEAN
  PROVE  /\ NextState(previous, count, passes, strong, flaw) \in States
         /\ NextState(previous, count, passes, strong, flaw) + 1 >= previous
         /\ previous <= Insufficient =>
               NextState(previous, count, passes, strong, flaw) <= Developing
         /\ flaw => NextState(previous, count, passes, strong, flaw) # Mastered
<1> DEFINE candidate == Candidate(count, passes, strong)
           jumped == NoJump(previous, candidate)
           capped == Capped(jumped, flaw)
<1>1. previous \in 0..4 /\ candidate \in 1..4
  BY DEF States, Candidate, NotAssessed, Insufficient, Developing, Proficient, Mastered
<1> HIDE DEF candidate
<1>2. jumped \in 1..4 /\ (previous <= 1 => jumped <= 2)
  BY <1>1 DEF NoJump, Insufficient, Developing, Proficient
<1> HIDE DEF jumped
<1>3. capped \in 1..4 /\ (previous <= 1 => capped <= 2) /\ (flaw => capped # 4)
  BY <1>2 DEF Capped, Mastered, Proficient
<1> HIDE DEF capped
<1>4. NextState(previous, count, passes, strong, flaw) = OneStepDown(previous, capped)
  BY DEF NextState, capped, jumped, candidate
<1>5. QED
  BY <1>1, <1>3, <1>4
     DEF OneStepDown, States, NotAssessed, Insufficient, Developing, Mastered

\* Mastered is given only for the counts that ask for it.
LEMMA MasteredEarned ==
  ASSUME NEW previous \in States, NEW count \in Nat \ {0}, NEW passes \in 0..count,
         NEW strong \in 0..passes, NEW flaw \in BOOLEAN,
         NextState(previous, count, passes, strong, flaw) = Mastered
  PROVE  /\ count >= MinEvidence
         /\ Reaches(passes, count, MasteredPct) /\ Reaches(strong, count, StrongPct)
<1> DEFINE candidate == Candidate(count, passes, strong)
           capped == Capped(NoJump(previous, candidate), flaw)
<1>1. previous \in 0..4 /\ candidate \in 1..4
  BY DEF States, Candidate, NotAssessed, Insufficient, Developing, Proficient, Mastered
<1>2. OneStepDown(previous, capped) = Mastered
  BY DEF NextState
<1> HIDE DEF candidate
<1>3. capped \in 1..4 /\ (capped = 4 => candidate = 4)
  BY <1>1 DEF Capped, NoJump, Insufficient, Developing, Proficient, Mastered
<1> HIDE DEF capped
<1>4. candidate = 4
  BY <1>1, <1>2, <1>3 DEF OneStepDown, Mastered
<1>5. Candidate(count, passes, strong) = Mastered
  BY <1>4 DEF candidate, Mastered
<1>6. count \in Nat /\ MinEvidence \in Nat
  BY MasteryAssumption DEF MasteryAssumption
<1>7. QED
  BY <1>5, <1>6 DEF Candidate, Insufficient, Developing, Proficient, Mastered
-----------------------------------------------------------------------------
\* The rows of a concept are in one order.
Linear(E) ==
    \A a, b \in Attempts :
        /\ <<a, b>> \in E => <<a, a>> \in E /\ <<b, b>> \in E
        /\ <<a, a>> \in E /\ <<b, b>> \in E => <<a, b>> \in E \/ <<b, a>> \in E
        /\ <<a, b>> \in E /\ <<b, a>> \in E => a = b
        /\ \A d \in Attempts : <<a, b>> \in E /\ <<b, d>> \in E => <<a, d>> \in E

InWindow(n) == IF n < Window THEN n ELSE Window

\* Of some rows, one is the oldest.
LEMMA OldestRow ==
  ASSUME NEW E, Linear(E), NEW V \in SUBSET Attempts, V # {},
         \A a \in V : <<a, a>> \in E
  PROVE  \E o \in V : \A b \in V : <<o, b>> \in E
<1> DEFINE HasOldest(U) == \E o \in U : \A b \in U : <<o, b>> \in E
           T == {U \in SUBSET V : U # {} /\ ~HasOldest(U)}
<1> SUFFICES ASSUME T # {} PROVE FALSE
  OBVIOUS
<1>1. T \subseteq FiniteSubsetsOf(Attempts)
  BY KnowledgeAssumption, FS_Subset DEF KnowledgeAssumption, FiniteSubsetsOf
<1>2. IsWellFoundedOn(StrictSubsetOrdering(Attempts), FiniteSubsetsOf(Attempts))
  BY FS_StrictSubsetOrderingWellFounded
<1>3. PICK U \in T : \A W \in T : ~(<<W, U>> \in StrictSubsetOrdering(Attempts))
  <2> HIDE DEF T
  <2>1. QED
    BY <1>1, <1>2, WFMin
<1>4. PICK a \in U : TRUE
  BY <1>3
<1> DEFINE W == U \ {a}
<1>5. W # {}
  BY <1>3, <1>4
<1>6. HasOldest(W)
  <2>1. W \in SUBSET V /\ W \subseteq U /\ W # U /\ U \in SUBSET Attempts
    BY <1>3, <1>4
  <2>2. <<W, U>> \in StrictSubsetOrdering(Attempts)
    BY <2>1 DEF StrictSubsetOrdering
  <2>3. W \notin T
    BY <1>3, <2>2
  <2>4. QED
    BY <1>5, <2>1, <2>3
<1>7. PICK o \in W : \A b \in W : <<o, b>> \in E
  BY <1>6
<1>8. a \in Attempts /\ o \in Attempts /\ <<a, a>> \in E /\ <<o, o>> \in E /\ o \in U
      /\ U \in SUBSET Attempts
  BY <1>3, <1>4, <1>7
<1>9. CASE <<o, a>> \in E
  <2>1. \A b \in U : <<o, b>> \in E
    BY <1>7, <1>9
  <2>2. QED
    BY <1>3, <1>8, <2>1
<1>10. CASE <<a, o>> \in E
  <2>1. \A b \in U : <<a, b>> \in E
    BY <1>7, <1>8, <1>10 DEF Linear
  <2>2. QED
    BY <1>3, <1>4, <2>1
<1>11. QED
  BY <1>8, <1>9, <1>10 DEF Linear

LEMMA InLatestWindow ==
  \A c, V, a :
     a \in LatestWindow(c, V) <=> (a \in V /\ Cardinality(Newer(c, V, a)) < Window)
BY DEF LatestWindow

\* The window takes as many rows as there are, up to its size: the oldest row
\* is in it where the others leave room.
LEMMA WindowCounts ==
  ASSUME NEW c \in Concepts, Linear(evidence[c]), NEW V \in SUBSET Rows(c)
  PROVE  Cardinality(LatestWindow(c, V)) = InWindow(Cardinality(V))
<1> DEFINE Right(U) == Cardinality(LatestWindow(c, U)) = InWindow(Cardinality(U))
           T == {U \in SUBSET V : ~Right(U)}
<1> SUFFICES ASSUME T # {} PROVE FALSE
  OBVIOUS
<1>1. /\ V \in SUBSET Attempts /\ Window \in Nat \ {0}
      /\ \A a \in V : <<a, a>> \in evidence[c]
      /\ \A U \in SUBSET V : IsFiniteSet(U)
  BY KnowledgeAssumption, MasteryAssumption, FS_Subset
     DEF KnowledgeAssumption, MasteryAssumption, Rows
<1>2. T \subseteq FiniteSubsetsOf(Attempts)
  <2> HIDE DEF Right
  <2>1. QED
    BY <1>1 DEF FiniteSubsetsOf
<1>3. IsWellFoundedOn(StrictSubsetOrdering(Attempts), FiniteSubsetsOf(Attempts))
  BY FS_StrictSubsetOrderingWellFounded
<1>4. PICK U \in T : \A W \in T : ~(<<W, U>> \in StrictSubsetOrdering(Attempts))
  <2> HIDE DEF T
  <2>1. QED
    BY <1>2, <1>3, WFMin
<1>5. U \in SUBSET V /\ U \in SUBSET Attempts /\ ~Right(U)
  BY <1>1, <1>4
<1> HIDE DEF T
<1>6. CASE U = {}
  <2>1. LatestWindow(c, U) = {}
    BY <1>6, InLatestWindow
  <2>2. Cardinality({}) = 0 /\ InWindow(0) = 0
    BY <1>1, FS_EmptySet DEF InWindow
  <2>3. QED
    BY <1>5, <1>6, <2>1, <2>2
<1>7. CASE U # {}
  <2>1. \A a \in U : <<a, a>> \in evidence[c]
    <3>1. U \subseteq V /\ \A a \in V : <<a, a>> \in evidence[c]
      BY <1>1, <1>5
    <3>2. QED
      BY <3>1, Zenon
  <2>2. PICK o \in U : \A b \in U : <<o, b>> \in evidence[c]
    BY <1>5, <1>7, <2>1, OldestRow
  <2> DEFINE W == U \ {o}
  <2>3. Right(W)
    <3>1. W \in SUBSET V /\ W \subseteq U /\ W # U
      BY <1>5, <2>2
    <3>2. <<W, U>> \in StrictSubsetOrdering(Attempts)
      BY <1>5, <3>1 DEF StrictSubsetOrdering
    <3>3. W \notin T
      BY <1>4, <3>2
    <3> HIDE DEF Right, W
    <3> USE DEF T
    <3>4. QED
      BY <3>1, <3>3
  <2> HIDE DEF Right
  <2>4. IsFiniteSet(W) /\ Cardinality(W) \in Nat /\ Cardinality(U) = Cardinality(W) + 1
    <3>1. IsFiniteSet(W) /\ o \notin W /\ U = W \cup {o}
      BY <1>1, <1>5, <2>2
    <3> HIDE DEF W
    <3>2. QED
      BY <3>1, FS_AddElement, FS_CardinalityType
  <2>5. Newer(c, U, o) = W
    BY <2>2 DEF Newer
  <2>6. ASSUME NEW a \in W PROVE Newer(c, U, a) = Newer(c, W, a)
    BY <1>5, <2>2, <2>6 DEF Newer, Linear
  <2>7. LatestWindow(c, W) \subseteq W /\ IsFiniteSet(LatestWindow(c, W))
    <3>1. LatestWindow(c, W) \subseteq W
      BY InLatestWindow
    <3>2. QED
      BY <2>4, <3>1, FS_Subset
  <2>a. ASSUME NEW a
        PROVE  a \in LatestWindow(c, U)
               <=> (a \in LatestWindow(c, W) \/ (a = o /\ Cardinality(W) < Window))
    <3>1. CASE a = o
      BY <2>2, <2>5, <2>7, <3>1, InLatestWindow
    <3>2. CASE a # o /\ a \in U
      <4>1. a \in W
        BY <3>2
      <4> HIDE DEF W
      <4>2. QED
        BY <2>6, <3>2, <4>1, InLatestWindow
    <3>3. CASE a \notin U
      BY <2>2, <2>7, <3>3, InLatestWindow
    <3>4. QED
      BY <3>1, <3>2, <3>3
  <2>b. o \notin LatestWindow(c, W)
    BY <2>7
  <2> HIDE DEF W
  <2>8. CASE Cardinality(W) < Window
    <3>1. LatestWindow(c, U) = LatestWindow(c, W) \cup {o} /\ o \notin LatestWindow(c, W)
      BY <2>a, <2>b, <2>8
    <3>2. Cardinality(LatestWindow(c, U)) = Cardinality(LatestWindow(c, W)) + 1
      BY <2>7, <3>1, FS_AddElement
    <3>3. Cardinality(LatestWindow(c, W)) = Cardinality(W)
      BY <2>3, <2>8 DEF InWindow, Right
    <3>4. InWindow(Cardinality(U)) = Cardinality(W) + 1
      BY <1>1, <2>4, <2>8 DEF InWindow
    <3>5. QED
      BY <1>5, <3>2, <3>3, <3>4 DEF Right
  <2>9. CASE ~(Cardinality(W) < Window)
    <3>1. LatestWindow(c, U) = LatestWindow(c, W)
      BY <2>a, <2>9
    <3>2. InWindow(Cardinality(W)) = Window /\ InWindow(Cardinality(U)) = Window
      BY <1>1, <2>4, <2>9 DEF InWindow
    <3>3. QED
      BY <1>5, <2>3, <3>1, <3>2 DEF Right
  <2>10. QED
    BY <2>8, <2>9
<1>8. QED
  BY <1>6, <1>7
-----------------------------------------------------------------------------
TxRow ==
    [pc : {"idle", "next", "flaw", "recalculate", "write"},
     attempt : Attempts \cup {None}, todo : SUBSET Concepts,
     concept : Concepts \cup {None}, flaws : [Concepts -> Nat],
     rows : [Concepts -> MasteryRow], wrote : SUBSET Concepts]

Technical(r) == quality[r.attempt] = "technical"

\* The transaction has inserted its row for the concept; it has the value that
\* the concept gets from it.
Inserted(r, c) == r.pc # "idle" /\ c \in ConceptsOf[r.attempt] \ r.todo
Holds(r, c) == c \in r.wrote \/ (r.pc = "write" /\ r.concept = c)

\* How far the transaction of an attempt has come: the concepts it has dealt
\* with are written, but the one in hand; their flaws are recorded.
Progress(r) ==
    /\ r.attempt \in Attempts \ committed /\ quality[r.attempt] # "none"
    /\ r.todo \subseteq ConceptsOf[r.attempt]
    /\ r.pc = "next" => r.wrote = ConceptsOf[r.attempt] \ r.todo
    /\ r.pc # "next" =>
          /\ r.concept \in ConceptsOf[r.attempt] \ r.todo
          /\ r.wrote = ConceptsOf[r.attempt] \ (r.todo \cup {r.concept})
    /\ r.pc = "flaw" => Technical(r)
    /\ \A c \in ConceptsOf[r.attempt] :
          Technical(r) => c \in r.todo \/ r.flaws[c] > 0 \/ (r.pc = "flaw" /\ r.concept = c)

\* A flaw that the transaction has recorded is one more than the committed
\* count, and its concept is written after it.
FlawFits(r, c) ==
    r.flaws[c] > 0 =>
        /\ r.flaws[c] = occurrences[c] + 1
        /\ c \in ConceptsOf[r.attempt] \ r.todo
        /\ Technical(r)
        /\ c \in r.wrote \/ (r.pc \in {"recalculate", "write"} /\ r.concept = c)

\* The latest of the rows V ask for Mastered.
Earned(c, V) ==
    LET rows == LatestWindow(c, V)
        n == Cardinality(rows)
    IN  /\ n > 0 /\ n >= MinEvidence
        /\ Reaches(CountOf(rows, Passes), n, MasteredPct)
        /\ Reaches(CountOf(rows, {"strong"}), n, StrongPct)

\* The value v is one that the rule gives from the committed value, the rows V
\* and the flaw.
Follows(v, c, V, flaw) ==
    /\ v.count = InWindow(Cardinality(V))
    /\ v.state + 1 >= mastery[c].state
    /\ mastery[c].state <= Insufficient => v.state <= Developing
    /\ flaw => v.state # Mastered
    /\ v.state = Mastered => Earned(c, V)

\* So is the value the transaction has for a concept, from the committed rows
\* and its own, unless another recalculation of the concept overlapped.
ValueFits(r, c) ==
    c \notin raced /\ Holds(r, c)
    => Follows(r.rows[c], c, EvidenceOf(c) \cup {r.attempt},
               occurrences[c] >= Threshold \/ r.flaws[c] >= Threshold)

RowFits(r) ==
    /\ r.pc = "idle" => r = Idle
    /\ r.pc # "idle" => Progress(r)
    /\ \A c \in Concepts : FlawFits(r, c) /\ ValueFits(r, c)

\* Two transactions are of different attempts and hold no row together.
Apart(r, s) ==
    /\ r.pc # "idle" /\ s.pc # "idle" => r.attempt # s.attempt
    /\ \A c \in Concepts : ~(r.flaws[c] > 0 /\ s.flaws[c] > 0)
    /\ r.wrote \cap s.wrote = {}

\* The rows of a concept are the committed attempts' and those of the open
\* transactions, in one order.
Present(a, c) ==
    a \in EvidenceOf(c) \/ \E w \in Workers : Inserted(tx[w], c) /\ tx[w].attempt = a

EvidenceFits ==
    \A c \in Concepts :
        /\ Linear(evidence[c])
        /\ \A a \in Attempts : <<a, a>> \in evidence[c] <=> Present(a, c)

\* The two parts of MasteredIsEarned.
FlawBlocksMastered ==
    \A c \in Concepts \ raced : occurrences[c] >= Threshold => mastery[c].state # Mastered

LatestEarned ==
    \A c \in Concepts \ raced : mastery[c].state = Mastered => Earned(c, EvidenceOf(c))

KInv ==
    /\ TypeOK
    /\ \A w \in Workers : RowFits(tx[w])
    /\ \A v, w \in Workers : v # w => Apart(tx[v], tx[w])
    /\ \A a \in committed : quality[a] # "none"
    /\ EvidenceFits
    /\ FlawCountExact
    /\ FlawBlocksMastered
    /\ CountsAllEvidence
    /\ LatestEarned
-----------------------------------------------------------------------------
LEMMA KTypes ==
  /\ TypeOK <=>
       /\ quality \in [Attempts -> Qualities \cup {"none"}]
       /\ evidence \in [Concepts -> SUBSET (Attempts \X Attempts)]
       /\ committed \subseteq Attempts
       /\ occurrences \in [Concepts -> Nat]
       /\ mastery \in [Concepts -> MasteryRow]
       /\ tx \in [Workers -> TxRow]
       /\ raced \subseteq Concepts
  /\ \A v \in MasteryRow : v.state \in States /\ v.state \in Nat
BY DEF TypeOK, TxRow, MasteryRow, States, NotAssessed, Mastered

LEMMA IdleFits ==
  /\ Idle \in TxRow /\ NoRow \in MasteryRow /\ NoRow.state = 0 /\ NoRow.count = 0
  /\ Idle.pc = "idle" /\ Idle.wrote = {} /\ \A c \in Concepts : Idle.flaws[c] = 0
<1>1. NoRow \in MasteryRow /\ NoRow.state = 0 /\ NoRow.count = 0
  BY MasteryAssumption DEF NoRow, MasteryRow, States, NotAssessed, Mastered, MasteryAssumption
<1>2. /\ Idle \in TxRow
      /\ Idle.pc = "idle" /\ Idle.wrote = {} /\ \A c \in Concepts : Idle.flaws[c] = 0
  BY <1>1 DEF Idle, TxRow
<1>3. QED
  BY <1>1, <1>2

LEMMA IdleRow == RowFits(Idle)
BY IdleFits DEF RowFits, FlawFits, ValueFits, Holds

LEMMA KInitInv == Init => KInv
<1> SUFFICES ASSUME Init PROVE KInv
  OBVIOUS
<1>1. TypeOK
  BY IdleFits DEF Init, TypeOK, TxRow
<1>2. /\ \A w \in Workers : RowFits(tx[w])
      /\ \A v, w \in Workers : v # w => Apart(tx[v], tx[w])
  BY IdleFits, IdleRow DEF Init, Apart
<1>3. EvidenceFits
  BY IdleFits DEF Init, EvidenceFits, Linear, Present, EvidenceOf, Inserted
<1>4. \A c \in Concepts : /\ EvidenceOf(c) = {}
                          /\ {a \in EvidenceOf(c) : quality[a] = "technical"} = {}
  BY DEF Init, EvidenceOf
<1>5. Cardinality({}) = 0
  BY FS_EmptySet
<1>6. FlawCountExact
  BY <1>4, <1>5 DEF Init, FlawCountExact
<1>7. FlawBlocksMastered /\ LatestEarned
  BY IdleFits DEF Init, FlawBlocksMastered, LatestEarned, Mastered
<1>8. CountsAllEvidence
  <2>1. 0 < Window
    BY MasteryAssumption DEF MasteryAssumption
  <2>2. QED
    BY <1>4, <1>5, <2>1, IdleFits DEF Init, CountsAllEvidence
<1>9. QED
  BY <1>1, <1>2, <1>3, <1>6, <1>7, <1>8 DEF Init, KInv
-----------------------------------------------------------------------------
\* What a step changes of the evidence of other attempts does not matter.
LEMMA EarnedKept ==
  ASSUME NEW c, NEW V,
         \A a \in V : quality'[a] = quality[a],
         \A a, b \in V : <<a, b>> \in evidence'[c] <=> <<a, b>> \in evidence[c]
  PROVE  Earned(c, V)' <=> Earned(c, V)
<1>1. LatestWindow(c, V)' = LatestWindow(c, V)
  <2>1. ASSUME NEW a \in V PROVE Newer(c, V, a)' = Newer(c, V, a)
    BY DEF Newer
  <2>2. QED
    BY <2>1 DEF LatestWindow
<1>2. LatestWindow(c, V) \subseteq V
  BY DEF LatestWindow
<1>3. ASSUME NEW Q
      PROVE  CountOf(LatestWindow(c, V), Q)' = CountOf(LatestWindow(c, V), Q)
  <2>1. {a \in LatestWindow(c, V)' : quality'[a] \in Q}
        = {a \in LatestWindow(c, V) : quality[a] \in Q}
    BY <1>1, <1>2
  <2>2. QED
    BY <2>1 DEF CountOf
<1>4. QED
  BY <1>1, <1>3 DEF Earned, Passes

\* A step that changes no committed row, and evidence of the attempt x only.
Frame(x) ==
    /\ UNCHANGED <<committed, occurrences, mastery, raced>>
    /\ x \in Attempts \ committed
    /\ \A a \in Attempts \ {x} : quality'[a] = quality[a]
    /\ \A c \in Concepts, a, b \in Attempts \ {x} :
          <<a, b>> \in evidence'[c] <=> <<a, b>> \in evidence[c]

LEMMA FrameRow ==
  ASSUME KInv, NEW x, Frame(x), NEW r \in TxRow, RowFits(r), r.pc # "idle" => r.attempt # x
  PROVE  RowFits(r)'
<1>1. CASE r.pc = "idle"
  BY <1>1, IdleFits DEF RowFits, FlawFits, ValueFits, Holds
<1>2. CASE r.pc # "idle"
  <2>1. /\ r.attempt \in Attempts \ {x} /\ quality'[r.attempt] = quality[r.attempt]
        /\ UNCHANGED <<committed, occurrences, mastery, raced>>
    BY <1>2 DEF RowFits, Progress, Frame
  <2>2. Progress(r)'
    BY <1>2, <2>1 DEF RowFits, Progress, Technical
  <2>3. ASSUME NEW c \in Concepts PROVE FlawFits(r, c)'
    BY <2>1 DEF RowFits, FlawFits, Technical
  <2>4. ASSUME NEW c \in Concepts PROVE ValueFits(r, c)'
    <3>1. EvidenceOf(c)' = EvidenceOf(c) /\ EvidenceOf(c) \cup {r.attempt} \subseteq Attempts \ {x}
      BY <2>1, KTypes DEF EvidenceOf, KInv, Frame
    <3> DEFINE V == EvidenceOf(c) \cup {r.attempt}
    <3>2. Earned(c, V)' <=> Earned(c, V)
      <4>1. /\ \A a \in V : quality'[a] = quality[a]
            /\ \A a, b \in V : <<a, b>> \in evidence'[c] <=> <<a, b>> \in evidence[c]
        BY <3>1 DEF Frame
      <4>2. \A W : (/\ \A a \in W : quality'[a] = quality[a]
                    /\ \A a, b \in W : <<a, b>> \in evidence'[c] <=> <<a, b>> \in evidence[c])
                   => (Earned(c, W)' <=> Earned(c, W))
        BY EarnedKept
      <4>3. V' = V
        BY <3>1
      <4> HIDE DEF V
      <4>4. QED
        BY <4>1, <4>2, <4>3
    <3>3. ValueFits(r, c)
      BY DEF RowFits
    <3>4. QED
      BY <2>1, <3>1, <3>2, <3>3 DEF ValueFits, Follows, Holds
  <2>5. QED
    BY <1>2, <2>2, <2>3, <2>4 DEF RowFits
<1>3. QED
  BY <1>1, <1>2

LEMMA FrameTables ==
  ASSUME KInv, NEW x, Frame(x)
  PROVE  /\ \A a \in committed' : quality'[a] # "none"
         /\ FlawCountExact' /\ FlawBlocksMastered' /\ CountsAllEvidence' /\ LatestEarned'
<1>1. /\ UNCHANGED <<committed, occurrences, mastery, raced>>
      /\ committed \subseteq Attempts \ {x} /\ \A a \in committed : quality'[a] = quality[a]
  BY KTypes DEF KInv, Frame
<1>2. \A c : EvidenceOf(c)' = EvidenceOf(c) /\ EvidenceOf(c) \subseteq committed
  BY <1>1 DEF EvidenceOf
<1>3. /\ \A a \in committed' : quality'[a] # "none"
      /\ FlawBlocksMastered' /\ CountsAllEvidence'
  BY <1>1, <1>2 DEF KInv, FlawBlocksMastered, CountsAllEvidence
<1>4. FlawCountExact'
  <2>1. ASSUME NEW c \in Concepts
        PROVE  {a \in EvidenceOf(c)' : quality'[a] = "technical"}
               = {a \in EvidenceOf(c) : quality[a] = "technical"}
    BY <1>1, <1>2
  <2>2. QED
    BY <1>1, <2>1 DEF KInv, FlawCountExact
<1>5. LatestEarned'
  <2>1. ASSUME NEW c \in Concepts
        PROVE  Earned(c, EvidenceOf(c))' <=> Earned(c, EvidenceOf(c))
    <3>1. /\ \A a \in EvidenceOf(c) : quality'[a] = quality[a]
          /\ \A a, b \in EvidenceOf(c) :
                <<a, b>> \in evidence'[c] <=> <<a, b>> \in evidence[c]
      BY <1>1, <1>2 DEF Frame
    <3>2. \A W : (/\ \A a \in W : quality'[a] = quality[a]
                  /\ \A a, b \in W : <<a, b>> \in evidence'[c] <=> <<a, b>> \in evidence[c])
                 => (Earned(c, W)' <=> Earned(c, W))
      BY EarnedKept
    <3>3. QED
      BY <1>2, <3>1, <3>2
  <2>2. \A c \in Concepts \ raced : mastery[c].state = Mastered => Earned(c, EvidenceOf(c))
    BY DEF KInv, LatestEarned
  <2>3. \A c \in Concepts \ raced' : mastery'[c].state = Mastered => Earned(c, EvidenceOf(c))'
    BY <1>1, <2>1, <2>2
  <2>4. QED
    BY <2>3 DEF LatestEarned
<1>6. QED
  BY <1>3, <1>4, <1>5

\* A step of one transaction within such a frame.
LEMMA OwnInv ==
  ASSUME KInv, NEW w \in Workers, NEW row \in TxRow, NEW x, Frame(x),
         tx' = [tx EXCEPT ![w] = row],
         quality' \in [Attempts -> Qualities \cup {"none"}],
         evidence' \in [Concepts -> SUBSET (Attempts \X Attempts)],
         \A v \in Workers \ {w} : tx[v].pc # "idle" => tx[v].attempt # x,
         RowFits(row)', \A v \in Workers \ {w} : Apart(row, tx[v]),
         EvidenceFits'
  PROVE  KInv'
<1>1. /\ tx \in [Workers -> TxRow] /\ tx' \in [Workers -> TxRow] /\ tx'[w] = row
      /\ \A v \in Workers : v # w => tx'[v] = tx[v]
  BY KTypes DEF KInv
<1>2. TypeOK'
  BY <1>1 DEF KInv, TypeOK, TxRow, Frame
<1>3. ASSUME NEW v \in Workers PROVE RowFits(tx[v])'
  <2>1. CASE v = w
    BY <1>1, <2>1
  <2>2. CASE v # w
    <3>1. tx'[v] = tx[v] /\ tx[v] \in TxRow /\ RowFits(tx[v])
      BY <1>1, <2>2 DEF KInv
    <3>2. \A r \in TxRow : RowFits(r) /\ (r.pc # "idle" => r.attempt # x) => RowFits(r)'
      BY FrameRow
    <3>3. QED
      BY <2>2, <3>1, <3>2
  <2>3. QED
    BY <2>1, <2>2
<1>4. \A u, v \in Workers : u # v => Apart(tx'[u], tx'[v])
  BY <1>1 DEF KInv, Apart
<1>5. QED
  BY <1>2, <1>3, <1>4, FrameTables DEF KInv, Apart

\* The rows there are fit a step that inserts none: what it takes from or
\* gives to the committed ones, its transaction loses or gains.
LEMMA SameRows ==
  ASSUME KInv, NEW w \in Workers, NEW row, tx' = [tx EXCEPT ![w] = row],
         evidence' = evidence,
         \A c \in Concepts, a \in Attempts :
            (a \in EvidenceOf(c)' \/ (Inserted(row, c) /\ row.attempt = a))
            <=> (a \in EvidenceOf(c) \/ (Inserted(tx[w], c) /\ tx[w].attempt = a))
  PROVE  EvidenceFits'
<1>1. tx'[w] = row /\ \A v \in Workers : v # w => tx'[v] = tx[v]
  BY KTypes DEF KInv
<1>2. ASSUME NEW c \in Concepts, NEW a \in Attempts PROVE Present(a, c)' <=> Present(a, c)
  BY <1>1 DEF Present, Inserted
<1>3. ASSUME NEW c \in Concepts
      PROVE  /\ Linear(evidence[c])'
             /\ \A a \in Attempts : <<a, a>> \in evidence'[c] <=> Present(a, c)'
  <2>1. /\ Linear(evidence[c])
        /\ \A a \in Attempts : <<a, a>> \in evidence[c] <=> Present(a, c)
    BY DEF KInv, EvidenceFits
  <2>2. evidence'[c] = evidence[c]
    OBVIOUS
  <2>3. QED
    BY <1>2, <2>1, <2>2
<1>4. QED
  BY <1>3 DEF EvidenceFits

\* The row of a busy transaction and those of the others.
LEMMA BusyRow ==
  ASSUME KInv, NEW w \in Workers, tx[w].pc # "idle"
  PROVE  /\ tx \in [Workers -> TxRow] /\ tx[w] \in TxRow
         /\ Progress(tx[w]) /\ \A c \in Concepts : FlawFits(tx[w], c) /\ ValueFits(tx[w], c)
         /\ \A v \in Workers \ {w} : Apart(tx[w], tx[v])
         /\ \A v \in Workers \ {w} : tx[v].pc # "idle" => tx[v].attempt # tx[w].attempt
         /\ tx[w].attempt \in Attempts
         /\ ConceptsOf[tx[w].attempt] \subseteq Concepts
<1>1. tx \in [Workers -> TxRow] /\ tx[w] \in TxRow
  BY KTypes DEF KInv
<1>2. /\ Progress(tx[w]) /\ \A c \in Concepts : FlawFits(tx[w], c) /\ ValueFits(tx[w], c)
      /\ \A v \in Workers \ {w} : Apart(tx[w], tx[v])
  BY DEF KInv, RowFits
<1>3. tx[w].attempt \in Attempts /\ ConceptsOf[tx[w].attempt] \subseteq Concepts
  BY <1>2, KnowledgeAssumption DEF Progress, KnowledgeAssumption
<1>4. \A v \in Workers \ {w} : tx[v].pc # "idle" => tx[v].attempt # tx[w].attempt
  BY <1>2 DEF Apart
<1>5. QED
  BY <1>1, <1>2, <1>3, <1>4
-----------------------------------------------------------------------------
\* A new row comes last; a row that is rolled back leaves the others in order.
Appended(E, x, F) ==
    \A a, b \in Attempts :
        <<a, b>> \in F <=> (<<a, b>> \in E \/ (b = x /\ (<<a, a>> \in E \/ a = x)))

Removed(E, x, F) ==
    \A a, b \in Attempts : <<a, b>> \in F <=> (<<a, b>> \in E /\ a # x /\ b # x)

LEMMA AppendRow ==
  ASSUME NEW E, NEW x, NEW F, Linear(E), x \in Attempts, <<x, x>> \notin E, Appended(E, x, F)
  PROVE  Linear(F)
<1>1. \A a, b \in Attempts : <<a, b>> \in E => a # x /\ b # x
  BY DEF Linear, Appended
<1>2. ASSUME NEW a \in Attempts, NEW b \in Attempts
      PROVE  /\ <<a, b>> \in F => <<a, a>> \in F /\ <<b, b>> \in F
             /\ <<a, a>> \in F /\ <<b, b>> \in F => <<a, b>> \in F \/ <<b, a>> \in F
             /\ <<a, b>> \in F /\ <<b, a>> \in F => a = b
  BY <1>1 DEF Linear, Appended
<1>3. ASSUME NEW a \in Attempts, NEW b \in Attempts, NEW d \in Attempts,
             <<a, b>> \in F, <<b, d>> \in F
      PROVE  <<a, d>> \in F
  BY <1>1, <1>3 DEF Linear, Appended
<1>4. QED
  BY <1>2, <1>3, Zenon DEF Linear

LEMMA RemoveRow ==
  ASSUME NEW E, NEW x, NEW F, Linear(E), Removed(E, x, F)
  PROVE  Linear(F)
<1>1. ASSUME NEW a \in Attempts, NEW b \in Attempts
      PROVE  /\ <<a, b>> \in F => <<a, a>> \in F /\ <<b, b>> \in F
             /\ <<a, a>> \in F /\ <<b, b>> \in F => <<a, b>> \in F \/ <<b, a>> \in F
             /\ <<a, b>> \in F /\ <<b, a>> \in F => a = b
  BY DEF Linear, Removed
<1>2. ASSUME NEW a \in Attempts, NEW b \in Attempts, NEW d \in Attempts,
             <<a, b>> \in F, <<b, d>> \in F
      PROVE  <<a, d>> \in F
  BY <1>2 DEF Linear, Removed
<1>3. QED
  BY <1>1, <1>2, Zenon DEF Linear

LEMMA InsertEvidenceInv ==
  ASSUME KInv, NEW w \in Workers, NEW c \in Concepts, InsertEvidence(w, c) PROVE KInv'
<1>1. tx[w].pc = "next" /\ c \in tx[w].todo
  BY DEF InsertEvidence
<1>2. PICK r \in TxRow :
         /\ tx[w] = r /\ tx \in [Workers -> TxRow] /\ Progress(r)
         /\ \A d \in Concepts : FlawFits(r, d) /\ ValueFits(r, d)
         /\ \A v \in Workers \ {w} : Apart(r, tx[v])
         /\ \A v \in Workers \ {w} : tx[v].pc # "idle" => tx[v].attempt # r.attempt
         /\ r.attempt \in Attempts /\ ConceptsOf[r.attempt] \subseteq Concepts
  BY <1>1, BusyRow
<1> DEFINE x == r.attempt
<1>3. PICK row \in TxRow :
         /\ tx' = [tx EXCEPT ![w] = row]
         /\ row.attempt = x /\ row.concept = c
         /\ row.todo = r.todo \ {c} /\ row.flaws = r.flaws /\ row.rows = r.rows
         /\ row.wrote = r.wrote
         /\ row.pc = IF Technical(r) THEN "flaw" ELSE "recalculate"
  <2> DEFINE row == [r EXCEPT !.pc = IF quality[r.attempt] = "technical"
                                     THEN "flaw" ELSE "recalculate",
                              !.concept = c, !.todo = r.todo \ {c}]
  <2>1. tx' = [tx EXCEPT ![w] = row]
    BY <1>2 DEF InsertEvidence, TxRow
  <2>2. row \in TxRow
    BY <1>2 DEF TxRow
  <2>3. /\ row.attempt = x /\ row.concept = c
        /\ row.todo = r.todo \ {c} /\ row.flaws = r.flaws /\ row.rows = r.rows
        /\ row.wrote = r.wrote
        /\ row.pc = IF Technical(r) THEN "flaw" ELSE "recalculate"
    BY <1>2 DEF TxRow, Technical
  <2> HIDE DEF row
  <2>4. QED
    BY <2>1, <2>2, <2>3
<1>4. UNCHANGED <<quality, committed, occurrences, mastery, raced>>
  BY DEF InsertEvidence
<1>5. evidence' = [evidence EXCEPT ![c] = @ \cup {<<a, x>> : a \in Rows(c) \cup {x}}]
  BY <1>2 DEF InsertEvidence
<1>6. /\ evidence' \in [Concepts -> SUBSET (Attempts \X Attempts)]
      /\ evidence'[c] = evidence[c] \cup {<<a, x>> : a \in Rows(c) \cup {x}}
      /\ \A d \in Concepts : d # c => evidence'[d] = evidence[d]
  <2>1. evidence \in [Concepts -> SUBSET (Attempts \X Attempts)] /\ Rows(c) \subseteq Attempts
    BY KTypes DEF KInv, Rows
  <2>2. {<<a, x>> : a \in Rows(c) \cup {x}} \subseteq Attempts \X Attempts
    BY <1>2, <2>1
  <2>3. QED
    BY <1>5, <2>1, <2>2
<1>7. <<x, x>> \notin evidence[c]
  <2>1. ~Present(x, c)
    BY <1>1, <1>2 DEF Present, Inserted, EvidenceOf, Progress
  <2>2. QED
    BY <1>2, <2>1 DEF KInv, EvidenceFits
<1>8. /\ Linear(evidence'[c])
      /\ \A a \in Attempts : <<a, a>> \in evidence'[c] <=> (<<a, a>> \in evidence[c] \/ a = x)
      /\ \A a, b \in Attempts \ {x} : <<a, b>> \in evidence'[c] <=> <<a, b>> \in evidence[c]
  <2>1. Linear(evidence[c])
    BY DEF KInv, EvidenceFits
  <2>2. QED
    <3>1. Appended(evidence[c], x, evidence'[c])
      BY <1>6 DEF Rows, Appended
    <3>2. x \in Attempts
      BY <1>2
    <3>3. Linear(evidence'[c])
      BY <1>7, <2>1, <3>1, <3>2, AppendRow, Zenon
    <3>4. QED
      BY <1>7, <2>1, <3>1, <3>2, <3>3 DEF Appended, Linear
<1>9. Frame(x)
  BY <1>2, <1>4, <1>6, <1>8 DEF Frame, Progress
<1>10. EvidenceFits'
  <2>1. tx'[w] = row /\ \A v \in Workers : v # w => tx'[v] = tx[v]
    BY <1>2, <1>3
  <2>2. ASSUME NEW d \in Concepts, NEW a \in Attempts
        PROVE  Present(a, d)' <=> (Present(a, d) \/ (d = c /\ a = x))
    <3>1. Inserted(row, d)' <=> (Inserted(r, d) \/ d = c)
      BY <1>1, <1>2, <1>3 DEF Inserted, Progress
    <3>2. QED
      BY <1>2, <1>3, <1>4, <2>1, <3>1 DEF Present, Inserted, EvidenceOf
  <2>3. ASSUME NEW d \in Concepts
        PROVE  /\ Linear(evidence'[d])
               /\ \A a \in Attempts : <<a, a>> \in evidence'[d] <=> Present(a, d)'
    <3>1. /\ Linear(evidence[d])
          /\ \A a \in Attempts : <<a, a>> \in evidence[d] <=> Present(a, d)
      BY DEF KInv, EvidenceFits
    <3>2. QED
      BY <1>6, <1>8, <2>2, <3>1
  <2>4. QED
    BY <2>3 DEF EvidenceFits
<1>11. RowFits(row)'
  <2>1. Technical(row)' <=> Technical(r)
    BY <1>3, <1>4 DEF Technical
  <2>2. Progress(row)'
    BY <1>1, <1>2, <1>3, <1>4, <2>1 DEF Progress
  <2>3. \A d \in Concepts : FlawFits(row, d)'
    BY <1>1, <1>2, <1>3, <1>4, <2>1 DEF FlawFits
  <2>4. ASSUME NEW d \in Concepts PROVE ValueFits(row, d)'
    <3>1. CASE d # c
      <4> DEFINE V == EvidenceOf(d) \cup {x}
      <4>1. V' = V
        BY <1>4 DEF EvidenceOf
      <4>2. \A W : Earned(d, W)' <=> Earned(d, W)
        BY <1>4, <1>6, <3>1, EarnedKept
      <4>3. Earned(d, V)' <=> Earned(d, V)
        <5> HIDE DEF V
        <5>1. QED
          BY <4>1, <4>2
      <4>4. ValueFits(r, d)
        BY <1>2
      <4>5. QED
        BY <1>1, <1>3, <1>4, <4>1, <4>3, <4>4 DEF ValueFits, Follows, Holds
    <3>2. CASE d = c
      BY <1>1, <1>2, <1>3, <1>4, <3>2 DEF ValueFits, Holds, Progress
    <3>3. QED
      BY <3>1, <3>2
  <2>5. QED
    BY <1>3, <2>2, <2>3, <2>4 DEF RowFits
<1>12. \A v \in Workers \ {w} : Apart(row, tx[v])
  BY <1>1, <1>2, <1>3 DEF Apart
<1>13. quality' \in [Attempts -> Qualities \cup {"none"}]
  BY <1>4, KTypes DEF KInv
<1>14. QED
  BY <1>2, <1>3, <1>4, <1>6, <1>9, <1>10, <1>11, <1>12, <1>13, OwnInv

\* A step that inserts nothing and goes on with the same attempt.
LEMMA OnInv ==
  ASSUME KInv, NEW w \in Workers, NEW row \in TxRow, tx[w].pc # "idle",
         tx' = [tx EXCEPT ![w] = row],
         UNCHANGED <<quality, evidence, committed, occurrences, mastery, raced>>,
         row.pc # "idle", row.attempt = tx[w].attempt, row.todo = tx[w].todo,
         RowFits(row), \A v \in Workers \ {w} : Apart(row, tx[v])
  PROVE  KInv'
<1>1. /\ Progress(tx[w]) /\ tx[w].attempt \in Attempts
      /\ \A v \in Workers \ {w} : tx[v].pc # "idle" => tx[v].attempt # tx[w].attempt
  BY BusyRow
<1>2. Frame(tx[w].attempt)
  BY <1>1 DEF Frame, Progress
<1>3. EvidenceFits'
  <2>1. \A c \in Concepts, a \in Attempts :
           (a \in EvidenceOf(c)' \/ (Inserted(row, c) /\ row.attempt = a))
           <=> (a \in EvidenceOf(c) \/ (Inserted(tx[w], c) /\ tx[w].attempt = a))
    BY DEF Inserted, EvidenceOf
  <2>2. QED
    BY <2>1, SameRows
<1>4. RowFits(row)'
  <2>1. \A c, V : Earned(c, V)' <=> Earned(c, V)
    BY EarnedKept
  <2>2. Progress(row)' /\ \A c \in Concepts : FlawFits(row, c)'
    BY DEF RowFits, Progress, FlawFits, Technical
  <2>3. \A c \in Concepts : ValueFits(row, c)'
    BY <2>1 DEF RowFits, ValueFits, Follows, Holds, EvidenceOf
  <2>4. QED
    BY <2>2, <2>3 DEF RowFits
<1>5. /\ quality' \in [Attempts -> Qualities \cup {"none"}]
      /\ evidence' \in [Concepts -> SUBSET (Attempts \X Attempts)]
  BY KTypes DEF KInv
<1>6. QED
  BY <1>1, <1>2, <1>3, <1>4, <1>5, OwnInv

LEMMA RecordFlawInv == ASSUME KInv, NEW w \in Workers, RecordFlaw(w) PROVE KInv'
<1>1. tx[w].pc = "flaw" /\ ~FlawLocked(w, tx[w].concept)
  BY DEF RecordFlaw
<1>2. PICK r \in TxRow :
         /\ tx[w] = r /\ tx \in [Workers -> TxRow] /\ Progress(r)
         /\ \A d \in Concepts : FlawFits(r, d) /\ ValueFits(r, d)
         /\ \A v \in Workers \ {w} : Apart(r, tx[v])
         /\ ConceptsOf[r.attempt] \subseteq Concepts
  BY <1>1, BusyRow
<1> DEFINE c == r.concept
<1>3. /\ c \in ConceptsOf[r.attempt] \ (r.todo \cup r.wrote) /\ c \in Concepts /\ Technical(r)
      /\ occurrences[c] \in Nat /\ r.flaws \in [Concepts -> Nat]
  BY <1>1, <1>2, KTypes DEF Progress, KInv, TxRow
<1>4. PICK row \in TxRow :
         /\ tx' = [tx EXCEPT ![w] = row]
         /\ row.attempt = r.attempt /\ row.concept = c /\ row.pc = "recalculate"
         /\ row.todo = r.todo /\ row.rows = r.rows /\ row.wrote = r.wrote
         /\ row.flaws[c] = occurrences[c] + 1
         /\ \A d \in Concepts : d # c => row.flaws[d] = r.flaws[d]
  <2> DEFINE flaws == [r.flaws EXCEPT ![c] = occurrences[c] + 1]
             row == [r EXCEPT !.pc = "recalculate", !.flaws = flaws]
  <2>1. /\ flaws \in [Concepts -> Nat] /\ flaws[c] = occurrences[c] + 1
        /\ \A d \in Concepts : d # c => flaws[d] = r.flaws[d]
    BY <1>3
  <2>2. tx' = [tx EXCEPT ![w] = row]
    BY <1>2 DEF RecordFlaw, TxRow
  <2> HIDE DEF flaws
  <2>3. /\ row \in TxRow /\ row.flaws = flaws
        /\ row.attempt = r.attempt /\ row.concept = c /\ row.pc = "recalculate"
        /\ row.todo = r.todo /\ row.rows = r.rows /\ row.wrote = r.wrote
    BY <1>2, <2>1 DEF TxRow
  <2> HIDE DEF row
  <2>4. QED
    BY <2>1, <2>2, <2>3
<1>5. Technical(row)
  BY <1>3, <1>4 DEF Technical
<1>6. Progress(row)
  BY <1>1, <1>2, <1>3, <1>4, <1>5 DEF Progress
<1>7. \A d \in Concepts : FlawFits(row, d)
  BY <1>1, <1>2, <1>3, <1>4, <1>5 DEF FlawFits
<1>8. \A d \in Concepts : ValueFits(row, d)
  BY <1>1, <1>2, <1>3, <1>4 DEF ValueFits, Follows, Holds
<1>9. RowFits(row)
  BY <1>4, <1>6, <1>7, <1>8 DEF RowFits
<1>10. \A v \in Workers \ {w} : Apart(row, tx[v])
  BY <1>1, <1>2, <1>4 DEF Apart, FlawLocked
<1>11. UNCHANGED <<quality, evidence, committed, occurrences, mastery, raced>>
  BY DEF RecordFlaw
<1>12. QED
  BY <1>1, <1>2, <1>4, <1>9, <1>10, <1>11, OnInv

\* The rows that a recalculation sees are the committed ones and its own.
LEMMA VisibleRows ==
  ASSUME KInv, NEW w \in Workers, NEW c \in Concepts, Inserted(tx[w], c)
  PROVE  Visible(w, c) = EvidenceOf(c) \cup {tx[w].attempt}
<1>1. tx[w].attempt \in Attempts /\ committed \subseteq Attempts
  BY BusyRow, KTypes DEF Inserted, KInv
<1>2. \A v \in Workers : tx[v].pc # "idle" => tx[v].attempt \notin committed
  BY DEF KInv, RowFits, Progress
<1>3. \A a \in Attempts : a \in Rows(c) <=> Present(a, c)
  <2>1. EvidenceFits
    BY DEF KInv
  <2>2. \A a \in Attempts : <<a, a>> \in evidence[c] <=> Present(a, c)
    BY <2>1, Zenon DEF EvidenceFits
  <2>3. \A a : a \in Rows(c) <=> a \in Attempts /\ <<a, a>> \in evidence[c]
    BY DEF Rows
  <2>4. QED
    BY <2>2, <2>3, Zenon
<1>4. ASSUME NEW a \in Attempts
      PROVE  a \in Visible(w, c) <=> a \in EvidenceOf(c) \cup {tx[w].attempt}
  <2>1. CASE a \in committed
    BY <1>2, <1>3, <2>1 DEF Visible, Present, Inserted, EvidenceOf
  <2>2. CASE a \notin committed
    BY <1>3, <2>2 DEF Visible, Present, EvidenceOf
  <2>3. QED
    BY <2>1, <2>2
<1>5. Visible(w, c) \subseteq Attempts /\ EvidenceOf(c) \cup {tx[w].attempt} \subseteq Attempts
  BY <1>1 DEF Visible, Rows, EvidenceOf
<1>6. QED
  BY <1>4, <1>5

\* The counts that recalculate takes from them, and the value they give.
LEMMA ReadValue ==
  ASSUME KInv, NEW w \in Workers, NEW c \in Concepts, Inserted(tx[w], c),
         NEW rows, rows = LatestWindow(c, Visible(w, c)),
         NEW value,
         value = [state |-> NextState(mastery[c].state, Cardinality(rows),
                                      CountOf(rows, Passes), CountOf(rows, {"strong"}),
                                      ActiveFlaw(w, c)),
                  count |-> Cardinality(rows)]
  PROVE  /\ value \in MasteryRow
         /\ Follows(value, c, EvidenceOf(c) \cup {tx[w].attempt}, ActiveFlaw(w, c))
<1> DEFINE V == EvidenceOf(c) \cup {tx[w].attempt}
           n == Cardinality(rows)
<1>1. /\ V \subseteq Attempts /\ IsFiniteSet(V) /\ V # {} /\ Visible(w, c) = V
      /\ V \in SUBSET Rows(c)
  <2>1. Visible(w, c) = V /\ Visible(w, c) \subseteq Rows(c) /\ Rows(c) \subseteq Attempts
    BY VisibleRows DEF Visible, Rows
  <2>2. QED
    BY <2>1, KnowledgeAssumption, FS_Subset DEF KnowledgeAssumption
<1> HIDE DEF V
<1>2. n = InWindow(Cardinality(V))
  <2>1. Linear(evidence[c])
    BY DEF KInv, EvidenceFits
  <2>2. QED
    BY <1>1, <2>1, WindowCounts
<1>3. n \in 0..Window /\ n \in Nat \ {0}
  <2>1. Cardinality(V) \in Nat /\ Cardinality(V) # 0
    BY <1>1, FS_CardinalityType, FS_EmptySet
  <2>2. QED
    BY <1>2, <2>1, MasteryAssumption DEF InWindow, MasteryAssumption
<1>4. CountOf(rows, Passes) \in 0..n /\ CountOf(rows, {"strong"}) \in 0..CountOf(rows, Passes)
  <2> DEFINE P == {a \in rows : quality[a] \in Passes}
             S == {a \in rows : quality[a] \in {"strong"}}
  <2>1. IsFiniteSet(rows) /\ P \subseteq rows /\ S \subseteq P
    <3>1. rows \subseteq V
      BY <1>1 DEF LatestWindow
    <3>2. QED
      BY <1>1, <3>1, FS_Subset DEF Passes
  <2> HIDE DEF P, S
  <2>2. /\ IsFiniteSet(P) /\ IsFiniteSet(S)
        /\ Cardinality(P) <= n /\ Cardinality(S) <= Cardinality(P)
    BY <2>1, FS_Subset
  <2>3. Cardinality(P) \in Nat /\ Cardinality(S) \in Nat
    BY <2>2, FS_CardinalityType
  <2>4. QED
    BY <1>3, <2>2, <2>3 DEF CountOf, P, S
<1>5. mastery[c].state \in States /\ ActiveFlaw(w, c) \in BOOLEAN
  BY KTypes DEF KInv, ActiveFlaw
<1> HIDE DEF n
<1>6. value.count = n /\ value.state = NextState(mastery[c].state, n, CountOf(rows, Passes),
                                                 CountOf(rows, {"strong"}), ActiveFlaw(w, c))
  BY DEF n
<1>7. /\ value.state \in States /\ value.state + 1 >= mastery[c].state
      /\ mastery[c].state <= Insufficient => value.state <= Developing
      /\ ActiveFlaw(w, c) => value.state # Mastered
  BY <1>3, <1>4, <1>5, <1>6, MasteryRule
<1>8. value.state = Mastered =>
         /\ n >= MinEvidence
         /\ Reaches(CountOf(rows, Passes), n, MasteredPct)
         /\ Reaches(CountOf(rows, {"strong"}), n, StrongPct)
  BY <1>3, <1>4, <1>5, <1>6, MasteredEarned
<1>9. value.state = Mastered => Earned(c, V)
  BY <1>1, <1>3, <1>8 DEF Earned, n
<1>10. value \in MasteryRow
  BY <1>3, <1>6, <1>7 DEF MasteryRow, n
<1>11. QED
  BY <1>2, <1>6, <1>7, <1>9, <1>10 DEF Follows, V

LEMMA RecalculateInv == ASSUME KInv, NEW w \in Workers, Recalculate(w) PROVE KInv'
<1>1. tx[w].pc = "recalculate"
  BY DEF Recalculate
<1>2. PICK r \in TxRow :
         /\ tx[w] = r /\ tx \in [Workers -> TxRow] /\ Progress(r)
         /\ \A d \in Concepts : FlawFits(r, d) /\ ValueFits(r, d)
         /\ \A v \in Workers \ {w} : Apart(r, tx[v])
         /\ ConceptsOf[r.attempt] \subseteq Concepts
  BY <1>1, BusyRow
<1> DEFINE c == r.concept
<1>3. c \in ConceptsOf[r.attempt] \ (r.todo \cup r.wrote) /\ c \in Concepts
  BY <1>1, <1>2 DEF Progress
<1>4. PICK row \in TxRow :
         /\ tx' = [tx EXCEPT ![w] = row]
         /\ row.attempt = r.attempt /\ row.concept = c /\ row.pc = "write"
         /\ row.todo = r.todo /\ row.wrote = r.wrote /\ row.flaws = r.flaws
         /\ \A d \in Concepts : d # c => row.rows[d] = r.rows[d]
         /\ Follows(row.rows[c], c, EvidenceOf(c) \cup {r.attempt}, ActiveFlaw(w, c))
  <2> DEFINE rows == LatestWindow(c, Visible(w, c))
             value == [state |-> NextState(mastery[c].state, Cardinality(rows),
                                           CountOf(rows, Passes), CountOf(rows, {"strong"}),
                                           ActiveFlaw(w, c)),
                       count |-> Cardinality(rows)]
             row == [r EXCEPT !.pc = "write", !.rows = [r.rows EXCEPT ![c] = value]]
  <2>1. tx' = [tx EXCEPT ![w] = row]
    BY <1>2 DEF Recalculate, TxRow
  <2>2. Inserted(tx[w], c)
    BY <1>1, <1>2, <1>3 DEF Inserted
  <2> HIDE DEF rows
  <2>3. rows = LatestWindow(c, Visible(w, c))
    BY DEF rows
  <2>4. /\ value \in MasteryRow
        /\ Follows(value, c, EvidenceOf(c) \cup {tx[w].attempt}, ActiveFlaw(w, c))
    BY <1>3, <2>2, <2>3, ReadValue
  <2> HIDE DEF value
  <2>5. /\ row \in TxRow
        /\ row.attempt = r.attempt /\ row.concept = c /\ row.pc = "write"
        /\ row.todo = r.todo /\ row.wrote = r.wrote /\ row.flaws = r.flaws
        /\ row.rows[c] = value /\ \A d \in Concepts : d # c => row.rows[d] = r.rows[d]
    BY <1>2, <1>3, <2>4 DEF TxRow
  <2>6. Follows(row.rows[c], c, EvidenceOf(c) \cup {r.attempt}, ActiveFlaw(w, c))
    BY <1>2, <2>4, <2>5
  <2> HIDE DEF row
  <2>7. QED
    BY <2>1, <2>5, <2>6
<1>5. Technical(row) <=> Technical(r)
  BY <1>4 DEF Technical
<1>6. Progress(row)
  BY <1>1, <1>2, <1>4, <1>5 DEF Progress
<1>7. \A d \in Concepts : FlawFits(row, d)
  BY <1>1, <1>2, <1>4, <1>5 DEF FlawFits
<1>8. ASSUME NEW d \in Concepts PROVE ValueFits(row, d)
  <2>1. CASE d = c
    BY <1>2, <1>4, <2>1 DEF ValueFits, Follows, ActiveFlaw
  <2>2. CASE d # c
    BY <1>1, <1>2, <1>4, <2>2 DEF ValueFits, Follows, Holds
  <2>3. QED
    BY <2>1, <2>2
<1>9. RowFits(row)
  BY <1>4, <1>6, <1>7, <1>8 DEF RowFits
<1>10. \A v \in Workers \ {w} : Apart(row, tx[v])
  BY <1>1, <1>2, <1>4 DEF Apart
<1>11. UNCHANGED <<quality, evidence, committed, occurrences, mastery, raced>>
  BY DEF Recalculate
<1>12. QED
  BY <1>1, <1>2, <1>4, <1>9, <1>10, <1>11, OnInv

LEMMA WriteMasteryInv == ASSUME KInv, NEW w \in Workers, WriteMastery(w) PROVE KInv'
<1>1. tx[w].pc = "write" /\ \A v \in Workers \ {w} : tx[w].concept \notin tx[v].wrote
  BY DEF WriteMastery
<1>2. PICK r \in TxRow :
         /\ tx[w] = r /\ tx \in [Workers -> TxRow] /\ Progress(r)
         /\ \A d \in Concepts : FlawFits(r, d) /\ ValueFits(r, d)
         /\ \A v \in Workers \ {w} : Apart(r, tx[v])
         /\ ConceptsOf[r.attempt] \subseteq Concepts
  BY <1>1, BusyRow
<1> DEFINE c == r.concept
<1>3. c \in ConceptsOf[r.attempt] \ (r.todo \cup r.wrote) /\ c \in Concepts
  BY <1>1, <1>2 DEF Progress
<1>4. PICK row \in TxRow :
         /\ tx' = [tx EXCEPT ![w] = row]
         /\ row.attempt = r.attempt /\ row.pc = "next"
         /\ row.todo = r.todo /\ row.rows = r.rows /\ row.wrote = r.wrote \cup {c}
         /\ row.flaws = r.flaws
  <2> DEFINE row == [r EXCEPT !.pc = "next", !.concept = None, !.wrote = r.wrote \cup {c}]
  <2>1. tx' = [tx EXCEPT ![w] = row]
    BY <1>2 DEF WriteMastery, TxRow
  <2>2. /\ row \in TxRow
        /\ row.attempt = r.attempt /\ row.pc = "next"
        /\ row.todo = r.todo /\ row.rows = r.rows /\ row.wrote = r.wrote \cup {c}
        /\ row.flaws = r.flaws
    BY <1>2, <1>3 DEF TxRow
  <2> HIDE DEF row
  <2>3. QED
    BY <2>1, <2>2
<1>5. Technical(row) <=> Technical(r)
  BY <1>4 DEF Technical
<1>6. Progress(row)
  BY <1>1, <1>2, <1>3, <1>4, <1>5 DEF Progress
<1>7. \A d \in Concepts : FlawFits(row, d)
  BY <1>1, <1>2, <1>4, <1>5 DEF FlawFits
<1>8. \A d \in Concepts : ValueFits(row, d)
  BY <1>1, <1>2, <1>4 DEF ValueFits, Follows, Holds
<1>9. RowFits(row)
  BY <1>4, <1>6, <1>7, <1>8 DEF RowFits
<1>10. \A v \in Workers \ {w} : Apart(row, tx[v])
  BY <1>1, <1>2, <1>4 DEF Apart
<1>11. UNCHANGED <<quality, evidence, committed, occurrences, mastery, raced>>
  BY DEF WriteMastery
<1>12. QED
  BY <1>1, <1>2, <1>4, <1>9, <1>10, <1>11, OnInv

LEMMA EvaluateInv ==
  ASSUME KInv, NEW w \in Workers, NEW a \in Attempts, NEW outcome \in Outcomes, NEW kind \in Kinds,
         Evaluate(w, a, outcome, kind)
  PROVE  KInv'
<1>1. /\ tx[w].pc = "idle" /\ quality[a] = "none"
      /\ quality' = [quality EXCEPT ![a] = Classify(outcome, kind)]
      /\ UNCHANGED <<evidence, committed, occurrences, mastery, raced>>
  BY DEF Evaluate
<1>2. tx \in [Workers -> TxRow] /\ tx[w] = Idle
  BY <1>1, KTypes DEF KInv, RowFits
<1>3. PICK row \in TxRow :
         /\ tx' = [tx EXCEPT ![w] = row]
         /\ row.pc = "next" /\ row.attempt = a /\ row.todo = ConceptsOf[a] /\ row.wrote = {}
         /\ \A c \in Concepts : row.flaws[c] = 0
  <2> DEFINE row == [Idle EXCEPT !.pc = "next", !.attempt = a, !.todo = ConceptsOf[a]]
  <2>1. ConceptsOf[a] \in SUBSET Concepts
    BY KnowledgeAssumption DEF KnowledgeAssumption
  <2>2. tx' = [tx EXCEPT ![w] = row]
    BY DEF Evaluate
  <2>3. /\ row \in TxRow
        /\ row.pc = "next" /\ row.attempt = a /\ row.todo = ConceptsOf[a] /\ row.wrote = {}
        /\ \A c \in Concepts : row.flaws[c] = 0
    <3>1. Idle \in TxRow /\ Idle.wrote = {} /\ \A c \in Concepts : Idle.flaws[c] = 0
      BY IdleFits
    <3>2. QED
      BY <2>1, <3>1 DEF TxRow
  <2> HIDE DEF row
  <2>4. QED
    BY <2>2, <2>3
<1>4. /\ quality \in [Attempts -> Qualities \cup {"none"}]
      /\ quality' \in [Attempts -> Qualities \cup {"none"}]
      /\ quality'[a] \in Qualities /\ quality'[a] # "none"
      /\ \A b \in Attempts \ {a} : quality'[b] = quality[b]
  <2>1. quality \in [Attempts -> Qualities \cup {"none"}]
    BY KTypes DEF KInv
  <2>2. Classify(outcome, kind) \in Qualities /\ Classify(outcome, kind) # "none"
    BY DEF Classify, Outcomes, Qualities, Passes
  <2>3. QED
    BY <1>1, <2>1, <2>2
<1>5. a \notin committed
  BY <1>1 DEF KInv
<1>6. Frame(a)
  BY <1>1, <1>4, <1>5 DEF Frame
<1>7. \A v \in Workers \ {w} : tx[v].pc # "idle" => tx[v].attempt # a
  BY <1>1 DEF KInv, RowFits, Progress
<1>8. EvidenceFits'
  <2>1. \A c : ~Inserted(row, c) /\ ~Inserted(tx[w], c) /\ EvidenceOf(c)' = EvidenceOf(c)
    BY <1>1, <1>3 DEF Inserted, EvidenceOf
  <2>2. evidence' = evidence /\ tx' = [tx EXCEPT ![w] = row]
    BY <1>1, <1>3
  <2>3. \A c \in Concepts, b \in Attempts :
           (b \in EvidenceOf(c)' \/ (Inserted(row, c) /\ row.attempt = b))
           <=> (b \in EvidenceOf(c) \/ (Inserted(tx[w], c) /\ tx[w].attempt = b))
    BY <2>1
  <2>4. QED
    BY <2>2, <2>3, SameRows, Zenon
<1>9. RowFits(row)'
  <2>1. Progress(row)'
    BY <1>1, <1>3, <1>4, <1>5 DEF Progress
  <2>2. QED
    BY <1>3, <2>1 DEF RowFits, FlawFits, ValueFits, Holds
<1>10. \A v \in Workers \ {w} : Apart(row, tx[v])
  BY <1>3, <1>7 DEF Apart
<1>11. evidence' \in [Concepts -> SUBSET (Attempts \X Attempts)]
  BY <1>1, KTypes DEF KInv
<1>12. QED
  BY <1>3, <1>4, <1>6, <1>7, <1>8, <1>9, <1>10, <1>11, OwnInv

LEMMA AbortInv == ASSUME KInv, NEW w \in Workers, Abort(w) PROVE KInv'
<1>1. tx[w].pc # "idle"
  BY DEF Abort
<1>2. PICK r \in TxRow :
         /\ tx[w] = r /\ tx \in [Workers -> TxRow] /\ Progress(r)
         /\ \A v \in Workers \ {w} : tx[v].pc # "idle" => tx[v].attempt # r.attempt
         /\ r.attempt \in Attempts
  BY <1>1, BusyRow
<1> DEFINE x == r.attempt
<1>3. /\ quality' = [quality EXCEPT ![x] = "none"]
      /\ evidence' = [c \in Concepts |-> {p \in evidence[c] : x \notin {p[1], p[2]}}]
      /\ tx' = [tx EXCEPT ![w] = Idle]
      /\ UNCHANGED <<committed, occurrences, mastery, raced>>
  BY <1>2 DEF Abort
<1>4. /\ quality' \in [Attempts -> Qualities \cup {"none"}]
      /\ \A b \in Attempts \ {x} : quality'[b] = quality[b]
  BY <1>2, <1>3, KTypes DEF KInv
<1>5. /\ evidence' \in [Concepts -> SUBSET (Attempts \X Attempts)]
      /\ \A c \in Concepts : Removed(evidence[c], x, evidence'[c])
  <2>1. evidence \in [Concepts -> SUBSET (Attempts \X Attempts)]
    BY KTypes DEF KInv
  <2>2. \A c \in Concepts : evidence'[c] = {p \in evidence[c] : x \notin {p[1], p[2]}}
    BY <1>3
  <2>3. \A c \in Concepts : Removed(evidence[c], x, evidence'[c])
    BY <2>2 DEF Removed
  <2>4. QED
    BY <1>3, <2>1, <2>3
<1>6. Frame(x)
  BY <1>2, <1>3, <1>4, <1>5 DEF Frame, Removed, Progress
<1>7. tx'[w] = Idle /\ \A v \in Workers : v # w => tx'[v] = tx[v]
  BY <1>2, <1>3
<1>8. ASSUME NEW c \in Concepts, NEW b \in Attempts
      PROVE  Present(b, c)' <=> (Present(b, c) /\ b # x)
  <2>1. x \notin committed /\ EvidenceOf(c)' = EvidenceOf(c)
    BY <1>2, <1>3 DEF Progress, EvidenceOf
  <2>2. ~Inserted(Idle, c)
    BY IdleFits DEF Inserted
  <2>3. QED
    BY <1>2, <1>7, <2>1, <2>2 DEF Present, Inserted, EvidenceOf
<1>9. EvidenceFits'
  <2>1. ASSUME NEW c \in Concepts
        PROVE  /\ Linear(evidence'[c])
               /\ \A b \in Attempts : <<b, b>> \in evidence'[c] <=> Present(b, c)'
    <3>1. /\ Linear(evidence[c])
          /\ \A b \in Attempts : <<b, b>> \in evidence[c] <=> Present(b, c)
      BY DEF KInv, EvidenceFits
    <3>2. Removed(evidence[c], x, evidence'[c])
      BY <1>5
    <3>3. Linear(evidence'[c])
      BY <3>1, <3>2, RemoveRow, Zenon
    <3>4. QED
      BY <1>8, <3>1, <3>2, <3>3 DEF Removed
  <2>2. QED
    BY <2>1 DEF EvidenceFits
<1>10. RowFits(Idle)'
  BY IdleFits DEF RowFits, FlawFits, ValueFits, Holds
<1>11. \A v \in Workers \ {w} : Apart(Idle, tx[v])
  BY IdleFits DEF Apart
<1>12. Idle \in TxRow
  BY IdleFits
<1>13. QED
  BY <1>2, <1>3, <1>4, <1>5, <1>6, <1>9, <1>10, <1>11, <1>12, OwnInv

\* A commit makes the transaction's value of each concept it wrote the
\* committed one; what the others have read stays right for the rest.
LEMMA CommitInv == ASSUME KInv, NEW w \in Workers, Commit(w) PROVE KInv'
<1>1. tx[w].pc # "idle"
  BY DEF Commit
<1>2. PICK r \in TxRow :
         /\ tx[w] = r /\ tx \in [Workers -> TxRow] /\ Progress(r)
         /\ \A c \in Concepts : FlawFits(r, c) /\ ValueFits(r, c)
         /\ \A v \in Workers \ {w} : Apart(r, tx[v])
         /\ \A v \in Workers \ {w} : tx[v].pc # "idle" => tx[v].attempt # r.attempt
         /\ r.attempt \in Attempts /\ ConceptsOf[r.attempt] \subseteq Concepts
  BY <1>1, BusyRow
<1> DEFINE x == r.attempt
<1>3. /\ r.pc = "next" /\ r.todo = {} /\ committed' = committed \cup {x}
      /\ occurrences' = [c \in Concepts |->
            IF r.flaws[c] > 0 THEN r.flaws[c] ELSE occurrences[c]]
      /\ mastery' = [c \in Concepts |-> IF c \in r.wrote THEN r.rows[c] ELSE mastery[c]]
      /\ raced' = raced \cup
            {c \in r.wrote : \E v \in Workers \ {w} : tx[v].pc = "write" /\ tx[v].concept = c}
      /\ tx' = [tx EXCEPT ![w] = Idle]
      /\ UNCHANGED <<quality, evidence>>
  BY <1>2 DEF Commit
<1>4. /\ x \in Attempts \ committed /\ quality[x] # "none" /\ r.wrote = ConceptsOf[x]
      /\ r.flaws \in [Concepts -> Nat] /\ r.rows \in [Concepts -> MasteryRow]
      /\ r.wrote \subseteq Concepts /\ committed \subseteq Attempts
  BY <1>2, <1>3, KTypes DEF Progress, TxRow, KInv
<1>5. ASSUME NEW c \in Concepts
      PROVE  /\ r.flaws[c] > 0 <=> (c \in ConceptsOf[x] /\ quality[x] = "technical")
             /\ r.flaws[c] > 0 => c \in r.wrote /\ r.flaws[c] = occurrences[c] + 1
  BY <1>2, <1>3 DEF Progress, FlawFits, Technical
<1>6. ASSUME NEW c \in Concepts
      PROVE  /\ EvidenceOf(c)' = IF c \in r.wrote THEN EvidenceOf(c) \cup {x} ELSE EvidenceOf(c)
             /\ occurrences'[c] = IF r.flaws[c] > 0 THEN r.flaws[c] ELSE occurrences[c]
             /\ mastery'[c] = IF c \in r.wrote THEN r.rows[c] ELSE mastery[c]
  BY <1>3, <1>4 DEF EvidenceOf
<1>7. \A c, V : Earned(c, V)' <=> Earned(c, V)
  BY <1>3, EarnedKept
<1>8. tx'[w] = Idle /\ \A v \in Workers : v # w => tx'[v] = tx[v]
  BY <1>2, <1>3
<1>9. TypeOK'
  <2>1. quality \in [Attempts -> Qualities \cup {"none"}]
        /\ evidence \in [Concepts -> SUBSET (Attempts \X Attempts)]
        /\ occurrences \in [Concepts -> Nat] /\ mastery \in [Concepts -> MasteryRow]
        /\ raced \subseteq Concepts
    BY KTypes DEF KInv
  <2>2. occurrences' \in [Concepts -> Nat]
    BY <1>3, <1>4, <2>1
  <2>3. mastery' \in [Concepts -> MasteryRow]
    BY <1>3, <1>4, <2>1
  <2>4. tx' \in [Workers -> TxRow]
    BY <1>2, <1>3, IdleFits
  <2>5. raced' \subseteq Concepts /\ committed' \subseteq Attempts
    BY <1>3, <1>4, <2>1
  <2>6. QED
    BY <1>3, <2>1, <2>2, <2>3, <2>4, <2>5 DEF TypeOK, TxRow
<1>10. RowFits(Idle)'
  BY IdleFits DEF RowFits, FlawFits, ValueFits, Holds
<1>11. ASSUME NEW s \in TxRow, RowFits(s), Apart(r, s), s.pc # "idle" => s.attempt # x,
              \A c \in Concepts : s.pc = "write" /\ s.concept = c /\ c \in r.wrote => c \in raced'
       PROVE  RowFits(s)'
  <2>1. ASSUME s.pc # "idle" PROVE Progress(s)'
    <3>1. Progress(s)
      BY <1>11, <2>1 DEF RowFits
    <3>2. QED
      BY <1>3, <1>11, <2>1, <3>1 DEF Progress, Technical
  <2>2. ASSUME NEW c \in Concepts PROVE FlawFits(s, c)'
    <3>1. FlawFits(s, c) /\ ~(r.flaws[c] > 0 /\ s.flaws[c] > 0)
      BY <1>11 DEF RowFits, Apart
    <3>2. QED
      BY <1>3, <1>6, <3>1 DEF FlawFits, Technical
  <2>3. ASSUME NEW c \in Concepts, c \notin raced', Holds(s, c)
        PROVE  Follows(s.rows[c], c, EvidenceOf(c) \cup {s.attempt},
                       occurrences[c] >= Threshold \/ s.flaws[c] >= Threshold)'
    <3>1. c \notin r.wrote
      BY <1>11, <2>3 DEF Holds, Apart
    <3>2. /\ EvidenceOf(c)' = EvidenceOf(c) /\ occurrences'[c] = occurrences[c]
          /\ mastery'[c] = mastery[c] /\ c \notin raced
      BY <1>3, <1>5, <1>6, <2>3, <3>1
    <3>3. Follows(s.rows[c], c, EvidenceOf(c) \cup {s.attempt},
                  occurrences[c] >= Threshold \/ s.flaws[c] >= Threshold)
      BY <1>11, <2>3, <3>2 DEF RowFits, ValueFits
    <3>4. QED
      BY <1>7, <3>2, <3>3 DEF Follows
  <2>4. ASSUME NEW c \in Concepts PROVE ValueFits(s, c)'
    BY <2>3 DEF ValueFits, Holds
  <2>5. QED
    BY <1>11, <2>1, <2>2, <2>4 DEF RowFits
<1>12. \A v \in Workers : RowFits(tx[v])'
  <2>1. ASSUME NEW v \in Workers, v # w PROVE RowFits(tx[v])'
    <3>1. /\ tx'[v] = tx[v] /\ tx[v] \in TxRow /\ RowFits(tx[v]) /\ Apart(r, tx[v])
          /\ tx[v].pc # "idle" => tx[v].attempt # x
      BY <1>2, <1>8, <2>1 DEF KInv
    <3>2. \A c \in Concepts :
             tx[v].pc = "write" /\ tx[v].concept = c /\ c \in r.wrote => c \in raced'
      BY <1>3, <2>1
    <3>3. QED
      BY <1>11, <3>1, <3>2
  <2>2. QED
    BY <1>8, <1>10, <2>1
<1>13. \A u, v \in Workers : u # v => Apart(tx[u], tx[v])'
  BY <1>8, IdleFits DEF KInv, Apart
<1>14. \A b \in committed' : quality'[b] # "none"
  BY <1>3, <1>4 DEF KInv
<1>15. EvidenceFits'
  <2>1. \A c \in Concepts, b \in Attempts :
           (b \in EvidenceOf(c)' \/ (Inserted(Idle, c) /\ Idle.attempt = b))
           <=> (b \in EvidenceOf(c) \/ (Inserted(tx[w], c) /\ tx[w].attempt = b))
    BY <1>2, <1>3, <1>4, <1>6, IdleFits DEF Inserted
  <2>2. evidence' = evidence /\ tx' = [tx EXCEPT ![w] = Idle]
    BY <1>3
  <2>3. QED
    BY <2>1, <2>2, SameRows, Zenon
\* The values that become the committed ones.
<1>16. ASSUME NEW c \in Concepts \ raced', c \in r.wrote
       PROVE  /\ c \in Concepts \ raced
              /\ mastery'[c].count = InWindow(Cardinality(EvidenceOf(c)'))
              /\ occurrences'[c] >= Threshold => mastery'[c].state # Mastered
              /\ mastery'[c].state = Mastered => Earned(c, EvidenceOf(c)')
  <2>1. c \in Concepts /\ c \notin raced /\ Holds(r, c) /\ ValueFits(r, c)
    BY <1>2, <1>3, <1>16 DEF Holds
  <2>2. Follows(r.rows[c], c, EvidenceOf(c) \cup {x},
                occurrences[c] >= Threshold \/ r.flaws[c] >= Threshold)
    BY <2>1 DEF ValueFits
  <2>3. /\ EvidenceOf(c)' = EvidenceOf(c) \cup {x} /\ mastery'[c] = r.rows[c]
        /\ occurrences'[c] >= Threshold =>
              occurrences[c] >= Threshold \/ r.flaws[c] >= Threshold
    BY <1>6, <1>16, <2>1
  <2>4. QED
    BY <2>1, <2>2, <2>3 DEF Follows
<1>17. ASSUME NEW c \in Concepts \ raced', c \notin r.wrote
       PROVE  /\ c \in Concepts \ raced
              /\ mastery'[c] = mastery[c] /\ occurrences'[c] = occurrences[c]
              /\ EvidenceOf(c)' = EvidenceOf(c)
  BY <1>3, <1>5, <1>6, <1>17
<1>18. FlawBlocksMastered'
  <2>1. ASSUME NEW c \in Concepts \ raced', occurrences'[c] >= Threshold
        PROVE  mastery'[c].state # Mastered
    BY <1>16, <1>17, <2>1 DEF KInv, FlawBlocksMastered
  <2>2. QED
    BY <2>1 DEF FlawBlocksMastered
<1>19. CountsAllEvidence'
  <2>1. ASSUME NEW c \in Concepts \ raced'
        PROVE  mastery'[c].count = InWindow(Cardinality(EvidenceOf(c)'))
    BY <1>16, <1>17 DEF KInv, CountsAllEvidence, InWindow
  <2>2. QED
    BY <2>1 DEF CountsAllEvidence, InWindow
<1>20. LatestEarned'
  <2>1. \A c \in Concepts \ raced : mastery[c].state = Mastered => Earned(c, EvidenceOf(c))
    BY DEF KInv, LatestEarned
  <2>2. ASSUME NEW c \in Concepts \ raced', mastery'[c].state = Mastered
        PROVE  Earned(c, EvidenceOf(c)')
    BY <1>16, <1>17, <2>1, <2>2
  <2>3. ASSUME NEW c \in Concepts \ raced', mastery'[c].state = Mastered
        PROVE  Earned(c, EvidenceOf(c))'
    <3>1. PICK V : V = EvidenceOf(c)'
      OBVIOUS
    <3>2. Earned(c, V)'
      BY <1>7, <2>2, <2>3, <3>1
    <3>3. QED
      BY <3>1, <3>2
  <2>4. QED
    BY <2>3 DEF LatestEarned
<1>21. FlawCountExact'
  <2> SUFFICES ASSUME NEW c \in Concepts
               PROVE  occurrences'[c] =
                         Cardinality({b \in EvidenceOf(c)' : quality[b] = "technical"})
    BY <1>3 DEF FlawCountExact
  <2> DEFINE S == {b \in EvidenceOf(c) : quality[b] = "technical"}
             T == {b \in EvidenceOf(c)' : quality[b] = "technical"}
  <2>1. occurrences[c] = Cardinality(S)
    BY DEF KInv, FlawCountExact
  <2>2. IsFiniteSet(S) /\ x \notin S
    <3>1. S \subseteq Attempts /\ x \notin S
      BY <1>4 DEF EvidenceOf
    <3>2. QED
      BY <3>1, KnowledgeAssumption, FS_Subset DEF KnowledgeAssumption
  <2>3. CASE r.flaws[c] > 0
    <3>1. T = S \cup {x}
      BY <1>5, <1>6, <2>3
    <3>2. Cardinality(S \cup {x}) = Cardinality(S) + 1
      BY <2>2, FS_AddElement
    <3>3. occurrences'[c] = occurrences[c] + 1
      BY <1>5, <1>6, <2>3
    <3>4. QED
      BY <2>1, <3>1, <3>2, <3>3
  <2>4. CASE ~(r.flaws[c] > 0)
    <3>1. T = S
      BY <1>4, <1>5, <1>6, <2>4
    <3>2. QED
      BY <1>6, <2>1, <2>4, <3>1
  <2>5. QED
    BY <2>3, <2>4
<1>22. QED
  BY <1>9, <1>12, <1>13, <1>14, <1>15, <1>18, <1>19, <1>20, <1>21 DEF KInv

LEMMA KNextInv == KInv /\ [Next]_vars => KInv'
<1> SUFFICES ASSUME KInv, [Next]_vars PROVE KInv'
  OBVIOUS
<1>1. CASE UNCHANGED vars
  <2>1. UNCHANGED <<quality, evidence, committed, occurrences, mastery, tx, raced>>
    BY <1>1 DEF vars
  <2>2. \A c, V : Earned(c, V)' <=> Earned(c, V)
    BY <2>1, EarnedKept
  <2>3. ASSUME NEW w \in Workers PROVE RowFits(tx[w])'
    <3>1. RowFits(tx[w])
      BY DEF KInv
    <3>2. \A c \in Concepts : ValueFits(tx[w], c)'
      BY <2>1, <2>2, <3>1 DEF RowFits, ValueFits, Follows, Holds, EvidenceOf
    <3>3. QED
      BY <2>1, <3>1, <3>2 DEF RowFits, Progress, FlawFits, Technical
  <2>4. TypeOK'
    BY <2>1 DEF KInv, TypeOK
  <2>5. /\ \A v, w \in Workers : v # w => Apart(tx[v], tx[w])'
        /\ \A a \in committed' : quality'[a] # "none"
        /\ FlawBlocksMastered' /\ FlawCountExact' /\ CountsAllEvidence'
    BY <2>1 DEF KInv, Apart, FlawBlocksMastered, FlawCountExact, CountsAllEvidence, EvidenceOf
  <2>6. EvidenceFits'
    <3>1. \A c \in Concepts, a \in Attempts : Present(a, c)' <=> Present(a, c)
      BY <2>1 DEF Present, Inserted, EvidenceOf
    <3>2. ASSUME NEW c \in Concepts
          PROVE  /\ Linear(evidence[c])'
                 /\ \A a \in Attempts : <<a, a>> \in evidence'[c] <=> Present(a, c)'
      <4>1. /\ Linear(evidence[c])
            /\ \A a \in Attempts : <<a, a>> \in evidence[c] <=> Present(a, c)
        BY DEF KInv, EvidenceFits
      <4>2. QED
        BY <2>1, <3>1, <4>1
    <3>3. QED
      BY <3>2 DEF EvidenceFits
  <2>7. LatestEarned'
    <3>1. \A c \in Concepts \ raced : mastery[c].state = Mastered => Earned(c, EvidenceOf(c))
      BY DEF KInv, LatestEarned
    <3>2. \A c : EvidenceOf(c)' = EvidenceOf(c)
      BY <2>1 DEF EvidenceOf
    <3>3. \A c \in Concepts \ raced' : mastery'[c].state = Mastered => Earned(c, EvidenceOf(c))'
      BY <2>1, <2>2, <3>1, <3>2
    <3>4. QED
      BY <3>3 DEF LatestEarned
  <2>8. QED
    BY <2>3, <2>4, <2>5, <2>6, <2>7 DEF KInv
<1>2. CASE Next
  BY <1>2, EvaluateInv, InsertEvidenceInv, RecordFlawInv, RecalculateInv, WriteMasteryInv,
     CommitInv, AbortInv
     DEF Next
<1>3. QED
  BY <1>1, <1>2

LEMMA AlwaysKInv == Spec => []KInv
<1>1. QED
  BY KInitInv, KNextInv, PTL DEF Spec
-----------------------------------------------------------------------------
\* Rows and transactions keep the shapes the code gives them; a mastery value
\* never counts more evidence than the window holds.
THEOREM KnowledgeTypes == Spec => []TypeOK
<1>1. KInv => TypeOK
  BY DEF KInv
<1>2. QED
  BY <1>1, AlwaysKInv, PTL

\* Occurrences of technical errors are counted exactly, however many
\* transactions count and roll back at the same time.
THEOREM FlawsCounted == Spec => []FlawCountExact
<1>1. KInv => FlawCountExact
  BY DEF KInv
<1>2. QED
  BY <1>1, AlwaysKInv, PTL

\* The stored value counts all the committed evidence that the window takes,
\* unless two recalculations of the concept overlapped.
THEOREM EvidenceCounted == Spec => []CountsAllEvidence
<1>1. KInv => CountsAllEvidence
  BY DEF KInv
<1>2. QED
  BY <1>1, AlwaysKInv, PTL

\* Mastered is what the latest evidence there is asks for, without an active
\* flaw, whatever was inserted or rolled back since it was read, with the same
\* exception.
THEOREM MasteredStaysEarned == Spec => []MasteredIsEarned
<1>1. KInv => MasteredIsEarned
  <2> SUFFICES ASSUME KInv, NEW c \in Concepts \ raced, mastery[c].state = Mastered
               PROVE  occurrences[c] < Threshold /\ Earned(c, EvidenceOf(c))
    BY DEF MasteredIsEarned, Earned
  <2>1. occurrences[c] \in Nat /\ Threshold \in Nat
    BY KTypes, KnowledgeAssumption DEF KInv, KnowledgeAssumption
  <2>2. QED
    BY <2>1 DEF KInv, FlawBlocksMastered, LatestEarned
<1>2. QED
  BY <1>1, AlwaysKInv, PTL

\* What one step does to the stored value of a concept.
LEMMA LeapStep ==
  ASSUME KInv, [Next]_vars, NEW c \in Concepts, c \notin raced'
  PROVE  /\ mastery'[c].state + 1 >= mastery[c].state
         /\ mastery[c].state <= Insufficient => mastery'[c].state <= Developing
<1>1. mastery[c].state \in Nat
  BY KTypes DEF KInv
<1>2. CASE mastery' = mastery
  BY <1>1, <1>2 DEF Insufficient, Developing
<1>3. ASSUME NEW w \in Workers, Commit(w), c \in tx[w].wrote
      PROVE  /\ mastery'[c].state + 1 >= mastery[c].state
             /\ mastery[c].state <= Insufficient => mastery'[c].state <= Developing
  <2>1. mastery'[c] = tx[w].rows[c] /\ c \notin raced /\ tx[w].pc # "idle"
    BY <1>3 DEF Commit
  <2>2. ValueFits(tx[w], c) /\ Holds(tx[w], c)
    BY <1>3, <2>1, BusyRow DEF Holds
  <2>3. QED
    BY <2>1, <2>2 DEF ValueFits, Follows
<1>4. ASSUME NEW w \in Workers, Commit(w), c \notin tx[w].wrote
      PROVE  /\ mastery'[c].state + 1 >= mastery[c].state
             /\ mastery[c].state <= Insufficient => mastery'[c].state <= Developing
  <2>1. mastery'[c] = mastery[c]
    BY <1>4 DEF Commit
  <2>2. QED
    BY <1>1, <2>1 DEF Insufficient, Developing
<1>5. (\E w \in Workers : Commit(w)) \/ mastery' = mastery
  <2>1. /\ \A w, a, outcome, kind : Evaluate(w, a, outcome, kind) => mastery' = mastery
        /\ \A w, d : InsertEvidence(w, d) => mastery' = mastery
    BY Zenon DEF Evaluate, InsertEvidence
  <2>2. \A w : RecordFlaw(w) \/ Recalculate(w) => mastery' = mastery
    BY Zenon DEF RecordFlaw, Recalculate
  <2>3. \A w : WriteMastery(w) \/ Abort(w) => mastery' = mastery
    BY Zenon DEF WriteMastery, Abort
  <2>4. UNCHANGED vars => mastery' = mastery
    BY DEF vars
  <2>5. QED
    BY <2>1, <2>2, <2>3, <2>4, Zenon DEF Next
<1>6. QED
  BY <1>2, <1>3, <1>4, <1>5

\* The transition rules of recalculate hold of the table: whatever the workers
\* interleave, a commit takes mastery one state down at most, and not over
\* Developing, unless two recalculations of the concept overlapped.
THEOREM RulesHoldOfTable == Spec => NoLeap
<1>1. KInv /\ [Next]_vars
      => \A c \in Concepts : c \notin raced' =>
            /\ mastery'[c].state + 1 >= mastery[c].state
            /\ mastery[c].state <= Insufficient => mastery'[c].state <= Developing
  BY LeapStep
<1>2. QED
  BY <1>1, AlwaysKInv, PTL DEF Spec, NoLeap
=============================================================================
