----------------------------- MODULE Knowledge -----------------------------
(***************************************************************************)
(* The knowledge component (apps/knowledge) for one student: the part of a *)
(* worker's transaction that turns an evaluation into evidence, a flaw-log *)
(* occurrence and a new mastery value for each concept of the exercise.    *)
(*                                                                         *)
(* Transactions interleave at their statements.  Each one sees committed   *)
(* rows and its own; the flaw-log row and the mastery row it wrote stay    *)
(* locked until it ends.                                                   *)
(***************************************************************************)
EXTENDS Mastery, FiniteSets

CONSTANTS
    Attempts,      \* graded attempts of the student
    Concepts,
    ConceptsOf,    \* the concepts of each attempt's exercise
    Workers,
    Threshold,     \* CONCEPT_FLAW_OCCURRENCE_THRESHOLD
    None

ASSUME KnowledgeAssumption ==
    /\ IsFiniteSet(Attempts)
    /\ ConceptsOf \in [Attempts -> SUBSET Concepts]
    /\ Threshold \in Nat \ {0}
    /\ None \notin Attempts \cup Concepts

VARIABLES
    quality,       \* what each evaluated attempt is evidence of
    evidence,      \* each concept's rows by created_at, open ones too: the pairs
                   \* of attempts of which the first is not the newer one
    committed,     \* attempts whose transaction committed
    occurrences,   \* concept_flaw_log.occurrence_count for technical errors
    mastery,       \* concept_mastery: the state and the evidence_count
    tx,            \* the transaction each worker has open
    raced          \* concepts two of whose recalculations overlapped

vars == <<quality, evidence, committed, occurrences, mastery, tx, raced>>
-----------------------------------------------------------------------------
Outcomes == {"pass", "fail", "technical"}
Kinds == {"code_writing", "debugging", "other"}

\* EvidenceQualityService.classify: hint_usage is always recorded as 0, so
\* a pass is never weak; a failure keeps whether its error was technical.
Classify(outcome, kind) ==
    IF outcome # "pass" THEN outcome
    ELSE IF kind \in {"code_writing", "debugging"} THEN "strong" ELSE "medium"

Passes == {"strong", "medium"}
Qualities == Passes \cup {"fail", "technical"}

MasteryRow == [state : States, count : 0..Window]
NoRow == [state |-> NotAssessed, count |-> 0]

Idle == [pc |-> "idle", attempt |-> None, todo |-> {}, concept |-> None,
         flaws |-> [c \in Concepts |-> 0],
         rows |-> [c \in Concepts |-> NoRow], wrote |-> {}]

Init ==
    /\ quality = [a \in Attempts |-> "none"]
    /\ evidence = [c \in Concepts |-> {}]
    /\ committed = {}
    /\ occurrences = [c \in Concepts |-> 0]
    /\ mastery = [c \in Concepts |-> NoRow]
    /\ tx = [w \in Workers |-> Idle]
    /\ raced = {}
-----------------------------------------------------------------------------
\* The evaluation of an attempt is inserted and ingest_from_evaluation runs;
\* execution grades an attempt once, so an attempt is ingested once.
Evaluate(w, a, outcome, kind) ==
    /\ tx[w].pc = "idle"
    /\ quality[a] = "none"
    /\ quality' = [quality EXCEPT ![a] = Classify(outcome, kind)]
    /\ tx' = [tx EXCEPT ![w] = [Idle EXCEPT !.pc = "next", !.attempt = a,
                                            !.todo = ConceptsOf[a]]]
    /\ UNCHANGED <<evidence, committed, occurrences, mastery, raced>>

Rows(c) == {a \in Attempts : <<a, a>> \in evidence[c]}

InsertEvidence(w, c) ==
    /\ tx[w].pc = "next" /\ c \in tx[w].todo
    /\ evidence' = [evidence EXCEPT ![c] =
          @ \cup {<<a, tx[w].attempt>> : a \in Rows(c) \cup {tx[w].attempt}}]
    /\ tx' = [tx EXCEPT ![w].pc = IF quality[tx[w].attempt] = "technical"
                                  THEN "flaw" ELSE "recalculate",
                        ![w].concept = c, ![w].todo = @ \ {c}]
    /\ UNCHANGED <<quality, committed, occurrences, mastery, raced>>

\* Mutant: the flaw log is read without select_for_update.
FlawNeverLocked(w, c) == FALSE

FlawLocked(w, c) == \E v \in Workers \ {w} : tx[v].flaws[c] > 0

\* record_if_applicable: select_for_update, then register_occurrence.
RecordFlaw(w) ==
    LET c == tx[w].concept
    IN  /\ tx[w].pc = "flaw"
        /\ ~FlawLocked(w, c)
        /\ tx' = [tx EXCEPT ![w].pc = "recalculate",
                            ![w].flaws[c] = occurrences[c] + 1]
        /\ UNCHANGED <<quality, evidence, committed, occurrences, mastery, raced>>

\* Mutant: a transaction does not see its own rows.
VisibleCommitted(w, c) == Rows(c) \cap committed

\* The rows a transaction sees: committed ones and its own.
Visible(w, c) == Rows(c) \cap (committed \cup {tx[w].attempt})

Newer(c, rows, a) == {b \in rows \ {a} : <<a, b>> \in evidence[c]}

LatestWindow(c, rows) == {a \in rows : Cardinality(Newer(c, rows, a)) < Window}

CountOf(rows, wanted) == Cardinality({a \in rows : quality[a] \in wanted})

ActiveFlaw(w, c) == occurrences[c] >= Threshold \/ tx[w].flaws[c] >= Threshold

\* The reads of recalculate: the previous state and the window, unlocked.
Recalculate(w) ==
    LET c == tx[w].concept
        rows == LatestWindow(c, Visible(w, c))
        count == Cardinality(rows)
    IN  /\ tx[w].pc = "recalculate"
        /\ tx' = [tx EXCEPT
              ![w].pc = "write",
              ![w].rows[c] = [state |-> NextState(mastery[c].state, count,
                                                  CountOf(rows, Passes),
                                                  CountOf(rows, {"strong"}),
                                                  ActiveFlaw(w, c)),
                              count |-> count]]
        /\ UNCHANGED <<quality, evidence, committed, occurrences, mastery, raced>>

\* update_or_create waits for the row, then overwrites it.
WriteMastery(w) ==
    LET c == tx[w].concept
    IN  /\ tx[w].pc = "write"
        /\ \A v \in Workers \ {w} : c \notin tx[v].wrote
        /\ tx' = [tx EXCEPT ![w].pc = "next", ![w].concept = None,
                            ![w].wrote = @ \cup {c}]
        /\ UNCHANGED <<quality, evidence, committed, occurrences, mastery, raced>>

Commit(w) ==
    LET t == tx[w]
    IN  /\ t.pc = "next" /\ t.todo = {}
        /\ committed' = committed \cup {t.attempt}
        /\ occurrences' = [c \in Concepts |->
              IF t.flaws[c] > 0 THEN t.flaws[c] ELSE occurrences[c]]
        /\ mastery' = [c \in Concepts |->
              IF c \in t.wrote THEN t.rows[c] ELSE mastery[c]]
        /\ raced' = raced \cup
              {c \in t.wrote : \E v \in Workers \ {w} : tx[v].pc = "write"
                                                         /\ tx[v].concept = c}
        /\ tx' = [tx EXCEPT ![w] = Idle]
        /\ UNCHANGED <<quality, evidence>>

\* An exception, a crash, or a deadlock over two transactions' rows, which
\* the database ends by aborting one: everything it did is rolled back, the
\* evaluation too; a redelivered task may evaluate the attempt again.
Abort(w) ==
    /\ tx[w].pc # "idle"
    /\ quality' = [quality EXCEPT ![tx[w].attempt] = "none"]
    /\ evidence' = [c \in Concepts |->
          {p \in evidence[c] : tx[w].attempt \notin {p[1], p[2]}}]
    /\ tx' = [tx EXCEPT ![w] = Idle]
    /\ UNCHANGED <<committed, occurrences, mastery, raced>>
-----------------------------------------------------------------------------
Next ==
    \E w \in Workers :
        \/ \E a \in Attempts, outcome \in Outcomes, kind \in Kinds :
              Evaluate(w, a, outcome, kind)
        \/ \E c \in Concepts : InsertEvidence(w, c)
        \/ RecordFlaw(w)
        \/ Recalculate(w)
        \/ WriteMastery(w)
        \/ Commit(w)
        \/ Abort(w)

Spec == Init /\ [][Next]_vars
-----------------------------------------------------------------------------
\* Rows and transactions have the shapes the code gives them; a mastery value
\* never counts more evidence than the window holds.
TypeOK ==
    /\ quality \in [Attempts -> Qualities \cup {"none"}]
    /\ evidence \in [Concepts -> SUBSET (Attempts \X Attempts)]
    /\ committed \subseteq Attempts
    /\ occurrences \in [Concepts -> Nat]
    /\ mastery \in [Concepts -> MasteryRow]
    /\ tx \in [Workers ->
          [pc : {"idle", "next", "flaw", "recalculate", "write"},
           attempt : Attempts \cup {None}, todo : SUBSET Concepts,
           concept : Concepts \cup {None}, flaws : [Concepts -> Nat],
           rows : [Concepts -> MasteryRow], wrote : SUBSET Concepts]]
    /\ raced \subseteq Concepts

EvidenceOf(c) == {a \in committed : c \in ConceptsOf[a]}

\* No occurrence of a technical error is lost or counted twice, although
\* transactions count concurrently and may roll back (select_for_update).
FlawCountExact ==
    \A c \in Concepts :
        occurrences[c] = Cardinality({a \in EvidenceOf(c) : quality[a] = "technical"})

\* The transition rules of recalculate hold of the table, not only of one
\* call: one step down at most, no leap from the first two states.  They fail
\* only for a concept whose recalculations overlapped.
NoLeap ==
    [][\A c \in Concepts : c \notin raced' =>
          /\ mastery'[c].state + 1 >= mastery[c].state
          /\ mastery[c].state <= Insufficient => mastery'[c].state <= Developing]_vars

\* The stored value is computed from all the committed evidence, with the
\* same exception: a transaction that read before another's commit and wrote
\* after it leaves that evidence out until the next attempt.
CountsAllEvidence ==
    \A c \in Concepts \ raced :
        LET n == Cardinality(EvidenceOf(c))
        IN  mastery[c].count = IF n < Window THEN n ELSE Window

\* A mastered concept has no active flaw, and the latest evidence there is asks
\* for it, with the same exception: no earlier success keeps it, and no evidence
\* that another transaction adds or rolls back meanwhile changes what it was
\* read from.
MasteredIsEarned ==
    \A c \in Concepts \ raced :
        mastery[c].state = Mastered =>
            LET rows == LatestWindow(c, EvidenceOf(c))
                n == Cardinality(rows)
            IN  /\ occurrences[c] < Threshold
                /\ n > 0 /\ n >= MinEvidence
                /\ Reaches(CountOf(rows, Passes), n, MasteredPct)
                /\ Reaches(CountOf(rows, {"strong"}), n, StrongPct)
=============================================================================
