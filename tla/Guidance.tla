------------------------------ MODULE Guidance ------------------------------
(***************************************************************************)
(* The adaptive engine (apps/adaptive) over the content of Authoring: one  *)
(* student's decisions and the review session that a decision opens        *)
(* through the receiver in review/signals.py, in the same transaction.     *)
(*                                                                         *)
(* decide reads the student's knowledge and the published content, then    *)
(* inserts its row; the receiver reads both again, so that between the two *)
(* the content may be archived or deleted and the knowledge may change.    *)
(* The knowledge component writes the states of mastery on its own: of a   *)
(* concept with a row of concept_mastery any state that a row has may be   *)
(* read.  A flaw is a count that only grows, so it stays active.           *)
(***************************************************************************)
EXTENDS Authoring, Ladder

CONSTANTS
    Decisions,       \* calls of AdaptiveDecisionService.decide
    GateReadings     \* what may be read of the prerequisites of a concept

ASSUME GuidanceAssumption == GateReadings \subseteq SUBSET Gates

VARIABLES
    assessed,      \* concepts with a row of concept_mastery of the student
    flawed,        \* concepts with an active flaw of the student
    decision,      \* the calls, and what each recommends
    sessions       \* the exercise of the review session a decision opened

guidanceVars == <<rows, drafts, content, publish, reopened, assessed, flawed,
                  decision, sessions>>
-----------------------------------------------------------------------------
\* told and due are what the table says of the reading, kept for the properties.
NewDecision == [pc |-> "new", concept |-> NoContent, recommended |-> "none",
                told |-> "none", due |-> FALSE]

GuidanceInit ==
    /\ AuthoringInit
    /\ assessed = {}
    /\ flawed = {}
    /\ decision = [i \in Decisions |-> NewDecision]
    /\ sessions = [i \in Decisions |-> NoContent]

\* Published exercises that exercise_concepts links to the concept.
ExercisesOf(c) == {p \in Publishes : content[p] = "published"
                                     /\ c \in PayloadOf(p).concepts \cap rows}
-----------------------------------------------------------------------------
\* An evaluation of an attempt on the concept (apps/knowledge), the third
\* mistake of a kind among them.
EvidenceOf(c, flaw) ==
    /\ c \in rows \cap Concepts
    /\ flaw => c \in assessed
    /\ assessed' = assessed \cup {c}
    /\ flawed' = IF flaw THEN flawed \cup {c} ELSE flawed
    /\ UNCHANGED <<authoringVars, decision, sessions>>

\* get_concept_mastery_output: not assessed is what has no row.
StatesOf(c) == IF c \in assessed THEN MasteryStates \ {"not_assessed"} ELSE {"not_assessed"}

\* What decide reads: the context, and the content its filter asks for.  The
\* caller says that no remediation is pending (signals.py passes nothing).
ReadingOf(c, trigger, state, gates) ==
    [trigger |-> trigger, state |-> state, flaw |-> c \in flawed, gates |-> gates,
     content |-> ExercisesOf(c) # {}, remediation |-> FALSE]

\* decide, up to its write: what it recommends follows from what it has read.
DecideRead(i, c, trigger, state, gates) ==
    LET x == ReadingOf(c, trigger, state, gates)
    IN  /\ decision[i].pc = "new"
        /\ c \in rows \cap Concepts /\ state \in StatesOf(c)
        /\ decision' = [decision EXCEPT ![i] =
              [pc |-> "write", concept |-> c, recommended |-> Recommended(x),
               told |-> Table(x), due |-> ReviewDue(x)]]
        /\ UNCHANGED <<authoringVars, assessed, flawed, sessions>>

WeakByStateOnly(c, state) == state = "developing"

\* is_weak: a flaw, or a developing mastery.
Weak(c, state) == c \in flawed \/ state = "developing"

\* The decision's row, and the receiver: create_session_for_trigger with the
\* trigger review_concept, which falls back on nothing: no session unless
\* the concept is weak and an exercise of it is published when it looks.
DecideWrite(i, state) ==
    LET c == decision[i].concept
        review == decision[i].recommended = "REVIEW_CONCEPT"
        wanted == review /\ Weak(c, state)
    IN  /\ decision[i].pc = "write"
        /\ review => c \in rows
        /\ state \in StatesOf(c)
        /\ decision' = [decision EXCEPT ![i].pc = "done"]
        /\ \/ /\ wanted
              /\ \E p \in ExercisesOf(c) : sessions' = [sessions EXCEPT ![i] = p]
           \/ /\ ~wanted \/ ExercisesOf(c) = {}
              /\ UNCHANGED sessions
        /\ UNCHANGED <<authoringVars, assessed, flawed>>

\* The concept was deleted meanwhile, or the process fails.
DecideAbort(i) ==
    /\ decision[i].pc = "write"
    /\ decision' = [decision EXCEPT ![i] = [NewDecision EXCEPT !.pc = "failed"]]
    /\ UNCHANGED <<authoringVars, assessed, flawed, sessions>>

\* A review item keeps its exercise and its concept (RESTRICT), and with the
\* exercise the lesson and the module it is in; so do the rows of knowledge.
Kept == {sessions[i] : i \in Decisions} \ {NoContent}
KeptConcepts ==
    assessed \cup {decision[i].concept : i \in {j \in Decisions : sessions[j] # NoContent}}

ContentStep ==
    /\ AuthoringNext
    /\ \A p \in Kept : content'[p] # "deleted"
    /\ KeptConcepts \subseteq rows'
    /\ UNCHANGED <<assessed, flawed, decision, sessions>>

GuidanceNext ==
    \/ ContentStep
    \/ \E c \in Concepts, flaw \in BOOLEAN : EvidenceOf(c, flaw)
    \/ \E i \in Decisions :
          \/ \E c \in Concepts, trigger \in Triggers, state \in MasteryStates,
                gates \in GateReadings :
                DecideRead(i, c, trigger, state, gates)
          \/ \E state \in MasteryStates : DecideWrite(i, state)
          \/ DecideAbort(i)

GuidanceSpec == GuidanceInit /\ [][GuidanceNext]_guidanceVars
-----------------------------------------------------------------------------
GuidanceTypeOK ==
    /\ AuthoringTypeOK
    /\ assessed \subseteq Concepts /\ flawed \subseteq assessed
    /\ decision \in [Decisions ->
          [pc : {"new", "write", "done", "failed"}, concept : Concepts \cup {NoContent},
           recommended : Actions \cup {"none"}, told : Actions \cup {"none"},
           due : BOOLEAN]]
    /\ sessions \in [Decisions -> Publishes \cup {NoContent}]

\* The candidates, filters, rungs and conflict rules together recommend what
\* the table says of what the decision has read.
FollowsLadder == \A i \in Decisions : decision[i].recommended = decision[i].told

\* A student with an active flaw, and the evidence to say so, is sent to
\* review it, and is given the session whenever an exercise of the concept is
\* still published, whatever the mastery says when it is read again.
FlaggedGetsReview ==
    [][\A i \in Decisions :
          (decision[i].due /\ decision[i].pc = "write" /\ decision'[i].pc = "done")
          => /\ decision'[i].recommended = "REVIEW_CONCEPT"
             /\ (sessions'[i] # NoContent) <=> (ExercisesOf(decision[i].concept) # {})
      ]_guidanceVars
=============================================================================
