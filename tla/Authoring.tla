------------------------------ MODULE Authoring ------------------------------
(***************************************************************************)
(* Content authoring (apps/content_authoring) and the rows it publishes    *)
(* into (apps/learning_content): drafts, the publish requests that turn a  *)
(* draft into a lesson or an exercise, and the admin's edits beside them.  *)
(*                                                                         *)
(* publish is one transaction whose reads take no lock: the request reads  *)
(* the draft, then the rows its payload names, and writes at its commit,   *)
(* where PostgreSQL checks the (deferred) foreign keys.  A created entity  *)
(* has the identity of the request that created it.                        *)
(***************************************************************************)
EXTENDS Naturals, FiniteSets

CONSTANTS
    Drafts, Publishes, \* drafts and publish requests, numbered in their order
    Modules, Lessons,  \* rows of modules and lessons that the admin made
    ModuleOf,          \* the module of each of those lessons
    Concepts,
    Payloads,          \* what the authors write
    NoContent

\* A payload names its parent (a module, or the lesson of an exercise) and
\* its concepts.  complete: it has the other keys and test cases that the
\* validation asks for; writable: no concept is listed twice and no number is
\* negative, which the validation does not ask and the tables refuse.
ASSUME AuthoringAssumption ==
    /\ Drafts \subseteq Nat /\ Publishes \subseteq Nat
    /\ ModuleOf \in [Lessons -> Modules]
    /\ Payloads \subseteq [type : {"lesson", "exercise"},
                           parent : Modules \cup Lessons \cup Publishes,
                           concepts : SUBSET Concepts,
                           complete : BOOLEAN, writable : BOOLEAN]
    /\ (Modules \cup Lessons) \cap Publishes = {}
    /\ NoContent \notin Publishes /\ NoContent \notin Payloads /\ NoContent \notin Drafts

VARIABLES
    rows,          \* the modules, lessons and concepts there are
    drafts,        \* the rows of content_drafts
    content,       \* the lessons and exercises that were published
    publish,       \* the publish requests and what each one has read
    reopened       \* drafts whose status an admin has set back

authoringVars == <<rows, drafts, content, publish, reopened>>
-----------------------------------------------------------------------------
DraftRow == [status : {"none", "draft", "published"}, payload : Payloads \cup {NoContent},
             entity : Publishes \cup {NoContent},
             validation_result : {"null", "passed", "errors"}]

NoDraft == [status |-> "none", payload |-> NoContent, entity |-> NoContent,
            validation_result |-> "null"]

AuthoringInit ==
    /\ rows = Modules \cup Lessons \cup Concepts
    /\ drafts = [d \in Drafts |-> NoDraft]
    /\ content = [p \in Publishes |-> "none"]
    /\ publish = [p \in Publishes |-> [pc |-> "new", draft |-> NoContent, beside |-> {}]]
    /\ reopened = {}

Exists(p) == content[p] \in {"lesson", "published", "archived"}
PayloadOf(p) == drafts[publish[p].draft].payload

ModuleExists(x) == x \in rows \cap Modules
LessonExists(x) == x \in rows \cap Lessons \/ (x \in Publishes /\ content[x] = "lesson")
ParentExists(w) == IF w.type = "lesson" THEN ModuleExists(w.parent) ELSE LessonExists(w.parent)
-----------------------------------------------------------------------------
\* create_draft: any payload is accepted.
CreateDraft(d, w) ==
    /\ drafts[d] = NoDraft
    /\ \A e \in Drafts : e < d => drafts[e] # NoDraft
    /\ drafts' = [drafts EXCEPT ![d] = [NoDraft EXCEPT !.status = "draft", !.payload = w]]
    /\ UNCHANGED <<rows, content, publish, reopened>>

\* Mutant: a published draft is not refused.
PublishReadAgain(p, d) ==
    /\ publish[p].pc = "new"
    /\ \A q \in Publishes : q < p => publish[q].pc # "new"
    /\ drafts[d] # NoDraft
    /\ publish' = [publish EXCEPT ![p] =
          [pc |-> "validate", draft |-> d,
           beside |-> {q \in Publishes : publish[q].draft = d
                                         /\ publish[q].pc \in {"validate", "write"}}]]
    /\ UNCHANGED <<rows, drafts, content, reopened>>

\* publish reads the draft: a published one is refused.
PublishRead(p, d) ==
    /\ publish[p].pc = "new"
    /\ \A q \in Publishes : q < p => publish[q].pc # "new"
    /\ drafts[d] # NoDraft
    /\ publish' = [publish EXCEPT ![p] =
          [pc |-> IF drafts[d].status = "published" THEN "refused" ELSE "validate",
           draft |-> d,
           beside |-> {q \in Publishes : publish[q].draft = d
                                         /\ publish[q].pc \in {"validate", "write"}}]]
    /\ UNCHANGED <<rows, drafts, content, reopened>>

\* validate_lesson_payload, validate_exercise_payload: the named rows exist;
\* an exercise names at least one concept.
Valid(w) ==
    /\ w.complete
    /\ ParentExists(w)
    /\ w.concepts \subseteq rows
    /\ w.type = "exercise" => w.concepts # {}

\* Mutant: the errors stay on the draft when the request is refused.
PublishValidateKept(p) ==
    /\ publish[p].pc = "validate"
    /\ publish' = [publish EXCEPT ![p].pc = IF Valid(PayloadOf(p)) THEN "write" ELSE "refused"]
    /\ drafts' = IF Valid(PayloadOf(p)) THEN drafts
                 ELSE [drafts EXCEPT ![publish[p].draft] =
                          [@ EXCEPT !.status = "draft", !.validation_result = "errors"]]
    /\ UNCHANGED <<rows, content, reopened>>

\* The errors are saved on the draft, and the exception that reports them
\* rolls the transaction back: nothing is left of them.
PublishValidate(p) ==
    /\ publish[p].pc = "validate"
    /\ publish' = [publish EXCEPT ![p].pc = IF Valid(PayloadOf(p)) THEN "write" ELSE "refused"]
    /\ UNCHANGED <<rows, drafts, content, reopened>>

\* The tables take the rows: at the commit every foreign key has its row.
Acceptable(w) == w.writable /\ ParentExists(w) /\ w.concepts \subseteq rows

\* Mutant: publish is not atomic, and the entity outlives a refused write.
PublishCommitHalf(p) ==
    LET d == publish[p].draft
        w == PayloadOf(p)
    IN  /\ publish[p].pc = "write"
        /\ ParentExists(w)
        /\ content' = [content EXCEPT ![p] = IF w.type = "lesson" THEN "lesson" ELSE "published"]
        /\ drafts' = IF ~Acceptable(w) THEN drafts
                     ELSE [drafts EXCEPT ![d] = [@ EXCEPT !.status = "published", !.entity = p,
                                                          !.validation_result = "passed"]]
        /\ publish' = [publish EXCEPT ![p].pc = "done"]
        /\ UNCHANGED <<rows, reopened>>

\* The entity, its concepts and its test cases, and the draft that names it.
PublishCommit(p) ==
    LET d == publish[p].draft
        w == PayloadOf(p)
    IN  /\ publish[p].pc = "write"
        /\ Acceptable(w)
        /\ content' = [content EXCEPT ![p] = IF w.type = "lesson" THEN "lesson" ELSE "published"]
        /\ drafts' = [drafts EXCEPT ![d] = [@ EXCEPT !.status = "published", !.entity = p,
                                                     !.validation_result = "passed"]]
        /\ publish' = [publish EXCEPT ![p].pc = "done"]
        /\ UNCHANGED <<rows, reopened>>

\* The database refuses the rows or the process fails: all is rolled back.
PublishAbort(p) ==
    /\ publish[p].pc \in {"validate", "write"}
    /\ publish' = [publish EXCEPT ![p].pc = "failed"]
    /\ UNCHANGED <<rows, drafts, content, reopened>>
-----------------------------------------------------------------------------
(* The admin site (content_authoring/admin.py, learning_content/admin.py). *)

\* The status of a draft is the one field of it the admin may edit.
Reopen(d) ==
    /\ drafts[d].status = "published"
    /\ drafts' = [drafts EXCEPT ![d].status = "draft"]
    /\ reopened' = reopened \cup {d}
    /\ UNCHANGED <<rows, content, publish>>

\* lifecycle_status: every reader asks only whether it is published.
SetLifecycle(p, status) ==
    /\ content[p] \in {"published", "archived"} \ {status}
    /\ content' = [content EXCEPT ![p] = status]
    /\ UNCHANGED <<rows, drafts, publish, reopened>>

\* What is deleted with a row: lessons with their module (CASCADE) and
\* exercises with their lesson.
LessonsIn(m) == {x \in rows \cap Lessons : ModuleOf[x] = m}
                \cup {p \in Publishes : content[p] = "lesson" /\ PayloadOf(p).parent = m}
ExercisesIn(S) == {p \in Publishes : content[p] \in {"published", "archived"}
                                     /\ PayloadOf(p).parent \in S}
Subtree(x) ==
    LET lessons == IF x \in Modules THEN LessonsIn(x) ELSE {x}
    IN  {x} \cup lessons \cup ExercisesIn(lessons)

\* The draft keeps its status and loses its link (SET_NULL).
Delete(x) ==
    /\ x \in rows \ Concepts \/ (x \in Publishes /\ Exists(x))
    /\ rows' = rows \ Subtree(x)
    /\ content' = [p \in Publishes |-> IF p \in Subtree(x) THEN "deleted" ELSE content[p]]
    /\ drafts' = [d \in Drafts |-> IF drafts[d].entity \in Subtree(x)
                                   THEN [drafts[d] EXCEPT !.entity = NoContent] ELSE drafts[d]]
    /\ UNCHANGED <<publish, reopened>>

\* A concept goes with the links of the exercises to it (CASCADE).
DeleteConcept(c) ==
    /\ c \in rows \cap Concepts
    /\ rows' = rows \ {c}
    /\ UNCHANGED <<drafts, content, publish, reopened>>

AuthoringNext ==
    \/ \E d \in Drafts :
          \/ \E w \in Payloads : CreateDraft(d, w)
          \/ Reopen(d)
    \/ \E p \in Publishes :
          \/ \E d \in Drafts : PublishRead(p, d)
          \/ PublishValidate(p)
          \/ PublishCommit(p)
          \/ PublishAbort(p)
          \/ \E status \in {"published", "archived"} : SetLifecycle(p, status)
    \/ \E x \in Modules \cup Lessons \cup Publishes : Delete(x)
    \/ \E c \in Concepts : DeleteConcept(c)

AuthoringSpec == AuthoringInit /\ [][AuthoringNext]_authoringVars
-----------------------------------------------------------------------------
AuthoringTypeOK ==
    /\ rows \subseteq Modules \cup Lessons \cup Concepts
    /\ drafts \in [Drafts -> DraftRow]
    /\ content \in [Publishes -> {"none", "lesson", "published", "archived", "deleted"}]
    /\ publish \in [Publishes ->
          [pc : {"new", "refused", "validate", "write", "failed", "done"},
           draft : Drafts \cup {NoContent}, beside : SUBSET Publishes]]
    /\ reopened \subseteq Drafts

\* publish reads the draft without a lock: a draft becomes two entities only
\* by requests that overlapped, or after an admin has set its status back.
DuplicatesOnlyByRace ==
    \A p, q \in Publishes :
        (/\ p # q /\ content[p] # "none" /\ content[q] # "none"
         /\ publish[p].draft = publish[q].draft)
        => \/ p \in publish[q].beside \/ q \in publish[p].beside
           \/ publish[p].draft \in reopened

\* publish is all or nothing, whatever is deleted under it: an entity appears
\* only with its parent and concepts there and its draft published with it,
\* and a draft changes in no other way than that, except that the admin sets
\* its status back or its entity is deleted.
PublishAllOrNothing ==
    [][/\ \A p \in Publishes :
             (content[p] = "none" /\ content'[p] # "none") =>
                /\ ParentExists(PayloadOf(p)) /\ PayloadOf(p).concepts \subseteq rows
                /\ drafts'[publish[p].draft].status = "published"
                /\ drafts'[publish[p].draft].entity = p
       /\ \A d \in Drafts :
             (drafts[d] # NoDraft /\ drafts'[d] # drafts[d]) =>
                \/ \E p \in Publishes : /\ publish[p].draft = d
                                        /\ content[p] = "none" /\ content'[p] # "none"
                \/ drafts'[d] = [drafts[d] EXCEPT !.status = "draft"] /\ d \in reopened'
                \/ /\ drafts'[d] = [drafts[d] EXCEPT !.entity = NoContent]
                   /\ content'[drafts[d].entity] = "deleted"
    ]_authoringVars
=============================================================================
