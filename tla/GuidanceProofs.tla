---------------------------- MODULE GuidanceProofs ----------------------------
(***************************************************************************)
(* Proofs about Guidance and the Authoring and Ladder modules it is made   *)
(* of, for any number of drafts, publish requests, decisions and concepts. *)
(***************************************************************************)
EXTENDS Guidance, TLAPS

(* The rules of a decision.                                                *)

\* The first candidate of the lowest rung is recommended, unless an
\* UNLOCK_ASSESSMENT shares the rung.
LEMMA FirstWins ==
  ASSUME NEW x, NEW c \in Generated(x), Eligible(c, x),
         \A d \in Generated(x) \ {c} : Eligible(d, x) =>
            \/ Rung(c) < Rung(d)
            \/ Rung(c) = Rung(d) /\ c.at < d.at /\ d.type # "UNLOCK_ASSESSMENT",
         c.type # "UNLOCK_ASSESSMENT"
  PROVE  Recommended(x) = c.type
<1> DEFINE eligible == {d \in Generated(x) : Eligible(d, x)}
           tied == {d \in eligible : \A e \in eligible : Rung(d) <= Rung(e)}
           unlock == {d \in tied : d.type = "UNLOCK_ASSESSMENT"}
           pool == IF unlock # {} THEN unlock ELSE tied
<1>1. \A d \in Generated(x) : Rung(d) \in Nat
  BY DEF Rung
<1>2. \A d \in Generated(x) : d.at \in Nat
  BY DEF Generated, Candidate
<1>3. c \in eligible /\ \A d \in eligible : Rung(c) <= Rung(d)
  BY <1>1
<1>4. c \in tied /\ \A d \in tied : Rung(d) = Rung(c)
  BY <1>1, <1>3
<1>5. \A d \in tied : d # c => c.at < d.at /\ d.type # "UNLOCK_ASSESSMENT"
  BY <1>1, <1>4
<1>6. unlock = {} /\ pool = tied
  BY <1>5
<1>7. \A d \in tied : (\A e \in tied : d.at <= e.at) <=> d = c
  BY <1>2, <1>4, <1>5
<1>8. (CHOOSE d \in tied : \A e \in tied : d.at <= e.at) = c
  BY <1>4, <1>7
<1>9. eligible # {}
  BY <1>3
<1>10. Recommended(x) = (CHOOSE d \in pool : \A e \in pool : d.at <= e.at).type
  BY <1>9 DEF Recommended
<1>11. QED
  BY <1>6, <1>8, <1>10

LEMMA NoneIsStay ==
  ASSUME NEW x, \A c \in Generated(x) : ~Eligible(c, x)
  PROVE  Recommended(x) = "STAY"
BY DEF Recommended

\* Whatever a decision reads, the candidates, filters, rungs and rules for
\* conflicts recommend what the table says.
THEOREM LadderIsTable == \A x \in Reading : Recommended(x) = Table(x)
<1> SUFFICES ASSUME NEW x \in Reading PROVE Recommended(x) = Table(x)
  OBVIOUS
<1>1. /\ x.trigger \in Triggers /\ x.state \in MasteryStates /\ x.flaw \in BOOLEAN
      /\ x.content \in BOOLEAN /\ x.remediation \in BOOLEAN
  BY DEF Reading
<1>2. CASE "unmet" \in x.gates
  BY <1>2, NoneIsStay DEF Eligible, Table
<1>3. CASE "unmet" \notin x.gates /\ x.trigger = "module_completed"
  <2> DEFINE c == Candidate("REVIEW_CONCEPT", "mandatory_module_review", 2)
             d == Candidate("UNLOCK_ASSESSMENT", "none", 1)
  <2>1. Generated(x) = {d, c} /\ Eligible(c, x) /\ c.type = "REVIEW_CONCEPT"
    BY <1>3 DEF Generated, Eligible, Candidate
  <2>2. Rung(c) = 4 /\ Rung(d) = 7
    BY DEF Rung, Candidate
  <2> HIDE DEF c, d
  <2>3. Recommended(x) = c.type
    BY <2>1, <2>2, FirstWins
  <2>4. QED
    BY <1>3, <2>1, <2>3 DEF Table
<1>4. CASE /\ "unmet" \notin x.gates /\ x.trigger # "module_completed"
           /\ x.state = "insufficient_evidence"
  <2> DEFINE c == Candidate("CONTINUE", "none", 1)
             d == Candidate("PRACTICE_EASIER", "none", 2)
  <2>1. /\ Generated(x) = {c, d} /\ c.type = "CONTINUE"
        /\ Eligible(c, x) <=> x.content
        /\ Eligible(d, x) <=> x.content
    BY <1>1, <1>4 DEF Generated, Eligible, Candidate
  <2>2. Rung(c) = 6 /\ Rung(d) = 8
    BY DEF Rung, Candidate
  <2> HIDE DEF c, d
  <2>3. CASE x.content
    <3>1. Recommended(x) = c.type
      BY <2>1, <2>2, <2>3, FirstWins
    <3>2. QED
      BY <1>4, <2>1, <2>3, <3>1 DEF Table, Practice
  <2>4. CASE ~x.content
    <3>1. Recommended(x) = "STAY"
      BY <2>1, <2>4, NoneIsStay
    <3>2. QED
      BY <1>4, <2>4, <3>1 DEF Table, Practice
  <2>5. QED
    BY <2>3, <2>4
<1>5. CASE /\ "unmet" \notin x.gates /\ x.trigger # "module_completed"
           /\ x.state # "insufficient_evidence"
  <2> DEFINE flaw == Candidate("REVIEW_CONCEPT", "active_flaw", 1)
             easier == Candidate("PRACTICE_EASIER", "none", 2)
             explain == Candidate("TRIGGER_EXPLANATION", "recent_failure", 3)
             easy == Candidate("PRACTICE_EASIER", "none", 4)
             harder == Candidate("PRACTICE_HARDER", "none", 5)
             project == Candidate("UNLOCK_PROJECT", "none", 6)
             go == Candidate("CONTINUE", "none", 7)
             strong == x.trigger = "submission_passed" /\ x.state \in {"proficient", "mastered"}
  <2>1. Generated(x) = (IF x.flaw THEN {flaw, easier} ELSE {})
                       \cup (IF x.trigger = "submission_failed" THEN {explain, easy} ELSE {})
                       \cup (IF strong THEN {harder, project} ELSE {}) \cup {go}
    BY <1>5 DEF Generated
  <2>2. /\ Rung(flaw) = 2 /\ Rung(easier) = 8 /\ Rung(explain) = 5 /\ Rung(easy) = 8
        /\ Rung(harder) = 6 /\ Rung(project) = 7 /\ Rung(go) = 6
    BY DEF Rung, Candidate
  <2>3. /\ flaw.type = "REVIEW_CONCEPT" /\ explain.type = "TRIGGER_EXPLANATION"
        /\ harder.type = "PRACTICE_HARDER" /\ harder.at = 5 /\ go.at = 7
        /\ project.type = "UNLOCK_PROJECT" /\ go.type = "CONTINUE"
    BY DEF Candidate
  <2>4. /\ Eligible(flaw, x) /\ Eligible(explain, x) /\ Eligible(project, x)
        /\ strong => (Eligible(harder, x) <=> x.content)
        /\ Eligible(go, x) <=> x.content
    BY <1>1, <1>5 DEF Eligible, Candidate
  <2>5. strong \in BOOLEAN /\ (strong => x.trigger # "submission_failed")
    BY <1>1
  <2> HIDE DEF flaw, easier, explain, easy, harder, project, go
  <2>6. CASE x.flaw
    <3>1. Recommended(x) = flaw.type
      BY <2>1, <2>2, <2>3, <2>4, <2>6, FirstWins
    <3>2. QED
      BY <1>5, <2>3, <2>6, <3>1 DEF Table
  <2>7. CASE ~x.flaw /\ x.trigger = "submission_failed"
    <3>1. Recommended(x) = explain.type
      BY <2>1, <2>2, <2>3, <2>4, <2>5, <2>7, FirstWins
    <3>2. QED
      BY <1>5, <2>3, <2>7, <3>1 DEF Table
  <2>8. CASE ~x.flaw /\ strong /\ x.content
    <3>1. Generated(x) = {harder, project, go}
      BY <2>1, <2>5, <2>8
    <3>2. Recommended(x) = harder.type
      BY <3>1, <2>2, <2>3, <2>4, <2>8, FirstWins
    <3>3. QED
      BY <1>5, <2>3, <2>5, <2>8, <3>2 DEF Table
  <2>9. CASE ~x.flaw /\ strong /\ ~x.content
    <3>1. Generated(x) = {harder, project, go} /\ ~Eligible(harder, x) /\ ~Eligible(go, x)
      BY <2>1, <2>4, <2>5, <2>9
    <3>2. Recommended(x) = project.type
      BY <3>1, <2>2, <2>3, <2>4, <2>9, FirstWins
    <3>3. QED
      BY <1>5, <2>3, <2>5, <2>9, <3>2 DEF Table
  <2>10. CASE ~x.flaw /\ ~strong /\ x.trigger # "submission_failed"
    <3>1. Generated(x) = {go} /\ Table(x) = Practice(x, "CONTINUE")
      BY <1>1, <1>5, <2>1, <2>10 DEF Table, Triggers
    <3>2. CASE x.content
      <4>1. Recommended(x) = go.type
        BY <3>1, <3>2, <2>3, <2>4, FirstWins
      <4>2. QED
        BY <2>3, <3>1, <3>2, <4>1 DEF Practice
    <3>3. CASE ~x.content
      <4>1. Recommended(x) = "STAY"
        BY <3>1, <3>3, <2>4, NoneIsStay
      <4>2. QED
        BY <3>1, <3>3, <4>1 DEF Practice
    <3>4. QED
      BY <1>1, <3>2, <3>3
  <2>11. QED
    BY <1>1, <2>5, <2>6, <2>7, <2>8, <2>9, <2>10
<1>6. QED
  BY <1>2, <1>3, <1>4, <1>5
-----------------------------------------------------------------------------
(* Publishing.                                                             *)

\* A publish request names a draft once it has read one, what it publishes
\* appears at its commit, and a draft that became an entity is published or
\* was set back by an admin.
PublishFits ==
    \A p \in Publishes :
        /\ publish[p].pc # "new" => publish[p].draft \in Drafts
        /\ content[p] # "none" => publish[p].pc = "done"
        /\ publish[p].pc = "done" => \/ drafts[publish[p].draft].status = "published"
                                     \/ publish[p].draft \in reopened

\* Two requests that both saw the draft unpublished overlapped.
Racing == {"validate", "write", "done"}
RacersKnown ==
    \A p, q \in Publishes :
        (/\ p # q /\ publish[p].pc \in Racing /\ publish[q].pc \in Racing
         /\ publish[p].draft = publish[q].draft)
        => \/ p \in publish[q].beside \/ q \in publish[p].beside
           \/ publish[p].draft \in reopened

AuthoringInv == AuthoringTypeOK /\ PublishFits /\ RacersKnown

LEMMA AuthoringInitInv == AuthoringInit => AuthoringInv
BY AuthoringAssumption
   DEF AuthoringAssumption, AuthoringInit, AuthoringInv, AuthoringTypeOK, NoDraft, DraftRow,
       PublishFits, RacersKnown, Racing

\* What an admin deletes below a row are rows and published entities.
LEMMA SubtreeExists ==
  ASSUME AuthoringTypeOK, NEW x, x \in rows \ Concepts \/ (x \in Publishes /\ Exists(x)),
         NEW p \in Publishes, p \in Subtree(x)
  PROVE  content[p] # "none"
<1>1. x \in Publishes \/ (x \in Modules \cup Lessons)
  BY DEF AuthoringTypeOK
<1>2. x = p => Exists(p)
  BY <1>1, AuthoringAssumption DEF AuthoringAssumption, AuthoringTypeOK
<1>3. \A m : p \in LessonsIn(m) => Exists(p)
  BY AuthoringAssumption DEF AuthoringAssumption, LessonsIn, Exists
<1>4. \A S : p \in ExercisesIn(S) => Exists(p)
  BY DEF ExercisesIn, Exists
<1>5. Exists(p)
  BY <1>2, <1>3, <1>4 DEF Subtree
<1>6. QED
  BY <1>5 DEF Exists

\* A step of one publish request that writes nothing.
LEMMA PublishOnlyInv ==
  ASSUME AuthoringInv, NEW p \in Publishes,
         NEW pc \in {"refused", "write", "failed"},
         publish[p].pc \in {"validate", "write"},
         publish' = [publish EXCEPT ![p].pc = pc],
         UNCHANGED <<rows, drafts, content, reopened>>
  PROVE  AuthoringInv'
<1>1. AuthoringTypeOK /\ PublishFits /\ RacersKnown
  BY DEF AuthoringInv
<1>2. /\ publish'[p].pc = pc /\ publish'[p].draft = publish[p].draft
      /\ publish'[p].beside = publish[p].beside
      /\ \A q \in Publishes : q # p => publish'[q] = publish[q]
  BY <1>1 DEF AuthoringTypeOK
<1>3. AuthoringTypeOK'
  BY <1>1 DEF AuthoringTypeOK
<1>4. PublishFits'
  BY <1>1, <1>2 DEF PublishFits
<1>5. \A q \in Publishes : /\ publish'[q].pc \in Racing => publish[q].pc \in Racing
                           /\ publish'[q].draft = publish[q].draft
                           /\ publish'[q].beside = publish[q].beside
  BY <1>2 DEF Racing
<1>6. RacersKnown'
  BY <1>1, <1>5 DEF RacersKnown
<1>7. QED
  BY <1>3, <1>4, <1>6 DEF AuthoringInv

LEMMA PublishReadInv ==
  ASSUME AuthoringInv, NEW p \in Publishes, NEW d \in Drafts, PublishRead(p, d)
  PROVE  AuthoringInv'
<1> DEFINE beside == {q \in Publishes : publish[q].draft = d
                                        /\ publish[q].pc \in {"validate", "write"}}
           new == [pc |-> IF drafts[d].status = "published" THEN "refused" ELSE "validate",
                   draft |-> d, beside |-> beside]
<1>1. /\ AuthoringTypeOK /\ PublishFits /\ RacersKnown /\ publish[p].pc = "new"
      /\ publish' = [publish EXCEPT ![p] = new]
      /\ UNCHANGED <<rows, drafts, content, reopened>>
  BY DEF AuthoringInv, PublishRead
<1>2. /\ new.pc \in {"refused", "validate"} /\ new.draft = d /\ new.beside = beside
      /\ new.pc = "validate" => drafts[d].status # "published"
      /\ beside \in SUBSET Publishes
  OBVIOUS
<1>3. publish'[p] = new /\ \A q \in Publishes : q # p => publish'[q] = publish[q]
  BY <1>1 DEF AuthoringTypeOK
<1>4. AuthoringTypeOK'
  <2>1. new \in [pc : {"new", "refused", "validate", "write", "failed", "done"},
                 draft : Drafts \cup {NoContent}, beside : SUBSET Publishes]
    BY <1>2
  <2> HIDE DEF new
  <2>2. QED
    BY <2>1, <1>1 DEF AuthoringTypeOK
<1> HIDE DEF new
<1>5. PublishFits'
  BY <1>1, <1>2, <1>3 DEF PublishFits
<1>6. RacersKnown'
  <2>1. ASSUME NEW q \in Publishes, q # p, publish'[p].pc \in Racing,
               publish[q].pc \in Racing, publish[q].draft = d
        PROVE  q \in publish'[p].beside \/ d \in reopened
    <3>1. drafts[d].status # "published"
      BY <2>1, <1>2, <1>3 DEF Racing
    <3>2. CASE publish[q].pc = "done"
      BY <2>1, <3>1, <3>2, <1>1 DEF PublishFits
    <3>3. CASE publish[q].pc \in {"validate", "write"}
      BY <2>1, <3>3, <1>2, <1>3
    <3>4. QED
      BY <2>1, <3>2, <3>3 DEF Racing
  <2>2. publish'[p].draft = d
    BY <1>2, <1>3
  <2>3. QED
    BY <2>1, <2>2, <1>1, <1>3 DEF RacersKnown
<1>7. QED
  BY <1>4, <1>5, <1>6 DEF AuthoringInv

LEMMA PublishCommitInv ==
  ASSUME AuthoringInv, NEW p \in Publishes, PublishCommit(p)
  PROVE  AuthoringInv'
<1> DEFINE d == publish[p].draft
<1>1. /\ AuthoringTypeOK /\ PublishFits /\ RacersKnown /\ publish[p].pc = "write"
      /\ publish' = [publish EXCEPT ![p].pc = "done"]
      /\ UNCHANGED <<rows, reopened>>
      /\ drafts' = [drafts EXCEPT ![d] = [@ EXCEPT !.status = "published", !.entity = p,
                                                   !.validation_result = "passed"]]
  BY DEF AuthoringInv, PublishCommit
<1>2. PICK new \in {"lesson", "published"} : content' = [content EXCEPT ![p] = new]
  BY DEF PublishCommit
<1>3. d \in Drafts
  BY <1>1 DEF PublishFits
<1>4. /\ publish'[p].pc = "done" /\ publish'[p].draft = d
      /\ publish'[p].beside = publish[p].beside /\ drafts'[d].status = "published"
      /\ \A q \in Publishes : q # p => publish'[q] = publish[q] /\ content'[q] = content[q]
      /\ \A e \in Drafts : e # d => drafts'[e] = drafts[e]
  BY <1>1, <1>2, <1>3 DEF AuthoringTypeOK
<1>5. AuthoringTypeOK'
  <2>1. /\ drafts \in [Drafts -> DraftRow] /\ drafts[d] \in DraftRow
        /\ publish \in [Publishes -> [pc : {"new", "refused", "validate", "write", "failed", "done"},
                                      draft : Drafts \cup {NoContent}, beside : SUBSET Publishes]]
    BY <1>1, <1>3 DEF AuthoringTypeOK
  <2>2. [drafts[d] EXCEPT !.status = "published", !.entity = p, !.validation_result = "passed"]
           \in DraftRow
    BY <2>1 DEF DraftRow
  <2>3. drafts' \in [Drafts -> DraftRow]
    BY <2>1, <2>2, <1>1, <1>3
  <2>4. publish' \in [Publishes -> [pc : {"new", "refused", "validate", "write", "failed", "done"},
                                     draft : Drafts \cup {NoContent}, beside : SUBSET Publishes]]
    BY <2>1, <1>1
  <2>5. QED
    BY <2>3, <2>4, <1>1, <1>2 DEF AuthoringTypeOK
<1>6. PublishFits'
  BY <1>1, <1>3, <1>4 DEF PublishFits
<1>7. \A q \in Publishes : /\ publish'[q].pc \in Racing => publish[q].pc \in Racing
                           /\ publish'[q].draft = publish[q].draft
                           /\ publish'[q].beside = publish[q].beside
  BY <1>1, <1>4 DEF Racing
<1>8. RacersKnown'
  BY <1>1, <1>7 DEF RacersKnown
<1>9. QED
  BY <1>5, <1>6, <1>8 DEF AuthoringInv

LEMMA DeleteInv ==
  ASSUME AuthoringInv, NEW x, Delete(x)
  PROVE  AuthoringInv'
<1>1. /\ AuthoringTypeOK /\ PublishFits /\ RacersKnown
      /\ x \in rows \ Concepts \/ (x \in Publishes /\ Exists(x))
      /\ rows' = rows \ Subtree(x) /\ UNCHANGED <<publish, reopened>>
      /\ content' = [p \in Publishes |-> IF p \in Subtree(x) THEN "deleted" ELSE content[p]]
      /\ drafts' = [d \in Drafts |-> IF drafts[d].entity \in Subtree(x)
                                     THEN [drafts[d] EXCEPT !.entity = NoContent]
                                     ELSE drafts[d]]
  BY DEF AuthoringInv, Delete
<1>2. \A p \in Publishes : p \in Subtree(x) => content[p] # "none"
  BY <1>1, SubtreeExists
<1>3. \A d \in Drafts : drafts'[d].status = drafts[d].status
  BY <1>1 DEF AuthoringTypeOK, DraftRow
<1>4. AuthoringTypeOK'
  <2>1. drafts' \in [Drafts -> DraftRow]
    <3>1. drafts \in [Drafts -> DraftRow]
      BY <1>1 DEF AuthoringTypeOK
    <3>2. \A row \in DraftRow : [row EXCEPT !.entity = NoContent] \in DraftRow
      BY DEF DraftRow
    <3>3. \A d \in Drafts : drafts[d] \in DraftRow
                             /\ [drafts[d] EXCEPT !.entity = NoContent] \in DraftRow
      BY <3>1, <3>2
    <3>4. QED
      BY <3>3, <1>1
  <2>2. content' \in [Publishes -> {"none", "lesson", "published", "archived", "deleted"}]
    BY <1>1 DEF AuthoringTypeOK
  <2>3. QED
    BY <2>1, <2>2, <1>1 DEF AuthoringTypeOK
<1>5. PublishFits'
  BY <1>1, <1>2, <1>3 DEF PublishFits
<1>6. RacersKnown'
  BY <1>1 DEF RacersKnown
<1>7. QED
  BY <1>4, <1>5, <1>6 DEF AuthoringInv

\* A draft or the status of an entity changes, and no request moves.
LEMMA EditInv ==
  ASSUME AuthoringInv, UNCHANGED publish, reopened \subseteq reopened', AuthoringTypeOK',
         \A p \in Publishes : content[p] = "none" => content'[p] = "none",
         \A d \in Drafts : drafts[d].status = "published" =>
                              drafts'[d].status = "published" \/ d \in reopened'
  PROVE  AuthoringInv'
<1>1. PublishFits'
  BY DEF AuthoringInv, PublishFits
<1>2. RacersKnown'
  BY DEF AuthoringInv, RacersKnown
<1>3. QED
  BY <1>1, <1>2 DEF AuthoringInv

LEMMA AuthoringNextInv ==
  ASSUME AuthoringInv, [AuthoringNext]_authoringVars
  PROVE  AuthoringInv'
<1>1. AuthoringTypeOK
  BY DEF AuthoringInv
<1>2. ASSUME NEW d \in Drafts, NEW w \in Payloads, CreateDraft(d, w)
      PROVE  AuthoringInv'
  <2>1. AuthoringTypeOK'
    BY <1>1, <1>2 DEF CreateDraft, AuthoringTypeOK, NoDraft, DraftRow
  <2>2. drafts[d].status # "published"
    BY <1>2 DEF CreateDraft, NoDraft
  <2>3. QED
    BY <1>1, <1>2, <2>1, <2>2, EditInv DEF CreateDraft, AuthoringTypeOK
<1>3. ASSUME NEW d \in Drafts, Reopen(d)
      PROVE  AuthoringInv'
  <2>1. AuthoringTypeOK'
    <3>1. \A row \in DraftRow : [row EXCEPT !.status = "draft"] \in DraftRow
      BY DEF DraftRow
    <3>2. drafts \in [Drafts -> DraftRow]
      BY <1>1 DEF AuthoringTypeOK
    <3>3. drafts' \in [Drafts -> DraftRow]
      BY <3>1, <3>2, <1>3 DEF Reopen
    <3>4. QED
      BY <3>3, <1>1, <1>3 DEF Reopen, AuthoringTypeOK
  <2>2. QED
    BY <1>1, <1>3, <2>1, EditInv DEF Reopen, AuthoringTypeOK
<1>4. ASSUME NEW p \in Publishes, NEW d \in Drafts, PublishRead(p, d)
      PROVE  AuthoringInv'
  BY <1>4, PublishReadInv
<1>5. ASSUME NEW p \in Publishes, PublishValidate(p)
      PROVE  AuthoringInv'
  <2>1. PICK pc \in {"write", "refused"} : publish' = [publish EXCEPT ![p].pc = pc]
    BY <1>5 DEF PublishValidate
  <2>2. QED
    BY <1>5, <2>1, PublishOnlyInv DEF PublishValidate
<1>6. ASSUME NEW p \in Publishes, PublishCommit(p)
      PROVE  AuthoringInv'
  BY <1>6, PublishCommitInv
<1>7. ASSUME NEW p \in Publishes, PublishAbort(p)
      PROVE  AuthoringInv'
  BY <1>7, PublishOnlyInv DEF PublishAbort
<1>8. ASSUME NEW p \in Publishes, NEW status \in {"published", "archived"},
             SetLifecycle(p, status)
      PROVE  AuthoringInv'
  <2>1. AuthoringTypeOK'
    BY <1>1, <1>8 DEF SetLifecycle, AuthoringTypeOK
  <2>2. QED
    BY <1>1, <1>8, <2>1, EditInv DEF SetLifecycle, AuthoringTypeOK
<1>9. ASSUME NEW x, Delete(x)
      PROVE  AuthoringInv'
  BY <1>9, DeleteInv
<1>10. ASSUME NEW c, DeleteConcept(c)
       PROVE  AuthoringInv'
  <2>1. AuthoringTypeOK'
    BY <1>1, <1>10 DEF DeleteConcept, AuthoringTypeOK
  <2>2. QED
    BY <1>10, <2>1, EditInv DEF DeleteConcept
<1>11. CASE UNCHANGED authoringVars
  <2>1. AuthoringTypeOK'
    BY <1>1, <1>11 DEF authoringVars, AuthoringTypeOK
  <2>2. QED
    BY <1>11, <2>1, EditInv DEF authoringVars
<1>12. QED
  BY <1>2, <1>3, <1>4, <1>5, <1>6, <1>7, <1>8, <1>9, <1>10, <1>11 DEF AuthoringNext
-----------------------------------------------------------------------------
(* Decisions.                                                              *)

\* A decision that is due recommends the review and its concept is flawed; a
\* session is opened by the write alone.
DecisionsFit ==
    \A i \in Decisions :
        /\ decision[i].pc \in {"new", "write"} => sessions[i] = NoContent
        /\ decision[i].pc = "write" /\ decision[i].due =>
              decision[i].recommended = "REVIEW_CONCEPT" /\ decision[i].concept \in flawed

GuidanceInv == GuidanceTypeOK /\ AuthoringInv /\ FollowsLadder /\ DecisionsFit

DecisionRow == [pc : {"new", "write", "done", "failed"}, concept : Concepts \cup {NoContent},
                recommended : Actions \cup {"none"}, told : Actions \cup {"none"},
                due : BOOLEAN]

LEMMA GuidanceInitInv == GuidanceInit => GuidanceInv
<1> SUFFICES ASSUME GuidanceInit PROVE GuidanceInv
  OBVIOUS
<1>1. AuthoringInv /\ AuthoringTypeOK
  BY AuthoringInitInv DEF GuidanceInit, AuthoringInv
<1>2. GuidanceTypeOK /\ FollowsLadder /\ DecisionsFit
  BY <1>1 DEF GuidanceInit, GuidanceTypeOK, FollowsLadder, DecisionsFit, NewDecision
<1>3. QED
  BY <1>1, <1>2 DEF GuidanceInv

LEMMA TableSaysActions ==
  ASSUME NEW x \in Reading
  PROVE  /\ Table(x) \in Actions
         /\ ReviewDue(x) \in BOOLEAN
         /\ ReviewDue(x) => Table(x) = "REVIEW_CONCEPT" /\ x.flaw
BY DEF Reading, Table, Practice, Actions, ReviewDue

LEMMA DecideReadInv ==
  ASSUME GuidanceInv, NEW i \in Decisions, NEW c \in Concepts, NEW trigger \in Triggers,
         NEW state \in MasteryStates, NEW gates \in GateReadings,
         DecideRead(i, c, trigger, state, gates)
  PROVE  GuidanceInv'
<1>1. /\ GuidanceTypeOK /\ AuthoringInv /\ FollowsLadder /\ DecisionsFit
      /\ decision[i].pc = "new"
      /\ UNCHANGED authoringVars /\ UNCHANGED <<assessed, flawed, sessions>>
  BY DEF GuidanceInv, DecideRead
<1>2. PICK x \in Reading : /\ x = ReadingOf(c, trigger, state, gates)
                           /\ x.flaw <=> c \in flawed
  <2>1. (c \in flawed) \in BOOLEAN /\ (ExercisesOf(c) # {}) \in BOOLEAN /\ gates \in SUBSET Gates
    BY GuidanceAssumption DEF GuidanceAssumption
  <2>2. ReadingOf(c, trigger, state, gates) \in Reading
    BY <2>1, Zenon DEF ReadingOf, Reading
  <2>3. ReadingOf(c, trigger, state, gates).flaw <=> c \in flawed
    BY DEF ReadingOf
  <2>4. QED
    BY <2>2, <2>3, Zenon
<1>3. PICK new : /\ new = [pc |-> "write", concept |-> c, recommended |-> Recommended(x),
                           told |-> Table(x), due |-> ReviewDue(x)]
                 /\ decision' = [decision EXCEPT ![i] = new]
  BY <1>2 DEF DecideRead
<1>4. /\ new \in DecisionRow /\ new.pc = "write" /\ new.concept = c
      /\ new.recommended = new.told
      /\ new.due => new.recommended = "REVIEW_CONCEPT" /\ c \in flawed
  <2>1. Recommended(x) = Table(x)
    BY LadderIsTable
  <2>2. Table(x) \in Actions /\ ReviewDue(x) \in BOOLEAN
        /\ (ReviewDue(x) => Table(x) = "REVIEW_CONCEPT" /\ x.flaw)
    BY TableSaysActions
  <2>3. QED
    BY <2>1, <2>2, <1>2, <1>3 DEF DecisionRow
<1>5. decision \in [Decisions -> DecisionRow]
  BY <1>1 DEF GuidanceTypeOK, DecisionRow
<1>6. decision'[i] = new /\ \A j \in Decisions : j # i => decision'[j] = decision[j]
  BY <1>3, <1>5
<1>7. AuthoringInv' /\ AuthoringTypeOK'
  BY <1>1, AuthoringNextInv DEF AuthoringInv
<1>8. GuidanceTypeOK'
  <2>1. decision' \in [Decisions -> DecisionRow]
    BY <1>3, <1>4, <1>5
  <2>2. QED
    BY <2>1, <1>1, <1>7 DEF GuidanceTypeOK, DecisionRow
<1>9. FollowsLadder' /\ DecisionsFit'
  BY <1>1, <1>4, <1>6 DEF FollowsLadder, DecisionsFit
<1>10. QED
  BY <1>7, <1>8, <1>9 DEF GuidanceInv

\* The decision's row is written, or the transaction fails.
LEMMA DecideEndInv ==
  ASSUME GuidanceInv, NEW i \in Decisions, NEW x \in DecisionRow, decision[i].pc = "write",
         decision' = [decision EXCEPT ![i] = x], x.pc \notin {"new", "write"},
         x.recommended = x.told,
         sessions' \in [Decisions -> Publishes \cup {NoContent}],
         \A j \in Decisions : j # i => sessions'[j] = sessions[j],
         UNCHANGED authoringVars, UNCHANGED <<assessed, flawed>>
  PROVE  GuidanceInv'
<1>1. /\ GuidanceTypeOK /\ FollowsLadder /\ DecisionsFit /\ AuthoringInv
      /\ decision \in [Decisions -> DecisionRow]
  BY DEF GuidanceInv, GuidanceTypeOK, DecisionRow
<1>2. decision'[i] = x /\ \A j \in Decisions : j # i => decision'[j] = decision[j]
  BY <1>1
<1>3. AuthoringInv' /\ AuthoringTypeOK'
  BY <1>1, AuthoringNextInv DEF AuthoringInv
<1>4. decision' \in [Decisions -> DecisionRow]
  BY <1>1
<1>5. GuidanceTypeOK'
  BY <1>1, <1>3, <1>4 DEF GuidanceTypeOK, DecisionRow
<1>6. FollowsLadder' /\ DecisionsFit'
  BY <1>1, <1>2 DEF FollowsLadder, DecisionsFit
<1>7. QED
  BY <1>3, <1>5, <1>6 DEF GuidanceInv

LEMMA GuidanceNextInv ==
  ASSUME GuidanceInv, [GuidanceNext]_guidanceVars
  PROVE  GuidanceInv'
<1>1. /\ GuidanceTypeOK /\ AuthoringInv /\ AuthoringTypeOK /\ FollowsLadder /\ DecisionsFit
      /\ decision \in [Decisions -> DecisionRow]
      /\ sessions \in [Decisions -> Publishes \cup {NoContent}]
  BY DEF GuidanceInv, GuidanceTypeOK, DecisionRow
<1>2. ASSUME [AuthoringNext]_authoringVars, UNCHANGED <<assessed, flawed, decision, sessions>>
      PROVE  GuidanceInv'
  <2>1. AuthoringInv' /\ AuthoringTypeOK'
    BY <1>1, <1>2, AuthoringNextInv DEF AuthoringInv
  <2>2. QED
    BY <1>1, <1>2, <2>1 DEF GuidanceInv, GuidanceTypeOK, FollowsLadder, DecisionsFit
<1>3. ASSUME NEW c \in Concepts, NEW flaw \in BOOLEAN, EvidenceOf(c, flaw)
      PROVE  GuidanceInv'
  <2>1. AuthoringInv' /\ AuthoringTypeOK'
    BY <1>1, <1>3, AuthoringNextInv DEF AuthoringInv, EvidenceOf
  <2>2. GuidanceTypeOK'
    BY <1>1, <1>3, <2>1 DEF GuidanceTypeOK, EvidenceOf
  <2>3. FollowsLadder' /\ DecisionsFit'
    BY <1>1, <1>3 DEF FollowsLadder, DecisionsFit, EvidenceOf
  <2>4. QED
    BY <2>1, <2>2, <2>3 DEF GuidanceInv
<1>4. ASSUME NEW i \in Decisions, NEW state \in MasteryStates, DecideWrite(i, state)
      PROVE  GuidanceInv'
  <2>1. PICK x : /\ x = [decision[i] EXCEPT !.pc = "done"]
                 /\ decision' = [decision EXCEPT ![i] = x]
    BY <1>1, <1>4 DEF DecideWrite
  <2>2. x \in DecisionRow /\ x.pc = "done" /\ x.recommended = x.told
    BY <1>1, <2>1 DEF DecisionRow, FollowsLadder
  <2>3. /\ sessions' \in [Decisions -> Publishes \cup {NoContent}]
        /\ \A j \in Decisions : j # i => sessions'[j] = sessions[j]
    BY <1>1, <1>4 DEF DecideWrite, ExercisesOf
  <2>4. QED
    BY <1>4, <2>1, <2>2, <2>3, DecideEndInv DEF DecideWrite
<1>5. ASSUME NEW i \in Decisions, DecideAbort(i)
      PROVE  GuidanceInv'
  <2>1. PICK x : /\ x = [NewDecision EXCEPT !.pc = "failed"]
                 /\ decision' = [decision EXCEPT ![i] = x]
    BY <1>5 DEF DecideAbort
  <2>2. x \in DecisionRow /\ x.pc = "failed" /\ x.recommended = x.told
    BY <2>1 DEF DecisionRow, NewDecision
  <2>3. QED
    BY <1>1, <1>5, <2>1, <2>2, DecideEndInv DEF DecideAbort
<1>6. CASE UNCHANGED guidanceVars
  BY <1>2, <1>6 DEF guidanceVars, authoringVars
<1>7. CASE ContentStep
  BY <1>2, <1>7 DEF ContentStep
<1>8. QED
  BY <1>3, <1>4, <1>5, <1>6, <1>7, DecideReadInv DEF GuidanceNext

LEMMA AlwaysGuidanceInv == GuidanceSpec => []GuidanceInv
<1>1. GuidanceInv /\ [GuidanceNext]_guidanceVars => GuidanceInv'
  BY GuidanceNextInv
<1>2. QED
  BY GuidanceInitInv, <1>1, PTL DEF GuidanceSpec

\* The variables keep their types: a decision recommends an action of the list
\* and a session is of a published exercise.
THEOREM GuidanceTypeCorrect == GuidanceSpec => []GuidanceTypeOK
<1>1. GuidanceInv => GuidanceTypeOK
  BY DEF GuidanceInv
<1>2. QED
  BY <1>1, AlwaysGuidanceInv, PTL

\* Each decision recommends what the table says of what it has read.
THEOREM LadderFollowed == GuidanceSpec => []FollowsLadder
<1>1. GuidanceInv => FollowsLadder
  BY DEF GuidanceInv
<1>2. QED
  BY <1>1, AlwaysGuidanceInv, PTL

\* A draft becomes two entities only by publish requests that overlapped, or
\* after an admin has set its status back.
THEOREM DuplicatesNeedRace == GuidanceSpec => []DuplicatesOnlyByRace
<1>1. GuidanceInv => DuplicatesOnlyByRace
  BY DEF GuidanceInv, AuthoringInv, PublishFits, RacersKnown, Racing, DuplicatesOnlyByRace
<1>2. QED
  BY <1>1, AlwaysGuidanceInv, PTL
-----------------------------------------------------------------------------
(* What a step may do.                                                     *)

LEMMA PublishStep ==
  ASSUME AuthoringInv, AuthoringNext
  PROVE  /\ \A p \in Publishes :
               (content[p] = "none" /\ content'[p] # "none") =>
                  /\ ParentExists(PayloadOf(p)) /\ PayloadOf(p).concepts \subseteq rows
                  /\ drafts'[publish[p].draft].status = "published"
                  /\ drafts'[publish[p].draft].entity = p
         /\ \A d \in Drafts :
               (drafts[d] # NoDraft /\ drafts'[d] # drafts[d]) =>
                  \/ \E p \in Publishes : /\ publish[p].draft = d
                                          /\ content[p] = "none" /\ content'[p] # "none"
                  \/ drafts'[d] = [drafts[d] EXCEPT !.status = "draft"] /\ d \in reopened'
                  \/ /\ drafts'[d] = [drafts[d] EXCEPT !.entity = NoContent]
                     /\ content'[drafts[d].entity] = "deleted"
<1> DEFINE Appears(p) == content[p] = "none" /\ content'[p] # "none"
           Complete(p) == /\ ParentExists(PayloadOf(p)) /\ PayloadOf(p).concepts \subseteq rows
                          /\ drafts'[publish[p].draft].status = "published"
                          /\ drafts'[publish[p].draft].entity = p
           Changed(d) == drafts[d] # NoDraft /\ drafts'[d] # drafts[d]
           Allowed(d) ==
              \/ \E p \in Publishes : publish[p].draft = d /\ Appears(p)
              \/ drafts'[d] = [drafts[d] EXCEPT !.status = "draft"] /\ d \in reopened'
              \/ /\ drafts'[d] = [drafts[d] EXCEPT !.entity = NoContent]
                 /\ content'[drafts[d].entity] = "deleted"
           Fine == /\ \A p \in Publishes : Appears(p) => Complete(p)
                   /\ \A d \in Drafts : Changed(d) => Allowed(d)
<1>1. AuthoringTypeOK /\ PublishFits /\ drafts \in [Drafts -> DraftRow]
  BY DEF AuthoringInv, AuthoringTypeOK
<1>2. CASE UNCHANGED <<drafts, content>>
  BY <1>2
<1>3. ASSUME NEW e \in Drafts, NEW w \in Payloads, CreateDraft(e, w)
      PROVE  Fine
  BY <1>1, <1>3 DEF CreateDraft
<1>4. ASSUME NEW e \in Drafts, Reopen(e)
      PROVE  Fine
  BY <1>1, <1>4 DEF Reopen
<1>5. ASSUME NEW q \in Publishes, PublishCommit(q)
      PROVE  Fine
  <2>1. publish[q].draft \in Drafts /\ content[q] = "none"
    BY <1>1, <1>5 DEF PublishFits, PublishCommit
  <2>2. /\ \A p \in Publishes : p # q => content'[p] = content[p]
        /\ content'[q] # "none"
    BY <1>1, <1>5 DEF PublishCommit, AuthoringTypeOK
  <2>3. /\ \A d \in Drafts : d # publish[q].draft => drafts'[d] = drafts[d]
        /\ drafts'[publish[q].draft].status = "published"
        /\ drafts'[publish[q].draft].entity = q
    BY <1>1, <1>5, <2>1 DEF PublishCommit, DraftRow
  <2>4. ParentExists(PayloadOf(q)) /\ PayloadOf(q).concepts \subseteq rows
    BY <1>5 DEF PublishCommit, Acceptable
  <2>5. QED
    BY <2>1, <2>2, <2>3, <2>4
<1>6. ASSUME NEW q \in Publishes, NEW status \in {"published", "archived"},
             SetLifecycle(q, status)
      PROVE  Fine
  BY <1>1, <1>6 DEF SetLifecycle, AuthoringTypeOK
<1>7. ASSUME NEW x, Delete(x)
      PROVE  Fine
  <2>1. /\ x \in rows \ Concepts \/ (x \in Publishes /\ Exists(x))
        /\ content' = [p \in Publishes |-> IF p \in Subtree(x) THEN "deleted" ELSE content[p]]
        /\ drafts' = [d \in Drafts |-> IF drafts[d].entity \in Subtree(x)
                                       THEN [drafts[d] EXCEPT !.entity = NoContent]
                                       ELSE drafts[d]]
    BY <1>7 DEF Delete
  <2>2. \A p \in Publishes : ~Appears(p)
    BY <1>1, <2>1, SubtreeExists
  <2>3. ASSUME NEW d \in Drafts, Changed(d)
        PROVE  Allowed(d)
    <3>1. /\ drafts[d].entity \in Subtree(x)
          /\ drafts'[d] = [drafts[d] EXCEPT !.entity = NoContent]
      BY <2>1, <2>3
    <3>2. drafts[d].entity \in Publishes
      <4> SUFFICES ASSUME drafts[d].entity = NoContent PROVE FALSE
        BY <1>1 DEF DraftRow
      <4>1. \A row \in DraftRow : row.entity = NoContent => [row EXCEPT !.entity = NoContent] = row
        BY DEF DraftRow
      <4>2. drafts[d] \in DraftRow
        BY <1>1
      <4>3. [drafts[d] EXCEPT !.entity = NoContent] = drafts[d]
        BY <4>1, <4>2, Zenon
      <4>4. QED
        BY <2>3, <3>1, <4>3
    <3>3. QED
      BY <2>1, <3>1, <3>2
  <2>4. QED
    BY <2>2, <2>3
<1>8. Fine
  BY <1>2, <1>3, <1>4, <1>5, <1>6, <1>7
     DEF AuthoringNext, PublishRead, PublishValidate, PublishAbort, DeleteConcept
<1>9. QED
  BY <1>8

\* An entity appears only with its parent, its concepts and its draft, and a
\* draft changes in no other way that is not an admin's.
THEOREM PublishingAtomic == GuidanceSpec => PublishAllOrNothing
<1> DEFINE Fine ==
       /\ \A p \in Publishes :
             (content[p] = "none" /\ content'[p] # "none") =>
                /\ ParentExists(PayloadOf(p)) /\ PayloadOf(p).concepts \subseteq rows
                /\ drafts'[publish[p].draft].status = "published"
                /\ drafts'[publish[p].draft].entity = p
       /\ \A d \in Drafts :
             (drafts[d] # NoDraft /\ drafts'[d] # drafts[d]) =>
                \/ \E p \in Publishes : /\ publish[p].draft = d
                                        /\ content[p] = "none" /\ content'[p] # "none"
                \/ drafts'[d] = [drafts[d] EXCEPT !.status = "draft"] /\ d \in reopened'
                \/ /\ drafts'[d] = [drafts[d] EXCEPT !.entity = NoContent]
                   /\ content'[drafts[d].entity] = "deleted"
<1>1. AuthoringInv /\ AuthoringNext => Fine
  BY PublishStep
<1>2. GuidanceNext => AuthoringNext \/ UNCHANGED authoringVars
  BY DEF GuidanceNext, ContentStep, EvidenceOf, DecideRead, DecideWrite, DecideAbort
<1>3. UNCHANGED guidanceVars => UNCHANGED authoringVars
  BY DEF guidanceVars, authoringVars
<1> HIDE DEF Fine
<1>4. GuidanceInv /\ [GuidanceNext]_guidanceVars => [Fine]_authoringVars
  BY <1>1, <1>2, <1>3 DEF GuidanceInv
<1>5. GuidanceSpec => [][Fine]_authoringVars
  BY <1>4, AlwaysGuidanceInv, PTL DEF GuidanceSpec
<1>6. QED
  BY <1>5 DEF Fine, PublishAllOrNothing

\* A student with an active flaw is sent to review it and given the session
\* whenever an exercise of the concept is still published.
THEOREM FlaggedReviewed == GuidanceSpec => FlaggedGetsReview
<1> DEFINE Given ==
       \A i \in Decisions :
          (decision[i].due /\ decision[i].pc = "write" /\ decision'[i].pc = "done")
          => /\ decision'[i].recommended = "REVIEW_CONCEPT"
             /\ (sessions'[i] # NoContent) <=> (ExercisesOf(decision[i].concept) # {})
<1>1. GuidanceInv /\ GuidanceNext => Given
  <2> SUFFICES ASSUME GuidanceInv, GuidanceNext, NEW i \in Decisions, decision[i].due,
                      decision[i].pc = "write", decision'[i].pc = "done"
               PROVE  /\ decision'[i].recommended = "REVIEW_CONCEPT"
                      /\ (sessions'[i] # NoContent) <=> (ExercisesOf(decision[i].concept) # {})
    OBVIOUS
  <2>1. /\ decision \in [Decisions -> DecisionRow] /\ DecisionsFit
        /\ sessions \in [Decisions -> Publishes \cup {NoContent}]
    BY DEF GuidanceInv, GuidanceTypeOK, DecisionRow
  <2>2. PICK state \in MasteryStates : DecideWrite(i, state)
    <3>1. \A j \in Decisions : j # i /\ decision' # decision =>
             ~DecideAbort(j) /\ \A state : ~DecideWrite(j, state)
      BY <2>1 DEF DecideAbort, DecideWrite
    <3>2. decision' # decision
      OBVIOUS
    <3>3. \A j \in Decisions : \A c, trigger, state, gates :
             ~DecideRead(j, c, trigger, state, gates)
      BY <2>1 DEF DecideRead
    <3>4. ~DecideAbort(i)
      BY <2>1 DEF DecideAbort, NewDecision
    <3>5. QED
      BY <3>1, <3>2, <3>3, <3>4 DEF GuidanceNext, ContentStep, EvidenceOf
  <2>3. /\ decision[i].recommended = "REVIEW_CONCEPT" /\ decision[i].concept \in flawed
        /\ sessions[i] = NoContent
    BY <2>1 DEF DecisionsFit
  <2>4. decision'[i].recommended = "REVIEW_CONCEPT"
    BY <2>1, <2>2, <2>3 DEF DecideWrite, DecisionRow
  <2>5. Weak(decision[i].concept, state)
    BY <2>3 DEF Weak
  <2>6. CASE ExercisesOf(decision[i].concept) = {}
    BY <2>2, <2>3, <2>4, <2>6 DEF DecideWrite
  <2>7. CASE ExercisesOf(decision[i].concept) # {}
    <3>1. PICK p \in ExercisesOf(decision[i].concept) :
             sessions' = [sessions EXCEPT ![i] = p]
      BY <2>2, <2>3, <2>5, <2>7 DEF DecideWrite
    <3>2. p # NoContent
      BY <3>1, AuthoringAssumption DEF AuthoringAssumption, ExercisesOf
    <3>3. QED
      BY <2>1, <2>4, <2>7, <3>1, <3>2
  <2>8. QED
    BY <2>6, <2>7
<1> HIDE DEF Given
<1>2. GuidanceInv /\ [GuidanceNext]_guidanceVars => [Given]_guidanceVars
  BY <1>1
<1>3. GuidanceSpec => [][Given]_guidanceVars
  BY <1>2, AlwaysGuidanceInv, PTL DEF GuidanceSpec
<1>4. QED
  BY <1>3 DEF Given, FlaggedGetsReview
=============================================================================
