-------------------------------- MODULE Ladder --------------------------------
(***************************************************************************)
(* The rules of an adaptive decision (apps/adaptive): candidates.py,       *)
(* eligibility.py, priority.py and conflict_resolution.py as functions of  *)
(* what the decision has read.  A list of candidates is a set of records,  *)
(* each with its place in the list that CandidateGenerator builds; the     *)
(* stable sort of PriorityLadder keeps the places within a rung.           *)
(***************************************************************************)
EXTENDS Naturals

Triggers == {"submission_passed", "submission_failed", "module_completed"}
MasteryStates == {"not_assessed", "insufficient_evidence", "developing",
                  "proficient", "mastered"}
\* Of a prerequisite: met, not met, or not readable (satisfied is None).
Gates == {"met", "unmet", "unreadable"}

\* What ContextBuilder and the callers' arguments give one decision.
Reading == [trigger : Triggers, state : MasteryStates, flaw : BOOLEAN,
            gates : SUBSET Gates, content : BOOLEAN, remediation : BOOLEAN]

Actions == {"CONTINUE", "PRACTICE_EASIER", "PRACTICE_HARDER", "REVIEW_CONCEPT",
            "TRIGGER_EXPLANATION", "UNLOCK_ASSESSMENT", "UNLOCK_PROJECT", "STAY"}
-----------------------------------------------------------------------------
Candidate(type, tag, at) == [type |-> type, tag |-> tag, at |-> at]

\* CandidateGenerator.generate
Generated(x) ==
    IF x.trigger = "module_completed"
    THEN {Candidate("UNLOCK_ASSESSMENT", "none", 1),
          Candidate("REVIEW_CONCEPT", "mandatory_module_review", 2)}
    ELSE IF x.state = "insufficient_evidence"
    THEN {Candidate("CONTINUE", "none", 1), Candidate("PRACTICE_EASIER", "none", 2)}
    ELSE (IF x.flaw THEN {Candidate("REVIEW_CONCEPT", "active_flaw", 1),
                          Candidate("PRACTICE_EASIER", "none", 2)} ELSE {})
         \cup (IF x.trigger = "submission_failed"
               THEN {Candidate("TRIGGER_EXPLANATION", "recent_failure", 3),
                     Candidate("PRACTICE_EASIER", "none", 4)} ELSE {})
         \cup (IF x.trigger = "submission_passed" /\ x.state \in {"proficient", "mastered"}
               THEN {Candidate("PRACTICE_HARDER", "none", 5),
                     Candidate("UNLOCK_PROJECT", "none", 6)} ELSE {})
         \cup {Candidate("CONTINUE", "none", 7)}

\* EligibilityFilter: the prerequisite gate (which fails open), content,
\* mastery sufficiency and a pending remediation.
Eligible(c, x) ==
    /\ "unmet" \notin x.gates
    /\ c.type \in {"CONTINUE", "PRACTICE_EASIER", "PRACTICE_HARDER"} => x.content
    /\ c.type = "PRACTICE_HARDER" =>
          x.state \notin {"not_assessed", "insufficient_evidence"}
    /\ c.type = "UNLOCK_ASSESSMENT" => ~x.remediation

\* Mutant: a recent failure comes before a flaw.
RungOfReviews(c) ==
    CASE c.type = "REVIEW_CONCEPT" -> 4
      [] c.tag = "recent_failure" -> 3
      [] c.tag = "none" /\ c.type \in {"PRACTICE_HARDER", "CONTINUE"} -> 6
      [] c.type \in {"UNLOCK_ASSESSMENT", "UNLOCK_PROJECT"} -> 7
      [] OTHER -> 8

\* rung_for; no candidate is a REVIEW_PREREQUISITE (rung 3).
Rung(c) ==
    CASE c.tag = "mandatory_module_review" -> 4
      [] c.tag = "active_flaw" -> 2
      [] c.tag = "recent_failure" -> 5
      [] c.tag = "none" /\ c.type \in {"PRACTICE_HARDER", "CONTINUE"} -> 6
      [] c.type \in {"UNLOCK_ASSESSMENT", "UNLOCK_PROJECT"} -> 7
      [] OTHER -> 8

\* ConflictResolver.resolve: of those on the lowest rung an UNLOCK_ASSESSMENT,
\* or else the first of the list; STAY where no candidate is left.
Recommended(x) ==
    LET eligible == {c \in Generated(x) : Eligible(c, x)}
        tied == {c \in eligible : \A d \in eligible : Rung(c) <= Rung(d)}
        unlock == {c \in tied : c.type = "UNLOCK_ASSESSMENT"}
        pool == IF unlock # {} THEN unlock ELSE tied
    IN  IF eligible = {} THEN "STAY"
        ELSE (CHOOSE c \in pool : \A d \in pool : c.at <= d.at).type

\* Readings in which a flaw is to be reviewed: mastery rests on enough
\* evidence, or a module ends, and no prerequisite comes first.
ReviewDue(x) ==
    /\ x.flaw
    /\ "unmet" \notin x.gates
    /\ x.state # "insufficient_evidence" \/ x.trigger = "module_completed"
-----------------------------------------------------------------------------
\* The table the rules amount to: what a student is told first.  An unmet
\* prerequisite says nothing but STAY; a module ends with its review, which a
\* pending remediation does not change; too little evidence asks for more and
\* is never a reason to review; then a flaw, then a failure, then progress.
Practice(x, type) == IF x.content THEN type ELSE "STAY"

Table(x) ==
    IF "unmet" \in x.gates THEN "STAY"
    ELSE IF x.trigger = "module_completed" THEN "REVIEW_CONCEPT"
    ELSE IF x.state = "insufficient_evidence" THEN Practice(x, "CONTINUE")
    ELSE IF x.flaw THEN "REVIEW_CONCEPT"
    ELSE IF x.trigger = "submission_failed" THEN "TRIGGER_EXPLANATION"
    ELSE IF x.state \in {"proficient", "mastered"}
    THEN IF x.content THEN "PRACTICE_HARDER" ELSE "UNLOCK_PROJECT"
    ELSE Practice(x, "CONTINUE")
=============================================================================
