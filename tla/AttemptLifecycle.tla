-------------------------- MODULE AttemptLifecycle --------------------------
(***************************************************************************)
(* What the execution component promises about one exercise attempt, as    *)
(* the status API shows it (execution/serializers.py, API_STATUS_MAP) and  *)
(* the docstrings of Execution and EvaluationResult state it: an accepted  *)
(* attempt is queued until it settles, it settles once, and a verdict      *)
(* comes with exactly the results that graded code can have.               *)
(***************************************************************************)
CONSTANT Attempts

VARIABLES status,    \* the terminal result, "queued" before it, "absent" before that
          verdict    \* the evaluation: "pass", "fail" or "none"

promises == <<status, verdict>>

Technical == {"timeout", "system_error", "cancelled"}
Graded == {"pass", "fail", "runtime_error"}

VerdictOf(result) ==
    IF result = "pass" THEN "pass"
    ELSE IF result \in Graded THEN "fail" ELSE "none"

Init ==
    /\ status = [a \in Attempts |-> "absent"]
    /\ verdict = [a \in Attempts |-> "none"]

Accept(a) ==
    /\ status[a] = "absent"
    /\ status' = [status EXCEPT ![a] = "queued"]
    /\ UNCHANGED verdict

Settle(a, result) ==
    /\ status[a] = "queued"
    /\ status' = [status EXCEPT ![a] = result]
    /\ verdict' = [verdict EXCEPT ![a] = VerdictOf(result)]

Next == \E a \in Attempts :
            \/ Accept(a)
            \/ \E result \in Graded \cup Technical : Settle(a, result)

Spec == Init /\ [][Next]_promises
=============================================================================
