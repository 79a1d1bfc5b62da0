----------------------------- MODULE Assessment -----------------------------
(***************************************************************************)
(* The assessment component (apps/assessment): one student's attempts at   *)
(* the assessment of one module.  The student starts attempts, answers     *)
(* items in submit requests, and the worker transactions that record the   *)
(* evaluations of the answers finalize the attempt (signals.py).           *)
(*                                                                         *)
(* Requests and worker transactions interleave at their statements; what   *)
(* a transaction wrote becomes visible when it commits, and a second       *)
(* insert under a unique constraint waits for the first one's commit.      *)
(*                                                                         *)
(* An answer's exercise attempt is named by its idempotency key, which is  *)
(* <<prefix, item>>: the prefix is the request's header or its default.    *)
(***************************************************************************)
EXTENDS Naturals, FiniteSets

CONSTANTS
    Items,         \* the items of the assessment
    MaxAttempts,   \* Assessment.max_attempts
    Limit,         \* EXECUTION_MAX_CONCURRENT_PER_USER
    Prefixes,      \* idempotency prefixes the student's requests carry
    Starters,      \* start requests, each made once
    Submissions,   \* submit requests, each made once
    Workers,       \* Celery worker processes
    None

ASSUME AssessmentAssumption ==
    /\ IsFiniteSet(Items) /\ IsFiniteSet(Prefixes)
    /\ MaxAttempts \in Nat \ {0} /\ Limit \in Nat
    /\ None \notin Prefixes \cup {"passed", "failed"}

VARIABLES
    start,         \* start requests: the number each one is about to insert
    result,        \* assessment_attempts.result by attempt_number
    remediation,   \* remediation_paths.status by attempt_number
    submission,    \* submit requests and what each one has written
    response,      \* assessment_responses: the prefix of the linked run
    run,           \* exercise attempts of answers: open, or their outcome
    handler,       \* the evaluation transaction each worker has open
    raced          \* attempts for which two such transactions overlapped

vars == <<start, result, remediation, submission, response, run, handler, raced>>
-----------------------------------------------------------------------------
Numbers == 1..(MaxAttempts + 1)
Verdicts == {"pass", "fail"}
Decided == {"passed", "failed"}

NewSubmission == [pc |-> "new", attempt |-> 1, prefix |-> None,
                  todo |-> {}, made |-> {}]
IdleHandler == [pc |-> "idle", prefix |-> None, item |-> None, attempt |-> 1,
                outcome |-> None, decision |-> None]

Init ==
    /\ start = [t \in Starters |-> [pc |-> "new", number |-> 1]]
    /\ result = [n \in Numbers |-> "none"]
    /\ remediation = [n \in Numbers |-> "none"]
    /\ submission = [s \in Submissions |-> NewSubmission]
    /\ response = [n \in Numbers |-> [i \in Items |-> None]]
    /\ run = [p \in Prefixes |-> [i \in Items |-> "none"]]
    /\ handler = [w \in Workers |-> IdleHandler]
    /\ raced = {}
-----------------------------------------------------------------------------
(* start_attempt: the eligibility rules read the attempts, then the new    *)
(* attempt is inserted.                                                    *)

Made == {n \in Numbers : result[n] # "none"}
Count == Cardinality(Made)
LatestInProgress == Count > 0 /\ result[Count] = "in_progress"
AnyPassed == \E n \in Made : result[n] = "passed"

Answer(t, pc, n) == start' = [start EXCEPT ![t] = [pc |-> pc, number |-> n]]

StartBesideOpen(t) ==
    /\ start[t].pc = "new"
    /\ IF AnyPassed THEN Answer(t, "refused", 1)
       ELSE IF Count < MaxAttempts THEN Answer(t, "insert", Count + 1)
       ELSE Answer(t, "remediation", 1)
    /\ UNCHANGED <<result, remediation, submission, response, run, handler, raced>>

StartAfterPass(t) ==
    /\ start[t].pc = "new"
    /\ IF LatestInProgress THEN Answer(t, "refused", 1)
       ELSE IF Count < MaxAttempts THEN Answer(t, "insert", Count + 1)
       ELSE Answer(t, "remediation", 1)
    /\ UNCHANGED <<result, remediation, submission, response, run, handler, raced>>

\* With the attempts exhausted _resolve_remediation inserts a path and its
\* review session, but RemediationRequiredError then leaves start_attempt's
\* atomic block and both are rolled back: remediation keeps its value.
StartAttempt(t) ==
    /\ start[t].pc = "new"
    /\ IF LatestInProgress \/ AnyPassed THEN Answer(t, "refused", 1)
       ELSE IF Count < MaxAttempts \/ remediation[Count] = "completed"
       THEN Answer(t, "insert", Count + 1)
       ELSE Answer(t, "remediation", 1)
    /\ UNCHANGED <<result, remediation, submission, response, run, handler, raced>>

\* The unique constraint on the attempt number refuses a racing start.
InsertAttempt(t) ==
    LET n == start[t].number
    IN  /\ start[t].pc = "insert"
        /\ IF result[n] = "none"
           THEN Answer(t, "started", n) /\ result' = [result EXCEPT ![n] = "in_progress"]
           ELSE Answer(t, "refused", 1) /\ UNCHANGED result
        /\ UNCHANGED <<remediation, submission, response, run, handler, raced>>
-----------------------------------------------------------------------------
(* submit_answers: one transaction, in which each answer inserts a         *)
(* response and an exercise attempt.                                       *)

\* The attempt is read once; nothing locks it.
SubmitBegin(s, n, p, S) ==
    /\ submission[s].pc = "new"
    /\ result[n] # "none"
    /\ submission' = [submission EXCEPT ![s] =
          IF result[n] = "in_progress"
          THEN [pc |-> "answering", attempt |-> n, prefix |-> p, todo |-> S, made |-> {}]
          ELSE [NewSubmission EXCEPT !.pc = "refused"]]
    /\ UNCHANGED <<start, result, remediation, response, run, handler, raced>>

InFlight == {k \in Prefixes \X Items : run[k[1]][k[2]] = "open"}

\* Another transaction holds the unique key of the response or of the run.
Held(s, i) ==
    \E q \in Submissions \ {s} :
        /\ i \in submission[q].made
        /\ \/ submission[q].attempt = submission[s].attempt
           \/ submission[q].prefix = submission[s].prefix

Abort(s) == submission' = [submission EXCEPT ![s] = [NewSubmission EXCEPT !.pc = "refused"]]

AnswerItemReusing(s, i) ==
    LET m == submission[s]
        n == m.attempt
    IN  /\ m.pc = "answering" /\ i \in m.todo
        /\ ~Held(s, i)
        /\ IF response[n][i] # None
           THEN submission' = [submission EXCEPT ![s].todo = @ \ {i}]
           ELSE IF Cardinality(InFlight) + Cardinality(m.made) >= Limit
           THEN Abort(s)
           ELSE submission' = [submission EXCEPT ![s].todo = @ \ {i},
                                                 ![s].made = @ \cup {i}]
        /\ UNCHANGED <<start, result, remediation, response, run, handler, raced>>

\* An answered item is skipped.  A key used before names a run that another
\* response links to (the one-to-one constraint refuses to link it again);
\* the run of a new key counts against the student's concurrency limit.
\* Either error rolls back the whole request.
AnswerItem(s, i) ==
    LET m == submission[s]
        n == m.attempt
    IN  /\ m.pc = "answering" /\ i \in m.todo
        /\ ~Held(s, i)
        /\ IF response[n][i] # None
           THEN submission' = [submission EXCEPT ![s].todo = @ \ {i}]
           ELSE IF \/ run[m.prefix][i] # "none"
                   \/ Cardinality(InFlight) + Cardinality(m.made) >= Limit
           THEN Abort(s)
           ELSE submission' = [submission EXCEPT ![s].todo = @ \ {i},
                                                 ![s].made = @ \cup {i}]
        /\ UNCHANGED <<start, result, remediation, response, run, handler, raced>>

\* Any other error, a deadlock over two requests' unique keys, or a crash.
SubmitAbort(s) ==
    /\ submission[s].pc = "answering"
    /\ Abort(s)
    /\ UNCHANGED <<start, result, remediation, response, run, handler, raced>>

SubmitCommit(s) ==
    LET m == submission[s]
    IN  /\ m.pc = "answering" /\ m.todo = {}
        /\ response' = [response EXCEPT ![m.attempt] =
              [i \in Items |-> IF i \in m.made THEN m.prefix ELSE @[i]]]
        /\ run' = [run EXCEPT ![m.prefix] =
              [i \in Items |-> IF i \in m.made THEN "open" ELSE @[i]]]
        /\ submission' = [submission EXCEPT ![s] = [NewSubmission EXCEPT !.pc = "done"]]
        /\ UNCHANGED <<start, result, remediation, handler, raced>>
-----------------------------------------------------------------------------
(* The worker's transaction: it inserts the evaluation of one run, and the *)
(* handler of post_save calls finalize_if_ready before the commit.         *)

Outcome(n, i) == run[response[n][i]][i]
Answered(n) == {i \in Items : response[n][i] # None}
LinkedTo(p, i) == {n \in Numbers : response[n][i] = p}

DecisionBeforeSave(n, item, outcome) ==
    IF \E i \in Answered(n) : Outcome(n, i) \notin Verdicts THEN None
    ELSE IF \A i \in Answered(n) : Outcome(n, i) = "pass" THEN "passed"
    ELSE "failed"

DecisionAnyPass(n, item, outcome) ==
    LET others == Answered(n) \ {item}
    IN  IF \E i \in others : Outcome(n, i) \notin Verdicts THEN None
        ELSE IF outcome = "pass" \/ \E i \in others : Outcome(n, i) = "pass"
        THEN "passed" ELSE "failed"

\* finalize_if_ready, as the transaction that evaluates item sees it: the
\* responses that exist, committed evaluations and its own.
Decision(n, item, outcome) ==
    LET others == Answered(n) \ {item}
    IN  IF \E i \in others : Outcome(n, i) \notin Verdicts THEN None
        ELSE IF outcome = "pass" /\ \A i \in others : Outcome(n, i) = "pass"
        THEN "passed" ELSE "failed"

InHand(p, i) ==
    \E w \in Workers : handler[w].pc = "commit" /\ handler[w].prefix = p
                                                /\ handler[w].item = i

EvaluateBegin(w, p, i, outcome) ==
    /\ handler[w].pc = "idle"
    /\ run[p][i] = "open" /\ ~InHand(p, i)
    /\ \E n \in LinkedTo(p, i) :
          handler' = [handler EXCEPT ![w] =
             [pc |-> "commit", prefix |-> p, item |-> i, attempt |-> n,
              outcome |-> outcome, decision |-> Decision(n, i, outcome)]]
    /\ UNCHANGED <<start, result, remediation, submission, response, run, raced>>

\* The result is overwritten whatever it is by now.
EvaluateCommit(w) ==
    LET h == handler[w]
        n == h.attempt
    IN  /\ h.pc = "commit"
        /\ run' = [run EXCEPT ![h.prefix][h.item] = h.outcome]
        /\ result' = IF h.decision = None THEN result
                     ELSE [result EXCEPT ![n] = h.decision]
        /\ raced' = IF \E v \in Workers \ {w} : handler[v].pc = "commit"
                                                /\ handler[v].attempt = n
                    THEN raced \cup {n} ELSE raced
        /\ handler' = [handler EXCEPT ![w] = IdleHandler]
        /\ UNCHANGED <<start, remediation, submission, response>>

\* A run that times out, fails in the sandbox or is cancelled has a result
\* and no evaluation, so no handler runs for it.
EndUngraded(p, i) ==
    /\ run[p][i] = "open" /\ ~InHand(p, i)
    /\ run' = [run EXCEPT ![p][i] = "ungraded"]
    /\ UNCHANGED <<start, result, remediation, submission, response, handler, raced>>
-----------------------------------------------------------------------------
SubmitStep(s) ==
    \/ \E i \in Items : AnswerItem(s, i)
    \/ SubmitAbort(s)
    \/ SubmitCommit(s)

WorkerStep(w) ==
    \/ \E p \in Prefixes, i \in Items, outcome \in Verdicts :
          EvaluateBegin(w, p, i, outcome)
    \/ EvaluateCommit(w)

Next ==
    \/ \E t \in Starters : StartAttempt(t) \/ InsertAttempt(t)
    \/ \E s \in Submissions, n \in Numbers, p \in Prefixes, S \in SUBSET Items :
          SubmitBegin(s, n, p, S)
    \/ \E s \in Submissions : SubmitStep(s)
    \/ \E w \in Workers : WorkerStep(w)
    \/ \E p \in Prefixes, i \in Items : EndUngraded(p, i)

Spec == Init /\ [][Next]_vars

\* Workers go on; an answer's run settles (EveryAttemptSettles of Execution).
\* Students need not start or submit anything, and no request need end.
FairSpec == Spec /\ \A w \in Workers : WF_vars(WorkerStep(w))
-----------------------------------------------------------------------------
\* Rows, requests and open transactions have the shapes the code gives them.
TypeOK ==
    /\ start \in [Starters -> [pc : {"new", "insert", "started", "refused",
                                     "remediation"}, number : Numbers]]
    /\ result \in [Numbers -> Decided \cup {"none", "in_progress"}]
    /\ remediation \in [Numbers -> {"none", "required", "completed"}]
    /\ submission \in [Submissions ->
          [pc : {"new", "answering", "done", "refused"}, attempt : Numbers,
           prefix : Prefixes \cup {None}, todo : SUBSET Items, made : SUBSET Items]]
    /\ response \in [Numbers -> [Items -> Prefixes \cup {None}]]
    /\ run \in [Prefixes -> [Items -> Verdicts \cup {"none", "open", "ungraded"}]]
    /\ handler \in [Workers ->
          [pc : {"idle", "commit"}, prefix : Prefixes \cup {None},
           item : Items \cup {None}, attempt : Numbers,
           outcome : Verdicts \cup {None}, decision : Decided \cup {None}]]
    /\ raced \subseteq Numbers

\* However start requests race with each other and with the finalization, a
\* student has one attempt in progress at most (AttemptInProgressError).
AtMostOneInProgress ==
    \A n, m \in Numbers :
        result[n] = "in_progress" /\ result[m] = "in_progress" => n = m

\* No attempt follows a passed one (AssessmentAlreadyPassedError), although
\* start reads the results without a lock and a late commit may change them.
NoAttemptAfterPass ==
    \A n, m \in Numbers : n < m /\ result[n] = "passed" => result[m] = "none"

\* A failed attempt stays failed: no late evaluation turns it into a pass.
FailedIsFinal ==
    [][\A n \in Numbers : result[n] = "failed" => result'[n] = "failed"]_vars

\* Requests that reuse a key, for another attempt or at the same time, never
\* make one run answer two items' responses.
RunAnswersOnce ==
    \A p \in Prefixes, i \in Items : Cardinality(LinkedTo(p, i)) <= 1

\* Every answer of the attempt is evaluated, and no evaluation is open.
Resolved(n) ==
    /\ Answered(n) # {}
    /\ \A i \in Answered(n) : Outcome(n, i) \in Verdicts
    /\ \A w \in Workers : handler[w].pc = "commit" => handler[w].attempt # n

\* The docstring of finalize_if_ready: once every response is evaluated the
\* attempt is finalized.
ResolvedIsDecided == \A n \in Numbers : Resolved(n) => result[n] \in Decided

\* What holds of it: only overlapping transactions, each of which misses the
\* other's evaluation, leave a resolved attempt undecided.
UndecidedOnlyByRace ==
    \A n \in Numbers : Resolved(n) => result[n] \in Decided \/ n \in raced

\* The same over time: an answered attempt is decided, unless an answer's run
\* ends without an evaluation or evaluations overlap.
AnsweredIsDecided ==
    \A n \in Numbers :
        Answered(n) # {} ~>
            \/ result[n] \in Decided
            \/ \E i \in Answered(n) : Outcome(n, i) = "ungraded"
            \/ n \in raced

\* The docstring's scoring rule: passed means that all items passed.
PassedMeansAllItemsPassed ==
    \A n \in Numbers : result[n] = "passed" =>
        \A i \in Items : response[n][i] # None /\ Outcome(n, i) = "pass"

\* RemediationRequiredError is never a permanent block: the start it refused
\* leaves a remediation path to complete.
RefusalLeavesPath ==
    \A t \in Starters : start[t].pc = "remediation" =>
        \E n \in Numbers : remediation[n] # "none"
=============================================================================
