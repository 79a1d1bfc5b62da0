------------------------------ MODULE Execution ------------------------------
(***************************************************************************)
(* The execution component (apps/execution): the submit request, the       *)
(* Celery queue, the workers that run an attempt against its test cases    *)
(* and the cancel request.  One action is one database statement or one    *)
(* committed transaction: PostgreSQL runs at READ COMMITTED, so a request  *)
(* sees what other transactions committed before each of its statements,   *)
(* and a uniqueness constraint is decided when the row is inserted.        *)
(*                                                                         *)
(* An attempt has the identity of the request that inserted its row (the   *)
(* code draws a fresh UUID), so the fields of the row are those of the     *)
(* request.  A student's retry is another request with the same key.       *)
(***************************************************************************)
EXTENDS Naturals, FiniteSets

CONSTANTS
    Requests,      \* submit requests, each made at most once
    Users, Keys, Exercises, Workers,
    Published,     \* the exercises whose lifecycle_status is PUBLISHED
    TestCount,     \* the number of test cases of each exercise
    Limit,         \* EXECUTION_MAX_CONCURRENT_PER_USER
    DailyQuota,    \* each user's executions_per_day, or NoQuota
    NoQuota,
    MaxOpen,       \* submit requests of one user that are open at one time
    MaxCopies,     \* copies of one task message in the queue
    MaxFaults,     \* web and worker failures, and redelivered messages
    None

ASSUME ConstantsAssumption ==
    /\ IsFiniteSet(Requests)
    /\ Published \subseteq Exercises
    /\ TestCount \in [Exercises -> Nat]
    /\ Limit \in Nat
    /\ DailyQuota \in [Users -> Nat \cup {NoQuota}]
    /\ NoQuota \notin Nat
    /\ MaxOpen \in Nat \ {0} /\ MaxCopies \in Nat \ {0} /\ MaxFaults \in Nat
    /\ None \notin Requests \cup Users \cup Keys \cup Exercises

VARIABLES
    req,           \* the submit requests and what each one has read
    attempts,      \* the committed rows of exercise_attempts
    today,         \* those whose submitted_at is not before today_start
    execution,     \* executions.result_type, "none" where there is no row
    evaluation,    \* evaluation_results, NoEvaluation where there is no row
    queue,         \* copies of each attempt's message in the Celery queue
    worker,        \* the task each worker process runs
    cancelling,    \* attempts whose cancel request found no execution yet
    faults         \* failures so far

vars == <<req, attempts, today, execution, evaluation, queue, worker,
          cancelling, faults>>
-----------------------------------------------------------------------------
Graded == {"pass", "fail", "runtime_error"}
ResultType == Graded \cup {"timeout", "system_error", "cancelled"}

Evaluation == [outcome : {"pass", "fail"}, error_type : {"technical", "null"}]
NoEvaluation == [outcome |-> "none", error_type |-> "null"]

\* What one run of the sandbox returns: exit code 0 with or without the
\* expected output, another exit code, timed_out, system_error.
Finished == {"passed", "wrong", "crashed"}
Interrupted == {"timeout", "system_error"}

Open == {"limit", "quota", "number", "insert", "committed"}

Request == [pc : Open \cup {"new", "answered", "refused"},
            user : Users \cup {None}, key : Keys \cup {None},
            exercise : Exercises \cup {None},
            number : Nat, answer : Requests \cup {None}]

Task == [pc : {"idle", "begin", "next", "sandbox", "finalize"},
         attempt : Requests \cup {None}, run : Nat,
         seen : SUBSET (Finished \cup Interrupted)]

Idle == [pc |-> "idle", attempt |-> None, run |-> 0, seen |-> {}]

Entry(pc, u, e, k, a) == [pc |-> pc, user |-> u, exercise |-> e, key |-> k,
                          number |-> 0, answer |-> a]
Blank(pc) == Entry(pc, None, None, None, None)

Init ==
    /\ req = [r \in Requests |-> Blank("new")]
    /\ attempts = {}
    /\ today = {}
    /\ execution = [a \in Requests |-> "none"]
    /\ evaluation = [a \in Requests |-> NoEvaluation]
    /\ queue = [a \in Requests |-> 0]
    /\ worker = [w \in Workers |-> Idle]
    /\ cancelling = {}
    /\ faults = 0
-----------------------------------------------------------------------------
(* The submit request: ExecutionSubmissionService.submit, one atomic block *)
(* whose reads take no lock, then the on_commit hook of the view.          *)

OpenOf(u) == {r \in Requests : req[r].user = u /\ req[r].pc \in Open}
InFlight(u) == {a \in attempts : req[a].user = u /\ execution[a] = "none"}
TodayOf(u) == {a \in today : req[a].user = u}

Refuse(r) == req' = [req EXCEPT ![r] = Blank("refused")]
Advance(r, pc) == req' = [req EXCEPT ![r].pc = pc]

Existing(k) == {a \in attempts : req[a].key = k}

LookupAnyOwner(r, u, e, k) ==
    /\ req[r].pc = "new"
    /\ Cardinality(OpenOf(u)) < MaxOpen
    /\ req' = [req EXCEPT ![r] =
          IF Existing(k) # {}
          THEN Entry("answered", u, None, k, CHOOSE a \in Existing(k) : TRUE)
          ELSE IF e \notin Published THEN Blank("refused")
          ELSE Entry("limit", u, e, k, None)]
    /\ UNCHANGED <<attempts, today, execution, evaluation, queue, worker,
                   cancelling, faults>>

\* The replay of a key answers with the attempt it made; the key of another
\* user, and an exercise that is not published, are refused.
SubmitLookup(r, u, e, k) ==
    LET own == {a \in Existing(k) : req[a].user = u}
    IN  /\ req[r].pc = "new"
        /\ Cardinality(OpenOf(u)) < MaxOpen
        /\ req' = [req EXCEPT ![r] =
              IF own # {} THEN Entry("answered", u, None, k, CHOOSE a \in own : TRUE)
              ELSE IF Existing(k) # {} \/ e \notin Published THEN Blank("refused")
              ELSE Entry("limit", u, e, k, None)]
        /\ UNCHANGED <<attempts, today, execution, evaluation, queue, worker,
                       cancelling, faults>>

EnforceLimitOffByOne(r) ==
    /\ req[r].pc = "limit"
    /\ IF Cardinality(InFlight(req[r].user)) > Limit
       THEN Refuse(r) ELSE Advance(r, "quota")
    /\ UNCHANGED <<attempts, today, execution, evaluation, queue, worker,
                   cancelling, faults>>

EnforceConcurrencyLimit(r) ==
    /\ req[r].pc = "limit"
    /\ IF Cardinality(InFlight(req[r].user)) >= Limit
       THEN Refuse(r) ELSE Advance(r, "quota")
    /\ UNCHANGED <<attempts, today, execution, evaluation, queue, worker,
                   cancelling, faults>>

EnforceQuotaInFlight(r) ==
    LET u == req[r].user
    IN  /\ req[r].pc = "quota"
        /\ IF DailyQuota[u] # NoQuota
              /\ Cardinality(InFlight(u) \cap today) >= DailyQuota[u]
           THEN Refuse(r) ELSE Advance(r, "number")
        /\ UNCHANGED <<attempts, today, execution, evaluation, queue, worker,
                       cancelling, faults>>

EnforceEntitlementQuota(r) ==
    LET u == req[r].user
    IN  /\ req[r].pc = "quota"
        /\ IF DailyQuota[u] # NoQuota
              /\ Cardinality(TodayOf(u)) >= DailyQuota[u]
           THEN Refuse(r) ELSE Advance(r, "number")
        /\ UNCHANGED <<attempts, today, execution, evaluation, queue, worker,
                       cancelling, faults>>

SameExercise(u, e) == {a \in attempts : req[a].user = u /\ req[a].exercise = e}

NumberFromInFlight(r) ==
    /\ req[r].pc = "number"
    /\ req' = [req EXCEPT ![r].pc = "insert",
                          ![r].number = Cardinality(InFlight(req[r].user)) + 1]
    /\ UNCHANGED <<attempts, today, execution, evaluation, queue, worker,
                   cancelling, faults>>

NumberAttempt(r) ==
    /\ req[r].pc = "number"
    /\ req' = [req EXCEPT ![r].pc = "insert",
                          ![r].number = Cardinality(SameExercise(
                                           req[r].user, req[r].exercise)) + 1]
    /\ UNCHANGED <<attempts, today, execution, evaluation, queue, worker,
                   cancelling, faults>>

InsertUnchecked(r) ==
    /\ req[r].pc = "insert"
    /\ attempts' = attempts \cup {r}
    /\ today' = today \cup {r}
    /\ Advance(r, "committed")
    /\ UNCHANGED <<execution, evaluation, queue, worker, cancelling, faults>>

\* The unique constraint on idempotency_key refuses the second of two racing
\* requests with one key (an IntegrityError nothing catches: HTTP 500).
InsertAttempt(r) ==
    /\ req[r].pc = "insert"
    /\ IF Existing(req[r].key) # {}
       THEN Refuse(r) /\ UNCHANGED <<attempts, today>>
       ELSE /\ attempts' = attempts \cup {r}
            /\ today' = today \cup {r}
            /\ Advance(r, "committed")
    /\ UNCHANGED <<execution, evaluation, queue, worker, cancelling, faults>>

\* The on_commit hook sends the message and the view answers 202.
Enqueue(r) ==
    /\ req[r].pc = "committed"
    /\ queue' = [queue EXCEPT ![r] = 1]
    /\ req' = [req EXCEPT ![r].pc = "answered", ![r].answer = r]
    /\ UNCHANGED <<attempts, today, execution, evaluation, worker,
                   cancelling, faults>>

\* The web process dies, or the broker refuses the message after the commit.
\* Before the commit the transaction rolls back.
WebFault(r) ==
    /\ req[r].pc \in Open
    /\ faults < MaxFaults
    /\ IF req[r].pc = "committed" THEN Advance(r, "refused") ELSE Refuse(r)
    /\ faults' = faults + 1
    /\ UNCHANGED <<attempts, today, execution, evaluation, queue, worker,
                   cancelling>>

Midnight ==
    /\ today # {}
    /\ today' = {}
    /\ UNCHANGED <<req, attempts, execution, evaluation, queue, worker,
                   cancelling, faults>>
-----------------------------------------------------------------------------
(* The worker: the Celery task run_exercise_attempt and                    *)
(* ExecutionRunnerService.run_attempt.  The message is acknowledged when   *)
(* the task starts (Celery's default), so a task that dies is not retried, *)
(* and a message still in the queue can be delivered more than once.       *)

Take(w, a) ==
    /\ worker[w].pc = "idle"
    /\ queue[a] > 0
    /\ queue' = [queue EXCEPT ![a] = @ - 1]
    /\ worker' = [worker EXCEPT ![w] =
                     [pc |-> "begin", attempt |-> a, run |-> 0, seen |-> {}]]
    /\ UNCHANGED <<req, attempts, today, execution, evaluation, cancelling,
                   faults>>

Redeliver(a) ==
    /\ queue[a] > 0 /\ queue[a] < MaxCopies
    /\ faults < MaxFaults
    /\ queue' = [queue EXCEPT ![a] = @ + 1]
    /\ faults' = faults + 1
    /\ UNCHANGED <<req, attempts, today, execution, evaluation, worker,
                   cancelling>>

Settled(w) == execution[worker[w].attempt] # "none"
Tests(w) == TestCount[req[worker[w].attempt].exercise]

\* No run once a terminal result exists.
Begin(w) ==
    /\ worker[w].pc = "begin"
    /\ worker' = IF Settled(w) THEN [worker EXCEPT ![w] = Idle]
                 ELSE [worker EXCEPT ![w].pc = "next"]
    /\ UNCHANGED <<req, attempts, today, execution, evaluation, queue,
                   cancelling, faults>>

CheckpointOnRequest(w) ==
    /\ worker[w].pc = "next"
    /\ worker[w].run < Tests(w)
    /\ worker' = IF Settled(w) \/ worker[w].attempt \in cancelling
                 THEN [worker EXCEPT ![w] = Idle]
                 ELSE [worker EXCEPT ![w].pc = "sandbox"]
    /\ UNCHANGED <<req, attempts, today, execution, evaluation, queue,
                   cancelling, faults>>

\* The cooperative cancellation checkpoint before each test case.
Checkpoint(w) ==
    /\ worker[w].pc = "next"
    /\ worker[w].run < Tests(w)
    /\ worker' = IF Settled(w) THEN [worker EXCEPT ![w] = Idle]
                 ELSE [worker EXCEPT ![w].pc = "sandbox"]
    /\ UNCHANGED <<req, attempts, today, execution, evaluation, queue,
                   cancelling, faults>>

SandboxRetries(w, o) ==
    /\ worker[w].pc = "sandbox"
    /\ worker' = [worker EXCEPT
          ![w].pc = "next",
          ![w].run = IF o \in Interrupted THEN @ ELSE @ + 1,
          ![w].seen = IF o \in Interrupted THEN @ ELSE @ \cup {o}]
    /\ UNCHANGED <<req, attempts, today, execution, evaluation, queue,
                   cancelling, faults>>

SandboxReturns(w, o) ==
    /\ worker[w].pc = "sandbox"
    /\ worker' = [worker EXCEPT
          ![w].pc = IF o \in Interrupted THEN "finalize" ELSE "next",
          ![w].run = @ + 1,
          ![w].seen = @ \cup {o}]
    /\ UNCHANGED <<req, attempts, today, execution, evaluation, queue,
                   cancelling, faults>>

\* A timeout or a sandbox failure ends the run: one result, no evaluation.
FinalizeInterrupted(w) ==
    /\ worker[w].pc = "finalize"
    /\ IF Settled(w) THEN UNCHANGED execution
       ELSE execution' = [execution EXCEPT ![worker[w].attempt] =
                             CHOOSE o \in Interrupted : o \in worker[w].seen]
    /\ worker' = [worker EXCEPT ![w] = Idle]
    /\ UNCHANGED <<req, attempts, today, evaluation, queue, cancelling, faults>>

RawOutcome(seen) ==
    IF seen \subseteq {"passed"} THEN "pass"
    ELSE IF "crashed" \in seen THEN "crashed" ELSE "fail"

ResultOf(seen) ==
    IF "crashed" \in seen THEN "runtime_error"
    ELSE IF seen \subseteq {"passed"} THEN "pass" ELSE "fail"

EvaluationOf(result) ==
    [outcome |-> IF result = "pass" THEN "pass" ELSE "fail",
     error_type |-> IF result = "runtime_error" THEN "technical" ELSE "null"]

EvaluateAlways(w) ==
    LET a == worker[w].attempt
        result == ResultOf(worker[w].seen)
    IN  /\ worker[w].pc = "next"
        /\ worker[w].run = Tests(w)
        /\ execution' = [execution EXCEPT ![a] = IF @ = "none" THEN result ELSE @]
        /\ evaluation' = [evaluation EXCEPT ![a] = EvaluationOf(result)]
        /\ worker' = [worker EXCEPT ![w] = Idle]
        /\ UNCHANGED <<req, attempts, today, queue, cancelling, faults>>

\* get_or_create of the execution; the evaluation, and the handlers that
\* post_save runs in the same transaction, only if the row was created.
EvaluateAndFinalize(w) ==
    LET a == worker[w].attempt
        result == ResultOf(worker[w].seen)
    IN  /\ worker[w].pc = "next"
        /\ worker[w].run = Tests(w)
        /\ IF Settled(w) THEN UNCHANGED <<execution, evaluation>>
           ELSE /\ execution' = [execution EXCEPT ![a] = result]
                /\ evaluation' = [evaluation EXCEPT ![a] = EvaluationOf(result)]
        /\ worker' = [worker EXCEPT ![w] = Idle]
        /\ UNCHANGED <<req, attempts, today, queue, cancelling, faults>>

\* The worker process is killed, the sandbox raises what run() does not
\* catch, or a post_save handler raises and the transaction rolls back.
WorkerFault(w) ==
    /\ worker[w].pc # "idle"
    /\ faults < MaxFaults
    /\ faults' = faults + 1
    /\ worker' = [worker EXCEPT ![w] = Idle]
    /\ UNCHANGED <<req, attempts, today, execution, evaluation, queue,
                   cancelling>>
-----------------------------------------------------------------------------
(* The cancel request: a check, then an insert in a transaction of its own. *)

Known(a) == \E r \in Requests : req[r].answer = a

CancelCheck(a) ==
    /\ Known(a)
    /\ a \notin cancelling
    /\ execution[a] = "none"
    /\ cancelling' = cancelling \cup {a}
    /\ UNCHANGED <<req, attempts, today, execution, evaluation, queue, worker,
                   faults>>

\* The primary key of executions refuses the insert once a result exists.
CancelInsert(a) ==
    /\ a \in cancelling
    /\ IF execution[a] = "none"
       THEN execution' = [execution EXCEPT ![a] = "cancelled"]
       ELSE UNCHANGED execution
    /\ cancelling' = cancelling \ {a}
    /\ UNCHANGED <<req, attempts, today, evaluation, queue, worker, faults>>
-----------------------------------------------------------------------------
SubmitStep(r) ==
    \/ EnforceConcurrencyLimit(r)
    \/ EnforceEntitlementQuota(r)
    \/ NumberAttempt(r)
    \/ InsertAttempt(r)
    \/ Enqueue(r)

WorkerStep(w) ==
    \/ \E a \in Requests : Take(w, a)
    \/ Begin(w)
    \/ Checkpoint(w)
    \/ \E o \in Finished \cup Interrupted : SandboxReturns(w, o)
    \/ FinalizeInterrupted(w)
    \/ EvaluateAndFinalize(w)

Next ==
    \/ \E r \in Requests, u \in Users, e \in Exercises, k \in Keys :
          SubmitLookup(r, u, e, k)
    \/ \E r \in Requests : SubmitStep(r) \/ WebFault(r)
    \/ Midnight
    \/ \E a \in Requests : Redeliver(a)
    \/ \E w \in Workers : WorkerStep(w) \/ WorkerFault(w)
    \/ \E a \in Requests : CancelCheck(a) \/ CancelInsert(a)

Spec == Init /\ [][Next]_vars

\* An open request and a worker process with something to do go on; a
\* sandbox run ends because the sandbox has a timeout.  Nobody has to submit,
\* to cancel or to fail, and a cancel request that began need not end.
FairSpec ==
    /\ Spec
    /\ \A r \in Requests : WF_vars(SubmitStep(r))
    /\ \A w \in Workers : WF_vars(WorkerStep(w))
-----------------------------------------------------------------------------
\* The variables hold rows, requests and tasks of the shapes the code gives
\* them; only committed attempts have results, messages and tasks.
TypeOK ==
    /\ req \in [Requests -> Request]
    /\ attempts \subseteq Requests
    /\ today \subseteq attempts
    /\ execution \in [Requests -> ResultType \cup {"none"}]
    /\ evaluation \in [Requests -> Evaluation \cup {NoEvaluation}]
    /\ queue \in [Requests -> 0..MaxCopies]
    /\ worker \in [Workers -> Task]
    /\ cancelling \subseteq attempts
    /\ faults \in 0..MaxFaults

\* However requests with one key race, are retried or fail, one row at most
\* carries the key (submit's lookup and the unique constraint).
OneAttemptPerKey ==
    \A a, b \in attempts : req[a].key = req[b].key => a = b

\* A request is answered only with a committed attempt of its own user and
\* key, even when another user's request got the key first.
AnswersOwnAttempt ==
    \A r \in Requests : req[r].answer # None =>
        /\ req[r].answer \in attempts
        /\ req[req[r].answer].user = req[r].user
        /\ req[req[r].answer].key = req[r].key

\* What the limit of the docstring becomes when nothing locks the count: a
\* user's unfinished attempts, with the requests that passed the check and
\* have not inserted yet, exceed the limit by at most the requests that can
\* be open beside the last one.
Admitted(u) ==
    {r \in Requests : req[r].user = u /\ req[r].pc \in {"quota", "number", "insert"}}

InFlightOverrunBounded ==
    \A u \in Users :
        Cardinality(InFlight(u)) + Cardinality(Admitted(u)) < Limit + MaxOpen

\* The same for the daily quota of the plan, across midnight too.
DailyOverrunBounded ==
    \A u \in Users :
        DailyQuota[u] # NoQuota =>
            Cardinality(TodayOf(u)) < DailyQuota[u] + MaxOpen

\* attempt_number counts rows without a lock: requests that are open at one
\* time may draw the same number, never more of them than can be open.
NumberSharedOnlyByRacers ==
    \A a \in attempts :
        Cardinality({b \in attempts : /\ req[b].user = req[a].user
                                      /\ req[b].exercise = req[a].exercise
                                      /\ req[b].number = req[a].number}) <= MaxOpen

\* An attempt is on its way while its request has yet to send the message,
\* the message is queued or a worker runs it; without that and without a
\* result it is lost: only its owner's cancel can settle it.
OnItsWay(a) ==
    \/ req[a].pc = "committed"
    \/ queue[a] > 0
    \/ \E w \in Workers : worker[w].attempt = a

Lost(a) == a \in attempts /\ execution[a] = "none" /\ ~OnItsWay(a)

\* Each failure loses one attempt at most; cancellation, duplicated messages
\* and replayed requests lose none.
LostOnlyByFaults == Cardinality({a \in Requests : Lost(a)}) <= faults

\* The documented limit itself (ExecutionConcurrencyLimitExceededError).
ConcurrencyLimit == \A u \in Users : Cardinality(InFlight(u)) <= Limit

\* Every committed attempt gets its one result, or is lost to a failure.
EveryAttemptSettles ==
    \A a \in Requests :
        a \in attempts ~> (execution[a] # "none" \/ Lost(a))

\* The status API's promise: queued, then one result for good, with a verdict
\* exactly when the code was graded.
Promise == INSTANCE AttemptLifecycle WITH
    Attempts <- Requests,
    status <- [a \in Requests |->
                  IF execution[a] # "none" THEN execution[a]
                  ELSE IF a \in attempts THEN "queued" ELSE "absent"],
    verdict <- [a \in Requests |-> evaluation[a].outcome]

ImplementsLifecycle == Promise!Spec
=============================================================================
