--------------------------- MODULE ExecutionProofs ---------------------------
(***************************************************************************)
(* Proofs about Execution, for any number of requests, users, workers,     *)
(* test cases and failures: the types, one attempt per idempotency key,    *)
(* answers that name the student's own attempt, the refinement of          *)
(* AttemptLifecycle, and by how much requests and failures can overrun the *)
(* limit, the quota, the numbering and the promise to finish an attempt.   *)
(***************************************************************************)
EXTENDS Execution, FiniteSetTheorems, TLAPS
-----------------------------------------------------------------------------
\* Only a request that committed has a row, and the row is complete.
RequestsConsistent ==
    \A r \in Requests :
        /\ req[r].pc = "new" => r \notin attempts
        /\ req[r].pc \in Open =>
              /\ req[r].user \in Users /\ req[r].key \in Keys
              /\ req[r].exercise \in Exercises
              /\ (r \in attempts <=> req[r].pc = "committed")
        /\ r \in attempts =>
              /\ req[r].user \in Users /\ req[r].key \in Keys
              /\ req[r].exercise \in Exercises

\* Results, messages and tasks belong to committed attempts.
WorkConsistent ==
    /\ \A a \in Requests : execution[a] # "none" \/ queue[a] > 0 => a \in attempts
    /\ \A w \in Workers :
          /\ worker[w].pc # "idle" => worker[w].attempt \in attempts
          /\ worker[w].pc = "finalize" => worker[w].seen \cap Interrupted # {}

\* The evaluation is the one the terminal result calls for.
VerdictConsistent ==
    \A a \in Requests : evaluation[a].outcome = Promise!VerdictOf(execution[a])

\* TypeOK is not inductive without the consistency of requests and work.
IInv ==
    /\ TypeOK
    /\ RequestsConsistent
    /\ WorkConsistent
    /\ VerdictConsistent
    /\ OneAttemptPerKey
    /\ AnswersOwnAttempt

-----------------------------------------------------------------------------
LEMMA InitInv == Init => IInv
  BY ConstantsAssumption DEF ConstantsAssumption, Init, IInv, TypeOK, Request, Open, Entry, Blank, Task, Idle, Evaluation,
         NoEvaluation, ResultType, Graded, RequestsConsistent, WorkConsistent,
         VerdictConsistent, Promise!VerdictOf, Promise!Graded, OneAttemptPerKey,
         AnswersOwnAttempt

LEMMA BoundsAreNat == MaxFaults \in Nat /\ MaxCopies \in Nat \ {0}
  BY ConstantsAssumption DEF ConstantsAssumption

\* Counting rows gives a natural number.
LEMMA CountIsNat ==
  ASSUME NEW S \in SUBSET Requests
  PROVE  Cardinality(S) \in Nat
  BY ConstantsAssumption, FS_Subset, FS_CardinalityType DEF ConstantsAssumption

\* Advancing a request changes its program counter and nothing else.
LEMMA AdvanceShape ==
  ASSUME req \in [Requests -> Request], NEW r \in Requests,
         NEW pc \in Open \cup {"new", "answered", "refused"}, Advance(r, pc)
  PROVE  /\ req' \in [Requests -> Request]
         /\ \A q \in Requests : q # r => req'[q] = req[q]
         /\ req'[r].pc = pc
         /\ \A q \in Requests : /\ req'[q].user = req[q].user
                                /\ req'[q].key = req[q].key
                                /\ req'[q].exercise = req[q].exercise
                                /\ req'[q].answer = req[q].answer
                                /\ req'[q].number = req[q].number
<1>1. \A q \in Requests : q # r => req'[q] = req[q]
  BY DEF Advance
<1>2. req[r] \in Request /\ req'[r] = [req[r] EXCEPT !.pc = pc]
  BY DEF Advance
<1>3. req'[r] \in Request
  BY <1>2 DEF Request
<1>4. req' = [req EXCEPT ![r] = req'[r]]
  BY <1>2 DEF Advance
<1>5. req' \in [Requests -> Request]
  BY <1>3, <1>4
<1>6. /\ req'[r].pc = pc /\ req'[r].user = req[r].user /\ req'[r].key = req[r].key
      /\ req'[r].exercise = req[r].exercise /\ req'[r].answer = req[r].answer
      /\ req'[r].number = req[r].number
  BY <1>2 DEF Request
<1>7. QED
  BY <1>1, <1>5, <1>6

-----------------------------------------------------------------------------
(* The submit request.                                                     *)

LEMMA LookupInv ==
  ASSUME IInv, NEW r \in Requests, NEW u \in Users, NEW e \in Exercises,
         NEW k \in Keys, SubmitLookup(r, u, e, k)
  PROVE  IInv'
<1> DEFINE own == {a \in Existing(k) : req[a].user = u}
           hit == CHOOSE a \in own : TRUE
<1>1. own # {} => hit \in own
  OBVIOUS
<1>2. /\ req[r].pc = "new" /\ r \notin attempts
      /\ req' = [req EXCEPT ![r] =
                   IF own # {} THEN Entry("answered", u, None, k, hit)
                   ELSE IF Existing(k) # {} \/ e \notin Published THEN Blank("refused")
                   ELSE Entry("limit", u, e, k, None)]
      /\ UNCHANGED <<attempts, today, execution, evaluation, queue, worker,
                     cancelling, faults>>
  BY DEF SubmitLookup, IInv, RequestsConsistent
<1>3. hit \in own => hit \in attempts /\ req[hit].user = u /\ req[hit].key = k
  BY DEF Existing
<1>4. req' \in [Requests -> Request]
  BY <1>1, <1>2, <1>3 DEF IInv, TypeOK, Request, Entry, Blank, Open
<1>5. \A q \in Requests : q # r => req'[q] = req[q]
  BY <1>2 DEF IInv, TypeOK
<1>6. req'[r] \in {Entry("answered", u, None, k, hit), Blank("refused"), Entry("limit", u, e, k, None)}
  BY <1>2 DEF IInv, TypeOK
<1>7. TypeOK'
  BY <1>2, <1>4 DEF IInv, TypeOK
<1>8. RequestsConsistent'
  BY <1>2, <1>5, <1>6 DEF IInv, RequestsConsistent, Entry, Blank, Open
<1>9. WorkConsistent' /\ VerdictConsistent'
  BY <1>2 DEF IInv, WorkConsistent, VerdictConsistent, Promise!VerdictOf, Promise!Graded
<1>10. OneAttemptPerKey'
  BY <1>2, <1>5 DEF IInv, TypeOK, OneAttemptPerKey
<1>11. AnswersOwnAttempt'
  <2> SUFFICES ASSUME NEW q \in Requests, req'[q].answer # None
               PROVE  /\ req'[q].answer \in attempts
                      /\ req'[req'[q].answer].user = req'[q].user
                      /\ req'[req'[q].answer].key = req'[q].key
    BY <1>2 DEF AnswersOwnAttempt
  <2>1. CASE q # r
    BY <2>1, <1>2, <1>5 DEF IInv, TypeOK, AnswersOwnAttempt
  <2>2. CASE q = r
    <3>1. own # {} /\ req'[r] = Entry("answered", u, None, k, hit)
      BY <2>2, <1>2 DEF IInv, TypeOK, Entry, Blank
    <3>2. hit \in attempts /\ hit # r
      BY <3>1, <1>1, <1>2, <1>3
    <3>3. QED
      BY <2>2, <3>1, <3>2, <1>1, <1>3, <1>5 DEF Entry, IInv, TypeOK
  <2>3. QED BY <2>1, <2>2
<1>12. QED
  BY <1>7, <1>8, <1>9, <1>10, <1>11 DEF IInv

\* A step of an open request that changes no row of any table and keeps the
\* user, key and exercise, or forgets the request.
LEMMA RequestOnlyInv ==
  ASSUME IInv, NEW r \in Requests, req[r].pc \in Open \ {"committed"},
         req' = [req EXCEPT ![r] = req'[r]], req'[r] \in Request,
         \/ req'[r] = Blank("refused")
         \/ /\ req'[r].pc \in Open \ {"committed"}
            /\ req'[r].user = req[r].user /\ req'[r].key = req[r].key
            /\ req'[r].exercise = req[r].exercise
            /\ req'[r].answer = req[r].answer,
         UNCHANGED <<attempts, today, execution, evaluation, queue, worker,
                     cancelling>>,
         faults' \in 0..MaxFaults
  PROVE  IInv'
<1>1. r \notin attempts
  BY DEF IInv, RequestsConsistent
<1>2. \A q \in Requests : q # r => req'[q] = req[q]
  BY DEF IInv, TypeOK
<1>3. TypeOK'
  BY DEF IInv, TypeOK
<1>4. RequestsConsistent'
  BY <1>1, <1>2 DEF IInv, RequestsConsistent, Entry, Blank, Open
<1>5. WorkConsistent' /\ VerdictConsistent'
  BY DEF IInv, WorkConsistent, VerdictConsistent, Promise!VerdictOf, Promise!Graded
<1>6. OneAttemptPerKey'
  BY <1>1, <1>2 DEF IInv, TypeOK, OneAttemptPerKey
<1>7. AnswersOwnAttempt'
  BY <1>1, <1>2 DEF IInv, TypeOK, AnswersOwnAttempt, Entry, Blank
<1>8. QED
  BY <1>3, <1>4, <1>5, <1>6, <1>7 DEF IInv

LEMMA PrecommitInv ==
  ASSUME IInv, NEW r \in Requests,
         \/ EnforceConcurrencyLimit(r)
         \/ EnforceEntitlementQuota(r)
         \/ NumberAttempt(r)
         \/ InsertAttempt(r) /\ Existing(req[r].key) # {}
         \/ WebFault(r) /\ req[r].pc # "committed"
  PROVE  IInv'
<1>1. Blank("refused") \in Request
  BY DEF Blank, Entry, Request
<1>2. req[r] \in Request /\ req \in [Requests -> Request] /\ faults \in 0..MaxFaults
  BY DEF IInv, TypeOK
<1>3. SameExercise(req[r].user, req[r].exercise) \in SUBSET Requests
  BY DEF SameExercise, IInv, TypeOK
<1>4. Cardinality(SameExercise(req[r].user, req[r].exercise)) + 1 \in Nat
  BY <1>3, CountIsNat
<1>5. CASE EnforceConcurrencyLimit(r)
  BY <1>1, <1>2, <1>5, RequestOnlyInv
     DEF EnforceConcurrencyLimit, Refuse, Advance, Request, Open
<1>6. CASE EnforceEntitlementQuota(r)
  BY <1>1, <1>2, <1>6, RequestOnlyInv
     DEF EnforceEntitlementQuota, Refuse, Advance, Request, Open
<1>7. CASE NumberAttempt(r)
  BY <1>2, <1>4, <1>7, RequestOnlyInv DEF NumberAttempt, Request, Open
<1>8. CASE InsertAttempt(r) /\ Existing(req[r].key) # {}
  BY <1>1, <1>2, <1>8, RequestOnlyInv DEF InsertAttempt, Refuse, Open
<1>9. CASE WebFault(r) /\ req[r].pc # "committed"
  BY <1>1, <1>2, <1>9, RequestOnlyInv, BoundsAreNat DEF WebFault, Refuse, Open
<1>10. QED
  BY <1>5, <1>6, <1>7, <1>8, <1>9

\* The only step that adds a row finds no other row with its key.
LEMMA InsertInv ==
  ASSUME IInv, NEW r \in Requests, InsertAttempt(r), Existing(req[r].key) = {}
  PROVE  IInv'
<1>1. /\ req[r].pc = "insert" /\ r \notin attempts
      /\ attempts' = attempts \cup {r} /\ today' = today \cup {r}
      /\ Advance(r, "committed")
      /\ UNCHANGED <<execution, evaluation, queue, worker, cancelling, faults>>
  BY DEF InsertAttempt, IInv, RequestsConsistent, Open
<1>2. /\ req' \in [Requests -> Request] /\ req'[r].pc = "committed"
      /\ \A q \in Requests : /\ req'[q].user = req[q].user
                             /\ req'[q].key = req[q].key
                             /\ req'[q].exercise = req[q].exercise
                             /\ req'[q].answer = req[q].answer
                             /\ q # r => req'[q] = req[q]
  BY <1>1, AdvanceShape DEF IInv, TypeOK, Open
<1>3. TypeOK'
  BY <1>1, <1>2 DEF IInv, TypeOK
<1>4. RequestsConsistent'
  <2>1. ASSUME NEW q \in Requests, q # r
        PROVE  req'[q] = req[q] /\ (q \in attempts' <=> q \in attempts)
    BY <1>1, <1>2, <2>1
  <2>2. /\ req'[r].user \in Users /\ req'[r].key \in Keys
        /\ req'[r].exercise \in Exercises /\ r \in attempts'
    BY <1>1, <1>2 DEF IInv, RequestsConsistent, Open
  <2>3. QED
    BY <1>2, <2>1, <2>2 DEF IInv, RequestsConsistent
<1>5. WorkConsistent' /\ VerdictConsistent'
  BY <1>1 DEF IInv, WorkConsistent, VerdictConsistent, Promise!VerdictOf,
              Promise!Graded
<1>6. OneAttemptPerKey'
  BY <1>1, <1>2 DEF IInv, TypeOK, OneAttemptPerKey, Existing
<1>7. AnswersOwnAttempt'
  BY <1>1, <1>2 DEF IInv, TypeOK, AnswersOwnAttempt
<1>8. QED
  BY <1>3, <1>4, <1>5, <1>6, <1>7 DEF IInv

LEMMA CommittedInv ==
  ASSUME IInv, NEW r \in Requests,
         \/ Enqueue(r)
         \/ WebFault(r) /\ req[r].pc = "committed"
  PROVE  IInv'
<1>1. req[r].pc = "committed" /\ r \in attempts
  BY DEF Enqueue, IInv, RequestsConsistent, Open
<1>2. /\ req' \in [Requests -> Request]
      /\ \A q \in Requests : /\ req'[q].user = req[q].user
                             /\ req'[q].key = req[q].key
                             /\ req'[q].exercise = req[q].exercise
                             /\ \/ req'[q].answer = req[q].answer
                                \/ q = r /\ req'[q].answer = r
                             /\ q # r => req'[q] = req[q]
      /\ req'[r].pc \in {"answered", "refused"}
  <2>1. CASE WebFault(r)
    BY <1>1, <2>1, AdvanceShape DEF IInv, TypeOK, WebFault, Open
  <2>2. CASE Enqueue(r)
    <3> DEFINE new == req'[r]
    <3>1. req[r] \in Request /\ new = [req[r] EXCEPT !.pc = "answered", !.answer = r]
      BY <2>2 DEF Enqueue, IInv, TypeOK
    <3>2. new \in Request
      BY <3>1 DEF Request
    <3>3. /\ new.pc = "answered" /\ new.user = req[r].user /\ new.key = req[r].key
          /\ new.exercise = req[r].exercise /\ new.answer = r
      BY <3>1 DEF Request
    <3>4. req' = [req EXCEPT ![r] = new]
      BY <2>2, <3>1 DEF Enqueue, IInv, TypeOK
    <3>5. QED
      BY <3>2, <3>3, <3>4 DEF IInv, TypeOK
  <2>3. QED BY <1>1, <2>1, <2>2
<1>3. /\ queue' \in [Requests -> 0..MaxCopies]
      /\ \A q \in Requests : q # r => queue'[q] = queue[q]
      /\ faults' \in 0..MaxFaults
      /\ UNCHANGED <<attempts, today, execution, evaluation, worker, cancelling>>
  BY BoundsAreNat DEF IInv, TypeOK, Enqueue, WebFault
<1>4. TypeOK'
  BY <1>2, <1>3 DEF IInv, TypeOK
<1>5. RequestsConsistent'
  BY <1>1, <1>2, <1>3 DEF IInv, TypeOK, Request, RequestsConsistent, Open
<1>6. WorkConsistent'
  BY <1>1, <1>3 DEF IInv, WorkConsistent
<1>7. VerdictConsistent'
  BY <1>3 DEF IInv, VerdictConsistent, Promise!VerdictOf, Promise!Graded
<1>8. OneAttemptPerKey'
  BY <1>2, <1>3 DEF IInv, TypeOK, OneAttemptPerKey
<1>9. AnswersOwnAttempt'
  BY <1>1, <1>2, <1>3 DEF IInv, TypeOK, AnswersOwnAttempt
<1>10. QED
  BY <1>4, <1>5, <1>6, <1>7, <1>8, <1>9 DEF IInv

-----------------------------------------------------------------------------
(* Queue, workers, cancel: the requests and the rows stay as they are.     *)

LEMMA UnchangedRequestsInv ==
  ASSUME IInv, TypeOK', WorkConsistent', VerdictConsistent', UNCHANGED <<req, attempts>>
  PROVE  IInv'
  BY DEF IInv, RequestsConsistent, OneAttemptPerKey, AnswersOwnAttempt

LEMMA TakeInv ==
  ASSUME IInv, NEW a \in Requests, NEW w \in Workers, Take(w, a)
  PROVE  IInv'
<1>1. a \in attempts
  BY BoundsAreNat DEF IInv, TypeOK, WorkConsistent, Take
<1>2. TypeOK'
  BY <1>1, BoundsAreNat DEF IInv, TypeOK, Task, Take
<1>3. WorkConsistent'
  <2>1. worker'[w].attempt = a /\ worker'[w].pc = "begin"
    BY DEF IInv, TypeOK, Take
  <2>2. \A v \in Workers : v # w => worker'[v] = worker[v]
    BY DEF IInv, TypeOK, Take
  <2>3. \A b \in Requests : queue'[b] > 0 => b \in attempts
    BY <1>1, BoundsAreNat DEF IInv, TypeOK, Take, WorkConsistent
  <2>4. QED
    BY <1>1, <2>1, <2>2, <2>3 DEF IInv, WorkConsistent, Take
<1>4. VerdictConsistent'
  BY DEF IInv, VerdictConsistent, Promise!VerdictOf, Promise!Graded, Take
<1>5. QED
  BY <1>2, <1>3, <1>4, UnchangedRequestsInv DEF Take

\* A redelivered message and a cancel request concern a committed attempt.
LEMMA OutsideInv ==
  ASSUME IInv,
         \/ Midnight
         \/ \E a \in Requests : Redeliver(a) \/ CancelCheck(a)
  PROVE  IInv'
<1>1. \A a \in Requests : Redeliver(a) \/ CancelCheck(a) => a \in attempts
  BY ConstantsAssumption, BoundsAreNat
     DEF ConstantsAssumption, IInv, TypeOK, WorkConsistent, Redeliver,
         CancelCheck, Known, AnswersOwnAttempt
<1>2. TypeOK'
  BY <1>1, BoundsAreNat DEF IInv, TypeOK, Redeliver, Midnight, CancelCheck
<1>3. WorkConsistent'
  BY <1>1, BoundsAreNat
     DEF IInv, TypeOK, WorkConsistent, Redeliver, Midnight, CancelCheck
<1>4. VerdictConsistent'
  BY DEF IInv, VerdictConsistent, Promise!VerdictOf, Promise!Graded,
         Redeliver, Midnight, CancelCheck
<1>5. QED
  BY <1>2, <1>3, <1>4, UnchangedRequestsInv DEF Redeliver, Midnight, CancelCheck

LEMMA RunInv ==
  ASSUME IInv, NEW w \in Workers,
         \/ Begin(w) \/ Checkpoint(w) \/ WorkerFault(w)
         \/ \E o \in Finished \cup Interrupted : SandboxReturns(w, o)
  PROVE  IInv'
<1> DEFINE new == worker'[w]
<1>1. /\ new \in Task
      /\ new.pc # "idle" => new.attempt \in attempts
      /\ new.pc = "finalize" => new.seen \cap Interrupted # {}
      /\ worker' = [worker EXCEPT ![w] = new]
      /\ UNCHANGED <<req, attempts, today, execution, evaluation, queue, cancelling>>
      /\ faults' \in 0..MaxFaults
  <2>1. Idle \in Task /\ Idle.pc = "idle" /\ worker[w] \in Task
    BY DEF Idle, Task, IInv, TypeOK
  <2>2. worker[w].pc # "idle" => worker[w].attempt \in attempts
    BY DEF IInv, WorkConsistent
  <2>3. CASE Begin(w)
    BY <2>1, <2>2, <2>3 DEF Begin, Task, IInv, TypeOK
  <2>4. CASE Checkpoint(w)
    BY <2>1, <2>2, <2>4 DEF Checkpoint, Task, IInv, TypeOK
  <2>5. CASE WorkerFault(w)
    BY <2>1, <2>2, <2>5, BoundsAreNat DEF WorkerFault, IInv, TypeOK
  <2>6. ASSUME NEW o \in Finished \cup Interrupted, SandboxReturns(w, o)
        PROVE  <1>1!1 /\ <1>1!2 /\ <1>1!3 /\ <1>1!4 /\ <1>1!5 /\ <1>1!6
    <3>1. /\ new = [worker[w] EXCEPT
                        !.pc = IF o \in Interrupted THEN "finalize" ELSE "next",
                        !.run = @ + 1, !.seen = @ \cup {o}]
          /\ worker[w].pc = "sandbox"
      BY <2>6 DEF SandboxReturns, IInv, TypeOK
    <3>2. new \in Task
      <4>1. worker[w].seen \cup {o} \in SUBSET (Finished \cup Interrupted)
        BY <2>1, <2>6 DEF Task
      <4>2. worker[w].run + 1 \in Nat
        BY <2>1 DEF Task
      <4>3. QED
        BY <2>1, <3>1, <4>1, <4>2 DEF Task
    <3>3. new.attempt = worker[w].attempt /\ o \in new.seen
      BY <2>1, <3>1 DEF Task
    <3>4. new.pc = "finalize" => o \in Interrupted
      BY <2>1, <3>1 DEF Task
    <3>5. QED
      BY <2>2, <2>6, <3>1, <3>2, <3>3, <3>4 DEF SandboxReturns, IInv, TypeOK
  <2>7. QED
    BY <2>3, <2>4, <2>5, <2>6
<1> HIDE DEF new
<1>2. TypeOK'
  BY <1>1 DEF IInv, TypeOK
<1>3. WorkConsistent'
  BY <1>1 DEF IInv, TypeOK, WorkConsistent
<1>4. VerdictConsistent'
  BY <1>1 DEF IInv, VerdictConsistent, Promise!VerdictOf, Promise!Graded
<1>5. QED
  BY <1>1, <1>2, <1>3, <1>4, UnchangedRequestsInv

\* The three steps that can write a result: each settles a committed attempt
\* that has none, with the verdict that the result calls for, or writes nothing.
Settles(a) ==
    /\ execution[a] = "none" /\ a \in attempts
    /\ \E result \in ResultType :
          execution' = [execution EXCEPT ![a] = result]
    /\ evaluation' \in [Requests -> Evaluation \cup {NoEvaluation}]
    /\ \A b \in Requests \ {a} : evaluation'[b] = evaluation[b]
    /\ evaluation'[a].outcome = Promise!VerdictOf(execution'[a])

LEMMA WriteSettles ==
  ASSUME IInv, NEW a \in Requests,
         \/ CancelInsert(a)
         \/ \E w \in Workers :
               /\ worker[w].attempt = a
               /\ (FinalizeInterrupted(w) \/ EvaluateAndFinalize(w))
  PROVE  Settles(a) \/ UNCHANGED <<execution, evaluation>>
<1>1. evaluation[a].outcome = "none" \/ execution[a] # "none"
  BY DEF IInv, VerdictConsistent, Promise!VerdictOf, Promise!Graded
<1>2. CASE CancelInsert(a)
  BY <1>1, <1>2 DEF IInv, TypeOK, CancelInsert, Settles, ResultType,
                    Promise!VerdictOf, Promise!Graded
<1>3. ASSUME NEW w \in Workers, worker[w].attempt = a, FinalizeInterrupted(w)
      PROVE  Settles(a) \/ UNCHANGED <<execution, evaluation>>
  <2> DEFINE o == CHOOSE i \in Interrupted : i \in worker[w].seen
  <2>1. o \in Interrupted /\ a \in attempts
    BY <1>3 DEF IInv, WorkConsistent, FinalizeInterrupted
  <2>2. CASE execution[a] = "none"
    <3>1. execution' = [execution EXCEPT ![a] = o] /\ UNCHANGED evaluation
      BY <1>3, <2>2 DEF FinalizeInterrupted, Settled
    <3> HIDE DEF o
    <3>2. execution'[a] = o
      BY <3>1 DEF IInv, TypeOK
    <3>3. QED
      BY <1>1, <2>1, <2>2, <3>1, <3>2 DEF IInv, TypeOK, Settles, ResultType,
         Interrupted, Promise!VerdictOf, Promise!Graded
  <2>3. CASE execution[a] # "none"
    BY <1>3, <2>3 DEF FinalizeInterrupted, Settled
  <2>4. QED BY <2>2, <2>3
<1>4. ASSUME NEW w \in Workers, worker[w].attempt = a, EvaluateAndFinalize(w)
      PROVE  Settles(a) \/ UNCHANGED <<execution, evaluation>>
  <2> DEFINE result == ResultOf(worker[w].seen)
  <2>1. result \in Graded /\ a \in attempts
    BY <1>4 DEF IInv, WorkConsistent, EvaluateAndFinalize, ResultOf, Graded
  <2>2. CASE execution[a] = "none"
    <3>1. /\ execution' = [execution EXCEPT ![a] = result]
          /\ evaluation' = [evaluation EXCEPT ![a] = EvaluationOf(result)]
      BY <1>4, <2>2 DEF EvaluateAndFinalize, Settled
    <3> HIDE DEF result
    <3>2. EvaluationOf(result) \in Evaluation
      BY DEF EvaluationOf, Evaluation
    <3>3. EvaluationOf(result).outcome = Promise!VerdictOf(result)
      BY <2>1 DEF EvaluationOf, Graded, Promise!VerdictOf, Promise!Graded
    <3>4. execution'[a] = result /\ evaluation'[a] = EvaluationOf(result)
      BY <3>1 DEF IInv, TypeOK
    <3>5. evaluation' \in [Requests -> Evaluation \cup {NoEvaluation}]
      BY <3>1, <3>2 DEF IInv, TypeOK
    <3>6. QED
      BY <2>1, <2>2, <3>1, <3>3, <3>4, <3>5 DEF IInv, TypeOK, Settles, ResultType
  <2>3. CASE execution[a] # "none"
    BY <1>4, <2>3 DEF EvaluateAndFinalize, Settled
  <2>4. QED BY <2>2, <2>3
<1>5. QED
  BY <1>2, <1>3, <1>4


LEMMA WriteInv ==
  ASSUME IInv, NEW a \in Requests,
         \/ CancelInsert(a)
         \/ \E w \in Workers :
               /\ worker[w].attempt = a
               /\ (FinalizeInterrupted(w) \/ EvaluateAndFinalize(w))
  PROVE  IInv'
<1>1. /\ UNCHANGED <<req, attempts, today, queue, faults>>
      /\ cancelling' \subseteq attempts
      /\ \/ UNCHANGED worker
         \/ \E w \in Workers : worker' = [worker EXCEPT ![w] = Idle]
  BY DEF IInv, TypeOK, CancelInsert, FinalizeInterrupted, EvaluateAndFinalize
<1>2. Idle \in Task /\ Idle.pc = "idle"
  BY DEF Idle, Task
<1>3. /\ execution' \in [Requests -> ResultType \cup {"none"}]
      /\ evaluation' \in [Requests -> Evaluation \cup {NoEvaluation}]
      /\ \A b \in Requests : execution'[b] # execution[b] => b \in attempts
      /\ \A b \in Requests :
            evaluation'[b].outcome = Promise!VerdictOf(execution'[b])
  <2>1. CASE UNCHANGED <<execution, evaluation>>
    BY <2>1 DEF IInv, TypeOK, VerdictConsistent
  <2>2. CASE Settles(a)
    BY <2>2 DEF Settles, IInv, TypeOK, VerdictConsistent
  <2>3. QED BY <2>1, <2>2, WriteSettles
<1>4. TypeOK'
  BY <1>1, <1>2, <1>3 DEF IInv, TypeOK
<1>5. WorkConsistent'
  BY <1>1, <1>2, <1>3 DEF IInv, TypeOK, WorkConsistent
<1>6. VerdictConsistent'
  BY <1>3 DEF VerdictConsistent, Promise!VerdictOf, Promise!Graded
<1>7. QED
  BY <1>1, <1>4, <1>5, <1>6, UnchangedRequestsInv
-----------------------------------------------------------------------------
\* A worker with a task works on a request; an idle one writes nothing.
LEMMA WorkersWorkOnRequests ==
  ASSUME IInv, NEW w \in Workers, FinalizeInterrupted(w) \/ EvaluateAndFinalize(w)
  PROVE  worker[w].attempt \in Requests
  BY DEF IInv, TypeOK, WorkConsistent, FinalizeInterrupted, EvaluateAndFinalize

LEMMA NextInv == IInv /\ [Next]_vars => IInv'
<1> SUFFICES ASSUME IInv, [Next]_vars PROVE IInv'
  OBVIOUS
<1>1. ASSUME NEW r \in Requests, NEW u \in Users, NEW e \in Exercises,
             NEW k \in Keys, SubmitLookup(r, u, e, k)
      PROVE  IInv'
  BY <1>1, LookupInv
<1>2. ASSUME NEW r \in Requests, SubmitStep(r) \/ WebFault(r)
      PROVE  IInv'
  <2>1. CASE \/ EnforceConcurrencyLimit(r)
             \/ EnforceEntitlementQuota(r)
             \/ NumberAttempt(r)
             \/ InsertAttempt(r) /\ Existing(req[r].key) # {}
             \/ WebFault(r) /\ req[r].pc # "committed"
    BY <2>1, PrecommitInv
  <2>2. CASE InsertAttempt(r) /\ Existing(req[r].key) = {}
    BY <2>2, InsertInv
  <2>3. CASE Enqueue(r) \/ (WebFault(r) /\ req[r].pc = "committed")
    BY <2>3, CommittedInv
  <2>4. QED
    BY <1>2, <2>1, <2>2, <2>3 DEF SubmitStep
<1>3. ASSUME Midnight \/ \E a \in Requests : Redeliver(a) \/ CancelCheck(a)
      PROVE  IInv'
  BY <1>3, OutsideInv
<1>4. ASSUME NEW w \in Workers, WorkerStep(w) \/ WorkerFault(w)
      PROVE  IInv'
  BY <1>4, TakeInv, RunInv, WriteInv, WorkersWorkOnRequests DEF WorkerStep
<1>5. ASSUME NEW a \in Requests, CancelInsert(a)
      PROVE  IInv'
  BY <1>5, WriteInv
<1>6. CASE UNCHANGED vars
  BY <1>6 DEF vars, IInv, TypeOK, RequestsConsistent, WorkConsistent,
     VerdictConsistent, Promise!VerdictOf, Promise!Graded, OneAttemptPerKey,
     AnswersOwnAttempt
<1>7. QED
  BY <1>1, <1>2, <1>3, <1>4, <1>5, <1>6 DEF Next

LEMMA AlwaysIInv == Spec => []IInv
  BY InitInv, NextInv, PTL DEF Spec

\* The variables keep their types, and only committed attempts have results,
\* messages, tasks and cancel requests, through every race and failure.
THEOREM TypeCorrect == Spec => []TypeOK
<1>1. IInv => TypeOK
  BY DEF IInv
<1>2. QED
  BY <1>1, AlwaysIInv, PTL

\* Racing, replayed and failed submissions leave one row per idempotency key.
THEOREM KeyIsUnique == Spec => []OneAttemptPerKey
<1>1. IInv => OneAttemptPerKey
  BY DEF IInv
<1>2. QED
  BY <1>1, AlwaysIInv, PTL

\* A request is never answered with an attempt of another user or key.
THEOREM AnswersAreOwn == Spec => []AnswersOwnAttempt
<1>1. IInv => AnswersOwnAttempt
  BY DEF IInv
<1>2. QED
  BY <1>1, AlwaysIInv, PTL
-----------------------------------------------------------------------------
(* The refinement of AttemptLifecycle.                                     *)

\* No step but the insert and the three writers of results changes what the
\* student sees of an attempt.
LEMMA StepMaps ==
  ASSUME IInv, [Next]_vars
  PROVE  \/ UNCHANGED <<attempts, execution, evaluation>>
         \/ \E r \in Requests \ attempts :
               attempts' = attempts \cup {r} /\ UNCHANGED <<execution, evaluation>>
         \/ \E a \in Requests : Settles(a) /\ UNCHANGED attempts
<1>1. ASSUME NEW r \in Requests, InsertAttempt(r)
      PROVE  \/ UNCHANGED <<attempts, execution, evaluation>>
             \/ /\ r \notin attempts /\ attempts' = attempts \cup {r}
                /\ UNCHANGED <<execution, evaluation>>
  BY <1>1 DEF InsertAttempt, IInv, RequestsConsistent, Open
<1>2. ASSUME NEW a \in Requests, CancelInsert(a)
      PROVE  /\ Settles(a) \/ UNCHANGED <<execution, evaluation>>
             /\ UNCHANGED attempts
  BY <1>2, WriteSettles DEF CancelInsert
<1>3. ASSUME NEW w \in Workers, FinalizeInterrupted(w) \/ EvaluateAndFinalize(w)
      PROVE  /\ \/ Settles(worker[w].attempt)
                \/ UNCHANGED <<execution, evaluation>>
             /\ worker[w].attempt \in Requests /\ UNCHANGED attempts
  BY <1>3, WriteSettles, WorkersWorkOnRequests
     DEF FinalizeInterrupted, EvaluateAndFinalize
<1>4. QED
  BY <1>1, <1>2, <1>3
     DEF Next, vars, SubmitLookup, SubmitStep, WebFault, Midnight, Redeliver,
         WorkerStep, WorkerFault, CancelCheck, EnforceConcurrencyLimit,
         EnforceEntitlementQuota, NumberAttempt, Enqueue, Take, Begin,
         Checkpoint, SandboxReturns

\* Every behaviour of the component is one the status API promises: an accepted
\* attempt settles at most once, whatever cancels, crashes and duplicated
\* messages race, and exactly graded results carry the verdict they call for.
THEOREM LifecycleImplemented == Spec => ImplementsLifecycle
<1>1. Init => Promise!Init
  BY DEF Init, Promise!Init, NoEvaluation
<1>2. IInv /\ [Next]_vars => [Promise!Next]_(Promise!promises)
  <2> SUFFICES ASSUME IInv, [Next]_vars
               PROVE  [Promise!Next]_(Promise!promises)
    OBVIOUS
  <2>1. CASE UNCHANGED <<attempts, execution, evaluation>>
    BY <2>1 DEF Promise!promises
  <2>2. ASSUME NEW r \in Requests \ attempts, attempts' = attempts \cup {r},
               UNCHANGED <<execution, evaluation>>
        PROVE  Promise!Accept(r)
    <3>1. execution[r] = "none"
      BY <2>2 DEF IInv, WorkConsistent
    <3>2. QED
      BY <2>2, <3>1 DEF Promise!Accept
  <2>3. ASSUME NEW a \in Requests, Settles(a), UNCHANGED attempts
        PROVE  \E result \in Promise!Graded \cup Promise!Technical :
                  Promise!Settle(a, result)
    <3>1. PICK result \in ResultType :
             execution' = [execution EXCEPT ![a] = result]
      BY <2>3 DEF Settles
    <3>2. /\ execution[a] = "none" /\ a \in attempts
          /\ execution'[a] = result /\ result # "none"
          /\ \A b \in Requests : b # a => execution'[b] = execution[b]
      BY <2>3, <3>1 DEF Settles, IInv, TypeOK, ResultType, Graded
    <3>3. result \in Promise!Graded \cup Promise!Technical
      BY DEF ResultType, Graded, Promise!Graded, Promise!Technical
    <3>4. /\ evaluation'[a].outcome = Promise!VerdictOf(result)
          /\ \A b \in Requests : b # a => evaluation'[b] = evaluation[b]
      BY <2>3, <3>2 DEF Settles
    <3>5. Promise!Settle(a, result)
      BY <2>3, <3>2, <3>4 DEF Promise!Settle
    <3>6. QED
      BY <3>3, <3>5
  <2>4. QED
    BY <2>1, <2>2, <2>3, StepMaps DEF Promise!Next
<1>3. QED
  BY <1>1, <1>2, AlwaysIInv, PTL DEF Spec, ImplementsLifecycle, Promise!Spec
-----------------------------------------------------------------------------
(* The limit on unfinished attempts.  Nothing locks the count that submit  *)
(* reads, so a request counts against the limit from the moment it passes  *)
(* the check; the requests that passed are among the open ones.            *)

OpenBounded == \A u \in Users : Cardinality(OpenOf(u)) <= MaxOpen

LimitInv == OpenBounded /\ InFlightOverrunBounded

\* What a step can do to the three sets of a user: start a request, admit one
\* that saw room, turn an admitted request into an attempt, or only shrink them.
Starts(u) ==
    /\ Cardinality(OpenOf(u)) < MaxOpen
    /\ \E r \in Requests : OpenOf(u)' \subseteq OpenOf(u) \cup {r}
    /\ Admitted(u)' \subseteq Admitted(u) /\ InFlight(u)' \subseteq InFlight(u)

Admits(u) ==
    /\ Cardinality(InFlight(u)) < Limit
    /\ OpenOf(u)' \subseteq OpenOf(u)
    /\ Admitted(u)' \subseteq OpenOf(u)' /\ InFlight(u)' \subseteq InFlight(u)

Inserts(u) ==
    /\ OpenOf(u)' \subseteq OpenOf(u)
    /\ \E r \in Admitted(u) : /\ Admitted(u)' \subseteq Admitted(u) \ {r}
                             /\ InFlight(u)' \subseteq InFlight(u) \cup {r}

Shrinks(u) ==
    /\ OpenOf(u)' \subseteq OpenOf(u)
    /\ Admitted(u)' \subseteq Admitted(u) /\ InFlight(u)' \subseteq InFlight(u)

\* A smaller set of requests has no more members, and one more at most when
\* one request joins it.
LEMMA CountSubset ==
  ASSUME NEW S \in SUBSET Requests, NEW T, T \subseteq S
  PROVE  Cardinality(T) \in Nat /\ Cardinality(T) <= Cardinality(S)
<1>1. IsFiniteSet(S) /\ T \in SUBSET Requests
  BY ConstantsAssumption, FS_Subset DEF ConstantsAssumption
<1>2. QED
  BY <1>1, CountIsNat, FS_Subset

LEMMA CountJoin ==
  ASSUME NEW S \in SUBSET Requests, NEW r \in Requests, NEW T, T \subseteq S \cup {r}
  PROVE  Cardinality(T) \in Nat /\ Cardinality(T) <= Cardinality(S) + 1
<1>1. IsFiniteSet(S) /\ S \cup {r} \in SUBSET Requests
  BY ConstantsAssumption, FS_Subset DEF ConstantsAssumption
<1>2. Cardinality(S) \in Nat
  BY CountIsNat
<1>3. Cardinality(S \cup {r}) \in {Cardinality(S), Cardinality(S) + 1}
  BY <1>1, FS_AddElement, Zenon
<1>4. QED
  BY <1>1, <1>2, <1>3, CountIsNat, CountSubset

LEMMA CountLeave ==
  ASSUME NEW S \in SUBSET Requests, NEW r \in S, NEW T, T \subseteq S \ {r}
  PROVE  Cardinality(T) \in Nat /\ Cardinality(T) + 1 <= Cardinality(S)
<1>1. IsFiniteSet(S) /\ S \ {r} \in SUBSET Requests
  BY ConstantsAssumption, FS_Subset DEF ConstantsAssumption
<1>2. Cardinality(S \ {r}) = Cardinality(S) - 1
  BY <1>1, FS_RemoveElement
<1>3. QED
  BY <1>1, <1>2, CountIsNat, CountSubset

\* A limit that is read without a lock.  The requests of o are open, those of
\* a among them have passed the check and those of f count against the limit n.
\* A step that drops requests, admits one that saw room, or turns an admitted
\* one into one that counts keeps them below n and the requests open at a time.
LEMMA RoomStep ==
  ASSUME NEW n \in Nat,
         NEW o \in SUBSET Requests, NEW a \in SUBSET Requests, NEW f \in SUBSET Requests,
         NEW a2 \in SUBSET o, NEW f2 \in SUBSET Requests,
         Cardinality(o) <= MaxOpen,
         Cardinality(f) + Cardinality(a) < n + MaxOpen,
         \/ a2 \subseteq a /\ f2 \subseteq f
         \/ Cardinality(f) < n /\ f2 \subseteq f
         \/ \E r \in a : a2 \subseteq a \ {r} /\ f2 \subseteq f \cup {r}
  PROVE  Cardinality(f2) + Cardinality(a2) < n + MaxOpen
<1>1. /\ Cardinality(o) \in Nat /\ Cardinality(a) \in Nat /\ Cardinality(f) \in Nat
      /\ Cardinality(a2) \in Nat /\ Cardinality(f2) \in Nat /\ MaxOpen \in Nat
  BY CountIsNat, ConstantsAssumption DEF ConstantsAssumption
<1>2. CASE a2 \subseteq a /\ f2 \subseteq f
  <2>1. Cardinality(a2) <= Cardinality(a) /\ Cardinality(f2) <= Cardinality(f)
    BY <1>2, CountSubset
  <2>2. QED
    BY <1>1, <2>1
<1>3. CASE Cardinality(f) < n /\ f2 \subseteq f
  <2>1. Cardinality(a2) <= Cardinality(o) /\ Cardinality(f2) <= Cardinality(f)
    BY <1>3, CountSubset
  <2>2. QED
    BY <1>1, <1>3, <2>1
<1>4. ASSUME NEW r \in a, a2 \subseteq a \ {r}, f2 \subseteq f \cup {r}
      PROVE  Cardinality(f2) + Cardinality(a2) < n + MaxOpen
  <2>1. Cardinality(a2) + 1 <= Cardinality(a)
    BY <1>4, CountLeave
  <2>2. Cardinality(f2) <= Cardinality(f) + 1
    BY <1>4, CountJoin
  <2>3. QED
    BY <1>1, <2>1, <2>2
<1>5. QED
  BY <1>2, <1>3, <1>4

LEMMA SetsOfRequests ==
  ASSUME IInv, NEW u
  PROVE  /\ OpenOf(u) \in SUBSET Requests /\ Admitted(u) \in SUBSET OpenOf(u)
         /\ InFlight(u) \in SUBSET Requests
  BY DEF IInv, TypeOK, OpenOf, Admitted, InFlight, Open

LEMMA LimitStep ==
  ASSUME IInv, IInv', LimitInv, NEW u \in Users,
         Starts(u) \/ Admits(u) \/ Inserts(u) \/ Shrinks(u)
  PROVE  /\ Cardinality(OpenOf(u))' <= MaxOpen
         /\ Cardinality(InFlight(u))' + Cardinality(Admitted(u))' < Limit + MaxOpen
<1> DEFINE o == OpenOf(u)
           a == Admitted(u)
           f == InFlight(u)
<1>1. /\ o \in SUBSET Requests /\ a \in SUBSET o /\ f \in SUBSET Requests
      /\ o' \in SUBSET Requests /\ a' \in SUBSET o' /\ f' \in SUBSET Requests
  <2>1. o \in SUBSET Requests /\ a \in SUBSET o /\ f \in SUBSET Requests
    BY SetsOfRequests
  <2>2. o' \in SUBSET Requests /\ a' \in SUBSET o' /\ f' \in SUBSET Requests
    BY DEF IInv, TypeOK, OpenOf, Admitted, InFlight, Open
  <2>3. QED BY <2>1, <2>2
<1>2. /\ Cardinality(o) <= MaxOpen
      /\ Cardinality(f) + Cardinality(a) < Limit + MaxOpen
  BY DEF LimitInv, OpenBounded, InFlightOverrunBounded
<1>3. /\ Cardinality(o) \in Nat /\ Limit \in Nat /\ MaxOpen \in Nat
  BY <1>1, CountIsNat, ConstantsAssumption DEF ConstantsAssumption
<1>4. Cardinality(o') \in Nat /\ Cardinality(o') <= MaxOpen
  <2>1. CASE Starts(u)
    <3>1. PICK r \in Requests : o' \subseteq o \cup {r} /\ Cardinality(o) < MaxOpen
      BY <2>1 DEF Starts
    <3> HIDE DEF o
    <3>2. Cardinality(o') \in Nat /\ Cardinality(o') <= Cardinality(o) + 1
      BY <1>1, <3>1, CountJoin
    <3>3. QED
      BY <1>3, <3>1, <3>2
  <2>2. CASE o' \subseteq o
    <3> HIDE DEF o
    <3>1. Cardinality(o') \in Nat /\ Cardinality(o') <= Cardinality(o)
      BY <1>1, <2>2, CountSubset
    <3>2. QED
      BY <1>2, <1>3, <3>1
  <2>3. QED
    BY <2>1, <2>2 DEF Admits, Inserts, Shrinks
<1>5. \/ a' \subseteq a /\ f' \subseteq f
      \/ Cardinality(f) < Limit /\ f' \subseteq f
      \/ \E r \in a : a' \subseteq a \ {r} /\ f' \subseteq f \cup {r}
  BY DEF Starts, Admits, Inserts, Shrinks
<1>6. Cardinality(f') + Cardinality(a') < Limit + MaxOpen
  <2> HIDE DEF o, a, f
  <2>1. a \in SUBSET Requests /\ a' \in SUBSET o'
    BY <1>1
  <2>2. QED
    BY <1>1, <1>2, <1>3, <1>4, <1>5, <2>1, RoomStep
<1>7. QED
  BY <1>4, <1>6

\* What any step does to the three sets of one user's requests and rows.
LEMMA StepEffect ==
  ASSUME IInv, [Next]_vars, NEW u \in Users
  PROVE  Starts(u) \/ Admits(u) \/ Inserts(u) \/ Shrinks(u)
<1> USE DEF OpenOf, Admitted, InFlight
<1>1. ASSUME NEW r \in Requests, NEW v \in Users, NEW e \in Exercises,
             NEW k \in Keys, SubmitLookup(r, v, e, k)
      PROVE  Starts(u) \/ Shrinks(u)
  <2>1. /\ r \notin attempts /\ UNCHANGED <<attempts, execution>>
        /\ Cardinality(OpenOf(v)) < MaxOpen
        /\ \A q \in Requests : q # r => req'[q] = req[q]
        /\ req'[r].pc \notin {"quota", "number", "insert"}
        /\ req'[r].pc \in Open => req'[r].user = v
    <3> DEFINE own == {a \in Existing(k) : req[a].user = v}
               new == IF own # {}
                      THEN Entry("answered", v, None, k, CHOOSE a \in own : TRUE)
                      ELSE IF Existing(k) # {} \/ e \notin Published
                      THEN Blank("refused") ELSE Entry("limit", v, e, k, None)
    <3>1. /\ req[r].pc = "new" /\ Cardinality(OpenOf(v)) < MaxOpen
          /\ req' = [req EXCEPT ![r] = new] /\ UNCHANGED <<attempts, execution>>
      BY <1>1 DEF SubmitLookup
    <3>2. /\ new.pc \notin {"quota", "number", "insert"}
          /\ new.pc \in Open => new.user = v
      BY DEF Entry, Blank, Open
    <3> HIDE DEF new
    <3>3. (\A q \in Requests : q # r => req'[q] = req[q]) /\ req'[r] = new
      BY <3>1 DEF IInv, TypeOK
    <3>4. r \notin attempts
      BY <3>1 DEF IInv, RequestsConsistent
    <3>5. QED
      BY <3>1, <3>2, <3>3, <3>4
  <2>2. Admitted(u)' \subseteq Admitted(u) /\ InFlight(u)' \subseteq InFlight(u)
    BY <2>1 DEF IInv, TypeOK
  <2>3. OpenOf(u)' \subseteq OpenOf(u) \cup {r}
    BY <2>1
  <2>4. CASE u = v
    BY <2>1, <2>2, <2>3, <2>4 DEF Starts
  <2>5. CASE u # v
    <3>1. r \notin OpenOf(u)'
      BY <2>1, <2>5
    <3>2. QED
      BY <2>2, <2>3, <3>1 DEF Shrinks
  <2>6. QED BY <2>4, <2>5
<1>2. ASSUME NEW r \in Requests, EnforceConcurrencyLimit(r)
      PROVE  Admits(u) \/ Shrinks(u)
  <2>1. /\ r \notin attempts /\ UNCHANGED <<attempts, execution>>
        /\ req[r] \in Request /\ req[r].pc = "limit"
    BY <1>2 DEF EnforceConcurrencyLimit, IInv, TypeOK, RequestsConsistent, Open
  <2>2. CASE Cardinality(InFlight(req[r].user)) >= Limit
    <3>1. req' = [req EXCEPT ![r] = Blank("refused")]
      BY <1>2, <2>2 DEF EnforceConcurrencyLimit, Refuse
    <3>2. QED
      BY <2>1, <3>1 DEF Shrinks, Blank, Entry, Open, IInv, TypeOK
  <2>3. CASE ~(Cardinality(InFlight(req[r].user)) >= Limit)
    <3>1. Advance(r, "quota") /\ Cardinality(InFlight(req[r].user)) < Limit
      <4>1. Cardinality(InFlight(req[r].user)) \in Nat /\ Limit \in Nat
        BY CountIsNat, SetsOfRequests, ConstantsAssumption
           DEF ConstantsAssumption, IInv, TypeOK
      <4>2. QED
        BY <1>2, <2>3, <4>1 DEF EnforceConcurrencyLimit
    <3>2. /\ \A q \in Requests : q # r => req'[q] = req[q]
          /\ req'[r].pc = "quota" /\ req'[r].user = req[r].user
      BY <3>1, AdvanceShape DEF Open, IInv, TypeOK
    <3>3. OpenOf(u)' \subseteq OpenOf(u) /\ InFlight(u)' \subseteq InFlight(u)
      BY <2>1, <3>2 DEF Open, IInv, TypeOK
    <3>4. CASE req[r].user = u
      <4>1. Admitted(u)' \subseteq OpenOf(u)'
        BY DEF Open
      <4>2. QED
        BY <3>1, <3>3, <3>4, <4>1 DEF Admits
    <3>5. CASE req[r].user # u
      <4>1. Admitted(u)' \subseteq Admitted(u)
        BY <3>2, <3>5
      <4>2. QED
        BY <3>3, <4>1 DEF Shrinks
    <3>6. QED BY <3>4, <3>5
  <2>4. QED BY <2>2, <2>3
\* The steps after the check keep an admitted request admitted or drop it.
<1>3. ASSUME NEW r \in Requests,
             \/ EnforceEntitlementQuota(r)
             \/ NumberAttempt(r)
             \/ InsertAttempt(r) /\ Existing(req[r].key) # {}
             \/ Enqueue(r)
             \/ WebFault(r)
      PROVE  Shrinks(u)
  <2>1. /\ \A q \in Requests : q # r => req'[q] = req[q]
        /\ \/ req'[r].pc \notin Open
           \/ /\ req'[r].user = req[r].user /\ req[r].pc \in {"quota", "number"}
              /\ req'[r].pc \in Open
        /\ r \in attempts => req'[r].user = req[r].user
        /\ UNCHANGED <<attempts, execution>>
    <3>1. req \in [Requests -> Request] /\ req[r] \in Request
      BY DEF IInv, TypeOK
    <3>2. req[r].pc \in Open /\ (r \in attempts <=> req[r].pc = "committed")
      BY <1>3 DEF IInv, RequestsConsistent, EnforceEntitlementQuota, NumberAttempt,
                  InsertAttempt, Enqueue, WebFault, Open
    <3>3. ASSUME NEW pc \in Open \cup {"new", "answered", "refused"}, Advance(r, pc)
          PROVE  /\ \A q \in Requests : q # r => req'[q] = req[q]
                 /\ req'[r].pc = pc /\ req'[r].user = req[r].user
      BY <3>1, <3>3, AdvanceShape
    <3>4. ASSUME Refuse(r)
          PROVE  /\ \A q \in Requests : q # r => req'[q] = req[q]
                 /\ req'[r].pc = "refused"
      BY <3>1, <3>4 DEF Refuse, Blank, Entry
    <3>5. CASE EnforceEntitlementQuota(r)
      BY <3>2, <3>3, <3>4, <3>5 DEF EnforceEntitlementQuota, Open
    <3>6. CASE NumberAttempt(r)
      <4>1. /\ \A q \in Requests : q # r => req'[q] = req[q]
            /\ req'[r] = [req[r] EXCEPT !.pc = "insert",
                            !.number = Cardinality(SameExercise(
                                          req[r].user, req[r].exercise)) + 1]
            /\ req[r].pc = "number" /\ UNCHANGED <<attempts, execution>>
        BY <3>1, <3>6 DEF NumberAttempt
      <4>2. req'[r].pc = "insert" /\ req'[r].user = req[r].user
        BY <3>1, <4>1 DEF Request
      <4>3. QED
        BY <3>2, <4>1, <4>2 DEF Open
    <3>7. CASE InsertAttempt(r) /\ Existing(req[r].key) # {}
      BY <3>2, <3>4, <3>7 DEF InsertAttempt, Open
    <3>8. CASE Enqueue(r)
      <4>1. /\ \A q \in Requests : q # r => req'[q] = req[q]
            /\ req'[r] = [req[r] EXCEPT !.pc = "answered", !.answer = r]
            /\ UNCHANGED <<attempts, execution>>
        BY <3>1, <3>8 DEF Enqueue
      <4>2. req'[r].pc = "answered" /\ req'[r].user = req[r].user
        BY <3>1, <4>1 DEF Request
      <4>3. QED
        BY <4>1, <4>2 DEF Open
    <3>9. CASE WebFault(r)
      BY <3>2, <3>3, <3>4, <3>9 DEF WebFault, Open
    <3>10. QED
      BY <1>3, <3>5, <3>6, <3>7, <3>8, <3>9
  <2>2. InFlight(u)' \subseteq InFlight(u) /\ OpenOf(u)' \subseteq OpenOf(u)
    BY <2>1 DEF IInv, TypeOK, Open
  <2>3. Admitted(u)' \subseteq Admitted(u)
    BY <2>1 DEF Open
  <2>4. QED
    BY <2>2, <2>3 DEF Shrinks
<1>4. ASSUME NEW r \in Requests, InsertAttempt(r), Existing(req[r].key) = {}
      PROVE  Inserts(u) \/ Shrinks(u)
  <2>1. /\ req[r].pc = "insert" /\ attempts' = attempts \cup {r}
        /\ Advance(r, "committed") /\ UNCHANGED execution
    BY <1>4 DEF InsertAttempt
  <2>2. /\ \A q \in Requests : q # r => req'[q] = req[q]
        /\ req'[r].pc = "committed" /\ req'[r].user = req[r].user
    BY <2>1, AdvanceShape DEF Open, IInv, TypeOK
  <2>3. OpenOf(u)' \subseteq OpenOf(u) /\ Admitted(u)' \subseteq Admitted(u) \ {r}
    BY <2>1, <2>2 DEF Open
  <2>4. InFlight(u)' \subseteq InFlight(u) \cup {r}
    BY <2>1, <2>2 DEF IInv, TypeOK
  <2>5. CASE req[r].user = u
    <3>1. r \in Admitted(u)
      BY <2>1, <2>5
    <3>2. QED
      BY <2>3, <2>4, <3>1 DEF Inserts
  <2>6. CASE req[r].user # u
    <3>1. r \notin InFlight(u)'
      BY <2>2, <2>6
    <3>2. QED
      BY <2>3, <2>4, <3>1 DEF Shrinks
  <2>7. QED BY <2>5, <2>6
\* No other step touches a request or a row, and results stay.
<1>5. ASSUME UNCHANGED <<req, attempts>>,
             \A a \in Requests : execution'[a] = "none" => execution[a] = "none"
      PROVE  Shrinks(u)
  BY <1>5 DEF Shrinks, IInv, TypeOK
<1>6. ASSUME NEW a \in Requests, CancelInsert(a)
      PROVE  Shrinks(u)
  <2>1. \A b \in Requests : execution'[b] = "none" => execution[b] = "none"
    BY <1>6 DEF CancelInsert, IInv, TypeOK
  <2>2. QED
    BY <1>5, <1>6, <2>1 DEF CancelInsert
<1>7. ASSUME NEW w \in Workers, FinalizeInterrupted(w) \/ EvaluateAndFinalize(w)
      PROVE  Shrinks(u)
  <2>1. \A b \in Requests : execution'[b] = "none" => execution[b] = "none"
    BY <1>7 DEF FinalizeInterrupted, EvaluateAndFinalize, Settled, IInv, TypeOK
  <2>2. QED
    BY <1>5, <1>7, <2>1 DEF FinalizeInterrupted, EvaluateAndFinalize
<1> HIDE DEF OpenOf, Admitted, InFlight
<1>8. QED
  BY <1>1, <1>2, <1>3, <1>4, <1>5, <1>6, <1>7
     DEF Next, vars, SubmitStep, Midnight, Redeliver, WorkerStep, WorkerFault,
         CancelCheck, Take, Begin, Checkpoint, SandboxReturns

LEMMA AlwaysLimitInv == Spec => []LimitInv
<1>1. Init => LimitInv
  <2>1. ASSUME Init, NEW u \in Users
        PROVE  OpenOf(u) = {} /\ Admitted(u) = {} /\ InFlight(u) = {}
    BY <2>1 DEF Init, OpenOf, Admitted, InFlight, Blank, Entry, Open
  <2>2. Cardinality({}) = 0 /\ Limit \in Nat /\ MaxOpen \in Nat \ {0}
    BY FS_EmptySet, ConstantsAssumption DEF ConstantsAssumption
  <2>3. ASSUME Init, NEW u \in Users
        PROVE  /\ Cardinality(OpenOf(u)) <= MaxOpen
               /\ Cardinality(InFlight(u)) + Cardinality(Admitted(u)) < Limit + MaxOpen
    <3>1. /\ Cardinality(OpenOf(u)) = 0 /\ Cardinality(InFlight(u)) = 0
          /\ Cardinality(Admitted(u)) = 0
      BY <2>1, <2>2, <2>3
    <3>2. QED
      BY <2>2, <3>1
  <2>4. QED
    BY <2>3 DEF LimitInv, OpenBounded, InFlightOverrunBounded
<1>2. IInv /\ IInv' /\ LimitInv /\ [Next]_vars => LimitInv'
  <2> SUFFICES ASSUME IInv, IInv', LimitInv, [Next]_vars
               PROVE  LimitInv'
    OBVIOUS
  <2>1. \A u \in Users :
           /\ Cardinality(OpenOf(u))' <= MaxOpen
           /\ Cardinality(InFlight(u))' + Cardinality(Admitted(u))' < Limit + MaxOpen
    BY StepEffect, LimitStep
  <2>2. QED
    BY <2>1 DEF LimitInv, OpenBounded, InFlightOverrunBounded
<1>3. QED
  BY <1>1, <1>2, AlwaysIInv, PTL DEF Spec

\* Unfinished attempts exceed the configured limit by less than the number of
\* submit requests a user can have open at one time.
THEOREM OverrunBounded == Spec => []InFlightOverrunBounded
<1>1. LimitInv => InFlightOverrunBounded
  BY DEF LimitInv
<1>2. QED
  BY <1>1, AlwaysLimitInv, PTL

\* So the documented limit holds for a user who submits one request at a time.
THEOREM SerialKeepsLimit ==
  ASSUME MaxOpen = 1
  PROVE  Spec => []ConcurrencyLimit
<1>1. IInv /\ LimitInv => ConcurrencyLimit
  <2> SUFFICES ASSUME IInv, LimitInv, NEW u \in Users
               PROVE  Cardinality(InFlight(u)) <= Limit
    BY DEF ConcurrencyLimit
  <2>1. Admitted(u) \in SUBSET Requests /\ InFlight(u) \in SUBSET Requests
    BY SetsOfRequests
  <2>2. /\ Cardinality(InFlight(u)) \in Nat /\ Cardinality(Admitted(u)) \in Nat
        /\ Limit \in Nat
    BY <2>1, CountIsNat, ConstantsAssumption DEF ConstantsAssumption
  <2>3. QED
    BY <2>2 DEF LimitInv, InFlightOverrunBounded
<1>2. QED
  BY <1>1, AlwaysIInv, AlwaysLimitInv, PTL
-----------------------------------------------------------------------------
(* What a step does to the requests: it moves one of them, or none.        *)

\* Apart from r, the requests stay as they are.
OnlyMoves(r) == \A q \in Requests : q # r => req'[q] = req[q]

SameSubmission(r) ==
    /\ req'[r].user = req[r].user /\ req'[r].exercise = req[r].exercise
    /\ req'[r].number = req[r].number

\* A request that has no row comes in, waits at a check, or is refused.
Waits(r) ==
    /\ r \notin attempts /\ req'[r].pc \notin {"number", "insert"}
    /\ UNCHANGED <<attempts, today>>

\* A request passes the check of the daily quota.
Passes(r) ==
    /\ r \notin attempts
    /\ req'[r].pc = "number" /\ SameSubmission(r)
    /\ DailyQuota[req[r].user] # NoQuota =>
          Cardinality(TodayOf(req[r].user)) < DailyQuota[req[r].user]
    /\ UNCHANGED <<attempts, today>>

\* A request draws the number of its attempt.
Draws(r) ==
    /\ r \notin attempts /\ req[r].pc = "number" /\ req'[r].pc = "insert"
    /\ req'[r].user = req[r].user /\ req'[r].exercise = req[r].exercise
    /\ req'[r].number = Cardinality(SameExercise(req[r].user, req[r].exercise)) + 1
    /\ UNCHANGED <<attempts, today>>

Commits(r) ==
    /\ r \notin attempts /\ req[r].pc = "insert" /\ req'[r].pc = "committed"
    /\ SameSubmission(r)
    /\ attempts' = attempts \cup {r} /\ today' = today \cup {r}

\* The request of a committed attempt is answered, or its process dies.
Departs(r) ==
    /\ r \in attempts /\ req'[r].pc \notin {"number", "insert"}
    /\ SameSubmission(r)
    /\ UNCHANGED <<attempts, today>>

LEMMA RequestStep ==
  ASSUME IInv, [Next]_vars
  PROVE  \/ UNCHANGED <<req, attempts>> /\ today' \subseteq today
         \/ \E r \in Requests :
               /\ OnlyMoves(r)
               /\ Waits(r) \/ Passes(r) \/ Draws(r) \/ Commits(r) \/ Departs(r)
<1> DEFINE Goal(r) ==
       /\ OnlyMoves(r)
       /\ Waits(r) \/ Passes(r) \/ Draws(r) \/ Commits(r) \/ Departs(r)
<1>0. req \in [Requests -> Request]
  BY DEF IInv, TypeOK
<1>1. ASSUME NEW r \in Requests, r \notin attempts, Refuse(r),
             UNCHANGED <<attempts, today>>
      PROVE  OnlyMoves(r) /\ Waits(r)
  BY <1>0, <1>1 DEF Refuse, Blank, Entry, OnlyMoves, Waits
<1>2. ASSUME NEW r \in Requests, NEW pc \in Open \cup {"new", "answered", "refused"},
             Advance(r, pc)
      PROVE  OnlyMoves(r) /\ SameSubmission(r) /\ req'[r].pc = pc
  BY <1>0, <1>2, AdvanceShape DEF OnlyMoves, SameSubmission
<1>3. ASSUME NEW r \in Requests, NEW u \in Users, NEW e \in Exercises,
             NEW k \in Keys, SubmitLookup(r, u, e, k)
      PROVE  Goal(r)
  <2>1. r \notin attempts /\ UNCHANGED <<attempts, today>>
    BY <1>3 DEF SubmitLookup, IInv, RequestsConsistent
  <2>2. OnlyMoves(r) /\ req'[r].pc \in {"answered", "refused", "limit"}
    BY <1>0, <1>3 DEF SubmitLookup, OnlyMoves, Entry, Blank
  <2>3. QED
    BY <2>1, <2>2 DEF Waits
<1>4. ASSUME NEW r \in Requests, EnforceConcurrencyLimit(r)
      PROVE  Goal(r)
  <2>1. r \notin attempts /\ UNCHANGED <<attempts, today>>
    BY <1>4 DEF EnforceConcurrencyLimit, IInv, RequestsConsistent, Open
  <2>2. Refuse(r) \/ Advance(r, "quota")
    BY <1>4 DEF EnforceConcurrencyLimit
  <2>3. QED
    BY <1>1, <1>2, <2>1, <2>2 DEF Waits, Open
<1>5. ASSUME NEW r \in Requests, EnforceEntitlementQuota(r)
      PROVE  Goal(r)
  <2>1. /\ r \notin attempts /\ UNCHANGED <<attempts, today>>
        /\ req[r].user \in Users /\ req[r].pc = "quota"
    BY <1>5 DEF EnforceEntitlementQuota, IInv, RequestsConsistent, Open
  <2>2. \/ Refuse(r)
        \/ /\ Advance(r, "number")
           /\ ~(/\ DailyQuota[req[r].user] # NoQuota
                /\ Cardinality(TodayOf(req[r].user)) >= DailyQuota[req[r].user])
    BY <1>5 DEF EnforceEntitlementQuota
  <2>3. CASE Refuse(r)
    BY <1>1, <2>1, <2>3
  <2>4. CASE Advance(r, "number")
    <3>1. OnlyMoves(r) /\ SameSubmission(r) /\ req'[r].pc = "number"
      BY <1>2, <2>4 DEF Open
    <3>2. ASSUME DailyQuota[req[r].user] # NoQuota
          PROVE  Cardinality(TodayOf(req[r].user)) < DailyQuota[req[r].user]
      <4>1. Cardinality(TodayOf(req[r].user)) \in Nat
        BY CountIsNat DEF TodayOf, IInv, TypeOK
      <4>2. DailyQuota[req[r].user] \in Nat
        BY <2>1, <3>2, ConstantsAssumption DEF ConstantsAssumption
      <4>3. ~Refuse(r)
        BY <2>1, <3>1, <1>1 DEF Waits
      <4>4. QED
        BY <2>2, <3>2, <4>1, <4>2, <4>3
    <3>3. QED
      BY <2>1, <3>1, <3>2 DEF Passes
  <2>5. QED
    BY <2>2, <2>3, <2>4
<1>6. ASSUME NEW r \in Requests, NumberAttempt(r)
      PROVE  Goal(r)
  <2> DEFINE n == Cardinality(SameExercise(req[r].user, req[r].exercise)) + 1
  <2>1. /\ r \notin attempts /\ UNCHANGED <<attempts, today>> /\ req[r].pc = "number"
        /\ req' = [req EXCEPT ![r].pc = "insert", ![r].number = n]
    BY <1>6 DEF NumberAttempt, IInv, RequestsConsistent, Open
  <2> HIDE DEF n
  <2>2. OnlyMoves(r) /\ req'[r] = [req[r] EXCEPT !.pc = "insert", !.number = n]
    BY <1>0, <2>1 DEF OnlyMoves
  <2>3. /\ req'[r].pc = "insert" /\ req'[r].number = n
        /\ req'[r].user = req[r].user /\ req'[r].exercise = req[r].exercise
    BY <1>0, <2>2 DEF Request
  <2>4. QED
    BY <2>1, <2>2, <2>3 DEF Draws, n
<1>7. ASSUME NEW r \in Requests, InsertAttempt(r)
      PROVE  Goal(r)
  <2>1. r \notin attempts /\ req[r].pc = "insert"
    BY <1>7 DEF InsertAttempt, IInv, RequestsConsistent, Open
  <2>2. \/ Refuse(r) /\ UNCHANGED <<attempts, today>>
        \/ /\ attempts' = attempts \cup {r} /\ today' = today \cup {r}
           /\ Advance(r, "committed")
    BY <1>7 DEF InsertAttempt
  <2>3. QED
    BY <1>1, <1>2, <2>1, <2>2 DEF Commits, Open
<1>8. ASSUME NEW r \in Requests, Enqueue(r)
      PROVE  Goal(r)
  <2>1. /\ r \in attempts /\ UNCHANGED <<attempts, today>>
        /\ req' = [req EXCEPT ![r].pc = "answered", ![r].answer = r]
    BY <1>8 DEF Enqueue, IInv, RequestsConsistent, Open
  <2>2. OnlyMoves(r) /\ req'[r] = [req[r] EXCEPT !.pc = "answered", !.answer = r]
    BY <1>0, <2>1 DEF OnlyMoves
  <2>3. req'[r].pc = "answered" /\ SameSubmission(r)
    BY <1>0, <2>2 DEF Request, SameSubmission
  <2>4. QED
    BY <2>1, <2>2, <2>3 DEF Departs
<1>9. ASSUME NEW r \in Requests, WebFault(r)
      PROVE  Goal(r)
  <2>1. req[r].pc \in Open /\ UNCHANGED <<attempts, today>>
    BY <1>9 DEF WebFault
  <2>2. CASE req[r].pc = "committed"
    <3>1. r \in attempts /\ Advance(r, "refused")
      BY <1>9, <2>2 DEF WebFault, IInv, RequestsConsistent, Open
    <3>2. QED
      BY <1>2, <2>1, <3>1 DEF Departs
  <2>3. CASE req[r].pc # "committed"
    <3>1. r \notin attempts /\ Refuse(r)
      BY <1>9, <2>1, <2>3 DEF WebFault, IInv, RequestsConsistent
    <3>2. QED
      BY <1>1, <2>1, <3>1
  <2>4. QED
    BY <2>2, <2>3
<1> HIDE DEF Goal
<1>10. ASSUME NEW w \in Workers, WorkerStep(w) \/ WorkerFault(w)
       PROVE  UNCHANGED <<req, attempts, today>>
  <2>1. FinalizeInterrupted(w) => UNCHANGED <<req, attempts, today>>
    BY Zenon DEF FinalizeInterrupted
  <2>2. EvaluateAndFinalize(w) => UNCHANGED <<req, attempts, today>>
    BY DEF EvaluateAndFinalize
  <2>3. \A o \in Finished \cup Interrupted :
           SandboxReturns(w, o) => UNCHANGED <<req, attempts, today>>
    BY DEF SandboxReturns
  <2>4. QED
    BY <1>10, <2>1, <2>2, <2>3 DEF WorkerStep, WorkerFault, Take, Begin, Checkpoint
<1>11. ASSUME NEW a \in Requests, Redeliver(a) \/ CancelCheck(a) \/ CancelInsert(a)
       PROVE  UNCHANGED <<req, attempts, today>>
  BY <1>11 DEF Redeliver, CancelCheck, CancelInsert
<1>12. Midnight \/ UNCHANGED vars => UNCHANGED <<req, attempts>> /\ today' \subseteq today
  BY DEF Midnight, vars
<1>13. \/ UNCHANGED <<req, attempts>> /\ today' \subseteq today
       \/ \E r \in Requests : Goal(r)
  BY <1>3, <1>4, <1>5, <1>6, <1>7, <1>8, <1>9, <1>10, <1>11, <1>12
     DEF Next, SubmitStep
<1>14. QED
  BY <1>13 DEF Goal
-----------------------------------------------------------------------------
(* The daily quota, read without a lock as the limit is: a request counts  *)
(* against it from the moment it passes the check.                         *)

Passed(u) ==
    {r \in Requests : req[r].user = u /\ req[r].pc \in {"number", "insert"}}

DayInv ==
    \A u \in Users :
        DailyQuota[u] # NoQuota =>
            Cardinality(TodayOf(u)) + Cardinality(Passed(u)) < DailyQuota[u] + MaxOpen

LEMMA DayEffect ==
  ASSUME IInv, [Next]_vars, NEW u \in Users, DailyQuota[u] # NoQuota
  PROVE  \/ Passed(u)' \subseteq Passed(u) /\ TodayOf(u)' \subseteq TodayOf(u)
         \/ /\ Cardinality(TodayOf(u)) < DailyQuota[u]
            /\ TodayOf(u)' \subseteq TodayOf(u)
         \/ \E r \in Passed(u) : /\ Passed(u)' \subseteq Passed(u) \ {r}
                                 /\ TodayOf(u)' \subseteq TodayOf(u) \cup {r}
<1>1. req \in [Requests -> Request] /\ today \subseteq attempts /\ attempts \subseteq Requests
  BY DEF IInv, TypeOK
<1>2. CASE UNCHANGED <<req, attempts>> /\ today' \subseteq today
  BY <1>2 DEF Passed, TodayOf
<1>3. ASSUME NEW r \in Requests, OnlyMoves(r), Waits(r) \/ Draws(r) \/ Departs(r)
      PROVE  Passed(u)' \subseteq Passed(u) /\ TodayOf(u)' \subseteq TodayOf(u)
  <2>1. Passed(u)' \subseteq Passed(u)
    BY <1>3 DEF OnlyMoves, Waits, Draws, Departs, Passed
  <2>2. TodayOf(u)' \subseteq TodayOf(u)
    BY <1>1, <1>3 DEF OnlyMoves, Waits, Draws, Departs, SameSubmission, TodayOf
  <2>3. QED
    BY <2>1, <2>2
<1>4. ASSUME NEW r \in Requests, OnlyMoves(r), Passes(r)
      PROVE  /\ \/ Passed(u)' \subseteq Passed(u)
                \/ Cardinality(TodayOf(u)) < DailyQuota[u]
             /\ TodayOf(u)' \subseteq TodayOf(u)
  <2>1. TodayOf(u)' \subseteq TodayOf(u)
    BY <1>1, <1>4 DEF OnlyMoves, Passes, SameSubmission, TodayOf
  <2>2. CASE req[r].user = u
    BY <1>4, <2>1, <2>2 DEF Passes
  <2>3. CASE req[r].user # u
    <3>1. Passed(u)' \subseteq Passed(u)
      BY <1>4, <2>3 DEF OnlyMoves, Passes, SameSubmission, Passed
    <3>2. QED
      BY <2>1, <3>1
  <2>4. QED
    BY <2>2, <2>3
<1>5. ASSUME NEW r \in Requests, OnlyMoves(r), Commits(r)
      PROVE  \/ Passed(u)' \subseteq Passed(u) /\ TodayOf(u)' \subseteq TodayOf(u)
             \/ /\ r \in Passed(u) /\ Passed(u)' \subseteq Passed(u) \ {r}
                /\ TodayOf(u)' \subseteq TodayOf(u) \cup {r}
  <2>1. Passed(u)' \subseteq Passed(u) \ {r}
    BY <1>5 DEF OnlyMoves, Commits, Passed
  <2>2. TodayOf(u)' \subseteq TodayOf(u) \cup {r}
    BY <1>1, <1>5 DEF OnlyMoves, Commits, TodayOf
  <2>3. CASE req[r].user = u
    BY <1>5, <2>1, <2>2, <2>3 DEF Commits, Passed
  <2>4. CASE req[r].user # u
    <3>1. r \notin TodayOf(u)'
      BY <1>5, <2>4 DEF Commits, SameSubmission, TodayOf
    <3>2. QED
      BY <2>1, <2>2, <3>1
  <2>5. QED
    BY <2>3, <2>4
<1>6. QED
  BY <1>2, <1>3, <1>4, <1>5, RequestStep

LEMMA AlwaysDayInv == Spec => []DayInv
<1>1. Init => DayInv
  <2>1. ASSUME Init, NEW u \in Users
        PROVE  TodayOf(u) = {} /\ Passed(u) = {}
    BY <2>1 DEF Init, TodayOf, Passed, Blank, Entry
  <2>2. Cardinality({}) = 0 /\ MaxOpen \in Nat \ {0}
    BY FS_EmptySet, ConstantsAssumption DEF ConstantsAssumption
  <2>3. ASSUME Init, NEW u \in Users, DailyQuota[u] # NoQuota
        PROVE  Cardinality(TodayOf(u)) + Cardinality(Passed(u)) < DailyQuota[u] + MaxOpen
    <3>1. DailyQuota[u] \in Nat
      BY <2>3, ConstantsAssumption DEF ConstantsAssumption
    <3>2. Cardinality(TodayOf(u)) = 0 /\ Cardinality(Passed(u)) = 0
      BY <2>1, <2>2, <2>3
    <3>3. QED
      BY <2>2, <3>1, <3>2
  <2>4. QED
    BY <2>3 DEF DayInv
<1>2. IInv /\ IInv' /\ LimitInv' /\ DayInv /\ [Next]_vars => DayInv'
  <2> SUFFICES ASSUME IInv, IInv', LimitInv', DayInv, [Next]_vars,
                      NEW u \in Users, DailyQuota[u] # NoQuota
               PROVE  Cardinality(TodayOf(u))' + Cardinality(Passed(u))'
                         < DailyQuota[u] + MaxOpen
    BY DEF DayInv
  <2> DEFINE o == OpenOf(u)
             a == Passed(u)
             f == TodayOf(u)
  <2>1. DailyQuota[u] \in Nat
    BY ConstantsAssumption DEF ConstantsAssumption
  <2>2. /\ o' \in SUBSET Requests /\ a \in SUBSET Requests /\ f \in SUBSET Requests
        /\ a' \in SUBSET o' /\ f' \in SUBSET Requests
    BY DEF IInv, TypeOK, OpenOf, Passed, TodayOf, Open
  <2>3. /\ Cardinality(o') <= MaxOpen
        /\ Cardinality(f) + Cardinality(a) < DailyQuota[u] + MaxOpen
    BY DEF LimitInv, OpenBounded, DayInv
  <2>4. \/ a' \subseteq a /\ f' \subseteq f
        \/ Cardinality(f) < DailyQuota[u] /\ f' \subseteq f
        \/ \E r \in a : a' \subseteq a \ {r} /\ f' \subseteq f \cup {r}
    BY DayEffect
  <2> HIDE DEF o, a, f
  <2>5. Cardinality(f') + Cardinality(a') < DailyQuota[u] + MaxOpen
    BY <2>1, <2>2, <2>3, <2>4, RoomStep
  <2>6. QED
    BY <2>5 DEF a, f
<1>3. QED
  BY <1>1, <1>2, AlwaysIInv, AlwaysLimitInv, PTL DEF Spec

\* A user gets in a day fewer attempts than the quota of the plan and the
\* submit requests the user can have open at one time, however they race.
THEOREM DailyOverrun == Spec => []DailyOverrunBounded
<1>1. IInv /\ DayInv => DailyOverrunBounded
  <2> SUFFICES ASSUME IInv, DayInv, NEW u \in Users, DailyQuota[u] # NoQuota
               PROVE  Cardinality(TodayOf(u)) < DailyQuota[u] + MaxOpen
    BY DEF DailyOverrunBounded
  <2>1. Cardinality(TodayOf(u)) \in Nat /\ Cardinality(Passed(u)) \in Nat
    BY CountIsNat DEF TodayOf, Passed, IInv, TypeOK
  <2>2. DailyQuota[u] \in Nat /\ MaxOpen \in Nat
    BY ConstantsAssumption DEF ConstantsAssumption
  <2>3. QED
    BY <2>1, <2>2 DEF DayInv
<1>2. QED
  BY <1>1, AlwaysIInv, AlwaysDayInv, PTL

\* So the quota itself holds for a user who submits one request at a time.
THEOREM SerialKeepsQuota ==
  ASSUME MaxOpen = 1
  PROVE  Spec => [](\A u \in Users : DailyQuota[u] # NoQuota =>
                        Cardinality(TodayOf(u)) <= DailyQuota[u])
<1> DEFINE Kept == \A u \in Users : DailyQuota[u] # NoQuota =>
                        Cardinality(TodayOf(u)) <= DailyQuota[u]
<1>1. IInv /\ DailyOverrunBounded => Kept
  <2> SUFFICES ASSUME IInv, DailyOverrunBounded, NEW u \in Users, DailyQuota[u] # NoQuota
               PROVE  Cardinality(TodayOf(u)) <= DailyQuota[u]
    OBVIOUS
  <2>1. Cardinality(TodayOf(u)) \in Nat
    BY CountIsNat DEF TodayOf, IInv, TypeOK
  <2>2. DailyQuota[u] \in Nat
    BY ConstantsAssumption DEF ConstantsAssumption
  <2>3. QED
    BY <2>1, <2>2 DEF DailyOverrunBounded
<1>2. QED
  BY <1>1, AlwaysIInv, DailyOverrun, PTL
-----------------------------------------------------------------------------
(* Attempt numbers.  A number is drawn as one more than the attempts of    *)
(* the exercise; it is drawn again only until the first one is inserted.   *)

Holders(u, e, n) ==
    {r \in Requests : /\ req[r].user = u /\ req[r].exercise = e /\ req[r].number = n
                      /\ req[r].pc = "insert" \/ r \in attempts}

\* No attempt has a number beyond the count, no open request one beyond the next.
NumbersCounted ==
    \A r \in Requests :
        LET count == Cardinality(SameExercise(req[r].user, req[r].exercise))
        IN  /\ r \in attempts => req[r].number <= count
            /\ req[r].pc = "insert" => req[r].number <= count + 1

HoldersBounded ==
    \A u \in Users, e \in Exercises, n \in Nat : Cardinality(Holders(u, e, n)) <= MaxOpen

NumberInv == NumbersCounted /\ HoldersBounded

\* The attempts of an exercise never get fewer; a commit adds its own.
LEMMA CountGrows ==
  ASSUME IInv, IInv', [Next]_vars, NEW u, NEW e
  PROVE  /\ Cardinality(SameExercise(u, e)) \in Nat
         /\ Cardinality(SameExercise(u, e))' \in Nat
         /\ Cardinality(SameExercise(u, e)) <= Cardinality(SameExercise(u, e))'
         /\ \A r \in Requests \ attempts :
               r \in SameExercise(u, e)' =>
                   Cardinality(SameExercise(u, e)) + 1 <= Cardinality(SameExercise(u, e))'
<1> DEFINE S == SameExercise(u, e)
<1>1. S \in SUBSET attempts /\ S \in SUBSET Requests /\ S' \in SUBSET Requests
  BY DEF SameExercise, IInv, TypeOK
<1>2. S \subseteq S'
  <2>1. CASE UNCHANGED <<req, attempts>>
    BY <2>1 DEF SameExercise
  <2>2. ASSUME NEW r \in Requests, OnlyMoves(r),
               Waits(r) \/ Passes(r) \/ Draws(r) \/ Commits(r) \/ Departs(r)
        PROVE  S \subseteq S'
    BY <1>1, <2>2 DEF OnlyMoves, Waits, Passes, Draws, Commits, Departs,
                      SameSubmission, SameExercise
  <2>3. QED
    BY <2>1, <2>2, RequestStep
<1> HIDE DEF S
<1>3. /\ Cardinality(S) \in Nat /\ Cardinality(S') \in Nat
      /\ Cardinality(S) <= Cardinality(S')
  BY <1>1, <1>2, CountIsNat, CountSubset
<1>4. ASSUME NEW r \in Requests \ attempts, r \in S'
      PROVE  Cardinality(S) + 1 <= Cardinality(S')
  <2>1. S \subseteq S' \ {r}
    BY <1>1, <1>2, <1>4
  <2>2. QED
    BY <1>1, <1>4, <2>1, CountLeave
<1>5. QED
  BY <1>3, <1>4 DEF S

LEMMA NumbersStep ==
  ASSUME IInv, IInv', NumbersCounted, [Next]_vars
  PROVE  NumbersCounted'
<1> SUFFICES ASSUME NEW q \in Requests, NEW u, NEW e,
                    u = req'[q].user, e = req'[q].exercise
             PROVE  /\ q \in attempts' =>
                          req'[q].number <= Cardinality(SameExercise(u, e))'
                    /\ req'[q].pc = "insert" =>
                          req'[q].number <= Cardinality(SameExercise(u, e))' + 1
  BY DEF NumbersCounted, SameExercise
<1> DEFINE count == Cardinality(SameExercise(u, e))
           after == Cardinality(SameExercise(u, e))'
<1>0. req[q].number \in Nat
  BY DEF IInv, TypeOK, Request
<1>1. /\ count \in Nat /\ after \in Nat /\ count <= after
      /\ q \notin attempts /\ q \in attempts' => count + 1 <= after
  <2>1. q \in attempts' => q \in SameExercise(u, e)'
    BY DEF SameExercise
  <2>2. QED
    BY <2>1, CountGrows
<1>2. CASE SameSubmission(q) /\ (q \in attempts' => q \in attempts)
           /\ (req'[q].pc = "insert" => req[q].pc = "insert")
  BY <1>0, <1>1, <1>2 DEF NumbersCounted, SameSubmission
<1>3. CASE Waits(q) \/ Passes(q)
  BY <1>3 DEF Waits, Passes
<1>4. CASE Draws(q)
  BY <1>1, <1>4 DEF Draws
<1>5. CASE Commits(q)
  BY <1>0, <1>1, <1>5 DEF Commits, NumbersCounted, SameSubmission
<1>6. CASE Departs(q)
  BY <1>2, <1>6 DEF Departs
<1>7. QED
  BY <1>2, <1>3, <1>4, <1>5, <1>6, RequestStep
     DEF OnlyMoves, SameSubmission, Waits, Passes, Draws, Commits, Departs

LEMMA HoldersStep ==
  ASSUME IInv, IInv', LimitInv', NumberInv, [Next]_vars,
         NEW u \in Users, NEW e \in Exercises, NEW n \in Nat
  PROVE  Cardinality(Holders(u, e, n))' <= MaxOpen
<1> DEFINE H == Holders(u, e, n)
           o == OpenOf(u)
           count == Cardinality(SameExercise(u, e))
<1>1. Cardinality(H) <= MaxOpen /\ Cardinality(o') <= MaxOpen
  BY DEF NumberInv, HoldersBounded, LimitInv, OpenBounded
<1>2. H \in SUBSET Requests /\ H' \in SUBSET Requests /\ o' \in SUBSET Requests
  BY DEF Holders, OpenOf
<1>3. H' \subseteq H \/ H' \subseteq o'
  <2>1. CASE UNCHANGED <<req, attempts>>
    BY <2>1 DEF Holders
  <2>2. ASSUME NEW r \in Requests, OnlyMoves(r),
               Waits(r) \/ Passes(r) \/ Commits(r) \/ Departs(r)
        PROVE  H' \subseteq H
    BY <2>2 DEF OnlyMoves, Waits, Passes, Commits, Departs, SameSubmission, Holders
  <2>3. ASSUME NEW r \in Requests, OnlyMoves(r), Draws(r), r \in H'
        PROVE  H' \subseteq o'
    <3>1. req[r].user = u /\ req[r].exercise = e /\ n = count + 1
      BY <2>3 DEF Draws, Holders
    <3>2. count \in Nat
      BY CountGrows
    <3>3. ASSUME NEW q \in H'
          PROVE  q \in o'
      <4>1. q \in Requests /\ req'[q].user = u
        BY <3>3 DEF Holders
      <4>2. CASE q = r
        BY <2>3, <4>1, <4>2 DEF Draws, OpenOf, Open
      <4>3. CASE q # r
        <5>1. /\ req'[q] = req[q] /\ req[q].user = u /\ req[q].exercise = e
              /\ req[q].number = n /\ (req[q].pc = "insert" \/ q \in attempts)
          BY <2>3, <3>3, <4>1, <4>3 DEF OnlyMoves, Draws, Holders
        <5>2. q \notin attempts
          BY <3>1, <3>2, <4>1, <5>1 DEF NumberInv, NumbersCounted
        <5>3. QED
          BY <4>1, <5>1, <5>2 DEF OpenOf, Open
      <4>4. QED
        BY <4>2, <4>3
    <3>4. QED
      BY <3>3
  <2>4. ASSUME NEW r \in Requests, OnlyMoves(r), Draws(r), r \notin H'
        PROVE  H' \subseteq H
    BY <2>4 DEF OnlyMoves, Draws, Holders
  <2> HIDE DEF H, o
  <2>5. QED
    BY <2>1, <2>2, <2>3, <2>4, RequestStep
<1> HIDE DEF H, o
<1>4. Cardinality(H') <= MaxOpen
  <2>1. /\ Cardinality(H) \in Nat /\ Cardinality(H') \in Nat
        /\ Cardinality(o') \in Nat /\ MaxOpen \in Nat
    BY <1>2, CountIsNat, ConstantsAssumption DEF ConstantsAssumption
  <2>2. Cardinality(H') <= Cardinality(H) \/ Cardinality(H') <= Cardinality(o')
    BY <1>2, <1>3, CountSubset
  <2>3. QED
    BY <1>1, <2>1, <2>2
<1>5. QED
  BY <1>4 DEF H

LEMMA AlwaysNumberInv == Spec => []NumberInv
<1>1. Init => NumberInv
  <2>1. Init => NumbersCounted
    BY DEF Init, NumbersCounted, Blank, Entry
  <2>2. ASSUME Init, NEW u \in Users, NEW e \in Exercises, NEW n \in Nat
        PROVE  Cardinality(Holders(u, e, n)) <= MaxOpen
    <3>1. Holders(u, e, n) = {}
      BY <2>2 DEF Init, Holders, Blank, Entry
    <3>2. QED
      BY <3>1, FS_EmptySet, ConstantsAssumption DEF ConstantsAssumption
  <2>3. QED
    BY <2>1, <2>2 DEF NumberInv, HoldersBounded
<1>2. IInv /\ IInv' /\ LimitInv' /\ NumberInv /\ [Next]_vars => NumberInv'
  <2> SUFFICES ASSUME IInv, IInv', LimitInv', NumberInv, [Next]_vars
               PROVE  NumberInv'
    OBVIOUS
  <2>1. NumbersCounted'
    BY NumbersStep DEF NumberInv
  <2>2. HoldersBounded'
    BY HoldersStep DEF HoldersBounded
  <2>3. QED
    BY <2>1, <2>2 DEF NumberInv
<1>3. QED
  BY <1>1, <1>2, AlwaysIInv, AlwaysLimitInv, PTL DEF Spec

\* The attempts of an exercise that share a number are no more than the submit
\* requests a user can have open at one time.
THEOREM SharedByRacers == Spec => []NumberSharedOnlyByRacers
<1>1. IInv /\ NumberInv => NumberSharedOnlyByRacers
  <2> SUFFICES ASSUME IInv, NumberInv, NEW a \in attempts
               PROVE  Cardinality({b \in attempts : /\ req[b].user = req[a].user
                                                    /\ req[b].exercise = req[a].exercise
                                                    /\ req[b].number = req[a].number})
                         <= MaxOpen
    BY DEF NumberSharedOnlyByRacers
  <2> DEFINE shared == {b \in attempts : /\ req[b].user = req[a].user
                                         /\ req[b].exercise = req[a].exercise
                                         /\ req[b].number = req[a].number}
             H == Holders(req[a].user, req[a].exercise, req[a].number)
  <2>1. /\ req[a].user \in Users /\ req[a].exercise \in Exercises
        /\ req[a].number \in Nat /\ attempts \subseteq Requests
    BY DEF IInv, TypeOK, RequestsConsistent, Request
  <2>2. Cardinality(H) <= MaxOpen
    BY <2>1 DEF NumberInv, HoldersBounded
  <2>3. H \in SUBSET Requests /\ shared \subseteq H
    BY <2>1 DEF Holders
  <2> HIDE DEF H, shared
  <2>4. /\ Cardinality(shared) \in Nat /\ Cardinality(shared) <= Cardinality(H)
        /\ Cardinality(H) \in Nat /\ MaxOpen \in Nat
    BY <2>3, CountSubset, CountIsNat, ConstantsAssumption DEF ConstantsAssumption
  <2>5. QED
    BY <2>2, <2>4 DEF shared
<1>2. QED
  BY <1>1, AlwaysIInv, AlwaysNumberInv, PTL

\* So the attempts of an exercise have different numbers when the user submits
\* one request at a time.
THEOREM SerialNumbersDiffer ==
  ASSUME MaxOpen = 1
  PROVE  Spec => [](\A a, b \in attempts :
                        /\ req[a].user = req[b].user
                        /\ req[a].exercise = req[b].exercise
                        /\ req[a].number = req[b].number
                        => a = b)
<1> DEFINE Differ == \A a, b \in attempts :
                        /\ req[a].user = req[b].user
                        /\ req[a].exercise = req[b].exercise
                        /\ req[a].number = req[b].number
                        => a = b
<1>1. IInv /\ NumberInv => Differ
  <2> SUFFICES ASSUME IInv, NumberInv, NEW a \in attempts, NEW b \in attempts,
                      req[a].user = req[b].user, req[a].exercise = req[b].exercise,
                      req[a].number = req[b].number, a # b
               PROVE  FALSE
    OBVIOUS
  <2> DEFINE H == Holders(req[a].user, req[a].exercise, req[a].number)
  <2>1. /\ req[a].user \in Users /\ req[a].exercise \in Exercises
        /\ req[a].number \in Nat /\ attempts \subseteq Requests
    BY DEF IInv, TypeOK, RequestsConsistent, Request
  <2>2. Cardinality(H) <= 1
    BY <2>1 DEF NumberInv, HoldersBounded
  <2>3. H \in SUBSET Requests /\ a \in H /\ b \in H \ {a}
    BY <2>1 DEF Holders
  <2> HIDE DEF H
  <2>4. {b} \subseteq H \ {a}
    BY <2>3
  <2>5. Cardinality({b}) = 1
    BY FS_Singleton
  <2>6. Cardinality({b}) + 1 <= Cardinality(H) /\ Cardinality(H) \in Nat
    BY <2>3, <2>4, CountLeave, CountIsNat
  <2>7. QED
    BY <2>2, <2>5, <2>6
<1>2. QED
  BY <1>1, AlwaysIInv, AlwaysNumberInv, PTL
-----------------------------------------------------------------------------
(* Lost attempts.                                                          *)

\* A worker without a task has forgotten the last one.
IdleHasNoTask == \A w \in Workers : worker[w].pc = "idle" => worker[w].attempt = None

LostInv == IdleHasNoTask /\ LostOnlyByFaults

\* An attempt is lost by the step of a failure, and one at a time.
LoseNone == {a \in Requests : Lost(a)}' \subseteq {a \in Requests : Lost(a)}

LoseOne ==
    \E a \in Requests :
        {b \in Requests : Lost(b)}' \subseteq {b \in Requests : Lost(b)} \cup {a}

LEMMA SandboxShape ==
  ASSUME IInv, NEW w \in Workers, NEW x \in Finished \cup Interrupted, SandboxReturns(w, x)
  PROVE  /\ worker' = [worker EXCEPT ![w] = worker'[w]]
         /\ worker'[w].pc # "idle" /\ worker'[w].attempt = worker[w].attempt
<1> DEFINE t == [worker[w] EXCEPT
                    !.pc = IF x \in Interrupted THEN "finalize" ELSE "next",
                    !.run = @ + 1, !.seen = @ \cup {x}]
<1>1. worker' = [worker EXCEPT ![w] = t] /\ worker \in [Workers -> Task]
  BY DEF SandboxReturns, IInv, TypeOK
<1>2. t.pc \in {"finalize", "next"} /\ t.attempt = worker[w].attempt
  BY <1>1 DEF Task
<1> HIDE DEF t
<1>3. worker'[w] = t
  BY <1>1
<1>4. QED
  BY <1>1, <1>2, <1>3

LEMMA IdleStep ==
  ASSUME IInv, IdleHasNoTask, [Next]_vars
  PROVE  IdleHasNoTask'
<1>1. Idle.pc = "idle" /\ Idle.attempt = None /\ worker \in [Workers -> Task]
  BY DEF Idle, IInv, TypeOK
<1>2. ASSUME NEW w \in Workers, worker' = [worker EXCEPT ![w] = worker'[w]],
             worker'[w] = Idle \/ worker'[w].pc # "idle"
      PROVE  IdleHasNoTask'
  BY <1>1, <1>2 DEF IdleHasNoTask
<1>3. ASSUME NEW w \in Workers, NEW a \in Requests, Take(w, a)
      PROVE  IdleHasNoTask'
  BY <1>1, <1>2, <1>3 DEF Take
<1>4. ASSUME NEW w \in Workers, Begin(w) \/ Checkpoint(w)
      PROVE  IdleHasNoTask'
  <2>1. \/ worker' = [worker EXCEPT ![w] = Idle]
        \/ worker' = [worker EXCEPT ![w].pc = "next"]
        \/ worker' = [worker EXCEPT ![w].pc = "sandbox"]
    BY <1>4 DEF Begin, Checkpoint
  <2>2. QED
    BY <1>1, <1>2, <2>1 DEF Task
<1>5. ASSUME NEW w \in Workers, NEW x \in Finished \cup Interrupted, SandboxReturns(w, x)
      PROVE  IdleHasNoTask'
  <2>1. worker' = [worker EXCEPT ![w] = worker'[w]] /\ worker'[w].pc # "idle"
    BY <1>5, SandboxShape
  <2>2. QED
    BY <1>2, <2>1
<1>6. ASSUME NEW w \in Workers, worker' = [worker EXCEPT ![w] = Idle]
      PROVE  IdleHasNoTask'
  BY <1>1, <1>2, <1>6
<1>7. ASSUME UNCHANGED worker
      PROVE  IdleHasNoTask'
  BY <1>7 DEF IdleHasNoTask
<1>8. ASSUME NEW w \in Workers, WorkerStep(w) \/ WorkerFault(w)
      PROVE  IdleHasNoTask'
  <2>1. FinalizeInterrupted(w) => worker' = [worker EXCEPT ![w] = Idle]
    BY Zenon DEF FinalizeInterrupted
  <2>2. EvaluateAndFinalize(w) \/ WorkerFault(w) => worker' = [worker EXCEPT ![w] = Idle]
    BY DEF EvaluateAndFinalize, WorkerFault
  <2>3. QED
    BY <1>3, <1>4, <1>5, <1>6, <1>8, <2>1, <2>2 DEF WorkerStep
<1>9. QED
  BY <1>7, <1>8
     DEF Next, vars, SubmitLookup, SubmitStep, WebFault, Midnight, Redeliver,
         CancelCheck, CancelInsert, EnforceConcurrencyLimit,
         EnforceEntitlementQuota, NumberAttempt, InsertAttempt, Enqueue

LEMMA LostStep ==
  ASSUME IInv, IdleHasNoTask, [Next]_vars
  PROVE  \/ LoseNone /\ faults' \in {faults, faults + 1}
         \/ LoseOne /\ faults' = faults + 1
<1>0. /\ req \in [Requests -> Request] /\ queue \in [Requests -> 0..MaxCopies]
      /\ worker \in [Workers -> Task] /\ MaxCopies \in Nat
      /\ execution \in [Requests -> ResultType \cup {"none"}]
      /\ None \notin Requests /\ attempts \subseteq Requests
  BY ConstantsAssumption DEF ConstantsAssumption, IInv, TypeOK
\* A step of the requests: an answer leaves a message, only a fault leaves none.
<1>1. ASSUME NEW r \in Requests, Enqueue(r)
      PROVE  LoseNone
  <2>1. /\ queue'[r] > 0 /\ \A q \in Requests : q # r => queue'[q] = queue[q]
        /\ \A q \in Requests : q # r => req'[q] = req[q]
        /\ UNCHANGED <<attempts, execution, worker>>
    BY <1>0, <1>1 DEF Enqueue
  <2>2. QED
    BY <2>1 DEF LoseNone, Lost, OnItsWay
<1>2. ASSUME NEW r \in Requests, OnlyMoves(r), UNCHANGED <<attempts, execution, queue, worker>>
      PROVE  LoseOne
  BY <1>2 DEF OnlyMoves, LoseOne, Lost, OnItsWay
\* The queue and the workers: a message taken is a task begun.
<1>3. ASSUME NEW a \in Requests, Redeliver(a)
      PROVE  LoseNone
  <2>1. \A b \in Requests : queue[b] > 0 => queue'[b] > 0
    BY <1>0, <1>3 DEF Redeliver
  <2>2. QED
    BY <1>3, <2>1 DEF Redeliver, LoseNone, Lost, OnItsWay
<1>4. ASSUME NEW w \in Workers, NEW a \in Requests, Take(w, a)
      PROVE  LoseNone
  <2>1. worker[w].attempt = None
    BY <1>4 DEF Take, IdleHasNoTask
  <2>2. worker'[w].attempt = a /\ \A v \in Workers : v # w => worker'[v] = worker[v]
    BY <1>0, <1>4 DEF Take
  <2>3. \A b \in Requests : b # a => queue'[b] = queue[b]
    BY <1>0, <1>4 DEF Take
  <2>4. UNCHANGED <<req, attempts, execution>>
    BY <1>4 DEF Take
  <2>5. ASSUME NEW b \in Requests, OnItsWay(b)
        PROVE  OnItsWay(b)'
    BY <1>0, <2>1, <2>2, <2>3, <2>4, <2>5 DEF OnItsWay
  <2>6. QED
    BY <2>4, <2>5 DEF LoseNone, Lost
<1>5. ASSUME NEW w \in Workers, UNCHANGED <<req, attempts, queue>>,
             \A v \in Workers : v # w => worker'[v] = worker[v],
             \A b \in Requests : execution'[b] = "none" => execution[b] = "none",
             \/ worker'[w].attempt = worker[w].attempt
             \/ worker[w].attempt \in Requests => execution'[worker[w].attempt] # "none"
      PROVE  LoseNone
  <2>1. ASSUME NEW b \in Requests, execution'[b] = "none", OnItsWay(b)
        PROVE  OnItsWay(b)'
    BY <1>5, <2>1 DEF OnItsWay
  <2>2. QED
    BY <1>5, <2>1 DEF LoseNone, Lost
<1>6. ASSUME NEW w \in Workers, Begin(w) \/ Checkpoint(w)
      PROVE  LoseNone
  <2>1. /\ UNCHANGED <<req, attempts, queue, execution>>
        /\ \A v \in Workers : v # w => worker'[v] = worker[v]
    BY <1>0, <1>6 DEF Begin, Checkpoint
  <2>2. worker'[w].attempt = worker[w].attempt \/ Settled(w)
    <3>1. \/ Settled(w)
          \/ worker' = [worker EXCEPT ![w].pc = "next"]
          \/ worker' = [worker EXCEPT ![w].pc = "sandbox"]
      BY <1>6 DEF Begin, Checkpoint
    <3>2. QED
      BY <1>0, <3>1 DEF Task
  <2>3. QED
    BY <1>5, <2>1, <2>2 DEF Settled
<1>7. ASSUME NEW w \in Workers, NEW x \in Finished \cup Interrupted, SandboxReturns(w, x)
      PROVE  LoseNone
  <2>1. UNCHANGED <<req, attempts, queue, execution>>
    BY <1>7 DEF SandboxReturns
  <2>2. /\ \A v \in Workers : v # w => worker'[v] = worker[v]
        /\ worker'[w].attempt = worker[w].attempt
    BY <1>0, <1>7, SandboxShape
  <2>3. QED
    BY <1>5, <2>1, <2>2
<1>8. ASSUME NEW w \in Workers, FinalizeInterrupted(w) \/ EvaluateAndFinalize(w)
      PROVE  LoseNone
  <2> DEFINE a == worker[w].attempt
  <2>1. a \in Requests
    BY <1>8, WorkersWorkOnRequests
  <2>2. /\ UNCHANGED <<req, attempts, queue>>
        /\ worker' = [worker EXCEPT ![w] = Idle]
    <3>1. FinalizeInterrupted(w) => <2>2
      BY Zenon DEF FinalizeInterrupted
    <3>2. EvaluateAndFinalize(w) => <2>2
      BY DEF EvaluateAndFinalize
    <3>3. QED
      BY <1>8, <3>1, <3>2
  <2>3. Settles(a) \/ UNCHANGED <<execution, evaluation>>
    BY <1>8, <2>1, WriteSettles
  <2>4. \A b \in Requests : execution'[b] = "none" => execution[b] = "none"
    BY <1>0, <2>3 DEF Settles
  <2>5. execution'[a] # "none"
    <3>1. CASE execution[a] # "none"
      BY <2>1, <2>4, <3>1
    <3>2. CASE execution[a] = "none"
      <4>1. ~UNCHANGED execution
        <5>1. FinalizeInterrupted(w) => execution'[a] # "none"
          <6> DEFINE i == CHOOSE o \in Interrupted : o \in worker[w].seen
          <6>1. FinalizeInterrupted(w) => i \in Interrupted
            BY DEF IInv, WorkConsistent, FinalizeInterrupted
          <6>2. FinalizeInterrupted(w) => execution' = [execution EXCEPT ![a] = i]
            BY <3>2 DEF FinalizeInterrupted, Settled
          <6> HIDE DEF i
          <6>3. QED
            BY <1>0, <2>1, <6>1, <6>2 DEF Interrupted
        <5>2. EvaluateAndFinalize(w) => execution'[a] # "none"
          <6> DEFINE result == ResultOf(worker[w].seen)
          <6>1. result # "none"
            BY DEF ResultOf
          <6>2. EvaluateAndFinalize(w) => execution' = [execution EXCEPT ![a] = result]
            BY <3>2 DEF EvaluateAndFinalize, Settled
          <6> HIDE DEF result
          <6>3. QED
            BY <1>0, <2>1, <6>1, <6>2
        <5>3. QED
          BY <1>8, <3>2, <5>1, <5>2
      <4>2. QED
        BY <1>0, <2>1, <2>3, <4>1 DEF Settles, ResultType, Graded
    <3>3. QED
      BY <3>1, <3>2
  <2>6. \A v \in Workers : v # w => worker'[v] = worker[v]
    BY <1>0, <2>2
  <2> HIDE DEF a
  <2>7. QED
    BY <1>5, <2>2, <2>4, <2>5, <2>6 DEF a
<1>9. ASSUME NEW w \in Workers, WorkerFault(w)
       PROVE  LoseOne
  <2>1. /\ \A v \in Workers : v # w => worker'[v] = worker[v]
        /\ UNCHANGED <<req, attempts, execution, queue>>
        /\ worker[w].attempt \in Requests
    BY <1>0, <1>9 DEF WorkerFault, IInv, WorkConsistent
  <2>2. QED
    BY <2>1 DEF LoseOne, Lost, OnItsWay
<1>10. ASSUME UNCHANGED <<req, attempts, queue, worker>>,
              \A b \in Requests : execution'[b] = "none" => execution[b] = "none"
       PROVE  LoseNone
  BY <1>10 DEF LoseNone, Lost, OnItsWay
<1>11. ASSUME NEW r \in Requests, SubmitStep(r) \/ WebFault(r)
       PROVE  \/ LoseNone /\ faults' = faults
              \/ LoseOne /\ faults' = faults + 1
  <2>1. ASSUME WebFault(r)
        PROVE  LoseOne /\ faults' = faults + 1
    <3>1. OnlyMoves(r) /\ UNCHANGED <<attempts, execution, queue, worker>>
      BY <1>0, <2>1 DEF WebFault, Refuse, Advance, OnlyMoves
    <3>2. QED
      BY <1>2, <2>1, <3>1 DEF WebFault
  <2>2. Enqueue(r) => LoseNone /\ faults' = faults
    BY <1>1 DEF Enqueue
  <2>3. ASSUME \/ EnforceConcurrencyLimit(r) \/ EnforceEntitlementQuota(r)
               \/ NumberAttempt(r) \/ InsertAttempt(r)
        PROVE  LoseNone /\ faults' = faults
    <3>1. UNCHANGED <<execution, queue, worker, faults>>
      BY <2>3 DEF EnforceConcurrencyLimit, EnforceEntitlementQuota, NumberAttempt,
                  InsertAttempt
    <3>2. OnlyMoves(r) /\ r \notin attempts /\ req[r].pc # "committed"
      BY <1>0, <2>3 DEF EnforceConcurrencyLimit, EnforceEntitlementQuota, NumberAttempt,
             InsertAttempt, Refuse, Advance, OnlyMoves, IInv, RequestsConsistent, Open
    <3>3. \/ UNCHANGED attempts
          \/ attempts' = attempts \cup {r} /\ req'[r].pc = "committed"
      <4>1. InsertAttempt(r) => \/ UNCHANGED attempts
                                \/ attempts' = attempts \cup {r} /\ Advance(r, "committed")
        BY DEF InsertAttempt
      <4>2. Advance(r, "committed") => req'[r].pc = "committed"
        BY <1>0, AdvanceShape DEF Open
      <4>3. QED
        BY <2>3, <4>1, <4>2 DEF EnforceConcurrencyLimit, EnforceEntitlementQuota,
                                NumberAttempt
    <3>4. QED
      BY <3>1, <3>2, <3>3 DEF OnlyMoves, LoseNone, Lost, OnItsWay
  <2>4. QED
    BY <1>11, <2>1, <2>2, <2>3 DEF SubmitStep
<1>12. ASSUME NEW r \in Requests, NEW u \in Users, NEW e \in Exercises,
              NEW k \in Keys, SubmitLookup(r, u, e, k)
       PROVE  LoseNone /\ faults' = faults
  <2>1. OnlyMoves(r) /\ r \notin attempts
    BY <1>0, <1>12 DEF SubmitLookup, OnlyMoves, IInv, RequestsConsistent
  <2>2. UNCHANGED <<attempts, execution, queue, worker, faults>>
    BY <1>12 DEF SubmitLookup
  <2>3. QED
    BY <2>1, <2>2 DEF OnlyMoves, LoseNone, Lost, OnItsWay
<1>13. ASSUME NEW w \in Workers, WorkerStep(w) \/ WorkerFault(w)
       PROVE  \/ LoseNone /\ faults' = faults
              \/ LoseOne /\ faults' = faults + 1
  <2>1. WorkerStep(w) => UNCHANGED faults
    <3>1. FinalizeInterrupted(w) => UNCHANGED faults
      BY Zenon DEF FinalizeInterrupted
    <3>2. \A x \in Finished \cup Interrupted : SandboxReturns(w, x) => UNCHANGED faults
      BY DEF SandboxReturns
    <3>3. QED
      BY <3>1, <3>2 DEF WorkerStep, Take, Begin, Checkpoint, EvaluateAndFinalize
  <2>2. WorkerStep(w) => LoseNone
    BY <1>4, <1>6, <1>7, <1>8 DEF WorkerStep
  <2>3. WorkerFault(w) => LoseOne /\ faults' = faults + 1
    BY <1>9 DEF WorkerFault
  <2>4. QED
    BY <1>13, <2>1, <2>2, <2>3
<1>14. ASSUME NEW a \in Requests, Redeliver(a) \/ CancelCheck(a) \/ CancelInsert(a)
       PROVE  LoseNone /\ faults' \in {faults, faults + 1}
  <2>1. Redeliver(a) => LoseNone /\ faults' = faults + 1
    BY <1>3 DEF Redeliver
  <2>2. CancelCheck(a) => LoseNone /\ faults' = faults
    BY <1>10 DEF CancelCheck
  <2>3. CancelInsert(a) => LoseNone /\ faults' = faults
    <3>1. CancelInsert(a) =>
             \A b \in Requests : execution'[b] = "none" => execution[b] = "none"
      BY <1>0 DEF CancelInsert
    <3>2. QED
      BY <1>10, <3>1 DEF CancelInsert
  <2>4. QED
    BY <1>14, <2>1, <2>2, <2>3
<1>15. Midnight \/ UNCHANGED vars => LoseNone /\ faults' = faults
  BY <1>10 DEF Midnight, vars
<1>16. QED
  BY <1>11, <1>12, <1>13, <1>14, <1>15 DEF Next

LEMMA AlwaysLostInv == Spec => []LostInv
<1> DEFINE L == {a \in Requests : Lost(a)}
<1>1. Init => LostInv
  <2>1. Init => L = {} /\ faults = 0 /\ IdleHasNoTask
    BY DEF Init, Lost, IdleHasNoTask, Idle
  <2>2. Cardinality({}) = 0
    BY FS_EmptySet
  <2> HIDE DEF L
  <2>3. QED
    BY <2>1, <2>2 DEF L, LostInv, LostOnlyByFaults
<1>2. IInv /\ LostInv /\ [Next]_vars => LostInv'
  <2> SUFFICES ASSUME IInv, LostInv, [Next]_vars
               PROVE  LostInv'
    OBVIOUS
  <2>1. faults \in Nat /\ Cardinality(L) <= faults
    BY BoundsAreNat DEF IInv, TypeOK, LostInv, LostOnlyByFaults
  <2>2. L \in SUBSET Requests /\ L' \in SUBSET Requests
    OBVIOUS
  <2>3. \/ L' \subseteq L /\ faults' \in {faults, faults + 1}
        \/ (\E a \in Requests : L' \subseteq L \cup {a}) /\ faults' = faults + 1
    BY LostStep DEF LostInv, LoseNone, LoseOne
  <2> HIDE DEF L
  <2>4. Cardinality(L) \in Nat /\ Cardinality(L') \in Nat
    BY <2>2, CountIsNat
  <2>5. CASE L' \subseteq L /\ faults' \in {faults, faults + 1}
    <3>1. Cardinality(L') <= Cardinality(L)
      BY <2>2, <2>5, CountSubset
    <3>2. QED
      BY <2>1, <2>4, <2>5, <3>1, IdleStep DEF L, LostInv, LostOnlyByFaults
  <2>6. CASE (\E a \in Requests : L' \subseteq L \cup {a}) /\ faults' = faults + 1
    <3>1. Cardinality(L') <= Cardinality(L) + 1
      BY <2>2, <2>6, CountJoin
    <3>2. QED
      BY <2>1, <2>4, <2>6, <3>1, IdleStep DEF L, LostInv, LostOnlyByFaults
  <2>7. QED
    BY <2>3, <2>5, <2>6
<1>3. QED
  BY <1>1, <1>2, AlwaysIInv, PTL DEF Spec

\* Each failure of a web process, a worker or the broker loses one attempt at
\* most, and nothing else loses any.
THEOREM LostByFaults == Spec => []LostOnlyByFaults
<1>1. LostInv => LostOnlyByFaults
  BY DEF LostInv
<1>2. QED
  BY <1>1, AlwaysLostInv, PTL
=============================================================================
