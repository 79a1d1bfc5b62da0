-------------------------------- MODULE Review --------------------------------
(***************************************************************************)
(* The review component (apps/review): one student's review sessions, the  *)
(* answers to their items, and the worker transactions that record the     *)
(* evaluation of an answer in its item and decide the session.             *)
(*                                                                         *)
(* An item is a session and a concept; its exercise attempt is named by    *)
(* the idempotency key it was submitted with.  Requests and worker         *)
(* transactions interleave at their statements and see committed rows.     *)
(***************************************************************************)
EXTENDS Naturals, FiniteSets

CONSTANTS
    MaxSessions,   \* sessions the student creates
    Concepts,      \* the concepts that have a published exercise
    Keys,          \* idempotency keys the student's answers carry
    MaxRequests,   \* answer requests, each made once, in the order of their numbers
    Workers,       \* Celery worker processes
    None

ASSUME ReviewAssumption ==
    /\ MaxSessions \in Nat /\ MaxRequests \in Nat
    /\ IsFiniteSet(Keys) /\ IsFiniteSet(Concepts)
    /\ None \notin Keys \cup ((1..MaxSessions) \X Concepts)
    /\ None \notin {"pass", "fail", "completed", "remediation"}

VARIABLES
    status,        \* review_sessions.status, "none" where there is no row
    items,         \* the rows of review_items
    link,          \* review_items.attempt, by its key
    outcome,       \* review_items.outcome
    run,           \* exercise attempts: open, or how they ended
    made,          \* the item each of them was submitted for
    request,       \* the answer requests and what each one has read
    handler,       \* the evaluation transaction each worker has open
    retrying,      \* the items a retry has yet to insert in its new session
    raced,         \* sessions for which two such transactions overlapped
    crossed        \* items for which two answer requests overlapped

vars == <<status, items, link, outcome, run, made, request, handler, retrying, raced, crossed>>
-----------------------------------------------------------------------------
Sessions == 1..MaxSessions
Requests == 1..MaxRequests
Item == Sessions \X Concepts
Verdicts == {"pass", "fail"}
Decided == {"completed", "remediation"}

NewRequest == [pc |-> "new", item |-> None, key |-> None]
IdleHandler == [pc |-> "idle", key |-> None, item |-> None, verdict |-> None,
                decision |-> None]

Init ==
    /\ status = [s \in Sessions |-> "none"]
    /\ items = {}
    /\ link = [i \in Item |-> None]
    /\ outcome = [i \in Item |-> None]
    /\ run = [k \in Keys |-> "none"]
    /\ made = [k \in Keys |-> None]
    /\ request = [q \in Requests |-> NewRequest]
    /\ handler = [w \in Workers |-> IdleHandler]
    /\ retrying = [s \in Sessions |-> {}]
    /\ raced = {}
    /\ crossed = {}

Fresh(s) == status[s] = "none" /\ \A r \in Sessions : status[r] = "none" => s <= r
ItemsOf(s) == {i \in items : i[1] = s}
-----------------------------------------------------------------------------
\* create_session_for_trigger: the session and an item for each weak concept,
\* or for each concept of the module, that has an exercise; nothing without.
CreateSession(s, S) ==
    /\ Fresh(s)
    /\ S # {}
    /\ status' = [status EXCEPT ![s] = "active"]
    /\ items' = items \cup ({s} \X S)
    /\ UNCHANGED <<link, outcome, run, made, request, handler, retrying, raced, crossed>>

\* retry_failed_items: no transaction, so the new session is visible before
\* its items are.
RetryCreate(s, failed) ==
    /\ status[failed] = "remediation"
    /\ Fresh(s)
    /\ \E i \in ItemsOf(failed) : outcome[i] = "fail"
    /\ status' = [status EXCEPT ![s] = "active"]
    /\ retrying' = [retrying EXCEPT ![s] =
          {<<s, i[2]>> : i \in {j \in ItemsOf(failed) : outcome[j] = "fail"}}]
    /\ UNCHANGED <<items, link, outcome, run, made, request, handler, raced, crossed>>

\* Then its items, one for each failed concept that still has a published
\* exercise; none if the process fails first.
RetryItems(s) ==
    /\ retrying[s] # {}
    /\ \E S \in SUBSET retrying[s] : items' = items \cup S
    /\ retrying' = [retrying EXCEPT ![s] = {}]
    /\ UNCHANGED <<status, link, outcome, run, made, request, handler, raced, crossed>>
-----------------------------------------------------------------------------
(* submit_item_answer *)

\* The answer, an error or a refusal has gone back to the student.
End(q) == request' = [request EXCEPT ![q] = [NewRequest EXCEPT !.pc = "over"]]

Crossing(i) == \E p \in Requests : request[p].pc = "write" /\ request[p].item = i

\* Mutant: the attempt the item has already is not looked at.
AnswerReadAgain(q, i, k) ==
    /\ request[q].pc = "new"
    /\ \A p \in 1..(q - 1) : request[p].pc # "new"
    /\ i \in items
    /\ IF status[i[1]] # "active" THEN End(q)
       ELSE request' = [request EXCEPT ![q] = [pc |-> "write", item |-> i, key |-> k]]
    /\ crossed' = IF Crossing(i) THEN crossed \cup {i} ELSE crossed
    /\ UNCHANGED <<status, items, link, outcome, run, made, handler, retrying, raced>>

\* An inactive session refuses; an item with an attempt is returned as it is.
AnswerRead(q, i, k) ==
    /\ request[q].pc = "new"
    /\ \A p \in 1..(q - 1) : request[p].pc # "new"
    /\ i \in items
    /\ IF status[i[1]] # "active" \/ link[i] # None THEN End(q)
       ELSE request' = [request EXCEPT ![q] = [pc |-> "write", item |-> i, key |-> k]]
    /\ crossed' = IF Crossing(i) THEN crossed \cup {i} ELSE crossed
    /\ UNCHANGED <<status, items, link, outcome, run, made, handler, retrying, raced>>

\* A worker's transaction has written the item and holds its row.
Locked(i) == \E w \in Workers : handler[w].pc = "commit" /\ handler[w].item = i

\* review_items.attempt is one-to-one.
LinkedElsewhere(k, i) == \E j \in items \ {i} : link[j] = k

\* execution's submit finds the attempt of a key used before or inserts one,
\* and the item's link is overwritten, whatever it is by now; a race of two
\* inserts of a key ends as AnswerAbort.
AnswerWrite(q) ==
    LET i == request[q].item
        k == request[q].key
    IN  /\ request[q].pc = "write"
        /\ ~Locked(i)
        /\ End(q)
        /\ IF LinkedElsewhere(k, i)
           THEN UNCHANGED <<link, run, made>>
           ELSE /\ link' = [link EXCEPT ![i] = k]
                /\ IF run[k] # "none" THEN UNCHANGED <<run, made>>
                   ELSE /\ run' = [run EXCEPT ![k] = "open"]
                        /\ made' = [made EXCEPT ![k] = i]
        /\ UNCHANGED <<status, items, outcome, handler, retrying, raced, crossed>>

\* A limit of execution's submit, another error or a crash.
AnswerAbort(q) ==
    /\ request[q].pc = "write"
    /\ End(q)
    /\ UNCHANGED <<status, items, link, outcome, run, made, handler, retrying, raced, crossed>>
-----------------------------------------------------------------------------
(* The worker's transaction: the handler of post_save finds the item of    *)
(* the evaluated attempt, saves its outcome and decides the session.       *)

InHand(k) == \E w \in Workers : handler[w].key = k

ItemOf(k) == {i \in items : link[i] = k}

EvaluateBegin(w, k, verdict) ==
    /\ handler[w].pc = "idle"
    /\ run[k] = "open" /\ ~InHand(k)
    /\ \/ /\ ItemOf(k) = {}
          /\ run' = [run EXCEPT ![k] = verdict]
          /\ UNCHANGED handler
       \/ \E i \in ItemOf(k) :
             /\ handler' = [handler EXCEPT ![w] =
                   [pc |-> "save", key |-> k, item |-> i, verdict |-> verdict,
                    decision |-> None]]
             /\ UNCHANGED run
    /\ UNCHANGED <<status, items, link, outcome, made, request, retrying, raced, crossed>>

\* Mutants of Decision: the status of this item alone, items without an
\* outcome passed over, and the decision taken before the outcome is saved.
DecisionOnOwnOutcome(i, verdict) ==
    IF \E j \in ItemsOf(i[1]) \ {i} : outcome[j] = None THEN None
    ELSE IF verdict = "pass" THEN "completed" ELSE "remediation"

DecisionIgnoringNull(i, verdict) ==
    IF verdict = "pass" /\ \A j \in ItemsOf(i[1]) \ {i} : outcome[j] # "fail"
    THEN "completed" ELSE "remediation"

DecisionBeforeSave(i, verdict) ==
    IF \E j \in ItemsOf(i[1]) : outcome[j] = None THEN None
    ELSE IF \A j \in ItemsOf(i[1]) : outcome[j] = "pass" THEN "completed"
    ELSE "remediation"

\* evaluate_session_completion on committed outcomes and the one just saved.
Decision(i, verdict) ==
    LET others == ItemsOf(i[1]) \ {i}
    IN  IF \E j \in others : outcome[j] = None THEN None
        ELSE IF verdict = "pass" /\ \A j \in others : outcome[j] = "pass"
        THEN "completed" ELSE "remediation"

EvaluateSave(w) ==
    LET h == handler[w]
    IN  /\ h.pc = "save"
        /\ ~Locked(h.item)
        /\ handler' = [handler EXCEPT ![w].pc = "commit",
                                      ![w].decision = Decision(h.item, h.verdict)]
        /\ UNCHANGED <<status, items, link, outcome, run, made, request, retrying, raced, crossed>>

EvaluateCommit(w) ==
    LET h == handler[w]
        s == h.item[1]
    IN  /\ h.pc = "commit"
        /\ run' = [run EXCEPT ![h.key] = h.verdict]
        /\ outcome' = [outcome EXCEPT ![h.item] = h.verdict]
        /\ status' = IF h.decision = None THEN status
                     ELSE [status EXCEPT ![s] = h.decision]
        /\ raced' = IF \E v \in Workers \ {w} : handler[v].pc = "commit"
                                                /\ handler[v].item[1] = s
                    THEN raced \cup {s} ELSE raced
        /\ handler' = [handler EXCEPT ![w] = IdleHandler]
        /\ UNCHANGED <<items, link, made, request, retrying, crossed>>

\* A run that times out, fails in the sandbox, is cancelled or is lost ends
\* without an evaluation, and no handler runs for it.
EndUngraded(k) ==
    /\ run[k] = "open" /\ ~InHand(k)
    /\ run' = [run EXCEPT ![k] = "ungraded"]
    /\ UNCHANGED <<status, items, link, outcome, made, request, handler, retrying, raced, crossed>>
-----------------------------------------------------------------------------
WorkerStep(w) ==
    \/ \E k \in Keys, verdict \in Verdicts : EvaluateBegin(w, k, verdict)
    \/ EvaluateSave(w)
    \/ EvaluateCommit(w)

Next ==
    \/ \E s \in Sessions, S \in SUBSET Concepts : CreateSession(s, S)
    \/ \E s, failed \in Sessions : RetryCreate(s, failed)
    \/ \E s \in Sessions : RetryItems(s)
    \/ \E q \in Requests, i \in Item, k \in Keys : AnswerRead(q, i, k)
    \/ \E q \in Requests : AnswerWrite(q) \/ AnswerAbort(q)
    \/ \E w \in Workers : WorkerStep(w)
    \/ \E k \in Keys : EndUngraded(k)

Spec == Init /\ [][Next]_vars

\* Workers go on; students and retries need not.
FairSpec == Spec /\ \A w \in Workers : WF_vars(WorkerStep(w))
-----------------------------------------------------------------------------
\* Rows, requests and transactions have the shapes the code gives them.
TypeOK ==
    /\ status \in [Sessions -> Decided \cup {"none", "active"}]
    /\ items \subseteq Item
    /\ link \in [Item -> Keys \cup {None}]
    /\ outcome \in [Item -> Verdicts \cup {None}]
    /\ run \in [Keys -> Verdicts \cup {"none", "open", "ungraded"}]
    /\ made \in [Keys -> Item \cup {None}]
    /\ request \in [Requests -> [pc : {"new", "write", "over"},
                                 item : Item \cup {None}, key : Keys \cup {None}]]
    /\ handler \in [Workers -> [pc : {"idle", "save", "commit"},
                                key : Keys \cup {None}, item : Item \cup {None},
                                verdict : Verdicts \cup {None},
                                decision : Decided \cup {None}]]
    /\ retrying \in [Sessions -> SUBSET Item]
    /\ raced \subseteq Sessions /\ crossed \subseteq Item

\* A session is decided exactly when its items all have an outcome, completed
\* exactly when all have passed, however often answers are repeated and in
\* whatever order evaluations come; only overlapping evaluations break it.
DecisionMatchesItems ==
    \A s \in Sessions \ raced :
        /\ status[s] \in Decided
              <=> ItemsOf(s) # {} /\ \A i \in ItemsOf(s) : outcome[i] # None
        /\ status[s] = "completed"
              <=> ItemsOf(s) # {} /\ \A i \in ItemsOf(s) : outcome[i] = "pass"

RunsFor(i) == {k \in Keys : made[k] = i}
RunTwice(s) == \E i \in ItemsOf(s) : Cardinality(RunsFor(i)) > 1

\* An item that was answered is not submitted and run again, whatever keys
\* the answers carry, unless two answers to it overlapped.
ItemRunsOnce == \A i \in Item \ crossed : Cardinality(RunsFor(i)) <= 1

\* A completed session stays completed (the remediation of an assessment
\* relies on it), unless two answers to one of its items or two evaluations of
\* the session overlapped.
CompletedIsFinal ==
    [][\A s \in Sessions : status[s] = "completed" =>
          \/ status'[s] = "completed"
          \/ s \in raced'
          \/ ItemsOf(s) \cap crossed # {}]_vars

Unevaluated(i, k) == run[k] = "ungraded" \/ made[k] # i

\* When every item of a session has an answer the session is decided, unless
\* an answer's run ends without an evaluation or is the run of another item,
\* an item is run twice, or evaluations overlap.
AnsweredSessionIsDecided ==
    \A s \in Sessions :
        (ItemsOf(s) # {} /\ \A i \in ItemsOf(s) : link[i] # None) ~>
            \/ status[s] \in Decided
            \/ \E i \in ItemsOf(s), k \in Keys : link[i] = k /\ Unevaluated(i, k)
            \/ s \in raced \/ RunTwice(s)
=============================================================================
