--------------------------- MODULE AssessmentProofs ---------------------------
(***************************************************************************)
(* Proofs about Assessment, for any number of items, prefixes, requests,   *)
(* workers and attempts.                                                   *)
(***************************************************************************)
EXTENDS Assessment, FiniteSetTheorems, TLAPS

StartRow == [pc : {"new", "insert", "started", "refused", "remediation"}, number : Numbers]
SubmissionRow == [pc : {"new", "answering", "done", "refused"}, attempt : Numbers,
                  prefix : Prefixes \cup {None}, todo : SUBSET Items, made : SUBSET Items]
HandlerRow == [pc : {"idle", "commit"}, prefix : Prefixes \cup {None},
               item : Items \cup {None}, attempt : Numbers,
               outcome : Verdicts \cup {None}, decision : Decided \cup {None}]

Failing(n) == \E i \in Answered(n) : Outcome(n, i) = "fail"

\* Attempts are made in order, each after the failure of all before it, and a
\* failure has a failed answer.
ResultsFit ==
    /\ \E m \in 0..(MaxAttempts + 1) : Made = 1..m
    /\ \A n, m \in Numbers : n < m /\ result[m] # "none" => result[n] = "failed"
    /\ \A n \in Numbers : result[n] = "failed" => Failing(n)
    /\ \A n \in Numbers : remediation[n] = "none"

StartsFit ==
    \A t \in Starters : start[t].pc = "insert" =>
        \A n \in Numbers : n < start[t].number => result[n] = "failed"

\* A linked run exists, belongs to an attempt that exists, and to no other.
LinksFit ==
    /\ \A n \in Numbers, i \in Items :
          response[n][i] # None => result[n] # "none" /\ run[response[n][i]][i] # "none"
    /\ \A n, m \in Numbers, i \in Items :
          response[n][i] # None /\ response[n][i] = response[m][i] => n = m

\* The keys a request has written are free until it commits.
SubmissionFits(m) ==
    /\ m.pc = "answering" => m.prefix \in Prefixes /\ result[m.attempt] # "none"
    /\ \A i \in m.made : /\ m.pc = "answering"
                         /\ response[m.attempt][i] = None
                         /\ run[m.prefix][i] = "none"

SubmissionsApart(m, k) ==
    \A i \in m.made \cap k.made : m.attempt # k.attempt /\ m.prefix # k.prefix

SubmissionsFit ==
    /\ \A s \in Submissions : SubmissionFits(submission[s])
    /\ \A s, q \in Submissions : s # q => SubmissionsApart(submission[s], submission[q])

\* What an open evaluation has read stays true as far as its decision needs it.
HandlerFits(h) ==
    /\ h.prefix \in Prefixes /\ h.item \in Items /\ h.outcome \in Verdicts
    /\ response[h.attempt][h.item] = h.prefix
    /\ run[h.prefix][h.item] = "open"
    /\ h.decision = "passed" => result[h.attempt] # "failed"
    /\ h.decision = "failed" => h.outcome = "fail" \/ Failing(h.attempt)
    /\ (h.decision = None /\ h.attempt \notin raced) =>
          \E i \in Answered(h.attempt) \ {h.item} : Outcome(h.attempt, i) \notin Verdicts

\* Of two open evaluations of one attempt each sees the other's answer open,
\* and one of them at most decides.
HandlersApart(g, h) ==
    /\ <<g.prefix, g.item>> # <<h.prefix, h.item>>
    /\ g.attempt = h.attempt => g.decision = None \/ h.decision = None

HandlersFit ==
    /\ \A w \in Workers : handler[w].pc = "commit" => HandlerFits(handler[w])
    /\ \A v, w \in Workers :
          (v # w /\ handler[v].pc = "commit" /\ handler[w].pc = "commit")
          => HandlersApart(handler[v], handler[w])

AInv ==
    /\ TypeOK
    /\ ResultsFit
    /\ StartsFit
    /\ LinksFit
    /\ SubmissionsFit
    /\ HandlersFit
    /\ UndecidedOnlyByRace
-----------------------------------------------------------------------------
LEMMA Settings ==
  /\ MaxAttempts \in Nat /\ Limit \in Nat /\ 1 \in Numbers /\ 0 \notin Numbers
  /\ None \notin Prefixes /\ None # "passed" /\ None # "failed"
  /\ Numbers \subseteq Nat
BY AssessmentAssumption DEF AssessmentAssumption, Numbers

\* TypeOK with the names of the row sets.
LEMMA Types ==
  TypeOK <=>
    /\ start \in [Starters -> StartRow]
    /\ result \in [Numbers -> Decided \cup {"none", "in_progress"}]
    /\ remediation \in [Numbers -> {"none", "required", "completed"}]
    /\ submission \in [Submissions -> SubmissionRow]
    /\ response \in [Numbers -> [Items -> Prefixes \cup {None}]]
    /\ run \in [Prefixes -> [Items -> Verdicts \cup {"none", "open", "ungraded"}]]
    /\ handler \in [Workers -> HandlerRow]
    /\ raced \subseteq Numbers
BY DEF TypeOK, StartRow, SubmissionRow, HandlerRow

LEMMA AInitInv == Init => AInv
<1> SUFFICES ASSUME Init PROVE AInv
  OBVIOUS
<1>1. TypeOK
  <2>1. NewSubmission \in SubmissionRow /\ IdleHandler \in HandlerRow
    BY Settings DEF NewSubmission, IdleHandler, SubmissionRow, HandlerRow
  <2>2. [pc |-> "new", number |-> 1] \in StartRow
    BY Settings DEF StartRow
  <2>3. QED
    BY <2>1, <2>2, Types DEF Init
<1>2. ResultsFit /\ StartsFit
  <2>1. Made = {} /\ {} = 1..0 /\ 0 \in 0..(MaxAttempts + 1)
    BY Settings DEF Init, Made
  <2>2. QED
    BY <2>1 DEF Init, ResultsFit, StartsFit
<1>3. LinksFit /\ SubmissionsFit /\ HandlersFit
  BY DEF Init, LinksFit, SubmissionsFit, SubmissionFits, SubmissionsApart, HandlersFit,
         NewSubmission, IdleHandler
<1>4. UndecidedOnlyByRace
  BY DEF Init, UndecidedOnlyByRace, Resolved, Answered
<1>5. QED
  BY <1>1, <1>2, <1>3, <1>4 DEF AInv
-----------------------------------------------------------------------------
LEMMA StartAttemptInv == ASSUME AInv, NEW t \in Starters, StartAttempt(t) PROVE AInv'
<1>1. /\ TypeOK /\ ResultsFit /\ StartsFit
      /\ UNCHANGED <<result, remediation, submission, response, run, handler, raced>>
  BY DEF AInv, StartAttempt
<1>2. PICK m \in 0..(MaxAttempts + 1) : Made = 1..m
  BY <1>1 DEF ResultsFit
<1>3. Count = m
  BY <1>2, FS_Interval, Settings DEF Count
<1>4. PICK pc \in {"insert", "refused", "remediation"}, n \in Numbers :
         /\ start' = [start EXCEPT ![t] = [pc |-> pc, number |-> n]]
         /\ pc = "insert" => n = m + 1 /\ ~LatestInProgress /\ ~AnyPassed
  <2>1. CASE LatestInProgress \/ AnyPassed
    BY <2>1, Settings DEF StartAttempt, Answer
  <2>2. CASE ~(LatestInProgress \/ AnyPassed) /\ Count < MaxAttempts
    <3>1. m + 1 \in Numbers
      BY <1>3, <2>2, Settings DEF Numbers
    <3>2. QED
      BY <1>3, <2>2, <3>1 DEF StartAttempt, Answer
  <2>3. CASE ~(LatestInProgress \/ AnyPassed) /\ ~(Count < MaxAttempts)
    <3>1. m \in Numbers /\ remediation[Count] # "completed"
      BY <1>1, <1>3, <2>3, AssessmentAssumption DEF ResultsFit, Numbers, AssessmentAssumption
    <3>2. QED
      BY <2>3, <3>1, Settings DEF StartAttempt, Answer
  <2>4. QED
    BY <2>1, <2>2, <2>3
<1>5. TypeOK'
  <2>1. [pc |-> pc, number |-> n] \in StartRow
    BY DEF StartRow
  <2>2. QED
    BY <1>1, <1>4, <2>1, Types DEF TypeOK, StartRow
<1>6. StartsFit'
  <2> SUFFICES ASSUME NEW u \in Starters, start'[u].pc = "insert",
                      NEW k \in Numbers, k < start'[u].number
               PROVE  result[k] = "failed"
    BY <1>1 DEF StartsFit
  <2>1. CASE u # t
    BY <1>1, <1>4, <2>1 DEF StartsFit, TypeOK
  <2>2. CASE u = t
    <3>1. k \in 1..m /\ ~LatestInProgress /\ ~AnyPassed /\ m \in Numbers
      BY <1>1, <1>4, <2>2, Settings DEF TypeOK, Numbers
    <3>2. result[m] = "failed"
      BY <1>1, <1>2, <1>3, <3>1 DEF LatestInProgress, AnyPassed, Made, TypeOK, Decided, Numbers
    <3>3. QED
      BY <1>1, <3>1, <3>2, Settings DEF ResultsFit
  <2>3. QED
    BY <2>1, <2>2
<1>7. /\ ResultsFit' /\ LinksFit' /\ UndecidedOnlyByRace'
  BY <1>1 DEF AInv, ResultsFit, Failing, Answered, Outcome, Made, LinksFit, UndecidedOnlyByRace,
              Resolved
<1>8. SubmissionsFit' /\ HandlersFit'
  BY <1>1 DEF AInv, SubmissionsFit, SubmissionFits, SubmissionsApart, HandlersFit, HandlerFits,
              HandlersApart, Failing, Answered, Outcome
<1>9. QED
  BY <1>5, <1>6, <1>7, <1>8 DEF AInv

LEMMA InsertAttemptInv == ASSUME AInv, NEW t \in Starters, InsertAttempt(t) PROVE AInv'
<1> DEFINE n == start[t].number
<1>1. /\ TypeOK /\ ResultsFit /\ StartsFit /\ LinksFit /\ n \in Numbers
      /\ UNCHANGED <<remediation, submission, response, run, handler, raced>>
      /\ start[t].pc = "insert"
  BY Types DEF AInv, InsertAttempt, StartRow
<1>2. TypeOK'
  <2>1. /\ [pc |-> "started", number |-> n] \in StartRow
        /\ [pc |-> "refused", number |-> 1] \in StartRow
    BY <1>1, Settings DEF StartRow
  <2>2. start' \in [Starters -> StartRow]
    BY <1>1, <2>1, Types DEF InsertAttempt, Answer
  <2>3. result' \in [Numbers -> Decided \cup {"none", "in_progress"}]
    BY <1>1, Types DEF InsertAttempt, Answer
  <2>4. QED
    BY <1>1, <2>2, <2>3, Types DEF TypeOK, StartRow
<1>3. ASSUME NEW u \in Starters, start'[u].pc = "insert" PROVE start'[u] = start[u]
  BY <1>1, <1>3, Types DEF InsertAttempt, Answer
<1>4. CASE result[n] # "none"
  <2>1. result' = result
    BY <1>4 DEF InsertAttempt
  <2>2. StartsFit'
    BY <1>1, <1>3, <2>1 DEF StartsFit
  <2>3. /\ ResultsFit' /\ LinksFit' /\ UndecidedOnlyByRace'
    BY <1>1, <2>1 DEF AInv, ResultsFit, Failing, Answered, Outcome, Made, LinksFit,
                      UndecidedOnlyByRace, Resolved
  <2>4. SubmissionsFit' /\ HandlersFit'
    BY <1>1, <2>1 DEF AInv, SubmissionsFit, SubmissionFits, SubmissionsApart, HandlersFit,
                      HandlerFits, HandlersApart, Failing, Answered, Outcome
  <2>5. QED
    BY <1>2, <2>2, <2>3, <2>4 DEF AInv
<1>5. CASE result[n] = "none"
  <2>1. result' = [result EXCEPT ![n] = "in_progress"]
    BY <1>5 DEF InsertAttempt
  <2>2. ASSUME NEW k \in Numbers, k # n PROVE result'[k] = result[k]
    BY <2>1, <2>2, <1>1, Types
  <2>3. result'[n] = "in_progress"
    BY <2>1, <1>1, Types
  <2>4. ASSUME NEW k \in Numbers, k < n PROVE result[k] = "failed"
    BY <1>1, <2>4 DEF StartsFit
  <2>5. ASSUME NEW i \in Items PROVE response[n][i] = None
    BY <1>1, <1>5 DEF LinksFit
  <2>6. \A k \in Numbers : Failing(k) <=> Failing(k)'
    BY <1>1 DEF Failing, Answered, Outcome
  <2>7. ResultsFit'
    <3>1. PICK m \in 0..(MaxAttempts + 1) : Made = 1..m
      BY <1>1 DEF ResultsFit
    <3>2. n = m + 1
      <4>1. ~(n \in 1..m)
        BY <3>1, <1>5 DEF Made
      <4>2. ~(m + 1 < n)
        <5> SUFFICES ASSUME m + 1 < n PROVE FALSE
          OBVIOUS
        <5>1. m + 1 \in Numbers
          BY <1>1, Settings DEF Numbers
        <5>2. m + 1 \in Made
          BY <2>4, <5>1 DEF Made
        <5>3. QED
          BY <3>1, <5>2
      <4>3. QED
        BY <4>1, <4>2, <1>1, Settings DEF Numbers
    <3>3. Made' = Made \cup {n}
      BY <1>1, <2>2, <2>3 DEF Made
    <3>4. Made' = 1..(m + 1) /\ m + 1 \in 0..(MaxAttempts + 1)
      BY <3>1, <3>2, <3>3, <1>1, Settings DEF Numbers
    <3>5. \A k, l \in Numbers : k < l /\ result'[l] # "none" => result'[k] = "failed"
      <4> SUFFICES ASSUME NEW k \in Numbers, NEW l \in Numbers, k < l, result'[l] # "none"
                   PROVE  result'[k] = "failed"
        OBVIOUS
      <4>1. result[k] = "failed"
        BY <1>1, <2>2, <2>4 DEF ResultsFit
      <4>2. QED
        BY <4>1, <1>5, <2>2
    <3>6. \A k \in Numbers : result'[k] = "failed" => Failing(k)'
      BY <1>1, <2>2, <2>3, <2>6 DEF ResultsFit
    <3>7. QED
      BY <1>1, <3>4, <3>5, <3>6 DEF ResultsFit
  <2>8. StartsFit'
    <3> SUFFICES ASSUME NEW u \in Starters, start'[u].pc = "insert",
                        NEW k \in Numbers, k < start'[u].number
                 PROVE  result'[k] = "failed"
      BY DEF StartsFit
    <3>1. result[k] = "failed"
      BY <1>1, <1>3 DEF StartsFit
    <3>2. QED
      BY <3>1, <1>5, <2>2
  <2>9. LinksFit' /\ SubmissionsFit'
    <3>1. \A k \in Numbers : result[k] # "none" => result'[k] # "none"
      BY <2>2, <2>3
    <3>2. LinksFit'
      BY <1>1, <3>1 DEF LinksFit
    <3>3. \A s \in Submissions : submission[s].attempt \in Numbers
      BY <1>1, Types DEF SubmissionRow
    <3>4. SubmissionsFit'
      BY <1>1, <3>1, <3>3 DEF AInv, SubmissionsFit, SubmissionFits, SubmissionsApart
    <3>5. QED
      BY <3>2, <3>4
  <2>10. HandlersFit'
    <3>1. \A w \in Workers : handler[w].attempt \in Numbers
      BY <1>1, Types DEF HandlerRow
    <3>2. \A k \in Numbers : result[k] # "failed" => result'[k] # "failed"
      BY <2>2, <2>3
    <3>3. \A w \in Workers : HandlerFits(handler[w]) => HandlerFits(handler[w])'
      BY <1>1, <2>6, <3>1, <3>2 DEF HandlerFits, Answered, Outcome
    <3>4. QED
      BY <1>1, <3>3 DEF AInv, HandlersFit, HandlersApart
  <2>11. UndecidedOnlyByRace'
    <3> SUFFICES ASSUME NEW k \in Numbers, Resolved(k)'
                 PROVE  result'[k] \in Decided \/ k \in raced'
      BY DEF UndecidedOnlyByRace
    <3>1. k # n /\ Resolved(k)
      BY <1>1, <2>5 DEF Resolved, Answered, Outcome
    <3>2. QED
      BY <1>1, <3>1, <2>2 DEF AInv, UndecidedOnlyByRace
  <2>12. QED
    BY <1>2, <2>7, <2>8, <2>9, <2>10, <2>11 DEF AInv
<1>6. QED
  BY <1>4, <1>5
-----------------------------------------------------------------------------
\* A request's row moves: what it reads and the keys it has written fit, and
\* nothing else changes.
LEMMA SubmissionMoves ==
  ASSUME AInv, NEW s \in Submissions, NEW r \in SubmissionRow,
         submission' = [submission EXCEPT ![s] = r],
         UNCHANGED <<start, result, remediation, response, run, handler, raced>>,
         SubmissionFits(r),
         \A q \in Submissions \ {s} : SubmissionsApart(r, submission[q])
  PROVE  AInv'
<1>1. TypeOK'
  BY Types DEF AInv, TypeOK, SubmissionRow
<1>2. submission'[s] = r /\ \A q \in Submissions \ {s} : submission'[q] = submission[q]
  BY Types DEF AInv
<1>3. SubmissionsFit'
  <2>1. \A q \in Submissions : SubmissionFits(submission[q]) => SubmissionFits(submission[q])'
                               \/ q = s
    BY <1>2 DEF SubmissionFits
  <2>2. SubmissionFits(submission[s])'
    BY <1>2 DEF SubmissionFits
  <2>3. ASSUME NEW p \in Submissions, NEW q \in Submissions, p # q
        PROVE  SubmissionsApart(submission[p], submission[q])'
    <3>1. CASE p = s
      BY <1>2, <2>3, <3>1 DEF SubmissionsApart
    <3>2. CASE q = s
      BY <1>2, <2>3, <3>2 DEF SubmissionsApart
    <3>3. CASE p # s /\ q # s
      BY <1>2, <2>3, <3>3 DEF AInv, SubmissionsFit, SubmissionsApart
    <3>4. QED
      BY <3>1, <3>2, <3>3
  <2>4. QED
    BY <2>1, <2>2, <2>3 DEF AInv, SubmissionsFit
<1>4. /\ ResultsFit' /\ StartsFit' /\ LinksFit' /\ UndecidedOnlyByRace'
  BY DEF AInv, ResultsFit, StartsFit, Failing, Answered, Outcome, Made, LinksFit,
         UndecidedOnlyByRace, Resolved
<1>5. HandlersFit'
  BY DEF AInv, HandlersFit, HandlerFits, HandlersApart, Failing, Answered, Outcome
<1>6. QED
  BY <1>1, <1>3, <1>4, <1>5 DEF AInv

LEMMA RefusedRow ==
  LET r == [NewSubmission EXCEPT !.pc = "refused"]
      d == [NewSubmission EXCEPT !.pc = "done"]
  IN  /\ r \in SubmissionRow /\ d \in SubmissionRow
      /\ SubmissionFits(r) /\ SubmissionFits(d)
      /\ r.made = {} /\ d.made = {}
BY Settings DEF NewSubmission, SubmissionRow, SubmissionFits

LEMMA SubmitBeginInv ==
  ASSUME AInv, NEW s \in Submissions, NEW n \in Numbers, NEW p \in Prefixes,
         NEW S \in SUBSET Items, SubmitBegin(s, n, p, S)
  PROVE  AInv'
<1> DEFINE a == [pc |-> "answering", attempt |-> n, prefix |-> p, todo |-> S, made |-> {}]
           r == IF result[n] = "in_progress" THEN a ELSE [NewSubmission EXCEPT !.pc = "refused"]
<1>1. r \in SubmissionRow /\ SubmissionFits(r) /\ r.made = {}
  <2>1. a \in SubmissionRow
    BY DEF SubmissionRow
  <2>2. SubmissionFits(a)
    BY DEF SubmissionFits, SubmitBegin
  <2>3. QED
    BY <2>1, <2>2, RefusedRow
<1>2. \A q \in Submissions \ {s} : SubmissionsApart(r, submission[q])
  BY <1>1 DEF SubmissionsApart
<1>3. QED
  <2>1. /\ submission' = [submission EXCEPT ![s] = r]
        /\ UNCHANGED <<start, result, remediation, response, run, handler, raced>>
    BY DEF SubmitBegin
  <2>2. QED
    BY <1>1, <1>2, <2>1, SubmissionMoves

LEMMA AbortInv ==
  ASSUME AInv, NEW s \in Submissions, Abort(s),
         UNCHANGED <<start, result, remediation, response, run, handler, raced>>
  PROVE  AInv'
<1> DEFINE r == [NewSubmission EXCEPT !.pc = "refused"]
<1>1. r \in SubmissionRow /\ SubmissionFits(r) /\ r.made = {}
  BY RefusedRow
<1>2. \A q \in Submissions \ {s} : SubmissionsApart(r, submission[q])
  BY <1>1 DEF SubmissionsApart
<1>3. submission' = [submission EXCEPT ![s] = r]
  BY DEF Abort
<1>4. QED
  BY <1>1, <1>2, <1>3, SubmissionMoves

LEMMA AnswerItemInv ==
  ASSUME AInv, NEW s \in Submissions, NEW i \in Items, AnswerItem(s, i) PROVE AInv'
<1> DEFINE m == submission[s]
           skip == [m EXCEPT !.todo = @ \ {i}]
           add == [m EXCEPT !.todo = @ \ {i}, !.made = @ \cup {i}]
<1>1. /\ m \in SubmissionRow /\ SubmissionFits(m) /\ m.pc = "answering" /\ ~Held(s, i)
      /\ \A q \in Submissions \ {s} : SubmissionsApart(m, submission[q])
      /\ UNCHANGED <<start, result, remediation, response, run, handler, raced>>
  BY Types DEF AInv, AnswerItem, SubmissionsFit
<1>2. /\ skip \in SubmissionRow /\ add \in SubmissionRow
      /\ skip.pc = m.pc /\ skip.attempt = m.attempt /\ skip.prefix = m.prefix
      /\ skip.made = m.made
      /\ add.pc = m.pc /\ add.attempt = m.attempt /\ add.prefix = m.prefix
      /\ add.made = m.made \cup {i}
  BY <1>1 DEF SubmissionRow
<1> HIDE DEF skip, add
<1>3. CASE submission' = [submission EXCEPT ![s] = skip]
  <2>1. SubmissionFits(skip)
    BY <1>1, <1>2 DEF SubmissionFits
  <2>2. \A q \in Submissions \ {s} : SubmissionsApart(skip, submission[q])
    BY <1>1, <1>2 DEF SubmissionsApart
  <2>3. QED
    BY <1>1, <1>2, <1>3, <2>1, <2>2, SubmissionMoves
<1>4. CASE /\ submission' = [submission EXCEPT ![s] = add]
           /\ response[m.attempt][i] = None /\ run[m.prefix][i] = "none"
  <2>1. SubmissionFits(add)
    BY <1>1, <1>2, <1>4 DEF SubmissionFits
  <2>2. \A q \in Submissions \ {s} : SubmissionsApart(add, submission[q])
    BY <1>1, <1>2 DEF SubmissionsApart, Held
  <2>3. QED
    BY <1>1, <1>2, <1>4, <2>1, <2>2, SubmissionMoves
<1>5. CASE Abort(s)
  BY <1>1, <1>5, AbortInv
<1>6. \/ submission' = [submission EXCEPT ![s] = skip]
      \/ /\ submission' = [submission EXCEPT ![s] = add]
         /\ response[m.attempt][i] = None /\ run[m.prefix][i] = "none"
      \/ Abort(s)
  BY DEF AnswerItem, skip, add
<1>7. QED
  BY <1>3, <1>4, <1>5, <1>6

LEMMA SubmitCommitInv == ASSUME AInv, NEW s \in Submissions, SubmitCommit(s) PROVE AInv'
<1> DEFINE m == submission[s]
           r == [NewSubmission EXCEPT !.pc = "done"]
<1>1. /\ TypeOK /\ LinksFit /\ m \in SubmissionRow /\ SubmissionFits(m)
      /\ m.pc = "answering" /\ m.prefix \in Prefixes /\ m.prefix # None
      /\ m.attempt \in Numbers /\ m.made \subseteq Items
      /\ submission' = [submission EXCEPT ![s] = r]
      /\ UNCHANGED <<start, result, remediation, handler, raced>>
  BY Types, Settings DEF AInv, SubmitCommit, SubmissionsFit, SubmissionFits, SubmissionRow
<1>2. \A k \in Numbers, i \in Items :
         response'[k][i] = IF k = m.attempt /\ i \in m.made THEN m.prefix ELSE response[k][i]
  BY <1>1, Types DEF SubmitCommit
<1>3. \A p \in Prefixes, i \in Items :
         run'[p][i] = IF p = m.prefix /\ i \in m.made THEN "open" ELSE run[p][i]
  BY <1>1, Types DEF SubmitCommit
<1>4. r \in SubmissionRow /\ SubmissionFits(r) /\ r.made = {}
  BY RefusedRow
<1>5. TypeOK'
  <2>1. response' \in [Numbers -> [Items -> Prefixes \cup {None}]]
    BY <1>1, Types DEF SubmitCommit
  <2>2. run' \in [Prefixes -> [Items -> Verdicts \cup {"none", "open", "ungraded"}]]
    BY <1>1, Types DEF SubmitCommit
  <2>3. submission' \in [Submissions -> SubmissionRow]
    BY <1>1, <1>4, Types
  <2>4. QED
    BY <1>1, <2>1, <2>2, <2>3, Types DEF TypeOK, SubmissionRow
<1>6. ASSUME NEW k \in Numbers, NEW i \in Items, response[k][i] # None
      PROVE  /\ response'[k][i] = response[k][i]
             /\ response[k][i] \in Prefixes
             /\ run'[response[k][i]][i] = run[response[k][i]][i]
             /\ run[response[k][i]][i] # "none"
  <2>1. response[k][i] \in Prefixes /\ run[response[k][i]][i] # "none"
    BY <1>1, <1>6, Types DEF LinksFit
  <2>2. ~(k = m.attempt /\ i \in m.made) /\ ~(response[k][i] = m.prefix /\ i \in m.made)
    BY <1>1, <1>6, <2>1 DEF SubmissionFits
  <2>3. QED
    BY <1>2, <1>3, <2>1, <2>2
<1>7. ASSUME NEW k \in Numbers, NEW i \in Items, response[k][i] = None, response'[k][i] # None
      PROVE  /\ k = m.attempt /\ i \in m.made /\ response'[k][i] = m.prefix
             /\ run'[m.prefix][i] = "open" /\ run[m.prefix][i] = "none"
  BY <1>1, <1>2, <1>3, <1>7 DEF SubmissionFits
<1>8. \A k \in Numbers : Failing(k) => Failing(k)'
  BY <1>6 DEF Failing, Answered, Outcome
<1>9. ResultsFit' /\ StartsFit'
  BY <1>1, <1>8 DEF AInv, ResultsFit, StartsFit, Made
<1>10. LinksFit'
  <2>1. ASSUME NEW k \in Numbers, NEW i \in Items, response'[k][i] # None
        PROVE  result'[k] # "none" /\ run'[response'[k][i]][i] # "none"
    BY <1>1, <1>6, <1>7, <2>1 DEF LinksFit, SubmissionFits
  <2>2. ASSUME NEW k \in Numbers, NEW l \in Numbers, NEW i \in Items,
               response'[k][i] # None, response'[k][i] = response'[l][i]
        PROVE  k = l
    <3>1. CASE response[k][i] # None /\ response[l][i] # None
      BY <1>1, <1>6, <2>2, <3>1 DEF LinksFit
    <3>2. CASE response[k][i] = None /\ response[l][i] = None
      BY <1>7, <2>2, <3>2
    <3>3. CASE response[k][i] = None /\ response[l][i] # None
      <4>1. response'[k][i] = m.prefix /\ run[m.prefix][i] = "none"
        BY <1>7, <2>2, <3>3
      <4>2. response'[l][i] = response[l][i] /\ run[response[l][i]][i] # "none"
        BY <1>6, <3>3
      <4>3. QED
        BY <2>2, <4>1, <4>2
    <3>4. CASE response[k][i] # None /\ response[l][i] = None
      <4>1. response'[l][i] = m.prefix /\ run[m.prefix][i] = "none"
        BY <1>7, <2>2, <3>4
      <4>2. response'[k][i] = response[k][i] /\ run[response[k][i]][i] # "none"
        BY <1>6, <3>4
      <4>3. QED
        BY <2>2, <4>1, <4>2
    <3>5. QED
      BY <3>1, <3>2, <3>3, <3>4
  <2>3. QED
    BY <2>1, <2>2 DEF LinksFit
<1>11. SubmissionsFit'
  <2>1. submission'[s] = r /\ \A q \in Submissions \ {s} : submission'[q] = submission[q]
    BY <1>1, Types
  <2>2. SubmissionFits(submission[s])'
    BY <1>1, <1>4, <2>1 DEF SubmissionFits, NewSubmission
  <2>3. ASSUME NEW q \in Submissions \ {s} PROVE SubmissionFits(submission[q])'
    <3>1. SubmissionFits(submission[q]) /\ SubmissionsApart(m, submission[q])
      BY DEF AInv, SubmissionsFit
    <3>2. submission[q].attempt \in Numbers /\ submission[q].made \subseteq Items
      BY <1>1, Types DEF SubmissionRow
    <3>3. QED
      BY <1>1, <1>2, <1>3, <2>1, <3>1, <3>2 DEF SubmissionFits, SubmissionsApart
  <2>4. ASSUME NEW p \in Submissions, NEW q \in Submissions, p # q
        PROVE  SubmissionsApart(submission[p], submission[q])'
    <3>1. CASE p = s \/ q = s
      BY <1>4, <2>1, <2>4, <3>1 DEF SubmissionsApart
    <3>2. CASE p # s /\ q # s
      <4>1. SubmissionsApart(submission[p], submission[q])
        BY <2>4 DEF AInv, SubmissionsFit
      <4>2. QED
        BY <2>1, <3>2, <4>1 DEF SubmissionsApart
    <3>3. QED
      BY <3>1, <3>2
  <2>5. QED
    BY <2>2, <2>3, <2>4 DEF SubmissionsFit
<1>12. HandlersFit'
  <2>1. ASSUME NEW w \in Workers, HandlerFits(handler[w]) PROVE HandlerFits(handler[w])'
    <3> DEFINE h == handler[w]
    <3>1. h.attempt \in Numbers /\ h.item \in Items /\ response[h.attempt][h.item] = h.prefix
          /\ h.prefix # None
      BY <1>1, <2>1, Types, Settings DEF HandlerFits, HandlerRow
    <3>2. response'[h.attempt][h.item] = h.prefix /\ run'[h.prefix][h.item] = "open"
      BY <1>6, <2>1, <3>1 DEF HandlerFits
    <3>3. (h.decision = None /\ h.attempt \notin raced) =>
             \E i \in Answered(h.attempt)' \ {h.item} : Outcome(h.attempt, i)' \notin Verdicts
      <4> SUFFICES ASSUME h.decision = None, h.attempt \notin raced
                   PROVE  \E i \in Answered(h.attempt)' \ {h.item} :
                             Outcome(h.attempt, i)' \notin Verdicts
        OBVIOUS
      <4>1. PICK i \in Answered(h.attempt) \ {h.item} : Outcome(h.attempt, i) \notin Verdicts
        BY <2>1 DEF HandlerFits
      <4>2. i \in Items /\ response[h.attempt][i] # None
        BY <4>1 DEF Answered
      <4>3. i \in Answered(h.attempt)' \ {h.item} /\ Outcome(h.attempt, i)' = Outcome(h.attempt, i)
        BY <1>1, <1>6, <3>1, <4>1, <4>2 DEF Answered, Outcome
      <4>4. QED
        BY <4>1, <4>3
    <3>4. QED
      BY <1>1, <1>8, <2>1, <3>1, <3>2, <3>3 DEF HandlerFits
  <2>2. QED
    BY <1>1, <2>1 DEF AInv, HandlersFit, HandlersApart
<1>13. UndecidedOnlyByRace'
  <2> SUFFICES ASSUME NEW k \in Numbers, Resolved(k)'
               PROVE  result'[k] \in Decided \/ k \in raced'
    BY DEF UndecidedOnlyByRace
  <2>1. \A i \in Items : response'[k][i] # None => response[k][i] # None
    <3> SUFFICES ASSUME NEW i \in Items, response'[k][i] # None, response[k][i] = None
                 PROVE  FALSE
      OBVIOUS
    <3>1. Outcome(k, i)' = "open" /\ i \in Answered(k)'
      BY <1>7 DEF Outcome, Answered
    <3>2. QED
      BY <3>1 DEF Resolved, Verdicts
  <2>2. Resolved(k)
    BY <1>1, <1>6, <2>1 DEF Resolved, Answered, Outcome
  <2>3. QED
    BY <1>1, <2>2 DEF AInv, UndecidedOnlyByRace
<1>14. QED
  BY <1>5, <1>9, <1>10, <1>11, <1>12, <1>13 DEF AInv
-----------------------------------------------------------------------------
LEMMA EvaluateBeginInv ==
  ASSUME AInv, NEW w \in Workers, NEW p \in Prefixes, NEW i \in Items,
         NEW outcome \in Verdicts, EvaluateBegin(w, p, i, outcome)
  PROVE  AInv'
<1>1. PICK n \in LinkedTo(p, i) :
         handler' = [handler EXCEPT ![w] =
            [pc |-> "commit", prefix |-> p, item |-> i, attempt |-> n,
             outcome |-> outcome, decision |-> Decision(n, i, outcome)]]
  BY DEF EvaluateBegin
<1> DEFINE d == Decision(n, i, outcome)
           h == [pc |-> "commit", prefix |-> p, item |-> i, attempt |-> n,
                 outcome |-> outcome, decision |-> d]
<1>2. /\ TypeOK /\ n \in Numbers /\ response[n][i] = p /\ p # None /\ run[p][i] = "open"
      /\ ~InHand(p, i) /\ handler[w].pc = "idle"
      /\ UNCHANGED <<start, result, remediation, submission, response, run, raced>>
  BY Settings DEF AInv, EvaluateBegin, LinkedTo
<1>3. d \in Decided \cup {None}
  BY DEF Decision, Decided
<1>4. h \in HandlerRow
  BY <1>2, <1>3 DEF HandlerRow
<1>5. handler'[w] = h /\ \A v \in Workers \ {w} : handler'[v] = handler[v]
  BY <1>1, <1>2, Types
<1>6. TypeOK'
  <2>1. handler' \in [Workers -> HandlerRow]
    BY <1>1, <1>2, <1>4, Types
  <2>2. QED
    BY <1>2, <2>1, Types DEF TypeOK, HandlerRow
<1>7. ResultsFit' /\ StartsFit' /\ LinksFit' /\ SubmissionsFit'
  BY <1>2 DEF AInv, ResultsFit, StartsFit, Failing, Answered, Outcome, Made, LinksFit,
              SubmissionsFit, SubmissionFits, SubmissionsApart
<1>8. HandlerFits(h)
  <2>1. d = "passed" => ~Failing(n)
    <3> SUFFICES ASSUME d = "passed", NEW j \in Answered(n), Outcome(n, j) = "fail" PROVE FALSE
      BY DEF Failing
    <3>1. j # i
      BY <1>2 DEF Outcome
    <3>2. Outcome(n, j) = "pass"
      BY <3>1, Settings DEF Decision
    <3>3. QED
      BY <3>2
  <2>2. d = "passed" => result[n] # "failed"
    BY <1>2, <2>1 DEF AInv, ResultsFit
  <2>3. d = "failed" => outcome = "fail" \/ Failing(n)
    BY Settings DEF Decision, Failing, Verdicts
  <2>4. d = None => \E j \in Answered(n) \ {i} : Outcome(n, j) \notin Verdicts
    BY Settings DEF Decision
  <2>5. QED
    BY <1>2, <2>2, <2>3, <2>4 DEF HandlerFits
<1>9. \A v \in Workers \ {w} : handler[v].pc = "commit" => HandlersApart(h, handler[v])
                                                           /\ HandlersApart(handler[v], h)
  <2> SUFFICES ASSUME NEW v \in Workers \ {w}, handler[v].pc = "commit"
               PROVE  /\ <<p, i>> # <<handler[v].prefix, handler[v].item>>
                      /\ handler[v].attempt = n => d = None
    BY DEF HandlersApart
  <2>1. <<p, i>> # <<handler[v].prefix, handler[v].item>>
    BY <1>2 DEF InHand
  <2>2. ASSUME handler[v].attempt = n PROVE d = None
    <3>1. HandlerFits(handler[v])
      BY DEF AInv, HandlersFit
    <3>2. /\ handler[v].item \in Answered(n) \ {i}
          /\ Outcome(n, handler[v].item) = "open"
      BY <1>2, <2>1, <2>2, <3>1, Settings DEF HandlerFits, Answered, Outcome
    <3>3. QED
      BY <3>2 DEF Decision, Verdicts
  <2>3. QED
    BY <2>1, <2>2
<1>10. HandlersFit'
  <2>1. ASSUME NEW v \in Workers, handler'[v].pc = "commit" PROVE HandlerFits(handler'[v])
    BY <1>5, <1>8, <2>1 DEF AInv, HandlersFit
  <2>2. ASSUME NEW v \in Workers, handler'[v].pc = "commit" PROVE HandlerFits(handler[v])'
    BY <1>2, <2>1, <2>2 DEF HandlerFits, Failing, Answered, Outcome
  <2>3. ASSUME NEW u \in Workers, NEW v \in Workers, u # v, handler'[u].pc = "commit",
               handler'[v].pc = "commit"
        PROVE  HandlersApart(handler[u], handler[v])'
    <3>1. HandlersApart(handler'[u], handler'[v])
      <4>1. CASE u = w
        BY <1>5, <1>9, <2>3, <4>1
      <4>2. CASE v = w
        BY <1>5, <1>9, <2>3, <4>2
      <4>3. CASE u # w /\ v # w
        BY <1>5, <2>3, <4>3 DEF AInv, HandlersFit
      <4>4. QED
        BY <4>1, <4>2, <4>3
    <3>2. QED
      BY <3>1 DEF HandlersApart
  <2>4. QED
    BY <2>2, <2>3 DEF HandlersFit
<1>11. UndecidedOnlyByRace'
  <2> SUFFICES ASSUME NEW k \in Numbers, Resolved(k)'
               PROVE  result'[k] \in Decided \/ k \in raced'
    BY DEF UndecidedOnlyByRace
  <2>1. Resolved(k)
    <3>1. \A v \in Workers : handler[v].pc = "commit" => handler'[v] = handler[v]
      BY <1>2, <1>5
    <3>2. QED
      BY <1>2, <3>1 DEF Resolved, Answered, Outcome
  <2>2. QED
    BY <1>2, <2>1 DEF AInv, UndecidedOnlyByRace
<1>12. QED
  BY <1>6, <1>7, <1>10, <1>11 DEF AInv

LEMMA EvaluateCommitInv == ASSUME AInv, NEW w \in Workers, EvaluateCommit(w) PROVE AInv'
<1> DEFINE h == handler[w]
<1> PICK n, j : n = h.attempt /\ j = h.item
  OBVIOUS
<1>1. /\ TypeOK /\ ResultsFit /\ LinksFit /\ h.pc = "commit" /\ HandlerFits(h)
      /\ n \in Numbers /\ h.decision \in Decided \cup {None}
      /\ UNCHANGED <<start, remediation, submission, response>>
  BY Types DEF AInv, EvaluateCommit, HandlersFit, HandlerRow
<1>2. /\ h.prefix \in Prefixes /\ h.prefix # None /\ h.item \in Items /\ h.outcome \in Verdicts
      /\ response[n][h.item] = h.prefix /\ run[h.prefix][h.item] = "open"
      /\ result[n] # "none"
  BY <1>1, Settings DEF HandlerFits, LinksFit
<1>3. \A p \in Prefixes, i \in Items :
         run'[p][i] = IF p = h.prefix /\ i = h.item THEN h.outcome ELSE run[p][i]
  BY <1>1, <1>2, Types DEF EvaluateCommit
<1>4. \A k \in Numbers :
         result'[k] = IF k = n /\ h.decision # None THEN h.decision ELSE result[k]
  BY <1>1, Types DEF EvaluateCommit
<1>5. /\ raced \subseteq raced' /\ raced' \subseteq raced \cup {n}
      /\ \A v \in Workers \ {w} : handler[v].pc = "commit" /\ handler[v].attempt = n
                                  => n \in raced'
  BY DEF EvaluateCommit
<1>6. /\ handler'[w] = IdleHandler
      /\ \A v \in Workers \ {w} : handler'[v] = handler[v]
  BY <1>1, Types DEF EvaluateCommit
<1>7. TypeOK'
  <2>1. IdleHandler \in HandlerRow
    BY Settings DEF IdleHandler, HandlerRow
  <2>2. handler' \in [Workers -> HandlerRow]
    BY <1>1, <2>1, Types DEF EvaluateCommit
  <2>3. run' \in [Prefixes -> [Items -> Verdicts \cup {"none", "open", "ungraded"}]]
    BY <1>1, <1>2, Types DEF EvaluateCommit
  <2>4. result' \in [Numbers -> Decided \cup {"none", "in_progress"}]
    BY <1>1, Types DEF EvaluateCommit
  <2>5. raced' \subseteq Numbers
    BY <1>1, <1>5, Types
  <2>6. QED
    BY <1>1, <2>2, <2>3, <2>4, <2>5, Types DEF TypeOK, HandlerRow
<1>8. ASSUME NEW k \in Numbers, result[k] = "failed" PROVE result'[k] = "failed"
  BY <1>1, <1>4, <1>8 DEF HandlerFits, Decided
<1>9. \A k \in Numbers : result'[k] # "none" <=> result[k] # "none"
  BY <1>1, <1>2, <1>4, Settings DEF Decided
<1>10. ASSUME NEW k \in Numbers, Failing(k) PROVE Failing(k)'
  <2>1. PICK i \in Answered(k) : Outcome(k, i) = "fail"
    BY <1>10 DEF Failing
  <2>2. i \in Items /\ response[k][i] \in Prefixes
    BY <1>1, <2>1, Types DEF Answered
  <2>3. Outcome(k, i)' = "fail" /\ i \in Answered(k)'
    BY <1>1, <1>2, <1>3, <2>1, <2>2 DEF Outcome, Answered
  <2>4. QED
    BY <2>3 DEF Failing
<1>11. ResultsFit'
  <2>1. Made' = Made
    BY <1>9 DEF Made
  <2>2. \A k, l \in Numbers : k < l /\ result'[l] # "none" => result'[k] = "failed"
    BY <1>1, <1>8, <1>9 DEF ResultsFit
  <2>3. ASSUME NEW k \in Numbers, result'[k] = "failed" PROVE Failing(k)'
    <3>1. CASE result[k] = "failed"
      BY <1>1, <1>10, <3>1 DEF ResultsFit
    <3>2. CASE result[k] # "failed"
      <4>1. k = n /\ h.decision = "failed"
        BY <1>4, <2>3, <3>2
      <4>2. CASE h.outcome = "fail"
        <5>1. j \in Answered(n)' /\ Outcome(n, j)' = "fail"
          BY <1>1, <1>2, <1>3, <4>2 DEF Answered, Outcome
        <5>2. QED
          BY <4>1, <5>1 DEF Failing
      <4>3. CASE Failing(n)
        BY <1>10, <4>1, <4>3
      <4>4. QED
        BY <1>1, <4>1, <4>2, <4>3 DEF HandlerFits
    <3>3. QED
      BY <3>1, <3>2
  <2>4. QED
    BY <1>1, <2>1, <2>2, <2>3 DEF ResultsFit
<1>12. StartsFit' /\ LinksFit'
  <2>1. StartsFit'
    BY <1>1, <1>8 DEF AInv, StartsFit
  <2>2. \A p \in Prefixes, i \in Items : run[p][i] # "none" => run'[p][i] # "none"
    BY <1>2, <1>3 DEF Verdicts
  <2>3. \A k \in Numbers, i \in Items : response[k][i] # None => response[k][i] \in Prefixes
    BY <1>1, Types
  <2>4. LinksFit'
    BY <1>1, <1>9, <2>2, <2>3 DEF LinksFit
  <2>5. QED
    BY <2>1, <2>4
<1>13. SubmissionsFit'
  <2>1. \A p \in Prefixes, i \in Items : run[p][i] = "none" => run'[p][i] = "none"
    BY <1>2, <1>3
  <2>2. \A s \in Submissions : /\ submission[s].attempt \in Numbers
                               /\ submission[s].made \subseteq Items
    BY <1>1, Types DEF SubmissionRow
  <2>3. ASSUME NEW s \in Submissions PROVE SubmissionFits(submission[s])'
    <3>1. SubmissionFits(submission[s])
      BY DEF AInv, SubmissionsFit
    <3>2. QED
      BY <1>1, <1>9, <2>1, <2>2, <3>1 DEF SubmissionFits
  <2>4. QED
    BY <1>1, <2>3 DEF AInv, SubmissionsFit, SubmissionsApart
<1>14. HandlersFit'
  <2>1. ASSUME NEW v \in Workers \ {w}, handler[v].pc = "commit" PROVE HandlerFits(handler[v])'
    <3> DEFINE g == handler[v]
    <3>1. /\ HandlerFits(g) /\ HandlersApart(g, h) /\ g.attempt \in Numbers
          /\ handler'[v] = g
      BY <1>1, <1>6, <2>1, Types DEF AInv, HandlersFit, HandlerRow
    <3>2. run'[g.prefix][g.item] = "open"
      BY <1>3, <3>1 DEF HandlerFits, HandlersApart
    <3>3. g.decision = "passed" => result'[g.attempt] # "failed"
      BY <1>4, <3>1, Settings DEF HandlerFits, HandlersApart
    <3>4. g.decision = "failed" => g.outcome = "fail" \/ Failing(g.attempt)'
      BY <1>10, <3>1 DEF HandlerFits
    <3>5. ASSUME g.decision = None, g.attempt \notin raced'
          PROVE  \E i \in Answered(g.attempt)' \ {g.item} : Outcome(g.attempt, i)' \notin Verdicts
      <4>1. PICK i \in Answered(g.attempt) \ {g.item} : Outcome(g.attempt, i) \notin Verdicts
        BY <1>5, <3>1, <3>5 DEF HandlerFits
      <4>2. i \in Items /\ response[g.attempt][i] \in Prefixes
        BY <1>1, <3>1, <4>1, Types DEF Answered
      <4>3. ~(response[g.attempt][i] = h.prefix /\ i = h.item)
        <5> SUFFICES ASSUME response[g.attempt][i] = h.prefix, i = h.item PROVE FALSE
          OBVIOUS
        <5>1. g.attempt = n
          BY <1>1, <1>2, <3>1 DEF LinksFit
        <5>2. QED
          BY <1>5, <2>1, <3>5, <5>1
      <4>4. i \in Answered(g.attempt)' \ {g.item} /\ Outcome(g.attempt, i)' = Outcome(g.attempt, i)
        BY <1>1, <1>3, <3>1, <4>1, <4>2, <4>3 DEF Answered, Outcome
      <4>5. QED
        BY <4>1, <4>4
    <3>6. QED
      BY <1>1, <3>1, <3>2, <3>3, <3>4, <3>5 DEF HandlerFits
  <2>2. \A v \in Workers : handler'[v].pc = "commit" => v # w /\ handler'[v] = handler[v]
    BY <1>6 DEF IdleHandler
  <2>3. QED
    BY <2>1, <2>2 DEF AInv, HandlersFit, HandlersApart
<1>15. UndecidedOnlyByRace'
  <2> SUFFICES ASSUME NEW k \in Numbers, Resolved(k)'
               PROVE  result'[k] \in Decided \/ k \in raced'
    BY DEF UndecidedOnlyByRace
  <2>1. CASE k # n
    <3>1. ASSUME NEW i \in Answered(k) PROVE Outcome(k, i)' = Outcome(k, i)
      <4>1. i \in Items /\ response[k][i] \in Prefixes
        BY <1>1, Types DEF Answered
      <4>2. ~(response[k][i] = h.prefix /\ i = h.item)
        BY <1>1, <1>2, <2>1 DEF LinksFit
      <4>3. QED
        BY <1>1, <1>3, <4>1, <4>2 DEF Outcome
    <3>2. Resolved(k)
      BY <1>1, <1>6, <2>1, <3>1 DEF Resolved, Answered
    <3>3. QED
      BY <1>4, <1>5, <2>1, <3>2 DEF AInv, UndecidedOnlyByRace
  <2>2. CASE k = n /\ h.decision # None
    BY <1>1, <1>4, <2>2
  <2>3. CASE k = n /\ h.decision = None
    <3> SUFFICES ASSUME n \notin raced PROVE FALSE
      BY <1>5, <2>3
    <3>1. PICK i \in Answered(n) \ {h.item} : Outcome(n, i) \notin Verdicts
      BY <1>1, <2>3 DEF HandlerFits
    <3>2. i \in Items /\ response[n][i] \in Prefixes
      BY <1>1, <3>1, Types DEF Answered
    <3>3. i \in Answered(n)' /\ Outcome(n, i)' = Outcome(n, i)
      BY <1>1, <1>3, <3>1, <3>2 DEF Answered, Outcome
    <3>4. QED
      BY <2>3, <3>1, <3>3 DEF Resolved
  <2>4. QED
    BY <2>1, <2>2, <2>3
<1>16. QED
  BY <1>7, <1>11, <1>12, <1>13, <1>14, <1>15 DEF AInv

LEMMA EndUngradedInv ==
  ASSUME AInv, NEW p \in Prefixes, NEW j \in Items, EndUngraded(p, j) PROVE AInv'
<1>1. /\ TypeOK /\ ResultsFit /\ LinksFit /\ run[p][j] = "open" /\ ~InHand(p, j)
      /\ UNCHANGED <<start, result, remediation, submission, response, handler, raced>>
  BY DEF AInv, EndUngraded
<1>2. \A q \in Prefixes, i \in Items :
         run'[q][i] = IF q = p /\ i = j THEN "ungraded" ELSE run[q][i]
  BY <1>1, Types DEF EndUngraded
<1>3. TypeOK'
  <2>1. run' \in [Prefixes -> [Items -> Verdicts \cup {"none", "open", "ungraded"}]]
    BY <1>1, Types DEF EndUngraded
  <2>2. QED
    BY <1>1, <2>1, Types DEF TypeOK
<1>4. ASSUME NEW k \in Numbers, NEW i \in Answered(k)
      PROVE  /\ Outcome(k, i) \in Verdicts => Outcome(k, i)' = Outcome(k, i)
             /\ Outcome(k, i) \notin Verdicts => Outcome(k, i)' \notin Verdicts
             /\ Outcome(k, i)' # "none"
  <2>1. i \in Items /\ response[k][i] \in Prefixes /\ run[response[k][i]][i] # "none"
    BY <1>1, Types DEF Answered, LinksFit
  <2>2. QED
    BY <1>1, <1>2, <2>1 DEF Outcome, Verdicts
<1>5. \A k \in Numbers : Answered(k)' = Answered(k)
  BY <1>1 DEF Answered
<1>6. \A k \in Numbers : Failing(k) => Failing(k)'
  BY <1>4, <1>5 DEF Failing, Verdicts
<1>7. ResultsFit' /\ StartsFit'
  BY <1>1, <1>6 DEF AInv, ResultsFit, StartsFit, Made
<1>8. LinksFit'
  <2>1. ASSUME NEW k \in Numbers, NEW i \in Items, response[k][i] # None
        PROVE  run'[response[k][i]][i] # "none"
    BY <1>1, <1>4, <2>1 DEF Answered, Outcome
  <2>2. QED
    BY <1>1, <2>1 DEF LinksFit
<1>9. SubmissionsFit'
  <2>1. \A q \in Prefixes, i \in Items : run[q][i] = "none" => run'[q][i] = "none"
    BY <1>1, <1>2
  <2>2. \A s \in Submissions : submission[s].made \subseteq Items
    BY <1>1, Types DEF SubmissionRow
  <2>3. ASSUME NEW s \in Submissions PROVE SubmissionFits(submission[s])'
    <3>1. SubmissionFits(submission[s])
      BY DEF AInv, SubmissionsFit
    <3>2. QED
      BY <1>1, <2>1, <2>2, <3>1 DEF SubmissionFits
  <2>4. QED
    BY <1>1, <2>3 DEF AInv, SubmissionsFit, SubmissionsApart
<1>10. HandlersFit'
  <2>1. ASSUME NEW w \in Workers, handler[w].pc = "commit" PROVE HandlerFits(handler[w])'
    <3> DEFINE h == handler[w]
    <3>1. HandlerFits(h) /\ h.attempt \in Numbers
      BY <1>1, <2>1, Types DEF AInv, HandlersFit, HandlerRow
    <3>2. run'[h.prefix][h.item] = "open"
      BY <1>1, <1>2, <2>1, <3>1 DEF HandlerFits, InHand
    <3>3. (h.decision = None /\ h.attempt \notin raced) =>
             \E i \in Answered(h.attempt)' \ {h.item} : Outcome(h.attempt, i)' \notin Verdicts
      BY <1>1, <1>4, <1>5, <3>1 DEF HandlerFits
    <3>4. QED
      BY <1>1, <1>6, <3>1, <3>2, <3>3 DEF HandlerFits
  <2>2. QED
    BY <1>1, <2>1 DEF AInv, HandlersFit, HandlersApart
<1>11. UndecidedOnlyByRace'
  <2> SUFFICES ASSUME NEW k \in Numbers, Resolved(k)' PROVE Resolved(k)
    BY <1>1 DEF AInv, UndecidedOnlyByRace
  <2>1. QED
    BY <1>1, <1>4, <1>5 DEF Resolved
<1>12. QED
  BY <1>3, <1>7, <1>8, <1>9, <1>10, <1>11 DEF AInv
-----------------------------------------------------------------------------
LEMMA NextInv == AInv /\ [Next]_vars => AInv'
<1> SUFFICES ASSUME AInv, [Next]_vars PROVE AInv'
  OBVIOUS
<1>1. ASSUME NEW t \in Starters, StartAttempt(t) \/ InsertAttempt(t) PROVE AInv'
  BY <1>1, StartAttemptInv, InsertAttemptInv
<1>2. ASSUME NEW s \in Submissions, NEW n \in Numbers, NEW p \in Prefixes, NEW S \in SUBSET Items,
             SubmitBegin(s, n, p, S)
      PROVE  AInv'
  BY <1>2, SubmitBeginInv
<1>3. ASSUME NEW s \in Submissions, SubmitStep(s) PROVE AInv'
  <2>1. CASE \E i \in Items : AnswerItem(s, i)
    BY <2>1, AnswerItemInv
  <2>2. CASE SubmitAbort(s)
    BY <2>2, AbortInv DEF SubmitAbort
  <2>3. CASE SubmitCommit(s)
    BY <2>3, SubmitCommitInv
  <2>4. QED
    BY <1>3, <2>1, <2>2, <2>3 DEF SubmitStep
<1>4. ASSUME NEW w \in Workers, WorkerStep(w) PROVE AInv'
  BY <1>4, EvaluateBeginInv, EvaluateCommitInv DEF WorkerStep
<1>5. ASSUME NEW p \in Prefixes, NEW i \in Items, EndUngraded(p, i) PROVE AInv'
  BY <1>5, EndUngradedInv
<1>6. CASE UNCHANGED vars
  <2>1. TypeOK'
    BY <1>6 DEF AInv, vars, TypeOK
  <2>2. ResultsFit' /\ StartsFit' /\ LinksFit'
    BY <1>6 DEF AInv, vars, ResultsFit, StartsFit, Failing, Answered, Outcome, Made, LinksFit
  <2>3. SubmissionsFit' /\ HandlersFit'
    BY <1>6 DEF AInv, vars, SubmissionsFit, SubmissionFits, SubmissionsApart, HandlersFit,
                HandlerFits, HandlersApart, Failing, Answered, Outcome
  <2>4. UndecidedOnlyByRace'
    BY <1>6 DEF AInv, vars, UndecidedOnlyByRace, Resolved, Answered, Outcome
  <2>5. QED
    BY <2>1, <2>2, <2>3, <2>4 DEF AInv
<1>7. QED
  BY <1>1, <1>2, <1>3, <1>4, <1>5, <1>6 DEF Next

LEMMA SpecInv == Spec => []AInv
BY AInitInv, NextInv, PTL DEF Spec

\* Rows, requests and open transactions keep the shapes the code gives them.
THEOREM AssessmentTypes == Spec => []TypeOK
<1>1. AInv => TypeOK
  BY DEF AInv
<1>2. QED
  BY <1>1, SpecInv, PTL

\* However start requests race with each other and with the finalization, a
\* student has one attempt in progress at most: a new attempt's number follows
\* only failed ones, and the unique constraint refuses the second insert.
THEOREM OneInProgress == Spec => []AtMostOneInProgress
<1>1. AInv => AtMostOneInProgress
  <2> SUFFICES ASSUME AInv, NEW n \in Numbers, NEW m \in Numbers,
                      result[n] = "in_progress", result[m] = "in_progress"
               PROVE  n = m
    BY DEF AtMostOneInProgress
  <2>1. ~(n < m) /\ ~(m < n)
    BY DEF AInv, ResultsFit
  <2>2. QED
    BY <2>1, Settings DEF Numbers
<1>2. QED
  BY <1>1, SpecInv, PTL

\* No attempt follows a passed one, although start_attempt reads the results
\* without a lock and a late commit may change them.
THEOREM PassIsLast == Spec => []NoAttemptAfterPass
<1>1. AInv => NoAttemptAfterPass
  BY DEF AInv, ResultsFit, NoAttemptAfterPass
<1>2. QED
  BY <1>1, SpecInv, PTL

\* One run answers one response, of one attempt, however requests reuse keys.
THEOREM OneResponsePerRun == Spec => []RunAnswersOnce
<1>1. AInv => RunAnswersOnce
  <2> SUFFICES ASSUME AInv, NEW p \in Prefixes, NEW i \in Items
               PROVE  Cardinality(LinkedTo(p, i)) <= 1
    BY DEF RunAnswersOnce
  <2>1. \A n, m \in LinkedTo(p, i) : n = m
    <3> SUFFICES ASSUME NEW n \in Numbers, NEW m \in Numbers,
                        response[n][i] = p, response[m][i] = p
                 PROVE  n = m
      BY DEF LinkedTo
    <3>1. response[n][i] # None
      BY Settings
    <3>2. \A k, l \in Numbers : response[k][i] # None /\ response[k][i] = response[l][i] => k = l
      BY DEF AInv, LinksFit
    <3>3. QED
      BY <3>1, <3>2
  <2>2. CASE LinkedTo(p, i) = {}
    BY <2>2, FS_EmptySet
  <2>3. ASSUME NEW n \in LinkedTo(p, i) PROVE Cardinality(LinkedTo(p, i)) <= 1
    <3>1. LinkedTo(p, i) = {n}
      BY <2>1
    <3>2. Cardinality({n}) = 1
      BY FS_Singleton
    <3>3. QED
      BY <3>1, <3>2
  <2>4. QED
    BY <2>1, <2>2, <2>3
<1>2. QED
  BY <1>1, SpecInv, PTL

\* finalize_if_ready decides every attempt whose answers are all evaluated,
\* unless two evaluations of it overlapped and each missed the other.
THEOREM DecidedUnlessRaced == Spec => []UndecidedOnlyByRace
<1>1. AInv => UndecidedOnlyByRace
  BY DEF AInv
<1>2. QED
  BY <1>1, SpecInv, PTL

\* A failed attempt stays failed: a failing evaluation is never overwritten, so
\* no later transaction can compute a pass.
THEOREM FailureStays == Spec => FailedIsFinal
<1>1. AInv /\ [Next]_vars => [\A n \in Numbers : result[n] = "failed" => result'[n] = "failed"]_vars
  <2> SUFFICES ASSUME AInv, Next, NEW n \in Numbers, result[n] = "failed"
               PROVE  result'[n] = "failed"
    BY DEF vars
  <2>1. ASSUME NEW t \in Starters, InsertAttempt(t) PROVE result'[n] = "failed"
    BY <2>1, Types DEF AInv, InsertAttempt
  <2>2. ASSUME NEW w \in Workers, EvaluateCommit(w) PROVE result'[n] = "failed"
    <3>1. HandlerFits(handler[w]) /\ handler[w].decision \in Decided \cup {None}
      BY <2>2, Types DEF AInv, EvaluateCommit, HandlersFit, HandlerRow
    <3>2. QED
      BY <2>2, <3>1, Types DEF AInv, EvaluateCommit, HandlerFits, Decided
  <2>3. CASE UNCHANGED result
    BY <2>3
  <2>4. QED
    BY <2>1, <2>2, <2>3
    DEF Next, StartAttempt, SubmitBegin, SubmitStep, AnswerItem, SubmitAbort, SubmitCommit,
        WorkerStep, EvaluateBegin, EndUngraded
<1>2. QED
  BY <1>1, SpecInv, PTL DEF Spec, FailedIsFinal
=============================================================================
