-------------------------------- MODULE Hints --------------------------------
(***************************************************************************)
(* The AI tutor (apps/ai_tutor): requests for a hint on an exercise        *)
(* attempt.  HintService.request_hint opens no transaction, so each of its *)
(* statements commits alone: the quota is counted and the level is read    *)
(* long before the provider has answered and the hint is inserted.         *)
(*                                                                         *)
(* A hint row has the identity of the request and the provider call that   *)
(* made it.  What the provider returns is a member of Answers: only what   *)
(* the post-call policy tells apart is kept of its text.                   *)
(***************************************************************************)
EXTENDS Naturals, Sequences, FiniteSets

CONSTANTS
    HintRequests,   \* hint requests, numbered in the order they are made
    HintAttempts,   \* the exercise attempts hints are asked for
    Students,
    OwnerOf,        \* the student of each attempt
    HintQuota,      \* each student's ai_hints_per_day, or Unlimited
    Unlimited,
    MaxHintLevel,   \* MAX_HINT_LEVEL
    MaxCalls,       \* AI_REGENERATE_MAX_ATTEMPTS + 1
    MaxOpenHints,   \* hint requests that are open at one time
    MaxHintFaults,  \* requests that fail half-way
    NoAttempt

ASSUME HintsAssumption ==
    /\ HintRequests \subseteq Nat /\ IsFiniteSet(HintRequests)
    /\ OwnerOf \in [HintAttempts -> Students]
    /\ HintQuota \in [Students -> Nat \cup {Unlimited}]
    /\ Unlimited \notin Nat
    /\ MaxHintLevel \in Nat \ {0}
    /\ MaxCalls \in Nat /\ MaxOpenHints \in Nat \ {0} /\ MaxHintFaults \in Nat
    /\ NoAttempt \notin HintAttempts

VARIABLES
    hintReq,        \* the requests and what each one has read
    graded,         \* evaluation_results.outcome, "none" where there is no row
    hints,          \* the rows of hints
    hintsToday,     \* those delivered since today_start
    interactions,   \* ai_interactions.policy_result of each request's calls
    hintFaults      \* failures so far

hintVars == <<hintReq, graded, hints, hintsToday, interactions, hintFaults>>
-----------------------------------------------------------------------------
Verdict == {"approved", "rejected", "unavailable", "malformed"}

\* The provider's answers: no response or an unreadable one, a response that
\* has no text, one that repeats the prompt, one with more code lines than
\* the threshold, and one with nothing to object to.
Answers == {"silent", "empty", "leak", "code", "plain"}

HintOpen == {"level", "call", "log", "insert"}
HintOver == {"refused", "delivered", "ai_unavailable", "failed"}

HintRequest == [pc : HintOpen \cup HintOver \cup {"new"},
                attempt : HintAttempts \cup {NoAttempt},
                level : 0..MaxHintLevel, calls : 0..MaxCalls,
                verdict : Verdict \cup {"none"}, beside : SUBSET HintRequests]

HintRow == [by : HintRequests, call : 1..MaxCalls, approved : BOOLEAN]

BlankHint(pc) == [pc |-> pc, attempt |-> NoAttempt, level |-> 0, calls |-> 0,
                  verdict |-> "none", beside |-> {}]

HintInit ==
    /\ hintReq = [r \in HintRequests |-> BlankHint("new")]
    /\ graded = [a \in HintAttempts |-> "none"]
    /\ hints = {}
    /\ hintsToday = {}
    /\ interactions = [r \in HintRequests |-> <<>>]
    /\ hintFaults = 0

OpenHints == {r \in HintRequests : hintReq[r].pc \in HintOpen}
AttemptOf(h) == hintReq[h.by].attempt
LevelOf(h) == hintReq[h.by].level

HintStep(r, pc) == hintReq' = [hintReq EXCEPT ![r].pc = pc]
-----------------------------------------------------------------------------
\* The execution component evaluates the attempt (apps/execution).
Grade(a, outcome) ==
    /\ graded[a] = "none"
    /\ graded' = [graded EXCEPT ![a] = outcome]
    /\ UNCHANGED <<hintReq, hints, hintsToday, interactions, hintFaults>>

DeliveredToday(u) == {h \in hintsToday : OwnerOf[AttemptOf(h)] = u}

QuotaSpentLate(u) ==
    HintQuota[u] # Unlimited /\ Cardinality(DeliveredToday(u)) > HintQuota[u]

\* _enforce_hint_quota: a count without a lock, and no limit where the plan
\* has no such entitlement.
QuotaSpent(u) ==
    HintQuota[u] # Unlimited /\ Cardinality(DeliveredToday(u)) >= HintQuota[u]

\* The attempt of another student, one without an evaluation, one that passed
\* and a student whose quota is spent are refused.  An evaluation is written
\* once, so that reading it with the count loses no interleaving.
HintGate(r, u, a) ==
    /\ hintReq[r].pc = "new"
    /\ \A q \in HintRequests : q < r => hintReq[q].pc # "new"
    /\ Cardinality(OpenHints) < MaxOpenHints
    /\ hintReq' = [hintReq EXCEPT ![r] =
          IF OwnerOf[a] = u /\ graded[a] = "fail" /\ ~QuotaSpent(u)
          THEN [BlankHint("level") EXCEPT !.attempt = a] ELSE BlankHint("refused")]
    /\ UNCHANGED <<graded, hints, hintsToday, interactions, hintFaults>>

Approved(a) == {h \in hints : h.approved /\ AttemptOf(h) = a}
ApprovedLevels(a) == {LevelOf(h) : h \in Approved(a)}

Highest(levels) == CHOOSE l \in {0} \cup levels : \A k \in {0} \cup levels : k <= l

CurrentLevelOfAny(a) == Highest({LevelOf(h) : h \in {g \in hints : AttemptOf(g) = a}})
CurrentLevelToday(a) == Highest({LevelOf(h) : h \in Approved(a) \cap hintsToday})

\* get_current_level: the highest level with an approved hint.
CurrentLevel(a) == Highest(ApprovedLevels(a))

\* The loop calls the provider at most MaxCalls times.
Regenerate(n) == IF n < MaxCalls THEN "call" ELSE "ai_unavailable"

\* Requests of the attempt that have read their level and still run.
Generating(a) == {q \in HintRequests : hintReq[q].attempt = a
                                       /\ hintReq[q].pc \in {"call", "log", "insert"}}

\* validate_and_get_next_level, and the context that is built from it.
ReadLevel(r) ==
    LET a == hintReq[r].attempt
    IN  /\ hintReq[r].pc = "level"
        /\ hintReq' = [hintReq EXCEPT ![r] =
              IF CurrentLevel(a) >= MaxHintLevel THEN BlankHint("refused")
              ELSE [@ EXCEPT !.pc = Regenerate(0), !.level = CurrentLevel(a) + 1,
                             !.beside = Generating(a)]]
        /\ UNCHANGED <<graded, hints, hintsToday, interactions, hintFaults>>

\* PostCallPolicy.evaluate and the two checks before it: code may be shown
\* at the last level only.
PolicyResult(answer, level) ==
    CASE answer = "silent" -> "unavailable"
      [] answer = "empty" -> "malformed"
      [] answer = "leak" -> "rejected"
      [] answer = "code" -> IF level = MaxHintLevel THEN "approved" ELSE "rejected"
      [] answer = "plain" -> "approved"

\* generate_hint: every call returns, if only by its timeout.
CallProvider(r, answer) ==
    /\ hintReq[r].pc = "call"
    /\ hintReq' = [hintReq EXCEPT ![r] =
          [@ EXCEPT !.pc = "log", !.calls = hintReq[r].calls + 1,
                    !.verdict = PolicyResult(answer, hintReq[r].level)]]
    /\ UNCHANGED <<graded, hints, hintsToday, interactions, hintFaults>>

LogLater(r) ==
    /\ hintReq[r].pc = "log"
    /\ HintStep(r, CASE hintReq[r].verdict = "unavailable" -> "ai_unavailable"
                     [] hintReq[r].verdict = "malformed" -> Regenerate(hintReq[r].calls)
                     [] OTHER -> "insert")
    /\ interactions' = IF hintReq[r].verdict \in {"approved", "rejected"} THEN interactions
                       ELSE [interactions EXCEPT ![r] = Append(@, hintReq[r].verdict)]
    /\ UNCHANGED <<graded, hints, hintsToday, hintFaults>>

\* _log_interaction, and where the result of the call leads.
LogInteraction(r) ==
    /\ hintReq[r].pc = "log"
    /\ interactions' = [interactions EXCEPT ![r] = Append(@, hintReq[r].verdict)]
    /\ HintStep(r, CASE hintReq[r].verdict = "unavailable" -> "ai_unavailable"
                     [] hintReq[r].verdict = "malformed" -> Regenerate(hintReq[r].calls)
                     [] OTHER -> "insert")
    /\ UNCHANGED <<graded, hints, hintsToday, hintFaults>>

\* Hint.objects.create: an approved hint is delivered, a rejected one is
\* kept for the audit and the loop goes on.
InsertHint(r) ==
    LET approved == hintReq[r].verdict = "approved"
        row == [by |-> r, call |-> hintReq[r].calls, approved |-> approved]
    IN  /\ hintReq[r].pc = "insert"
        /\ hints' = hints \cup {row}
        /\ hintsToday' = IF approved THEN hintsToday \cup {row} ELSE hintsToday
        /\ HintStep(r, IF approved THEN "delivered" ELSE Regenerate(hintReq[r].calls))
        /\ UNCHANGED <<graded, interactions, hintFaults>>

\* A process failure, or an error nothing catches, ends a request anywhere.
HintFault(r) ==
    /\ hintFaults < MaxHintFaults
    /\ hintReq[r].pc \in HintOpen
    /\ HintStep(r, "failed")
    /\ hintFaults' = hintFaults + 1
    /\ UNCHANGED <<graded, hints, hintsToday, interactions>>

HintMidnight ==
    /\ hintsToday # {}
    /\ hintsToday' = {}
    /\ UNCHANGED <<hintReq, graded, hints, interactions, hintFaults>>

HintNext ==
    \/ \E a \in HintAttempts, outcome \in {"pass", "fail"} : Grade(a, outcome)
    \/ \E r \in HintRequests :
          \/ \E u \in Students, a \in HintAttempts : HintGate(r, u, a)
          \/ ReadLevel(r)
          \/ \E answer \in Answers : CallProvider(r, answer)
          \/ LogInteraction(r)
          \/ InsertHint(r)
          \/ HintFault(r)
    \/ HintMidnight

HintSpec == HintInit /\ [][HintNext]_hintVars
-----------------------------------------------------------------------------
HintTypeOK ==
    /\ hintReq \in [HintRequests -> HintRequest]
    /\ graded \in [HintAttempts -> {"none", "pass", "fail"}]
    /\ hints \subseteq HintRow
    /\ hintsToday \subseteq hints
    /\ interactions \in [HintRequests -> Seq(Verdict)]
    /\ hintFaults \in 0..MaxHintFaults

Sequence == INSTANCE HintSequence
    WITH Attempts <- HintAttempts, MaxLevel <- MaxHintLevel,
         shown <- [a \in HintAttempts |-> ApprovedLevels(a)]

\* hint_state.py: levels are delivered in order and none is skipped, also
\* when requests that read the same level, or an older one, answer late.
DeliversInSequence == Sequence!Spec

\* models.py, "the one row per level that is actually shown": a level is
\* delivered twice on an attempt only by requests that overlapped between
\* reading the level and inserting the hint.
RepeatedOnlyByRace ==
    \A h, g \in hints :
        (/\ h # g /\ h.approved /\ g.approved
         /\ AttemptOf(h) = AttemptOf(g) /\ LevelOf(h) = LevelOf(g))
        => h.by \in hintReq[g.by].beside \/ g.by \in hintReq[h.by].beside

\* The quota is counted without a lock: a student gets at most as many hints
\* over it in a day as requests can be open beside the one that is last.
HintOverrunBounded ==
    \A u \in Students :
        HintQuota[u] # Unlimited =>
            Cardinality(DeliveredToday(u)) < HintQuota[u] + MaxOpenHints

\* models.py, "one row is written per actual provider invocation": the log
\* lacks at most the call a failed request was about to record, and a hint
\* row always has the log row of its own call.
CallsAccountedFor ==
    /\ \A r \in HintRequests :
          \/ Len(interactions[r]) = hintReq[r].calls
          \/ /\ hintReq[r].pc \in {"log", "failed"}
             /\ Len(interactions[r]) + 1 = hintReq[r].calls
    /\ \A h \in hints :
          /\ h.call <= Len(interactions[h.by])
          /\ interactions[h.by][h.call] = (IF h.approved THEN "approved" ELSE "rejected")
=============================================================================
