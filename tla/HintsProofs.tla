----------------------------- MODULE HintsProofs -----------------------------
(***************************************************************************)
(* Proofs about Hints, for any number of requests, attempts, students,     *)
(* levels, provider calls and failures: the types, the refinement of       *)
(* HintSequence, repeated levels, the quota and the log of calls.          *)
(***************************************************************************)
EXTENDS Hints, FiniteSetTheorems, TLAPS

\* Requests that have read their level, and those of them that still run.
Running == {"call", "log", "insert"}
Live == Running \cup {"delivered"}

\* What the program counter of a request says about its locals.
LocalsFit ==
    \A r \in HintRequests :
        /\ hintReq[r].pc \in Live \cup {"level"} => hintReq[r].attempt \in HintAttempts
        /\ hintReq[r].pc \in Live => hintReq[r].level >= 1
        /\ hintReq[r].pc = "call" => hintReq[r].calls < MaxCalls
        /\ hintReq[r].pc \in {"log", "insert"} => hintReq[r].calls >= 1
        /\ hintReq[r].pc = "log" => hintReq[r].verdict \in Verdict
        /\ hintReq[r].pc = "insert" => hintReq[r].verdict \in {"approved", "rejected"}

\* A row is made by a request that has read its level; an approved row is
\* the last thing its request did, and a delivered request has one.
RowsFit ==
    /\ \A h \in hints :
          /\ hintReq[h.by].pc \notin {"new", "level", "refused"}
          /\ AttemptOf(h) \in HintAttempts /\ LevelOf(h) >= 1
          /\ h.approved => hintReq[h.by].pc = "delivered" /\ h.call = hintReq[h.by].calls
    /\ \A r \in HintRequests :
          hintReq[r].pc = "delivered" => \E h \in hints : h.by = r /\ h.approved

\* The delivered levels of an attempt have no gap, and the level a running
\* request has read is at most the next one.
Gapless == \A a \in HintAttempts : \E n \in 0..MaxHintLevel : ApprovedLevels(a) = 1..n
NextAtMost ==
    \A r \in HintRequests, a \in HintAttempts :
        hintReq[r].pc \in Running /\ hintReq[r].attempt = a =>
            1..(hintReq[r].level - 1) \subseteq ApprovedLevels(a)

\* Two requests for one level overlapped, before either of them delivers.
SameLevelOverlaps ==
    \A r, q \in HintRequests :
        (/\ r # q /\ hintReq[r].pc \in Live /\ hintReq[q].pc \in Live
         /\ hintReq[r].attempt = hintReq[q].attempt
         /\ hintReq[r].level = hintReq[q].level)
        => q \in hintReq[r].beside \/ r \in hintReq[q].beside

\* The log is exact except for the call in hand or lost.
LogFits ==
    /\ \A r \in HintRequests :
          /\ hintReq[r].pc \in {"new", "level", "refused"} =>
                hintReq[r].calls = 0 /\ interactions[r] = <<>>
          /\ hintReq[r].pc = "log" => Len(interactions[r]) + 1 = hintReq[r].calls
          /\ hintReq[r].pc = "failed" => Len(interactions[r]) <= hintReq[r].calls
                                         /\ hintReq[r].calls <= Len(interactions[r]) + 1
          /\ hintReq[r].pc \notin {"log", "failed"} => Len(interactions[r]) = hintReq[r].calls
          /\ hintReq[r].pc = "insert" =>
                interactions[r][hintReq[r].calls] = hintReq[r].verdict
    /\ CallsAccountedFor

HintInv ==
    /\ HintTypeOK
    /\ LocalsFit
    /\ RowsFit
    /\ Gapless
    /\ NextAtMost
    /\ SameLevelOverlaps
    /\ LogFits

\* A step leaves what the rows of hints refer to.
RowsKept == \A h \in hints : AttemptOf(h)' = AttemptOf(h) /\ LevelOf(h)' = LevelOf(h)
-----------------------------------------------------------------------------
LEMMA HighestOfPrefix ==
  ASSUME NEW n \in Nat
  PROVE  Highest(1..n) = n
<1>1. n \in {0} \cup 1..n /\ \A k \in {0} \cup 1..n : k <= n
  OBVIOUS
<1>2. \A l \in {0} \cup 1..n : (\A k \in {0} \cup 1..n : k <= l) => l = n
  OBVIOUS
<1>3. QED
  BY <1>1, <1>2 DEF Highest

\* Where rows and what they refer to are kept, so are the delivered levels.
LEMMA LevelsKept ==
  ASSUME hints' = hints, RowsKept
  PROVE  \A a \in HintAttempts : ApprovedLevels(a)' = ApprovedLevels(a)
<1> TAKE a \in HintAttempts
<1>1. Approved(a)' = Approved(a)
  BY DEF Approved, RowsKept
<1>2. \A h \in Approved(a) : LevelOf(h)' = LevelOf(h)
  BY DEF Approved, RowsKept
<1>3. QED
  BY <1>1, <1>2 DEF ApprovedLevels

LEMMA HintInitInv == HintInit => HintInv
<1> SUFFICES ASSUME HintInit PROVE HintInv
  OBVIOUS
<1>1. HintTypeOK
  BY HintsAssumption DEF HintsAssumption, HintInit, HintTypeOK, HintRequest, BlankHint
<1>2. \A a \in HintAttempts : ApprovedLevels(a) = 1..0
  BY DEF HintInit, ApprovedLevels, Approved
<1>3. Gapless
  <2>1. 0 \in 0..MaxHintLevel
    BY HintsAssumption DEF HintsAssumption
  <2>2. QED
    BY <1>2, <2>1 DEF Gapless
<1>4. LocalsFit /\ RowsFit /\ NextAtMost /\ SameLevelOverlaps
  BY DEF HintInit, BlankHint, LocalsFit, RowsFit, NextAtMost, SameLevelOverlaps, Live, Running
<1>5. LogFits
  BY DEF HintInit, BlankHint, LogFits, CallsAccountedFor
<1>6. QED
  BY <1>1, <1>3, <1>4, <1>5 DEF HintInv
-----------------------------------------------------------------------------
\* A step of a running request that makes no row keeps what it has read.
LEMMA NoRowStep ==
  ASSUME HintInv, NEW r \in HintRequests, NEW x \in HintRequest,
         hintReq' = [hintReq EXCEPT ![r] = x], hints' = hints,
         hintReq[r].pc \in HintOpen,
         x.attempt = hintReq[r].attempt, x.level = hintReq[r].level,
         x.beside = hintReq[r].beside,
         x.pc \notin {"new", "level", "refused", "delivered"},
         x.pc \in Running => hintReq[r].pc \in Running
  PROVE  RowsFit' /\ Gapless' /\ NextAtMost' /\ SameLevelOverlaps' /\ RowsKept
<1>1. /\ hintReq \in [HintRequests -> HintRequest] /\ hints \subseteq HintRow
      /\ LocalsFit /\ RowsFit /\ Gapless /\ NextAtMost /\ SameLevelOverlaps
  BY DEF HintInv, HintTypeOK
<1>2. /\ hintReq'[r] = x
      /\ \A q \in HintRequests : q # r => hintReq'[q] = hintReq[q]
  BY <1>1
<1>3. \A q \in HintRequests : /\ hintReq'[q].attempt = hintReq[q].attempt
                              /\ hintReq'[q].level = hintReq[q].level
                              /\ hintReq'[q].beside = hintReq[q].beside
  BY <1>2
<1>4. \A h \in hints : h.by \in HintRequests
  BY <1>1 DEF HintRow
<1>5. RowsKept
  BY <1>3, <1>4 DEF AttemptOf, LevelOf, RowsKept
<1>6. \A a \in HintAttempts : ApprovedLevels(a)' = ApprovedLevels(a)
  BY <1>5, LevelsKept
<1>7. RowsFit'
  <2>1. \A h \in hints : h.by = r => ~h.approved
    BY <1>1 DEF RowsFit, HintOpen
  <2>2. QED
    BY <1>1, <1>2, <1>4, <1>5, <2>1 DEF RowsFit, RowsKept
<1>8. Gapless'
  BY <1>1, <1>6 DEF Gapless
<1>9. \A q \in HintRequests : hintReq'[q].pc \in Live => hintReq[q].pc \in Live
  BY <1>2 DEF Live
<1>10. NextAtMost'
  BY <1>1, <1>2, <1>3, <1>6 DEF NextAtMost
<1>11. SameLevelOverlaps'
  BY <1>1, <1>3, <1>9 DEF SameLevelOverlaps
<1>12. QED
  BY <1>5, <1>7, <1>8, <1>10, <1>11

\* A request that has not read its level has no row: whatever it becomes, the
\* rows and their levels stay.
LEMMA FreshStep ==
  ASSUME HintInv, NEW r \in HintRequests, NEW x \in HintRequest,
         hintReq' = [hintReq EXCEPT ![r] = x], hints' = hints,
         hintReq[r].pc \in {"new", "level"}, x.pc # "delivered"
  PROVE  /\ RowsFit' /\ Gapless'
         /\ RowsKept /\ \A h \in hints : h.by # r
<1>1. /\ hintReq \in [HintRequests -> HintRequest] /\ hints \subseteq HintRow
      /\ RowsFit /\ Gapless
  BY DEF HintInv, HintTypeOK
<1>2. /\ hintReq'[r] = x
      /\ \A q \in HintRequests : q # r => hintReq'[q] = hintReq[q]
  BY <1>1
<1>3. \A h \in hints : h.by \in HintRequests /\ h.by # r
  BY <1>1 DEF HintRow, RowsFit
<1>4. RowsKept
  BY <1>2, <1>3 DEF AttemptOf, LevelOf, RowsKept
<1>5. RowsFit'
  BY <1>1, <1>2, <1>3, <1>4 DEF RowsFit, RowsKept
<1>6. Gapless'
  BY <1>1, <1>4, LevelsKept DEF Gapless
<1>7. QED
  BY <1>3, <1>4, <1>5, <1>6

LEMMA GateInv ==
  ASSUME HintInv, NEW r \in HintRequests, NEW u \in Students, NEW a \in HintAttempts,
         HintGate(r, u, a)
  PROVE  HintInv' /\ RowsKept
<1> DEFINE x == hintReq'[r]
<1>1. /\ HintTypeOK /\ LocalsFit /\ NextAtMost /\ SameLevelOverlaps /\ LogFits
      /\ hintReq[r].pc = "new"
      /\ UNCHANGED <<graded, hints, hintsToday, interactions, hintFaults>>
  BY DEF HintInv, HintGate
<1>2. /\ x \in {BlankHint("refused"), [BlankHint("level") EXCEPT !.attempt = a]}
      /\ hintReq' = [hintReq EXCEPT ![r] = x]
  BY <1>1 DEF HintGate, HintTypeOK
<1>3. x \in HintRequest /\ x.pc \in {"refused", "level"} /\ x.calls = 0
      /\ (x.pc = "level" => x.attempt = a)
  BY <1>2, HintsAssumption DEF HintsAssumption, BlankHint, HintRequest, HintOpen, HintOver
<1>4. /\ hintReq \in [HintRequests -> HintRequest]
      /\ \A q \in HintRequests : q # r => hintReq'[q] = hintReq[q]
  BY <1>1, <1>2 DEF HintTypeOK
<1> HIDE DEF x
<1>5. RowsFit' /\ Gapless'
      /\ RowsKept /\ \A h \in hints : h.by # r
  BY <1>1, <1>2, <1>3, FreshStep
<1>6. HintTypeOK'
  BY <1>1, <1>2, <1>3 DEF HintTypeOK
<1>7. LocalsFit'
  BY <1>1, <1>2, <1>3, <1>4 DEF LocalsFit, Live, Running
<1>8. NextAtMost'
  BY <1>1, <1>2, <1>3, <1>4, <1>5, LevelsKept DEF NextAtMost, Running
<1>9. SameLevelOverlaps'
  BY <1>1, <1>2, <1>3, <1>4 DEF SameLevelOverlaps, Live, Running
<1>10. LogFits'
  <2>1. \A q \in HintRequests : hintReq'[q].calls = hintReq[q].calls
    BY <1>1, <1>2, <1>3, <1>4 DEF LogFits
  <2>2. CallsAccountedFor'
    BY <2>1, <1>1, <1>2, <1>3, <1>4 DEF LogFits, CallsAccountedFor
  <2>3. QED
    BY <2>1, <2>2, <1>1, <1>2, <1>3, <1>4 DEF LogFits
<1>11. QED
  BY <1>5, <1>6, <1>7, <1>8, <1>9, <1>10 DEF HintInv

\* The request reads the next level; those that run on the same level are
\* beside it, and none has delivered it.
LEMMA ReadLevelInv ==
  ASSUME HintInv, NEW r \in HintRequests, ReadLevel(r)
  PROVE  HintInv' /\ RowsKept
<1> DEFINE a == hintReq[r].attempt
           x == hintReq'[r]
<1>1. /\ HintTypeOK /\ LocalsFit /\ Gapless /\ NextAtMost /\ SameLevelOverlaps
      /\ LogFits /\ RowsFit /\ hintReq[r].pc = "level"
      /\ UNCHANGED <<graded, hints, hintsToday, interactions, hintFaults>>
  BY DEF HintInv, ReadLevel
<1>2. /\ hintReq \in [HintRequests -> HintRequest] /\ hintReq[r] \in HintRequest
      /\ MaxHintLevel \in Nat /\ MaxCalls \in Nat /\ a \in HintAttempts
  BY <1>1, HintsAssumption DEF HintsAssumption, HintTypeOK, LocalsFit
<1>3. PICK n \in 0..MaxHintLevel : ApprovedLevels(a) = 1..n
  BY <1>1, <1>2 DEF Gapless
<1>4. CurrentLevel(a) = n
  BY <1>3, HighestOfPrefix DEF CurrentLevel
<1>5. /\ hintReq' = [hintReq EXCEPT ![r] = x]
      /\ \/ x = BlankHint("refused")
         \/ /\ n < MaxHintLevel
            /\ x = [hintReq[r] EXCEPT !.pc = Regenerate(0), !.level = n + 1,
                                      !.beside = Generating(a)]
  BY <1>1, <1>2, <1>3, <1>4 DEF ReadLevel
<1>6. Generating(a) \in SUBSET HintRequests /\ r \notin Generating(a)
  BY <1>1 DEF Generating
<1>7. Regenerate(0) \in {"call", "ai_unavailable"} /\ (Regenerate(0) = "call" => 0 < MaxCalls)
  BY DEF Regenerate
<1>8. /\ x \in HintRequest /\ x.calls = hintReq[r].calls
      /\ x.pc \in {"refused", "call", "ai_unavailable"}
      /\ x.pc = "call" => /\ x.attempt = a /\ x.level = n + 1 /\ x.beside = Generating(a)
                          /\ x.calls < MaxCalls
  <2>1. CASE x = BlankHint("refused")
    <3>1. hintReq[r].calls = 0
      BY <1>1 DEF LogFits
    <3>2. x \in HintRequest
      BY <2>1, <1>2 DEF BlankHint, HintRequest, HintOver
    <3>3. QED
      BY <2>1, <3>1, <3>2 DEF BlankHint
  <2>2. CASE /\ n < MaxHintLevel
             /\ x = [hintReq[r] EXCEPT !.pc = Regenerate(0), !.level = n + 1,
                                       !.beside = Generating(a)]
    <3>1. hintReq[r].calls = 0
      BY <1>1 DEF LogFits
    <3>2. n + 1 \in 0..MaxHintLevel
      BY <2>2, <1>2, <1>3
    <3>3. x \in HintRequest
      BY <2>2, <3>2, <1>2, <1>6, <1>7 DEF HintRequest, HintOpen, HintOver
    <3>4. /\ x.pc = Regenerate(0) /\ x.level = n + 1 /\ x.beside = Generating(a)
          /\ x.attempt = hintReq[r].attempt /\ x.calls = hintReq[r].calls
      BY <2>2, <1>2 DEF HintRequest
    <3>5. QED
      BY <3>1, <3>3, <3>4, <1>7
  <2>3. QED
    BY <1>5, <2>1, <2>2
<1>9. \A q \in HintRequests : q # r => hintReq'[q] = hintReq[q]
  BY <1>2, <1>5
<1> HIDE DEF x, a
<1>10. RowsFit' /\ Gapless'
       /\ RowsKept /\ \A h \in hints : h.by # r
  BY <1>1, <1>5, <1>8, FreshStep
<1>11. HintTypeOK'
  BY <1>1, <1>5, <1>8 DEF HintTypeOK
<1>12. LocalsFit'
  BY <1>1, <1>2, <1>3, <1>5, <1>8, <1>9 DEF LocalsFit, Live, Running, x
<1>13. NextAtMost'
  <2> SUFFICES ASSUME NEW q \in HintRequests, NEW b \in HintAttempts,
                      hintReq'[q].pc \in Running, hintReq'[q].attempt = b
               PROVE  1..(hintReq'[q].level - 1) \subseteq ApprovedLevels(b)'
    BY DEF NextAtMost
  <2>1. ApprovedLevels(b)' = ApprovedLevels(b)
    BY <1>1, <1>10, LevelsKept
  <2>2. CASE q = r
    <3>1. b = a /\ hintReq'[q].level - 1 = n
      BY <2>2, <1>3, <1>8 DEF Running, x
    <3>2. QED
      BY <2>1, <3>1, <1>3
  <2>3. CASE q # r
    BY <2>1, <2>3, <1>1, <1>9 DEF NextAtMost
  <2>4. QED
    BY <2>2, <2>3
<1>14. SameLevelOverlaps'
  <2>1. ASSUME NEW q \in HintRequests, q # r, hintReq'[r].pc \in Live,
               hintReq'[q].pc \in Live, hintReq'[q].attempt = hintReq'[r].attempt,
               hintReq'[q].level = hintReq'[r].level
        PROVE  q \in hintReq'[r].beside
    <3>1. hintReq'[q] = hintReq[q] /\ hintReq[q].attempt = a /\ hintReq[q].level = n + 1
          /\ hintReq'[r].beside = Generating(a)
      BY <2>1, <1>8, <1>9 DEF Live, Running, x
    <3>2. hintReq[q].pc # "delivered"
      <4> SUFFICES ASSUME hintReq[q].pc = "delivered" PROVE FALSE
        OBVIOUS
      <4>1. PICK h \in hints : h.by = q /\ h.approved
        BY <1>1 DEF RowsFit
      <4>2. n + 1 \in ApprovedLevels(a)
        BY <3>1, <4>1 DEF ApprovedLevels, Approved, AttemptOf, LevelOf
      <4>3. QED
        BY <4>2, <1>3
    <3>3. QED
      BY <2>1, <3>1, <3>2 DEF Generating, Live, Running
  <2>2. QED
    BY <2>1, <1>1, <1>9 DEF SameLevelOverlaps
<1>15. LogFits'
  <2>1. \A q \in HintRequests : hintReq'[q].calls = hintReq[q].calls
    BY <1>8, <1>9 DEF x
  <2>2. hintReq'[r].calls = 0 /\ interactions[r] = <<>>
    BY <2>1, <1>1 DEF LogFits
  <2>3. CallsAccountedFor'
    BY <2>1, <2>2, <1>1, <1>8, <1>9 DEF LogFits, CallsAccountedFor
  <2>4. QED
    BY <2>1, <2>2, <2>3, <1>1, <1>8, <1>9 DEF LogFits, x
<1>16. QED
  BY <1>10, <1>11, <1>12, <1>13, <1>14, <1>15 DEF HintInv

LEMMA CallProviderInv ==
  ASSUME HintInv, NEW r \in HintRequests, NEW answer \in Answers, CallProvider(r, answer)
  PROVE  HintInv' /\ RowsKept
<1> DEFINE x == hintReq'[r]
<1>1. /\ HintTypeOK /\ LocalsFit /\ LogFits /\ hintReq[r].pc = "call"
      /\ UNCHANGED <<graded, hints, hintsToday, interactions, hintFaults>>
  BY DEF HintInv, CallProvider
<1>2. /\ hintReq \in [HintRequests -> HintRequest] /\ hintReq[r] \in HintRequest
      /\ MaxCalls \in Nat /\ hintReq[r].calls < MaxCalls
  BY <1>1, HintsAssumption DEF HintsAssumption, HintTypeOK, LocalsFit
<1> DEFINE verdict == PolicyResult(answer, hintReq[r].level)
<1>3. verdict \in Verdict
  BY DEF Answers, PolicyResult, Verdict
<1> DEFINE calls == hintReq[r].calls
<1>4. /\ hintReq' = [hintReq EXCEPT ![r] = x]
      /\ x = [hintReq[r] EXCEPT !.pc = "log", !.calls = calls + 1, !.verdict = verdict]
  <2>1. hintReq' = [hintReq EXCEPT ![r] =
            [hintReq[r] EXCEPT !.pc = "log", !.calls = calls + 1, !.verdict = verdict]]
    BY ZenonT(20) DEF CallProvider
  <2>2. QED
    BY <2>1, <1>2
<1>12. calls + 1 \in 0..MaxCalls
  BY <1>2 DEF HintRequest
<1> HIDE DEF verdict
<1>5. /\ x \in HintRequest /\ x.pc = "log" /\ x.calls = hintReq[r].calls + 1
      /\ x.verdict = verdict /\ x.attempt = hintReq[r].attempt
      /\ x.level = hintReq[r].level /\ x.beside = hintReq[r].beside
  BY <1>2, <1>3, <1>4, <1>12 DEF HintRequest, HintOpen
<1>6. \A q \in HintRequests : q # r => hintReq'[q] = hintReq[q]
  BY <1>2, <1>4
<1> HIDE DEF x, calls
<1>7. RowsFit' /\ Gapless' /\ NextAtMost' /\ SameLevelOverlaps' /\ RowsKept
  BY <1>1, <1>4, <1>5, NoRowStep DEF Running, HintOpen
<1>8. HintTypeOK'
  BY <1>1, <1>4, <1>5 DEF HintTypeOK
<1>9. LocalsFit'
  BY <1>1, <1>2, <1>3, <1>5, <1>6 DEF LocalsFit, Live, Running, HintRequest, x
<1>10. LogFits'
  <2>1. Len(interactions[r]) = hintReq[r].calls
    BY <1>1 DEF LogFits
  <2>2. CallsAccountedFor'
    BY <2>1, <1>1, <1>5, <1>6 DEF LogFits, CallsAccountedFor, x
  <2>3. QED
    BY <2>1, <2>2, <1>1, <1>5, <1>6 DEF LogFits, x
<1>11. QED
  BY <1>7, <1>8, <1>9, <1>10 DEF HintInv

LEMMA LogInteractionInv ==
  ASSUME HintInv, NEW r \in HintRequests, LogInteraction(r)
  PROVE  HintInv' /\ RowsKept
<1> DEFINE x == hintReq'[r]
           verdict == hintReq[r].verdict
           calls == hintReq[r].calls
           log == Append(interactions[r], verdict)
<1>1. /\ HintTypeOK /\ LocalsFit /\ LogFits /\ hintReq[r].pc = "log"
      /\ UNCHANGED <<graded, hints, hintsToday, hintFaults>>
      /\ interactions' = [interactions EXCEPT ![r] = log]
  BY DEF HintInv, LogInteraction
<1>2. /\ hintReq \in [HintRequests -> HintRequest] /\ hintReq[r] \in HintRequest
      /\ verdict \in Verdict /\ calls \in Nat /\ calls >= 1
      /\ interactions \in [HintRequests -> Seq(Verdict)] /\ interactions[r] \in Seq(Verdict)
      /\ Len(interactions[r]) + 1 = calls
  BY <1>1, HintsAssumption DEF HintsAssumption, HintTypeOK, LocalsFit, LogFits, HintRequest
<1> DEFINE pc == x.pc
<1>3. /\ hintReq' = [hintReq EXCEPT ![r] = x] /\ x = [hintReq[r] EXCEPT !.pc = pc]
      /\ pc \in {"ai_unavailable", "call", "insert"}
      /\ pc = "call" => calls < MaxCalls
      /\ pc = "insert" => verdict \in {"approved", "rejected"}
  BY <1>1, <1>2 DEF LogInteraction, HintStep, Regenerate, HintRequest, Verdict
<1>4. /\ x \in HintRequest /\ x.calls = calls /\ x.verdict = verdict
      /\ x.attempt = hintReq[r].attempt /\ x.level = hintReq[r].level
      /\ x.beside = hintReq[r].beside
  BY <1>2, <1>3 DEF HintRequest, HintOpen, HintOver
<1>5. \A q \in HintRequests : q # r => hintReq'[q] = hintReq[q] /\ interactions'[q] = interactions[q]
  BY <1>1, <1>2, <1>3
<1>6. /\ log \in Seq(Verdict) /\ Len(log) = calls /\ log[calls] = verdict
      /\ \A k \in 1..Len(interactions[r]) : log[k] = interactions[r][k]
      /\ interactions'[r] = log
  BY <1>1, <1>2
<1> HIDE DEF x, log, verdict, calls
<1>7. RowsFit' /\ Gapless' /\ NextAtMost' /\ SameLevelOverlaps' /\ RowsKept
  BY <1>1, <1>3, <1>4, NoRowStep DEF Running, HintOpen
<1>8. HintTypeOK'
  BY <1>1, <1>2, <1>3, <1>4, <1>6 DEF HintTypeOK
<1>9. LocalsFit'
  BY <1>1, <1>2, <1>3, <1>4, <1>5 DEF LocalsFit, Live, Running, x, verdict
<1>10. LogFits'
  <2>1. \A h \in hints : h.by = r => h.call \in 1..Len(interactions[r])
    BY <1>1 DEF HintTypeOK, HintRow, LogFits, CallsAccountedFor
  <2>2. \A h \in hints : h.by \in HintRequests
    BY <1>1 DEF HintTypeOK, HintRow
  <2>3. \A q \in HintRequests : hintReq'[q].calls = hintReq[q].calls
    BY <1>4, <1>5 DEF x, calls
  <2>4. \A h \in hints :
           /\ h.call <= Len(interactions'[h.by])
           /\ interactions'[h.by][h.call] = (IF h.approved THEN "approved" ELSE "rejected")
    <3> TAKE h \in hints
    <3>1. /\ h.call <= Len(interactions[h.by])
          /\ interactions[h.by][h.call] = (IF h.approved THEN "approved" ELSE "rejected")
      BY <1>1 DEF LogFits, CallsAccountedFor
    <3>2. CASE h.by = r
      <4>1. h.call \in 1..Len(interactions[r]) /\ log[h.call] = interactions[r][h.call]
        BY <2>1, <3>2, <1>6
      <4>2. h.call <= Len(log)
        BY <4>1, <1>2, <1>6
      <4>3. QED
        BY <3>1, <3>2, <4>1, <4>2, <1>6
    <3>3. CASE h.by # r
      BY <3>1, <3>3, <2>2, <1>5
    <3>4. QED
      BY <3>2, <3>3
  <2>5. CallsAccountedFor'
    BY <2>3, <2>4, <1>1, <1>5, <1>6 DEF LogFits, CallsAccountedFor, calls
  <2>6. QED
    BY <2>3, <2>5, <1>1, <1>3, <1>4, <1>5, <1>6 DEF LogFits, x, calls
<1>11. QED
  BY <1>7, <1>8, <1>9, <1>10 DEF HintInv

\* The row's level is the next one or one that is there already.
LEMMA InsertHintInv ==
  ASSUME HintInv, NEW r \in HintRequests, InsertHint(r),
         NEW a, NEW level, hintReq[r].attempt = a, hintReq[r].level = level
  PROVE  /\ HintInv' /\ RowsKept
         /\ a \in HintAttempts /\ level \in 1..MaxHintLevel
         /\ \A b \in HintAttempts : b # a => ApprovedLevels(b)' = ApprovedLevels(b)
         /\ \/ ApprovedLevels(a)' = ApprovedLevels(a)
            \/ /\ ApprovedLevels(a) = 1..(level - 1)
               /\ ApprovedLevels(a)' = ApprovedLevels(a) \cup {level}
<1> DEFINE x == hintReq'[r]
<1>1. /\ HintTypeOK /\ LocalsFit /\ RowsFit /\ Gapless /\ NextAtMost
      /\ SameLevelOverlaps /\ LogFits /\ hintReq[r].pc = "insert"
      /\ UNCHANGED <<graded, interactions, hintFaults>>
  BY DEF HintInv, InsertHint
<1>2. /\ hintReq \in [HintRequests -> HintRequest] /\ hintReq[r] \in HintRequest
      /\ MaxCalls \in Nat /\ MaxHintLevel \in Nat /\ hints \subseteq HintRow
      /\ hintsToday \subseteq hints
      /\ hintReq[r].calls \in 1..MaxCalls /\ a \in HintAttempts /\ level \in 1..MaxHintLevel
      /\ hintReq[r].verdict \in {"approved", "rejected"}
  BY <1>1, HintsAssumption DEF HintsAssumption, HintTypeOK, LocalsFit, HintRequest, Live, Running
<1>6. PICK row \in HintRow :
        row = [by |-> r, call |-> hintReq[r].calls, approved |-> hintReq[r].verdict = "approved"]
  <2>1. [by |-> r, call |-> hintReq[r].calls, approved |-> hintReq[r].verdict = "approved"]
           \in HintRow
    BY <1>2, Zenon DEF HintRow
  <2>2. QED
    BY <2>1, Zenon
<1>61. /\ row.by = r /\ row.call = hintReq[r].calls /\ row.approved \in BOOLEAN
       /\ row.approved <=> hintReq[r].verdict = "approved"
  BY <1>6
<1>62. /\ hints' = hints \cup {row}
       /\ hintsToday' = IF row.approved THEN hintsToday \cup {row} ELSE hintsToday
       /\ HintStep(r, IF row.approved THEN "delivered" ELSE Regenerate(hintReq[r].calls))
  BY <1>6 DEF InsertHint
<1>3. /\ hintReq' = [hintReq EXCEPT ![r] = x] /\ x = [hintReq[r] EXCEPT !.pc = x.pc]
      /\ row.approved => x.pc = "delivered"
      /\ ~row.approved => x.pc \in {"call", "ai_unavailable"}
      /\ x.pc = "call" => hintReq[r].calls < MaxCalls
  BY <1>2, <1>61, <1>62 DEF HintStep, Regenerate, HintRequest
<1>4. /\ x \in HintRequest /\ x.calls = hintReq[r].calls /\ x.attempt = a
      /\ x.level = level /\ x.beside = hintReq[r].beside
  BY <1>2, <1>3, <1>61 DEF HintRequest, HintOpen, HintOver
<1>5. \A q \in HintRequests : q # r => hintReq'[q] = hintReq[q]
  BY <1>2, <1>3
<1> HIDE DEF x
<1>7. \A q \in HintRequests : /\ hintReq'[q].attempt = hintReq[q].attempt
                              /\ hintReq'[q].level = hintReq[q].level
                              /\ hintReq'[q].beside = hintReq[q].beside
                              /\ hintReq'[q].calls = hintReq[q].calls
  BY <1>4, <1>5 DEF x
<1>8. \A h \in hints : h.by \in HintRequests
  BY <1>2 DEF HintRow
<1>9. RowsKept /\ AttemptOf(row)' = a /\ LevelOf(row)' = level
  BY <1>61, <1>7, <1>8 DEF AttemptOf, LevelOf, RowsKept
<1>10. \A h \in hints : h.by = r => ~h.approved
  BY <1>1 DEF RowsFit
<1>11. \A b \in HintAttempts :
          ApprovedLevels(b)' = ApprovedLevels(b) \cup (IF row.approved /\ a = b THEN {level} ELSE {})
  <2> TAKE b \in HintAttempts
  <2>1. Approved(b)' = Approved(b) \cup (IF row.approved /\ a = b THEN {row} ELSE {})
    BY <1>62, <1>9 DEF Approved, RowsKept
  <2>2. \A h \in Approved(b) : LevelOf(h)' = LevelOf(h)
    BY <1>9 DEF Approved, RowsKept
  <2>3. QED
    BY <2>1, <2>2, <1>9 DEF ApprovedLevels
<1>12. PICK n \in 0..MaxHintLevel : ApprovedLevels(a) = 1..n
  BY <1>1, <1>2 DEF Gapless
<1>13. level - 1 <= n
  <2>1. 1..(level - 1) \subseteq 1..n
    BY <1>1, <1>2, <1>12 DEF NextAtMost, Running
  <2>2. QED
    BY <2>1, <1>2, <1>12
<1>14. \/ ApprovedLevels(a)' = ApprovedLevels(a)
       \/ /\ level = n + 1
          /\ ApprovedLevels(a)' = ApprovedLevels(a) \cup {level}
  <2>1. CASE level = n + 1
    <3>1. CASE row.approved
      BY <2>1, <3>1, <1>2, <1>11
    <3>2. CASE ~row.approved
      BY <3>2, <1>2, <1>11
    <3>3. QED
      BY <3>1, <3>2
  <2>2. CASE level # n + 1
    <3>1. level \in ApprovedLevels(a)
      BY <2>2, <1>2, <1>12, <1>13
    <3>2. QED
      BY <3>1, <1>2, <1>11
  <2>3. QED
    BY <2>1, <2>2
<1>15. Gapless'
  <2> SUFFICES ASSUME NEW b \in HintAttempts
               PROVE  \E m \in 0..MaxHintLevel : ApprovedLevels(b)' = 1..m
    BY DEF Gapless
  <2>1. CASE b # a
    <3>1. ApprovedLevels(b)' = ApprovedLevels(b)
      BY <2>1, <1>11
    <3>2. QED
      BY <3>1, <1>1 DEF Gapless
  <2>2. CASE b = a /\ ApprovedLevels(a)' = ApprovedLevels(a)
    BY <2>2, <1>12
  <2>3. CASE b = a /\ level = n + 1 /\ ApprovedLevels(a)' = ApprovedLevels(a) \cup {level}
    <3>1. n + 1 \in 0..MaxHintLevel /\ (1..n) \cup {n + 1} = 1..(n + 1)
      BY <2>3, <1>2
    <3>2. QED
      BY <2>3, <3>1, <1>12
  <2>4. QED
    BY <2>1, <2>2, <2>3, <1>14
<1>16. HintTypeOK'
  BY <1>1, <1>2, <1>3, <1>4, <1>62 DEF HintTypeOK
<1>17. LocalsFit'
  BY <1>1, <1>2, <1>3, <1>4, <1>5 DEF LocalsFit, Live, Running, x
<1>18. RowsFit'
  <2>1. \A h \in hints : h.by # r => hintReq'[h.by] = hintReq[h.by]
    BY <1>5, <1>8
  <2>2. hintReq'[r].pc \notin {"new", "level", "refused"}
    BY <1>3 DEF x
  <2>3. ASSUME NEW h \in hints'
        PROVE  /\ hintReq'[h.by].pc \notin {"new", "level", "refused"}
               /\ AttemptOf(h)' \in HintAttempts /\ LevelOf(h)' >= 1
    <3>1. CASE h = row
      BY <3>1, <2>2, <1>2, <1>9, <1>61
    <3>2. CASE h \in hints
      BY <3>2, <2>1, <2>2, <1>1, <1>9 DEF RowsFit, RowsKept
    <3>3. QED
      BY <3>1, <3>2, <1>62
  <2>4. ASSUME NEW h \in hints', h.approved
        PROVE  hintReq'[h.by].pc = "delivered" /\ h.call = hintReq'[h.by].calls
    <3>1. CASE h = row
      BY <3>1, <2>4, <1>3, <1>4, <1>61 DEF x
    <3>2. CASE h \in hints
      BY <3>2, <2>1, <2>4, <1>1, <1>10 DEF RowsFit
    <3>3. QED
      BY <3>1, <3>2, <1>62
  <2>5. ASSUME NEW q \in HintRequests, hintReq'[q].pc = "delivered"
        PROVE  \E h \in hints' : h.by = q /\ h.approved
    <3>1. CASE q = r
      BY <3>1, <2>5, <1>3, <1>61, <1>62 DEF x
    <3>2. CASE q # r
      BY <3>2, <2>5, <1>1, <1>5, <1>62 DEF RowsFit
    <3>3. QED
      BY <3>1, <3>2
  <2>6. QED
    BY <2>3, <2>4, <2>5 DEF RowsFit
<1>19. NextAtMost'
  <2> SUFFICES ASSUME NEW q \in HintRequests, NEW b \in HintAttempts,
                      hintReq'[q].pc \in Running, hintReq'[q].attempt = b
               PROVE  1..(hintReq'[q].level - 1) \subseteq ApprovedLevels(b)'
    BY DEF NextAtMost
  <2>1. hintReq[q].pc \in Running
    BY <1>1, <1>5 DEF Running
  <2>2. 1..(hintReq[q].level - 1) \subseteq ApprovedLevels(b)
    BY <2>1, <1>1, <1>7 DEF NextAtMost
  <2>3. QED
    BY <2>2, <1>7, <1>11
<1>20. SameLevelOverlaps'
  <2>1. \A q \in HintRequests : hintReq'[q].pc \in Live => hintReq[q].pc \in Live
    BY <1>1, <1>5 DEF Live, Running
  <2>2. QED
    BY <2>1, <1>1, <1>7 DEF SameLevelOverlaps
<1>21. LogFits'
  <2>1. /\ Len(interactions[r]) = hintReq[r].calls
        /\ interactions[r][hintReq[r].calls] = hintReq[r].verdict
    BY <1>1 DEF LogFits
  <2>2. /\ row.call <= Len(interactions[row.by])
        /\ interactions[row.by][row.call] = (IF row.approved THEN "approved" ELSE "rejected")
    BY <2>1, <1>2, <1>61
  <2>3. \A h \in hints' :
           /\ h.call <= Len(interactions'[h.by])
           /\ interactions'[h.by][h.call] = (IF h.approved THEN "approved" ELSE "rejected")
    BY <2>2, <1>1, <1>62 DEF LogFits, CallsAccountedFor
  <2>4. hintReq'[r].pc \in {"delivered", "call", "ai_unavailable"}
    BY <1>3, <1>61 DEF x
  <2>5. CallsAccountedFor'
    BY <2>1, <2>3, <2>4, <1>1, <1>5, <1>7 DEF LogFits, CallsAccountedFor
  <2>6. QED
    BY <2>1, <2>4, <2>5, <1>1, <1>5, <1>7 DEF LogFits
<1>22. HintInv'
  BY <1>15, <1>16, <1>17, <1>18, <1>19, <1>20, <1>21 DEF HintInv
<1>23. level = n + 1 => ApprovedLevels(a) = 1..(level - 1)
  BY <1>2, <1>12
<1>24. \A b \in HintAttempts : b # a => ApprovedLevels(b)' = ApprovedLevels(b)
  BY <1>11
<1>25. QED
  BY <1>2, <1>9, <1>14, <1>22, <1>23, <1>24

LEMMA HintFaultInv ==
  ASSUME HintInv, NEW r \in HintRequests, HintFault(r)
  PROVE  HintInv' /\ RowsKept
<1> DEFINE x == [hintReq[r] EXCEPT !.pc = "failed"]
<1>1. /\ HintTypeOK /\ LocalsFit /\ LogFits /\ hintReq[r].pc \in HintOpen
      /\ UNCHANGED <<graded, hints, hintsToday, interactions>>
      /\ hintFaults < MaxHintFaults /\ hintFaults' = hintFaults + 1
  BY DEF HintInv, HintFault
<1>2. /\ hintReq \in [HintRequests -> HintRequest] /\ hintReq[r] \in HintRequest
      /\ MaxHintFaults \in Nat /\ interactions \in [HintRequests -> Seq(Verdict)]
  BY <1>1, HintsAssumption DEF HintsAssumption, HintTypeOK
<1>3. hintReq' = [hintReq EXCEPT ![r] = x]
  BY <1>2 DEF HintFault, HintStep
<1>4. /\ x \in HintRequest /\ x.pc = "failed" /\ x.calls = hintReq[r].calls
      /\ x.attempt = hintReq[r].attempt /\ x.level = hintReq[r].level
      /\ x.beside = hintReq[r].beside
  BY <1>2 DEF HintRequest, HintOver
<1> HIDE DEF x
<1>5. hintReq'[r] = x /\ \A q \in HintRequests : q # r => hintReq'[q] = hintReq[q]
  BY <1>2, <1>3
<1>6. RowsFit' /\ Gapless' /\ NextAtMost' /\ SameLevelOverlaps' /\ RowsKept
  BY <1>1, <1>3, <1>4, NoRowStep DEF Running
<1>7. HintTypeOK'
  <2>1. hintFaults' \in 0..MaxHintFaults
    BY <1>1, <1>2 DEF HintTypeOK
  <2>2. QED
    BY <2>1, <1>1, <1>3, <1>4 DEF HintTypeOK
<1>8. LocalsFit'
  BY <1>1, <1>4, <1>5 DEF LocalsFit, Live, Running
<1>9. LogFits'
  <2>1. Len(interactions[r]) <= hintReq[r].calls /\ hintReq[r].calls <= Len(interactions[r]) + 1
    BY <1>1, <1>2 DEF LogFits, HintOpen
  <2>2. \/ Len(interactions[r]) = hintReq[r].calls
        \/ Len(interactions[r]) + 1 = hintReq[r].calls
    BY <1>1, <1>2 DEF LogFits, HintOpen
  <2>3. CallsAccountedFor'
    BY <2>2, <1>1, <1>4, <1>5 DEF LogFits, CallsAccountedFor
  <2>4. QED
    BY <2>1, <2>3, <1>1, <1>4, <1>5 DEF LogFits
<1>10. QED
  BY <1>6, <1>7, <1>8, <1>9 DEF HintInv

\* What other steps there are touches no request and no row.
LEMMA OtherRowsInv ==
  ASSUME HintInv, UNCHANGED <<hintReq, hints, interactions, hintFaults>>,
         graded' \in [HintAttempts -> {"none", "pass", "fail"}], hintsToday' \subseteq hints
  PROVE  HintInv' /\ RowsKept
<1>1. RowsKept
  BY DEF RowsKept, AttemptOf, LevelOf
<1>2. \A a \in HintAttempts : ApprovedLevels(a)' = ApprovedLevels(a)
  BY <1>1, LevelsKept
<1>3. HintTypeOK' /\ LocalsFit' /\ LogFits' /\ SameLevelOverlaps'
  BY DEF HintInv, HintTypeOK, LocalsFit, LogFits, CallsAccountedFor, SameLevelOverlaps
<1>4. RowsFit'
  BY <1>1 DEF HintInv, RowsFit, RowsKept
<1>5. Gapless' /\ NextAtMost'
  BY <1>2 DEF HintInv, Gapless, NextAtMost
<1>6. QED
  BY <1>1, <1>3, <1>4, <1>5 DEF HintInv

\* Every step but an insertion keeps the invariant and the rows.
LEMMA HintNextInv ==
  ASSUME HintInv, [HintNext]_hintVars
  PROVE  /\ HintInv' /\ RowsKept
         /\ hints' = hints \/ \E r \in HintRequests : InsertHint(r)
<1>1. HintTypeOK
  BY DEF HintInv
<1>2. ASSUME NEW a \in HintAttempts, NEW outcome \in {"pass", "fail"}, Grade(a, outcome)
      PROVE  HintInv' /\ RowsKept /\ hints' = hints
  <2>1. graded' \in [HintAttempts -> {"none", "pass", "fail"}]
    BY <1>1, <1>2 DEF Grade, HintTypeOK
  <2>2. QED
    BY <2>1, <1>1, <1>2, OtherRowsInv DEF Grade, HintTypeOK
<1>3. ASSUME NEW r \in HintRequests, NEW u \in Students, NEW a \in HintAttempts,
             HintGate(r, u, a)
      PROVE  HintInv' /\ RowsKept /\ hints' = hints
  BY <1>3, GateInv DEF HintGate
<1>4. ASSUME NEW r \in HintRequests, ReadLevel(r)
      PROVE  HintInv' /\ RowsKept /\ hints' = hints
  <2>1. hints' = hints
    BY <1>4 DEF ReadLevel
  <2>2. QED
    BY <2>1, <1>4, ReadLevelInv
<1>5. ASSUME NEW r \in HintRequests, NEW answer \in Answers, CallProvider(r, answer)
      PROVE  HintInv' /\ RowsKept /\ hints' = hints
  <2>1. hints' = hints
    BY <1>5, Zenon DEF CallProvider
  <2>2. QED
    BY <2>1, <1>5, CallProviderInv
<1>6. ASSUME NEW r \in HintRequests, LogInteraction(r)
      PROVE  HintInv' /\ RowsKept /\ hints' = hints
  BY <1>6, LogInteractionInv DEF LogInteraction
<1>7. ASSUME NEW r \in HintRequests, InsertHint(r)
      PROVE  HintInv' /\ RowsKept
  BY <1>7, InsertHintInv
<1>8. ASSUME NEW r \in HintRequests, HintFault(r)
      PROVE  HintInv' /\ RowsKept /\ hints' = hints
  BY <1>8, HintFaultInv DEF HintFault
<1>9. CASE HintMidnight
  BY <1>1, <1>9, OtherRowsInv DEF HintMidnight, HintTypeOK
<1>10. CASE UNCHANGED hintVars
  BY <1>1, <1>10, OtherRowsInv DEF hintVars, HintTypeOK
<1>11. QED
  BY <1>2, <1>3, <1>4, <1>5, <1>6, <1>7, <1>8, <1>9, <1>10 DEF HintNext, HintMidnight, hintVars

LEMMA AlwaysHintInv == HintSpec => []HintInv
<1>1. HintInv /\ [HintNext]_hintVars => HintInv'
  BY HintNextInv
<1>2. QED
  BY HintInitInv, <1>1, PTL DEF HintSpec

\* The variables keep their types: levels and calls stay within their limits
\* and a hint of today is a row of hints.
THEOREM HintTypeCorrect == HintSpec => []HintTypeOK
<1>1. HintInv => HintTypeOK
  BY DEF HintInv
<1>2. QED
  BY <1>1, AlwaysHintInv, PTL

\* The log of provider calls lacks at most the one that a failed request was
\* about to record, and each row of hints has the verdict logged for its call.
THEOREM CallsLogged == HintSpec => []CallsAccountedFor
<1>1. HintInv => CallsAccountedFor
  BY DEF HintInv, LogFits
<1>2. QED
  BY <1>1, AlwaysHintInv, PTL

\* A level is delivered twice on an attempt only by requests that overlapped:
\* one that starts after another has delivered reads that level.
THEOREM RepeatsNeedRace == HintSpec => []RepeatedOnlyByRace
<1>1. HintInv => RepeatedOnlyByRace
  <2> SUFFICES ASSUME HintInv, NEW h \in hints, NEW g \in hints,
                      h # g, h.approved, g.approved,
                      AttemptOf(h) = AttemptOf(g), LevelOf(h) = LevelOf(g)
               PROVE  h.by \in hintReq[g.by].beside \/ g.by \in hintReq[h.by].beside
    BY DEF RepeatedOnlyByRace
  <2>1. h \in HintRow /\ g \in HintRow
    BY DEF HintInv, HintTypeOK
  <2>2. /\ hintReq[h.by].pc = "delivered" /\ h.call = hintReq[h.by].calls
        /\ hintReq[g.by].pc = "delivered" /\ g.call = hintReq[g.by].calls
    BY DEF HintInv, RowsFit
  <2>3. h.by # g.by
    <3> SUFFICES ASSUME h.by = g.by PROVE h = g
      OBVIOUS
    <3>1. h.call = g.call /\ h.approved = g.approved
      BY <2>1, <2>2 DEF HintRow
    <3>2. QED
      BY <2>1, <3>1 DEF HintRow
  <2>4. h.by \in HintRequests /\ g.by \in HintRequests
    BY <2>1 DEF HintRow
  <2>5. QED
    BY <2>2, <2>3, <2>4 DEF HintInv, SameLevelOverlaps, AttemptOf, LevelOf, Live
<1>2. QED
  BY <1>1, AlwaysHintInv, PTL
-----------------------------------------------------------------------------
(* The levels delivered on an attempt are shown in sequence.               *)

LEMMA HintStepMaps ==
  ASSUME HintInv, [HintNext]_hintVars
  PROVE  [Sequence!Next]_([a \in HintAttempts |-> ApprovedLevels(a)])
<1> DEFINE shown == [a \in HintAttempts |-> ApprovedLevels(a)]
<1>1. ASSUME \A a \in HintAttempts : ApprovedLevels(a)' = ApprovedLevels(a)
      PROVE  shown' = shown
  BY <1>1
<1>2. CASE hints' = hints
  BY <1>1, <1>2, HintNextInv, LevelsKept
<1>3. ASSUME NEW r \in HintRequests, InsertHint(r) PROVE Sequence!Next \/ shown' = shown
  <2>1. PICK a, level : hintReq[r].attempt = a /\ hintReq[r].level = level
    OBVIOUS
  <2>2. /\ a \in HintAttempts /\ level \in 1..MaxHintLevel
        /\ \A b \in HintAttempts : b # a => ApprovedLevels(b)' = ApprovedLevels(b)
        /\ \/ ApprovedLevels(a)' = ApprovedLevels(a)
           \/ /\ ApprovedLevels(a) = 1..(level - 1)
              /\ ApprovedLevels(a)' = ApprovedLevels(a) \cup {level}
    BY <1>3, <2>1, InsertHintInv
  <2>3. CASE ApprovedLevels(a)' = ApprovedLevels(a)
    <3>1. \A b \in HintAttempts : ApprovedLevels(b)' = ApprovedLevels(b)
      BY <2>2, <2>3
    <3>2. QED
      BY <1>1, <3>1
  <2>4. CASE /\ ApprovedLevels(a) = 1..(level - 1)
             /\ ApprovedLevels(a)' = ApprovedLevels(a) \cup {level}
    <3>1. shown[a] = 1..(level - 1)
      BY <2>2, <2>4
    <3>2. shown' = [shown EXCEPT ![a] = @ \cup {level}]
      BY <2>2, <2>4
    <3>3. QED
      BY <2>2, <3>1, <3>2 DEF Sequence!Next, Sequence!Show
  <2>5. QED
    BY <2>2, <2>3, <2>4
<1>4. QED
  BY <1>2, <1>3, HintNextInv

\* Hints are delivered in order and none is skipped, for any number of
\* requests that read a level at the same time and answer in any order.
THEOREM SequenceImplemented == HintSpec => DeliversInSequence
<1>1. HintInit => Sequence!Init
  BY DEF HintInit, Sequence!Init, ApprovedLevels, Approved
<1>2. HintInv /\ [HintNext]_hintVars
        => [Sequence!Next]_([a \in HintAttempts |-> ApprovedLevels(a)])
  BY HintStepMaps
<1>3. QED
  BY <1>1, <1>2, AlwaysHintInv, PTL DEF HintSpec, DeliversInSequence, Sequence!Spec
-----------------------------------------------------------------------------
(* The quota.  A request that was let through when hints were left counts  *)
(* against the limit until it ends: what it may still deliver is bounded   *)
(* by the number of requests that are open.                                *)

OpenHintsOf(u) == {r \in OpenHints : OwnerOf[hintReq[r].attempt] = u}

QuotaInv ==
    /\ IsFiniteSet(hintsToday)
    /\ \A h \in hintsToday : h.approved
    /\ Cardinality(OpenHints) <= MaxOpenHints
    /\ \A u \in Students :
          HintQuota[u] # Unlimited =>
             /\ HintQuota[u] = 0 => OpenHintsOf(u) = {}
             /\ Cardinality(DeliveredToday(u)) + Cardinality(OpenHintsOf(u))
                   < HintQuota[u] + MaxOpenHints

LEMMA CountOf ==
  ASSUME NEW S, IsFiniteSet(S)
  PROVE  Cardinality(S) \in Nat
BY FS_CardinalityType

LEMMA CountFewer ==
  ASSUME NEW S, IsFiniteSet(S), NEW T, T \subseteq S
  PROVE  /\ IsFiniteSet(T) /\ Cardinality(T) \in Nat /\ Cardinality(S) \in Nat
         /\ Cardinality(T) <= Cardinality(S)
BY FS_Subset, FS_CardinalityType

LEMMA CountOneMore ==
  ASSUME NEW S, IsFiniteSet(S), NEW x, NEW T, T \subseteq S \cup {x}
  PROVE  IsFiniteSet(T) /\ Cardinality(T) <= Cardinality(S) + 1
<1>1. IsFiniteSet(S \cup {x})
  BY FS_AddElement
<1>2. Cardinality(S) \in Nat /\ Cardinality(S \cup {x}) \in {Cardinality(S), Cardinality(S) + 1}
  BY FS_AddElement, CountOf, Zenon
<1>3. IsFiniteSet(T) /\ Cardinality(T) \in Nat /\ Cardinality(T) <= Cardinality(S \cup {x})
  BY <1>1, CountFewer
<1>4. QED
  BY <1>2, <1>3

LEMMA CountOneLess ==
  ASSUME NEW S, IsFiniteSet(S), NEW x \in S, NEW T, T \subseteq S \ {x}
  PROVE  Cardinality(T) + 1 <= Cardinality(S)
<1>1. IsFiniteSet(S \ {x}) /\ Cardinality(S \ {x}) = Cardinality(S) - 1
  BY FS_RemoveElement, Zenon
<1>2. Cardinality(S) \in Nat /\ Cardinality(T) \in Nat /\ Cardinality(T) <= Cardinality(S \ {x})
  BY <1>1, CountFewer, CountOf
<1>3. QED
  BY <1>1, <1>2

LEMMA OpenFinite ==
  /\ IsFiniteSet(OpenHints)
  /\ \A u \in Students : IsFiniteSet(OpenHintsOf(u)) /\ OpenHintsOf(u) \subseteq OpenHints
<1>1. IsFiniteSet(OpenHints)
  BY HintsAssumption, FS_Subset DEF HintsAssumption, OpenHints
<1>2. \A u \in Students : OpenHintsOf(u) \subseteq OpenHints
  BY DEF OpenHintsOf
<1>3. QED
  BY <1>1, <1>2, FS_Subset

\* Requests that end or stay as they are, and rows that leave the day, take
\* nothing from the quota.
LEMMA FewerOpen ==
  ASSUME QuotaInv, OpenHints' \subseteq OpenHints, hintsToday' \subseteq hintsToday,
         \A u \in Students : /\ OpenHintsOf(u)' \subseteq OpenHintsOf(u)
                             /\ DeliveredToday(u)' \subseteq DeliveredToday(u)
  PROVE  QuotaInv'
<1>1. IsFiniteSet(hintsToday') /\ \A h \in hintsToday' : h.approved
  BY FS_Subset DEF QuotaInv
<1>2. Cardinality(OpenHints') <= MaxOpenHints
  <2>1. Cardinality(OpenHints') \in Nat /\ Cardinality(OpenHints) \in Nat
        /\ Cardinality(OpenHints') <= Cardinality(OpenHints)
    BY OpenFinite, CountFewer
  <2>2. Cardinality(OpenHints) <= MaxOpenHints /\ MaxOpenHints \in Nat
    BY HintsAssumption DEF QuotaInv, HintsAssumption
  <2>3. QED
    BY <2>1, <2>2
<1>3. ASSUME NEW u \in Students, HintQuota[u] # Unlimited
      PROVE  /\ HintQuota[u] = 0 => OpenHintsOf(u)' = {}
             /\ Cardinality(DeliveredToday(u)') + Cardinality(OpenHintsOf(u)')
                   < HintQuota[u] + MaxOpenHints
  <2>1. /\ HintQuota[u] = 0 => OpenHintsOf(u) = {}
        /\ Cardinality(DeliveredToday(u)) + Cardinality(OpenHintsOf(u))
              < HintQuota[u] + MaxOpenHints
    BY <1>3 DEF QuotaInv
  <2>2. HintQuota[u] \in Nat /\ MaxOpenHints \in Nat
    BY <1>3, HintsAssumption DEF HintsAssumption
  <2>3. /\ Cardinality(OpenHintsOf(u)') \in Nat /\ Cardinality(OpenHintsOf(u)) \in Nat
        /\ Cardinality(OpenHintsOf(u)') <= Cardinality(OpenHintsOf(u))
    BY OpenFinite, CountFewer
  <2>4. IsFiniteSet(DeliveredToday(u))
    BY FS_Subset DEF QuotaInv, DeliveredToday
  <2>5. /\ Cardinality(DeliveredToday(u)') \in Nat /\ Cardinality(DeliveredToday(u)) \in Nat
        /\ Cardinality(DeliveredToday(u)') <= Cardinality(DeliveredToday(u))
    BY <2>4, CountFewer
  <2>6. QED
    BY <2>1, <2>2, <2>3, <2>5
<1>4. QED
  BY <1>1, <1>2, <1>3 DEF QuotaInv

\* One request moves on or ends, and no hint is delivered.
LEMMA MovesOn ==
  ASSUME HintInv, QuotaInv, RowsKept, hintsToday' \subseteq hintsToday,
         NEW r \in HintRequests, hintReq' = [hintReq EXCEPT ![r] = hintReq'[r]],
         hintReq'[r].pc \in HintOpen =>
            hintReq[r].pc \in HintOpen /\ hintReq'[r].attempt = hintReq[r].attempt
  PROVE  QuotaInv'
<1>1. \A q \in HintRequests : q # r => hintReq'[q] = hintReq[q]
  BY DEF HintInv, HintTypeOK
<1>2. OpenHints' \subseteq OpenHints
  BY <1>1 DEF OpenHints
<1>3. ASSUME NEW u \in Students
      PROVE  /\ OpenHintsOf(u)' \subseteq OpenHintsOf(u)
             /\ DeliveredToday(u)' \subseteq DeliveredToday(u)
  <2>1. hintsToday' \subseteq hints
    BY DEF HintInv, HintTypeOK
  <2>2. DeliveredToday(u)' \subseteq DeliveredToday(u)
    BY <2>1 DEF DeliveredToday, RowsKept
  <2>3. OpenHintsOf(u)' \subseteq OpenHintsOf(u)
    BY <1>1 DEF OpenHintsOf, OpenHints
  <2>4. QED
    BY <2>2, <2>3
<1>4. QED
  BY <1>2, <1>3, FewerOpen

\* A student is let through while the quota is not spent: all who are open
\* then are at most MaxOpenHints.
LEMMA GateQuota ==
  ASSUME HintInv, QuotaInv, RowsKept, NEW r \in HintRequests, NEW v \in Students,
         NEW a \in HintAttempts, HintGate(r, v, a)
  PROVE  QuotaInv'
<1>1. /\ hintReq[r].pc = "new" /\ Cardinality(OpenHints) < MaxOpenHints
      /\ UNCHANGED <<hints, hintsToday>> /\ hintReq \in [HintRequests -> HintRequest]
      /\ hintsToday \subseteq hints
  BY DEF HintGate, HintInv, HintTypeOK
<1>2. CASE hintReq' = [hintReq EXCEPT ![r] = BlankHint("refused")]
  <2>1. hintReq' = [hintReq EXCEPT ![r] = hintReq'[r]] /\ hintReq'[r].pc \notin HintOpen
    BY <1>1, <1>2 DEF BlankHint, HintOpen
  <2>2. QED
    BY <1>1, <2>1, MovesOn
<1>3. CASE /\ OwnerOf[a] = v /\ ~QuotaSpent(v)
           /\ hintReq' = [hintReq EXCEPT ![r] = [BlankHint("level") EXCEPT !.attempt = a]]
  <2>1. /\ hintReq'[r].attempt = a
        /\ \A q \in HintRequests : q # r => hintReq'[q] = hintReq[q]
    BY <1>1, <1>3 DEF BlankHint
  <2>2. OpenHints' \subseteq OpenHints \cup {r}
    BY <2>1 DEF OpenHints
  <2>3. Cardinality(OpenHints') <= MaxOpenHints
    <3>1. Cardinality(OpenHints') <= Cardinality(OpenHints) + 1
      BY <2>2, OpenFinite, CountOneMore
    <3>2. MaxOpenHints \in Nat
      BY HintsAssumption DEF HintsAssumption
    <3>3. IsFiniteSet(OpenHints) /\ IsFiniteSet(OpenHints')
      BY OpenFinite, <2>2, CountOneMore
    <3>4. Cardinality(OpenHints) \in Nat /\ Cardinality(OpenHints') \in Nat
      BY <3>3, CountOf
    <3>5. QED
      BY <1>1, <3>1, <3>2, <3>4
  <2>4. ASSUME NEW u \in Students, HintQuota[u] # Unlimited
        PROVE  /\ HintQuota[u] = 0 => OpenHintsOf(u)' = {}
               /\ Cardinality(DeliveredToday(u)') + Cardinality(OpenHintsOf(u)')
                     < HintQuota[u] + MaxOpenHints
    <3>1. DeliveredToday(u)' = DeliveredToday(u) /\ IsFiniteSet(DeliveredToday(u))
      BY <1>1, FS_Subset DEF DeliveredToday, RowsKept, QuotaInv
    <3>2. /\ HintQuota[u] = 0 => OpenHintsOf(u) = {}
          /\ Cardinality(DeliveredToday(u)) + Cardinality(OpenHintsOf(u))
                < HintQuota[u] + MaxOpenHints
      BY <2>4 DEF QuotaInv
    <3>3. /\ HintQuota[u] \in Nat /\ MaxOpenHints \in Nat
          /\ Cardinality(DeliveredToday(u)) \in Nat
      BY <2>4, <3>1, CountOf, HintsAssumption DEF HintsAssumption
    <3>4. CASE u # v
      <4>1. OpenHintsOf(u)' = OpenHintsOf(u)
        BY <1>1, <1>3, <2>1, <3>4 DEF OpenHintsOf, OpenHints, HintOpen
      <4>2. QED
        BY <3>1, <3>2, <4>1
    <3>5. CASE u = v
      <4>1. Cardinality(DeliveredToday(u)) < HintQuota[u]
        BY <1>3, <2>4, <3>3, <3>5 DEF QuotaSpent
      <4>2. /\ Cardinality(OpenHintsOf(u)') <= Cardinality(OpenHints')
            /\ Cardinality(OpenHintsOf(u)') \in Nat /\ Cardinality(OpenHints') \in Nat
        <5>1. IsFiniteSet(OpenHints') /\ OpenHintsOf(u)' \subseteq OpenHints'
          BY <2>2, OpenFinite, CountOneMore DEF OpenHintsOf
        <5>2. QED
          BY <5>1, CountFewer
      <4>3. QED
        BY <2>3, <3>1, <3>3, <4>1, <4>2
    <3>6. QED
      BY <3>4, <3>5
  <2>5. QED
    BY <1>1, <2>3, <2>4 DEF QuotaInv
<1>4. QED
  BY <1>2, <1>3 DEF HintGate

\* A delivered hint takes the place of the request that asked for it.
LEMMA InsertQuota ==
  ASSUME HintInv, QuotaInv, RowsKept, NEW r \in HintRequests, InsertHint(r)
  PROVE  QuotaInv'
<1>1. /\ hintReq \in [HintRequests -> HintRequest] /\ hintReq[r] \in HintRequest
      /\ hintReq[r].pc = "insert" /\ hintsToday \subseteq hints
  BY DEF InsertHint, HintInv, HintTypeOK
<1>2. CASE hintReq[r].verdict # "approved"
  <2>1. hintsToday' = hintsToday
    BY <1>2 DEF InsertHint
  <2>2. /\ hintReq' = [hintReq EXCEPT ![r] = hintReq'[r]]
        /\ hintReq'[r].attempt = hintReq[r].attempt
    BY <1>1 DEF InsertHint, HintStep, HintRequest
  <2>3. QED
    BY <1>1, <2>1, <2>2, MovesOn DEF HintOpen
<1>3. CASE hintReq[r].verdict = "approved"
  <2>1. PICK row : /\ row.by = r /\ row.approved /\ hintsToday' = hintsToday \cup {row}
    <3>1. hintsToday' = hintsToday \cup
             {[by |-> r, call |-> hintReq[r].calls, approved |-> hintReq[r].verdict = "approved"]}
      BY <1>3 DEF InsertHint
    <3>2. PICK row : row = [by |-> r, call |-> hintReq[r].calls,
                            approved |-> hintReq[r].verdict = "approved"]
      OBVIOUS
    <3>3. row.by = r /\ row.approved
      BY <1>3, <3>2
    <3>4. hintsToday' = hintsToday \cup {row}
      BY <3>1, <3>2
    <3>5. QED
      BY <3>3, <3>4
  <2>2. /\ hintReq'[r].pc = "delivered" /\ hintReq'[r].attempt = hintReq[r].attempt
        /\ \A q \in HintRequests : q # r => hintReq'[q] = hintReq[q]
    <3>1. hintReq' = [hintReq EXCEPT ![r].pc = "delivered"]
      BY <1>3 DEF InsertHint, HintStep
    <3>2. QED
      BY <1>1, <3>1 DEF HintRequest
  <2>3. OpenHints' \subseteq OpenHints \ {r} /\ r \in OpenHints
    BY <1>1, <2>2 DEF OpenHints, HintOpen
  <2>4. Cardinality(OpenHints') <= MaxOpenHints
    <3>1. /\ Cardinality(OpenHints') <= Cardinality(OpenHints)
          /\ Cardinality(OpenHints) \in Nat /\ Cardinality(OpenHints') \in Nat
      BY <2>3, OpenFinite, CountFewer
    <3>2. Cardinality(OpenHints) <= MaxOpenHints /\ MaxOpenHints \in Nat
      BY HintsAssumption DEF QuotaInv, HintsAssumption
    <3>3. QED
      BY <3>1, <3>2
  <2>5. IsFiniteSet(hintsToday') /\ \A h \in hintsToday' : h.approved
    BY <2>1, FS_AddElement DEF QuotaInv
  <2>6. ASSUME NEW u \in Students, HintQuota[u] # Unlimited
        PROVE  /\ HintQuota[u] = 0 => OpenHintsOf(u)' = {}
               /\ Cardinality(DeliveredToday(u)') + Cardinality(OpenHintsOf(u)')
                     < HintQuota[u] + MaxOpenHints
    <3>1. IsFiniteSet(DeliveredToday(u))
      BY FS_Subset DEF DeliveredToday, QuotaInv
    <3>2. /\ HintQuota[u] = 0 => OpenHintsOf(u) = {}
          /\ Cardinality(DeliveredToday(u)) + Cardinality(OpenHintsOf(u))
                < HintQuota[u] + MaxOpenHints
      BY <2>6 DEF QuotaInv
    <3>3. /\ HintQuota[u] \in Nat /\ MaxOpenHints \in Nat
          /\ Cardinality(DeliveredToday(u)) \in Nat /\ Cardinality(OpenHintsOf(u)) \in Nat
      BY <2>6, <3>1, OpenFinite, CountOf, HintsAssumption DEF HintsAssumption
    <3>4. OpenHintsOf(u)' \subseteq OpenHintsOf(u)
      BY <2>2, <2>3 DEF OpenHintsOf, OpenHints
    <3>5. CASE OwnerOf[hintReq[r].attempt] = u
      <4>1. DeliveredToday(u)' \subseteq DeliveredToday(u) \cup {row}
        BY <1>1, <2>1 DEF DeliveredToday, RowsKept
      <4>2. OpenHintsOf(u)' \subseteq OpenHintsOf(u) \ {r} /\ r \in OpenHintsOf(u)
        BY <2>3, <3>4, <3>5 DEF OpenHintsOf
      <4>3. /\ Cardinality(DeliveredToday(u)') <= Cardinality(DeliveredToday(u)) + 1
            /\ Cardinality(DeliveredToday(u)') \in Nat
        BY <3>1, <4>1, CountOneMore, CountOf
      <4>4. /\ Cardinality(OpenHintsOf(u)') + 1 <= Cardinality(OpenHintsOf(u))
            /\ Cardinality(OpenHintsOf(u)') \in Nat
        BY <4>2, OpenFinite, CountOneLess, FS_Subset, CountOf
      <4>5. QED
        BY <3>2, <3>3, <3>4, <4>3, <4>4
    <3>6. CASE OwnerOf[hintReq[r].attempt] # u
      <4>1. DeliveredToday(u)' \subseteq DeliveredToday(u)
        BY <1>1, <2>1, <2>2, <3>6 DEF DeliveredToday, RowsKept, AttemptOf
      <4>2. /\ Cardinality(DeliveredToday(u)') <= Cardinality(DeliveredToday(u))
            /\ Cardinality(DeliveredToday(u)') \in Nat
        BY <3>1, <4>1, CountFewer
      <4>3. /\ Cardinality(OpenHintsOf(u)') <= Cardinality(OpenHintsOf(u))
            /\ Cardinality(OpenHintsOf(u)') \in Nat
        BY <3>4, OpenFinite, CountFewer
      <4>4. QED
        BY <3>2, <3>3, <3>4, <4>2, <4>3
    <3>7. QED
      BY <3>5, <3>6
  <2>7. QED
    BY <2>4, <2>5, <2>6 DEF QuotaInv
<1>4. QED
  BY <1>2, <1>3

LEMMA QuotaNext ==
  ASSUME HintInv, QuotaInv, [HintNext]_hintVars
  PROVE  QuotaInv'
<1>1. RowsKept /\ HintTypeOK
  BY HintNextInv DEF HintInv
<1>2. ASSUME NEW r \in HintRequests, NEW u \in Students, NEW a \in HintAttempts,
             HintGate(r, u, a)
      PROVE  QuotaInv'
  BY <1>1, <1>2, GateQuota
<1>3. ASSUME NEW r \in HintRequests, hintsToday' = hintsToday,
             hintReq' = [hintReq EXCEPT ![r] = hintReq'[r]],
             hintReq'[r].pc \in HintOpen =>
                hintReq[r].pc \in HintOpen /\ hintReq'[r].attempt = hintReq[r].attempt
      PROVE  QuotaInv'
  BY <1>1, <1>3, MovesOn
<1>4. ASSUME NEW r \in HintRequests, ReadLevel(r)
      PROVE  QuotaInv'
  BY <1>1, <1>3, <1>4 DEF ReadLevel, BlankHint, HintOpen, HintTypeOK, HintRequest
<1>5. ASSUME NEW r \in HintRequests, NEW answer \in Answers, CallProvider(r, answer)
      PROVE  QuotaInv'
  <2> DEFINE verdict == PolicyResult(answer, hintReq[r].level)
  <2>1. /\ hintReq' = [hintReq EXCEPT ![r] =
              [@ EXCEPT !.pc = "log", !.calls = hintReq[r].calls + 1, !.verdict = verdict]]
        /\ hintReq[r].pc = "call" /\ hintsToday' = hintsToday
    BY <1>5, Zenon DEF CallProvider
  <2> HIDE DEF verdict
  <2>2. QED
    BY <1>1, <1>3, <2>1 DEF HintOpen, HintTypeOK, HintRequest
<1>6. ASSUME NEW r \in HintRequests, NEW pc, HintStep(r, pc), hintsToday' = hintsToday,
             hintReq[r].pc \in HintOpen
      PROVE  QuotaInv'
  <2>1. hintReq \in [HintRequests -> HintRequest] /\ hintReq[r] \in HintRequest
    BY <1>1 DEF HintTypeOK
  <2>2. /\ hintReq' = [hintReq EXCEPT ![r] = hintReq'[r]]
        /\ hintReq'[r].attempt = hintReq[r].attempt
    BY <1>6, <2>1 DEF HintStep, HintRequest
  <2>3. QED
    BY <1>3, <1>6, <2>2
<1>7. ASSUME NEW r \in HintRequests, LogInteraction(r)
      PROVE  QuotaInv'
  <2>1. PICK pc : HintStep(r, pc)
    BY <1>7 DEF LogInteraction
  <2>2. QED
    BY <1>6, <1>7, <2>1 DEF LogInteraction, HintOpen
<1>8. ASSUME NEW r \in HintRequests, InsertHint(r)
      PROVE  QuotaInv'
  BY <1>1, <1>8, InsertQuota
<1>9. ASSUME NEW r \in HintRequests, HintFault(r)
      PROVE  QuotaInv'
  BY <1>6, <1>9 DEF HintFault
<1>10. ASSUME hintReq' = hintReq, hintsToday' \subseteq hintsToday
       PROVE  QuotaInv'
  <2>1. OpenHints' = OpenHints
    BY <1>10 DEF OpenHints
  <2>2. \A u \in Students : OpenHintsOf(u)' = OpenHintsOf(u)
    BY <1>10 DEF OpenHintsOf, OpenHints
  <2>3. \A u \in Students : DeliveredToday(u)' \subseteq DeliveredToday(u)
    BY <1>10 DEF DeliveredToday, AttemptOf
  <2>4. QED
    BY <1>10, <2>1, <2>2, <2>3, FewerOpen
<1>11. QED
  BY <1>2, <1>4, <1>5, <1>7, <1>8, <1>9, <1>10
     DEF HintNext, hintVars, Grade, HintMidnight

\* A student's delivered hints of a day exceed the quota by less than the
\* number of hint requests that can be open at one time.
THEOREM HintOverrun == HintSpec => []HintOverrunBounded
<1>1. HintInit => QuotaInv
  <2> SUFFICES ASSUME HintInit PROVE QuotaInv
    OBVIOUS
  <2>1. /\ OpenHints = {} /\ hintsToday = {}
        /\ \A u \in Students : OpenHintsOf(u) = {} /\ DeliveredToday(u) = {}
    BY DEF HintInit, BlankHint, OpenHints, HintOpen, OpenHintsOf, DeliveredToday
  <2>2. Cardinality({}) = 0 /\ IsFiniteSet({})
    BY FS_EmptySet
  <2>3. MaxOpenHints \in Nat \ {0}
        /\ \A u \in Students : HintQuota[u] # Unlimited => HintQuota[u] \in Nat
    BY HintsAssumption DEF HintsAssumption
  <2>4. QED
    BY <2>1, <2>2, <2>3 DEF QuotaInv
<1>2. HintInv /\ QuotaInv /\ [HintNext]_hintVars => QuotaInv'
  BY QuotaNext
<1>3. QuotaInv => HintOverrunBounded
  <2> SUFFICES ASSUME QuotaInv, NEW u \in Students, HintQuota[u] # Unlimited
               PROVE  Cardinality(DeliveredToday(u)) < HintQuota[u] + MaxOpenHints
    BY DEF HintOverrunBounded
  <2>1. IsFiniteSet(DeliveredToday(u))
    BY FS_Subset DEF DeliveredToday, QuotaInv
  <2>2. /\ HintQuota[u] \in Nat /\ MaxOpenHints \in Nat
        /\ Cardinality(DeliveredToday(u)) \in Nat /\ Cardinality(OpenHintsOf(u)) \in Nat
    BY <2>1, OpenFinite, CountOf, HintsAssumption DEF HintsAssumption
  <2>3. QED
    BY <2>2 DEF QuotaInv
<1>4. QED
  BY <1>1, <1>2, <1>3, AlwaysHintInv, PTL DEF HintSpec
=============================================================================
