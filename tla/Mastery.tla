------------------------------ MODULE Mastery ------------------------------
(***************************************************************************)
(* The rule of MasteryCalculationService.recalculate (apps/knowledge):     *)
(* the state that a window of evidence gives a concept.  States are their  *)
(* places in STATE_ORDER (mastery_states.py); ratios are percentages.      *)
(***************************************************************************)
EXTENDS Naturals

CONSTANTS
    Window,          \* MASTERY_WINDOW_SIZE
    MinEvidence,     \* MASTERY_MIN_EVIDENCE_FOR_SUFFICIENCY
    ProficientPct,   \* MASTERY_MIN_CORRECTNESS_FOR_PROFICIENT
    MasteredPct,     \* MASTERY_MIN_CORRECTNESS_FOR_MASTERED
    StrongPct        \* MASTERY_MIN_STRONG_RATIO_FOR_MASTERED

ASSUME MasteryAssumption ==
    /\ Window \in Nat \ {0} /\ MinEvidence \in Nat
    /\ ProficientPct \in 0..100 /\ MasteredPct \in 0..100 /\ StrongPct \in 0..100

NotAssessed == 0
Insufficient == 1
Developing == 2
Proficient == 3
Mastered == 4
States == NotAssessed..Mastered

Reaches(part, whole, pct) == part * 100 >= pct * whole

\* Mutant: the share of strong successes is not looked at.
CandidateWithoutStrong(count, passes, strong) ==
    IF count < MinEvidence THEN Insufficient
    ELSE IF Reaches(passes, count, MasteredPct) THEN Mastered
    ELSE IF Reaches(passes, count, ProficientPct) THEN Proficient
    ELSE Developing

\* The state the counts of a window ask for.
Candidate(count, passes, strong) ==
    IF count < MinEvidence THEN Insufficient
    ELSE IF Reaches(passes, count, MasteredPct) /\ Reaches(strong, count, StrongPct)
    THEN Mastered
    ELSE IF Reaches(passes, count, ProficientPct) THEN Proficient
    ELSE Developing

\* No leap from the states without sufficient evidence.
NoJump(previous, candidate) ==
    IF previous <= Insufficient /\ candidate >= Proficient THEN Developing ELSE candidate

\* An active flaw blocks Mastered.
Capped(candidate, flaw) == IF flaw /\ candidate = Mastered THEN Proficient ELSE candidate

\* One step down at a time.
OneStepDown(previous, candidate) ==
    IF candidate < previous /\ candidate < previous - 1 THEN previous - 1 ELSE candidate

NextStateUnclamped(previous, count, passes, strong, flaw) ==
    IF count = 0 THEN NotAssessed
    ELSE Capped(NoJump(previous, Candidate(count, passes, strong)), flaw)

NextStateDespiteFlaw(previous, count, passes, strong, flaw) ==
    IF count = 0 THEN NotAssessed
    ELSE OneStepDown(previous, NoJump(previous, Candidate(count, passes, strong)))

NextState(previous, count, passes, strong, flaw) ==
    IF count = 0 THEN NotAssessed
    ELSE OneStepDown(previous,
             Capped(NoJump(previous, Candidate(count, passes, strong)), flaw))
=============================================================================
