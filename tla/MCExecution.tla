---------------------------- MODULE MCExecution ----------------------------
(* Instances of Execution for TLC: an exercise with MCTests test cases,    *)
(* one without any and one that is not published; one user with a daily    *)
(* quota of one and one without.                                           *)
EXTENDS Execution, TLC

CONSTANTS u1, u2, e0, e1, eDraft, MCTests

MCTestCount == [e \in Exercises |-> IF e = e1 THEN MCTests ELSE 0]
MCDailyQuota == [u \in Users |-> IF u = u1 THEN 1 ELSE NoQuota]
MCPublished == Exercises \ {eDraft}

Symmetry == Permutations(Requests) \cup Permutations(Keys)
=============================================================================
