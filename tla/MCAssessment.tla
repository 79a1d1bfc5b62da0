---------------------------- MODULE MCAssessment ----------------------------
(* Instances of Assessment for TLC: items, workers and the requests of one  *)
(* student are interchangeable.                                             *)
EXTENDS Assessment, TLC

Symmetry ==
    Permutations(Items) \cup Permutations(Workers) \cup Permutations(Prefixes)
    \cup Permutations(Starters) \cup Permutations(Submissions)
=============================================================================
