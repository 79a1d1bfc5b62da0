---------------------------- MODULE MCKnowledge ----------------------------
(* Instances of Knowledge for TLC: attempts at an exercise on the first     *)
(* concept only (Single) and attempts at one on both concepts (Double).     *)
EXTENDS Knowledge, TLC

CONSTANTS c1, Single, Double

MCAttempts == Single \cup Double
MCConceptsOf == [a \in MCAttempts |-> IF a \in Single THEN {c1} ELSE Concepts]

Symmetry == Permutations(Single) \cup Permutations(Double) \cup Permutations(Workers)
=============================================================================
