----------------------------- MODULE MCIdentity -----------------------------
(* Instances of Identity for TLC: requests and spellings are               *)
(* interchangeable.                                                        *)
EXTENDS Identity, TLC

Symmetry == Permutations(Clients) \cup Permutations(Spellings)
=============================================================================
