------------------------------ MODULE MCReview ------------------------------
(* Instances of Review for TLC, without symmetry: liveness is checked.     *)
EXTENDS Review
=============================================================================
