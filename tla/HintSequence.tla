---------------------------- MODULE HintSequence ----------------------------
(***************************************************************************)
(* What the AI tutor promises about the hints of one exercise attempt      *)
(* (hint_state.py, "strictly sequential 1->2->3, no skipping"): the levels *)
(* a student has been shown are always 1 up to some level, and grow by the *)
(* next one.                                                               *)
(***************************************************************************)
EXTENDS Naturals

CONSTANTS Attempts, MaxLevel

VARIABLE shown    \* the levels of each attempt that were delivered

Init == shown = [a \in Attempts |-> {}]

Show(a, level) ==
    /\ shown[a] = 1..(level - 1)
    /\ shown' = [shown EXCEPT ![a] = @ \cup {level}]

Next == \E a \in Attempts, level \in 1..MaxLevel : Show(a, level)

Spec == Init /\ [][Next]_shown
=============================================================================
