----------------------------- MODULE MCGuidance -----------------------------
(* One instance for the two components that guide a student.  Hints shares *)
(* no variable with Guidance and neither reads the other's, and students   *)
(* only read hints of their own: a behaviour of all is an interleaving of  *)
(* one of each.  TLC explores them apart, the subject of an initial state  *)
(* says which: a student, of whom alone attempts are graded (the requests  *)
(* of the others are refused), or the guidance.                            *)
EXTENDS Hints, Guidance

CONSTANTS a1, a2, s1, s2, m1, l1, c1

VARIABLE subject

allVars == <<hintVars, guidanceVars, subject>>

Init == HintInit /\ GuidanceInit /\ subject \in Students \cup {"guidance"}

HintsOf(u) == HintNext /\ \A a \in HintAttempts : OwnerOf[a] # u => graded'[a] = graded[a]

Next ==
    \/ subject # "guidance" /\ HintsOf(subject) /\ UNCHANGED <<guidanceVars, subject>>
    \/ subject = "guidance" /\ GuidanceNext /\ UNCHANGED <<hintVars, subject>>

Spec == Init /\ [][Next]_allVars
-----------------------------------------------------------------------------
\* A student with a quota of one hint a day, and one without.
MCOwnerOf == [a \in HintAttempts |-> IF a = a1 THEN s1 ELSE s2]
MCHintQuota == [u \in Students |-> IF u = s1 THEN 1 ELSE Unlimited]

MCModuleOf == [l \in Lessons |-> m1]
Write(type, parent, concepts, writable) ==
    [type |-> type, parent |-> parent, concepts |-> concepts,
     complete |-> TRUE, writable |-> writable]

\* A lesson, an exercise of the admin's lesson or of a published one, one
\* that the tables refuse and one without a concept.
MCPayloads ==
    {Write("lesson", m1, {}, TRUE), Write("exercise", l1, {c1}, TRUE),
     Write("exercise", l1, {c1}, FALSE), Write("exercise", l1, {}, TRUE)}
    \cup {Write("exercise", p, {c1}, TRUE) : p \in Publishes}

MCGateReadings == {{"met", "unmet"}, {"unreadable"}}
=============================================================================
