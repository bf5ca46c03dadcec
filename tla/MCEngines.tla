----------------------------- MODULE MCEngines -----------------------------
(***************************************************************************)
(* Requests for the runs of Engines; each configuration takes some.        *)
(***************************************************************************)
EXTENDS Engines, TLC

CONSTANTS p1, p2, a1, s1, s2, q1

OnePrepare == {p1}
TwoPrepares == {p1, p2}
OneAbort == {a1}
NoAbort == {}
OneSubmit == {s1}
TwoSubmits == {s1, s2}
OnePoll == {q1}
NoPoll == {}

\* The submissions are interchangeable, and so are the prepares.
Symmetry == Permutations(TwoSubmits)

\* States that differ only in a copy nobody will read again are the same state.
LiveCopies == [h \in Handler |-> IF AtRest(h) THEN New ELSE copy[h]]
View == <<db, chain, at, LiveCopies, faults, engine>>
=============================================================================
