----------------------- MODULE MCCrossChainLifecycle -----------------------
(***************************************************************************)
(* Requests for the runs of CrossChainLifecycle.                           *)
(***************************************************************************)
EXTENDS CrossChainLifecycle, TLC

CONSTANTS b1, b2, s1, s2, p1, p2, c1

OneBuild == {b1}
TwoBuilds == {b1, b2}
OneSubmit == {s1}
TwoSubmits == {s1, s2}
OnePoll == {p1}
TwoPolls == {p1, p2}
OneCloser == {c1}
NoCloser == {}
OnePassage == {"depositing"}
OtherPassage == {"refund"}

\* The builds, and the submissions, are interchangeable.
RequestSymmetry == Permutations(TwoBuilds) \cup Permutations(TwoSubmits)
=============================================================================
