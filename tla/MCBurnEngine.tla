---------------------------- MODULE MCBurnEngine ----------------------------
(***************************************************************************)
(* Requests for the runs of BurnEngine; each configuration takes some.     *)
(***************************************************************************)
EXTENDS BurnEngine, TLC

CONSTANTS p1, a1, s1, s2, q1

OnePrepare == {p1}
OneAbort == {a1}
NoAbort == {}
OneSubmit == {s1}
TwoSubmits == {s1, s2}
OnePoll == {q1}

\* The two submissions are interchangeable.
SubmitSymmetry == Permutations(TwoSubmits)

\* States that differ only in a copy nobody will read again are the same state.
HoldsCopy(h) == pc[h] \in {"save_prepared", "save_window", "reserve", "activate", "cross",
                           "lock", "check", "persist", "save", "mark", "undo", "giveback",
                           "close"}
LiveCopies == [h \in Handler |-> IF HoldsCopy(h) THEN copy[h] ELSE Created]
View == <<quote, record, lock, exposure, accounted, payer, wire, landed, height,
          pc, LiveCopies, faults>>
=============================================================================
