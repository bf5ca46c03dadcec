-------------------------- MODULE SponsoredAttempt --------------------------
(***************************************************************************)
(* What an engine promises the operator of the sponsorship budget, whatever *)
(* its handlers do inside: a reservation is taken once and given back once, *)
(* the payer signs once, and the bytes are only ever on their way while    *)
(* the reservation is held.                                                *)
(***************************************************************************)
VARIABLES
  budget,   \* the reservation: "none", "reserved" or "released"
  signed,   \* the payer has signed
  fate      \* of the bytes: "idle", "underway", "ok" or "err"

promise == <<budget, signed, fate>>

Init == budget = "none" /\ signed = FALSE /\ fate = "idle"

Reserve == budget = "none" /\ budget' = "reserved" /\ UNCHANGED <<signed, fate>>

\* Nothing that was sent can land any more.
Release ==
  /\ budget = "reserved" /\ fate # "underway"
  /\ budget' = "released"
  /\ UNCHANGED <<signed, fate>>

Sign == ~signed /\ signed' = TRUE /\ budget # "none" /\ UNCHANGED <<budget, fate>>

Depart ==
  /\ signed /\ budget = "reserved" /\ fate = "idle"
  /\ fate' = "underway"
  /\ UNCHANGED <<budget, signed>>

\* It lands, or the chain can no longer accept it.
Arrive ==
  /\ fate = "underway"
  /\ fate' \in {"ok", "err", "idle"}
  /\ UNCHANGED <<budget, signed>>

Next == Reserve \/ Release \/ Sign \/ Depart \/ Arrive

Spec == Init /\ [][Next]_promise
=============================================================================
