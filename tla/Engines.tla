------------------------------ MODULE Engines ------------------------------
(***************************************************************************)
(* The engines side by side: a behaviour is one attempt of one of them.    *)
(* They share the shape of an attempt (module Attempt) and what is asked   *)
(* of it; they differ in the order of their writes, in what a failure      *)
(* undoes and in who looks for the result.                                 *)
(***************************************************************************)
EXTENDS Attempt

VARIABLE engine   \* whose attempt it is

Claim == INSTANCE ClaimEngine
Send == INSTANCE SendEngine
Recover == INSTANCE RecoverEngine
Swap == INSTANCE SwapEngine
Proof == INSTANCE ProofEngine

EngineInit == Init /\ engine \in {"claim", "send", "recover", "swap", "proof"}

EngineNext ==
  /\ UNCHANGED engine
  /\ \/ engine = "claim" /\ Claim!Next
     \/ engine = "send" /\ Send!Next
     \/ engine = "recover" /\ Recover!Next
     \/ engine = "swap" /\ Swap!Next
     \/ engine = "proof" /\ Proof!Next

Spec == EngineInit /\ [][EngineNext]_<<vars, engine>>

(***************************************************************************)
(* A console that has seen its submission recorded asks for the status     *)
(* until it is decided, and what a provider can answer it answers in the   *)
(* end.  Blocks are produced.  Only Claim, Send and Recover can be asked.  *)
(***************************************************************************)
Poll(q) ==
  /\ UNCHANGED engine
  /\ \/ engine = "claim" /\ Claim!Poll(q)
     \/ engine = "send" /\ (Send!PollLoad(q) \/ Send!Pending(q) \/ Send!Settle(q))
     \/ engine = "recover" /\ Recover!Poll(q)

Decided(q, place) ==
  /\ at[q] = place /\ UNCHANGED engine
  /\ \/ engine = "claim" /\ Claim!PollDecided(q)
     \/ engine = "send" /\ Send!Decided(q)
     \/ engine = "recover" /\ Recover!PollDecided(q)

PollSpec ==
  /\ Spec
  /\ WF_<<vars, engine>>(NextBlock /\ UNCHANGED engine)
  /\ \A q \in Polls :
       /\ WF_<<vars, engine>>(Poll(q))
       /\ \A place \in {"observe", "confirm"} : SF_<<vars, engine>>(Decided(q, place))

-----------------------------------------------------------------------------
(***************************************************************************)
(* Whatever was broadcast can be looked for: its signature is in the       *)
(* durable record, and no later failure of a handler takes it out again.   *)
(* The Devnet proof broadcasts first and records afterwards.               *)
(***************************************************************************)
BroadcastIsPersisted == chain.wire /\ engine # "proof" => db.record.signed

(***************************************************************************)
(* When a console sends the requests, every engine but the Devnet proof,   *)
(* which reserves nothing, implements the promise of SponsoredAttempt: the *)
(* payer signs once, and a transaction that was broadcast and may still    *)
(* land is covered by a reservation that none of the ways out gives back.  *)
(***************************************************************************)
MayStillLand == chain.wire /\ chain.landed = "none" /\ chain.height <= LastValid

Sponsored == engine # "proof"
Promise == INSTANCE SponsoredAttempt WITH
  budget <- db.exposure,
  signed <- Sponsored /\ chain.payer > 0,
  fate <- IF ~Sponsored THEN "idle"
          ELSE IF chain.landed # "none" THEN chain.landed
          ELSE IF MayStillLand THEN "underway" ELSE "idle"

KeepsPromise == Promise!Spec

(***************************************************************************)
(* The status requests of a console settle a submission that is on record: *)
(* it does not stay "submitted" with its reservation held.  A Send is left *)
(* out where it fails: its status request needs the quote, and one that    *)
(* landed with an error never reaches its record.                          *)
(***************************************************************************)
Settled == db.record.status \in {"reconciled", "failed"}
SubmittedIsSettled ==
  engine \in {"claim", "send", "recover"} /\ db.record.status = "submitted"
    ~> Settled \/ (engine = "send" /\ (db.quote = Gone \/ chain.landed = "err"))

(***************************************************************************)
(* A record that says failed is not contradicted by the chain, now or      *)
(* later: a user who is told of a failure may try again.  A status request *)
(* of a Recover is the exception: it may call failed what was submitted    *)
(* and landed while it read the heights, but then the transaction's last   *)
(* block is over, so that even there nothing lands after the failure.      *)
(***************************************************************************)
FailedNeverLands ==
  Sponsored /\ db.record.status = "failed" =>
    /\ ~MayStillLand
    /\ chain.landed = "ok" => engine = "recover" /\ chain.height > LastValid
=============================================================================
