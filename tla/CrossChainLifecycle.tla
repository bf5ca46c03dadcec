------------------------ MODULE CrossChainLifecycle ------------------------
(***************************************************************************)
(* The sponsored source transaction of one cross-chain quote, from its     *)
(* preparation to the word of Relay on the destination                     *)
(* (server/cross-chain/lifecycle.ts, called by service.ts).                *)
(*                                                                         *)
(* Here GASLESS signs first: the payer's signature is on the bytes the     *)
(* user is given.  There is one durable record per quote, as the intents   *)
(* have a unique quote, but every build of the quote has a transaction     *)
(* identity, and a reservation, of its own.  Handlers interleave at their  *)
(* awaits; a handler that dies is one that takes no further step.          *)
(*                                                                         *)
(* Left out: the intent's status and the audit events, written and never   *)
(* read; the requests refused before they change anything; the identity    *)
(* and the value of what is moved, which are checked on the bytes.         *)
(***************************************************************************)
EXTENDS Integers, FiniteSets

CONSTANTS
  Builds, Submits, Polls, Closers,   \* the requests that arrive
  Client,          \* the status requests of a client that keeps asking
  None,            \* no build, no submission
  Underway,        \* what Relay may answer for a deposit between landing and the end
  SoundProviders,  \* providers are of the right network and statuses final
  LastValid,       \* lastValidBlockHeight of the prepared transaction
  Margin,          \* the blocks that must be left before the broadcast
  MaxHeight,       \* bound: the last block of the run
  MaxFaults        \* bound: writes and remote calls that fail

Handler == Builds \cup Submits \cup Polls \cup Closers

ASSUME ConstantsAssumption ==
  /\ Builds \cap Submits = {} /\ Builds \cap Polls = {} /\ Builds \cap Closers = {}
  /\ Submits \cap Polls = {} /\ Submits \cap Closers = {} /\ Polls \cap Closers = {}
  /\ Client \in Polls /\ None \notin Handler
  /\ SoundProviders \in BOOLEAN
  /\ Underway \subseteq {"depositing", "pending", "submitted", "refund"}
  /\ LastValid \in Nat /\ Margin \in Nat /\ MaxHeight \in Nat /\ MaxFaults \in Nat

VARIABLES
  intent,    \* the build whose intent has the quote
  record,    \* the durable transaction of that build
  attempt,   \* whether the payer-signed bytes were saved for a submission
  exposure,  \* the reservation of each build
  lock,      \* the submission that holds the replay lock
  payer,     \* how often Kora signed as fee payer
  wire,      \* the submissions whose bytes the server has broadcast
  landed,    \* the source transaction's result on chain, or "none"
  relay,     \* what Relay answers for the request
  height,    \* the block height the chain has reached
  pc,        \* where each handler is
  held,      \* the statuses a handler has read, or is about to write
  faults     \* faults so far

vars == <<intent, record, attempt, exposure, lock, payer, wire, landed, relay, height,
          pc, held, faults>>

Status == {"none", "validated", "awaiting_user_signature", "user_signed", "relaying",
           "submitted", "failed", "expired", "reconciled"}
CrossChainStatus ==
  {"none", "preparing", "awaiting_signature", "submitted", "source_confirmed", "executing",
   "destination_confirmed", "completed", "failed", "refund_pending", "refunded",
   "unknown_retryable"}
RelayStatus == {"waiting", "depositing", "pending", "submitted", "success", "failure",
                "refund", "refunded"}
Statuses == [status : Status, cross : CrossChainStatus]
NoStatuses == [status |-> "none", cross |-> "none"]
DurableRecord == [status : Status, cross : CrossChainStatus,
                  signed : BOOLEAN, failedAt : BOOLEAN, error : BOOLEAN]
NoRecord == [status |-> "none", cross |-> "none",
             signed |-> FALSE, failedAt |-> FALSE, error |-> FALSE]

BuildPlaces == {"lock", "reserve", "intent", "create", "sign", "activate",
                "fail_release", "fail_record"}
SubmitPlaces == {"lock", "user_signed", "relaying", "heights", "broadcast",
                 "submitted", "confirm", "confirmed", "chain_record", "chain_release",
                 "fail_release", "fail_record", "sent"}
PollPlaces == {"ask", "write", "heal", "release"}
ClosePlaces == {"release", "close"}
Places == BuildPlaces \cup SubmitPlaces \cup PollPlaces \cup ClosePlaces
            \cup {"idle", "done", "ended"}   \* "done" answered 200, "ended" did not

TypeOK ==
  /\ intent \in Builds \cup {None} /\ lock \in Submits \cup {None}
  /\ record \in DurableRecord
  /\ attempt \in BOOLEAN
  /\ exposure \in [Builds -> {"none", "reserved", "released"}]
  /\ payer \in Nat /\ height \in Nat /\ faults \in 0..MaxFaults
  /\ wire \subseteq Submits
  /\ landed \in {"none", "ok", "err"} /\ relay \in RelayStatus
  /\ pc \in [Handler -> Places]
  /\ held \in [Handler -> Statuses]

Init ==
  /\ intent = None /\ lock = None /\ record = NoRecord /\ attempt = FALSE
  /\ exposure = [b \in Builds |-> "none"]
  /\ payer = 0 /\ wire = {} /\ landed = "none" /\ relay = "waiting" /\ height = 0
  /\ pc = [h \in Handler |-> "idle"]
  /\ held = [h \in Handler |-> NoStatuses]
  /\ faults = 0

-----------------------------------------------------------------------------
(***************************************************************************)
(* Shorthands: where a handler goes, what it writes.                       *)
(***************************************************************************)
Goto(h, place) == pc' = [pc EXCEPT ![h] = place]
Hold(h, s, c) == held' = [held EXCEPT ![h] = [status |-> s, cross |-> c]]
SetStatuses(s, c) == record' = [record EXCEPT !.status = s, !.cross = c]
SetFailed(s) ==
  record' = [record EXCEPT !.status = s, !.cross = "failed", !.failedAt = TRUE, !.error = TRUE]

Fault == faults < MaxFaults /\ faults' = faults + 1
NoFault == UNCHANGED faults

storeVars == <<intent, record, attempt, exposure, lock>>
chainVars == <<wire, landed, relay, height>>

\* Giving back a reservation that is gone answers already_released.
GiveBack(b) ==
  exposure' = [exposure EXCEPT ![b] = IF @ = "reserved" THEN "released" ELSE @]

\* The client knows the transaction's identity from the answer to its build.
Answered == intent # None /\ pc[intent] = "done"

-----------------------------------------------------------------------------
(***************************************************************************)
(* prepareSignOnly.  A build looks for an earlier transaction of the quote *)
(* and takes a lock of the quote and the message, which excludes only      *)
(* builds with the same recent blockhash; the intent's unique quote is     *)
(* what decides between the others.                                        *)
(***************************************************************************)
BuildLoad(b) ==
  /\ pc[b] = "idle"
  /\ record = NoRecord
  /\ Goto(b, "lock")
  /\ UNCHANGED <<storeVars, payer, chainVars, held, faults>>

BuildLock(b) ==
  /\ b \in Builds /\ pc[b] = "lock"
  /\ \/ Goto(b, "reserve")
     \/ /\ \E other \in Builds \ {b} : pc[other] \notin {"idle", "lock"}
        /\ Goto(b, "ended")
  /\ UNCHANGED <<storeVars, payer, chainVars, held, faults>>

\* assertRelayerCanSponsor and the reservation, whose answer may be lost.
BuildReserve(b) ==
  /\ pc[b] = "reserve"
  /\ \/ exposure' = [exposure EXCEPT ![b] = "reserved"] /\ Goto(b, "intent") /\ NoFault
     \/ Goto(b, "ended") /\ UNCHANGED exposure /\ NoFault
     \/ Fault /\ exposure' = [exposure EXCEPT ![b] = "reserved"] /\ Goto(b, "ended")
  /\ UNCHANGED <<intent, record, attempt, lock, payer, chainVars, held>>

\* Fault: the intents' quotes are not unique, so the later build takes over.
BuildIntentShared(b) ==
  /\ pc[b] = "intent"
  /\ intent' = b /\ Goto(b, "create")
  /\ UNCHANGED <<record, attempt, exposure, lock, payer, chainVars, held, faults>>

BuildIntent(b) ==
  /\ pc[b] = "intent"
  /\ \/ intent = None /\ intent' = b /\ Goto(b, "create") /\ NoFault
     \/ intent # None /\ UNCHANGED intent /\ Goto(b, "fail_release") /\ NoFault
     \/ Fault /\ UNCHANGED intent /\ Goto(b, "fail_release")
  /\ UNCHANGED <<record, attempt, exposure, lock, payer, chainVars, held>>

BuildCreate(b) ==
  /\ pc[b] = "create"
  /\ \/ SetStatuses("validated", "preparing") /\ Goto(b, "sign") /\ NoFault
     \/ Fault /\ UNCHANGED record /\ Goto(b, "fail_release")
  /\ UNCHANGED <<intent, attempt, exposure, lock, payer, chainVars, held>>

\* sponsorSignValidatedRelayTransaction: Kora may refuse, or sign and fail to answer.
BuildSign(b) ==
  /\ pc[b] = "sign"
  /\ \/ payer' = payer + 1 /\ Goto(b, "activate")
     \/ payer' \in {payer, payer + 1} /\ Goto(b, "fail_release")
  /\ UNCHANGED <<storeVars, chainVars, held, faults>>

\* The attempt is saved, the record activated, and the bytes are handed out.
BuildActivate(b) ==
  /\ pc[b] = "activate"
  /\ \/ /\ attempt' = TRUE
        /\ SetStatuses("awaiting_user_signature", "awaiting_signature")
        /\ Goto(b, "done") /\ NoFault
     \/ Fault /\ UNCHANGED <<attempt, record>> /\ Goto(b, "fail_release")
  /\ UNCHANGED <<intent, exposure, lock, payer, chainVars, held>>

-----------------------------------------------------------------------------
(***************************************************************************)
(* submitSigned.                                                           *)
(***************************************************************************)
SubmitLoad(s) ==
  /\ s \in Submits /\ pc[s] = "idle"
  /\ Answered /\ attempt
  /\ record.status = "awaiting_user_signature"
  /\ Goto(s, "lock")
  /\ UNCHANGED <<storeVars, payer, chainVars, held, faults>>

\* Fault: the status that was read is all that keeps a second submission out.
SubmitLockForgotten(s) ==
  /\ s \in Submits /\ pc[s] = "lock"
  /\ lock' = s /\ Goto(s, "user_signed")
  /\ UNCHANGED <<intent, record, attempt, exposure, payer, chainVars, held, faults>>

\* A day's lock that nothing releases; a refusal is outside the try.
SubmitLock(s) ==
  /\ s \in Submits /\ pc[s] = "lock"
  /\ \/ lock = None /\ lock' = s /\ Goto(s, "user_signed")
     \/ lock # None /\ UNCHANGED lock /\ Goto(s, "ended")
  /\ UNCHANGED <<intent, record, attempt, exposure, payer, chainVars, held, faults>>

SubmitUserSigned(s) ==
  /\ pc[s] = "user_signed"
  /\ \/ record' = [record EXCEPT !.status = "user_signed"] /\ Goto(s, "relaying") /\ NoFault
     \/ Fault /\ UNCHANGED record /\ Goto(s, "fail_release")
  /\ UNCHANGED <<intent, attempt, exposure, lock, payer, chainVars, held>>

\* Fault: the signature is recorded with the status submitted only.
SubmitRelayingUnsigned(s) ==
  /\ pc[s] = "relaying"
  /\ record' = [record EXCEPT !.status = "relaying"] /\ Goto(s, "heights")
  /\ UNCHANGED <<intent, attempt, exposure, lock, payer, chainVars, held, faults>>

\* assertFinalSimulation, and the canonical signature if it passes.
SubmitRelaying(s) ==
  /\ pc[s] = "relaying"
  /\ \/ /\ record' = [record EXCEPT !.status = "relaying", !.signed = TRUE]
        /\ Goto(s, "heights")
     \/ UNCHANGED record /\ Goto(s, "fail_release")
  /\ UNCHANGED <<intent, attempt, exposure, lock, payer, chainVars, held, faults>>

\* By the highest height a provider reports, if one is readable.
SubmitHeights(s) ==
  /\ pc[s] = "heights"
  /\ \/ LastValid - height >= Margin /\ Goto(s, "broadcast")
     \/ Goto(s, "fail_release")
  /\ UNCHANGED <<storeVars, payer, chainVars, held, faults>>

(***************************************************************************)
(* The broadcast was attempted if some provider accepted the bytes or its  *)
(* answer was lost.  A provider of another network makes the call throw    *)
(* whatever the others have done.                                          *)
(***************************************************************************)
Rejected == UNCHANGED wire
Sent(s) == wire' = wire \cup {s}

\* Fault: a provider that times out is taken for one that rejects.
SubmitBroadcastPessimist(s) ==
  /\ pc[s] = "broadcast"
  /\ \/ Sent(s) /\ Goto(s, "submitted")
     \/ (Sent(s) \/ Rejected) /\ Goto(s, "fail_release")
  /\ UNCHANGED <<storeVars, payer, landed, relay, height, held, faults>>

SubmitBroadcast(s) ==
  /\ pc[s] = "broadcast"
  /\ \/ (Sent(s) \/ Rejected) /\ (Goto(s, "submitted") \/ Goto(s, "sent"))
     \/ Rejected /\ Goto(s, "fail_release")
     \/ ~SoundProviders /\ Sent(s) /\ Goto(s, "fail_release")
  /\ UNCHANGED <<storeVars, payer, landed, relay, height, held, faults>>

SetSubmitted(e) ==
  record' = [record EXCEPT !.status = "submitted", !.cross = "submitted", !.signed = TRUE,
                           !.error = @ \/ e]

SubmitSubmitted(s) ==
  /\ pc[s] = "submitted"
  /\ \/ SetSubmitted(FALSE) /\ Goto(s, "confirm") /\ NoFault
     \/ Fault /\ UNCHANGED record /\ Goto(s, "sent")
  /\ UNCHANGED <<intent, attempt, exposure, lock, payer, chainVars, held>>

(***************************************************************************)
(* confirmSource: an error status counts at any level, and the statuses    *)
(* are read before the heights.                                            *)
(***************************************************************************)
Observable(v) ==
  CASE v = "chain_error" -> landed = "err" \/ ~SoundProviders
    [] v = "confirmed" -> landed = "ok"
    [] v = "expired" -> height > LastValid /\ (landed = "none" \/ ~SoundProviders)

\* Fault: what is still pending after the time limit is taken for failed.
SubmitConfirmImpatient(s) ==
  /\ pc[s] = "confirm"
  /\ \/ Goto(s, "chain_record")
     \/ Observable("confirmed") /\ Goto(s, "confirmed")
  /\ UNCHANGED <<storeVars, payer, chainVars, held, faults>>

SubmitConfirm(s) ==
  /\ pc[s] = "confirm"
  /\ \/ Goto(s, "done")                                        \* pending
     \/ Observable("confirmed") /\ Goto(s, "confirmed")
     \/ Observable("chain_error") /\ Goto(s, "chain_record")
     \/ (Observable("expired") \/ ~SoundProviders) /\ Goto(s, "sent")
  /\ UNCHANGED <<storeVars, payer, chainVars, held, faults>>

\* The transaction is read for its fee first, which may throw.
SubmitConfirmed(s) ==
  /\ pc[s] = "confirmed"
  /\ \/ SetStatuses("submitted", "source_confirmed") /\ Goto(s, "done")
     \/ UNCHANGED record /\ Goto(s, "sent")
  /\ UNCHANGED <<intent, attempt, exposure, lock, payer, chainVars, held, faults>>

SubmitChainRecord(s) ==
  /\ pc[s] = "chain_record"
  /\ \/ SetFailed("failed") /\ Goto(s, "chain_release") /\ NoFault
     \/ Fault /\ UNCHANGED record /\ Goto(s, "sent")
  /\ UNCHANGED <<intent, attempt, exposure, lock, payer, chainVars, held>>

\* The error thrown next is CHAIN_EXECUTION_FAILED, unless the release throws its own.
SubmitChainRelease(s) ==
  /\ pc[s] = "chain_release"
  /\ \/ GiveBack(intent) /\ Goto(s, "fail_release") /\ NoFault
     \/ Fault /\ UNCHANGED exposure /\ Goto(s, "sent")
  /\ UNCHANGED <<intent, record, attempt, lock, payer, chainVars, held>>

-----------------------------------------------------------------------------
(***************************************************************************)
(* The catch clauses.  What throws after a broadcast was attempted leaves  *)
(* the record submitted, with the error on it; everything else gives the   *)
(* reservation back and fails the record, if the build got as far as to    *)
(* create it.  A write that fails here is passed over.                     *)
(***************************************************************************)
TransactionOf(h) == IF h \in Builds THEN h ELSE intent
Persisted(h) == h \in Submits \/ (intent = h /\ record # NoRecord)

FailRelease(h) ==
  /\ pc[h] = "fail_release"
  /\ \/ GiveBack(TransactionOf(h)) /\ NoFault
     \/ Fault /\ UNCHANGED exposure
  /\ Goto(h, IF Persisted(h) THEN "fail_record" ELSE "ended")
  /\ UNCHANGED <<intent, record, attempt, lock, payer, chainVars, held>>

FailRecord(h) ==
  /\ pc[h] = "fail_record"
  /\ \/ SetFailed("failed") /\ NoFault
     \/ Fault /\ UNCHANGED record
  /\ Goto(h, "ended")
  /\ UNCHANGED <<intent, attempt, exposure, lock, payer, chainVars, held>>

CatchSent(s) ==
  /\ pc[s] = "sent"
  /\ \/ SetSubmitted(TRUE) /\ NoFault
     \/ Fault /\ UNCHANGED record
  /\ Goto(s, "ended")
  /\ UNCHANGED <<intent, attempt, exposure, lock, payer, chainVars, held>>

-----------------------------------------------------------------------------
(***************************************************************************)
(* reconcile, a status request.  A failed attempt is not asked about; for  *)
(* the others Relay's word is written over what was read.                  *)
(***************************************************************************)
\* Fault: only the status is looked at.
FailedByStatus == record.status \in {"failed", "expired"}

FailedForGood ==
  record.status \in {"failed", "expired"} \/ (record.failedAt /\ record.error)

PollLoad(p) ==
  /\ p \in Polls /\ pc[p] = "idle"
  /\ Answered
  /\ FailedForGood => record.status # "failed" \/ record.cross # "failed"
  /\ Goto(p, IF FailedForGood THEN "heal" ELSE "ask")
  /\ Hold(p, record.status, record.cross)
  /\ UNCHANGED <<storeVars, payer, chainVars, faults>>

\* The answer to the client; its next request starts anew.
Rest(p) == Goto(p, "idle") /\ Hold(p, "none", "none")

PollHeal(p) ==
  /\ pc[p] = "heal"
  /\ SetStatuses("failed", "failed")
  /\ Rest(p)
  /\ UNCHANGED <<intent, attempt, exposure, lock, payer, chainVars, faults>>

normalizeRelayStatus(value) ==
  CASE value = "success" -> "completed"
    [] value = "submitted" -> "destination_confirmed"
    [] value = "pending" -> "executing"
    [] value = "depositing" -> "source_confirmed"
    [] value = "failure" -> "failed"
    [] value = "refund" -> "refund_pending"
    [] value = "refunded" -> "refunded"
    [] value = "waiting" -> "awaiting_signature"

Terminal(c) == c \in {"completed", "failed", "refunded"}

\* Fault: an order that has arrived keeps the status it had on the way.
DurableStatusOnTheWay(c) ==
  CASE c = "refunded" -> "reconciled"
    [] c = "failed" -> "failed"
    [] c = "awaiting_signature" -> "awaiting_user_signature"
    [] OTHER -> "submitted"

DurableStatus(c) ==
  CASE c \in {"completed", "refunded"} -> "reconciled"
    [] c = "failed" -> "failed"
    [] c = "awaiting_signature" -> "awaiting_user_signature"
    [] OTHER -> "submitted"

\* The answer c is written unless it is what the request had read.
Learn(p, c) ==
  LET said == [status |-> DurableStatus(c), cross |-> c]
  IN  \/ /\ said # held[p]
         /\ held' = [held EXCEPT ![p] = said]
         /\ Goto(p, "write")
      \/ /\ said = held[p]
         /\ IF Terminal(c) THEN Goto(p, "release") /\ UNCHANGED held ELSE Rest(p)

PollAnswered(p) ==
  /\ pc[p] = "ask"
  /\ Learn(p, normalizeRelayStatus(relay))
  /\ UNCHANGED <<storeVars, payer, chainVars, faults>>

\* A status nobody knows, or no answer at all, which ends the request.
PollUnknown(p) ==
  /\ pc[p] = "ask"
  /\ \/ Learn(p, IF held[p].cross = "source_confirmed"
                   THEN "source_confirmed" ELSE "unknown_retryable")
     \/ Rest(p)
  /\ UNCHANGED <<storeVars, payer, chainVars, faults>>

PollWrite(p) ==
  /\ pc[p] = "write"
  /\ record' = [record EXCEPT !.status = held[p].status, !.cross = held[p].cross,
                              !.failedAt = @ \/ held[p].cross = "failed"]
  /\ IF Terminal(held[p].cross)
       THEN Goto(p, "release") /\ UNCHANGED held
       ELSE Rest(p)
  /\ UNCHANGED <<intent, attempt, exposure, lock, payer, chainVars, faults>>

PollRelease(p) ==
  /\ p \in Polls /\ pc[p] = "release"
  /\ \/ GiveBack(intent) /\ NoFault
     \/ Fault /\ UNCHANGED exposure
  /\ Rest(p)
  /\ UNCHANGED <<intent, record, attempt, lock, payer, chainVars>>

-----------------------------------------------------------------------------
(***************************************************************************)
(* abortSignOnly, which leaves an attempt it found failed alone, and       *)
(* expire, once the quote's time is over.                                  *)
(***************************************************************************)
CloseLoad(c) ==
  /\ c \in Closers /\ pc[c] = "idle"
  /\ Answered
  /\ \/ Hold(c, IF record.status = "failed" THEN "none" ELSE "failed", "failed")
     \/ Hold(c, "expired", "failed")
  /\ Goto(c, "release")
  /\ UNCHANGED <<storeVars, payer, chainVars, faults>>

CloseRelease(c) ==
  /\ c \in Closers /\ pc[c] = "release"
  /\ GiveBack(intent)
  /\ Goto(c, IF held[c].status = "none" THEN "done" ELSE "close")
  /\ UNCHANGED <<intent, record, attempt, lock, payer, chainVars, held, faults>>

CloseRecord(c) ==
  /\ pc[c] = "close"
  /\ SetFailed(held[c].status)
  /\ Goto(c, "done")
  /\ UNCHANGED <<intent, attempt, exposure, lock, payer, chainVars, held, faults>>

-----------------------------------------------------------------------------
\* A block is produced.
NextBlock ==
  /\ height < MaxHeight
  /\ height' = height + 1
  /\ UNCHANGED <<storeVars, payer, wire, landed, relay, pc, held, faults>>

(***************************************************************************)
(* The transaction lands.  The answer to the build hands the user bytes    *)
(* the payer has signed: whether the server broadcasts them, or the user   *)
(* does with the signature that is missing, they may land while valid.     *)
(***************************************************************************)
Land ==
  /\ Answered /\ landed = "none" /\ height <= LastValid
  /\ landed' \in {"ok", "err"}
  /\ UNCHANGED <<storeVars, payer, wire, relay, height, pc, held, faults>>

\* Relay fills, or returns, a deposit once it has landed.
RelayFollows(value) ==
  IF value \in {"waiting"} \cup Underway
  THEN (Underway \cup {"success", "failure", "refunded"}) \ {value}
  ELSE {}

RelayStep ==
  /\ landed = "ok"
  /\ relay' \in RelayFollows(relay)
  /\ UNCHANGED <<storeVars, payer, wire, landed, height, pc, held, faults>>

Build(b) ==
  \/ BuildLoad(b) \/ BuildLock(b) \/ BuildReserve(b) \/ BuildIntent(b) \/ BuildCreate(b)
  \/ BuildSign(b) \/ BuildActivate(b)

Submit(s) ==
  \/ SubmitLoad(s) \/ SubmitLock(s) \/ SubmitUserSigned(s) \/ SubmitRelaying(s)
  \/ SubmitHeights(s) \/ SubmitBroadcast(s) \/ SubmitSubmitted(s)
  \/ SubmitConfirm(s) \/ SubmitConfirmed(s) \/ SubmitChainRecord(s) \/ SubmitChainRelease(s)
  \/ CatchSent(s)

Fail(h) == FailRelease(h) \/ FailRecord(h)

Poll(p) ==
  \/ PollLoad(p) \/ PollHeal(p) \/ PollAnswered(p) \/ PollUnknown(p) \/ PollWrite(p)
  \/ PollRelease(p)

Close(c) == CloseLoad(c) \/ CloseRelease(c) \/ CloseRecord(c)

Next ==
  \/ \E b \in Builds : Build(b)
  \/ \E s \in Submits : Submit(s)
  \/ \E h \in Builds \cup Submits : Fail(h)
  \/ \E p \in Polls : Poll(p)
  \/ \E c \in Closers : Close(c)
  \/ NextBlock \/ Land \/ RelayStep

Spec == Init /\ [][Next]_vars

(***************************************************************************)
(* One client keeps asking, and now and then Relay has an answer.  Nothing *)
(* is assumed of the other handlers: a status request whose connection was *)
(* lost may stay where it is and write much later.                         *)
(***************************************************************************)
ClientAsks == WF_vars(Poll(Client)) /\ SF_vars(PollAnswered(Client))

PollSpec == Spec /\ ClientAsks

-----------------------------------------------------------------------------
(***************************************************************************)
(* However many builds of a quote race past the look for an earlier one,   *)
(* Kora is asked for one payer signature only.                             *)
(***************************************************************************)
PayerSignsOnce == payer <= 1

(***************************************************************************)
(* The server broadcasts the payer-signed bytes for one submission only,   *)
(* although status requests may put the record back to awaiting the user's *)
(* signature.                                                              *)
(***************************************************************************)
BroadcastOnce == Cardinality(wire) <= 1

(***************************************************************************)
(* The signature is on the durable record before the server broadcasts any *)
(* byte, and no write of any handler takes it away.                        *)
(***************************************************************************)
BroadcastIsOnRecord == wire # {} => record.signed

(***************************************************************************)
(* Whether the source transaction may still land, by anybody's hand; and   *)
(* whether the one submission the lock admits has ended, or is ending,     *)
(* while the server has broadcast nothing.                                 *)
(***************************************************************************)
MayStillLand == landed = "none" /\ height <= LastValid /\ Answered
LeftToUser ==
  wire = {} /\ lock # None /\ pc[lock] \in {"fail_release", "fail_record", "ended"}

(***************************************************************************)
(* The reservation of a transaction is given back only when it cannot land *)
(* any more: the budget never counts as free what GASLESS may have to pay. *)
(* The exception is a submission that was refused before any broadcast: it *)
(* gives the reservation back at once, and until the bytes expire the user *)
(* may broadcast them himself.                                             *)
(***************************************************************************)
ReleasedIsSettled ==
  \A b \in Builds :
    intent = b /\ exposure[b] = "released" => ~MayStillLand \/ LeftToUser

(***************************************************************************)
(* A transfer recorded as failed has not left Solana and never will,       *)
(* unless it is Relay who failed it, or the server refused it and left its *)
(* bytes with the user.                                                    *)
(***************************************************************************)
FailedNeverLeaves ==
  record.status = "failed" =>
    relay = "failure" \/ (landed # "ok" /\ ~MayStillLand) \/ LeftToUser

(***************************************************************************)
(* A failure with its error on record outlasts every status write that was *)
(* under way when it was recorded, as long as somebody asks.               *)
(***************************************************************************)
FailureOutlastsPolls == record.failedAt /\ record.error ~> [](record.status = "failed")

(***************************************************************************)
(* A transfer Relay has completed becomes reconciled, with its reservation *)
(* given back, wherever its submission stopped and whoever broadcast it,   *)
(* unless the server had refused it and recorded that.                     *)
(***************************************************************************)
CompletedIsReconciled ==
  relay = "success" ~>
    \/ record.status = "reconciled" /\ \E b \in Builds : intent = b /\ exposure[b] = "released"
    \/ record.status = "failed" /\ LeftToUser
=============================================================================
