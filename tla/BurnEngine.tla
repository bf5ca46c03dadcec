----------------------------- MODULE BurnEngine -----------------------------
(***************************************************************************)
(* One Burn from its quote to its settlement (server/burn/engine.ts, with  *)
(* the route that prepares it in server/index.ts and the discipline of the *)
(* console in src/features/clean/components/BurnConsole.tsx).              *)
(*                                                                         *)
(* Every request is a handler of its own.  A handler works on a COPY of    *)
(* the quote it loaded, and every await between its reads and writes is a  *)
(* point where the other handlers run: one action is what a handler does   *)
(* between two writes that others can see.  A handler may stop anywhere    *)
(* (its process dies, or a call throws and nothing catches it).            *)
(*                                                                         *)
(* Left out: the intent's status and the audit events, which this code     *)
(* writes and never reads; the controls, rate limits, time limits and      *)
(* ownership checks that refuse a request before it has changed anything   *)
(* (a refused request is one that never started).                          *)
(***************************************************************************)
EXTENDS Integers, FiniteSets

CONSTANTS
  Prepares, Aborts, Submits, Polls,  \* the requests that arrive
  None,              \* no holder of the replay lock
  Disciplined,       \* the requests follow the console's order
  SoundObservation,  \* verdicts on a signature are never overtaken by the chain
  AccountLag,        \* a provider may not have seen the closure it is asked about
  LastValid,         \* lastValidBlockHeight of the prepared transaction
  PrepareMargin,     \* SWAP_MINIMUM_BLOCK_HEIGHT_MARGIN
  SubmitMargin,      \* SEND_POST_SIGNATURE_BLOCK_MARGIN
  MaxHeight,         \* bound: the last block of the run
  MaxFaults          \* bound: handlers that stop and writes that fail

Handler == Prepares \cup Aborts \cup Submits \cup Polls

ASSUME ConstantsAssumption ==
  /\ Prepares \cap Submits = {} /\ Prepares \cap Aborts = {} /\ Prepares \cap Polls = {}
  /\ Aborts \cap Submits = {} /\ Aborts \cap Polls = {} /\ Submits \cap Polls = {}
  /\ None \notin Handler
  /\ Disciplined \in BOOLEAN /\ SoundObservation \in BOOLEAN /\ AccountLag \in BOOLEAN
  /\ LastValid \in Nat /\ PrepareMargin \in Nat /\ SubmitMargin \in Nat
  /\ MaxHeight \in Nat /\ MaxFaults \in Nat

VARIABLES
  quote,     \* the stored quote: its status and that of its burn
  record,    \* the durable transaction: its status, and whether a signature is on it
  lock,      \* holder of the burn-submission replay lock
  exposure,  \* the sponsorship reservation of the transaction
  accounted, \* whether the accounting entries were written
  payer,     \* how often Kora signed as fee payer
  wire,      \* whether fully signed bytes were broadcast
  landed,    \* the transaction's result on chain, or "none"
  height,    \* the block height the chain has reached
  pc,        \* where each handler is
  copy,      \* the quote each handler holds
  faults     \* faults so far

vars == <<quote, record, lock, exposure, accounted, payer, wire, landed, height,
          pc, copy, faults>>

Status == {"created", "awaiting_user_signature", "relaying", "submitted",
           "reconciled", "failed"}
Both(s) == [quote |-> s, burn |-> s]
Created == Both("created")
Awaiting == Both("awaiting_user_signature")
FailedQuote == Both("failed")

PreparePlaces == {"create", "save_prepared", "reserve", "activate", "save_window",
                  "fail_release", "fail_record", "fail_quote"}
AbortPlaces == {"fail_release", "fail_record", "fail_quote"}
SubmitPlaces == {"lock", "check", "cross", "relay", "kora", "final", "record", "persist",
                 "broadcast", "undo", "giveback", "save", "mark"}
SettlePlaces == {"observe", "confirm", "settle", "account", "mismatch", "expire",
                 "end_release", "end_record", "close", "thank"}
PollPlaces == {"observe", "confirm", "end_release", "end_record",
               "poll_account", "poll_release", "poll_record"}
Rest == {"idle", "done", "ended"}   \* "done" answered 200, "ended" did not
Places == PreparePlaces \cup AbortPlaces \cup SubmitPlaces \cup SettlePlaces \cup PollPlaces
            \cup Rest

QuoteCopy == [quote : Status, burn : Status]
DurableRecord == [status : Status \cup {"none"}, signed : BOOLEAN]

TypeOK ==
  /\ quote \in QuoteCopy
  /\ record \in DurableRecord
  /\ lock \in Submits \cup {None}
  /\ exposure \in {"none", "reserved", "released"}
  /\ accounted \in BOOLEAN /\ wire \in BOOLEAN
  /\ payer \in Nat /\ height \in Nat /\ faults \in 0..MaxFaults
  /\ landed \in {"none", "ok", "err"}
  /\ pc \in [Handler -> Places]
  /\ copy \in [Handler -> QuoteCopy]

Init ==
  /\ quote = Created
  /\ record = [status |-> "none", signed |-> FALSE]
  /\ lock = None /\ exposure = "none" /\ accounted = FALSE
  /\ payer = 0 /\ wire = FALSE /\ landed = "none" /\ height = 0
  /\ pc = [h \in Handler |-> "idle"]
  /\ copy = [h \in Handler |-> Created]
  /\ faults = 0

-----------------------------------------------------------------------------
(***************************************************************************)
(* Shorthands: where a handler goes, what it writes.                       *)
(***************************************************************************)
Goto(h, place) == pc' = [pc EXCEPT ![h] = place]
Hold(h, q) == copy' = [copy EXCEPT ![h] = q]
SetRecord(s) == record' = [record EXCEPT !.status = s]
Margin(m) == LastValid - height >= m

CanFault == faults < MaxFaults
Fault == CanFault /\ faults' = faults + 1
NoFault == UNCHANGED faults

chainVars == <<wire, landed, height>>
storeVars == <<quote, record, lock, exposure, accounted>>
bookVars == <<accounted, payer>>

\* Giving back a reservation that is gone answers already_released.
GiveBack == exposure' = IF exposure = "reserved" THEN "released" ELSE exposure

(***************************************************************************)
(* The order in which the console sends its requests: one prepare; once it *)
(* was answered, either an abort or a submission, which it may repeat when *)
(* the one before has ended.  Status requests come at any time.            *)
(***************************************************************************)
AtRest(h) == pc[h] \in Rest
Started(h) == pc[h] # "idle"

MayStart(h) ==
  /\ pc[h] = "idle"
  /\ Disciplined =>
       \/ h \in Polls
       \/ h \in Prepares /\ \A g \in Handler \ Polls : ~Started(g)
       \/ /\ h \in Aborts \cup Submits
          /\ \E p \in Prepares : pc[p] = "done"
          /\ \A g \in Handler \ Polls : AtRest(g)
          /\ \A g \in IF h \in Aborts THEN Submits ELSE Aborts : ~Started(g)

-----------------------------------------------------------------------------
(***************************************************************************)
(* /api/burn/prepare: BurnEngine.prepare with the signing window deferred, *)
(* the reservation, then activateSigningWindow.  A quote that is prepared  *)
(* already goes straight to the reservation.                               *)
(***************************************************************************)
PrepareLoad(p) ==
  /\ p \in Prepares /\ MayStart(p)
  /\ quote.quote \notin {"failed", "reconciled"}
  /\ Hold(p, quote)
  /\ Goto(p, IF quote = Created THEN "create" ELSE "reserve")
  /\ UNCHANGED <<storeVars, payer, chainVars, faults>>

\* createTransaction: a second record for the quote violates its unique key.
PrepareCreate(p) ==
  /\ pc[p] = "create"
  /\ IF record.status = "none" /\ Margin(PrepareMargin)
       THEN /\ record' = [status |-> "awaiting_user_signature", signed |-> FALSE]
            /\ Hold(p, Awaiting)
            /\ Goto(p, "save_prepared")
       ELSE /\ Goto(p, "ended")
            /\ UNCHANGED <<record, copy>>
  /\ UNCHANGED <<quote, lock, exposure, bookVars, chainVars, faults>>

PrepareSave(p) ==
  /\ pc[p] = "save_prepared"
  /\ quote' = copy[p]
  /\ Goto(p, "reserve")
  /\ UNCHANGED <<record, lock, exposure, bookVars, chainVars, copy, faults>>

\* reserveTransactionExposure; a refusal is handled by abortBeforeWallet.
PrepareReserve(p) ==
  /\ pc[p] = "reserve"
  /\ \/ exposure' = "reserved" /\ Goto(p, "activate")
     \/ exposure # "reserved" /\ UNCHANGED exposure /\ Goto(p, "fail_release")
  /\ UNCHANGED <<quote, record, lock, bookVars, chainVars, copy, faults>>

\* The account and the height are checked again, unless an earlier window has margin left.
PrepareActivate(p) ==
  /\ pc[p] = "activate"
  /\ \/ Margin(PrepareMargin) /\ Goto(p, "save_window")
     \/ Goto(p, "fail_release")
     \/ Goto(p, "done")
  /\ UNCHANGED <<storeVars, payer, chainVars, copy, faults>>

PrepareWindow(p) ==
  /\ pc[p] = "save_window"
  /\ quote' = copy[p]
  /\ Goto(p, "done")
  /\ UNCHANGED <<record, lock, exposure, bookVars, chainVars, copy, faults>>

-----------------------------------------------------------------------------
(***************************************************************************)
(* The ways out before a submission: currentWalletGateBlockHeight when its *)
(* checks fail, abortWalletGate, abortWalletApproval, and the failures of  *)
(* a prepare.  All end in failAfterWallet, which gives the reservation     *)
(* back unless the client says that the user's signature was returned.     *)
(***************************************************************************)
AbortLoad(a) ==
  /\ a \in Aborts /\ MayStart(a)
  /\ quote # Created /\ quote.quote # "failed"
  /\ Hold(a, quote)
  /\ \E userSignatureReturned \in BOOLEAN :
       Goto(a, IF userSignatureReturned THEN "fail_record" ELSE "fail_release")
  /\ UNCHANGED <<storeVars, payer, chainVars, faults>>

FailRelease(h) ==
  /\ pc[h] = "fail_release"
  /\ GiveBack
  /\ Goto(h, "fail_record")
  /\ UNCHANGED <<quote, record, lock, bookVars, chainVars, copy, faults>>

FailRecord(h) ==
  /\ pc[h] = "fail_record"
  /\ SetRecord("failed")
  /\ Goto(h, "fail_quote")
  /\ UNCHANGED <<quote, lock, exposure, bookVars, chainVars, copy, faults>>

FailQuote(h) ==
  /\ pc[h] = "fail_quote"
  /\ quote' = FailedQuote
  /\ Goto(h, "ended")
  /\ UNCHANGED <<record, lock, exposure, bookVars, chainVars, copy, faults>>

-----------------------------------------------------------------------------
(***************************************************************************)
(* submit.  A quote submitted before is resumed: only its result is        *)
(* looked for.  A failed quote is not refused here.                        *)
(***************************************************************************)
SubmitLoad(s) ==
  /\ s \in Submits /\ MayStart(s)
  /\ quote # Created
  /\ Hold(s, quote)
  /\ Goto(s, CASE quote.burn = "reconciled" -> "done"
               [] quote.burn = "submitted" -> "observe"
               [] OTHER -> "lock")
  /\ UNCHANGED <<storeVars, payer, chainVars, faults>>

\* A resumed submission never takes the lock.
Resuming(s) == lock # s

\* Fault: the lock is released although the submission had crossed.
FailCrossedReleasing(s) == Hold(s, FailedQuote) /\ Goto(s, "undo")

(***************************************************************************)
(* What the catch clause does, by how far the submission had come.         *)
(***************************************************************************)
FailEarly(s) == Hold(s, Awaiting) /\ Goto(s, "undo")
FailCrossed(s) == Hold(s, FailedQuote) /\ Goto(s, "save")
FailSigned(s) == Hold(s, FailedQuote) /\ Goto(s, "giveback")

\* acquireReplayLock: SET NX; the quote's key comes first, so it decides.
SubmitLock(s) ==
  /\ pc[s] = "lock"
  /\ \/ lock = None /\ lock' = s /\ Goto(s, "check") /\ UNCHANGED copy
     \/ lock # None /\ UNCHANGED lock /\ FailEarly(s)
  /\ UNCHANGED <<quote, record, exposure, bookVars, chainVars, faults>>

\* The height when the signature came back, then the signed message itself.
SubmitCheck(s) ==
  /\ pc[s] = "check"
  /\ \/ Margin(SubmitMargin) /\ Goto(s, "cross") /\ UNCHANGED copy
     \/ FailEarly(s)
  /\ UNCHANGED <<storeVars, payer, chainVars, faults>>

(***************************************************************************)
(* The account, the controls, the fee and the relayer's balance; then the  *)
(* point of no return, announced in the quote (its burn's status only) and *)
(* next in the record.                                                     *)
(***************************************************************************)
Crossing(s) == [copy[s] EXCEPT !.burn = "relaying"]

SubmitCross(s) ==
  /\ pc[s] = "cross"
  /\ \/ FailEarly(s) /\ UNCHANGED <<quote, faults>>
     \/ /\ quote' = Crossing(s)
        /\ Hold(s, Crossing(s)) /\ Goto(s, "relay") /\ NoFault
     \/ Fault /\ FailCrossed(s) /\ UNCHANGED quote
  /\ UNCHANGED <<record, lock, exposure, bookVars, chainVars>>

SubmitRelay(s) ==
  /\ pc[s] = "relay"
  /\ \/ SetRecord("relaying") /\ Goto(s, "kora") /\ NoFault /\ UNCHANGED copy
     \/ Fault /\ FailCrossed(s) /\ UNCHANGED record
  /\ UNCHANGED <<quote, lock, exposure, bookVars, chainVars>>

\* relayer.signTransaction: it may refuse, or sign and fail to answer.
SubmitKora(s) ==
  /\ pc[s] = "kora"
  /\ \/ payer' = payer + 1 /\ Goto(s, "final") /\ UNCHANGED copy
     \/ payer' \in {payer, payer + 1} /\ FailCrossed(s)
  /\ UNCHANGED <<storeVars, chainVars, faults>>

\* Fault: the bytes go out before the record says submitted.
SubmitFinalUnrecorded(s) ==
  /\ pc[s] = "final"
  /\ \/ Goto(s, "persist") /\ UNCHANGED copy
     \/ FailSigned(s)
  /\ UNCHANGED <<storeVars, payer, chainVars, faults>>

\* The message hash, the payer's signature and the simulation of the signed bytes.
SubmitFinal(s) ==
  /\ pc[s] = "final"
  /\ \/ Goto(s, "record") /\ UNCHANGED copy
     \/ FailSigned(s)
  /\ UNCHANGED <<storeVars, payer, chainVars, faults>>

SubmitRecord(s) ==
  /\ pc[s] = "record"
  /\ record' = [status |-> "submitted", signed |-> TRUE]
  /\ Hold(s, Both("submitted"))
  /\ Goto(s, "persist")
  /\ UNCHANGED <<quote, lock, exposure, bookVars, chainVars, faults>>

SubmitPersist(s) ==
  /\ pc[s] = "persist"
  /\ quote' = copy[s]
  /\ Goto(s, "broadcast")
  /\ UNCHANGED <<record, lock, exposure, bookVars, chainVars, copy, faults>>

\* broadcastAndConfirmClean sends nothing when no height can be read or the floor is reached.
SubmitBroadcast(s) ==
  /\ pc[s] = "broadcast"
  /\ wire' \in {wire, TRUE}
  /\ Goto(s, "observe")
  /\ UNCHANGED <<storeVars, payer, landed, height, copy, faults>>

-----------------------------------------------------------------------------
(***************************************************************************)
(* The catch clause.  It releases the locks of a submission that had not   *)
(* crossed, gives the reservation back when Kora's bytes are in hand and   *)
(* were not broadcast, and writes quote and record; a write that fails is  *)
(* passed over.                                                            *)
(***************************************************************************)
CatchUndo(s) ==
  /\ pc[s] = "undo"
  /\ lock' = IF lock = s THEN None ELSE lock
  /\ Goto(s, "save")
  /\ UNCHANGED <<quote, record, exposure, bookVars, chainVars, copy, faults>>

CatchGiveBack(s) ==
  /\ pc[s] = "giveback"
  /\ \/ GiveBack /\ NoFault
     \/ Fault /\ UNCHANGED exposure
  /\ Goto(s, "save")
  /\ UNCHANGED <<quote, record, lock, bookVars, chainVars, copy>>

CatchSave(s) ==
  /\ pc[s] = "save"
  /\ \/ quote' = copy[s] /\ NoFault
     \/ Fault /\ UNCHANGED quote
  /\ Goto(s, "mark")
  /\ UNCHANGED <<record, lock, exposure, bookVars, chainVars, copy>>

CatchMark(s) ==
  /\ pc[s] = "mark"
  /\ \/ SetRecord(copy[s].burn) /\ NoFault
     \/ Fault /\ UNCHANGED record
  /\ Goto(s, "ended")
  /\ UNCHANGED <<quote, lock, exposure, bookVars, chainVars, copy>>

-----------------------------------------------------------------------------
(***************************************************************************)
(* Observing the signature: what module CleanSubmission says a verdict can *)
(* be, with or without the two disagreements it shows.                     *)
(***************************************************************************)
Observable(v) ==
  CASE v = "confirmed_success" -> landed # "none"
    [] v = "confirmed_chain_error" -> landed = "err" \/ (~SoundObservation /\ wire)
    [] v = "expired" -> height > LastValid /\ (landed = "none" \/ ~SoundObservation)
    [] v = "timeout_unknown" -> TRUE

(***************************************************************************)
(* How a submission ends with status st for the burn.  A resumed one has   *)
(* nothing to persist unless it was confirmed.                             *)
(***************************************************************************)
EndAs(s, st) ==
  IF Resuming(s) /\ st # "reconciled"
    THEN Goto(s, "ended") /\ UNCHANGED copy
    ELSE Hold(s, Both(st)) /\ Goto(s, "close")

\* Fault: a signature nothing is known about is taken for an expired one.
SubmitObserveGivingUp(s) ==
  /\ s \in Submits /\ pc[s] = "observe"
  /\ \/ Observable("confirmed_success") /\ Goto(s, "confirm")
     \/ Goto(s, "expire")
  /\ UNCHANGED <<storeVars, payer, chainVars, copy, faults>>

SubmitObserve(s) ==
  /\ s \in Submits /\ pc[s] = "observe"
  /\ \/ Observable("confirmed_success") /\ Goto(s, "confirm") /\ UNCHANGED copy
     \/ Observable("expired") /\ Goto(s, "expire") /\ UNCHANGED copy
     \/ Observable("confirmed_chain_error") /\ EndAs(s, "failed")
     \/ EndAs(s, "submitted")
  /\ UNCHANGED <<storeVars, payer, chainVars, faults>>

(***************************************************************************)
(* reconcile: the transaction as any provider knows it, if one does, and   *)
(* the token account as the first provider that answers sees it.           *)
(***************************************************************************)
EconomicsHold == landed = "ok"
AccountSeenOpen == landed = "ok" /\ AccountLag

\* Fault: the error of the transaction is not looked at.
SubmitConfirmAnyResult(s) ==
  /\ s \in Submits /\ pc[s] = "confirm"
  /\ \/ EndAs(s, "submitted")
     \/ landed # "none" /\ Goto(s, "settle") /\ UNCHANGED copy
  /\ UNCHANGED <<storeVars, payer, chainVars, faults>>

SubmitConfirm(s) ==
  /\ s \in Submits /\ pc[s] = "confirm"
  /\ \/ EndAs(s, "submitted")                     \* no provider returns it yet
     \/ landed = "err" /\ EndAs(s, "failed")
     \/ EconomicsHold /\ Goto(s, "settle") /\ UNCHANGED copy
     \/ AccountSeenOpen /\ Goto(s, "mismatch") /\ UNCHANGED copy
  /\ UNCHANGED <<storeVars, payer, chainVars, faults>>

\* Fault: the submission ends before the accounting is written.
SubmitSettleUnaccounted(s) ==
  /\ pc[s] = "settle"
  /\ SetRecord("reconciled")
  /\ EndAs(s, "reconciled")
  /\ UNCHANGED <<quote, lock, exposure, bookVars, chainVars, faults>>

SubmitSettle(s) ==
  /\ pc[s] = "settle"
  /\ SetRecord("reconciled")
  /\ Goto(s, "account")
  /\ UNCHANGED <<quote, lock, exposure, bookVars, chainVars, copy, faults>>

SubmitAccount(s) ==
  /\ pc[s] = "account"
  /\ accounted' = TRUE
  /\ EndAs(s, "reconciled")
  /\ UNCHANGED <<quote, record, lock, exposure, payer, chainVars, faults>>

SubmitMismatch(s) ==
  /\ pc[s] = "mismatch"
  /\ SetRecord("failed")
  /\ EndAs(s, "failed")
  /\ UNCHANGED <<quote, lock, exposure, bookVars, chainVars, faults>>

\* expireSubmittedBurn leaves a record that has failed already alone.
SubmitExpire(s) ==
  /\ pc[s] = "expire"
  /\ \/ record.status # "failed" /\ Goto(s, "end_release") /\ UNCHANGED copy
     \/ record.status = "failed" /\ EndAs(s, "failed")
  /\ UNCHANGED <<storeVars, payer, chainVars, faults>>

SubmitClose(s) ==
  /\ pc[s] = "close"
  /\ quote' = copy[s]
  /\ Goto(s, IF copy[s].burn = "reconciled" THEN "thank" ELSE "ended")
  /\ UNCHANGED <<record, lock, exposure, bookVars, chainVars, copy, faults>>

\* releaseSuccessfulExposure: a failure is logged and passed over.
SubmitThank(s) ==
  /\ pc[s] = "thank"
  /\ \/ GiveBack /\ NoFault
     \/ Fault /\ UNCHANGED exposure
  /\ Goto(s, "done")
  /\ UNCHANGED <<quote, record, lock, bookVars, chainVars, copy>>

-----------------------------------------------------------------------------
(***************************************************************************)
(* failDurableSubmission, for a submission and for a status request: the   *)
(* reservation first, then the record.                                     *)
(***************************************************************************)
EndRelease(h) ==
  /\ pc[h] = "end_release"
  /\ GiveBack
  /\ Goto(h, "end_record")
  /\ UNCHANGED <<quote, record, lock, bookVars, chainVars, copy, faults>>

EndRecord(h) ==
  /\ pc[h] = "end_record"
  /\ SetRecord("failed")
  /\ IF h \in Submits THEN EndAs(h, "failed") ELSE Goto(h, "idle") /\ UNCHANGED copy
  /\ UNCHANGED <<quote, lock, exposure, bookVars, chainVars, faults>>

(***************************************************************************)
(* reconcileStatus, the only way a burn whose submission died is settled:  *)
(* nothing but a status request of the client looks for it.                *)
(***************************************************************************)
PollLoad(q) ==
  /\ q \in Polls /\ MayStart(q)
  /\ record.status = "submitted" /\ record.signed
  /\ Goto(q, "observe")
  /\ UNCHANGED <<storeVars, payer, chainVars, copy, faults>>

\* Fault: a status request does not handle expiry.
PollNeverExpires(q) ==
  /\ q \in Polls /\ pc[q] = "observe"
  /\ \/ Observable("confirmed_success") /\ Goto(q, "confirm")
     \/ Observable("confirmed_chain_error") /\ Goto(q, "end_release")
  /\ UNCHANGED <<storeVars, payer, chainVars, copy, faults>>

PollDecided(q) ==
  /\ q \in Polls /\ pc[q] = "observe"
  /\ \/ Observable("confirmed_success") /\ Goto(q, "confirm")
     \/ Observable("expired") /\ Goto(q, "end_release")
     \/ Observable("confirmed_chain_error") /\ Goto(q, "end_release")
  /\ UNCHANGED <<storeVars, payer, chainVars, copy, faults>>

PollPending(q) ==
  /\ q \in Polls /\ pc[q] \in {"observe", "confirm"}
  /\ Goto(q, "idle")
  /\ UNCHANGED <<storeVars, payer, chainVars, copy, faults>>

\* Fault: a transaction no provider returns yet is taken for a failed one.
PollConfirmMissingFails(q) ==
  /\ q \in Polls /\ pc[q] = "confirm"
  /\ \/ Goto(q, "end_release")
     \/ EconomicsHold /\ Goto(q, "poll_account")
  /\ UNCHANGED <<storeVars, payer, chainVars, copy, faults>>

\* reconcileDurableSubmission
PollConfirm(q) ==
  /\ q \in Polls /\ pc[q] = "confirm"
  /\ \/ landed = "err" /\ Goto(q, "end_release")
     \/ EconomicsHold /\ Goto(q, "poll_account")
     \/ AccountSeenOpen /\ Goto(q, "end_release")
  /\ UNCHANGED <<storeVars, payer, chainVars, copy, faults>>

PollAccount(q) ==
  /\ pc[q] = "poll_account"
  /\ accounted' = TRUE
  /\ Goto(q, "poll_release")
  /\ UNCHANGED <<quote, record, lock, exposure, payer, chainVars, copy, faults>>

PollRelease(q) ==
  /\ pc[q] = "poll_release"
  /\ GiveBack
  /\ Goto(q, "poll_record")
  /\ UNCHANGED <<quote, record, lock, bookVars, chainVars, copy, faults>>

PollRecord(q) ==
  /\ pc[q] = "poll_record"
  /\ SetRecord("reconciled")
  /\ Goto(q, "idle")
  /\ UNCHANGED <<quote, lock, exposure, bookVars, chainVars, copy, faults>>

-----------------------------------------------------------------------------
\* A handler's process dies, or a call of it throws outside its catch clause.
Stop(h) ==
  /\ ~AtRest(h)
  /\ Fault
  /\ Goto(h, IF h \in Polls THEN "idle" ELSE "ended")
  /\ UNCHANGED <<storeVars, payer, chainVars, copy>>

\* A block is produced; bytes that were broadcast may be in it while they are valid.
NextBlock ==
  /\ height < MaxHeight
  /\ height' = height + 1
  /\ UNCHANGED <<storeVars, payer, wire, landed, pc, copy, faults>>

Land ==
  /\ wire /\ landed = "none" /\ height <= LastValid
  /\ landed' \in {"ok", "err"}
  /\ UNCHANGED <<storeVars, payer, wire, height, pc, copy, faults>>

Prepare(p) ==
  \/ PrepareLoad(p) \/ PrepareCreate(p) \/ PrepareSave(p) \/ PrepareReserve(p)
  \/ PrepareActivate(p) \/ PrepareWindow(p)

Fail(h) == FailRelease(h) \/ FailRecord(h) \/ FailQuote(h)

Submit(s) ==
  \/ SubmitLoad(s) \/ SubmitLock(s) \/ SubmitCheck(s) \/ SubmitCross(s) \/ SubmitRelay(s)
  \/ SubmitKora(s) \/ SubmitFinal(s) \/ SubmitRecord(s) \/ SubmitPersist(s)
  \/ SubmitBroadcast(s)

Catch(s) == CatchUndo(s) \/ CatchGiveBack(s) \/ CatchSave(s) \/ CatchMark(s)

Settle(s) ==
  \/ SubmitObserve(s) \/ SubmitConfirm(s) \/ SubmitSettle(s) \/ SubmitAccount(s)
  \/ SubmitMismatch(s) \/ SubmitExpire(s) \/ SubmitClose(s) \/ SubmitThank(s)

End(h) == EndRelease(h) \/ EndRecord(h)

Poll(q) ==
  \/ PollLoad(q) \/ PollDecided(q) \/ PollPending(q) \/ PollConfirm(q) \/ PollAccount(q)
  \/ PollRelease(q) \/ PollRecord(q)

Next ==
  \/ \E p \in Prepares : Prepare(p)
  \/ \E a \in Aborts : AbortLoad(a)
  \/ \E h \in Prepares \cup Aborts : Fail(h)
  \/ \E s \in Submits : Submit(s) \/ Catch(s) \/ Settle(s)
  \/ \E h \in Submits \cup Polls : End(h)
  \/ \E q \in Polls : Poll(q)
  \/ \E h \in Handler : Stop(h)
  \/ NextBlock \/ Land

Spec == Init /\ [][Next]_vars

(***************************************************************************)
(* The client keeps asking for a burn that is pending, blocks go by, and   *)
(* an observation asked again and again decides (EventuallyDecided of      *)
(* module CleanSubmission).  No other handler is assumed to make progress. *)
(***************************************************************************)
PollsAnswered ==
  /\ WF_vars(NextBlock)
  /\ \A q \in Polls :
       /\ WF_vars(Poll(q) \/ End(q))
       /\ SF_vars(PollDecided(q)) /\ SF_vars(PollConfirm(q))

PollSpec == Spec /\ PollsAnswered

-----------------------------------------------------------------------------
(***************************************************************************)
(* Kora is asked for the payer's signature at most once, however many      *)
(* submissions race and wherever they stop: GASLESS never signs the same   *)
(* sponsorship twice.                                                      *)
(***************************************************************************)
PayerSignsOnce == payer <= 1

(***************************************************************************)
(* The canonical signature is on the durable record before any byte is     *)
(* broadcast, and no later write of any handler takes it away.             *)
(***************************************************************************)
BroadcastIsPersisted == wire => record.signed

(***************************************************************************)
(* A burn the stored quote calls reconciled is in the books, and nothing   *)
(* is in the books that has not landed without an error.                   *)
(***************************************************************************)
ReconciledIsOnChain ==
  /\ quote.burn = "reconciled" => accounted
  /\ accounted => landed = "ok"

(***************************************************************************)
(* Whether the transaction may still land: its bytes are out, or a         *)
(* submission that holds the lock is on its way to send them.              *)
(***************************************************************************)
OnItsWay(s) ==
  lock = s /\ pc[s] \in {"check", "cross", "relay", "kora", "final", "record", "persist",
                         "broadcast"}
MayStillLand ==
  /\ landed = "none" /\ height <= LastValid
  /\ wire \/ \E s \in Submits : OnItsWay(s)

(***************************************************************************)
(* The reservation is given back only when the transaction cannot land any *)
(* more: a budget never counts as free what GASLESS may yet have to pay.   *)
(***************************************************************************)
ReleasedIsSettled == exposure = "released" => ~MayStillLand

(***************************************************************************)
(* A burn recorded as failed has not burned anything and never will.       *)
(***************************************************************************)
FailedNeverLands == record.status = "failed" => landed # "ok" /\ ~MayStillLand

(***************************************************************************)
(* A record that was settled, either way, is never settled differently.    *)
(***************************************************************************)
SettledIsFinal ==
  [][(record.status = "reconciled" \/ (record.status = "failed" /\ record.signed))
       => record'.status = record.status]_vars

(***************************************************************************)
(* A submitted burn does not stay open for ever, wherever its submission   *)
(* stopped.                                                                *)
(***************************************************************************)
SubmittedIsSettled == record.status = "submitted" ~> record.status \in {"reconciled", "failed"}
=============================================================================
