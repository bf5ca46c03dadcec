----------------------------- MODULE SendEngine -----------------------------
(***************************************************************************)
(* One Send from its quote to its settlement (server/send/engine.ts and    *)
(* the send routes of server/index.ts).  It differs from a Claim where it  *)
(* hurts: a status request needs the stored quote, not the durable record; *)
(* the record fails before the reservation is given back; and a failure    *)
(* before the submission gives it back whatever the user has signed.       *)
(***************************************************************************)
EXTENDS Attempt

Open == db.quote # Gone /\ db.quote.quote \notin {"reconciled", "failed"}

\* A prepared quote is answered again only while its signing window has margin.
PrepareLoad(p) ==
  /\ p \in Prepares /\ MayStart(p) /\ Open
  /\ \/ ~Prepared /\ Take(p, "create", db.quote)
     \/ Prepared /\ db.quote.window /\ Take(p, "reserve", db.quote)

\* The state, the price and the economics must still be those of the quote.
PrepareCreate(p) ==
  /\ at[p] = "create"
  /\ \/ /\ db.record.status = "none" /\ Margin(PrepareMargin)
        /\ Do(p, "persist", RecordCreated, Marked(copy[p], "awaiting"))
     \/ Go(p, "ended")

PreparePersist(p) == at[p] = "persist" /\ Write(p, "reserve", QuoteSaved(copy[p]))

\* The route: reserveQuoteExposure, or abortBeforeWallet.
PrepareReserve(p) ==
  /\ at[p] = "reserve"
  /\ \/ Write(p, "activate", Reserved)
     \/ db.exposure # "reserved" /\ Go(p, "fail_release")

PrepareActivate(p) ==
  /\ at[p] = "activate"
  /\ \/ Margin(PrepareMargin) /\ Take(p, "window", Windowed(copy[p]))
     \/ Go(p, "fail_release")
     \/ copy[p].window /\ Go(p, "done")

PrepareWindow(p) == at[p] = "window" /\ Write(p, "done", QuoteSaved(copy[p]))

Prepare(p) ==
  \/ PrepareLoad(p) \/ PrepareCreate(p) \/ PreparePersist(p) \/ PrepareReserve(p)
  \/ PrepareActivate(p) \/ PrepareWindow(p)

-----------------------------------------------------------------------------
(***************************************************************************)
(* The wallet gate when its checks fail, abortWalletGate (failBeforeWallet) *)
(* and abortWalletApproval (failAfterWallet): they give the reservation    *)
(* back even when the user's signature was returned.                       *)
(***************************************************************************)
AbortLoad(a) == a \in Aborts /\ MayStart(a) /\ Open /\ Prepared /\ Take(a, "fail_release", db.quote)

FailRelease(h) == at[h] = "fail_release" /\ Write(h, "fail_record", GivenBack)
FailRecord(h) == at[h] = "fail_record" /\ Do(h, "fail_quote", RecordSet("failed"), Marked(copy[h], "failed"))
FailQuote(h) == at[h] = "fail_quote" /\ Write(h, "ended", QuoteSaved(copy[h]))

Abort(h) == AbortLoad(h) \/ FailRelease(h) \/ FailRecord(h) \/ FailQuote(h)

-----------------------------------------------------------------------------
(***************************************************************************)
(* submit: a failed quote is not refused, one that is reconciled gives its *)
(* reservation back again.  The catch clause writes quote and record alike. *)
(***************************************************************************)
Early(s) == Marked(copy[s], "awaiting")
Crossed(s) == Marked(copy[s], "failed")

SubmitLoad(s) ==
  /\ s \in Submits /\ MayStart(s) /\ Prepared
  /\ Take(s, CASE db.quote.sig /\ db.quote.part = "reconciled" -> "thank"
               [] db.quote.sig /\ db.quote.part = "submitted" -> "observe"
               [] OTHER -> "lock", db.quote)

SubmitLock(s) ==
  /\ at[s] = "lock"
  /\ \/ db.lock = None /\ Write(s, "check", LockedBy(s))
     \/ db.lock # None /\ Take(s, "undo", Early(s))

SubmitCheck(s) ==
  /\ at[s] = "check"
  /\ \/ Margin(SubmitMargin) /\ Go(s, "cross")
     \/ Take(s, "undo", Early(s))

SubmitCross(s) ==
  LET relaying == Marked(copy[s], "relaying") IN
  /\ at[s] = "cross"
  /\ \/ Take(s, "undo", Early(s))
     \/ Do(s, "relay", QuoteSaved(relaying), relaying)
     \/ Throw(s, "catch_quote", Crossed(s))

SubmitRelay(s) ==
  /\ at[s] = "relay"
  /\ Write(s, "kora", RecordSet("relaying")) \/ Throw(s, "catch_quote", Crossed(s))

SubmitKora(s) == KoraSigns(s, "final") \/ KoraFails(s, "catch_quote", Crossed(s))

\* Fault: broadcast as soon as the simulation passed, recorded by nobody.
SubmitFinalUnrecorded(s) ==
  at[s] = "final" /\ (Take(s, "broadcast", Signed(copy[s])) \/ Take(s, "catch_quote", Crossed(s)))

SubmitFinal(s) == at[s] = "final" /\ (Go(s, "record") \/ Take(s, "catch_quote", Crossed(s)))

SubmitRecord(s) == at[s] = "record" /\ Do(s, "save", RecordSigned, Signed(copy[s]))

SubmitSave(s) == at[s] = "save" /\ Write(s, "broadcast", QuoteSaved(copy[s]))

SubmitBroadcast(s) == at[s] = "broadcast" /\ Sent(s, "observe")

Submit(s) ==
  \/ SubmitLoad(s) \/ SubmitLock(s) \/ SubmitCheck(s) \/ SubmitCross(s) \/ SubmitRelay(s)
  \/ SubmitKora(s) \/ SubmitFinal(s) \/ SubmitRecord(s) \/ SubmitSave(s) \/ SubmitBroadcast(s)

CatchUndo(s) == at[s] = "undo" /\ Write(s, "catch_quote", Unlocked(s))
CatchQuote(s) == at[s] = "catch_quote" /\ Try(s, "catch_record", QuoteSaved(copy[s]))
CatchRecord(s) == at[s] = "catch_record" /\ Try(s, "ended", RecordSet(copy[s].part))
Catch(s) == CatchUndo(s) \/ CatchQuote(s) \/ CatchRecord(s)

-----------------------------------------------------------------------------
(***************************************************************************)
(* reconcileStatus, and finishSubmitted for it and for every submission:   *)
(* it always persists the quote it was given.                              *)
(***************************************************************************)
PollLoad(q) ==
  /\ q \in Polls /\ MayStart(q) /\ db.record.status = "submitted" /\ db.record.signed
  /\ Prepared /\ Take(q, "observe", db.quote)

Pending(h) ==
  at[h] \in {"observe", "confirm"} /\ Take(h, "close", Marked(copy[h], "submitted"))

\* Fault: the transaction's error is not looked at.
DecidedUnread(h) ==
  \/ at[h] = "observe" /\ Observable("success") /\ Go(h, "confirm")
  \/ at[h] = "observe" /\ Observable("expired")
       /\ Do(h, "end_release", RecordSet("failed"), Marked(copy[h], "failed"))
  \/ at[h] = "confirm" /\ Write(h, "account", RecordSet("reconciled"))

Decided(h) ==
  \/ at[h] = "observe" /\ Observable("success") /\ Go(h, "confirm")
  \/ at[h] = "observe" /\ (Observable("expired") \/ Observable("chain_error"))
       /\ Do(h, "end_release", RecordSet("failed"), Marked(copy[h], "failed"))
  \/ at[h] = "confirm" /\ chain.landed = "err" /\ Take(h, "close", Marked(copy[h], "failed"))
  \/ at[h] = "confirm" /\ Matches /\ Write(h, "account", RecordSet("reconciled"))

\* releaseTerminalExposure and releaseSuccessfulExposure: a failure is passed over.
EndRelease(h) == at[h] = "end_release" /\ Try(h, "close", GivenBack)
Account(h) == at[h] = "account" /\ Do(h, "giveback", Booked, Marked(copy[h], "reconciled"))
GiveBack(h) == at[h] = "giveback" /\ Try(h, "close", GivenBack)

Close(h) == at[h] = "close" /\
  Write(h, IF h \in Polls THEN "idle" ELSE IF copy[h].part = "reconciled" THEN "done" ELSE "ended",
        QuoteSaved(copy[h]))

Thank(s) == at[s] = "thank" /\ Try(s, "done", GivenBack)

Settle(h) == Decided(h) \/ EndRelease(h) \/ Account(h) \/ GiveBack(h) \/ Close(h)

Next ==
  \/ \E p \in Prepares : Prepare(p)
  \/ \E h \in Prepares \cup Aborts : Abort(h)
  \/ \E s \in Submits : Submit(s) \/ Catch(s) \/ Thank(s)
  \/ \E q \in Polls : PollLoad(q)
  \/ \E h \in Submits \cup Polls : Pending(h) \/ Settle(h)
  \/ Surroundings

Spec == Init /\ [][Next]_vars
=============================================================================
