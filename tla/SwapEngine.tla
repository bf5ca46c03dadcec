----------------------------- MODULE SwapEngine -----------------------------
(***************************************************************************)
(* One Swap from its quote to its settlement (server/swap/engine.ts and    *)
(* the swap routes of server/index.ts).  A swap has no status request and  *)
(* no abort: only a repeated submission looks for the result of one that   *)
(* died, and a prepare whose reservation is refused leaves its record.     *)
(* Which of two quotes is the authoritative one is left out.              *)
(***************************************************************************)
EXTENDS Attempt

Open == db.quote # Gone /\ db.quote.quote \notin {"reconciled", "failed"}

PrepareLoad(p) ==
  /\ p \in Prepares /\ MayStart(p) /\ Open
  /\ Take(p, IF Prepared THEN "reserve" ELSE "create", db.quote)

\* The saved route with a fresh blockhash; the signing deadline is the quote's.
PrepareCreate(p) ==
  /\ at[p] = "create"
  /\ \/ /\ db.record.status = "none" /\ Margin(PrepareMargin)
        /\ Do(p, "persist", RecordCreated, Marked(copy[p], "awaiting"))
     \/ Go(p, "ended")

PreparePersist(p) == at[p] = "persist" /\ Write(p, "reserve", QuoteSaved(copy[p]))

\* The route: a refused reservation is answered and nothing is undone.
PrepareReserve(p) ==
  /\ at[p] = "reserve"
  /\ \/ Write(p, "done", Reserved)
     \/ db.exposure # "reserved" /\ Go(p, "ended")

Prepare(p) == PrepareLoad(p) \/ PrepareCreate(p) \/ PreparePersist(p) \/ PrepareReserve(p)

-----------------------------------------------------------------------------
Early(s) == Marked(copy[s], "awaiting")
Crossed(s) == Marked(copy[s], "failed")

SubmitLoad(s) ==
  /\ s \in Submits /\ MayStart(s) /\ Prepared
  /\ Take(s, CASE db.quote.sig /\ db.quote.part = "reconciled" -> "thank"
               [] db.quote.sig /\ db.quote.part = "submitted" -> "observe"
               [] OTHER -> "lock", db.quote)

SubmitLock(s) ==
  /\ at[s] = "lock"
  /\ \/ db.lock = None /\ Write(s, "cross", LockedBy(s))
     \/ db.lock # None /\ Take(s, "undo", Early(s))

\* The signed message, the state, the controls, fee and balance: no margin is asked for.
SubmitCross(s) ==
  LET relaying == Marked(copy[s], "relaying") IN
  /\ at[s] = "cross"
  /\ \/ Take(s, "undo", Early(s))
     \/ Do(s, "relay", QuoteSaved(relaying), relaying)
     \/ Throw(s, "catch_quote", Crossed(s))

SubmitRelay(s) ==
  /\ at[s] = "relay"
  /\ Write(s, "kora", RecordSet("relaying")) \/ Throw(s, "catch_quote", Crossed(s))

\* canReleaseAfterKoraFailure: a refusal that proves that nothing was signed.
SubmitKora(s) ==
  \/ KoraSigns(s, "final")
  \/ KoraFails(s, "catch_quote", Crossed(s))
  \/ at[s] = "kora" /\ Take(s, "giveback", Crossed(s))

SubmitFinal(s) == at[s] = "final" /\ (Go(s, "record") \/ Take(s, "catch_quote", Crossed(s)))

SubmitRecord(s) == at[s] = "record" /\ Do(s, "save", RecordSigned, Signed(copy[s]))

SubmitSave(s) == at[s] = "save" /\ Write(s, "broadcast", QuoteSaved(copy[s]))

SubmitBroadcast(s) == at[s] = "broadcast" /\ Sent(s, "observe")

Submit(s) ==
  \/ SubmitLoad(s) \/ SubmitLock(s) \/ SubmitCross(s) \/ SubmitRelay(s) \/ SubmitKora(s)
  \/ SubmitFinal(s) \/ SubmitRecord(s) \/ SubmitSave(s) \/ SubmitBroadcast(s)

CatchUndo(s) == at[s] = "undo" /\ Write(s, "catch_quote", Unlocked(s))
CatchGiveBack(s) == at[s] = "giveback" /\ Try(s, "catch_quote", GivenBack)
CatchQuote(s) == at[s] = "catch_quote" /\ Try(s, "catch_record", QuoteSaved(copy[s]))
CatchRecord(s) == at[s] = "catch_record" /\ Try(s, "ended", RecordSet(copy[s].part))
Catch(s) == CatchUndo(s) \/ CatchGiveBack(s) \/ CatchQuote(s) \/ CatchRecord(s)

-----------------------------------------------------------------------------
\* finishSubmitted, for a submission and for one that is resumed.
Pending(s) == at[s] \in {"observe", "confirm"} /\ Take(s, "close", Marked(copy[s], "submitted"))

Decided(s) ==
  \/ at[s] = "observe" /\ Observable("success") /\ Go(s, "confirm")
  \/ at[s] = "observe" /\ (Observable("expired") \/ Observable("chain_error"))
       /\ Do(s, "end_release", RecordSet("failed"), Marked(copy[s], "failed"))
  \/ at[s] = "confirm" /\ chain.landed = "err" /\ Take(s, "close", Marked(copy[s], "failed"))
  \/ at[s] = "confirm" /\ Matches /\ Write(s, "account", RecordSet("reconciled"))

EndRelease(s) == at[s] = "end_release" /\ Try(s, "close", GivenBack)
Account(s) == at[s] = "account" /\ Do(s, "thank", Booked, Marked(copy[s], "reconciled"))

\* releaseSuccessfulExposure; a swap that was reconciled before gives back again.
Thank(s) == at[s] = "thank" /\ Try(s, IF copy[s] = db.quote THEN "done" ELSE "close", GivenBack)

Close(s) == at[s] = "close" /\
  Write(s, IF copy[s].part = "reconciled" THEN "done" ELSE "ended", QuoteSaved(copy[s]))

Settle(s) ==
  Pending(s) \/ Decided(s) \/ EndRelease(s) \/ Account(s) \/ Thank(s) \/ Close(s)

Next ==
  \/ \E p \in Prepares : Prepare(p)
  \/ \E s \in Submits : Submit(s) \/ Catch(s) \/ Settle(s)
  \/ Surroundings

Spec == Init /\ [][Next]_vars
=============================================================================
