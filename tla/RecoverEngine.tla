--------------------------- MODULE RecoverEngine ---------------------------
(***************************************************************************)
(* One Recover Value from its quote to its settlement                      *)
(* (server/recover/engine.ts and the recover routes of server/index.ts).   *)
(* What it has of its own: cleaning up an unsigned attempt asks the        *)
(* durable record first; a submission that fails before the relayer        *)
(* boundary cleans up as well, after it has released its locks; and a      *)
(* status request ends whatever the chain can no longer accept.            *)
(***************************************************************************)
EXTENDS Attempt

Open == db.quote # Gone /\ db.quote.quote \notin {"reconciled", "failed"}

PrepareLoad(p) ==
  /\ p \in Prepares /\ MayStart(p) /\ Open
  /\ Take(p, IF Prepared THEN "reserve" ELSE "create", db.quote)

\* The route is built again; the intent and the record are created only now.
PrepareCreate(p) ==
  /\ at[p] = "create"
  /\ \/ /\ db.record.status = "none" /\ Margin(PrepareMargin)
        /\ Do(p, "persist", RecordCreated, Marked(copy[p], "awaiting"))
     \/ Go(p, "ended")

PreparePersist(p) == at[p] = "persist" /\ Write(p, "reserve", QuoteSaved(copy[p]))

PrepareReserve(p) ==
  /\ at[p] = "reserve"
  /\ \/ Write(p, "activate", Reserved)
     \/ db.exposure # "reserved" /\ Go(p, "cleanup")

\* The account, the wrapped SOL account and the height are always checked again.
PrepareActivate(p) ==
  /\ at[p] = "activate"
  /\ \/ Margin(PrepareMargin) /\ Take(p, "window", Windowed(copy[p]))
     \/ Go(p, "cleanup")

PrepareWindow(p) == at[p] = "window" /\ Write(p, "done", QuoteSaved(copy[p]))

Prepare(p) ==
  \/ PrepareLoad(p) \/ PrepareCreate(p) \/ PreparePersist(p) \/ PrepareReserve(p)
  \/ PrepareActivate(p) \/ PrepareWindow(p)

-----------------------------------------------------------------------------
\* The wallet gate when too few blocks remain, abortWalletGate, abortWalletApproval.
AbortLoad(a) == a \in Aborts /\ MayStart(a) /\ Take(a, "cleanup", db.quote)

(***************************************************************************)
(* terminalizeUnsigned: what the record says is read once, before the      *)
(* reservation is given back; the record is left alone if it had failed,   *)
(* and a quote that is gone stays gone.                                    *)
(***************************************************************************)
Cleanup(h) ==
  /\ at[h] = "cleanup"
  /\ Go(h, IF db.record.signed THEN "ended"
           ELSE CASE db.record.status = "awaiting" -> "fail_release"
                  [] db.record.status = "failed" -> "again"
                  [] OTHER -> "ended")

FailRelease(h) ==
  /\ at[h] \in {"fail_release", "again"}
  /\ Write(h, IF at[h] = "again" THEN "fail_quote" ELSE "fail_record", GivenBack)

FailRecord(h) == at[h] = "fail_record" /\ Write(h, "fail_quote", RecordSet("failed"))

FailQuote(h) ==
  /\ at[h] = "fail_quote"
  /\ Write(h, "ended", IF copy[h] = Gone THEN db ELSE QuoteSaved(Marked(copy[h], "failed")))

Abort(h) ==
  AbortLoad(h) \/ Cleanup(h) \/ FailRelease(h) \/ FailRecord(h) \/ FailQuote(h)

-----------------------------------------------------------------------------
(***************************************************************************)
(* submit.  After the boundary and before Kora has answered, a failure     *)
(* writes nothing: a status request ends such a record once it is expired. *)
(***************************************************************************)
SubmitLoad(s) ==
  /\ s \in Submits /\ MayStart(s) /\ Prepared /\ db.quote.part # "failed"
  /\ Take(s, CASE db.quote.sig /\ db.quote.part = "reconciled" -> "done"
               [] db.quote.sig /\ db.quote.part = "submitted" -> "observe"
               [] OTHER -> "lock", db.quote)

\* Losing the lock is REPLAY_DETECTED, the one early failure that cleans nothing up.
SubmitLock(s) ==
  /\ at[s] = "lock"
  /\ \/ db.lock = None /\ Write(s, "check", LockedBy(s))
     \/ db.lock # None /\ Go(s, "reject")

SubmitCheck(s) ==
  /\ at[s] = "check"
  /\ \/ Margin(SubmitMargin) /\ Go(s, "cross")
     \/ Go(s, "undo")

SubmitCross(s) ==
  LET relaying == Part(copy[s], "relaying") IN
  /\ at[s] = "cross"
  /\ Go(s, "undo") \/ Do(s, "relay", QuoteSaved(relaying), relaying)

SubmitRelay(s) == at[s] = "relay" /\ Write(s, "kora", RecordSet("relaying"))

\* The authorization may be refused, and Kora asked in vain.
SubmitKora(s) == KoraSigns(s, "final") \/ KoraFails(s, "ended", copy[s])

SubmitFinal(s) ==
  at[s] = "final" /\ (Go(s, "record") \/ Take(s, "giveback", Marked(copy[s], "failed")))

SubmitRecord(s) == at[s] = "record" /\ Do(s, "save", RecordSigned, Signed(copy[s]))

SubmitSave(s) == at[s] = "save" /\ Write(s, "broadcast", QuoteSaved(copy[s]))

SubmitBroadcast(s) == at[s] = "broadcast" /\ Sent(s, "observe")

Submit(s) ==
  \/ SubmitLoad(s) \/ SubmitLock(s) \/ SubmitCheck(s) \/ SubmitCross(s) \/ SubmitRelay(s)
  \/ SubmitKora(s) \/ SubmitFinal(s) \/ SubmitRecord(s) \/ SubmitSave(s) \/ SubmitBroadcast(s)

\* The locks are released first; then failUnsigned, unless the lock was lost.
CatchUndo(s) ==
  /\ at[s] \in {"undo", "reject"}
  /\ Write(s, IF at[s] = "undo" THEN "cleanup" ELSE "ended", Unlocked(s))

CatchGiveBack(s) == at[s] = "giveback" /\ Try(s, "catch_quote", GivenBack)
CatchQuote(s) == at[s] = "catch_quote" /\ Try(s, "catch_record", QuoteSaved(copy[s]))
CatchRecord(s) == at[s] = "catch_record" /\ Try(s, "ended", RecordSet("failed"))
Catch(s) == CatchUndo(s) \/ CatchGiveBack(s) \/ CatchQuote(s) \/ CatchRecord(s)

-----------------------------------------------------------------------------
\* A submission, new or resumed, always persists how it ended.
Finish(s, st, d) == Do(s, "close", d, Marked(copy[s], st))

\* Fault: a verdict that is not reached in time counts as a failure.
SubmitObserveGivingUp(s) ==
  /\ s \in Submits /\ at[s] = "observe"
  /\ \/ Observable("success") /\ Go(s, "confirm")
     \/ Go(s, "expire")

SubmitObserve(s) ==
  /\ s \in Submits /\ at[s] = "observe"
  /\ \/ Observable("success") /\ Go(s, "confirm")
     \/ (Observable("expired") \/ Observable("chain_error")) /\ Go(s, "expire")
     \/ Finish(s, "submitted", db)

SubmitConfirm(s) ==
  /\ s \in Submits /\ at[s] = "confirm"
  /\ \/ Finish(s, "submitted", db)
     \/ chain.landed = "err" /\ Finish(s, "failed", db)
     \/ Matches /\ Write(s, "account", RecordSet("reconciled"))
     \/ Mismatches /\ Finish(s, "failed", RecordSet("failed"))

SubmitAccount(s) == at[s] = "account" /\ Finish(s, "reconciled", Booked)

\* failSubmittedRecover
SubmitExpire(s) ==
  /\ at[s] = "expire"
  /\ IF db.record.status # "failed" THEN Go(s, "end_release") ELSE Finish(s, "failed", db)

SubmitClose(s) ==
  /\ at[s] = "close"
  /\ Write(s, IF copy[s].part = "reconciled" THEN "thank" ELSE "ended", QuoteSaved(copy[s]))

\* releaseSuccessfulExposure is not caught here: a failure fails the answer.
SubmitThank(s) == at[s] = "thank" /\ Write(s, "done", GivenBack)

Settle(s) ==
  \/ SubmitObserve(s) \/ SubmitConfirm(s) \/ SubmitAccount(s) \/ SubmitExpire(s)
  \/ SubmitClose(s) \/ SubmitThank(s)

\* failDurableSubmission
EndRelease(h) == at[h] = "end_release" /\ Write(h, "end_record", GivenBack)
EndRecord(h) ==
  /\ at[h] = "end_record"
  /\ IF h \in Submits THEN Finish(h, "failed", RecordSet("failed"))
                      ELSE Write(h, "idle", RecordSet("failed"))

-----------------------------------------------------------------------------
(***************************************************************************)
(* reconcileStatus.  It goes by the record as it was when the request came *)
(* in: one that was not submitted then is failed once every provider is    *)
(* past the transaction's last block, whatever became of it while the      *)
(* heights were read.                                                      *)
(***************************************************************************)
PollLoad(q) ==
  /\ q \in Polls /\ MayStart(q)
  /\ db.record.status \notin {"none", "reconciled", "failed"}
  /\ Go(q, IF db.record.status = "submitted" /\ db.record.signed THEN "observe" ELSE "heights")

PollHeights(q) ==
  /\ at[q] = "heights"
  /\ \/ chain.height > LastValid /\ Go(q, "end_release")
     \/ Go(q, "idle")

PollPending(q) == q \in Polls /\ at[q] \in {"observe", "confirm"} /\ Go(q, "idle")

PollDecided(q) ==
  /\ q \in Polls
  /\ \/ at[q] = "observe" /\ Observable("success") /\ Go(q, "confirm")
     \/ at[q] = "observe" /\ (Observable("expired") \/ Observable("chain_error"))
          /\ Go(q, "end_release")
     \/ at[q] = "confirm" /\ (chain.landed = "err" \/ Mismatches) /\ Go(q, "end_release")
     \/ at[q] = "confirm" /\ Matches /\ Go(q, "poll_account")

PollAccount(q) == at[q] = "poll_account" /\ Write(q, "poll_release", Booked)
PollRelease(q) == at[q] = "poll_release" /\ Write(q, "poll_record", GivenBack)
PollRecord(q) == at[q] = "poll_record" /\ Write(q, "idle", RecordSet("reconciled"))

Poll(q) ==
  \/ PollLoad(q) \/ PollHeights(q) \/ PollPending(q) \/ PollDecided(q) \/ PollAccount(q)
  \/ PollRelease(q) \/ PollRecord(q) \/ EndRelease(q) \/ EndRecord(q)

Next ==
  \/ \E p \in Prepares : Prepare(p)
  \/ \E h \in Prepares \cup Aborts \cup Submits : Abort(h)
  \/ \E s \in Submits :
       Submit(s) \/ Catch(s) \/ Settle(s) \/ EndRelease(s) \/ EndRecord(s)
  \/ \E q \in Polls : Poll(q)
  \/ Surroundings

Spec == Init /\ [][Next]_vars
=============================================================================
