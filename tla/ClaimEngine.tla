---------------------------- MODULE ClaimEngine ----------------------------
(***************************************************************************)
(* One Claim from its quote to its settlement (server/claim/engine.ts and  *)
(* the claim routes of server/index.ts).  A quote has one batch: createQuote *)
(* cuts the accounts to the size of one.  The batch is `part' of the quote. *)
(*                                                                         *)
(* Left out: intents and audit events, which are written and never read;   *)
(* the refusals (controls, rate limits, ownership, time limits) of a       *)
(* request that has not changed anything yet.                              *)
(***************************************************************************)
EXTENDS Attempt

\* requireQuote: the quote is there and has not finished.
Open == db.quote # Gone /\ db.quote.quote \notin {"reconciled", "failed"}

PrepareLoad(p) ==
  /\ p \in Prepares /\ MayStart(p) /\ Open
  /\ Take(p, IF Prepared THEN "reserve" ELSE "create", db.quote)

\* createTransaction: a second record for the quote violates its unique key.
PrepareCreate(p) ==
  /\ at[p] = "create"
  /\ \/ /\ db.record.status = "none" /\ Margin(PrepareMargin)
        /\ Do(p, "persist", RecordCreated, Part(copy[p], "awaiting"))
     \/ Go(p, "ended")

PreparePersist(p) == at[p] = "persist" /\ Write(p, "open", QuoteSaved(copy[p]))

\* The batch first, then the status of the quote itself.
PrepareOpen(p) ==
  LET open == Marked(copy[p], "awaiting") IN
  at[p] = "open" /\ Do(p, "reserve", QuoteSaved(open), open)

\* The route reserves between the two halves; a refusal goes to abortBeforeWallet.
PrepareReserve(p) ==
  /\ at[p] = "reserve"
  /\ \/ Write(p, "activate", Reserved)
     \/ db.exposure # "reserved" /\ Go(p, "fail_release")

PrepareActivate(p) ==
  /\ at[p] = "activate"
  /\ \/ Margin(PrepareMargin) /\ Take(p, "window", Windowed(copy[p]))
     \/ Go(p, "fail_release")
     \/ copy[p].window /\ Go(p, "done")   \* it has margin left

PrepareWindow(p) == at[p] = "window" /\ Write(p, "done", QuoteSaved(copy[p]))

Prepare(p) ==
  \/ PrepareLoad(p) \/ PrepareCreate(p) \/ PreparePersist(p) \/ PrepareOpen(p)
  \/ PrepareReserve(p) \/ PrepareActivate(p) \/ PrepareWindow(p)

-----------------------------------------------------------------------------
(***************************************************************************)
(* The ways out before a submission: the wallet gate when its checks fail, *)
(* abortWalletGate, abortWalletApproval.  All end in failAfterWallet, which *)
(* keeps the reservation when the user's signature was returned.           *)
(***************************************************************************)
AbortGate(a) == a \in Aborts /\ MayStart(a) /\ Prepared /\ Open
                  /\ Take(a, "fail_release", db.quote)

\* Also abortWalletGate, which is an approval that returned no signature.
AbortApproval(a) ==
  /\ a \in Aborts /\ MayStart(a) /\ Prepared /\ db.quote.quote # "failed"
  /\ \E returned \in BOOLEAN :
       Take(a, IF returned THEN "fail_record" ELSE "fail_release", db.quote)

FailRelease(h) == at[h] = "fail_release" /\ Write(h, "fail_record", GivenBack)
FailRecord(h) == at[h] = "fail_record" /\ Do(h, "fail_quote", RecordSet("failed"), Marked(copy[h], "failed"))
FailQuote(h) == at[h] = "fail_quote" /\ Write(h, "ended", QuoteSaved(copy[h]))

Abort(h) == AbortGate(h) \/ AbortApproval(h) \/ FailRelease(h) \/ FailRecord(h) \/ FailQuote(h)

-----------------------------------------------------------------------------
(***************************************************************************)
(* submit.  The catch clause by how far it had come: before the relayer    *)
(* boundary the locks are released and the batch waits again; after it the *)
(* batch is failed and the locks and the reservation stay.                 *)
(***************************************************************************)
Early(s) == Part(copy[s], "awaiting")
Crossed(s) == Part(copy[s], "failed")

SubmitLoad(s) ==
  /\ s \in Submits /\ MayStart(s) /\ Prepared
  /\ Take(s, CASE db.quote.part = "reconciled" -> "done"
               [] db.quote.part = "submitted" -> "observe"
               [] OTHER -> "lock", db.quote)

SubmitLock(s) ==
  /\ at[s] = "lock"
  /\ \/ db.lock = None /\ Write(s, "check", LockedBy(s))
     \/ db.lock # None /\ Take(s, "undo", Early(s))

\* The margin left when the signature came back, and the signed message.
SubmitCheck(s) ==
  /\ at[s] = "check"
  /\ \/ Margin(SubmitMargin) /\ Go(s, "cross")
     \/ Take(s, "undo", Early(s))

\* Accounts, controls, fee and balance, then the boundary is announced in the quote.
SubmitCross(s) ==
  LET relaying == Part(copy[s], "relaying") IN
  /\ at[s] = "cross"
  /\ \/ Take(s, "undo", Early(s))
     \/ Do(s, "relay", QuoteSaved(relaying), relaying)
     \/ Throw(s, "catch_quote", Crossed(s))

SubmitRelay(s) ==
  /\ at[s] = "relay"
  /\ Write(s, "kora", RecordSet("relaying")) \/ Throw(s, "catch_quote", Crossed(s))

\* Fault: a failure of Kora is taken back like one before the boundary.
SubmitKoraUndone(s) == KoraSigns(s, "final") \/ KoraFails(s, "undo", Early(s))
SubmitKora(s) == KoraSigns(s, "final") \/ KoraFails(s, "catch_quote", Crossed(s))

\* The hash, the payer's signature, the simulation of the signed bytes.
SubmitFinal(s) ==
  at[s] = "final" /\ (Go(s, "record") \/ Take(s, "catch_quote", Crossed(s)))

SubmitRecord(s) == at[s] = "record" /\
  Do(s, "save", RecordSigned, [Part(copy[s], "submitted") EXCEPT !.sig = TRUE])

SubmitSave(s) == at[s] = "save" /\ Write(s, "broadcast", QuoteSaved(copy[s]))

SubmitBroadcast(s) == at[s] = "broadcast" /\ Sent(s, "observe")

Submit(s) ==
  \/ SubmitLoad(s) \/ SubmitLock(s) \/ SubmitCheck(s) \/ SubmitCross(s) \/ SubmitRelay(s)
  \/ SubmitKora(s) \/ SubmitFinal(s) \/ SubmitRecord(s) \/ SubmitSave(s) \/ SubmitBroadcast(s)

CatchUndo(s) == at[s] = "undo" /\ Write(s, "catch_quote", Unlocked(s))
CatchQuote(s) == at[s] = "catch_quote" /\ Try(s, "catch_record", QuoteSaved(copy[s]))
CatchRecord(s) == at[s] = "catch_record" /\ Try(s, "ended", RecordSet(copy[s].part))
Catch(s) == CatchUndo(s) \/ CatchQuote(s) \/ CatchRecord(s)

-----------------------------------------------------------------------------
(***************************************************************************)
(* The result.  A resumed submission, which never holds the lock, persists *)
(* it only when it is a success.                                           *)
(***************************************************************************)
Resuming(s) == db.lock # s

Finish(s, st, d) ==
  IF Resuming(s) /\ st # "reconciled" THEN Write(s, "ended", d) ELSE Do(s, "close", d, Marked(copy[s], st))

SubmitObserve(s) ==
  /\ s \in Submits /\ at[s] = "observe"
  /\ \/ Observable("success") /\ Go(s, "confirm")
     \/ Observable("expired") /\ Go(s, "expire")
     \/ Observable("chain_error") /\ Finish(s, "failed", db)
     \/ Finish(s, "submitted", db)

\* Fault: a transaction no provider knows yet is a failed one.
SubmitConfirmMissingFails(s) ==
  /\ s \in Submits /\ at[s] = "confirm"
  /\ \/ Finish(s, "failed", RecordSet("failed"))
     \/ Matches /\ Write(s, "account", RecordSet("reconciled"))

\* reconcile: a provider may not know the transaction yet.
SubmitConfirm(s) ==
  /\ s \in Submits /\ at[s] = "confirm"
  /\ \/ Finish(s, "submitted", db)
     \/ chain.landed = "err" /\ Finish(s, "failed", db)
     \/ Matches /\ Write(s, "account", RecordSet("reconciled"))
     \/ Mismatches /\ Finish(s, "failed", RecordSet("failed"))

SubmitAccount(s) == at[s] = "account" /\ Finish(s, "reconciled", Booked)

\* expireSubmittedBatch
SubmitExpire(s) ==
  /\ at[s] = "expire"
  /\ IF db.record.status # "failed" THEN Go(s, "end_release") ELSE Finish(s, "failed", db)

SubmitClose(s) ==
  /\ at[s] = "close"
  /\ Write(s, IF copy[s].part = "reconciled" THEN "thank" ELSE "ended", QuoteSaved(copy[s]))

SubmitThank(s) == at[s] = "thank" /\ Try(s, "done", GivenBack)

\* failDurableSubmission: the reservation, then the record.
EndRelease(h) == at[h] = "end_release" /\ Write(h, "end_record", GivenBack)
EndRecord(h) ==
  /\ at[h] = "end_record"
  /\ IF h \in Submits THEN Finish(h, "failed", RecordSet("failed"))
                      ELSE Write(h, "idle", RecordSet("failed"))

Settle(s) ==
  \/ SubmitObserve(s) \/ SubmitConfirm(s) \/ SubmitAccount(s) \/ SubmitExpire(s)
  \/ SubmitClose(s) \/ SubmitThank(s)

-----------------------------------------------------------------------------
(***************************************************************************)
(* reconcileStatus and reconcileDurableSubmission: a status request needs  *)
(* the durable record only.                                                *)
(***************************************************************************)
PollLoad(q) == q \in Polls /\ MayStart(q) /\ db.record.status = "submitted" /\ db.record.signed
                 /\ Go(q, "observe")

PollPending(q) == q \in Polls /\ at[q] \in {"observe", "confirm"} /\ Go(q, "idle")

\* Fault: a status request leaves a signature alone that has expired.
PollDecidedUnexpired(q) ==
  /\ q \in Polls
  /\ \/ at[q] = "observe" /\ Observable("success") /\ Go(q, "confirm")
     \/ at[q] = "observe" /\ Observable("chain_error") /\ Go(q, "end_release")
     \/ at[q] = "confirm" /\ (chain.landed = "err" \/ Mismatches) /\ Go(q, "end_release")
     \/ at[q] = "confirm" /\ Matches /\ Go(q, "poll_account")

PollDecided(q) ==
  /\ q \in Polls
  /\ \/ at[q] = "observe" /\ Observable("success") /\ Go(q, "confirm")
     \/ at[q] = "observe" /\ (Observable("expired") \/ Observable("chain_error"))
          /\ Go(q, "end_release")
     \/ at[q] = "confirm" /\ (chain.landed = "err" \/ Mismatches) /\ Go(q, "end_release")
     \/ at[q] = "confirm" /\ Matches /\ Go(q, "poll_account")

PollAccount(q) == at[q] = "poll_account" /\ Write(q, "poll_release", Booked)
PollRelease(q) == at[q] = "poll_release" /\ Write(q, "poll_record", GivenBack)
PollRecord(q) == at[q] = "poll_record" /\ Write(q, "idle", RecordSet("reconciled"))

Poll(q) ==
  \/ PollLoad(q) \/ PollPending(q) \/ PollDecided(q) \/ PollAccount(q) \/ PollRelease(q)
  \/ PollRecord(q) \/ EndRelease(q) \/ EndRecord(q)

Next ==
  \/ \E p \in Prepares : Prepare(p)
  \/ \E h \in Prepares \cup Aborts : Abort(h)
  \/ \E s \in Submits :
       Submit(s) \/ Catch(s) \/ Settle(s) \/ EndRelease(s) \/ EndRecord(s)
  \/ \E q \in Polls : Poll(q)
  \/ Surroundings

Spec == Init /\ [][Next]_vars
=============================================================================
