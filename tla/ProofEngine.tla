---------------------------- MODULE ProofEngine ----------------------------
(***************************************************************************)
(* The Devnet proof (server/transactions/engine.ts and the transaction     *)
(* routes of server/index.ts): no reservation, no status request, the      *)
(* quote saved before its record and the bytes broadcast before their      *)
(* signature is recorded.                                                  *)
(***************************************************************************)
EXTENDS Attempt

Open == db.quote # Gone /\ db.quote.quote \notin {"reconciled", "failed"}

PrepareLoad(p) ==
  /\ p \in Prepares /\ MayStart(p) /\ Open
  /\ Take(p, IF Prepared THEN "done" ELSE "persist", db.quote)

PreparePersist(p) ==
  LET prepared == Marked(copy[p], "awaiting") IN
  at[p] = "persist" /\ (Do(p, "create", QuoteSaved(prepared), prepared) \/ Go(p, "ended"))

PrepareCreate(p) ==
  /\ at[p] = "create"
  /\ IF db.record.status = "none" THEN Write(p, "done", RecordCreated) ELSE Go(p, "ended")

Prepare(p) == PrepareLoad(p) \/ PreparePersist(p) \/ PrepareCreate(p)

-----------------------------------------------------------------------------
SubmitLoad(s) == s \in Submits /\ MayStart(s) /\ Open /\ Prepared /\ Take(s, "lock", db.quote)

\* The catch clause: "undo" has not crossed, "catch_quote" has.
SubmitLock(s) ==
  /\ at[s] = "lock"
  /\ \/ db.lock = None /\ Write(s, "check", LockedBy(s))
     \/ db.lock # None /\ Go(s, "undo")

\* validateSignedProof, then the quote and the record say so.
SubmitCheck(s) ==
  LET validated == Marked(copy[s], "validated") IN
  at[s] = "check" /\ (Do(s, "validated", QuoteSaved(validated), validated) \/ Go(s, "undo"))

SubmitValidated(s) ==
  at[s] = "validated" /\ (Write(s, "cross", RecordSet("validated")) \/ Throw(s, "undo", copy[s]))

SubmitCross(s) ==
  LET relaying == Marked(copy[s], "relaying") IN
  /\ at[s] = "cross"
  /\ \/ Go(s, "undo")
     \/ Do(s, "relay", QuoteSaved(relaying), relaying)
     \/ Throw(s, "catch_quote", Marked(copy[s], "failed"))

SubmitRelay(s) ==
  /\ at[s] = "relay"
  /\ \/ Write(s, "kora", RecordSet("relaying"))
     \/ Throw(s, "catch_quote", Marked(copy[s], "failed"))

SubmitKora(s) == KoraSigns(s, "final") \/ KoraFails(s, "catch_quote", Marked(copy[s], "failed"))

\* The simulation; then sendRawTransaction, which may send and yet fail to answer.
SubmitFinal(s) ==
  /\ at[s] = "final"
  /\ Go(s, "broadcast") \/ Take(s, "catch_quote", Marked(copy[s], "failed"))

SubmitBroadcast(s) ==
  /\ at[s] = "broadcast"
  /\ \/ Chain(s, "record", Signed(copy[s]), [chain EXCEPT !.wire = TRUE])
     \/ \E sent \in BOOLEAN :
          Chain(s, "catch_quote", Marked(copy[s], "failed"), [chain EXCEPT !.wire = @ \/ sent])

\* With the signature in hand every failure ends in "submitted".
SubmitRecord(s) ==
  at[s] = "record" /\ (Write(s, "save", RecordSigned) \/ Throw(s, "catch_quote", copy[s]))

\* The event that follows needs the record.
SubmitSave(s) ==
  /\ at[s] = "save"
  /\ Write(s, IF db.record.status = "none" THEN "catch_quote" ELSE "observe", QuoteSaved(copy[s]))

Submit(s) ==
  \/ SubmitLoad(s) \/ SubmitLock(s) \/ SubmitCheck(s) \/ SubmitValidated(s) \/ SubmitCross(s)
  \/ SubmitRelay(s) \/ SubmitKora(s) \/ SubmitFinal(s) \/ SubmitBroadcast(s) \/ SubmitRecord(s)
  \/ SubmitSave(s)

-----------------------------------------------------------------------------
(***************************************************************************)
(* confirm and reconcile: what the chain returns decides, and without it   *)
(* only a chain error does; an expired signature stays submitted.  The     *)
(* entry in the books comes after the record.                              *)
(***************************************************************************)
Confirm(s) ==
  /\ at[s] = "observe"
  /\ \/ Do(s, "close", RecordSet("submitted"), copy[s])
     \/ Observable("chain_error") /\ Do(s, "account", RecordSet("failed"), Marked(copy[s], "failed"))
     \/ Matches /\ Do(s, "account", RecordSet("reconciled"), Marked(copy[s], "reconciled"))

Account(s) ==
  at[s] = "account" /\ Write(s, "close", IF copy[s].part = "reconciled" THEN Booked ELSE db)

Close(s) == at[s] = "close" /\ Write(s, "done", QuoteSaved(copy[s]))

Settle(s) == Confirm(s) \/ Account(s) \/ Close(s)

\* A record is written whether the submission had crossed or not.
CatchUndo(s) ==
  at[s] = "undo" /\ Do(s, "catch_record", Unlocked(s), Marked(copy[s], "failed"))
CatchQuote(s) == at[s] = "catch_quote" /\ Try(s, "catch_record", QuoteSaved(copy[s]))
CatchRecord(s) ==
  at[s] = "catch_record" /\ Try(s, "ended", IF copy[s].sig THEN RecordSigned ELSE RecordSet("failed"))
Catch(s) == CatchUndo(s) \/ CatchQuote(s) \/ CatchRecord(s)

Next ==
  \/ \E p \in Prepares : Prepare(p)
  \/ \E s \in Submits : Submit(s) \/ Settle(s) \/ Catch(s)
  \/ Surroundings

Spec == Init /\ [][Next]_vars
=============================================================================
