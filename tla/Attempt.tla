------------------------------ MODULE Attempt ------------------------------
(***************************************************************************)
(* What the engines of the gasless operations have in common: one attempt  *)
(* at a transaction, from its quote to its settlement, as a set of request *)
(* handlers that share two stores and one chain.                           *)
(*                                                                         *)
(* A handler works on a COPY of the quote it loaded.  Every await between  *)
(* its reads and writes is a point where the other handlers run, so one    *)
(* action is what a handler does between two writes that others can see.   *)
(* The combinators below say what such a step leaves alone; each engine    *)
(* module says which steps there are.                                      *)
(***************************************************************************)
EXTENDS Integers, FiniteSets

CONSTANTS
  Prepares, Aborts, Submits, Polls,  \* the requests that arrive
  None,              \* no holder of the replay lock
  Disciplined,       \* the requests follow a console's order
  AccountLag,        \* a provider may not have seen the closure it is asked about
  LastValid,         \* lastValidBlockHeight of the prepared transaction
  PrepareMargin,     \* SWAP_MINIMUM_BLOCK_HEIGHT_MARGIN
  SubmitMargin,      \* SEND_POST_SIGNATURE_BLOCK_MARGIN
  MaxHeight,         \* bound: the last block of the run
  MaxFaults          \* bound: handlers that stop and calls that fail

Handler == Prepares \cup Aborts \cup Submits \cup Polls

ASSUME ConstantsAssumption ==
  /\ Prepares \cap Submits = {} /\ Prepares \cap Aborts = {} /\ Prepares \cap Polls = {}
  /\ Aborts \cap Submits = {} /\ Aborts \cap Polls = {} /\ Submits \cap Polls = {}
  /\ None \notin Handler
  /\ Disciplined \in BOOLEAN /\ AccountLag \in BOOLEAN
  /\ LastValid \in Nat /\ PrepareMargin \in Nat /\ SubmitMargin \in Nat
  /\ MaxHeight \in Nat /\ MaxFaults \in Nat

VARIABLES
  db,     \* the stores: quote, record, lock, exposure (the reservation), accounted
  chain,  \* the outside: payer (Kora's signatures), wire, landed, height
  at,     \* where each handler is
  copy,   \* the quote each handler holds
  faults  \* faults so far

vars == <<db, chain, at, copy, faults>>

\* The statuses of TransactionStatus that the engines tell apart.
Status == {"created", "awaiting", "validated", "relaying", "submitted", "reconciled", "failed"}

\* A quote has a status of its own, and so has the operation in it; whether the canonical
\* signature is on it, and whether its signing window was opened.
Quote == [quote : Status, part : Status, sig : BOOLEAN, window : BOOLEAN]
New == [quote |-> "created", part |-> "created", sig |-> FALSE, window |-> FALSE]
Gone == [New EXCEPT !.quote = "gone", !.part = "gone"]   \* its time to live is over
Marked(q, s) == [q EXCEPT !.quote = s, !.part = s]
Part(q, s) == [q EXCEPT !.part = s]
Signed(q) == [Marked(q, "submitted") EXCEPT !.sig = TRUE]
Windowed(q) == [q EXCEPT !.window = TRUE]

\* The stored quote is there and carries a prepared transaction.
Prepared == db.quote # Gone /\ db.quote.part # "created"

Rest == {"idle", "done", "ended"}   \* "done" answered 200, "ended" did not
Places == Rest \cup
  {"create", "persist", "open", "reserve", "activate", "window", "fail_release", "fail_record",
   "fail_quote", "lock", "check", "validated", "cross", "relay", "kora", "final", "record", "save",
   "broadcast", "undo", "giveback", "catch_quote", "catch_record", "observe", "confirm",
   "settle", "account", "mismatch", "expire", "end_release", "end_record", "close", "thank",
   "poll_account", "poll_release", "poll_record", "cleanup", "again", "reject", "heights"}

TypeOK ==
  /\ db \in [quote : Quote \cup {Gone},
             record : [status : Status \cup {"none"}, signed : BOOLEAN],
             lock : Submits \cup {None},
             exposure : {"none", "reserved", "released"}, accounted : BOOLEAN]
  /\ chain \in [payer : Nat, wire : BOOLEAN, landed : {"none", "ok", "err"}, height : Nat]
  /\ at \in [Handler -> Places]
  /\ copy \in [Handler -> Quote \cup {Gone}]
  /\ faults \in 0..MaxFaults

Init ==
  /\ db = [quote |-> New, record |-> [status |-> "none", signed |-> FALSE],
           lock |-> None, exposure |-> "none", accounted |-> FALSE]
  /\ chain = [payer |-> 0, wire |-> FALSE, landed |-> "none", height |-> 0]
  /\ at = [h \in Handler |-> "idle"]
  /\ copy = [h \in Handler |-> New]
  /\ faults = 0

-----------------------------------------------------------------------------
(***************************************************************************)
(* Steps of a handler: it goes to a place, writes d to the stores and now  *)
(* holds the quote q.                                                      *)
(***************************************************************************)
Do(h, place, d, q) ==
  /\ at' = [at EXCEPT ![h] = place]
  /\ db' = d
  /\ copy' = [copy EXCEPT ![h] = q]
  /\ UNCHANGED <<chain, faults>>

Go(h, place) == Do(h, place, db, copy[h])
Write(h, place, d) == Do(h, place, d, copy[h])
Take(h, place, q) == Do(h, place, db, q)

\* A call of the handler throws: it writes nothing and goes to its catch clause.
Throw(h, place, q) ==
  /\ faults < MaxFaults /\ faults' = faults + 1
  /\ at' = [at EXCEPT ![h] = place]
  /\ copy' = [copy EXCEPT ![h] = q]
  /\ UNCHANGED <<db, chain>>

\* A write whose failure is passed over.
Try(h, place, d) == Write(h, place, d) \/ Throw(h, place, copy[h])

Chain(h, place, q, c) ==
  /\ at' = [at EXCEPT ![h] = place]
  /\ copy' = [copy EXCEPT ![h] = q]
  /\ chain' = c
  /\ UNCHANGED <<db, faults>>

(***************************************************************************)
(* What a handler writes to the stores.  Giving back a reservation that is *)
(* gone answers already_released.                                          *)
(***************************************************************************)
QuoteSaved(q) == [db EXCEPT !.quote = q]
RecordSet(s) ==   \* updating a record that is not there changes nothing
  IF db.record.status = "none" THEN db ELSE [db EXCEPT !.record = [@ EXCEPT !.status = s]]
RecordSigned ==
  IF db.record.status = "none" THEN db
  ELSE [db EXCEPT !.record = [status |-> "submitted", signed |-> TRUE]]
RecordCreated == [db EXCEPT !.record = [status |-> "awaiting", signed |-> FALSE]]
GivenBack == [db EXCEPT !.exposure = IF @ = "reserved" THEN "released" ELSE @]
Reserved == [db EXCEPT !.exposure = "reserved"]
Booked == [db EXCEPT !.accounted = TRUE]
LockedBy(s) == [db EXCEPT !.lock = s]
Unlocked(s) == [db EXCEPT !.lock = IF @ = s THEN None ELSE @]

Margin(m) == LastValid - chain.height >= m

-----------------------------------------------------------------------------
(***************************************************************************)
(* Asking for the payer's signature: Kora signs, or refuses, or signs and  *)
(* fails to answer.  Broadcasting may send nothing (no height can be read, *)
(* or the floor is reached).                                               *)
(***************************************************************************)
KoraSigns(s, place) ==
  at[s] = "kora" /\ Chain(s, place, copy[s], [chain EXCEPT !.payer = @ + 1])

KoraFails(s, place, q) ==
  /\ at[s] = "kora"
  /\ \E signed \in {0, 1} : Chain(s, place, q, [chain EXCEPT !.payer = @ + signed])

Sent(s, place) ==
  \E sent \in BOOLEAN : Chain(s, place, copy[s], [chain EXCEPT !.wire = @ \/ sent])

(***************************************************************************)
(* A verdict on a signature, as module CleanSubmission shows it can be     *)
(* when the observation is not overtaken by the chain.                     *)
(***************************************************************************)
Observable(v) ==
  CASE v = "success" -> chain.landed # "none"
    [] v = "chain_error" -> chain.landed = "err"
    [] v = "expired" -> chain.height > LastValid /\ chain.landed = "none"

\* The economics are those of the message; the accounts are read from one provider.
Matches == chain.landed = "ok"
Mismatches == chain.landed = "ok" /\ AccountLag

(***************************************************************************)
(* The order in which a console sends its requests: one prepare; once it   *)
(* was answered, either an abort or a submission, which it may repeat when *)
(* the one before has ended.  Status requests come at any time.            *)
(***************************************************************************)
AtRest(h) == at[h] \in Rest
Started(h) == at[h] # "idle"

MayStart(h) ==
  /\ at[h] = "idle"
  /\ Disciplined =>
       \/ h \in Polls
       \/ h \in Prepares /\ \A g \in Handler \ Polls : ~Started(g)
       \/ /\ h \in Aborts \cup Submits
          /\ \E p \in Prepares : at[p] = "done"
          /\ \A g \in Handler \ Polls : AtRest(g)
          /\ \A g \in IF h \in Aborts THEN Submits ELSE Aborts : ~Started(g)

-----------------------------------------------------------------------------
(***************************************************************************)
(* The surroundings: a process dies or a call throws outside every catch   *)
(* clause; blocks are produced; bytes that were broadcast may land while   *)
(* they are valid; the quote's time to live, longer than the transaction   *)
(* is valid, runs out.                                                     *)
(***************************************************************************)
Stop(h) ==
  ~AtRest(h) /\ Throw(h, IF h \in Polls THEN "idle" ELSE "ended", copy[h])

NextBlock ==
  /\ chain.height < MaxHeight
  /\ chain' = [chain EXCEPT !.height = @ + 1]
  /\ UNCHANGED <<db, at, copy, faults>>

Land ==
  /\ chain.wire /\ chain.landed = "none" /\ chain.height <= LastValid
  /\ \E result \in {"ok", "err"} : chain' = [chain EXCEPT !.landed = result]
  /\ UNCHANGED <<db, at, copy, faults>>

Forget ==
  /\ db.quote # Gone /\ chain.height > LastValid
  /\ db' = QuoteSaved(Gone)
  /\ UNCHANGED <<chain, at, copy, faults>>

Surroundings == (\E h \in Handler : Stop(h)) \/ NextBlock \/ Land \/ Forget

-----------------------------------------------------------------------------
(***************************************************************************)
(* Kora is asked for the payer's signature at most once, however many      *)
(* submissions race and wherever they stop: GASLESS never signs the same   *)
(* sponsorship twice.                                                      *)
(***************************************************************************)
PayerSignsOnce == chain.payer <= 1

(***************************************************************************)
(* A quote that calls its operation reconciled is in the books, and        *)
(* nothing is in the books that has not landed without an error.           *)
(***************************************************************************)
ReconciledIsOnChain ==
  /\ db.quote.part = "reconciled" => db.accounted
  /\ db.accounted => chain.landed = "ok"
=============================================================================
