--------------------------- MODULE EnginesProofs ---------------------------
(***************************************************************************)
(* What holds of every engine however its requests race, stop and fail:    *)
(* the payer signs once, nothing is broadcast that is not on record, and   *)
(* the books are true.  One invariant serves all five engines; a step is   *)
(* of one handler, and what it may not do is said once (Fine, Leads).      *)
(***************************************************************************)
EXTENDS Engines, TLAPS

AnyStatus == Status \cup {"gone"}
AnyQuote == [quote : AnyStatus, part : AnyStatus, sig : BOOLEAN, window : BOOLEAN]
AnyStores ==
  [quote : AnyQuote, record : [status : AnyStatus \cup {"none"}, signed : BOOLEAN],
   lock : Submits \cup {None}, exposure : {"none", "reserved", "released"}, accounted : BOOLEAN]

Shape ==
  /\ at = [h \in Handler |-> at[h]] /\ copy \in [Handler -> AnyQuote]
  /\ db \in AnyStores
  /\ chain \in [payer : Nat, wire : BOOLEAN, landed : {"none", "ok", "err"}, height : Nat]

-----------------------------------------------------------------------------
(* Whoever is past the lock and not at Kora yet holds the lock, and Kora   *)
(* has not signed; once it has, nobody gives the lock back.                *)
Before == {"check", "validated", "cross", "relay", "kora"}
Undoing == {"undo", "reject"}

SignInv ==
  /\ \A s \in Submits :
       /\ at[s] \in Before => db.lock = s /\ chain.payer = 0
       /\ at[s] \in Undoing /\ db.lock = s => chain.payer = 0
       /\ at[s] \in {"idle", "lock"} => db.lock # s
  /\ chain.payer <= 1
  /\ chain.payer > 0 => db.lock # None

(* The record is there wherever a handler writes to it, it keeps its       *)
(* signature, and it has one where the broadcast is.                       *)
Unrecorded == {"idle", "create", "ended", "done", "cleanup"}
Exists == db.record.status # "none"

RecordInv ==
  /\ \A h \in Handler : at[h] \notin Unrecorded => Exists
  /\ \A h \in Handler : at[h] \in {"save", "broadcast"} => db.record.signed
  /\ Prepared => Exists
  /\ db.record.signed => Exists
  /\ chain.wire => db.record.signed

(* Who is about to book has seen the success; who holds a quote that is    *)
(* reconciled has booked it, or the Devnet proof is just about to.         *)
Booking(h) ==
  /\ at[h] = "poll_account" => chain.landed = "ok"
  /\ at[h] = "account" =>
       IF engine = "proof" THEN h \in Submits /\ (copy[h].part = "reconciled" => chain.landed = "ok")
                           ELSE chain.landed = "ok"
  /\ copy[h].part = "reconciled" /\ at[h] # "ended" /\ ~(engine = "proof" /\ at[h] = "account")
       => db.accounted

BooksInv ==
  /\ db.quote.part = "reconciled" => db.accounted
  /\ db.accounted => chain.landed = "ok"
  /\ \A h \in Handler : Booking(h)

EnginesInv == Shape /\ SignInv /\ (engine # "proof" => RecordInv) /\ BooksInv

-----------------------------------------------------------------------------
(* What a handler may write to the stores: it keeps the lock, the record   *)
(* and its signature, and the books.                                       *)
Fine(d) ==
  /\ d \in AnyStores /\ d.lock = db.lock
  /\ d.quote.part = "reconciled" => d.accounted
  /\ db.accounted => d.accounted
  /\ d.accounted => chain.landed = "ok"
  /\ engine # "proof" =>
       /\ Exists => d.record.status # "none"
       /\ d.quote # Gone /\ d.quote.part # "created" => d.record.status # "none"
       /\ db.record.signed => d.record.signed
       /\ d.record.signed => d.record.status # "none"

(* Where it may go with the quote q, once it has written d.                *)
Leads(h, place, d, q) ==
  /\ q \in AnyQuote
  /\ h \in Submits =>
       /\ place \in Before => at[h] \in Before
       /\ place \in Undoing => at[h] \in Before \cup {"lock"}
       /\ place # "idle" /\ (place = "lock" => at[h] = "idle")
  /\ engine # "proof" =>
       /\ place \notin Unrecorded => d.record.status # "none"
       /\ place \in {"save", "broadcast"} => d.record.signed
  /\ place = "poll_account" => chain.landed = "ok"
  /\ place = "account" =>
       IF engine = "proof" THEN h \in Submits /\ (q.part = "reconciled" => chain.landed = "ok")
                           ELSE chain.landed = "ok"
  /\ q.part = "reconciled" /\ place # "ended" /\ ~(engine = "proof" /\ place = "account")
       => d.accounted

(* A step of one handler that leaves the chain alone.                      *)
Moves(h, place, d, q) ==
  /\ at' = [at EXCEPT ![h] = place] /\ copy' = [copy EXCEPT ![h] = q]
  /\ db' = d /\ chain' = chain /\ engine' = engine

(* One that does no more than this keeps the invariant.                    *)
LEMMA StoreStep ==
  ASSUME EnginesInv, NEW h \in Handler, NEW place, NEW d, NEW q,
         Moves(h, place, d, q), Fine(d), Leads(h, place, d, q)
  PROVE  EnginesInv'
<1>1. /\ Shape /\ SignInv /\ BooksInv /\ (engine # "proof" => RecordInv)
      /\ at' = [at EXCEPT ![h] = place] /\ copy' = [copy EXCEPT ![h] = q]
      /\ db' = d /\ chain' = chain /\ engine' = engine
  BY DEF EnginesInv, Moves
<1>2. /\ at'[h] = place /\ copy'[h] = q
      /\ \A g \in Handler : g # h => at'[g] = at[g] /\ copy'[g] = copy[g]
  BY <1>1 DEF Shape
<1>3. Shape'
  BY <1>1 DEF Shape, Fine, Leads
<1>4. SignInv'
  <2>1. Submits \subseteq Handler
    BY DEF Handler
  <2> QED BY <1>1, <1>2, <2>1 DEF SignInv, Fine, Leads, Before, Undoing
<1>5. engine' # "proof" => RecordInv'
  BY <1>1, <1>2 DEF RecordInv, Fine, Leads, Exists, Prepared, Gone, New
<1>6. BooksInv'
  <2>1. Booking(h)'
    BY <1>1, <1>2 DEF Leads, Booking
  <2>2. ASSUME NEW g \in Handler, g # h PROVE Booking(g)'
    BY <1>1, <1>2, <2>2 DEF BooksInv, Booking, Fine
  <2> QED BY <1>1, <2>1, <2>2 DEF BooksInv, Fine
<1> QED BY <1>3, <1>4, <1>5, <1>6 DEF EnginesInv

-----------------------------------------------------------------------------
(* The writes of the stores.                                               *)
LEMMA StoreForms ==
  ASSUME EnginesInv
  PROVE  /\ db \in AnyStores /\ Fine(db) /\ Fine(GivenBack) /\ Fine(Reserved)
         /\ GivenBack.record = db.record /\ Reserved.record = db.record
         /\ GivenBack.accounted = db.accounted /\ Reserved.accounted = db.accounted
         /\ \A s \in AnyStatus :
              /\ Fine(RecordSet(s)) /\ RecordSet(s).accounted = db.accounted
              /\ RecordSet(s).record.signed = db.record.signed
              /\ Exists => RecordSet(s).record.status # "none"
         /\ \A q \in AnyQuote :
              /\ (q.part = "reconciled" => db.accounted) /\ (engine # "proof" => Exists) => Fine(QuoteSaved(q))
              /\ QuoteSaved(q).record = db.record /\ QuoteSaved(q).accounted = db.accounted
         /\ Fine(RecordSigned)  /\ RecordSigned.accounted = db.accounted
         /\ Exists => RecordSigned.record.signed /\ RecordSigned.record.status # "none"
         /\ chain.landed = "ok" => Fine(Booked)
         /\ Booked.record = db.record /\ Booked.accounted
         /\ db.record.status = "none" => Fine(RecordCreated)
         /\ RecordCreated.record.status # "none" /\ RecordCreated.accounted = db.accounted
<1>1. db \in AnyStores /\ BooksInv /\ (engine # "proof" => RecordInv)
  BY DEF EnginesInv, Shape
<1> USE <1>1 DEF AnyStores, Fine, BooksInv, RecordInv, Exists, Prepared
<1>2. Fine(db)
  OBVIOUS
<1>3. Fine(Reserved) /\ Reserved.record = db.record /\ Reserved.accounted = db.accounted
  BY DEF Reserved
<1>9. Fine(GivenBack) /\ GivenBack.record = db.record /\ GivenBack.accounted = db.accounted
  BY DEF GivenBack
<1>4. ASSUME NEW s \in AnyStatus
      PROVE  /\ Fine(RecordSet(s)) /\ RecordSet(s).accounted = db.accounted
             /\ RecordSet(s).record.signed = db.record.signed
             /\ Exists => RecordSet(s).record.status # "none"
  BY DEF RecordSet, AnyStatus, Status
<1>5. ASSUME NEW q \in AnyQuote
      PROVE  /\ (q.part = "reconciled" => db.accounted) /\ (engine # "proof" => Exists) => Fine(QuoteSaved(q))
             /\ QuoteSaved(q).record = db.record /\ QuoteSaved(q).accounted = db.accounted
  BY DEF QuoteSaved
<1>6. /\ Fine(RecordSigned)  /\ RecordSigned.accounted = db.accounted
      /\ Exists => RecordSigned.record.signed /\ RecordSigned.record.status # "none"
  BY DEF RecordSigned, AnyStatus, Status
<1>7. /\ chain.landed = "ok" => Fine(Booked)
      /\ Booked.record = db.record /\ Booked.accounted
  BY DEF Booked
<1>8. /\ db.record.status = "none" => Fine(RecordCreated)
      /\ RecordCreated.record.status # "none" /\ RecordCreated.accounted = db.accounted
  BY DEF RecordCreated, AnyStatus, Status
<1> QED BY <1>2, <1>3, <1>4, <1>5, <1>6, <1>7, <1>8, <1>9


Special == Before \cup Undoing \cup {"idle", "lock", "save", "broadcast", "poll_account",
  "account"}

(* The same in terms of where the handler was.                             *)
LEMMA SponsoredStep ==
  ASSUME EnginesInv, engine # "proof", NEW h \in Handler, NEW place, NEW d, NEW q,
         Moves(h, place, d, q), Fine(d), q \in AnyQuote,
         q.part = "reconciled" /\ place # "ended" => d.accounted,
         place \notin Unrecorded => d.record.status # "none",
         \/ place \notin Special
         \/ at[h] \in Before \cup {"lock"} /\ place \in Undoing
         \/ at[h] \in Before /\ place \in Before
         \/ at[h] = "idle" /\ place = "lock"
         \/ h \notin Submits /\ place = "idle"
         \/ chain.landed = "ok" /\ place \in {"account", "poll_account"}
         \/ d.record.signed /\ place \in {"save", "broadcast"}
  PROVE  EnginesInv'
<1>1. Leads(h, place, d, q)
  BY DEF Leads, Special, Before, Undoing
<1> QED BY <1>1, StoreStep

(* What is known of the quotes that are stored and held.                   *)
LEMMA Held ==
  ASSUME EnginesInv, engine # "proof"
  PROVE  /\ db.quote \in AnyQuote /\ (db.quote.part = "reconciled" => db.accounted)
         /\ \A h \in Handler :
              /\ copy[h] \in AnyQuote /\ copy[h].part \in AnyStatus
              /\ at[h] # "ended" /\ copy[h].part = "reconciled" => db.accounted
              /\ at[h] \notin Unrecorded => Exists
              /\ at[h] \in {"save", "broadcast"} => db.record.signed
              /\ at[h] \in {"account", "poll_account"} => chain.landed = "ok"
         /\ Prepared => Exists
         /\ {"failed", "awaiting", "submitted", "relaying", "reconciled"} \subseteq AnyStatus
BY DEF EnginesInv, Shape, RecordInv, BooksInv, Booking, AnyStores, AnyQuote, AnyStatus, Status

(* What becomes of the quote a handler holds.                              *)
Plain(q) == q \in AnyQuote /\ q.part # "reconciled"

LEMMA CopyForms ==
  ASSUME EnginesInv, NEW h \in Handler
  PROVE  /\ \A s \in AnyStatus :
              /\ Marked(copy[h], s) \in AnyQuote /\ Marked(copy[h], s).part = s
              /\ Part(copy[h], s) \in AnyQuote /\ Part(copy[h], s).part = s
         /\ Signed(copy[h]) \in AnyQuote /\ Signed(copy[h]).part = "submitted"
         /\ Windowed(copy[h]) \in AnyQuote /\ Windowed(copy[h]).part = copy[h].part
         /\ LET q == [Part(copy[h], "submitted") EXCEPT !.sig = TRUE]
            IN  q \in AnyQuote /\ q.part = "submitted"
<1>1. copy[h] \in AnyQuote
  BY DEF EnginesInv, Shape
<1> QED
  BY <1>1 DEF AnyQuote, AnyStatus, Status, Marked, Part, Signed, Windowed

-----------------------------------------------------------------------------
(* Taking the lock, giving it back.                                        *)
LEMMA LockStep ==
  ASSUME EnginesInv, NEW s \in Submits, NEW place \in {"check", "cross"},
         at[s] = "lock", db.lock = None, Moves(s, place, LockedBy(s), copy[s])
  PROVE  EnginesInv'
<1>1. /\ s \in Handler /\ None \notin Handler /\ Submits \subseteq Handler
  BY ConstantsAssumption DEF Handler
<1>2. /\ Shape /\ SignInv /\ BooksInv /\ (engine # "proof" => RecordInv)
      /\ at' = [at EXCEPT ![s] = place] /\ copy' = copy
      /\ db' = [db EXCEPT !.lock = s] /\ chain' = chain /\ engine' = engine
  BY DEF EnginesInv, Moves, LockedBy, Shape
<1>3. /\ at'[s] = place /\ \A g \in Handler : g # s => at'[g] = at[g]
  BY <1>1, <1>2 DEF Shape
<1>4. Shape'
  BY <1>2 DEF Shape, AnyStores
<1>5. SignInv'
  BY <1>1, <1>2, <1>3 DEF SignInv, Before, Undoing, Shape, AnyStores
<1>6. engine' # "proof" => RecordInv'
  BY <1>1, <1>2, <1>3 DEF RecordInv, Exists, Prepared, Gone, New, Unrecorded, Shape, AnyStores
<1>7. BooksInv'
  BY <1>1, <1>2, <1>3 DEF BooksInv, Booking, Shape, AnyStores
<1> QED BY <1>4, <1>5, <1>6, <1>7 DEF EnginesInv

LEMMA UnlockStep ==
  ASSUME EnginesInv, NEW s \in Submits, NEW place, NEW q \in AnyQuote,
         at[s] \in Undoing, place \notin Special, q.part # "reconciled" \/ q.part = copy[s].part,
         Moves(s, place, Unlocked(s), q)
  PROVE  EnginesInv'
<1>1. s \in Handler /\ None \notin Handler /\ Submits \subseteq Handler
  BY ConstantsAssumption DEF Handler
<1>2. /\ Shape /\ SignInv /\ BooksInv /\ (engine # "proof" => RecordInv)
      /\ at' = [at EXCEPT ![s] = place] /\ copy' = [copy EXCEPT ![s] = q]
      /\ db' = [db EXCEPT !.lock = IF @ = s THEN None ELSE @] /\ chain' = chain
           /\ engine' = engine
  BY DEF EnginesInv, Moves, Unlocked
<1>3. /\ at'[s] = place /\ copy'[s] = q
      /\ \A g \in Handler : g # s => at'[g] = at[g] /\ copy'[g] = copy[g]
  BY <1>1, <1>2 DEF Shape
<1>4. Shape'
  BY <1>2 DEF Shape, AnyStores
<1>5. SignInv'
  BY <1>1, <1>2, <1>3 DEF SignInv, Before, Undoing, Special, Shape, AnyStores
<1>6. engine' # "proof" => RecordInv'
  BY <1>1, <1>2, <1>3 DEF RecordInv, Exists, Prepared, Gone, New, Unrecorded, Shape, AnyStores,
    Special, Undoing
<1>7. BooksInv'
  BY <1>1, <1>2, <1>3 DEF BooksInv, Booking, Shape, AnyStores, Special, Undoing
<1> QED BY <1>4, <1>5, <1>6, <1>7 DEF EnginesInv

(* Asking Kora, and broadcasting.                                          *)
Outside(h, place, q) ==
  /\ at' = [at EXCEPT ![h] = place] /\ copy' = [copy EXCEPT ![h] = q]
  /\ db' = db /\ engine' = engine

AsksKora(h, place, q) ==
  at[h] = "kora" /\ Outside(h, place, q) /\ \E n \in {0,
    1} : chain' = [chain EXCEPT !.payer = @ + n]

Sends(h, place, q) ==
  at[h] = "broadcast" /\ Outside(h, place,
    q) /\ \E sent \in BOOLEAN : chain' = [chain EXCEPT !.wire = sent]

LEMMA KoraStep ==
  ASSUME EnginesInv, NEW s \in Submits, NEW place, NEW q \in AnyQuote,
         AsksKora(s, place, q), place \notin Special,
         q.part # "reconciled" \/ q.part = copy[s].part
  PROVE  EnginesInv'
<1>0. PICK n \in {0, 1} : chain' = [chain EXCEPT !.payer = @ + n]
  BY DEF AsksKora
<1>1. s \in Handler /\ None \notin Handler /\ Submits \subseteq Handler
  BY ConstantsAssumption DEF Handler
<1>2. /\ Shape /\ SignInv /\ BooksInv /\ (engine # "proof" => RecordInv)
      /\ at' = [at EXCEPT ![s] = place] /\ copy' = [copy EXCEPT ![s] = q]
      /\ db' = db /\ engine' = engine /\ at[s] = "kora"
  BY DEF EnginesInv, AsksKora, Outside
<1>3. /\ at'[s] = place /\ copy'[s] = q
      /\ \A g \in Handler : g # s => at'[g] = at[g] /\ copy'[g] = copy[g]
  BY <1>1, <1>2 DEF Shape
<1>4. /\ chain.payer = 0 /\ chain'.payer \in {0, 1}
      /\ chain'.wire = chain.wire /\ chain'.landed = chain.landed
      /\ Shape'
  BY <1>0, <1>1, <1>2 DEF Shape, SignInv, Before
<1>5. SignInv'
  BY <1>1, <1>2, <1>3, <1>4 DEF SignInv, Before, Undoing, Special
<1>6. engine' # "proof" => RecordInv'
  BY <1>1, <1>2, <1>3, <1>4 DEF RecordInv, Exists, Prepared, Gone, New, Unrecorded, Special
<1>7. BooksInv'
  BY <1>1, <1>2, <1>3, <1>4 DEF BooksInv, Booking, Special
<1> QED BY <1>4, <1>5, <1>6, <1>7 DEF EnginesInv

LEMMA WireStep ==
  ASSUME EnginesInv, NEW s \in Submits, NEW place, NEW q \in AnyQuote,
         Sends(s, place, q), place \notin Special,
         q.part # "reconciled" \/ q.part = copy[s].part
  PROVE  EnginesInv'
<1>0. PICK sent \in BOOLEAN : chain' = [chain EXCEPT !.wire = sent]
  BY DEF Sends
<1>1. s \in Handler /\ Submits \subseteq Handler
  BY DEF Handler
<1>2. /\ Shape /\ SignInv /\ BooksInv /\ (engine # "proof" => RecordInv)
      /\ at' = [at EXCEPT ![s] = place] /\ copy' = [copy EXCEPT ![s] = q]
      /\ db' = db /\ engine' = engine /\ at[s] = "broadcast"
  BY DEF EnginesInv, Sends, Outside
<1>3. /\ at'[s] = place /\ copy'[s] = q
      /\ \A g \in Handler : g # s => at'[g] = at[g] /\ copy'[g] = copy[g]
  BY <1>1, <1>2 DEF Shape
<1>4. /\ chain'.payer = chain.payer /\ chain'.landed = chain.landed /\ Shape'
  BY <1>0, <1>1, <1>2 DEF Shape
<1>5. SignInv'
  BY <1>1, <1>2, <1>3, <1>4 DEF SignInv, Before, Undoing, Special
<1>6. engine' # "proof" => RecordInv'
  BY <1>1, <1>2, <1>3, <1>4 DEF RecordInv, Exists, Prepared, Gone, New, Unrecorded, Special
<1>7. BooksInv'
  BY <1>1, <1>2, <1>3, <1>4 DEF BooksInv, Booking, Special
<1> QED BY <1>4, <1>5, <1>6, <1>7 DEF EnginesInv

-----------------------------------------------------------------------------
(* What is around the handlers.                                            *)
LEMMA SurroundingsStep ==
  ASSUME EnginesInv, engine' = engine, Surroundings
  PROVE  EnginesInv'
<1>1. /\ Shape /\ SignInv /\ BooksInv /\ (engine # "proof" => RecordInv)
  BY DEF EnginesInv
<1>2. ASSUME NEW h \in Handler, Stop(h) PROVE EnginesInv'
  <2> DEFINE place == IF h \in Polls THEN "idle" ELSE "ended"
  <2>1. at[h] \notin {"idle", "done", "ended"} /\ Moves(h, place, db, copy[h])
    BY <1>2 DEF Stop, AtRest, Rest, Throw, Moves
  <2>2. h \in Polls => h \notin Submits
    BY ConstantsAssumption
  <2>3. Fine(db)
    BY StoreForms
  <2>4. Leads(h, place, db, copy[h])
    BY <1>1, <2>1, <2>2 DEF Leads, Shape, BooksInv, Booking, Before, Undoing, Unrecorded
  <2> QED BY <2>1, <2>3, <2>4, StoreStep
<1>3. ASSUME NextBlock \/ Land PROVE EnginesInv'
  <2>1. /\ db' = db /\ at' = at /\ copy' = copy /\ engine' = engine
        /\ chain'.payer = chain.payer /\ chain'.wire = chain.wire
        /\ chain.landed = "ok" => chain'.landed = "ok"
        /\ Shape'
    BY <1>1, <1>3 DEF NextBlock, Land, Shape
  <2>2. SignInv' /\ (engine' # "proof" => RecordInv')
    BY <1>1, <2>1 DEF SignInv, RecordInv, Exists, Prepared, Gone, New
  <2>3. BooksInv'
    BY <1>1, <2>1 DEF BooksInv, Booking
  <2> QED BY <2>1, <2>2, <2>3 DEF EnginesInv
<1>4. CASE Forget
  <2>1. /\ db' = [db EXCEPT !.quote = Gone] /\ Gone \in AnyQuote /\ Gone.part = "gone"
        /\ chain' = chain /\ at' = at /\ copy' = copy /\ engine' = engine
    BY <1>4 DEF Forget, QuoteSaved, Gone, New, AnyQuote, AnyStatus
  <2>2. Shape'
    BY <1>1, <2>1 DEF Shape, AnyStores
  <2>3. SignInv' /\ (engine' # "proof" => RecordInv')
    BY <1>1, <2>1 DEF SignInv, RecordInv, Exists, Prepared, Shape, AnyStores
  <2>4. BooksInv'
    BY <1>1, <2>1 DEF BooksInv, Booking, Shape, AnyStores
  <2> QED BY <2>2, <2>3, <2>4 DEF EnginesInv
<1> QED BY <1>2, <1>3, <1>4 DEF Surroundings

-----------------------------------------------------------------------------
(* Claim: what its steps are in terms of the lemmas above.                   *)
LEMMA ClaimMoves ==
  ASSUME EnginesInv, engine' = engine
  PROVE  /\ \A h, place, d, q :
              /\ Claim!Do(h, place, d, q) => Moves(h, place, d, q)
              /\ Claim!Go(h, place) => Moves(h, place, db, copy[h])
              /\ Claim!Write(h, place, d) => Moves(h, place, d, copy[h])
              /\ Claim!Take(h, place, q) => Moves(h, place, db, q)
              /\ Claim!Throw(h, place, q) => Moves(h, place, db, q)
              /\ Claim!Try(h, place, d) =>
                   Moves(h, place, d, copy[h]) \/ Moves(h, place, db, copy[h])
         /\ \A s, place, q :
              /\ Claim!KoraSigns(s, place) => AsksKora(s, place, copy[s])
              /\ Claim!KoraFails(s, place, q) => AsksKora(s, place, q)
              /\ at[s] = "broadcast" /\ Claim!Sent(s, place) => Sends(s, place, copy[s])
         /\ \A h : Claim!MayStart(h) => at[h] = "idle"
         /\ Claim!Matches <=> chain.landed = "ok"
         /\ Claim!Surroundings => Surroundings
<1> USE DEF Claim!Do, Claim!Go, Claim!Write, Claim!Take, Claim!Throw, Claim!Try, Moves
<1>1. ASSUME NEW h, NEW place, NEW d, NEW q
      PROVE  /\ Claim!Do(h, place, d, q) => Moves(h, place, d, q)
             /\ Claim!Go(h, place) => Moves(h, place, db, copy[h])
             /\ Claim!Write(h, place, d) => Moves(h, place, d, copy[h])
             /\ Claim!Take(h, place, q) => Moves(h, place, db, q)
             /\ Claim!Throw(h, place, q) => Moves(h, place, db, q)
             /\ Claim!Try(h, place, d) =>
                  Moves(h, place, d, copy[h]) \/ Moves(h, place, db, copy[h])
  OBVIOUS
<1>2. ASSUME NEW s, NEW place, NEW q
      PROVE  /\ Claim!KoraSigns(s, place) => AsksKora(s, place, copy[s])
             /\ Claim!KoraFails(s, place, q) => AsksKora(s, place, q)
  BY DEF Claim!KoraSigns, Claim!KoraFails, Claim!Chain, AsksKora, Outside
<1>3. ASSUME NEW s, NEW place, NEW q
      PROVE  at[s] = "broadcast" /\ Claim!Sent(s, place) => Sends(s, place, copy[s])
  BY DEF Claim!Sent, Claim!Chain, Sends, Outside, EnginesInv, Shape
<1>4. (\A h : Claim!MayStart(h) => at[h] = "idle") /\ (Claim!Matches <=> chain.landed = "ok")
  BY DEF Claim!MayStart, Claim!Matches
<1>5. Claim!Surroundings => Surroundings
  BY DEF Claim!Surroundings, Surroundings, Claim!Stop, Stop, Claim!Handler, Handler,
    Claim!AtRest, AtRest, Claim!Rest, Rest,
         Throw, Claim!NextBlock, NextBlock, Claim!Land, Land, Claim!Forget, Forget,
         Claim!QuoteSaved, QuoteSaved, Claim!Gone, Gone, Claim!New, New
<1> QED BY <1>1, <1>2, <1>3, <1>4, <1>5

LEMMA ClaimWrites ==
  /\ Claim!GivenBack = GivenBack /\ Claim!Reserved = Reserved
  /\ Claim!RecordCreated = RecordCreated /\ Claim!RecordSigned = RecordSigned
  /\ Claim!Booked = Booked /\ Claim!Gone = Gone /\ (Claim!Prepared <=> Prepared)
  /\ \A s : /\ Claim!RecordSet(s) = RecordSet(s)
            /\ Claim!LockedBy(s) = LockedBy(s) /\ Claim!Unlocked(s) = Unlocked(s)
  /\ \A q : /\ Claim!QuoteSaved(q) = QuoteSaved(q)
            /\ Claim!Signed(q) = Signed(q) /\ Claim!Windowed(q) = Windowed(q)
  /\ \A q, s : Claim!Marked(q, s) = Marked(q, s) /\ Claim!Part(q, s) = Part(q, s)
BY DEF Claim!GivenBack, GivenBack, Claim!Reserved, Reserved, Claim!RecordCreated, RecordCreated,
       Claim!RecordSigned, RecordSigned, Claim!Booked, Booked, Claim!Gone, Gone, Claim!New, New,
       Claim!Prepared, Prepared, Claim!RecordSet, RecordSet, Claim!LockedBy, LockedBy,
       Claim!Unlocked, Unlocked, Claim!QuoteSaved, QuoteSaved, Claim!Signed, Signed,
       Claim!Windowed, Windowed, Claim!Marked, Marked, Claim!Part, Part

LEMMA ClaimStep ==
  ASSUME EnginesInv, engine = "claim", engine' = engine, Claim!Next
  PROVE  EnginesInv'
<1>0. /\ engine # "proof"
      /\ \A h \in Prepares \cup Aborts \cup Submits \cup Polls : h \in Handler
      /\ \A h \in Prepares \cup Aborts \cup Polls : h \notin Submits
  BY ConstantsAssumption DEF Handler
<1>1. ASSUME NEW p \in Prepares, Claim!PrepareLoad(p) PROVE EnginesInv'
  <2>1. /\ at[p] = "idle"
        /\ \/ Prepared /\ Moves(p, "reserve", db, db.quote)
           \/ Moves(p, "create", db, db.quote)
    BY <1>1, ClaimMoves, ClaimWrites DEF Claim!PrepareLoad
  <2> QED BY <2>1, <1>0, Held, SponsoredStep, StoreForms
         DEF Special, Before, Undoing, Unrecorded, Exists
<1>2. ASSUME NEW p \in Prepares, Claim!PrepareCreate(p) PROVE EnginesInv'
  <2>1. /\ at[p] = "create"
        /\ \/ db.record.status = "none" /\ Moves(p, "persist", RecordCreated, Part(copy[p],
                "awaiting"))
           \/ Moves(p, "ended", db, copy[p])
    BY <1>2, ClaimMoves, ClaimWrites DEF Claim!PrepareCreate
  <2>2. Plain(Part(copy[p], "awaiting"))
    BY <1>0, Held, CopyForms DEF Plain
  <2> QED BY <2>1, <2>2, <1>0, Held, SponsoredStep, StoreForms
         DEF Plain, Special, Before, Undoing, Unrecorded, Exists
<1>3. ASSUME NEW p \in Prepares, Claim!PreparePersist(p) PROVE EnginesInv'
  <2>1. at[p] = "persist" /\ Moves(p, "open", QuoteSaved(copy[p]), copy[p])
    BY <1>3, ClaimMoves, ClaimWrites DEF Claim!PreparePersist
  <2> QED BY <2>1, <1>0, Held, SponsoredStep, StoreForms
         DEF Special, Before, Undoing, Unrecorded, Exists
<1>4. ASSUME NEW p \in Prepares, Claim!PrepareOpen(p) PROVE EnginesInv'
  <2>1. at[p] = "open" /\ Moves(p, "reserve", QuoteSaved(Marked(copy[p], "awaiting")),
          Marked(copy[p], "awaiting"))
    BY <1>4, ClaimMoves, ClaimWrites DEF Claim!PrepareOpen
  <2>2. Plain(Marked(copy[p], "awaiting"))
    BY <1>0, Held, CopyForms DEF Plain
  <2> QED BY <2>1, <2>2, <1>0, Held, SponsoredStep, StoreForms
         DEF Plain, Special, Before, Undoing, Unrecorded, Exists
<1>5. ASSUME NEW p \in Prepares, Claim!PrepareReserve(p) PROVE EnginesInv'
  <2>1. /\ at[p] = "reserve"
        /\ \/ Moves(p, "activate", Reserved, copy[p])
           \/ Moves(p, "fail_release", db, copy[p])
    BY <1>5, ClaimMoves, ClaimWrites DEF Claim!PrepareReserve
  <2> QED BY <2>1, <1>0, Held, SponsoredStep, StoreForms
         DEF Special, Before, Undoing, Unrecorded, Exists
<1>6. ASSUME NEW p \in Prepares, Claim!PrepareActivate(p) PROVE EnginesInv'
  <2>1. /\ at[p] = "activate"
        /\ \/ Moves(p, "window", db, Windowed(copy[p]))
           \/ Moves(p, "fail_release", db, copy[p])
           \/ Moves(p, "done", db, copy[p])
    BY <1>6, ClaimMoves, ClaimWrites DEF Claim!PrepareActivate
  <2>2. Windowed(copy[p]) \in AnyQuote /\ Windowed(copy[p]).part = copy[p].part
    BY <1>0, CopyForms
  <2> QED BY <2>1, <2>2, <1>0, Held, SponsoredStep, StoreForms
         DEF Special, Before, Undoing, Unrecorded, Exists
<1>7. ASSUME NEW p \in Prepares, Claim!PrepareWindow(p) PROVE EnginesInv'
  <2>1. at[p] = "window" /\ Moves(p, "done", QuoteSaved(copy[p]), copy[p])
    BY <1>7, ClaimMoves, ClaimWrites DEF Claim!PrepareWindow
  <2> QED BY <2>1, <1>0, Held, SponsoredStep, StoreForms
         DEF Special, Before, Undoing, Unrecorded, Exists
<1>8. ASSUME NEW a \in Prepares \cup Aborts, Claim!AbortGate(a) PROVE EnginesInv'
  <2>1. at[a] = "idle" /\ Prepared /\ Moves(a, "fail_release", db, db.quote)
    BY <1>8, ClaimMoves, ClaimWrites DEF Claim!AbortGate
  <2> QED BY <2>1, <1>0, Held, SponsoredStep, StoreForms
         DEF Special, Before, Undoing, Unrecorded, Exists
<1>9. ASSUME NEW a \in Prepares \cup Aborts, Claim!AbortApproval(a) PROVE EnginesInv'
  <2>1. /\ at[a] = "idle"
        /\ \/ Prepared /\ Moves(a, "fail_record", db, db.quote)
           \/ Prepared /\ Moves(a, "fail_release", db, db.quote)
    BY <1>9, ClaimMoves, ClaimWrites DEF Claim!AbortApproval
  <2> QED BY <2>1, <1>0, Held, SponsoredStep, StoreForms
         DEF Special, Before, Undoing, Unrecorded, Exists
<1>10. ASSUME NEW h \in Prepares \cup Aborts, Claim!FailRelease(h) PROVE EnginesInv'
  <2>1. at[h] = "fail_release" /\ Moves(h, "fail_record", GivenBack, copy[h])
    BY <1>10, ClaimMoves, ClaimWrites DEF Claim!FailRelease
  <2> QED BY <2>1, <1>0, Held, SponsoredStep, StoreForms
         DEF Special, Before, Undoing, Unrecorded, Exists
<1>11. ASSUME NEW h \in Prepares \cup Aborts, Claim!FailRecord(h) PROVE EnginesInv'
  <2>1. at[h] = "fail_record" /\ Moves(h, "fail_quote", RecordSet("failed"), Marked(copy[h],
          "failed"))
    BY <1>11, ClaimMoves, ClaimWrites DEF Claim!FailRecord
  <2>2. Plain(Marked(copy[h], "failed"))
    BY <1>0, Held, CopyForms DEF Plain
  <2> QED BY <2>1, <2>2, <1>0, Held, SponsoredStep, StoreForms
         DEF Plain, Special, Before, Undoing, Unrecorded, Exists
<1>12. ASSUME NEW h \in Prepares \cup Aborts, Claim!FailQuote(h) PROVE EnginesInv'
  <2>1. at[h] = "fail_quote" /\ Moves(h, "ended", QuoteSaved(copy[h]), copy[h])
    BY <1>12, ClaimMoves, ClaimWrites DEF Claim!FailQuote
  <2> QED BY <2>1, <1>0, Held, SponsoredStep, StoreForms
         DEF Special, Before, Undoing, Unrecorded, Exists
<1>13. ASSUME NEW s \in Submits, Claim!SubmitLoad(s) PROVE EnginesInv'
  <2>1. /\ at[s] = "idle"
        /\ \/ Prepared /\ Moves(s, "done", db, db.quote)
           \/ Prepared /\ Moves(s, "observe", db, db.quote)
           \/ Prepared /\ Moves(s, "lock", db, db.quote)
    BY <1>13, ClaimMoves, ClaimWrites DEF Claim!SubmitLoad
  <2> QED BY <2>1, <1>0, Held, SponsoredStep, StoreForms
         DEF Special, Before, Undoing, Unrecorded, Exists
<1>14. ASSUME NEW s \in Submits, Claim!SubmitLock(s) PROVE EnginesInv'
  <2>1. /\ at[s] = "lock"
        /\ \/ db.lock = None /\ Moves(s, "check", LockedBy(s), copy[s])
           \/ Moves(s, "undo", db, Part(copy[s], "awaiting"))
    BY <1>14, ClaimMoves, ClaimWrites DEF Claim!SubmitLock, Claim!Early, Claim!Crossed
  <2>2. Plain(Part(copy[s], "awaiting"))
    BY <1>0, Held, CopyForms DEF Plain
  <2> QED BY <2>1, <2>2, <1>0, Held, SponsoredStep, StoreForms, LockStep
         DEF Plain, Special, Before, Undoing, Unrecorded, Exists
<1>15. ASSUME NEW s \in Submits, Claim!SubmitCheck(s) PROVE EnginesInv'
  <2>1. /\ at[s] = "check"
        /\ \/ Moves(s, "cross", db, copy[s])
           \/ Moves(s, "undo", db, Part(copy[s], "awaiting"))
    BY <1>15, ClaimMoves, ClaimWrites DEF Claim!SubmitCheck, Claim!Early, Claim!Crossed
  <2>2. Plain(Part(copy[s], "awaiting"))
    BY <1>0, Held, CopyForms DEF Plain
  <2> QED BY <2>1, <2>2, <1>0, Held, SponsoredStep, StoreForms
         DEF Plain, Special, Before, Undoing, Unrecorded, Exists
<1>16. ASSUME NEW s \in Submits, Claim!SubmitCross(s) PROVE EnginesInv'
  <2>1. /\ at[s] = "cross"
        /\ \/ Moves(s, "undo", db, Part(copy[s], "awaiting"))
           \/ Moves(s, "relay", QuoteSaved(Part(copy[s], "relaying")), Part(copy[s], "relaying"))
           \/ Moves(s, "catch_quote", db, Part(copy[s], "failed"))
    BY <1>16, ClaimMoves, ClaimWrites DEF Claim!SubmitCross, Claim!Early, Claim!Crossed
  <2>2. /\ Plain(Part(copy[s], "failed"))
        /\ Plain(Part(copy[s], "awaiting"))
        /\ Plain(Part(copy[s], "relaying"))
    BY <1>0, Held, CopyForms DEF Plain
  <2> QED BY <2>1, <2>2, <1>0, Held, SponsoredStep, StoreForms
         DEF Plain, Special, Before, Undoing, Unrecorded, Exists
<1>17. ASSUME NEW s \in Submits, Claim!SubmitRelay(s) PROVE EnginesInv'
  <2>1. /\ at[s] = "relay"
        /\ \/ Moves(s, "kora", RecordSet("relaying"), copy[s])
           \/ Moves(s, "catch_quote", db, Part(copy[s], "failed"))
    BY <1>17, ClaimMoves, ClaimWrites DEF Claim!SubmitRelay, Claim!Early, Claim!Crossed
  <2>2. Plain(Part(copy[s], "failed"))
    BY <1>0, Held, CopyForms DEF Plain
  <2> QED BY <2>1, <2>2, <1>0, Held, SponsoredStep, StoreForms
         DEF Plain, Special, Before, Undoing, Unrecorded, Exists
<1>18. ASSUME NEW s \in Submits, Claim!SubmitKora(s) PROVE EnginesInv'
  <2>1. \/ AsksKora(s, "final", copy[s])
        \/ AsksKora(s, "catch_quote", Part(copy[s], "failed"))
    BY <1>18, ClaimMoves, ClaimWrites DEF Claim!SubmitKora, Claim!Early, Claim!Crossed
  <2>2. Plain(Part(copy[s], "failed"))
    BY <1>0, Held, CopyForms DEF Plain
  <2> QED BY <2>1, <2>2, <1>0, Held, SponsoredStep, StoreForms, KoraStep
         DEF Plain, Special, Before, Undoing, Unrecorded, Exists
<1>19. ASSUME NEW s \in Submits, Claim!SubmitFinal(s) PROVE EnginesInv'
  <2>1. /\ at[s] = "final"
        /\ \/ Moves(s, "record", db, copy[s])
           \/ Moves(s, "catch_quote", db, Part(copy[s], "failed"))
    BY <1>19, ClaimMoves, ClaimWrites DEF Claim!SubmitFinal, Claim!Early, Claim!Crossed
  <2>2. Plain(Part(copy[s], "failed"))
    BY <1>0, Held, CopyForms DEF Plain
  <2> QED BY <2>1, <2>2, <1>0, Held, SponsoredStep, StoreForms
         DEF Plain, Special, Before, Undoing, Unrecorded, Exists
<1>20. ASSUME NEW s \in Submits, Claim!SubmitRecord(s) PROVE EnginesInv'
  <2>1. at[s] = "record" /\ Moves(s, "save", RecordSigned, [Part(copy[s],
          "submitted") EXCEPT !.sig = TRUE])
    BY <1>20, ClaimMoves, ClaimWrites DEF Claim!SubmitRecord
  <2>2. Plain([Part(copy[s], "submitted") EXCEPT !.sig = TRUE])
    BY <1>0, Held, CopyForms DEF Plain
  <2> QED BY <2>1, <2>2, <1>0, Held, SponsoredStep, StoreForms
         DEF Plain, Special, Before, Undoing, Unrecorded, Exists
<1>21. ASSUME NEW s \in Submits, Claim!SubmitSave(s) PROVE EnginesInv'
  <2>1. at[s] = "save" /\ Moves(s, "broadcast", QuoteSaved(copy[s]), copy[s])
    BY <1>21, ClaimMoves, ClaimWrites DEF Claim!SubmitSave
  <2> QED BY <2>1, <1>0, Held, SponsoredStep, StoreForms
         DEF Special, Before, Undoing, Unrecorded, Exists
<1>22. ASSUME NEW s \in Submits, Claim!SubmitBroadcast(s) PROVE EnginesInv'
  <2>1. Sends(s, "observe", copy[s])
    BY <1>22, ClaimMoves, ClaimWrites DEF Claim!SubmitBroadcast
  <2> QED BY <2>1, <1>0, Held, SponsoredStep, StoreForms, WireStep
         DEF Special, Before, Undoing, Unrecorded, Exists
<1>23. ASSUME NEW s \in Submits, Claim!CatchUndo(s) PROVE EnginesInv'
  <2>1. at[s] = "undo" /\ Moves(s, "catch_quote", Unlocked(s), copy[s])
    BY <1>23, ClaimMoves, ClaimWrites DEF Claim!CatchUndo
  <2> QED BY <2>1, <1>0, Held, SponsoredStep, StoreForms, UnlockStep
         DEF Special, Before, Undoing, Unrecorded, Exists
<1>24. ASSUME NEW s \in Submits, Claim!CatchQuote(s) PROVE EnginesInv'
  <2>1. /\ at[s] = "catch_quote"
        /\ \/ Moves(s, "catch_record", QuoteSaved(copy[s]), copy[s])
           \/ Moves(s, "catch_record", db, copy[s])
    BY <1>24, ClaimMoves, ClaimWrites DEF Claim!CatchQuote
  <2> QED BY <2>1, <1>0, Held, SponsoredStep, StoreForms
         DEF Special, Before, Undoing, Unrecorded, Exists
<1>25. ASSUME NEW s \in Submits, Claim!CatchRecord(s) PROVE EnginesInv'
  <2>1. /\ at[s] = "catch_record"
        /\ \/ Moves(s, "ended", RecordSet(copy[s].part), copy[s])
           \/ Moves(s, "ended", db, copy[s])
    BY <1>25, ClaimMoves, ClaimWrites DEF Claim!CatchRecord
  <2> QED BY <2>1, <1>0, Held, SponsoredStep, StoreForms
         DEF Special, Before, Undoing, Unrecorded, Exists
<1>26. ASSUME NEW s \in Submits, Claim!SubmitObserve(s) PROVE EnginesInv'
  <2>1. /\ at[s] = "observe"
        /\ \/ Moves(s, "confirm", db, copy[s])
           \/ Moves(s, "expire", db, copy[s])
           \/ Moves(s, "close", db, Marked(copy[s], "failed"))
           \/ Moves(s, "ended", db, copy[s])
           \/ Moves(s, "close", db, Marked(copy[s], "submitted"))
           \/ Moves(s, "ended", db, copy[s])
    BY <1>26, ClaimMoves, ClaimWrites DEF Claim!SubmitObserve, Claim!Finish, Claim!Resuming
  <2>2. /\ Plain(Marked(copy[s], "failed"))
        /\ Plain(Marked(copy[s], "submitted"))
    BY <1>0, Held, CopyForms DEF Plain
  <2> QED BY <2>1, <2>2, <1>0, Held, SponsoredStep, StoreForms
         DEF Plain, Special, Before, Undoing, Unrecorded, Exists
<1>27. ASSUME NEW s \in Submits, Claim!SubmitConfirm(s) PROVE EnginesInv'
  <2>1. /\ at[s] = "confirm"
        /\ \/ Moves(s, "close", db, Marked(copy[s], "submitted"))
           \/ Moves(s, "ended", db, copy[s])
           \/ Moves(s, "close", db, Marked(copy[s], "failed"))
           \/ Moves(s, "ended", db, copy[s])
           \/ chain.landed = "ok" /\ Moves(s, "account", RecordSet("reconciled"), copy[s])
           \/ Moves(s, "close", RecordSet("failed"), Marked(copy[s], "failed"))
           \/ Moves(s, "ended", RecordSet("failed"), copy[s])
    BY <1>27, ClaimMoves, ClaimWrites DEF Claim!SubmitConfirm, Claim!Finish, Claim!Resuming,
      Claim!Mismatches
  <2>2. /\ Plain(Marked(copy[s], "failed"))
        /\ Plain(Marked(copy[s], "submitted"))
    BY <1>0, Held, CopyForms DEF Plain
  <2> QED BY <2>1, <2>2, <1>0, Held, SponsoredStep, StoreForms
         DEF Plain, Special, Before, Undoing, Unrecorded, Exists
<1>28. ASSUME NEW s \in Submits, Claim!SubmitAccount(s) PROVE EnginesInv'
  <2>1. at[s] = "account" /\ Moves(s, "close", Booked, Marked(copy[s], "reconciled"))
    BY <1>28, ClaimMoves, ClaimWrites DEF Claim!SubmitAccount, Claim!Finish, Claim!Resuming
  <2> QED BY <2>1, <1>0, Held, SponsoredStep, StoreForms, CopyForms
         DEF Special, Before, Undoing, Unrecorded, Exists
<1>29. ASSUME NEW s \in Submits, Claim!SubmitExpire(s) PROVE EnginesInv'
  <2>1. /\ at[s] = "expire"
        /\ \/ Moves(s, "end_release", db, copy[s])
           \/ Moves(s, "close", db, Marked(copy[s], "failed"))
           \/ Moves(s, "ended", db, copy[s])
    BY <1>29, ClaimMoves, ClaimWrites DEF Claim!SubmitExpire, Claim!Finish, Claim!Resuming
  <2>2. Plain(Marked(copy[s], "failed"))
    BY <1>0, Held, CopyForms DEF Plain
  <2> QED BY <2>1, <2>2, <1>0, Held, SponsoredStep, StoreForms
         DEF Plain, Special, Before, Undoing, Unrecorded, Exists
<1>30. ASSUME NEW s \in Submits, Claim!SubmitClose(s) PROVE EnginesInv'
  <2>1. /\ at[s] = "close"
        /\ \/ Moves(s, "thank", QuoteSaved(copy[s]), copy[s])
           \/ Moves(s, "ended", QuoteSaved(copy[s]), copy[s])
    BY <1>30, ClaimMoves, ClaimWrites DEF Claim!SubmitClose
  <2> QED BY <2>1, <1>0, Held, SponsoredStep, StoreForms
         DEF Special, Before, Undoing, Unrecorded, Exists
<1>31. ASSUME NEW s \in Submits, Claim!SubmitThank(s) PROVE EnginesInv'
  <2>1. /\ at[s] = "thank"
        /\ \/ Moves(s, "done", GivenBack, copy[s])
           \/ Moves(s, "done", db, copy[s])
    BY <1>31, ClaimMoves, ClaimWrites DEF Claim!SubmitThank
  <2> QED BY <2>1, <1>0, Held, SponsoredStep, StoreForms
         DEF Special, Before, Undoing, Unrecorded, Exists
<1>32. ASSUME NEW h \in Submits \cup Polls, Claim!EndRecord(h) PROVE EnginesInv'
  <2>1. /\ at[h] = "end_record"
        /\ \/ h \in Submits /\ Moves(h, "close", RecordSet("failed"), Marked(copy[h], "failed"))
           \/ h \in Submits /\ Moves(h, "ended", RecordSet("failed"), copy[h])
           \/ h \notin Submits /\ Moves(h, "idle", RecordSet("failed"), copy[h])
    BY <1>32, ClaimMoves, ClaimWrites DEF Claim!EndRecord, Claim!Finish, Claim!Resuming
  <2>2. Plain(Marked(copy[h], "failed"))
    BY <1>0, Held, CopyForms DEF Plain
  <2> QED BY <2>1, <2>2, <1>0, Held, SponsoredStep, StoreForms
         DEF Plain, Special, Before, Undoing, Unrecorded, Exists
<1>33. ASSUME NEW q \in Polls, Claim!PollLoad(q) PROVE EnginesInv'
  <2>1. at[q] = "idle" /\ db.record.status = "submitted" /\ Moves(q, "observe", db, copy[q])
    BY <1>33, ClaimMoves, ClaimWrites DEF Claim!PollLoad
  <2> QED BY <2>1, <1>0, Held, SponsoredStep, StoreForms
         DEF Special, Before, Undoing, Unrecorded, Exists
<1>34. ASSUME NEW q \in Polls, Claim!PollPending(q) PROVE EnginesInv'
  <2>1. at[q] \in {"observe", "confirm"} /\ Moves(q, "idle", db, copy[q])
    BY <1>34, ClaimMoves, ClaimWrites DEF Claim!PollPending
  <2> QED BY <2>1, <1>0, Held, SponsoredStep, StoreForms
         DEF Special, Before, Undoing, Unrecorded, Exists
<1>35. ASSUME NEW q \in Polls, Claim!PollDecided(q) PROVE EnginesInv'
  <2>1. /\ at[q] \in {"observe", "confirm"}
        /\ \/ Moves(q, "confirm", db, copy[q])
           \/ Moves(q, "end_release", db, copy[q])
           \/ chain.landed = "ok" /\ Moves(q, "poll_account", db, copy[q])
    BY <1>35, ClaimMoves, ClaimWrites DEF Claim!PollDecided
  <2> QED BY <2>1, <1>0, Held, SponsoredStep, StoreForms
         DEF Special, Before, Undoing, Unrecorded, Exists
<1>36. ASSUME NEW q \in Polls, Claim!PollAccount(q) PROVE EnginesInv'
  <2>1. at[q] = "poll_account" /\ Moves(q, "poll_release", Booked, copy[q])
    BY <1>36, ClaimMoves, ClaimWrites DEF Claim!PollAccount
  <2> QED BY <2>1, <1>0, Held, SponsoredStep, StoreForms
         DEF Special, Before, Undoing, Unrecorded, Exists
<1>37. ASSUME NEW q \in Polls, Claim!PollRelease(q) PROVE EnginesInv'
  <2>1. at[q] = "poll_release" /\ Moves(q, "poll_record", GivenBack, copy[q])
    BY <1>37, ClaimMoves, ClaimWrites DEF Claim!PollRelease
  <2> QED BY <2>1, <1>0, Held, SponsoredStep, StoreForms
         DEF Special, Before, Undoing, Unrecorded, Exists
<1>38. ASSUME NEW q \in Polls, Claim!PollRecord(q) PROVE EnginesInv'
  <2>1. at[q] = "poll_record" /\ Moves(q, "idle", RecordSet("reconciled"), copy[q])
    BY <1>38, ClaimMoves, ClaimWrites DEF Claim!PollRecord
  <2> QED BY <2>1, <1>0, Held, SponsoredStep, StoreForms
         DEF Special, Before, Undoing, Unrecorded, Exists
<1>39. ASSUME NEW h \in Submits \cup Polls, Claim!EndRelease(h) PROVE EnginesInv'
  <2>1. at[h] = "end_release" /\ Moves(h, "end_record", GivenBack, copy[h])
    BY <1>39, ClaimMoves, ClaimWrites DEF Claim!EndRelease
  <2> QED BY <2>1, <1>0, Held, SponsoredStep, StoreForms
         DEF Special, Before, Undoing, Unrecorded, Exists
<1>40. ASSUME Claim!Surroundings PROVE EnginesInv'
  BY <1>40, ClaimMoves, SurroundingsStep
<1>41. ASSUME NEW p \in Prepares, Claim!Prepare(p) PROVE EnginesInv'
  BY <1>41, <1>1, <1>2, <1>3, <1>4, <1>5, <1>6, <1>7 DEF Claim!Prepare
<1>42. ASSUME NEW h \in Prepares \cup Aborts, Claim!Abort(h) PROVE EnginesInv'
  BY <1>42, <1>8, <1>9, <1>10, <1>11, <1>12 DEF Claim!Abort
<1>43. ASSUME NEW s \in Submits, Claim!Submit(s) PROVE EnginesInv'
  BY <1>43, <1>13, <1>14, <1>15, <1>16, <1>17, <1>18, <1>19, <1>20, <1>21, <1>22 DEF Claim!Submit
<1>44. ASSUME NEW s \in Submits, Claim!Catch(s) PROVE EnginesInv'
  BY <1>44, <1>23, <1>24, <1>25 DEF Claim!Catch
<1>45. ASSUME NEW s \in Submits, Claim!Settle(s) PROVE EnginesInv'
  BY <1>45, <1>26, <1>27, <1>28, <1>29, <1>30, <1>31 DEF Claim!Settle
<1>46. ASSUME NEW q \in Polls, Claim!Poll(q) PROVE EnginesInv'
  BY <1>46, <1>33, <1>34, <1>35, <1>36, <1>37, <1>38, <1>39, <1>32 DEF Claim!Poll
<1> QED
  BY <1>32, <1>39, <1>40, <1>41, <1>42, <1>43, <1>44, <1>45, <1>46 DEF Claim!Next

-----------------------------------------------------------------------------
(* Send: what its steps are in terms of the lemmas above.                   *)
LEMMA SendMoves ==
  ASSUME EnginesInv, engine' = engine
  PROVE  /\ \A h, place, d, q :
              /\ Send!Do(h, place, d, q) => Moves(h, place, d, q)
              /\ Send!Go(h, place) => Moves(h, place, db, copy[h])
              /\ Send!Write(h, place, d) => Moves(h, place, d, copy[h])
              /\ Send!Take(h, place, q) => Moves(h, place, db, q)
              /\ Send!Throw(h, place, q) => Moves(h, place, db, q)
              /\ Send!Try(h, place, d) =>
                   Moves(h, place, d, copy[h]) \/ Moves(h, place, db, copy[h])
         /\ \A s, place, q :
              /\ Send!KoraSigns(s, place) => AsksKora(s, place, copy[s])
              /\ Send!KoraFails(s, place, q) => AsksKora(s, place, q)
              /\ at[s] = "broadcast" /\ Send!Sent(s, place) => Sends(s, place, copy[s])
         /\ \A h : Send!MayStart(h) => at[h] = "idle"
         /\ Send!Matches <=> chain.landed = "ok"
         /\ Send!Surroundings => Surroundings
<1> USE DEF Send!Do, Send!Go, Send!Write, Send!Take, Send!Throw, Send!Try, Moves
<1>1. ASSUME NEW h, NEW place, NEW d, NEW q
      PROVE  /\ Send!Do(h, place, d, q) => Moves(h, place, d, q)
             /\ Send!Go(h, place) => Moves(h, place, db, copy[h])
             /\ Send!Write(h, place, d) => Moves(h, place, d, copy[h])
             /\ Send!Take(h, place, q) => Moves(h, place, db, q)
             /\ Send!Throw(h, place, q) => Moves(h, place, db, q)
             /\ Send!Try(h, place, d) =>
                  Moves(h, place, d, copy[h]) \/ Moves(h, place, db, copy[h])
  OBVIOUS
<1>2. ASSUME NEW s, NEW place, NEW q
      PROVE  /\ Send!KoraSigns(s, place) => AsksKora(s, place, copy[s])
             /\ Send!KoraFails(s, place, q) => AsksKora(s, place, q)
  BY DEF Send!KoraSigns, Send!KoraFails, Send!Chain, AsksKora, Outside
<1>3. ASSUME NEW s, NEW place, NEW q
      PROVE  at[s] = "broadcast" /\ Send!Sent(s, place) => Sends(s, place, copy[s])
  BY DEF Send!Sent, Send!Chain, Sends, Outside, EnginesInv, Shape
<1>4. (\A h : Send!MayStart(h) => at[h] = "idle") /\ (Send!Matches <=> chain.landed = "ok")
  BY DEF Send!MayStart, Send!Matches
<1>5. Send!Surroundings => Surroundings
  BY DEF Send!Surroundings, Surroundings, Send!Stop, Stop, Send!Handler, Handler, Send!AtRest,
    AtRest, Send!Rest, Rest,
         Throw, Send!NextBlock, NextBlock, Send!Land, Land, Send!Forget, Forget,
         Send!QuoteSaved, QuoteSaved, Send!Gone, Gone, Send!New, New
<1> QED BY <1>1, <1>2, <1>3, <1>4, <1>5

LEMMA SendWrites ==
  /\ Send!GivenBack = GivenBack /\ Send!Reserved = Reserved
  /\ Send!RecordCreated = RecordCreated /\ Send!RecordSigned = RecordSigned
  /\ Send!Booked = Booked /\ Send!Gone = Gone /\ (Send!Prepared <=> Prepared)
  /\ \A s : /\ Send!RecordSet(s) = RecordSet(s)
            /\ Send!LockedBy(s) = LockedBy(s) /\ Send!Unlocked(s) = Unlocked(s)
  /\ \A q : /\ Send!QuoteSaved(q) = QuoteSaved(q)
            /\ Send!Signed(q) = Signed(q) /\ Send!Windowed(q) = Windowed(q)
  /\ \A q, s : Send!Marked(q, s) = Marked(q, s) /\ Send!Part(q, s) = Part(q, s)
BY DEF Send!GivenBack, GivenBack, Send!Reserved, Reserved, Send!RecordCreated, RecordCreated,
       Send!RecordSigned, RecordSigned, Send!Booked, Booked, Send!Gone, Gone, Send!New, New,
       Send!Prepared, Prepared, Send!RecordSet, RecordSet, Send!LockedBy, LockedBy,
       Send!Unlocked, Unlocked, Send!QuoteSaved, QuoteSaved, Send!Signed, Signed,
       Send!Windowed, Windowed, Send!Marked, Marked, Send!Part, Part

LEMMA SendStep ==
  ASSUME EnginesInv, engine = "send", engine' = engine, Send!Next
  PROVE  EnginesInv'
<1>0. /\ engine # "proof"
      /\ \A h \in Prepares \cup Aborts \cup Submits \cup Polls : h \in Handler
      /\ \A h \in Prepares \cup Aborts \cup Polls : h \notin Submits
  BY ConstantsAssumption DEF Handler
<1>1. ASSUME NEW p \in Prepares, Send!PrepareLoad(p) PROVE EnginesInv'
  <2>1. /\ at[p] = "idle"
        /\ \/ Prepared /\ Moves(p, "reserve", db, db.quote)
           \/ Moves(p, "create", db, db.quote)
    BY <1>1, SendMoves, SendWrites DEF Send!PrepareLoad
  <2> QED BY <2>1, <1>0, Held, SponsoredStep, StoreForms
         DEF Special, Before, Undoing, Unrecorded, Exists
<1>2. ASSUME NEW p \in Prepares, Send!PrepareCreate(p) PROVE EnginesInv'
  <2>1. /\ at[p] = "create"
        /\ \/ db.record.status = "none" /\ Moves(p, "persist", RecordCreated, Marked(copy[p],
                "awaiting"))
           \/ Moves(p, "ended", db, copy[p])
    BY <1>2, SendMoves, SendWrites DEF Send!PrepareCreate
  <2>2. Plain(Marked(copy[p], "awaiting"))
    BY <1>0, Held, CopyForms DEF Plain
  <2> QED BY <2>1, <2>2, <1>0, Held, SponsoredStep, StoreForms
         DEF Plain, Special, Before, Undoing, Unrecorded, Exists
<1>3. ASSUME NEW p \in Prepares, Send!PreparePersist(p) PROVE EnginesInv'
  <2>1. at[p] = "persist" /\ Moves(p, "reserve", QuoteSaved(copy[p]), copy[p])
    BY <1>3, SendMoves, SendWrites DEF Send!PreparePersist
  <2> QED BY <2>1, <1>0, Held, SponsoredStep, StoreForms
         DEF Special, Before, Undoing, Unrecorded, Exists
<1>4. ASSUME NEW p \in Prepares, Send!PrepareReserve(p) PROVE EnginesInv'
  <2>1. /\ at[p] = "reserve"
        /\ \/ Moves(p, "activate", Reserved, copy[p])
           \/ Moves(p, "fail_release", db, copy[p])
    BY <1>4, SendMoves, SendWrites DEF Send!PrepareReserve
  <2> QED BY <2>1, <1>0, Held, SponsoredStep, StoreForms
         DEF Special, Before, Undoing, Unrecorded, Exists
<1>5. ASSUME NEW p \in Prepares, Send!PrepareActivate(p) PROVE EnginesInv'
  <2>1. /\ at[p] = "activate"
        /\ \/ Moves(p, "window", db, Windowed(copy[p]))
           \/ Moves(p, "fail_release", db, copy[p])
           \/ Moves(p, "done", db, copy[p])
    BY <1>5, SendMoves, SendWrites DEF Send!PrepareActivate
  <2>2. Windowed(copy[p]) \in AnyQuote /\ Windowed(copy[p]).part = copy[p].part
    BY <1>0, CopyForms
  <2> QED BY <2>1, <2>2, <1>0, Held, SponsoredStep, StoreForms
         DEF Special, Before, Undoing, Unrecorded, Exists
<1>6. ASSUME NEW p \in Prepares, Send!PrepareWindow(p) PROVE EnginesInv'
  <2>1. at[p] = "window" /\ Moves(p, "done", QuoteSaved(copy[p]), copy[p])
    BY <1>6, SendMoves, SendWrites DEF Send!PrepareWindow
  <2> QED BY <2>1, <1>0, Held, SponsoredStep, StoreForms
         DEF Special, Before, Undoing, Unrecorded, Exists
<1>7. ASSUME NEW a \in Prepares \cup Aborts, Send!AbortLoad(a) PROVE EnginesInv'
  <2>1. at[a] = "idle" /\ Prepared /\ Moves(a, "fail_release", db, db.quote)
    BY <1>7, SendMoves, SendWrites DEF Send!AbortLoad
  <2> QED BY <2>1, <1>0, Held, SponsoredStep, StoreForms
         DEF Special, Before, Undoing, Unrecorded, Exists
<1>8. ASSUME NEW h \in Prepares \cup Aborts, Send!FailRelease(h) PROVE EnginesInv'
  <2>1. at[h] = "fail_release" /\ Moves(h, "fail_record", GivenBack, copy[h])
    BY <1>8, SendMoves, SendWrites DEF Send!FailRelease
  <2> QED BY <2>1, <1>0, Held, SponsoredStep, StoreForms
         DEF Special, Before, Undoing, Unrecorded, Exists
<1>9. ASSUME NEW h \in Prepares \cup Aborts, Send!FailRecord(h) PROVE EnginesInv'
  <2>1. at[h] = "fail_record" /\ Moves(h, "fail_quote", RecordSet("failed"), Marked(copy[h],
          "failed"))
    BY <1>9, SendMoves, SendWrites DEF Send!FailRecord
  <2>2. Plain(Marked(copy[h], "failed"))
    BY <1>0, Held, CopyForms DEF Plain
  <2> QED BY <2>1, <2>2, <1>0, Held, SponsoredStep, StoreForms
         DEF Plain, Special, Before, Undoing, Unrecorded, Exists
<1>10. ASSUME NEW h \in Prepares \cup Aborts, Send!FailQuote(h) PROVE EnginesInv'
  <2>1. at[h] = "fail_quote" /\ Moves(h, "ended", QuoteSaved(copy[h]), copy[h])
    BY <1>10, SendMoves, SendWrites DEF Send!FailQuote
  <2> QED BY <2>1, <1>0, Held, SponsoredStep, StoreForms
         DEF Special, Before, Undoing, Unrecorded, Exists
<1>11. ASSUME NEW s \in Submits, Send!SubmitLoad(s) PROVE EnginesInv'
  <2>1. /\ at[s] = "idle"
        /\ \/ Prepared /\ Moves(s, "thank", db, db.quote)
           \/ Prepared /\ Moves(s, "observe", db, db.quote)
           \/ Prepared /\ Moves(s, "lock", db, db.quote)
    BY <1>11, SendMoves, SendWrites DEF Send!SubmitLoad
  <2> QED BY <2>1, <1>0, Held, SponsoredStep, StoreForms
         DEF Special, Before, Undoing, Unrecorded, Exists
<1>12. ASSUME NEW s \in Submits, Send!SubmitLock(s) PROVE EnginesInv'
  <2>1. /\ at[s] = "lock"
        /\ \/ db.lock = None /\ Moves(s, "check", LockedBy(s), copy[s])
           \/ Moves(s, "undo", db, Marked(copy[s], "awaiting"))
    BY <1>12, SendMoves, SendWrites DEF Send!SubmitLock, Send!Early, Send!Crossed
  <2>2. Plain(Marked(copy[s], "awaiting"))
    BY <1>0, Held, CopyForms DEF Plain
  <2> QED BY <2>1, <2>2, <1>0, Held, SponsoredStep, StoreForms, LockStep
         DEF Plain, Special, Before, Undoing, Unrecorded, Exists
<1>13. ASSUME NEW s \in Submits, Send!SubmitCheck(s) PROVE EnginesInv'
  <2>1. /\ at[s] = "check"
        /\ \/ Moves(s, "cross", db, copy[s])
           \/ Moves(s, "undo", db, Marked(copy[s], "awaiting"))
    BY <1>13, SendMoves, SendWrites DEF Send!SubmitCheck, Send!Early, Send!Crossed
  <2>2. Plain(Marked(copy[s], "awaiting"))
    BY <1>0, Held, CopyForms DEF Plain
  <2> QED BY <2>1, <2>2, <1>0, Held, SponsoredStep, StoreForms
         DEF Plain, Special, Before, Undoing, Unrecorded, Exists
<1>14. ASSUME NEW s \in Submits, Send!SubmitCross(s) PROVE EnginesInv'
  <2>1. /\ at[s] = "cross"
        /\ \/ Moves(s, "undo", db, Marked(copy[s], "awaiting"))
           \/ Moves(s, "relay", QuoteSaved(Marked(copy[s], "relaying")), Marked(copy[s],
                "relaying"))
           \/ Moves(s, "catch_quote", db, Marked(copy[s], "failed"))
    BY <1>14, SendMoves, SendWrites DEF Send!SubmitCross, Send!Early, Send!Crossed
  <2>2. /\ Plain(Marked(copy[s], "failed"))
        /\ Plain(Marked(copy[s], "awaiting"))
        /\ Plain(Marked(copy[s], "relaying"))
    BY <1>0, Held, CopyForms DEF Plain
  <2> QED BY <2>1, <2>2, <1>0, Held, SponsoredStep, StoreForms
         DEF Plain, Special, Before, Undoing, Unrecorded, Exists
<1>15. ASSUME NEW s \in Submits, Send!SubmitRelay(s) PROVE EnginesInv'
  <2>1. /\ at[s] = "relay"
        /\ \/ Moves(s, "kora", RecordSet("relaying"), copy[s])
           \/ Moves(s, "catch_quote", db, Marked(copy[s], "failed"))
    BY <1>15, SendMoves, SendWrites DEF Send!SubmitRelay, Send!Early, Send!Crossed
  <2>2. Plain(Marked(copy[s], "failed"))
    BY <1>0, Held, CopyForms DEF Plain
  <2> QED BY <2>1, <2>2, <1>0, Held, SponsoredStep, StoreForms
         DEF Plain, Special, Before, Undoing, Unrecorded, Exists
<1>16. ASSUME NEW s \in Submits, Send!SubmitKora(s) PROVE EnginesInv'
  <2>1. \/ AsksKora(s, "final", copy[s])
        \/ AsksKora(s, "catch_quote", Marked(copy[s], "failed"))
    BY <1>16, SendMoves, SendWrites DEF Send!SubmitKora, Send!Early, Send!Crossed
  <2>2. Plain(Marked(copy[s], "failed"))
    BY <1>0, Held, CopyForms DEF Plain
  <2> QED BY <2>1, <2>2, <1>0, Held, SponsoredStep, StoreForms, KoraStep
         DEF Plain, Special, Before, Undoing, Unrecorded, Exists
<1>17. ASSUME NEW s \in Submits, Send!SubmitFinal(s) PROVE EnginesInv'
  <2>1. /\ at[s] = "final"
        /\ \/ Moves(s, "record", db, copy[s])
           \/ Moves(s, "catch_quote", db, Marked(copy[s], "failed"))
    BY <1>17, SendMoves, SendWrites DEF Send!SubmitFinal, Send!Early, Send!Crossed
  <2>2. Plain(Marked(copy[s], "failed"))
    BY <1>0, Held, CopyForms DEF Plain
  <2> QED BY <2>1, <2>2, <1>0, Held, SponsoredStep, StoreForms
         DEF Plain, Special, Before, Undoing, Unrecorded, Exists
<1>18. ASSUME NEW s \in Submits, Send!SubmitRecord(s) PROVE EnginesInv'
  <2>1. at[s] = "record" /\ Moves(s, "save", RecordSigned, Signed(copy[s]))
    BY <1>18, SendMoves, SendWrites DEF Send!SubmitRecord
  <2>2. Plain(Signed(copy[s]))
    BY <1>0, Held, CopyForms DEF Plain
  <2> QED BY <2>1, <2>2, <1>0, Held, SponsoredStep, StoreForms
         DEF Plain, Special, Before, Undoing, Unrecorded, Exists
<1>19. ASSUME NEW s \in Submits, Send!SubmitSave(s) PROVE EnginesInv'
  <2>1. at[s] = "save" /\ Moves(s, "broadcast", QuoteSaved(copy[s]), copy[s])
    BY <1>19, SendMoves, SendWrites DEF Send!SubmitSave
  <2> QED BY <2>1, <1>0, Held, SponsoredStep, StoreForms
         DEF Special, Before, Undoing, Unrecorded, Exists
<1>20. ASSUME NEW s \in Submits, Send!SubmitBroadcast(s) PROVE EnginesInv'
  <2>1. Sends(s, "observe", copy[s])
    BY <1>20, SendMoves, SendWrites DEF Send!SubmitBroadcast
  <2> QED BY <2>1, <1>0, Held, SponsoredStep, StoreForms, WireStep
         DEF Special, Before, Undoing, Unrecorded, Exists
<1>21. ASSUME NEW s \in Submits, Send!CatchUndo(s) PROVE EnginesInv'
  <2>1. at[s] = "undo" /\ Moves(s, "catch_quote", Unlocked(s), copy[s])
    BY <1>21, SendMoves, SendWrites DEF Send!CatchUndo
  <2> QED BY <2>1, <1>0, Held, SponsoredStep, StoreForms, UnlockStep
         DEF Special, Before, Undoing, Unrecorded, Exists
<1>22. ASSUME NEW s \in Submits, Send!CatchQuote(s) PROVE EnginesInv'
  <2>1. /\ at[s] = "catch_quote"
        /\ \/ Moves(s, "catch_record", QuoteSaved(copy[s]), copy[s])
           \/ Moves(s, "catch_record", db, copy[s])
    BY <1>22, SendMoves, SendWrites DEF Send!CatchQuote
  <2> QED BY <2>1, <1>0, Held, SponsoredStep, StoreForms
         DEF Special, Before, Undoing, Unrecorded, Exists
<1>23. ASSUME NEW s \in Submits, Send!CatchRecord(s) PROVE EnginesInv'
  <2>1. /\ at[s] = "catch_record"
        /\ \/ Moves(s, "ended", RecordSet(copy[s].part), copy[s])
           \/ Moves(s, "ended", db, copy[s])
    BY <1>23, SendMoves, SendWrites DEF Send!CatchRecord
  <2> QED BY <2>1, <1>0, Held, SponsoredStep, StoreForms
         DEF Special, Before, Undoing, Unrecorded, Exists
<1>24. ASSUME NEW s \in Submits, Send!Thank(s) PROVE EnginesInv'
  <2>1. /\ at[s] = "thank"
        /\ \/ Moves(s, "done", GivenBack, copy[s])
           \/ Moves(s, "done", db, copy[s])
    BY <1>24, SendMoves, SendWrites DEF Send!Thank
  <2> QED BY <2>1, <1>0, Held, SponsoredStep, StoreForms
         DEF Special, Before, Undoing, Unrecorded, Exists
<1>25. ASSUME NEW q \in Polls, Send!PollLoad(q) PROVE EnginesInv'
  <2>1. at[q] = "idle" /\ Prepared /\ Moves(q, "observe", db, db.quote)
    BY <1>25, SendMoves, SendWrites DEF Send!PollLoad
  <2> QED BY <2>1, <1>0, Held, SponsoredStep, StoreForms
         DEF Special, Before, Undoing, Unrecorded, Exists
<1>26. ASSUME NEW h \in Submits \cup Polls, Send!Pending(h) PROVE EnginesInv'
  <2>1. at[h] \in {"observe", "confirm"} /\ Moves(h, "close", db, Marked(copy[h], "submitted"))
    BY <1>26, SendMoves, SendWrites DEF Send!Pending
  <2>2. Plain(Marked(copy[h], "submitted"))
    BY <1>0, Held, CopyForms DEF Plain
  <2> QED BY <2>1, <2>2, <1>0, Held, SponsoredStep, StoreForms
         DEF Plain, Special, Before, Undoing, Unrecorded, Exists
<1>27. ASSUME NEW h \in Submits \cup Polls, Send!Decided(h) PROVE EnginesInv'
  <2>1. /\ at[h] \in {"observe", "confirm"}
        /\ \/ Moves(h, "confirm", db, copy[h])
           \/ Moves(h, "end_release", RecordSet("failed"), Marked(copy[h], "failed"))
           \/ Moves(h, "close", db, Marked(copy[h], "failed"))
           \/ chain.landed = "ok" /\ Moves(h, "account", RecordSet("reconciled"), copy[h])
    BY <1>27, SendMoves, SendWrites DEF Send!Decided
  <2>2. Plain(Marked(copy[h], "failed"))
    BY <1>0, Held, CopyForms DEF Plain
  <2> QED BY <2>1, <2>2, <1>0, Held, SponsoredStep, StoreForms
         DEF Plain, Special, Before, Undoing, Unrecorded, Exists
<1>28. ASSUME NEW h \in Submits \cup Polls, Send!EndRelease(h) PROVE EnginesInv'
  <2>1. /\ at[h] = "end_release"
        /\ \/ Moves(h, "close", GivenBack, copy[h])
           \/ Moves(h, "close", db, copy[h])
    BY <1>28, SendMoves, SendWrites DEF Send!EndRelease
  <2> QED BY <2>1, <1>0, Held, SponsoredStep, StoreForms
         DEF Special, Before, Undoing, Unrecorded, Exists
<1>29. ASSUME NEW h \in Submits \cup Polls, Send!Account(h) PROVE EnginesInv'
  <2>1. at[h] = "account" /\ Moves(h, "giveback", Booked, Marked(copy[h], "reconciled"))
    BY <1>29, SendMoves, SendWrites DEF Send!Account
  <2> QED BY <2>1, <1>0, Held, SponsoredStep, StoreForms, CopyForms
         DEF Special, Before, Undoing, Unrecorded, Exists
<1>30. ASSUME NEW h \in Submits \cup Polls, Send!GiveBack(h) PROVE EnginesInv'
  <2>1. /\ at[h] = "giveback"
        /\ \/ Moves(h, "close", GivenBack, copy[h])
           \/ Moves(h, "close", db, copy[h])
    BY <1>30, SendMoves, SendWrites DEF Send!GiveBack
  <2> QED BY <2>1, <1>0, Held, SponsoredStep, StoreForms
         DEF Special, Before, Undoing, Unrecorded, Exists
<1>31. ASSUME NEW h \in Submits \cup Polls, Send!Close(h) PROVE EnginesInv'
  <2>1. /\ at[h] = "close"
        /\ \/ h \notin Submits /\ Moves(h, "idle", QuoteSaved(copy[h]), copy[h])
           \/ Moves(h, "done", QuoteSaved(copy[h]), copy[h])
           \/ Moves(h, "ended", QuoteSaved(copy[h]), copy[h])
    BY <1>31, <1>0, SendMoves, SendWrites DEF Send!Close
  <2> QED BY <2>1, <1>0, Held, SponsoredStep, StoreForms
         DEF Special, Before, Undoing, Unrecorded, Exists
<1>32. ASSUME Send!Surroundings PROVE EnginesInv'
  BY <1>32, SendMoves, SurroundingsStep
<1>33. ASSUME NEW p \in Prepares, Send!Prepare(p) PROVE EnginesInv'
  BY <1>33, <1>1, <1>2, <1>3, <1>4, <1>5, <1>6 DEF Send!Prepare
<1>34. ASSUME NEW h \in Prepares \cup Aborts, Send!Abort(h) PROVE EnginesInv'
  BY <1>34, <1>7, <1>8, <1>9, <1>10 DEF Send!Abort
<1>35. ASSUME NEW s \in Submits, Send!Submit(s) PROVE EnginesInv'
  BY <1>35, <1>11, <1>12, <1>13, <1>14, <1>15, <1>16, <1>17, <1>18, <1>19, <1>20 DEF Send!Submit
<1>36. ASSUME NEW s \in Submits, Send!Catch(s) PROVE EnginesInv'
  BY <1>36, <1>21, <1>22, <1>23 DEF Send!Catch
<1>37. ASSUME NEW h \in Submits \cup Polls, Send!Settle(h) PROVE EnginesInv'
  BY <1>37, <1>27, <1>28, <1>29, <1>30, <1>31 DEF Send!Settle
<1> QED
  BY <1>24, <1>25, <1>26, <1>32, <1>33, <1>34, <1>35, <1>36, <1>37 DEF Send!Next

-----------------------------------------------------------------------------
(* Recover: what its steps are in terms of the lemmas above.                   *)
LEMMA RecoverMoves ==
  ASSUME EnginesInv, engine' = engine
  PROVE  /\ \A h, place, d, q :
              /\ Recover!Do(h, place, d, q) => Moves(h, place, d, q)
              /\ Recover!Go(h, place) => Moves(h, place, db, copy[h])
              /\ Recover!Write(h, place, d) => Moves(h, place, d, copy[h])
              /\ Recover!Take(h, place, q) => Moves(h, place, db, q)
              /\ Recover!Throw(h, place, q) => Moves(h, place, db, q)
              /\ Recover!Try(h, place, d) =>
                   Moves(h, place, d, copy[h]) \/ Moves(h, place, db, copy[h])
         /\ \A s, place, q :
              /\ Recover!KoraSigns(s, place) => AsksKora(s, place, copy[s])
              /\ Recover!KoraFails(s, place, q) => AsksKora(s, place, q)
              /\ at[s] = "broadcast" /\ Recover!Sent(s, place) => Sends(s, place, copy[s])
         /\ \A h : Recover!MayStart(h) => at[h] = "idle"
         /\ Recover!Matches <=> chain.landed = "ok"
         /\ Recover!Surroundings => Surroundings
<1> USE DEF Recover!Do, Recover!Go, Recover!Write, Recover!Take, Recover!Throw, Recover!Try, Moves
<1>1. ASSUME NEW h, NEW place, NEW d, NEW q
      PROVE  /\ Recover!Do(h, place, d, q) => Moves(h, place, d, q)
             /\ Recover!Go(h, place) => Moves(h, place, db, copy[h])
             /\ Recover!Write(h, place, d) => Moves(h, place, d, copy[h])
             /\ Recover!Take(h, place, q) => Moves(h, place, db, q)
             /\ Recover!Throw(h, place, q) => Moves(h, place, db, q)
             /\ Recover!Try(h, place, d) =>
                  Moves(h, place, d, copy[h]) \/ Moves(h, place, db, copy[h])
  OBVIOUS
<1>2. ASSUME NEW s, NEW place, NEW q
      PROVE  /\ Recover!KoraSigns(s, place) => AsksKora(s, place, copy[s])
             /\ Recover!KoraFails(s, place, q) => AsksKora(s, place, q)
  BY DEF Recover!KoraSigns, Recover!KoraFails, Recover!Chain, AsksKora, Outside
<1>3. ASSUME NEW s, NEW place, NEW q
      PROVE  at[s] = "broadcast" /\ Recover!Sent(s, place) => Sends(s, place, copy[s])
  BY DEF Recover!Sent, Recover!Chain, Sends, Outside, EnginesInv, Shape
<1>4. (\A h : Recover!MayStart(h) => at[h] = "idle") /\ (Recover!Matches <=> chain.landed = "ok")
  BY DEF Recover!MayStart, Recover!Matches
<1>5. Recover!Surroundings => Surroundings
  BY DEF Recover!Surroundings, Surroundings, Recover!Stop, Stop, Recover!Handler, Handler,
    Recover!AtRest, AtRest, Recover!Rest, Rest,
         Throw, Recover!NextBlock, NextBlock, Recover!Land, Land, Recover!Forget, Forget,
         Recover!QuoteSaved, QuoteSaved, Recover!Gone, Gone, Recover!New, New
<1> QED BY <1>1, <1>2, <1>3, <1>4, <1>5

LEMMA RecoverWrites ==
  /\ Recover!GivenBack = GivenBack /\ Recover!Reserved = Reserved
  /\ Recover!RecordCreated = RecordCreated /\ Recover!RecordSigned = RecordSigned
  /\ Recover!Booked = Booked /\ Recover!Gone = Gone /\ (Recover!Prepared <=> Prepared)
  /\ \A s : /\ Recover!RecordSet(s) = RecordSet(s)
            /\ Recover!LockedBy(s) = LockedBy(s) /\ Recover!Unlocked(s) = Unlocked(s)
  /\ \A q : /\ Recover!QuoteSaved(q) = QuoteSaved(q)
            /\ Recover!Signed(q) = Signed(q) /\ Recover!Windowed(q) = Windowed(q)
  /\ \A q, s : Recover!Marked(q, s) = Marked(q, s) /\ Recover!Part(q, s) = Part(q, s)
BY DEF Recover!GivenBack, GivenBack, Recover!Reserved, Reserved, Recover!RecordCreated,
  RecordCreated,
       Recover!RecordSigned, RecordSigned, Recover!Booked, Booked, Recover!Gone, Gone,
         Recover!New, New,
       Recover!Prepared, Prepared, Recover!RecordSet, RecordSet, Recover!LockedBy, LockedBy,
       Recover!Unlocked, Unlocked, Recover!QuoteSaved, QuoteSaved, Recover!Signed, Signed,
       Recover!Windowed, Windowed, Recover!Marked, Marked, Recover!Part, Part

LEMMA RecoverStep ==
  ASSUME EnginesInv, engine = "recover", engine' = engine, Recover!Next
  PROVE  EnginesInv'
<1>0. /\ engine # "proof"
      /\ \A h \in Prepares \cup Aborts \cup Submits \cup Polls : h \in Handler
      /\ \A h \in Prepares \cup Aborts \cup Polls : h \notin Submits
  BY ConstantsAssumption DEF Handler
<1>1. ASSUME NEW p \in Prepares, Recover!PrepareLoad(p) PROVE EnginesInv'
  <2>1. /\ at[p] = "idle"
        /\ \/ Prepared /\ Moves(p, "reserve", db, db.quote)
           \/ Moves(p, "create", db, db.quote)
    BY <1>1, RecoverMoves, RecoverWrites DEF Recover!PrepareLoad
  <2> QED BY <2>1, <1>0, Held, SponsoredStep, StoreForms
         DEF Special, Before, Undoing, Unrecorded, Exists
<1>2. ASSUME NEW p \in Prepares, Recover!PrepareCreate(p) PROVE EnginesInv'
  <2>1. /\ at[p] = "create"
        /\ \/ db.record.status = "none" /\ Moves(p, "persist", RecordCreated, Marked(copy[p],
                "awaiting"))
           \/ Moves(p, "ended", db, copy[p])
    BY <1>2, RecoverMoves, RecoverWrites DEF Recover!PrepareCreate
  <2>2. Plain(Marked(copy[p], "awaiting"))
    BY <1>0, Held, CopyForms DEF Plain
  <2> QED BY <2>1, <2>2, <1>0, Held, SponsoredStep, StoreForms
         DEF Plain, Special, Before, Undoing, Unrecorded, Exists
<1>3. ASSUME NEW p \in Prepares, Recover!PreparePersist(p) PROVE EnginesInv'
  <2>1. at[p] = "persist" /\ Moves(p, "reserve", QuoteSaved(copy[p]), copy[p])
    BY <1>3, RecoverMoves, RecoverWrites DEF Recover!PreparePersist
  <2> QED BY <2>1, <1>0, Held, SponsoredStep, StoreForms
         DEF Special, Before, Undoing, Unrecorded, Exists
<1>4. ASSUME NEW p \in Prepares, Recover!PrepareReserve(p) PROVE EnginesInv'
  <2>1. /\ at[p] = "reserve"
        /\ \/ Moves(p, "activate", Reserved, copy[p])
           \/ Moves(p, "cleanup", db, copy[p])
    BY <1>4, RecoverMoves, RecoverWrites DEF Recover!PrepareReserve
  <2> QED BY <2>1, <1>0, Held, SponsoredStep, StoreForms
         DEF Special, Before, Undoing, Unrecorded, Exists
<1>5. ASSUME NEW p \in Prepares, Recover!PrepareActivate(p) PROVE EnginesInv'
  <2>1. /\ at[p] = "activate"
        /\ \/ Moves(p, "window", db, Windowed(copy[p]))
           \/ Moves(p, "cleanup", db, copy[p])
    BY <1>5, RecoverMoves, RecoverWrites DEF Recover!PrepareActivate
  <2>2. Windowed(copy[p]) \in AnyQuote /\ Windowed(copy[p]).part = copy[p].part
    BY <1>0, CopyForms
  <2> QED BY <2>1, <2>2, <1>0, Held, SponsoredStep, StoreForms
         DEF Special, Before, Undoing, Unrecorded, Exists
<1>6. ASSUME NEW p \in Prepares, Recover!PrepareWindow(p) PROVE EnginesInv'
  <2>1. at[p] = "window" /\ Moves(p, "done", QuoteSaved(copy[p]), copy[p])
    BY <1>6, RecoverMoves, RecoverWrites DEF Recover!PrepareWindow
  <2> QED BY <2>1, <1>0, Held, SponsoredStep, StoreForms
         DEF Special, Before, Undoing, Unrecorded, Exists
<1>7. ASSUME NEW a \in Prepares \cup Aborts \cup Submits, Recover!AbortLoad(a) PROVE EnginesInv'
  <2>1. at[a] = "idle" /\ Moves(a, "cleanup", db, db.quote)
    BY <1>7, RecoverMoves, RecoverWrites DEF Recover!AbortLoad
  <2> QED BY <2>1, <1>0, Held, SponsoredStep, StoreForms
         DEF Special, Before, Undoing, Unrecorded, Exists
<1>8. ASSUME NEW h \in Prepares \cup Aborts \cup Submits, Recover!Cleanup(h) PROVE EnginesInv'
  <2>1. /\ at[h] = "cleanup"
        /\ \/ Moves(h, "ended", db, copy[h])
           \/ db.record.status # "none" /\ Moves(h, "fail_release", db, copy[h])
           \/ db.record.status # "none" /\ Moves(h, "again", db, copy[h])
    BY <1>8, RecoverMoves, RecoverWrites DEF Recover!Cleanup
  <2> QED BY <2>1, <1>0, Held, SponsoredStep, StoreForms
         DEF Special, Before, Undoing, Unrecorded, Exists
<1>9. ASSUME NEW h \in Prepares \cup Aborts \cup Submits, Recover!FailRelease(h) PROVE EnginesInv'
  <2>1. /\ at[h] \in {"fail_release", "again"}
        /\ \/ Moves(h, "fail_quote", GivenBack, copy[h])
           \/ Moves(h, "fail_record", GivenBack, copy[h])
    BY <1>9, RecoverMoves, RecoverWrites DEF Recover!FailRelease
  <2> QED BY <2>1, <1>0, Held, SponsoredStep, StoreForms
         DEF Special, Before, Undoing, Unrecorded, Exists
<1>10. ASSUME NEW h \in Prepares \cup Aborts \cup Submits, Recover!FailRecord(h) PROVE EnginesInv'
  <2>1. at[h] = "fail_record" /\ Moves(h, "fail_quote", RecordSet("failed"), copy[h])
    BY <1>10, RecoverMoves, RecoverWrites DEF Recover!FailRecord
  <2> QED BY <2>1, <1>0, Held, SponsoredStep, StoreForms
         DEF Special, Before, Undoing, Unrecorded, Exists
<1>11. ASSUME NEW h \in Prepares \cup Aborts \cup Submits, Recover!FailQuote(h) PROVE EnginesInv'
  <2>1. /\ at[h] = "fail_quote"
        /\ \/ Moves(h, "ended", db, copy[h])
           \/ Moves(h, "ended", QuoteSaved(Marked(copy[h], "failed")), copy[h])
    BY <1>11, RecoverMoves, RecoverWrites DEF Recover!FailQuote
  <2>2. Plain(Marked(copy[h], "failed"))
    BY <1>0, Held, CopyForms DEF Plain
  <2> QED BY <2>1, <2>2, <1>0, Held, SponsoredStep, StoreForms
         DEF Plain, Special, Before, Undoing, Unrecorded, Exists
<1>12. ASSUME NEW s \in Submits, Recover!SubmitLoad(s) PROVE EnginesInv'
  <2>1. /\ at[s] = "idle"
        /\ \/ Prepared /\ Moves(s, "done", db, db.quote)
           \/ Prepared /\ Moves(s, "observe", db, db.quote)
           \/ Prepared /\ Moves(s, "lock", db, db.quote)
    BY <1>12, RecoverMoves, RecoverWrites DEF Recover!SubmitLoad
  <2> QED BY <2>1, <1>0, Held, SponsoredStep, StoreForms
         DEF Special, Before, Undoing, Unrecorded, Exists
<1>13. ASSUME NEW s \in Submits, Recover!SubmitLock(s) PROVE EnginesInv'
  <2>1. /\ at[s] = "lock"
        /\ \/ db.lock = None /\ Moves(s, "check", LockedBy(s), copy[s])
           \/ Moves(s, "reject", db, copy[s])
    BY <1>13, RecoverMoves, RecoverWrites DEF Recover!SubmitLock
  <2> QED BY <2>1, <1>0, Held, SponsoredStep, StoreForms, LockStep
         DEF Special, Before, Undoing, Unrecorded, Exists
<1>14. ASSUME NEW s \in Submits, Recover!SubmitCheck(s) PROVE EnginesInv'
  <2>1. /\ at[s] = "check"
        /\ \/ Moves(s, "cross", db, copy[s])
           \/ Moves(s, "undo", db, copy[s])
    BY <1>14, RecoverMoves, RecoverWrites DEF Recover!SubmitCheck
  <2> QED BY <2>1, <1>0, Held, SponsoredStep, StoreForms
         DEF Special, Before, Undoing, Unrecorded, Exists
<1>15. ASSUME NEW s \in Submits, Recover!SubmitCross(s) PROVE EnginesInv'
  <2>1. /\ at[s] = "cross"
        /\ \/ Moves(s, "undo", db, copy[s])
           \/ Moves(s, "relay", QuoteSaved(Part(copy[s], "relaying")), Part(copy[s], "relaying"))
    BY <1>15, RecoverMoves, RecoverWrites DEF Recover!SubmitCross
  <2>2. Plain(Part(copy[s], "relaying"))
    BY <1>0, Held, CopyForms DEF Plain
  <2> QED BY <2>1, <2>2, <1>0, Held, SponsoredStep, StoreForms
         DEF Plain, Special, Before, Undoing, Unrecorded, Exists
<1>16. ASSUME NEW s \in Submits, Recover!SubmitRelay(s) PROVE EnginesInv'
  <2>1. at[s] = "relay" /\ Moves(s, "kora", RecordSet("relaying"), copy[s])
    BY <1>16, RecoverMoves, RecoverWrites DEF Recover!SubmitRelay
  <2> QED BY <2>1, <1>0, Held, SponsoredStep, StoreForms
         DEF Special, Before, Undoing, Unrecorded, Exists
<1>17. ASSUME NEW s \in Submits, Recover!SubmitKora(s) PROVE EnginesInv'
  <2>1. \/ AsksKora(s, "final", copy[s])
        \/ AsksKora(s, "ended", copy[s])
    BY <1>17, RecoverMoves, RecoverWrites DEF Recover!SubmitKora
  <2> QED BY <2>1, <1>0, Held, SponsoredStep, StoreForms, KoraStep
         DEF Special, Before, Undoing, Unrecorded, Exists
<1>18. ASSUME NEW s \in Submits, Recover!SubmitFinal(s) PROVE EnginesInv'
  <2>1. /\ at[s] = "final"
        /\ \/ Moves(s, "record", db, copy[s])
           \/ Moves(s, "giveback", db, Marked(copy[s], "failed"))
    BY <1>18, RecoverMoves, RecoverWrites DEF Recover!SubmitFinal
  <2>2. Plain(Marked(copy[s], "failed"))
    BY <1>0, Held, CopyForms DEF Plain
  <2> QED BY <2>1, <2>2, <1>0, Held, SponsoredStep, StoreForms
         DEF Plain, Special, Before, Undoing, Unrecorded, Exists
<1>19. ASSUME NEW s \in Submits, Recover!SubmitRecord(s) PROVE EnginesInv'
  <2>1. at[s] = "record" /\ Moves(s, "save", RecordSigned, Signed(copy[s]))
    BY <1>19, RecoverMoves, RecoverWrites DEF Recover!SubmitRecord
  <2>2. Plain(Signed(copy[s]))
    BY <1>0, Held, CopyForms DEF Plain
  <2> QED BY <2>1, <2>2, <1>0, Held, SponsoredStep, StoreForms
         DEF Plain, Special, Before, Undoing, Unrecorded, Exists
<1>20. ASSUME NEW s \in Submits, Recover!SubmitSave(s) PROVE EnginesInv'
  <2>1. at[s] = "save" /\ Moves(s, "broadcast", QuoteSaved(copy[s]), copy[s])
    BY <1>20, RecoverMoves, RecoverWrites DEF Recover!SubmitSave
  <2> QED BY <2>1, <1>0, Held, SponsoredStep, StoreForms
         DEF Special, Before, Undoing, Unrecorded, Exists
<1>21. ASSUME NEW s \in Submits, Recover!SubmitBroadcast(s) PROVE EnginesInv'
  <2>1. Sends(s, "observe", copy[s])
    BY <1>21, RecoverMoves, RecoverWrites DEF Recover!SubmitBroadcast
  <2> QED BY <2>1, <1>0, Held, SponsoredStep, StoreForms, WireStep
         DEF Special, Before, Undoing, Unrecorded, Exists
<1>22. ASSUME NEW s \in Submits, Recover!CatchUndo(s) PROVE EnginesInv'
  <2>1. /\ at[s] \in {"undo", "reject"}
        /\ \/ Moves(s, "cleanup", Unlocked(s), copy[s])
           \/ Moves(s, "ended", Unlocked(s), copy[s])
    BY <1>22, RecoverMoves, RecoverWrites DEF Recover!CatchUndo
  <2> QED BY <2>1, <1>0, Held, SponsoredStep, StoreForms, UnlockStep
         DEF Special, Before, Undoing, Unrecorded, Exists
<1>23. ASSUME NEW s \in Submits, Recover!CatchQuote(s) PROVE EnginesInv'
  <2>1. /\ at[s] = "catch_quote"
        /\ \/ Moves(s, "catch_record", QuoteSaved(copy[s]), copy[s])
           \/ Moves(s, "catch_record", db, copy[s])
    BY <1>23, RecoverMoves, RecoverWrites DEF Recover!CatchQuote
  <2> QED BY <2>1, <1>0, Held, SponsoredStep, StoreForms
         DEF Special, Before, Undoing, Unrecorded, Exists
<1>24. ASSUME NEW s \in Submits, Recover!CatchGiveBack(s) PROVE EnginesInv'
  <2>1. /\ at[s] = "giveback"
        /\ \/ Moves(s, "catch_quote", GivenBack, copy[s])
           \/ Moves(s, "catch_quote", db, copy[s])
    BY <1>24, RecoverMoves, RecoverWrites DEF Recover!CatchGiveBack
  <2> QED BY <2>1, <1>0, Held, SponsoredStep, StoreForms
         DEF Special, Before, Undoing, Unrecorded, Exists
<1>25. ASSUME NEW s \in Submits, Recover!CatchRecord(s) PROVE EnginesInv'
  <2>1. /\ at[s] = "catch_record"
        /\ \/ Moves(s, "ended", RecordSet("failed"), copy[s])
           \/ Moves(s, "ended", db, copy[s])
    BY <1>25, RecoverMoves, RecoverWrites DEF Recover!CatchRecord
  <2> QED BY <2>1, <1>0, Held, SponsoredStep, StoreForms
         DEF Special, Before, Undoing, Unrecorded, Exists
<1>26. ASSUME NEW s \in Submits, Recover!SubmitObserve(s) PROVE EnginesInv'
  <2>1. /\ at[s] = "observe"
        /\ \/ Moves(s, "confirm", db, copy[s])
           \/ Moves(s, "expire", db, copy[s])
           \/ Moves(s, "close", db, Marked(copy[s], "submitted"))
    BY <1>26, RecoverMoves, RecoverWrites DEF Recover!SubmitObserve, Recover!Finish
  <2>2. Plain(Marked(copy[s], "submitted"))
    BY <1>0, Held, CopyForms DEF Plain
  <2> QED BY <2>1, <2>2, <1>0, Held, SponsoredStep, StoreForms
         DEF Plain, Special, Before, Undoing, Unrecorded, Exists
<1>27. ASSUME NEW s \in Submits, Recover!SubmitConfirm(s) PROVE EnginesInv'
  <2>1. /\ at[s] = "confirm"
        /\ \/ Moves(s, "close", db, Marked(copy[s], "submitted"))
           \/ Moves(s, "close", db, Marked(copy[s], "failed"))
           \/ chain.landed = "ok" /\ Moves(s, "account", RecordSet("reconciled"), copy[s])
           \/ Moves(s, "close", RecordSet("failed"), Marked(copy[s], "failed"))
    BY <1>27, RecoverMoves, RecoverWrites DEF Recover!SubmitConfirm, Recover!Finish,
      Recover!Mismatches
  <2>2. /\ Plain(Marked(copy[s], "failed"))
        /\ Plain(Marked(copy[s], "submitted"))
    BY <1>0, Held, CopyForms DEF Plain
  <2> QED BY <2>1, <2>2, <1>0, Held, SponsoredStep, StoreForms
         DEF Plain, Special, Before, Undoing, Unrecorded, Exists
<1>28. ASSUME NEW s \in Submits, Recover!SubmitAccount(s) PROVE EnginesInv'
  <2>1. at[s] = "account" /\ Moves(s, "close", Booked, Marked(copy[s], "reconciled"))
    BY <1>28, RecoverMoves, RecoverWrites DEF Recover!SubmitAccount, Recover!Finish
  <2> QED BY <2>1, <1>0, Held, SponsoredStep, StoreForms, CopyForms
         DEF Special, Before, Undoing, Unrecorded, Exists
<1>29. ASSUME NEW s \in Submits, Recover!SubmitExpire(s) PROVE EnginesInv'
  <2>1. /\ at[s] = "expire"
        /\ \/ Moves(s, "end_release", db, copy[s])
           \/ Moves(s, "close", db, Marked(copy[s], "failed"))
    BY <1>29, RecoverMoves, RecoverWrites DEF Recover!SubmitExpire, Recover!Finish
  <2>2. Plain(Marked(copy[s], "failed"))
    BY <1>0, Held, CopyForms DEF Plain
  <2> QED BY <2>1, <2>2, <1>0, Held, SponsoredStep, StoreForms
         DEF Plain, Special, Before, Undoing, Unrecorded, Exists
<1>30. ASSUME NEW s \in Submits, Recover!SubmitClose(s) PROVE EnginesInv'
  <2>1. /\ at[s] = "close"
        /\ \/ Moves(s, "thank", QuoteSaved(copy[s]), copy[s])
           \/ Moves(s, "ended", QuoteSaved(copy[s]), copy[s])
    BY <1>30, RecoverMoves, RecoverWrites DEF Recover!SubmitClose
  <2> QED BY <2>1, <1>0, Held, SponsoredStep, StoreForms
         DEF Special, Before, Undoing, Unrecorded, Exists
<1>31. ASSUME NEW s \in Submits, Recover!SubmitThank(s) PROVE EnginesInv'
  <2>1. at[s] = "thank" /\ Moves(s, "done", GivenBack, copy[s])
    BY <1>31, RecoverMoves, RecoverWrites DEF Recover!SubmitThank
  <2> QED BY <2>1, <1>0, Held, SponsoredStep, StoreForms
         DEF Special, Before, Undoing, Unrecorded, Exists
<1>32. ASSUME NEW h \in Submits \cup Polls, Recover!EndRecord(h) PROVE EnginesInv'
  <2>1. /\ at[h] = "end_record"
        /\ \/ h \in Submits /\ Moves(h, "close", RecordSet("failed"), Marked(copy[h], "failed"))
           \/ h \notin Submits /\ Moves(h, "idle", RecordSet("failed"), copy[h])
    BY <1>32, RecoverMoves, RecoverWrites DEF Recover!EndRecord, Recover!Finish
  <2>2. Plain(Marked(copy[h], "failed"))
    BY <1>0, Held, CopyForms DEF Plain
  <2> QED BY <2>1, <2>2, <1>0, Held, SponsoredStep, StoreForms
         DEF Plain, Special, Before, Undoing, Unrecorded, Exists
<1>33. ASSUME NEW q \in Polls, Recover!PollLoad(q) PROVE EnginesInv'
  <2>1. /\ at[q] = "idle" /\ db.record.status # "none"
        /\ \/ Moves(q, "observe", db, copy[q])
           \/ Moves(q, "heights", db, copy[q])
    BY <1>33, RecoverMoves, RecoverWrites DEF Recover!PollLoad
  <2> QED BY <2>1, <1>0, Held, SponsoredStep, StoreForms
         DEF Special, Before, Undoing, Unrecorded, Exists
<1>34. ASSUME NEW q \in Polls, Recover!PollHeights(q) PROVE EnginesInv'
  <2>1. /\ at[q] = "heights"
        /\ \/ Moves(q, "end_release", db, copy[q])
           \/ Moves(q, "idle", db, copy[q])
    BY <1>34, RecoverMoves, RecoverWrites DEF Recover!PollHeights
  <2> QED BY <2>1, <1>0, Held, SponsoredStep, StoreForms
         DEF Special, Before, Undoing, Unrecorded, Exists
<1>35. ASSUME NEW q \in Polls, Recover!PollPending(q) PROVE EnginesInv'
  <2>1. at[q] \in {"observe", "confirm"} /\ Moves(q, "idle", db, copy[q])
    BY <1>35, RecoverMoves, RecoverWrites DEF Recover!PollPending
  <2> QED BY <2>1, <1>0, Held, SponsoredStep, StoreForms
         DEF Special, Before, Undoing, Unrecorded, Exists
<1>36. ASSUME NEW q \in Polls, Recover!PollDecided(q) PROVE EnginesInv'
  <2>1. /\ at[q] \in {"observe", "confirm"}
        /\ \/ Moves(q, "confirm", db, copy[q])
           \/ Moves(q, "end_release", db, copy[q])
           \/ chain.landed = "ok" /\ Moves(q, "poll_account", db, copy[q])
    BY <1>36, RecoverMoves, RecoverWrites DEF Recover!PollDecided
  <2> QED BY <2>1, <1>0, Held, SponsoredStep, StoreForms
         DEF Special, Before, Undoing, Unrecorded, Exists
<1>37. ASSUME NEW q \in Polls, Recover!PollAccount(q) PROVE EnginesInv'
  <2>1. at[q] = "poll_account" /\ Moves(q, "poll_release", Booked, copy[q])
    BY <1>37, RecoverMoves, RecoverWrites DEF Recover!PollAccount
  <2> QED BY <2>1, <1>0, Held, SponsoredStep, StoreForms
         DEF Special, Before, Undoing, Unrecorded, Exists
<1>38. ASSUME NEW q \in Polls, Recover!PollRelease(q) PROVE EnginesInv'
  <2>1. at[q] = "poll_release" /\ Moves(q, "poll_record", GivenBack, copy[q])
    BY <1>38, RecoverMoves, RecoverWrites DEF Recover!PollRelease
  <2> QED BY <2>1, <1>0, Held, SponsoredStep, StoreForms
         DEF Special, Before, Undoing, Unrecorded, Exists
<1>39. ASSUME NEW q \in Polls, Recover!PollRecord(q) PROVE EnginesInv'
  <2>1. at[q] = "poll_record" /\ Moves(q, "idle", RecordSet("reconciled"), copy[q])
    BY <1>39, RecoverMoves, RecoverWrites DEF Recover!PollRecord
  <2> QED BY <2>1, <1>0, Held, SponsoredStep, StoreForms
         DEF Special, Before, Undoing, Unrecorded, Exists
<1>40. ASSUME NEW h \in Submits \cup Polls, Recover!EndRelease(h) PROVE EnginesInv'
  <2>1. at[h] = "end_release" /\ Moves(h, "end_record", GivenBack, copy[h])
    BY <1>40, RecoverMoves, RecoverWrites DEF Recover!EndRelease
  <2> QED BY <2>1, <1>0, Held, SponsoredStep, StoreForms
         DEF Special, Before, Undoing, Unrecorded, Exists
<1>41. ASSUME Recover!Surroundings PROVE EnginesInv'
  BY <1>41, RecoverMoves, SurroundingsStep
<1>42. ASSUME NEW p \in Prepares, Recover!Prepare(p) PROVE EnginesInv'
  BY <1>42, <1>1, <1>2, <1>3, <1>4, <1>5, <1>6 DEF Recover!Prepare
<1>43. ASSUME NEW h \in Prepares \cup Aborts \cup Submits, Recover!Abort(h) PROVE EnginesInv'
  BY <1>43, <1>7, <1>8, <1>9, <1>10, <1>11 DEF Recover!Abort
<1>44. ASSUME NEW s \in Submits, Recover!Submit(s) PROVE EnginesInv'
  BY <1>44, <1>12, <1>13, <1>14, <1>15, <1>16, <1>17, <1>18, <1>19, <1>20, <1>21
    DEF Recover!Submit
<1>45. ASSUME NEW s \in Submits, Recover!Catch(s) PROVE EnginesInv'
  BY <1>45, <1>22, <1>24, <1>23, <1>25 DEF Recover!Catch
<1>46. ASSUME NEW s \in Submits, Recover!Settle(s) PROVE EnginesInv'
  BY <1>46, <1>26, <1>27, <1>28, <1>29, <1>30, <1>31 DEF Recover!Settle
<1>47. ASSUME NEW q \in Polls, Recover!Poll(q) PROVE EnginesInv'
  BY <1>47, <1>33, <1>34, <1>35, <1>36, <1>37, <1>38, <1>39, <1>40, <1>32 DEF Recover!Poll
<1> QED
  BY <1>32, <1>40, <1>41, <1>42, <1>43, <1>44, <1>45, <1>46, <1>47 DEF Recover!Next

-----------------------------------------------------------------------------
(* Swap: what its steps are in terms of the lemmas above.                   *)
LEMMA SwapMoves ==
  ASSUME EnginesInv, engine' = engine
  PROVE  /\ \A h, place, d, q :
              /\ Swap!Do(h, place, d, q) => Moves(h, place, d, q)
              /\ Swap!Go(h, place) => Moves(h, place, db, copy[h])
              /\ Swap!Write(h, place, d) => Moves(h, place, d, copy[h])
              /\ Swap!Take(h, place, q) => Moves(h, place, db, q)
              /\ Swap!Throw(h, place, q) => Moves(h, place, db, q)
              /\ Swap!Try(h, place, d) =>
                   Moves(h, place, d, copy[h]) \/ Moves(h, place, db, copy[h])
         /\ \A s, place, q :
              /\ Swap!KoraSigns(s, place) => AsksKora(s, place, copy[s])
              /\ Swap!KoraFails(s, place, q) => AsksKora(s, place, q)
              /\ at[s] = "broadcast" /\ Swap!Sent(s, place) => Sends(s, place, copy[s])
         /\ \A h : Swap!MayStart(h) => at[h] = "idle"
         /\ Swap!Matches <=> chain.landed = "ok"
         /\ Swap!Surroundings => Surroundings
<1> USE DEF Swap!Do, Swap!Go, Swap!Write, Swap!Take, Swap!Throw, Swap!Try, Moves
<1>1. ASSUME NEW h, NEW place, NEW d, NEW q
      PROVE  /\ Swap!Do(h, place, d, q) => Moves(h, place, d, q)
             /\ Swap!Go(h, place) => Moves(h, place, db, copy[h])
             /\ Swap!Write(h, place, d) => Moves(h, place, d, copy[h])
             /\ Swap!Take(h, place, q) => Moves(h, place, db, q)
             /\ Swap!Throw(h, place, q) => Moves(h, place, db, q)
             /\ Swap!Try(h, place, d) =>
                  Moves(h, place, d, copy[h]) \/ Moves(h, place, db, copy[h])
  OBVIOUS
<1>2. ASSUME NEW s, NEW place, NEW q
      PROVE  /\ Swap!KoraSigns(s, place) => AsksKora(s, place, copy[s])
             /\ Swap!KoraFails(s, place, q) => AsksKora(s, place, q)
  BY DEF Swap!KoraSigns, Swap!KoraFails, Swap!Chain, AsksKora, Outside
<1>3. ASSUME NEW s, NEW place, NEW q
      PROVE  at[s] = "broadcast" /\ Swap!Sent(s, place) => Sends(s, place, copy[s])
  BY DEF Swap!Sent, Swap!Chain, Sends, Outside, EnginesInv, Shape
<1>4. (\A h : Swap!MayStart(h) => at[h] = "idle") /\ (Swap!Matches <=> chain.landed = "ok")
  BY DEF Swap!MayStart, Swap!Matches
<1>5. Swap!Surroundings => Surroundings
  BY DEF Swap!Surroundings, Surroundings, Swap!Stop, Stop, Swap!Handler, Handler, Swap!AtRest,
    AtRest, Swap!Rest, Rest,
         Throw, Swap!NextBlock, NextBlock, Swap!Land, Land, Swap!Forget, Forget,
         Swap!QuoteSaved, QuoteSaved, Swap!Gone, Gone, Swap!New, New
<1> QED BY <1>1, <1>2, <1>3, <1>4, <1>5

LEMMA SwapWrites ==
  /\ Swap!GivenBack = GivenBack /\ Swap!Reserved = Reserved
  /\ Swap!RecordCreated = RecordCreated /\ Swap!RecordSigned = RecordSigned
  /\ Swap!Booked = Booked /\ Swap!Gone = Gone /\ (Swap!Prepared <=> Prepared)
  /\ \A s : /\ Swap!RecordSet(s) = RecordSet(s)
            /\ Swap!LockedBy(s) = LockedBy(s) /\ Swap!Unlocked(s) = Unlocked(s)
  /\ \A q : /\ Swap!QuoteSaved(q) = QuoteSaved(q)
            /\ Swap!Signed(q) = Signed(q) /\ Swap!Windowed(q) = Windowed(q)
  /\ \A q, s : Swap!Marked(q, s) = Marked(q, s) /\ Swap!Part(q, s) = Part(q, s)
BY DEF Swap!GivenBack, GivenBack, Swap!Reserved, Reserved, Swap!RecordCreated, RecordCreated,
       Swap!RecordSigned, RecordSigned, Swap!Booked, Booked, Swap!Gone, Gone, Swap!New, New,
       Swap!Prepared, Prepared, Swap!RecordSet, RecordSet, Swap!LockedBy, LockedBy,
       Swap!Unlocked, Unlocked, Swap!QuoteSaved, QuoteSaved, Swap!Signed, Signed,
       Swap!Windowed, Windowed, Swap!Marked, Marked, Swap!Part, Part

LEMMA SwapStep ==
  ASSUME EnginesInv, engine = "swap", engine' = engine, Swap!Next
  PROVE  EnginesInv'
<1>0. /\ engine # "proof"
      /\ \A h \in Prepares \cup Aborts \cup Submits \cup Polls : h \in Handler
      /\ \A h \in Prepares \cup Aborts \cup Polls : h \notin Submits
  BY ConstantsAssumption DEF Handler
<1>1. ASSUME NEW p \in Prepares, Swap!PrepareLoad(p) PROVE EnginesInv'
  <2>1. /\ at[p] = "idle"
        /\ \/ Prepared /\ Moves(p, "reserve", db, db.quote)
           \/ Moves(p, "create", db, db.quote)
    BY <1>1, SwapMoves, SwapWrites DEF Swap!PrepareLoad
  <2> QED BY <2>1, <1>0, Held, SponsoredStep, StoreForms
         DEF Special, Before, Undoing, Unrecorded, Exists
<1>2. ASSUME NEW p \in Prepares, Swap!PrepareCreate(p) PROVE EnginesInv'
  <2>1. /\ at[p] = "create"
        /\ \/ db.record.status = "none" /\ Moves(p, "persist", RecordCreated, Marked(copy[p],
                "awaiting"))
           \/ Moves(p, "ended", db, copy[p])
    BY <1>2, SwapMoves, SwapWrites DEF Swap!PrepareCreate
  <2>2. Plain(Marked(copy[p], "awaiting"))
    BY <1>0, Held, CopyForms DEF Plain
  <2> QED BY <2>1, <2>2, <1>0, Held, SponsoredStep, StoreForms
         DEF Plain, Special, Before, Undoing, Unrecorded, Exists
<1>3. ASSUME NEW p \in Prepares, Swap!PreparePersist(p) PROVE EnginesInv'
  <2>1. at[p] = "persist" /\ Moves(p, "reserve", QuoteSaved(copy[p]), copy[p])
    BY <1>3, SwapMoves, SwapWrites DEF Swap!PreparePersist
  <2> QED BY <2>1, <1>0, Held, SponsoredStep, StoreForms
         DEF Special, Before, Undoing, Unrecorded, Exists
<1>4. ASSUME NEW p \in Prepares, Swap!PrepareReserve(p) PROVE EnginesInv'
  <2>1. /\ at[p] = "reserve"
        /\ \/ Moves(p, "done", Reserved, copy[p])
           \/ Moves(p, "ended", db, copy[p])
    BY <1>4, SwapMoves, SwapWrites DEF Swap!PrepareReserve
  <2> QED BY <2>1, <1>0, Held, SponsoredStep, StoreForms
         DEF Special, Before, Undoing, Unrecorded, Exists
<1>5. ASSUME NEW s \in Submits, Swap!SubmitLoad(s) PROVE EnginesInv'
  <2>1. /\ at[s] = "idle"
        /\ \/ Prepared /\ Moves(s, "thank", db, db.quote)
           \/ Prepared /\ Moves(s, "observe", db, db.quote)
           \/ Prepared /\ Moves(s, "lock", db, db.quote)
    BY <1>5, SwapMoves, SwapWrites DEF Swap!SubmitLoad
  <2> QED BY <2>1, <1>0, Held, SponsoredStep, StoreForms
         DEF Special, Before, Undoing, Unrecorded, Exists
<1>6. ASSUME NEW s \in Submits, Swap!SubmitLock(s) PROVE EnginesInv'
  <2>1. /\ at[s] = "lock"
        /\ \/ db.lock = None /\ Moves(s, "cross", LockedBy(s), copy[s])
           \/ Moves(s, "undo", db, Marked(copy[s], "awaiting"))
    BY <1>6, SwapMoves, SwapWrites DEF Swap!SubmitLock, Swap!Early, Swap!Crossed
  <2>2. Plain(Marked(copy[s], "awaiting"))
    BY <1>0, Held, CopyForms DEF Plain
  <2> QED BY <2>1, <2>2, <1>0, Held, SponsoredStep, StoreForms, LockStep
         DEF Plain, Special, Before, Undoing, Unrecorded, Exists
<1>7. ASSUME NEW s \in Submits, Swap!SubmitCross(s) PROVE EnginesInv'
  <2>1. /\ at[s] = "cross"
        /\ \/ Moves(s, "undo", db, Marked(copy[s], "awaiting"))
           \/ Moves(s, "relay", QuoteSaved(Marked(copy[s], "relaying")), Marked(copy[s],
                "relaying"))
           \/ Moves(s, "catch_quote", db, Marked(copy[s], "failed"))
    BY <1>7, SwapMoves, SwapWrites DEF Swap!SubmitCross, Swap!Early, Swap!Crossed
  <2>2. /\ Plain(Marked(copy[s], "failed"))
        /\ Plain(Marked(copy[s], "awaiting"))
        /\ Plain(Marked(copy[s], "relaying"))
    BY <1>0, Held, CopyForms DEF Plain
  <2> QED BY <2>1, <2>2, <1>0, Held, SponsoredStep, StoreForms
         DEF Plain, Special, Before, Undoing, Unrecorded, Exists
<1>8. ASSUME NEW s \in Submits, Swap!SubmitRelay(s) PROVE EnginesInv'
  <2>1. /\ at[s] = "relay"
        /\ \/ Moves(s, "kora", RecordSet("relaying"), copy[s])
           \/ Moves(s, "catch_quote", db, Marked(copy[s], "failed"))
    BY <1>8, SwapMoves, SwapWrites DEF Swap!SubmitRelay, Swap!Early, Swap!Crossed
  <2>2. Plain(Marked(copy[s], "failed"))
    BY <1>0, Held, CopyForms DEF Plain
  <2> QED BY <2>1, <2>2, <1>0, Held, SponsoredStep, StoreForms
         DEF Plain, Special, Before, Undoing, Unrecorded, Exists
<1>9. ASSUME NEW s \in Submits, Swap!SubmitKora(s) PROVE EnginesInv'
  <2>1. \/ AsksKora(s, "final", copy[s])
        \/ AsksKora(s, "catch_quote", Marked(copy[s], "failed"))
        \/ at[s] = "kora" /\ Moves(s, "giveback", db, Marked(copy[s], "failed"))
    BY <1>9, SwapMoves, SwapWrites DEF Swap!SubmitKora, Swap!Early, Swap!Crossed
  <2>2. Plain(Marked(copy[s], "failed"))
    BY <1>0, Held, CopyForms DEF Plain
  <2> QED BY <2>1, <2>2, <1>0, Held, SponsoredStep, StoreForms, KoraStep
         DEF Plain, Special, Before, Undoing, Unrecorded, Exists
<1>10. ASSUME NEW s \in Submits, Swap!SubmitFinal(s) PROVE EnginesInv'
  <2>1. /\ at[s] = "final"
        /\ \/ Moves(s, "record", db, copy[s])
           \/ Moves(s, "catch_quote", db, Marked(copy[s], "failed"))
    BY <1>10, SwapMoves, SwapWrites DEF Swap!SubmitFinal, Swap!Early, Swap!Crossed
  <2>2. Plain(Marked(copy[s], "failed"))
    BY <1>0, Held, CopyForms DEF Plain
  <2> QED BY <2>1, <2>2, <1>0, Held, SponsoredStep, StoreForms
         DEF Plain, Special, Before, Undoing, Unrecorded, Exists
<1>11. ASSUME NEW s \in Submits, Swap!SubmitRecord(s) PROVE EnginesInv'
  <2>1. at[s] = "record" /\ Moves(s, "save", RecordSigned, Signed(copy[s]))
    BY <1>11, SwapMoves, SwapWrites DEF Swap!SubmitRecord
  <2>2. Plain(Signed(copy[s]))
    BY <1>0, Held, CopyForms DEF Plain
  <2> QED BY <2>1, <2>2, <1>0, Held, SponsoredStep, StoreForms
         DEF Plain, Special, Before, Undoing, Unrecorded, Exists
<1>12. ASSUME NEW s \in Submits, Swap!SubmitSave(s) PROVE EnginesInv'
  <2>1. at[s] = "save" /\ Moves(s, "broadcast", QuoteSaved(copy[s]), copy[s])
    BY <1>12, SwapMoves, SwapWrites DEF Swap!SubmitSave
  <2> QED BY <2>1, <1>0, Held, SponsoredStep, StoreForms
         DEF Special, Before, Undoing, Unrecorded, Exists
<1>13. ASSUME NEW s \in Submits, Swap!SubmitBroadcast(s) PROVE EnginesInv'
  <2>1. Sends(s, "observe", copy[s])
    BY <1>13, SwapMoves, SwapWrites DEF Swap!SubmitBroadcast
  <2> QED BY <2>1, <1>0, Held, SponsoredStep, StoreForms, WireStep
         DEF Special, Before, Undoing, Unrecorded, Exists
<1>14. ASSUME NEW s \in Submits, Swap!CatchUndo(s) PROVE EnginesInv'
  <2>1. at[s] = "undo" /\ Moves(s, "catch_quote", Unlocked(s), copy[s])
    BY <1>14, SwapMoves, SwapWrites DEF Swap!CatchUndo
  <2> QED BY <2>1, <1>0, Held, SponsoredStep, StoreForms, UnlockStep
         DEF Special, Before, Undoing, Unrecorded, Exists
<1>15. ASSUME NEW s \in Submits, Swap!CatchQuote(s) PROVE EnginesInv'
  <2>1. /\ at[s] = "catch_quote"
        /\ \/ Moves(s, "catch_record", QuoteSaved(copy[s]), copy[s])
           \/ Moves(s, "catch_record", db, copy[s])
    BY <1>15, SwapMoves, SwapWrites DEF Swap!CatchQuote
  <2> QED BY <2>1, <1>0, Held, SponsoredStep, StoreForms
         DEF Special, Before, Undoing, Unrecorded, Exists
<1>16. ASSUME NEW s \in Submits, Swap!CatchGiveBack(s) PROVE EnginesInv'
  <2>1. /\ at[s] = "giveback"
        /\ \/ Moves(s, "catch_quote", GivenBack, copy[s])
           \/ Moves(s, "catch_quote", db, copy[s])
    BY <1>16, SwapMoves, SwapWrites DEF Swap!CatchGiveBack
  <2> QED BY <2>1, <1>0, Held, SponsoredStep, StoreForms
         DEF Special, Before, Undoing, Unrecorded, Exists
<1>17. ASSUME NEW s \in Submits, Swap!CatchRecord(s) PROVE EnginesInv'
  <2>1. /\ at[s] = "catch_record"
        /\ \/ Moves(s, "ended", RecordSet(copy[s].part), copy[s])
           \/ Moves(s, "ended", db, copy[s])
    BY <1>17, SwapMoves, SwapWrites DEF Swap!CatchRecord
  <2> QED BY <2>1, <1>0, Held, SponsoredStep, StoreForms
         DEF Special, Before, Undoing, Unrecorded, Exists
<1>18. ASSUME NEW s \in Submits, Swap!Pending(s) PROVE EnginesInv'
  <2>1. at[s] \in {"observe", "confirm"} /\ Moves(s, "close", db, Marked(copy[s], "submitted"))
    BY <1>18, SwapMoves, SwapWrites DEF Swap!Pending
  <2>2. Plain(Marked(copy[s], "submitted"))
    BY <1>0, Held, CopyForms DEF Plain
  <2> QED BY <2>1, <2>2, <1>0, Held, SponsoredStep, StoreForms
         DEF Plain, Special, Before, Undoing, Unrecorded, Exists
<1>19. ASSUME NEW s \in Submits, Swap!Decided(s) PROVE EnginesInv'
  <2>1. /\ at[s] \in {"observe", "confirm"}
        /\ \/ Moves(s, "confirm", db, copy[s])
           \/ Moves(s, "end_release", RecordSet("failed"), Marked(copy[s], "failed"))
           \/ Moves(s, "close", db, Marked(copy[s], "failed"))
           \/ chain.landed = "ok" /\ Moves(s, "account", RecordSet("reconciled"), copy[s])
    BY <1>19, SwapMoves, SwapWrites DEF Swap!Decided
  <2>2. Plain(Marked(copy[s], "failed"))
    BY <1>0, Held, CopyForms DEF Plain
  <2> QED BY <2>1, <2>2, <1>0, Held, SponsoredStep, StoreForms
         DEF Plain, Special, Before, Undoing, Unrecorded, Exists
<1>20. ASSUME NEW s \in Submits, Swap!EndRelease(s) PROVE EnginesInv'
  <2>1. /\ at[s] = "end_release"
        /\ \/ Moves(s, "close", GivenBack, copy[s])
           \/ Moves(s, "close", db, copy[s])
    BY <1>20, SwapMoves, SwapWrites DEF Swap!EndRelease
  <2> QED BY <2>1, <1>0, Held, SponsoredStep, StoreForms
         DEF Special, Before, Undoing, Unrecorded, Exists
<1>21. ASSUME NEW s \in Submits, Swap!Account(s) PROVE EnginesInv'
  <2>1. at[s] = "account" /\ Moves(s, "thank", Booked, Marked(copy[s], "reconciled"))
    BY <1>21, SwapMoves, SwapWrites DEF Swap!Account
  <2> QED BY <2>1, <1>0, Held, SponsoredStep, StoreForms, CopyForms
         DEF Special, Before, Undoing, Unrecorded, Exists
<1>22. ASSUME NEW s \in Submits, Swap!Thank(s) PROVE EnginesInv'
  <2>1. /\ at[s] = "thank"
        /\ \/ Moves(s, "done", GivenBack, copy[s])
           \/ Moves(s, "done", db, copy[s])
           \/ Moves(s, "close", GivenBack, copy[s])
           \/ Moves(s, "close", db, copy[s])
    BY <1>22, SwapMoves, SwapWrites DEF Swap!Thank
  <2> QED BY <2>1, <1>0, Held, SponsoredStep, StoreForms
         DEF Special, Before, Undoing, Unrecorded, Exists
<1>23. ASSUME NEW s \in Submits, Swap!Close(s) PROVE EnginesInv'
  <2>1. /\ at[s] = "close"
        /\ \/ Moves(s, "done", QuoteSaved(copy[s]), copy[s])
           \/ Moves(s, "ended", QuoteSaved(copy[s]), copy[s])
    BY <1>23, SwapMoves, SwapWrites DEF Swap!Close
  <2> QED BY <2>1, <1>0, Held, SponsoredStep, StoreForms
         DEF Special, Before, Undoing, Unrecorded, Exists
<1>24. ASSUME Swap!Surroundings PROVE EnginesInv'
  BY <1>24, SwapMoves, SurroundingsStep
<1>25. ASSUME NEW p \in Prepares, Swap!Prepare(p) PROVE EnginesInv'
  BY <1>25, <1>1, <1>2, <1>3, <1>4 DEF Swap!Prepare
<1>26. ASSUME NEW s \in Submits, Swap!Submit(s) PROVE EnginesInv'
  BY <1>26, <1>5, <1>6, <1>7, <1>8, <1>9, <1>10, <1>11, <1>12, <1>13 DEF Swap!Submit
<1>27. ASSUME NEW s \in Submits, Swap!Catch(s) PROVE EnginesInv'
  BY <1>27, <1>14, <1>16, <1>15, <1>17 DEF Swap!Catch
<1>28. ASSUME NEW s \in Submits, Swap!Settle(s) PROVE EnginesInv'
  BY <1>28, <1>18, <1>19, <1>20, <1>21, <1>22, <1>23 DEF Swap!Settle
<1> QED
  BY <1>24, <1>25, <1>26, <1>27, <1>28 DEF Swap!Next

-----------------------------------------------------------------------------
(* The Devnet proof, which enters its success in the books last of all.    *)
LEMMA UnreservedStep ==
  ASSUME EnginesInv, engine = "proof", NEW h \in Handler, NEW place, NEW d, NEW q,
         Moves(h, place, d, q), Fine(d), q \in AnyQuote,
         q.part = "reconciled" /\ place \notin {"ended", "account"} => d.accounted,
         \/ place \notin Special \/ place \in {"save", "broadcast"}
         \/ at[h] \in Before \cup {"lock"} /\ place \in Undoing
         \/ at[h] \in Before /\ place \in Before
         \/ at[h] = "idle" /\ place = "lock"
         \/ place = "account" /\ h \in Submits /\ (q.part = "reconciled" => chain.landed = "ok")
  PROVE  EnginesInv'
<1>1. Leads(h, place, d, q)
  BY DEF Leads, Special, Before, Undoing
<1> QED BY <1>1, StoreStep

LEMMA UnreservedHeld ==
  ASSUME EnginesInv, engine = "proof"
  PROVE  /\ db.quote \in AnyQuote /\ (db.quote.part = "reconciled" => db.accounted)
         /\ \A h \in Handler :
              /\ copy[h] \in AnyQuote
              /\ at[h] \notin {"ended", "account"} /\ copy[h].part = "reconciled" => db.accounted
              /\ at[h] = "account" /\ copy[h].part = "reconciled" => chain.landed = "ok"
         /\ {"failed", "awaiting", "submitted", "relaying", "validated",
              "reconciled"} \subseteq AnyStatus
BY DEF EnginesInv, Shape, BooksInv, Booking, AnyStores, AnyStatus, Status

-----------------------------------------------------------------------------
(* Proof: what its steps are in terms of the lemmas above.                   *)
LEMMA ProofMoves ==
  ASSUME EnginesInv, engine' = engine
  PROVE  /\ \A h, place, d, q :
              /\ Proof!Do(h, place, d, q) => Moves(h, place, d, q)
              /\ Proof!Go(h, place) => Moves(h, place, db, copy[h])
              /\ Proof!Write(h, place, d) => Moves(h, place, d, copy[h])
              /\ Proof!Take(h, place, q) => Moves(h, place, db, q)
              /\ Proof!Throw(h, place, q) => Moves(h, place, db, q)
              /\ Proof!Try(h, place, d) =>
                   Moves(h, place, d, copy[h]) \/ Moves(h, place, db, copy[h])
         /\ \A s, place, q :
              /\ Proof!KoraSigns(s, place) => AsksKora(s, place, copy[s])
              /\ Proof!KoraFails(s, place, q) => AsksKora(s, place, q)
              /\ at[s] = "broadcast" /\ Proof!Sent(s, place) => Sends(s, place, copy[s])
         /\ \A h : Proof!MayStart(h) => at[h] = "idle"
         /\ Proof!Matches <=> chain.landed = "ok"
         /\ Proof!Surroundings => Surroundings
<1> USE DEF Proof!Do, Proof!Go, Proof!Write, Proof!Take, Proof!Throw, Proof!Try, Moves
<1>1. ASSUME NEW h, NEW place, NEW d, NEW q
      PROVE  /\ Proof!Do(h, place, d, q) => Moves(h, place, d, q)
             /\ Proof!Go(h, place) => Moves(h, place, db, copy[h])
             /\ Proof!Write(h, place, d) => Moves(h, place, d, copy[h])
             /\ Proof!Take(h, place, q) => Moves(h, place, db, q)
             /\ Proof!Throw(h, place, q) => Moves(h, place, db, q)
             /\ Proof!Try(h, place, d) =>
                  Moves(h, place, d, copy[h]) \/ Moves(h, place, db, copy[h])
  OBVIOUS
<1>2. ASSUME NEW s, NEW place, NEW q
      PROVE  /\ Proof!KoraSigns(s, place) => AsksKora(s, place, copy[s])
             /\ Proof!KoraFails(s, place, q) => AsksKora(s, place, q)
  BY DEF Proof!KoraSigns, Proof!KoraFails, Proof!Chain, AsksKora, Outside
<1>3. ASSUME NEW s, NEW place, NEW q
      PROVE  at[s] = "broadcast" /\ Proof!Sent(s, place) => Sends(s, place, copy[s])
  BY DEF Proof!Sent, Proof!Chain, Sends, Outside, EnginesInv, Shape
<1>4. (\A h : Proof!MayStart(h) => at[h] = "idle") /\ (Proof!Matches <=> chain.landed = "ok")
  BY DEF Proof!MayStart, Proof!Matches
<1>5. Proof!Surroundings => Surroundings
  BY DEF Proof!Surroundings, Surroundings, Proof!Stop, Stop, Proof!Handler, Handler,
    Proof!AtRest, AtRest, Proof!Rest, Rest,
         Throw, Proof!NextBlock, NextBlock, Proof!Land, Land, Proof!Forget, Forget,
         Proof!QuoteSaved, QuoteSaved, Proof!Gone, Gone, Proof!New, New
<1> QED BY <1>1, <1>2, <1>3, <1>4, <1>5

LEMMA ProofWrites ==
  /\ Proof!GivenBack = GivenBack /\ Proof!Reserved = Reserved
  /\ Proof!RecordCreated = RecordCreated /\ Proof!RecordSigned = RecordSigned
  /\ Proof!Booked = Booked /\ Proof!Gone = Gone /\ (Proof!Prepared <=> Prepared)
  /\ \A s : /\ Proof!RecordSet(s) = RecordSet(s)
            /\ Proof!LockedBy(s) = LockedBy(s) /\ Proof!Unlocked(s) = Unlocked(s)
  /\ \A q : /\ Proof!QuoteSaved(q) = QuoteSaved(q)
            /\ Proof!Signed(q) = Signed(q) /\ Proof!Windowed(q) = Windowed(q)
  /\ \A q, s : Proof!Marked(q, s) = Marked(q, s) /\ Proof!Part(q, s) = Part(q, s)
BY DEF Proof!GivenBack, GivenBack, Proof!Reserved, Reserved, Proof!RecordCreated, RecordCreated,
       Proof!RecordSigned, RecordSigned, Proof!Booked, Booked, Proof!Gone, Gone, Proof!New, New,
       Proof!Prepared, Prepared, Proof!RecordSet, RecordSet, Proof!LockedBy, LockedBy,
       Proof!Unlocked, Unlocked, Proof!QuoteSaved, QuoteSaved, Proof!Signed, Signed,
       Proof!Windowed, Windowed, Proof!Marked, Marked, Proof!Part, Part

LEMMA ProofStep ==
  ASSUME EnginesInv, engine = "proof", engine' = engine, Proof!Next
  PROVE  EnginesInv'
<1>0. /\ engine = "proof"
      /\ \A h \in Prepares \cup Aborts \cup Submits \cup Polls : h \in Handler
      /\ \A h \in Prepares \cup Aborts \cup Polls : h \notin Submits
  BY ConstantsAssumption DEF Handler
<1>1. ASSUME NEW p \in Prepares, Proof!PrepareLoad(p) PROVE EnginesInv'
  <2>1. /\ at[p] = "idle"
        /\ \/ Moves(p, "done", db, db.quote)
           \/ Moves(p, "persist", db, db.quote)
    BY <1>1, ProofMoves, ProofWrites DEF Proof!PrepareLoad
  <2> QED BY <2>1, <1>0, UnreservedHeld, UnreservedStep, StoreForms
         DEF Special, Before, Undoing, Unrecorded, Exists
<1>2. ASSUME NEW p \in Prepares, Proof!PreparePersist(p) PROVE EnginesInv'
  <2>1. /\ at[p] = "persist"
        /\ \/ Moves(p, "create", QuoteSaved(Marked(copy[p], "awaiting")), Marked(copy[p],
                "awaiting"))
           \/ Moves(p, "ended", db, copy[p])
    BY <1>2, ProofMoves, ProofWrites DEF Proof!PreparePersist
  <2>2. Plain(Marked(copy[p], "awaiting"))
    BY <1>0, UnreservedHeld, CopyForms DEF Plain
  <2> QED BY <2>1, <2>2, <1>0, UnreservedHeld, UnreservedStep, StoreForms
         DEF Plain, Special, Before, Undoing, Unrecorded, Exists
<1>3. ASSUME NEW p \in Prepares, Proof!PrepareCreate(p) PROVE EnginesInv'
  <2>1. /\ at[p] = "create"
        /\ \/ db.record.status = "none" /\ Moves(p, "done", RecordCreated, copy[p])
           \/ Moves(p, "ended", db, copy[p])
    BY <1>3, ProofMoves, ProofWrites DEF Proof!PrepareCreate
  <2> QED BY <2>1, <1>0, UnreservedHeld, UnreservedStep, StoreForms
         DEF Special, Before, Undoing, Unrecorded, Exists
<1>4. ASSUME NEW s \in Submits, Proof!SubmitLoad(s) PROVE EnginesInv'
  <2>1. at[s] = "idle" /\ Moves(s, "lock", db, db.quote)
    BY <1>4, ProofMoves, ProofWrites DEF Proof!SubmitLoad
  <2> QED BY <2>1, <1>0, UnreservedHeld, UnreservedStep, StoreForms
         DEF Special, Before, Undoing, Unrecorded, Exists
<1>5. ASSUME NEW s \in Submits, Proof!SubmitLock(s) PROVE EnginesInv'
  <2>1. /\ at[s] = "lock"
        /\ \/ db.lock = None /\ Moves(s, "check", LockedBy(s), copy[s])
           \/ Moves(s, "undo", db, copy[s])
    BY <1>5, ProofMoves, ProofWrites DEF Proof!SubmitLock
  <2> QED BY <2>1, <1>0, UnreservedHeld, UnreservedStep, StoreForms, LockStep
         DEF Special, Before, Undoing, Unrecorded, Exists
<1>6. ASSUME NEW s \in Submits, Proof!SubmitCheck(s) PROVE EnginesInv'
  <2>1. /\ at[s] = "check"
        /\ \/ Moves(s, "validated", QuoteSaved(Marked(copy[s], "validated")), Marked(copy[s],
                "validated"))
           \/ Moves(s, "undo", db, copy[s])
    BY <1>6, ProofMoves, ProofWrites DEF Proof!SubmitCheck
  <2>2. Plain(Marked(copy[s], "validated"))
    BY <1>0, UnreservedHeld, CopyForms DEF Plain
  <2> QED BY <2>1, <2>2, <1>0, UnreservedHeld, UnreservedStep, StoreForms
         DEF Plain, Special, Before, Undoing, Unrecorded, Exists
<1>7. ASSUME NEW s \in Submits, Proof!SubmitValidated(s) PROVE EnginesInv'
  <2>1. /\ at[s] = "validated"
        /\ \/ Moves(s, "cross", RecordSet("validated"), copy[s])
           \/ Moves(s, "undo", db, copy[s])
    BY <1>7, ProofMoves, ProofWrites DEF Proof!SubmitValidated
  <2> QED BY <2>1, <1>0, UnreservedHeld, UnreservedStep, StoreForms
         DEF Special, Before, Undoing, Unrecorded, Exists
<1>8. ASSUME NEW s \in Submits, Proof!SubmitCross(s) PROVE EnginesInv'
  <2>1. /\ at[s] = "cross"
        /\ \/ Moves(s, "undo", db, copy[s])
           \/ Moves(s, "relay", QuoteSaved(Marked(copy[s], "relaying")), Marked(copy[s],
                "relaying"))
           \/ Moves(s, "catch_quote", db, Marked(copy[s], "failed"))
    BY <1>8, ProofMoves, ProofWrites DEF Proof!SubmitCross
  <2>2. /\ Plain(Marked(copy[s], "failed"))
        /\ Plain(Marked(copy[s], "relaying"))
    BY <1>0, UnreservedHeld, CopyForms DEF Plain
  <2> QED BY <2>1, <2>2, <1>0, UnreservedHeld, UnreservedStep, StoreForms
         DEF Plain, Special, Before, Undoing, Unrecorded, Exists
<1>9. ASSUME NEW s \in Submits, Proof!SubmitRelay(s) PROVE EnginesInv'
  <2>1. /\ at[s] = "relay"
        /\ \/ Moves(s, "kora", RecordSet("relaying"), copy[s])
           \/ Moves(s, "catch_quote", db, Marked(copy[s], "failed"))
    BY <1>9, ProofMoves, ProofWrites DEF Proof!SubmitRelay
  <2>2. Plain(Marked(copy[s], "failed"))
    BY <1>0, UnreservedHeld, CopyForms DEF Plain
  <2> QED BY <2>1, <2>2, <1>0, UnreservedHeld, UnreservedStep, StoreForms
         DEF Plain, Special, Before, Undoing, Unrecorded, Exists
<1>10. ASSUME NEW s \in Submits, Proof!SubmitKora(s) PROVE EnginesInv'
  <2>1. \/ AsksKora(s, "final", copy[s])
        \/ AsksKora(s, "catch_quote", Marked(copy[s], "failed"))
    BY <1>10, ProofMoves, ProofWrites DEF Proof!SubmitKora
  <2>2. Plain(Marked(copy[s], "failed"))
    BY <1>0, UnreservedHeld, CopyForms DEF Plain
  <2> QED BY <2>1, <2>2, <1>0, UnreservedHeld, UnreservedStep, StoreForms, KoraStep
         DEF Plain, Special, Before, Undoing, Unrecorded, Exists
<1>11. ASSUME NEW s \in Submits, Proof!SubmitFinal(s) PROVE EnginesInv'
  <2>1. /\ at[s] = "final"
        /\ \/ Moves(s, "broadcast", db, copy[s])
           \/ Moves(s, "catch_quote", db, Marked(copy[s], "failed"))
    BY <1>11, ProofMoves, ProofWrites DEF Proof!SubmitFinal
  <2>2. Plain(Marked(copy[s], "failed"))
    BY <1>0, UnreservedHeld, CopyForms DEF Plain
  <2> QED BY <2>1, <2>2, <1>0, UnreservedHeld, UnreservedStep, StoreForms
         DEF Plain, Special, Before, Undoing, Unrecorded, Exists
<1>12. ASSUME NEW s \in Submits, Proof!SubmitBroadcast(s) PROVE EnginesInv'
  <2>1. \/ Sends(s, "record", Signed(copy[s]))
        \/ Sends(s, "catch_quote", Marked(copy[s], "failed"))
    BY <1>12, ProofMoves, ProofWrites DEF Proof!SubmitBroadcast, Proof!Chain, Sends, Outside,
      EnginesInv, Shape
  <2>2. /\ Plain(Marked(copy[s], "failed"))
        /\ Plain(Signed(copy[s]))
    BY <1>0, UnreservedHeld, CopyForms DEF Plain
  <2> QED BY <2>1, <2>2, <1>0, UnreservedHeld, UnreservedStep, StoreForms, WireStep
         DEF Plain, Special, Before, Undoing, Unrecorded, Exists
<1>13. ASSUME NEW s \in Submits, Proof!SubmitRecord(s) PROVE EnginesInv'
  <2>1. /\ at[s] = "record"
        /\ \/ Moves(s, "save", RecordSigned, copy[s])
           \/ Moves(s, "catch_quote", db, copy[s])
    BY <1>13, ProofMoves, ProofWrites DEF Proof!SubmitRecord
  <2> QED BY <2>1, <1>0, UnreservedHeld, UnreservedStep, StoreForms
         DEF Special, Before, Undoing, Unrecorded, Exists
<1>14. ASSUME NEW s \in Submits, Proof!SubmitSave(s) PROVE EnginesInv'
  <2>1. /\ at[s] = "save"
        /\ \/ Moves(s, "catch_quote", QuoteSaved(copy[s]), copy[s])
           \/ Moves(s, "observe", QuoteSaved(copy[s]), copy[s])
    BY <1>14, ProofMoves, ProofWrites DEF Proof!SubmitSave
  <2> QED BY <2>1, <1>0, UnreservedHeld, UnreservedStep, StoreForms
         DEF Special, Before, Undoing, Unrecorded, Exists
<1>15. ASSUME NEW s \in Submits, Proof!Confirm(s) PROVE EnginesInv'
  <2>1. /\ at[s] = "observe"
        /\ \/ Moves(s, "close", RecordSet("submitted"), copy[s])
           \/ Moves(s, "account", RecordSet("failed"), Marked(copy[s], "failed"))
           \/ chain.landed = "ok" /\ Moves(s, "account", RecordSet("reconciled"),
                Marked(copy[s], "reconciled"))
    BY <1>15, ProofMoves, ProofWrites DEF Proof!Confirm
  <2>2. Plain(Marked(copy[s], "failed"))
    BY <1>0, UnreservedHeld, CopyForms DEF Plain
  <2> QED BY <2>1, <2>2, <1>0, UnreservedHeld, UnreservedStep, StoreForms, CopyForms
         DEF Plain, Special, Before, Undoing, Unrecorded, Exists
<1>16. ASSUME NEW s \in Submits, Proof!Account(s) PROVE EnginesInv'
  <2>1. /\ at[s] = "account"
        /\ \/ copy[s].part = "reconciled" /\ Moves(s, "close", Booked, copy[s])
           \/ copy[s].part # "reconciled" /\ Moves(s, "close", db, copy[s])
    BY <1>16, ProofMoves, ProofWrites DEF Proof!Account
  <2> QED BY <2>1, <1>0, UnreservedHeld, UnreservedStep, StoreForms
         DEF Special, Before, Undoing, Unrecorded, Exists
<1>17. ASSUME NEW s \in Submits, Proof!Close(s) PROVE EnginesInv'
  <2>1. at[s] = "close" /\ Moves(s, "done", QuoteSaved(copy[s]), copy[s])
    BY <1>17, ProofMoves, ProofWrites DEF Proof!Close
  <2> QED BY <2>1, <1>0, UnreservedHeld, UnreservedStep, StoreForms
         DEF Special, Before, Undoing, Unrecorded, Exists
<1>18. ASSUME NEW s \in Submits, Proof!CatchUndo(s) PROVE EnginesInv'
  <2>1. at[s] = "undo" /\ Moves(s, "catch_record", Unlocked(s), Marked(copy[s], "failed"))
    BY <1>18, ProofMoves, ProofWrites DEF Proof!CatchUndo
  <2>2. Plain(Marked(copy[s], "failed"))
    BY <1>0, UnreservedHeld, CopyForms DEF Plain
  <2> QED BY <2>1, <2>2, <1>0, UnreservedHeld, UnreservedStep, StoreForms, UnlockStep
         DEF Plain, Special, Before, Undoing, Unrecorded, Exists
<1>19. ASSUME NEW s \in Submits, Proof!CatchQuote(s) PROVE EnginesInv'
  <2>1. /\ at[s] = "catch_quote"
        /\ \/ Moves(s, "catch_record", QuoteSaved(copy[s]), copy[s])
           \/ Moves(s, "catch_record", db, copy[s])
    BY <1>19, ProofMoves, ProofWrites DEF Proof!CatchQuote
  <2> QED BY <2>1, <1>0, UnreservedHeld, UnreservedStep, StoreForms
         DEF Special, Before, Undoing, Unrecorded, Exists
<1>20. ASSUME NEW s \in Submits, Proof!CatchRecord(s) PROVE EnginesInv'
  <2>1. /\ at[s] = "catch_record"
        /\ \/ Moves(s, "ended", RecordSigned, copy[s])
           \/ Moves(s, "ended", RecordSet("failed"), copy[s])
           \/ Moves(s, "ended", db, copy[s])
    BY <1>20, ProofMoves, ProofWrites DEF Proof!CatchRecord
  <2> QED BY <2>1, <1>0, UnreservedHeld, UnreservedStep, StoreForms
         DEF Special, Before, Undoing, Unrecorded, Exists
<1>21. ASSUME Proof!Surroundings PROVE EnginesInv'
  BY <1>21, ProofMoves, SurroundingsStep
<1>22. ASSUME NEW p \in Prepares, Proof!Prepare(p) PROVE EnginesInv'
  BY <1>22, <1>1, <1>2, <1>3 DEF Proof!Prepare
<1>23. ASSUME NEW s \in Submits, Proof!Submit(s) PROVE EnginesInv'
  BY <1>23, <1>4, <1>5, <1>6, <1>7, <1>8, <1>9, <1>10, <1>11, <1>12, <1>13, <1>14 DEF Proof!Submit
<1>24. ASSUME NEW s \in Submits, Proof!Catch(s) PROVE EnginesInv'
  BY <1>24, <1>18, <1>19, <1>20 DEF Proof!Catch
<1>25. ASSUME NEW s \in Submits, Proof!Settle(s) PROVE EnginesInv'
  BY <1>25, <1>15, <1>16, <1>17 DEF Proof!Settle
<1> QED
  BY <1>21, <1>22, <1>23, <1>24, <1>25 DEF Proof!Next

-----------------------------------------------------------------------------
LEMMA Initially ==
  ASSUME EngineInit
  PROVE  EnginesInv
<1> USE ConstantsAssumption DEF EngineInit, Init
<1>1. /\ \A h \in Handler : at[h] = "idle" /\ copy[h] = New
      /\ New \in AnyQuote /\ New.part = "created"
  BY DEF New, AnyQuote, AnyStatus, Status
<1>2. Shape
  BY <1>1 DEF Shape, AnyStores
<1>3. SignInv
  BY <1>1 DEF SignInv, Before, Undoing, Handler
<1>4. RecordInv /\ BooksInv
  BY <1>1 DEF RecordInv, BooksInv, Booking, Unrecorded, Exists, Prepared
<1> QED BY <1>2, <1>3, <1>4 DEF EnginesInv

LEMMA Stuttering ==
  ASSUME EnginesInv, UNCHANGED <<vars, engine>>
  PROVE  EnginesInv'
BY DEF EnginesInv, vars, Shape, SignInv, RecordInv, BooksInv, Booking, Exists, Prepared

LEMMA Stepwise ==
  ASSUME EnginesInv, [EngineNext]_<<vars, engine>>
  PROVE  EnginesInv'
BY ClaimStep, SendStep, RecoverStep, SwapStep, ProofStep, Stuttering DEF EngineNext

(* The invariant of every engine.                                          *)
THEOREM Invariance == Spec => []EnginesInv
<1>1. EngineInit => EnginesInv
  BY Initially
<1>2. EnginesInv /\ [EngineNext]_<<vars, engine>> => EnginesInv'
  BY Stepwise
<1> QED BY <1>1, <1>2, PTL DEF Spec

(* Kora signs at most once for an attempt, in every engine, however many   *)
(* submissions race and wherever a handler stops.                          *)
THEOREM SignsOnce == Spec => []PayerSignsOnce
<1>1. EnginesInv => PayerSignsOnce
  BY DEF EnginesInv, SignInv, PayerSignsOnce
<1> QED BY <1>1, Invariance, PTL

(* What Claim, Send, Recover and Swap broadcast is in the durable record   *)
(* and stays there, whatever fails afterwards.                             *)
THEOREM BroadcastPersisted == Spec => []BroadcastIsPersisted
<1>1. EnginesInv => BroadcastIsPersisted
  BY DEF EnginesInv, RecordInv, BroadcastIsPersisted
<1> QED BY <1>1, Invariance, PTL

(* No quote calls its operation reconciled before the books have it, and   *)
(* the books have nothing that did not land: in every engine.              *)
THEOREM BooksAreTrue == Spec => []ReconciledIsOnChain
<1>1. EnginesInv => ReconciledIsOnChain
  BY DEF EnginesInv, BooksInv, ReconciledIsOnChain
<1> QED BY <1>1, Invariance, PTL

-----------------------------------------------------------------------------
(***************************************************************************)
(* What the engines promise when one console sends the requests and        *)
(* submits once (OneConsole): they implement SponsoredAttempt, and what is *)
(* on record as failed never lands.                                        *)
(*                                                                         *)
(* Of the invariant, PromiseInv says who may be where (InTurn), what       *)
(* covers a submission (OnItsWay, HandedOn) and what those know who give   *)
(* the reservation back (GivesBack); FailInv says what those know who call *)
(* the attempt failed.  A step of a handler (Does) that goes where it may  *)
(* go (May, Says) keeps both (DoesKeeps).                                  *)
(***************************************************************************)
(* The requests come in a console's order, with one submission.  With two, *)
(* a Recover does not keep the promise: its first submission fails, gives  *)
(* back lock and reservation and stops before the quote says so.           *)
OneConsole == Disciplined /\ \A s, t \in Submits : s = t

(* Nothing that was sent can land any more.                                *)
Over == chain.landed # "none" \/ chain.height > LastValid

Covered == db.exposure = "reserved" \/ Over

-----------------------------------------------------------------------------
(* The order of a console: one prepare, and while it is under way nothing  *)
(* else; then aborts or a submission, not both.                            *)
InTurn ==
  /\ \A p, r \in Prepares : Started(p) /\ Started(r) => p = r
  /\ \A g \in Aborts \cup Submits, p \in Prepares : Started(g) => AtRest(p)
  /\ \A s \in Submits, a \in Aborts : Started(s) => ~Started(a)

(* A submission on its way to its broadcast: nothing of it was sent, Kora  *)
(* has signed from "final" on, and the reservation covers it.              *)
Holding == {"final", "record", "save", "broadcast"}
Sending == {"lock", "check", "cross", "relay", "kora"} \cup Holding

OnItsWay ==
  /\ chain.wire =>
       /\ Covered /\ chain.payer > 0
       /\ \E s \in Submits : at[s] \notin Sending \cup {"idle"}
  /\ chain.landed # "none" => chain.wire
  /\ \A s \in Submits :
       /\ at[s] \in Sending => Covered
       /\ at[s] \in Holding => chain.payer > 0

(* The prepare takes the reservation, and hands it on to a submission.     *)
Unreserved == {"create", "persist", "open", "reserve"}
Reserving == {"activate", "window", "done"}

HandedOn ==
  /\ (\A g \in Handler \ Polls : ~Started(g)) => db.exposure = "none"
  /\ \A p \in Prepares :
       /\ at[p] \in Unreserved => db.exposure = "none"
       /\ at[p] \in Reserving => db.exposure # "none"
       /\ at[p] \in {"activate", "window"} => Covered
       /\ at[p] = "done" /\ (\A g \in Aborts \cup Submits : ~Started(g)) => Covered
  /\ \A g \in Aborts \cup Submits : Started(g) => db.exposure # "none"

(* Who gives the reservation back has seen the end of the transaction, or  *)
(* nothing was sent.                                                       *)
Knowing == {"expire", "end_release", "account", "thank", "poll_account", "poll_release"}
Undone == {"undo", "cleanup", "again", "fail_release", "giveback"}

GivesBack ==
  \A h \in Handler :
    /\ at[h] \in Knowing => Over
    /\ at[h] \in Undone => Over \/ (~chain.wire /\ h \notin Polls)

PromiseInv == InTurn /\ OnItsWay /\ HandedOn /\ GivesBack

-----------------------------------------------------------------------------
(* The only prepare has given up, or an abort has begun: no submission     *)
(* will be sent, and none is on its way.                                   *)
Closing == {"fail_release", "fail_record", "fail_quote", "cleanup", "again", "ended"}

Closed ==
  \A s \in Submits :
    /\ at[s] \notin Sending
    /\ at[s] = "idle" =>
         \/ \E a \in Aborts : Started(a)
         \/ /\ \E p \in Prepares : Started(p)
            /\ \A p \in Prepares : Started(p) => at[p] \in Closing

(* It did not land without an error, and never will.                       *)
Ended == chain.landed = "err" \/ (chain.landed = "none" /\ chain.height > LastValid)
Hopeless == Ended \/ (chain.landed = "none" /\ ~chain.wire /\ Closed)

(* A status request of a Recover may not know better than that the         *)
(* transaction's last block is over.                                       *)
Lost == Hopeless \/ (engine = "recover" /\ chain.height > LastValid)

(* Whoever may come to write that it failed knows that; a submission that  *)
(* backs out has sent nothing; what was sent is on record as submitted.    *)
Doomed ==
  {"fail_release", "fail_record", "cleanup", "again", "expire", "end_release", "end_record"}
BacksOut(s) ==
  \/ at[s] \in {"undo", "catch_quote", "catch_record"}
  \/ at[s] = "giveback" /\ engine # "send"
OnRecord == {"submitted", "reconciled", "failed"}

FailInv ==
  /\ db.record.status = "failed" => Lost
  /\ \A h \in Handler : at[h] \in Doomed => Lost
  /\ \A s \in Submits :
       /\ BacksOut(s) => ~chain.wire
       /\ at[s] \in {"save", "broadcast"} => db.record.status \in OnRecord
  /\ chain.wire => db.record.status \in OnRecord

-----------------------------------------------------------------------------
(* A step of a handler that leaves the chain alone and the reservation at  *)
(* e, as far as the promise is concerned.                                  *)
Goes(h, place, e) ==
  /\ at' = [at EXCEPT ![h] = place] /\ db'.exposure = e
  /\ chain' = chain /\ engine' = engine

Reserves(h, e) == h \in Prepares /\ at[h] = "reserve" /\ e = "reserved"
Releases(h, e) == at[h] \in Knowing \cup Undone /\ db.exposure = "reserved" /\ e = "released"

(* Where it may go.                                                        *)
May(h, place, e) ==
  /\ at[h] \notin {"done", "ended"} /\ (at[h] = "idle" => MayStart(h))
  /\ h \notin Polls => place # "idle"
  /\ e = db.exposure \/ Reserves(h, e) \/ Releases(h, e)
  /\ place \in Knowing => at[h] \in Knowing \/ Over
  /\ place \in Undone =>
       \/ at[h] \in Knowing \cup Undone \/ Over
       \/ h \in Prepares /\ at[h] \in {"reserve", "activate"}
       \/ h \in Aborts /\ at[h] = "idle"
       \/ h \in Submits /\ at[h] \in Sending
  /\ h \in Submits =>
       /\ place \in Sending => at[h] \in Sending \cup {"idle"}
       /\ place \in Holding => at[h] \in Holding
  /\ h \in Prepares =>
       /\ place \in Unreserved => at[h] \in Unreserved \cup {"idle"} /\ e = db.exposure
       /\ place \in Reserving => at[h] \in {"activate", "window"} \/ Reserves(h, e)

Promised == PromiseInv' /\ (Promise!Next \/ UNCHANGED Promise!promise)

\* The facts about constants and kinds of handlers the lemmas use.
LEMMA Kinds ==
  ASSUME OneConsole, EnginesInv
  PROVE  /\ Disciplined /\ (\A s, t \in Submits : s = t)
         /\ \A h \in Prepares : h \in Handler /\ h \notin Aborts \cup Submits \cup Polls
         /\ \A h \in Aborts : h \in Handler /\ h \notin Prepares \cup Submits \cup Polls
         /\ \A h \in Submits : h \in Handler /\ h \notin Aborts \cup Prepares \cup Polls
         /\ \A h \in Polls : h \in Handler /\ h \notin Aborts \cup Prepares \cup Submits
         /\ \A h \in Handler : h \in Prepares \/ h \in Aborts \/ h \in Submits \/ h \in Polls
         /\ at = [h \in Handler |-> at[h]]
         /\ db.exposure \in {"none", "reserved", "released"}
         /\ chain \in [payer : Nat, wire : BOOLEAN, landed : {"none", "ok", "err"}, height : Nat]
         /\ LastValid \in Nat /\ chain.height \in Nat /\ chain.landed \in {"none", "ok", "err"}
  BY ConstantsAssumption DEF OneConsole, Handler, EnginesInv, Shape, AnyStores

LEMMA GoesKeeps ==
  ASSUME OneConsole, EnginesInv, PromiseInv, engine # "proof",
         NEW h \in Handler, NEW place, NEW e, Goes(h, place, e), May(h, place, e)
  PROVE  Promised
<1>1. /\ InTurn /\ OnItsWay /\ HandedOn /\ GivesBack
      /\ at' = [at EXCEPT ![h] = place] /\ db'.exposure = e
      /\ chain' = chain /\ engine' = engine
  BY DEF PromiseInv, Goes
<1>2. at'[h] = place /\ \A g \in Handler : g # h => at'[g] = at[g]
  BY <1>1, Kinds
<1>3. at[h] = "idle" =>
        \/ h \in Polls
        \/ h \in Prepares /\ \A g \in Handler \ Polls : ~Started(g)
        \/ /\ h \in Aborts \cup Submits
           /\ \E p \in Prepares : at[p] = "done"
           /\ \A g \in Handler \ Polls : AtRest(g)
           /\ \A g \in IF h \in Aborts THEN Submits ELSE Aborts : ~Started(g)
  BY Kinds DEF May, MayStart
<1>4. InTurn'
  BY <1>1, <1>2, <1>3, Kinds DEF InTurn, May, Started, AtRest, Rest
<1>5. /\ Over' <=> Over
      /\ Covered => Covered' \/ (Releases(h, e) /\ ~Over /\ ~chain.wire /\ h \notin Polls)
  BY <1>1 DEF Over, Covered, May, Reserves, Releases, GivesBack
<1>6. OnItsWay'
  <2>1. ASSUME chain.wire PROVE \E s \in Submits : at'[s] \notin Sending \cup {"idle"}
    BY <1>1, <1>2, <2>1, Kinds DEF OnItsWay, May
  <2>2. ASSUME NEW s \in Submits, at'[s] \in Sending PROVE Covered'
    <3>1. CASE s = h
      <4>1. at[h] \in Sending \/ at[h] = "idle"
        BY <1>2, <2>2, <3>1 DEF May
      <4>2. Covered
        BY <1>1, <1>3, <3>1, <4>1, Kinds DEF OnItsWay, HandedOn, Started
      <4>3. ~Releases(h, e)
        BY <4>1 DEF Releases, Knowing, Undone, Sending, Holding
      <4> QED BY <1>5, <4>2, <4>3
    <3>2. CASE s # h
      <4>1. at[s] \in Sending /\ Started(s) /\ h \notin Submits
        BY <1>2, <2>2, <3>2, Kinds DEF Sending, Holding, Started
      <4>2. Covered
        BY <1>1, <4>1 DEF OnItsWay
      <4>3. h \in Polls \/ ~Releases(h, e)
        BY <1>1, <4>1, Kinds DEF InTurn, Releases, Knowing, Undone, Started, AtRest, Rest
      <4> QED BY <1>5, <4>2, <4>3
    <3> QED BY <3>1, <3>2
  <2>3. ASSUME NEW s \in Submits, at'[s] \in Holding PROVE chain.payer > 0
    BY <1>1, <1>2, <2>3 DEF OnItsWay, May
  <2> QED BY <1>1, <1>5, <2>1, <2>2, <2>3 DEF OnItsWay
<1>7. HandedOn'
  <2>1. db.exposure # "none" => e # "none"
    BY DEF May, Reserves, Releases
  <2>2. ASSUME \A g \in Handler \ Polls : at'[g] = "idle" PROVE e = "none"
    <3>1. h \in Polls
      BY <1>2, <2>2 DEF May
    <3>2. db.exposure = "none"
      BY <1>1, <1>2, <2>2, <3>1 DEF HandedOn, Started
    <3> QED BY <3>1, <3>2, Kinds DEF May, Reserves, Releases
  <2>3. ASSUME NEW p \in Prepares, at'[p] \in Unreserved PROVE e = "none"
    <3>1. CASE p = h
      BY <1>1, <1>2, <1>3, <2>3, <3>1, Kinds DEF May, HandedOn
    <3>2. CASE p # h
      <4>1. at[p] \in Unreserved /\ db.exposure = "none" /\ Started(p)
        BY <1>1, <1>2, <2>3, <3>2, Kinds DEF HandedOn, Started, Unreserved
      <4>2. ~Reserves(h, e)
        BY <1>1, <3>2, <4>1 DEF InTurn, Reserves, Started
      <4> QED BY <4>1, <4>2 DEF May, Releases
    <3> QED BY <3>1, <3>2
  <2>4. ASSUME NEW p \in Prepares, at'[p] \in Reserving PROVE e # "none"
    BY <1>1, <1>2, <2>1, <2>4, Kinds DEF HandedOn, May, Reserving, Reserves
  <2>5. ASSUME NEW p \in Prepares, at'[p] \in {"activate", "window"} PROVE Covered'
    <3>1. CASE p = h
      BY <1>1, <1>2, <1>5, <2>5, <3>1
         DEF HandedOn, May, Reserving, Reserves, Releases, Covered, Knowing, Undone
    <3>2. CASE p # h
      <4>1. at[p] \in {"activate", "window"} /\ Covered
        BY <1>1, <1>2, <2>5, <3>2, Kinds DEF HandedOn
      <4>2. h \in Polls \/ ~Releases(h, e)
        BY <1>1, <3>2, <4>1, Kinds DEF InTurn, Releases, Knowing, Undone, Started, AtRest, Rest
      <4> QED BY <1>5, <4>1, <4>2
    <3> QED BY <3>1, <3>2
  <2>6. ASSUME NEW p \in Prepares, at'[p] = "done",
               \A g \in Aborts \cup Submits : at'[g] = "idle"
        PROVE  Covered'
    <3>1. \A g \in Aborts \cup Submits : ~Started(g)
      BY <1>2, <2>6, Kinds DEF May, Started
    <3>2. CASE p = h
      BY <1>1, <1>2, <1>5, <2>6, <3>2
         DEF HandedOn, May, Reserving, Reserves, Releases, Covered, Knowing, Undone
    <3>3. CASE p # h
      <4>1. at[p] = "done" /\ Covered
        BY <1>1, <1>2, <2>6, <3>1, <3>3, Kinds DEF HandedOn
      <4>2. h \in Polls \/ ~Releases(h, e)
        BY <1>1, <3>1, <3>3, <4>1, Kinds DEF InTurn, Releases, Knowing, Undone, Started
      <4> QED BY <1>5, <4>1, <4>2
    <3> QED BY <3>2, <3>3
  <2>7. ASSUME NEW g \in Aborts \cup Submits, at'[g] # "idle" PROVE e # "none"
    <3>1. CASE Started(g)
      BY <1>1, <2>1, <3>1 DEF HandedOn
    <3>2. CASE ~Started(g)
      BY <1>1, <1>2, <1>3, <2>1, <2>7, <3>2, Kinds DEF HandedOn, Started, Reserving
    <3> QED BY <3>1, <3>2
  <2> QED BY <1>1, <2>2, <2>3, <2>4, <2>5, <2>6, <2>7 DEF HandedOn, Started
<1>8. GivesBack'
  BY <1>1, <1>2, <1>3, <1>5, Kinds
     DEF GivesBack, May, InTurn, OnItsWay, Started, AtRest, Rest
<1>9. Promise!Next \/ UNCHANGED Promise!promise
  <2>1. /\ (Sponsored /\ chain.payer > 0)' = (Sponsored /\ chain.payer > 0)
        /\ MayStillLand' = MayStillLand
    BY <1>1 DEF MayStillLand, Sponsored
  <2>2. CASE e = db.exposure
    BY <1>1, <2>2 DEF Promise!promise, MayStillLand, Sponsored
  <2>3. CASE Reserves(h, e)
    <3>1. db.exposure = "none"
      BY <1>1, <2>3 DEF HandedOn, Reserves, Unreserved
    <3> QED BY <1>1, <2>1, <2>3, <3>1
            DEF Promise!Next, Promise!Reserve, Reserves, MayStillLand, Sponsored
  <2>4. CASE Releases(h, e)
    <3>1. ~MayStillLand
      BY <1>1, <2>4, Kinds DEF GivesBack, Releases, Over, MayStillLand
    <3> QED BY <1>1, <2>1, <2>4, <3>1, Kinds
            DEF Promise!Next, Promise!Release, Releases, MayStillLand, Sponsored
  <2> QED BY <2>2, <2>3, <2>4 DEF May
<1> QED BY <1>4, <1>6, <1>7, <1>8, <1>9 DEF PromiseInv, Promised

(* Kora is asked.                                                          *)
Asks(s, place) ==
  /\ at[s] = "kora" /\ at' = [at EXCEPT ![s] = place] /\ db' = db /\ engine' = engine
  /\ \E n \in {0, 1} : (place = "final" => n = 1) /\ chain' = [chain EXCEPT !.payer = @ + n]

LEMMA AskingKeeps ==
  ASSUME OneConsole, EnginesInv, PromiseInv, engine # "proof",
         NEW s \in Submits, NEW place \in {"final", "catch_quote", "ended"}, Asks(s, place)
  PROVE  Promised
<1>1. /\ InTurn /\ OnItsWay /\ HandedOn /\ GivesBack
      /\ at[s] = "kora" /\ at' = [at EXCEPT ![s] = place] /\ db' = db /\ engine' = engine
  BY DEF PromiseInv, Asks
<1>2. at'[s] = place /\ \A g \in Handler : g # s => at'[g] = at[g]
  BY <1>1, Kinds
<1>3. PICK n \in {0, 1} : (place = "final" => n = 1) /\ chain' = [chain EXCEPT !.payer = @ + n]
  BY DEF Asks
<1>4. /\ chain.payer = 0 /\ chain'.payer = n
      /\ chain'.wire = chain.wire /\ chain'.landed = chain.landed
      /\ chain'.height = chain.height /\ ~chain.wire
  BY <1>1, <1>3, Kinds DEF EnginesInv, SignInv, Before, OnItsWay
<1>5. (Over' <=> Over) /\ (Covered' <=> Covered)
  BY <1>1, <1>4 DEF Over, Covered
<1>6. InTurn'
  BY <1>1, <1>2, Kinds DEF InTurn, Started, AtRest, Rest
<1>7. OnItsWay'
  BY <1>1, <1>2, <1>3, <1>4, <1>5, Kinds DEF OnItsWay, Sending, Holding
<1>8. HandedOn'
  BY <1>1, <1>2, <1>5, Kinds DEF HandedOn, Started
<1>9. GivesBack'
  BY <1>1, <1>2, <1>4, <1>5 DEF GivesBack, Knowing, Undone
<1>10. Promise!Next \/ UNCHANGED Promise!promise
  <2>1. db.exposure # "none"
    BY <1>1 DEF HandedOn, Started
  <2>2. MayStillLand' = MayStillLand /\ (Sponsored' <=> Sponsored)
    BY <1>1, <1>4 DEF MayStillLand, Sponsored
  <2>3. CASE n = 0
    BY <1>1, <1>4, <2>2, <2>3 DEF Promise!promise
  <2>4. CASE n = 1
    BY <1>1, <1>4, <2>1, <2>2, <2>4 DEF Promise!Next, Promise!Sign, Sponsored
  <2> QED BY <1>3, <2>3, <2>4
<1> QED BY <1>6, <1>7, <1>8, <1>9, <1>10 DEF PromiseInv, Promised

(* The bytes are sent, or not.                                             *)
LEMMA SendingKeeps ==
  ASSUME OneConsole, EnginesInv, PromiseInv, engine # "proof",
         NEW s \in Submits, NEW q, Sends(s, "observe", q)
  PROVE  Promised
<1>1. /\ InTurn /\ OnItsWay /\ HandedOn /\ GivesBack
      /\ at[s] = "broadcast" /\ at' = [at EXCEPT ![s] = "observe"] /\ db' = db /\ engine' = engine
  BY DEF PromiseInv, Sends, Outside
<1>2. at'[s] = "observe" /\ \A g \in Handler : g # s => at'[g] = at[g]
  BY <1>1, Kinds
<1>3. PICK sent \in BOOLEAN : chain' = [chain EXCEPT !.wire = sent]
  BY DEF Sends
<1>4. /\ chain'.wire = sent /\ chain'.landed = chain.landed /\ chain'.payer = chain.payer
      /\ chain'.height = chain.height
      /\ ~chain.wire /\ chain.landed = "none" /\ chain.payer > 0 /\ Covered
  BY <1>1, <1>3, Kinds DEF OnItsWay, Sending, Holding
<1>5. (Over' <=> Over) /\ (Covered' <=> Covered)
  BY <1>1, <1>4 DEF Over, Covered
<1>6. InTurn'
  BY <1>1, <1>2, Kinds DEF InTurn, Started, AtRest, Rest
<1>7. OnItsWay'
  BY <1>1, <1>2, <1>4, <1>5, Kinds DEF OnItsWay, Sending, Holding
<1>8. HandedOn'
  BY <1>1, <1>2, <1>5, Kinds DEF HandedOn, Started
<1>9. GivesBack'
  <2>1. ASSUME NEW g \in Handler, at[g] \in Undone, g \notin Polls, g # s PROVE FALSE
    BY <1>1, <2>1, Kinds DEF InTurn, Started, AtRest, Rest, Undone
  <2> QED BY <1>1, <1>2, <1>5, <2>1 DEF GivesBack, Knowing, Undone
<1>10. Promise!Next \/ UNCHANGED Promise!promise
  <2>1. Sponsored' /\ Sponsored
    BY <1>1 DEF Sponsored
  <2>2. ~MayStillLand /\ (MayStillLand' <=> sent /\ ~Over)
    BY <1>4, Kinds DEF MayStillLand, Over
  <2>3. CASE ~MayStillLand'
    BY <1>1, <1>4, <2>1, <2>2, <2>3 DEF Promise!promise
  <2>4. CASE MayStillLand'
    <3>1. db.exposure = "reserved"
      BY <1>4, <2>2, <2>4 DEF Covered
    <3> QED BY <1>1, <1>4, <2>1, <2>2, <2>4, <3>1 DEF Promise!Next, Promise!Depart
  <2> QED BY <2>3, <2>4
<1> QED BY <1>6, <1>7, <1>8, <1>9, <1>10 DEF PromiseInv, Promised

(* Handlers that stop, blocks, the landing, the quote's time to live.      *)
LEMMA SurroundingsKeep ==
  ASSUME OneConsole, EnginesInv, PromiseInv, engine # "proof", engine' = engine, Surroundings
  PROVE  Promised
<1>1. InTurn /\ OnItsWay /\ HandedOn /\ GivesBack
  BY DEF PromiseInv
<1>2. ASSUME NEW h \in Handler, Stop(h) PROVE Promised
  <2> DEFINE place == IF h \in Polls THEN "idle" ELSE "ended"
  <2>1. at[h] \notin Rest /\ Goes(h, place, db.exposure)
    BY <1>2 DEF Stop, AtRest, Throw, Goes
  <2>2. May(h, place, db.exposure)
    BY <2>1, Kinds DEF May, Rest, Knowing, Undone, Sending, Holding, Unreserved, Reserving
  <2> QED BY <2>1, <2>2, GoesKeeps
<1>3. ASSUME NextBlock \/ Land PROVE Promised
  <2>1. /\ db' = db /\ at' = at
        /\ chain'.payer = chain.payer /\ chain'.wire = chain.wire
        /\ Over => Over'
        /\ chain'.landed # "none" => chain.wire
    BY <1>1, <1>3, Kinds DEF NextBlock, Land, Over, OnItsWay
  <2>2. Covered => Covered'
    BY <2>1 DEF Covered
  <2>3. InTurn' /\ OnItsWay' /\ HandedOn' /\ GivesBack'
    BY <1>1, <2>1, <2>2 DEF InTurn, OnItsWay, HandedOn, GivesBack, Started, AtRest
  <2>4. Sponsored' /\ Sponsored
    BY DEF Sponsored
  <2>5. Promise!Next \/ UNCHANGED Promise!promise
    <3>1. CASE MayStillLand
      <4>1. \/ Land /\ chain'.landed \in {"ok", "err"}
            \/ NextBlock /\ chain'.landed = "none"
        BY <1>3, <3>1, Kinds DEF Land, NextBlock, MayStillLand
      <4> QED BY <2>1, <2>4, <3>1, <4>1
              DEF Promise!Next, Promise!Arrive, Promise!promise, MayStillLand
    <3>2. CASE ~MayStillLand
      <4>1. NextBlock /\ chain'.landed = chain.landed /\ ~MayStillLand'
        BY <1>3, <3>2, Kinds DEF Land, NextBlock, MayStillLand
      <4> QED BY <2>1, <2>4, <3>2, <4>1 DEF Promise!promise
    <3> QED BY <3>1, <3>2
  <2> QED BY <2>3, <2>5 DEF PromiseInv, Promised
<1>4. CASE Forget
  <2>1. at' = at /\ chain' = chain /\ db'.exposure = db.exposure
    BY <1>4, Kinds DEF Forget, QuoteSaved
  <2>2. InTurn' /\ OnItsWay' /\ HandedOn' /\ GivesBack'
    BY <1>1, <2>1
       DEF InTurn, OnItsWay, HandedOn, GivesBack, Started, AtRest, Over, Covered
  <2>3. UNCHANGED Promise!promise
    BY <2>1 DEF Promise!promise, MayStillLand, Sponsored
  <2> QED BY <2>2, <2>3 DEF PromiseInv, Promised
<1> QED BY <1>2, <1>3, <1>4 DEF Surroundings

-----------------------------------------------------------------------------
(* The same steps, as far as failures go: the record says st afterwards.   *)
Says(h, place, st) ==
  /\ st = "failed" =>
       \/ db.record.status = "failed" \/ at[h] \in Doomed \/ Lost
       \/ h \in Submits /\ BacksOut(h)
  /\ \/ st = db.record.status \/ db.record.status = "none" \/ st \in OnRecord
     \/ h \in Submits /\ (at[h] = "relay" \/ BacksOut(h))
  /\ place \in Doomed =>
       \/ at[h] \in Doomed \/ Lost
       \/ h \in Submits /\ BacksOut(h)
       \/ h \in Prepares /\ at[h] \in {"reserve", "activate"} /\ place \in Closing
       \/ h \in Aborts /\ at[h] = "idle"
  /\ h \in Submits =>
       /\ place \in {"undo", "catch_quote", "catch_record"} => at[h] \in Sending \/ BacksOut(h)
       /\ place = "giveback" /\ engine # "send" => at[h] \in Sending
       /\ place \in {"save", "broadcast"} => at[h] = "save" \/ st = "submitted"
  /\ h \in Prepares /\ at[h] \in Closing => place \in Closing

(* Nobody has sent, and nobody will.                                       *)
LEMMA NothingSent ==
  ASSUME OneConsole, EnginesInv, PromiseInv, FailInv
  PROVE  /\ \A s \in Submits : at[s] \in Sending => ~chain.wire
         /\ \A s \in Submits : BacksOut(s) => Hopeless
         /\ (\A s \in Submits : ~Started(s)) => ~chain.wire
         /\ ~chain.wire => chain.landed = "none"
<1>1. OnItsWay /\ (\A s \in Submits : BacksOut(s) => ~chain.wire)
  BY DEF PromiseInv, FailInv
<1>2. \A s \in Submits : at[s] \in Sending => ~chain.wire
  BY <1>1, Kinds DEF OnItsWay
<1>3. (\A s \in Submits : ~Started(s)) => ~chain.wire
  BY <1>1 DEF OnItsWay, Started
<1>4. ~chain.wire => chain.landed = "none"
  BY <1>1 DEF OnItsWay
<1>5. ASSUME NEW s \in Submits, BacksOut(s) PROVE Hopeless
  <2>1. at[s] \notin Sending \cup {"idle"}
    BY <1>5 DEF BacksOut, Sending, Holding
  <2>2. Closed
    BY <2>1, Kinds DEF Closed
  <2> QED BY <1>1, <1>4, <1>5, <2>2 DEF Hopeless
<1> QED BY <1>2, <1>3, <1>4, <1>5

LEMMA SaysKeeps ==
  ASSUME OneConsole, EnginesInv, PromiseInv, FailInv, engine # "proof",
         NEW h \in Handler, NEW place, NEW e, NEW st, Goes(h, place, e), May(h, place, e),
         db'.record.status = st, Says(h, place, st)
  PROVE  FailInv'
<1>1. /\ InTurn /\ OnItsWay /\ HandedOn /\ GivesBack
      /\ at' = [at EXCEPT ![h] = place]
      /\ chain' = chain /\ engine' = engine
  BY DEF PromiseInv, Goes
<1>2. at'[h] = place /\ \A g \in Handler : g # h => at'[g] = at[g]
  BY <1>1, Kinds
<1>3. at[h] = "idle" =>
        \/ h \in Polls
        \/ h \in Prepares /\ \A g \in Handler \ Polls : ~Started(g)
        \/ /\ h \in Aborts \cup Submits
           /\ \E p \in Prepares : at[p] = "done"
           /\ \A g \in Handler \ Polls : AtRest(g)
           /\ \A g \in IF h \in Aborts THEN Submits ELSE Aborts : ~Started(g)
  BY Kinds DEF May, MayStart
<1>4. (Ended' <=> Ended) /\ chain'.wire = chain.wire /\ chain'.landed = chain.landed
  BY <1>1 DEF Ended
<1>5. ASSUME Closed PROVE Closed'
  <2> SUFFICES ASSUME NEW s \in Submits
               PROVE  /\ at'[s] \notin Sending
                      /\ at'[s] = "idle" =>
                           \/ \E a \in Aborts : at'[a] # "idle"
                           \/ /\ \E p \in Prepares : at'[p] # "idle"
                              /\ \A p \in Prepares : at'[p] # "idle" => at'[p] \in Closing
    BY DEF Closed, Started
  <2>1. /\ at[s] \notin Sending
        /\ at[s] = "idle" =>
             \/ \E a \in Aborts : Started(a)
             \/ /\ \E p \in Prepares : Started(p)
                /\ \A p \in Prepares : Started(p) => at[p] \in Closing
    BY <1>5 DEF Closed
  <2>2. at'[s] \notin Sending
    <3>1. CASE s = h
      <4>1. at[s] # "idle"
        BY <1>3, <2>1, <3>1, Kinds DEF Started, Closing
      <4> QED BY <1>2, <2>1, <3>1, <4>1, Kinds DEF May
    <3>2. CASE s # h
      BY <1>2, <2>1, <3>2, Kinds
    <3> QED BY <3>1, <3>2
  <2>3. ASSUME at'[s] = "idle"
        PROVE  \/ \E a \in Aborts : at'[a] # "idle"
               \/ /\ \E p \in Prepares : at'[p] # "idle"
                  /\ \A p \in Prepares : at'[p] # "idle" => at'[p] \in Closing
    <3>1. s # h /\ at[s] = "idle"
      BY <1>2, <2>3, Kinds DEF May
    <3>2. CASE \E a \in Aborts : Started(a)
      BY <1>2, <3>2, Kinds DEF May, Started
    <3>3. CASE /\ \E p \in Prepares : Started(p)
               /\ \A p \in Prepares : Started(p) => at[p] \in Closing
      <4>1. \E p \in Prepares : at'[p] # "idle"
        BY <1>2, <3>3, Kinds DEF May, Started
      <4>2. ASSUME NEW p \in Prepares, at'[p] # "idle" PROVE at'[p] \in Closing
        <5>1. CASE p = h
          <6>1. Started(p)
            BY <1>3, <3>3, <5>1, Kinds DEF Started
          <6> QED BY <1>2, <3>3, <5>1, <6>1, Kinds DEF Says
        <5>2. CASE p # h
          BY <1>2, <3>3, <4>2, <5>2, Kinds DEF Started
        <5> QED BY <5>1, <5>2
      <4> QED BY <4>1, <4>2
    <3> QED BY <2>1, <3>1, <3>2, <3>3
  <2> QED BY <2>2, <2>3
<1>6. Lost => Lost'
  <2>1. Hopeless => Hopeless'
    BY <1>4, <1>5 DEF Hopeless
  <2> QED BY <1>1, <2>1 DEF Lost
<1>7. ASSUME h \in Submits /\ BacksOut(h) PROVE Lost'
  BY <1>6, <1>7, NothingSent DEF Lost
<1>8. ASSUME h \in Prepares, at[h] \in {"reserve", "activate"}, place \in Closing
      PROVE  Lost'
  <2>1. \A s \in Submits : ~Started(s) /\ s # h
    BY <1>1, <1>8, Kinds DEF InTurn, Started, AtRest, Rest
  <2>2. ~chain.wire /\ chain.landed = "none"
    BY <2>1, NothingSent
  <2>3. \A p \in Prepares : at'[p] # "idle" => at'[p] \in Closing
    BY <1>1, <1>2, <1>8, Kinds DEF InTurn, Started
  <2>4. Closed'
    BY <1>2, <1>8, <2>1, <2>3, Kinds DEF Closed, Started, Sending, Holding, Closing
  <2> QED BY <1>4, <2>2, <2>4 DEF Lost, Hopeless
<1>9. ASSUME h \in Aborts, at[h] = "idle" PROVE Lost'
  <2>1. (\A s \in Submits : ~Started(s) /\ s # h) /\ place # "idle"
    BY <1>3, <1>9, Kinds DEF May
  <2>2. ~chain.wire /\ chain.landed = "none"
    BY <2>1, NothingSent
  <2>3. Closed'
    BY <1>2, <1>9, <2>1, Kinds DEF Closed, Started, Sending, Holding
  <2> QED BY <1>4, <2>2, <2>3 DEF Lost, Hopeless
<1>10. \A g \in Handler : at'[g] \in Doomed => Lost'
  <2>1. ASSUME place \in Doomed PROVE Lost'
    BY <1>6, <1>7, <1>8, <1>9, <2>1 DEF Says, FailInv
  <2> QED BY <1>2, <1>6, <2>1 DEF FailInv
<1>11. db'.record.status = "failed" => Lost'
  BY <1>6, <1>7 DEF Says, FailInv
<1>12. ASSUME NEW s \in Submits, BacksOut(s)' PROVE ~chain.wire
  <2>1. CASE s = h
    <3>1. at[h] \in Sending \/ BacksOut(h)
      BY <1>1, <1>2, <1>12, <2>1, Kinds DEF Says, BacksOut
    <3> QED BY <2>1, <3>1, NothingSent DEF FailInv
  <2>2. CASE s # h
    BY <1>1, <1>2, <1>12, <2>2, Kinds DEF BacksOut, FailInv
  <2> QED BY <2>1, <2>2
<1>13. ASSUME db.record.status \in OnRecord,
              chain.wire \/ (\E s \in Submits : s # h /\ at[s] \in {"save", "broadcast"})
                \/ (h \in Submits /\ at[h] = "save")
       PROVE  st \in OnRecord
  <2>1. db.record.status # "none"
    BY <1>13 DEF OnRecord
  <2>2. h \in Submits => at[h] # "relay" /\ ~BacksOut(h)
    BY <1>13, NothingSent, Kinds DEF FailInv, Sending, Holding, BacksOut
  <2> QED BY <1>13, <2>1, <2>2 DEF Says
<1>14. ASSUME NEW s \in Submits, at'[s] \in {"save", "broadcast"} PROVE st \in OnRecord
  <2>1. CASE s = h
    <3>1. CASE st = "submitted"
      BY <3>1 DEF OnRecord
    <3>2. CASE at[h] = "save"
      BY <1>13, <2>1, <3>2 DEF FailInv
    <3> QED BY <1>2, <1>14, <2>1, <3>1, <3>2, Kinds DEF Says
  <2>2. CASE s # h
    BY <1>2, <1>13, <1>14, <2>2, Kinds DEF FailInv
  <2> QED BY <2>1, <2>2
<1>15. chain.wire => st \in OnRecord
  BY <1>13 DEF FailInv
<1> QED BY <1>4, <1>10, <1>11, <1>12, <1>14, <1>15 DEF FailInv

(* Asking Kora and sending the bytes.                                      *)
LEMMA AskingSays ==
  ASSUME OneConsole, EnginesInv, PromiseInv, FailInv, engine # "proof",
         NEW s \in Submits, NEW place \in {"final", "catch_quote", "ended"}, Asks(s, place)
  PROVE  FailInv'
<1>1. /\ at[s] = "kora" /\ at' = [at EXCEPT ![s] = place] /\ db' = db /\ engine' = engine
      /\ chain'.wire = chain.wire /\ chain'.landed = chain.landed
      /\ chain'.height = chain.height
  BY Kinds DEF Asks
<1>2. at'[s] = place /\ \A g \in Handler : g # s => at'[g] = at[g]
  BY <1>1, Kinds
<1>3. ~chain.wire /\ ~Closed
  BY <1>1, NothingSent DEF Sending, Closed
<1>4. Lost => Lost'
  BY <1>1, <1>3 DEF Lost, Hopeless, Ended
<1> QED BY <1>1, <1>2, <1>3, <1>4, Kinds DEF FailInv, BacksOut, Doomed

LEMMA SendingSays ==
  ASSUME OneConsole, EnginesInv, PromiseInv, FailInv, engine # "proof",
         NEW s \in Submits, NEW q, Sends(s, "observe", q)
  PROVE  FailInv'
<1>1. /\ at[s] = "broadcast" /\ at' = [at EXCEPT ![s] = "observe"]
      /\ db' = db /\ engine' = engine
      /\ chain'.landed = chain.landed /\ chain'.height = chain.height
  BY Kinds DEF Sends, Outside
<1>2. at'[s] = "observe" /\ \A g \in Handler : g # s => at'[g] = at[g]
  BY <1>1, Kinds
<1>3. ~Closed
  BY <1>1 DEF Sending, Holding, Closed
<1>4. Lost => Lost'
  BY <1>1, <1>3 DEF Lost, Hopeless, Ended
<1>5. \A t \in Submits : ~BacksOut(t)'
  BY <1>2, Kinds DEF BacksOut
<1> QED BY <1>1, <1>2, <1>4, <1>5, Kinds DEF FailInv, Doomed

LEMMA SurroundingsSay ==
  ASSUME OneConsole, EnginesInv, PromiseInv, FailInv, engine # "proof",
         engine' = engine, Surroundings
  PROVE  FailInv'
<1>2. ASSUME NEW h \in Handler, Stop(h) PROVE FailInv'
  <2> DEFINE place == IF h \in Polls THEN "idle" ELSE "ended"
  <2>1. at[h] \notin Rest /\ Goes(h, place, db.exposure) /\ db' = db
    BY <1>2 DEF Stop, AtRest, Throw, Goes
  <2>2. May(h, place, db.exposure)
    BY <2>1, Kinds DEF May, Rest, Knowing, Undone, Sending, Holding, Unreserved, Reserving
  <2>3. Says(h, place, db.record.status)
    BY <2>1, Kinds DEF Says, Doomed, Closing
  <2> HIDE DEF place
  <2> QED BY <2>1, <2>2, <2>3, SaysKeeps
<1>3. ASSUME NextBlock \/ Land PROVE FailInv'
  <2>1. db' = db /\ at' = at /\ chain'.wire = chain.wire
    BY <1>3, Kinds DEF NextBlock, Land
  <2>2. Closed' <=> Closed
    BY <2>1 DEF Closed, Started
  <2>3. Lost => Lost'
    BY <1>3, <2>1, <2>2, Kinds DEF NextBlock, Land, Lost, Hopeless, Ended
  <2> QED BY <2>1, <2>3 DEF FailInv, BacksOut
<1>4. CASE Forget
  <2>1. at' = at /\ chain' = chain /\ db'.record = db.record
    BY <1>4, Kinds DEF Forget, QuoteSaved, EnginesInv, Shape, AnyStores
  <2>2. Lost' <=> Lost
    BY <2>1 DEF Lost, Hopeless, Ended, Closed, Started
  <2> QED BY <2>1, <2>2 DEF FailInv, BacksOut
<1> QED BY <1>2, <1>3, <1>4 DEF Surroundings

-----------------------------------------------------------------------------
(* Both at once.                                                           *)
ConsoleInv == PromiseInv /\ (~AccountLag => FailInv)
Kept == Promised /\ (~AccountLag => FailInv')

(* What whoever gives up knows; only an account that lags misleads it.     *)
Failing == Over /\ (~AccountLag => Ended)

Does(h, place, d) ==
  /\ at' = [at EXCEPT ![h] = place] /\ db' = d
  /\ chain' = chain /\ engine' = engine

LEMMA DoesKeeps ==
  ASSUME OneConsole, EnginesInv, ConsoleInv, engine # "proof",
         NEW h \in Handler, NEW place, NEW d, Does(h, place, d), May(h, place, d.exposure),
         ~AccountLag => Says(h, place, d.record.status)
  PROVE  Kept
<1>1. Goes(h, place, d.exposure) /\ db'.record.status = d.record.status
  BY DEF Does, Goes
<1>2. Promised
  BY <1>1, GoesKeeps DEF ConsoleInv
<1>3. ~AccountLag => FailInv'
  BY <1>1, SaysKeeps DEF ConsoleInv
<1> QED BY <1>2, <1>3 DEF Kept

-----------------------------------------------------------------------------
(* The writes, as far as the reservation and the record go.                *)
LEMMA Writes ==
  ASSUME EnginesInv
  PROVE  /\ GivenBack.exposure = IF db.exposure = "reserved" THEN "released" ELSE db.exposure
         /\ Reserved.exposure = "reserved"
         /\ \A d \in {RecordCreated, RecordSigned, Booked} : d.exposure = db.exposure
         /\ \A d \in {GivenBack, Reserved, Booked} : d.record.status = db.record.status
         /\ RecordCreated.record.status = "awaiting"
         /\ Exists => RecordSigned.record.status = "submitted"
         /\ RecordSigned.record.status \in {"submitted", db.record.status}
         /\ \A s : /\ RecordSet(s).exposure = db.exposure
                   /\ RecordSet(s).record.status \in {s, db.record.status}
                   /\ LockedBy(s).exposure = db.exposure
                   /\ LockedBy(s).record.status = db.record.status
                   /\ Unlocked(s).exposure = db.exposure
                   /\ Unlocked(s).record.status = db.record.status
         /\ \A q : /\ QuoteSaved(q).exposure = db.exposure
                   /\ QuoteSaved(q).record.status = db.record.status
<1> USE DEF EnginesInv, Shape, AnyStores
<1>1. /\ GivenBack.exposure = IF db.exposure = "reserved" THEN "released" ELSE db.exposure
      /\ Reserved.exposure = "reserved"
      /\ \A d \in {RecordCreated, RecordSigned, Booked} : d.exposure = db.exposure
  BY DEF GivenBack, Reserved, RecordCreated, RecordSigned, Booked
<1>2. /\ \A d \in {GivenBack, Reserved, Booked} : d.record.status = db.record.status
      /\ RecordCreated.record.status = "awaiting"
      /\ Exists => RecordSigned.record.status = "submitted"
      /\ RecordSigned.record.status \in {"submitted", db.record.status}
  BY DEF GivenBack, Reserved, Booked, RecordCreated, RecordSigned, Exists
<1>3. \A s : /\ RecordSet(s).exposure = db.exposure
             /\ RecordSet(s).record.status \in {s, db.record.status}
  BY DEF RecordSet
<1>4. \A s : /\ LockedBy(s).exposure = db.exposure
             /\ LockedBy(s).record.status = db.record.status
             /\ Unlocked(s).exposure = db.exposure
             /\ Unlocked(s).record.status = db.record.status
  BY DEF LockedBy, Unlocked
<1>5. \A q : /\ QuoteSaved(q).exposure = db.exposure
             /\ QuoteSaved(q).record.status = db.record.status
  BY DEF QuoteSaved
<1> QED BY <1>1, <1>2, <1>3, <1>4, <1>5

(* A quote that is reconciled has landed.                                  *)
LEMMA Seen ==
  ASSUME EnginesInv, engine # "proof"
  PROVE  /\ chain.landed # "none" => Over
         /\ chain.landed = "err" => Failing
         /\ db.quote.part = "reconciled" => Over
         /\ \A h \in Handler : copy[h].part = "reconciled" /\ at[h] # "ended" => Over
BY DEF EnginesInv, BooksInv, Booking, Over, Failing, Ended

-----------------------------------------------------------------------------
(* Claim: what its steps are in these terms.                                 *)
LEMMA ClaimGoes ==
  ASSUME EnginesInv, engine' = engine
  PROVE  /\ \A h, place, d, q :
              /\ Claim!Do(h, place, d, q) => Does(h, place, d)
              /\ Claim!Go(h, place) => Does(h, place, db)
              /\ Claim!Write(h, place, d) => Does(h, place, d)
              /\ Claim!Take(h, place, q) => Does(h, place, db)
              /\ Claim!Throw(h, place, q) => Does(h, place, db)
              /\ Claim!Try(h, place, d) =>
                   Does(h, place, d) \/ Does(h, place, db)
         /\ \A s, place, q :
              /\ Claim!KoraSigns(s, place) => Asks(s, place)
              /\ Claim!KoraFails(s, place, q) /\ place # "final" => Asks(s, place)
         /\ \A h : Claim!MayStart(h) => MayStart(h) /\ at[h] = "idle"
         /\ Claim!Observable("success") \/ Claim!Matches => Over
         /\ \/ Claim!Observable("expired") \/ Claim!Observable("chain_error") \/ Claim!Mismatches
            => Failing
         /\ Claim!Mismatches => AccountLag
<1>1. ASSUME NEW h, NEW place, NEW d, NEW q
      PROVE  /\ Claim!Do(h, place, d, q) => Does(h, place, d)
             /\ Claim!Go(h, place) => Does(h, place, db)
             /\ Claim!Write(h, place, d) => Does(h, place, d)
             /\ Claim!Take(h, place, q) => Does(h, place, db)
             /\ Claim!Throw(h, place, q) => Does(h, place, db)
             /\ Claim!Try(h, place, d) =>
                  Does(h, place, d) \/ Does(h, place, db)
  BY DEF Claim!Do, Claim!Go, Claim!Write, Claim!Take, Claim!Throw, Claim!Try, Does
<1>2. ASSUME NEW s, NEW place, NEW q
      PROVE  /\ Claim!KoraSigns(s, place) => Asks(s, place)
             /\ Claim!KoraFails(s, place, q) /\ place # "final" => Asks(s, place)
  BY DEF Claim!KoraSigns, Claim!KoraFails, Claim!Chain, Asks
<1>3. \A h : Claim!MayStart(h) => MayStart(h) /\ at[h] = "idle"
  BY DEF Claim!MayStart, MayStart, Claim!Handler, Handler, Claim!Started, Started,
         Claim!AtRest, AtRest, Claim!Rest, Rest
<1>4. /\ Claim!Observable("success") \/ Claim!Matches => Over
      /\ \/ Claim!Observable("expired") \/ Claim!Observable("chain_error") \/ Claim!Mismatches
         => Failing
      /\ Claim!Mismatches => AccountLag
  BY DEF Claim!Observable, Claim!Matches, Claim!Mismatches, Over, Failing, Ended
<1> QED BY <1>1, <1>2, <1>3, <1>4

LEMMA ClaimPromise ==
  ASSUME OneConsole, EnginesInv, ConsoleInv, engine = "claim", engine' = engine, Claim!Next
  PROVE  Kept
<1>0. /\ engine # "proof"
      /\ \A h \in Prepares \cup Aborts \cup Submits \cup Polls : h \in Handler
      /\ \A h \in Prepares : h \notin Aborts /\ h \notin Submits /\ h \notin Polls
      /\ \A h \in Aborts : h \notin Prepares /\ h \notin Submits /\ h \notin Polls
      /\ \A h \in Submits : h \notin Prepares /\ h \notin Aborts /\ h \notin Polls
      /\ \A h \in Polls : h \notin Prepares /\ h \notin Aborts /\ h \notin Submits
  BY Kinds DEF Handler
<1> USE DEF May, Reserves, Releases, Knowing, Undone, Sending, Holding, Unreserved, Reserving,
            Says, Lost, Hopeless, Failing, Closing, Doomed, BacksOut, OnRecord
<1>1. ASSUME NEW p \in Prepares, Claim!PrepareLoad(p) PROVE Kept
  <2>1. /\ at[p] = "idle" /\ MayStart(p)
        /\ \/ Does(p, "reserve", db)
           \/ Does(p, "create", db)
    BY <1>1, <1>0, ClaimGoes, ClaimWrites DEF Claim!PrepareLoad
  <2> QED BY <2>1, <1>0, DoesKeeps, Writes
<1>2. ASSUME NEW p \in Prepares, Claim!PrepareCreate(p) PROVE Kept
  <2>1. /\ at[p] = "create"
        /\ \/ db.record.status = "none" /\ Does(p, "persist", RecordCreated)
           \/ Does(p, "ended", db)
    BY <1>2, <1>0, ClaimGoes, ClaimWrites DEF Claim!PrepareCreate
  <2> QED BY <2>1, <1>0, DoesKeeps, Writes
<1>3. ASSUME NEW p \in Prepares, Claim!PreparePersist(p) PROVE Kept
  <2>1. at[p] = "persist" /\ Does(p, "open", QuoteSaved(copy[p]))
    BY <1>3, <1>0, ClaimGoes, ClaimWrites DEF Claim!PreparePersist
  <2> QED BY <2>1, <1>0, DoesKeeps, Writes
<1>4. ASSUME NEW p \in Prepares, Claim!PrepareOpen(p) PROVE Kept
  <2>1. at[p] = "open" /\ Does(p, "reserve", QuoteSaved(Marked(copy[p], "awaiting")))
    BY <1>4, <1>0, ClaimGoes, ClaimWrites DEF Claim!PrepareOpen
  <2> QED BY <2>1, <1>0, DoesKeeps, Writes
<1>5. ASSUME NEW p \in Prepares, Claim!PrepareReserve(p) PROVE Kept
  <2>1. /\ at[p] = "reserve"
        /\ \/ Does(p, "activate", Reserved)
           \/ Does(p, "fail_release", db)
    BY <1>5, <1>0, ClaimGoes, ClaimWrites DEF Claim!PrepareReserve
  <2> QED BY <2>1, <1>0, DoesKeeps, Writes
<1>6. ASSUME NEW p \in Prepares, Claim!PrepareActivate(p) PROVE Kept
  <2>1. /\ at[p] = "activate"
        /\ \/ Does(p, "window", db)
           \/ Does(p, "fail_release", db)
           \/ Does(p, "done", db)
    BY <1>6, <1>0, ClaimGoes, ClaimWrites DEF Claim!PrepareActivate
  <2> QED BY <2>1, <1>0, DoesKeeps, Writes
<1>7. ASSUME NEW p \in Prepares, Claim!PrepareWindow(p) PROVE Kept
  <2>1. at[p] = "window" /\ Does(p, "done", QuoteSaved(copy[p]))
    BY <1>7, <1>0, ClaimGoes, ClaimWrites DEF Claim!PrepareWindow
  <2> QED BY <2>1, <1>0, DoesKeeps, Writes
<1>8. ASSUME NEW a \in Prepares \cup Aborts, Claim!AbortGate(a) PROVE Kept
  <2>1. at[a] = "idle" /\ MayStart(a) /\ a \in Aborts /\ Does(a, "fail_release", db)
    BY <1>8, <1>0, ClaimGoes, ClaimWrites DEF Claim!AbortGate
  <2> QED BY <2>1, <1>0, DoesKeeps, Writes
<1>9. ASSUME NEW a \in Prepares \cup Aborts, Claim!AbortApproval(a) PROVE Kept
  <2>1. /\ at[a] = "idle" /\ MayStart(a) /\ a \in Aborts
        /\ \/ Does(a, "fail_record", db)
           \/ Does(a, "fail_release", db)
    BY <1>9, <1>0, ClaimGoes, ClaimWrites DEF Claim!AbortApproval
  <2> QED BY <2>1, <1>0, DoesKeeps, Writes
<1>10. ASSUME NEW h \in Prepares \cup Aborts, Claim!FailRelease(h) PROVE Kept
  <2>1. at[h] = "fail_release" /\ Does(h, "fail_record", GivenBack)
    BY <1>10, <1>0, ClaimGoes, ClaimWrites DEF Claim!FailRelease
  <2> QED BY <2>1, <1>0, DoesKeeps, Writes
<1>11. ASSUME NEW h \in Prepares \cup Aborts, Claim!FailRecord(h) PROVE Kept
  <2>1. at[h] = "fail_record" /\ Does(h, "fail_quote", RecordSet("failed"))
    BY <1>11, <1>0, ClaimGoes, ClaimWrites DEF Claim!FailRecord
  <2> QED BY <2>1, <1>0, DoesKeeps, Writes
<1>12. ASSUME NEW h \in Prepares \cup Aborts, Claim!FailQuote(h) PROVE Kept
  <2>1. at[h] = "fail_quote" /\ Does(h, "ended", QuoteSaved(copy[h]))
    BY <1>12, <1>0, ClaimGoes, ClaimWrites DEF Claim!FailQuote
  <2> QED BY <2>1, <1>0, DoesKeeps, Writes
<1>13. ASSUME NEW s \in Submits, Claim!SubmitLoad(s) PROVE Kept
  <2>1. /\ at[s] = "idle" /\ MayStart(s)
        /\ \/ Does(s, "done", db)
           \/ Does(s, "observe", db)
           \/ Does(s, "lock", db)
    BY <1>13, <1>0, ClaimGoes, ClaimWrites DEF Claim!SubmitLoad
  <2> QED BY <2>1, <1>0, DoesKeeps, Writes
<1>14. ASSUME NEW s \in Submits, Claim!SubmitLock(s) PROVE Kept
  <2>1. /\ at[s] = "lock"
        /\ \/ Does(s, "check", LockedBy(s))
           \/ Does(s, "undo", db)
    BY <1>14, <1>0, ClaimGoes, ClaimWrites DEF Claim!SubmitLock, Claim!Early, Claim!Crossed
  <2> QED BY <2>1, <1>0, DoesKeeps, Writes
<1>15. ASSUME NEW s \in Submits, Claim!SubmitCheck(s) PROVE Kept
  <2>1. /\ at[s] = "check"
        /\ \/ Does(s, "cross", db)
           \/ Does(s, "undo", db)
    BY <1>15, <1>0, ClaimGoes, ClaimWrites
       DEF Claim!SubmitCheck, Claim!Early, Claim!Crossed
  <2> QED BY <2>1, <1>0, DoesKeeps, Writes
<1>16. ASSUME NEW s \in Submits, Claim!SubmitCross(s) PROVE Kept
  <2>1. /\ at[s] = "cross"
        /\ \/ Does(s, "undo", db)
           \/ Does(s, "relay", QuoteSaved(Part(copy[s], "relaying")))
           \/ Does(s, "catch_quote", db)
    BY <1>16, <1>0, ClaimGoes, ClaimWrites
       DEF Claim!SubmitCross, Claim!Early, Claim!Crossed
  <2> QED BY <2>1, <1>0, DoesKeeps, Writes
<1>17. ASSUME NEW s \in Submits, Claim!SubmitRelay(s) PROVE Kept
  <2>1. /\ at[s] = "relay"
        /\ \/ Does(s, "kora", RecordSet("relaying"))
           \/ Does(s, "catch_quote", db)
    BY <1>17, <1>0, ClaimGoes, ClaimWrites
       DEF Claim!SubmitRelay, Claim!Early, Claim!Crossed
  <2> QED BY <2>1, <1>0, DoesKeeps, Writes
<1>18. ASSUME NEW s \in Submits, Claim!SubmitKora(s) PROVE Kept
  <2>1. \/ Asks(s, "final")
        \/ Asks(s, "catch_quote")
    BY <1>18, <1>0, ClaimGoes, ClaimWrites DEF Claim!SubmitKora, Claim!Early, Claim!Crossed
  <2> QED BY <2>1, <1>0, AskingKeeps, AskingSays DEF Kept, ConsoleInv
<1>19. ASSUME NEW s \in Submits, Claim!SubmitFinal(s) PROVE Kept
  <2>1. /\ at[s] = "final"
        /\ \/ Does(s, "record", db)
           \/ Does(s, "catch_quote", db)
    BY <1>19, <1>0, ClaimGoes, ClaimWrites
       DEF Claim!SubmitFinal, Claim!Early, Claim!Crossed
  <2> QED BY <2>1, <1>0, DoesKeeps, Writes
<1>20. ASSUME NEW s \in Submits, Claim!SubmitRecord(s) PROVE Kept
  <2>1. at[s] = "record" /\ Does(s, "save", RecordSigned)
    BY <1>20, <1>0, ClaimGoes, ClaimWrites DEF Claim!SubmitRecord
  <2> QED BY <2>1, <1>0, DoesKeeps, Writes, Held DEF Exists, Unrecorded
<1>21. ASSUME NEW s \in Submits, Claim!SubmitSave(s) PROVE Kept
  <2>1. at[s] = "save" /\ Does(s, "broadcast", QuoteSaved(copy[s]))
    BY <1>21, <1>0, ClaimGoes, ClaimWrites DEF Claim!SubmitSave
  <2> QED BY <2>1, <1>0, DoesKeeps, Writes
<1>22. ASSUME NEW s \in Submits, Claim!SubmitBroadcast(s) PROVE Kept
  <2>1. Sends(s, "observe", copy[s])
    BY <1>22, <1>0, ClaimGoes, ClaimMoves DEF Claim!SubmitBroadcast
  <2> QED BY <2>1, <1>0, SendingKeeps, SendingSays DEF Kept, ConsoleInv
<1>23. ASSUME NEW s \in Submits, Claim!CatchUndo(s) PROVE Kept
  <2>1. at[s] = "undo" /\ Does(s, "catch_quote", Unlocked(s))
    BY <1>23, <1>0, ClaimGoes, ClaimWrites DEF Claim!CatchUndo
  <2> QED BY <2>1, <1>0, DoesKeeps, Writes
<1>24. ASSUME NEW s \in Submits, Claim!CatchQuote(s) PROVE Kept
  <2>1. /\ at[s] = "catch_quote"
        /\ \/ Does(s, "catch_record", QuoteSaved(copy[s]))
           \/ Does(s, "catch_record", db)
    BY <1>24, <1>0, ClaimGoes, ClaimWrites DEF Claim!CatchQuote
  <2> QED BY <2>1, <1>0, DoesKeeps, Writes
<1>25. ASSUME NEW s \in Submits, Claim!CatchRecord(s) PROVE Kept
  <2>1. /\ at[s] = "catch_record"
        /\ \/ Does(s, "ended", RecordSet(copy[s].part))
           \/ Does(s, "ended", db)
    BY <1>25, <1>0, ClaimGoes, ClaimWrites DEF Claim!CatchRecord
  <2> QED BY <2>1, <1>0, DoesKeeps, Writes
<1>26. ASSUME NEW s \in Submits, Claim!SubmitObserve(s) PROVE Kept
  <2>1. /\ at[s] = "observe"
        /\ \/ Does(s, "confirm", db)
           \/ Failing /\ Does(s, "expire", db)
           \/ Does(s, "close", db)
           \/ Does(s, "ended", db)
    BY <1>26, <1>0, ClaimGoes, ClaimWrites, Seen
       DEF Claim!SubmitObserve, Claim!Finish, Claim!Resuming
  <2> QED BY <2>1, <1>0, DoesKeeps, Writes
<1>27. ASSUME NEW s \in Submits, Claim!SubmitConfirm(s) PROVE Kept
  <2>1. /\ at[s] = "confirm"
        /\ \/ Does(s, "close", db)
           \/ Does(s, "ended", db)
           \/ Over /\ Does(s, "account", RecordSet("reconciled"))
           \/ AccountLag /\ Does(s, "close", RecordSet("failed"))
           \/ AccountLag /\ Does(s, "ended", RecordSet("failed"))
    BY <1>27, <1>0, ClaimGoes, ClaimWrites, Seen
       DEF Claim!SubmitConfirm, Claim!Finish, Claim!Resuming
  <2> QED BY <2>1, <1>0, DoesKeeps, Writes
<1>28. ASSUME NEW s \in Submits, Claim!SubmitAccount(s) PROVE Kept
  <2>1. at[s] = "account" /\ Does(s, "close", Booked)
    BY <1>28, <1>0, ClaimGoes, ClaimWrites
       DEF Claim!SubmitAccount, Claim!Finish, Claim!Resuming
  <2> QED BY <2>1, <1>0, DoesKeeps, Writes
<1>29. ASSUME NEW s \in Submits, Claim!SubmitExpire(s) PROVE Kept
  <2>1. /\ at[s] = "expire"
        /\ \/ Does(s, "end_release", db)
           \/ Does(s, "close", db)
           \/ Does(s, "ended", db)
    BY <1>29, <1>0, ClaimGoes, ClaimWrites
       DEF Claim!SubmitExpire, Claim!Finish, Claim!Resuming
  <2> QED BY <2>1, <1>0, DoesKeeps, Writes
<1>30. ASSUME NEW s \in Submits, Claim!SubmitClose(s) PROVE Kept
  <2>1. /\ at[s] = "close"
        /\ \/ Over /\ Does(s, "thank", QuoteSaved(copy[s]))
           \/ Does(s, "ended", QuoteSaved(copy[s]))
    BY <1>30, <1>0, ClaimGoes, ClaimWrites, Seen DEF Claim!SubmitClose
  <2> QED BY <2>1, <1>0, DoesKeeps, Writes
<1>31. ASSUME NEW s \in Submits, Claim!SubmitThank(s) PROVE Kept
  <2>1. /\ at[s] = "thank"
        /\ \/ Does(s, "done", GivenBack)
           \/ Does(s, "done", db)
    BY <1>31, <1>0, ClaimGoes, ClaimWrites DEF Claim!SubmitThank
  <2> QED BY <2>1, <1>0, DoesKeeps, Writes
<1>32. ASSUME NEW h \in Submits \cup Polls, Claim!EndRecord(h) PROVE Kept
  <2>1. /\ at[h] = "end_record"
        /\ \/ h \in Submits /\ Does(h, "close", RecordSet("failed"))
           \/ h \in Submits /\ Does(h, "ended", RecordSet("failed"))
           \/ h \notin Submits /\ Does(h, "idle", RecordSet("failed"))
    BY <1>32, <1>0, ClaimGoes, ClaimWrites
       DEF Claim!EndRecord, Claim!Finish, Claim!Resuming
  <2> QED BY <2>1, <1>0, DoesKeeps, Writes
<1>33. ASSUME NEW q \in Polls, Claim!PollLoad(q) PROVE Kept
  <2>1. at[q] = "idle" /\ MayStart(q) /\ Does(q, "observe", db)
    BY <1>33, <1>0, ClaimGoes, ClaimWrites DEF Claim!PollLoad
  <2> QED BY <2>1, <1>0, DoesKeeps, Writes
<1>34. ASSUME NEW q \in Polls, Claim!PollPending(q) PROVE Kept
  <2>1. at[q] \in {"observe", "confirm"} /\ Does(q, "idle", db)
    BY <1>34, <1>0, ClaimGoes, ClaimWrites DEF Claim!PollPending
  <2> QED BY <2>1, <1>0, DoesKeeps, Writes
<1>35. ASSUME NEW q \in Polls, Claim!PollDecided(q) PROVE Kept
  <2>1. /\ at[q] \in {"observe", "confirm"}
        /\ \/ Does(q, "confirm", db)
           \/ Failing /\ Does(q, "end_release", db)
           \/ Over /\ Does(q, "poll_account", db)
    BY <1>35, <1>0, ClaimGoes, ClaimWrites, Seen DEF Claim!PollDecided
  <2> QED BY <2>1, <1>0, DoesKeeps, Writes
<1>36. ASSUME NEW q \in Polls, Claim!PollAccount(q) PROVE Kept
  <2>1. at[q] = "poll_account" /\ Does(q, "poll_release", Booked)
    BY <1>36, <1>0, ClaimGoes, ClaimWrites DEF Claim!PollAccount
  <2> QED BY <2>1, <1>0, DoesKeeps, Writes
<1>37. ASSUME NEW q \in Polls, Claim!PollRelease(q) PROVE Kept
  <2>1. at[q] = "poll_release" /\ Does(q, "poll_record", GivenBack)
    BY <1>37, <1>0, ClaimGoes, ClaimWrites DEF Claim!PollRelease
  <2> QED BY <2>1, <1>0, DoesKeeps, Writes
<1>38. ASSUME NEW q \in Polls, Claim!PollRecord(q) PROVE Kept
  <2>1. at[q] = "poll_record" /\ Does(q, "idle", RecordSet("reconciled"))
    BY <1>38, <1>0, ClaimGoes, ClaimWrites DEF Claim!PollRecord
  <2> QED BY <2>1, <1>0, DoesKeeps, Writes
<1>39. ASSUME NEW h \in Submits \cup Polls, Claim!EndRelease(h) PROVE Kept
  <2>1. at[h] = "end_release" /\ Does(h, "end_record", GivenBack)
    BY <1>39, <1>0, ClaimGoes, ClaimWrites DEF Claim!EndRelease
  <2> QED BY <2>1, <1>0, DoesKeeps, Writes
<1>40. ASSUME Claim!Surroundings PROVE Kept
  BY <1>40, <1>0, ClaimMoves, SurroundingsKeep, SurroundingsSay
     DEF Kept, ConsoleInv
<1>41. ASSUME NEW p \in Prepares, Claim!Prepare(p) PROVE Kept
  BY <1>41, <1>1, <1>2, <1>3, <1>4, <1>5, <1>6, <1>7 DEF Claim!Prepare
<1>42. ASSUME NEW h \in Prepares \cup Aborts, Claim!Abort(h) PROVE Kept
  BY <1>42, <1>8, <1>9, <1>10, <1>11, <1>12 DEF Claim!Abort
<1>43. ASSUME NEW s \in Submits, Claim!Submit(s) PROVE Kept
  BY <1>43, <1>13, <1>14, <1>15, <1>16, <1>17, <1>18, <1>19, <1>20, <1>21, <1>22 DEF Claim!Submit
<1>44. ASSUME NEW s \in Submits, Claim!Catch(s) PROVE Kept
  BY <1>44, <1>23, <1>24, <1>25 DEF Claim!Catch
<1>45. ASSUME NEW s \in Submits, Claim!Settle(s) PROVE Kept
  BY <1>45, <1>26, <1>27, <1>28, <1>29, <1>30, <1>31 DEF Claim!Settle
<1>46. ASSUME NEW q \in Polls, Claim!Poll(q) PROVE Kept
  BY <1>46, <1>33, <1>34, <1>35, <1>36, <1>37, <1>38, <1>39, <1>32 DEF Claim!Poll
<1> QED
  BY <1>32, <1>39, <1>40, <1>41, <1>42, <1>43, <1>44, <1>45, <1>46 DEF Claim!Next

-----------------------------------------------------------------------------
(* Send: what its steps are in these terms.                                 *)
LEMMA SendGoes ==
  ASSUME EnginesInv, engine' = engine
  PROVE  /\ \A h, place, d, q :
              /\ Send!Do(h, place, d, q) => Does(h, place, d)
              /\ Send!Go(h, place) => Does(h, place, db)
              /\ Send!Write(h, place, d) => Does(h, place, d)
              /\ Send!Take(h, place, q) => Does(h, place, db)
              /\ Send!Throw(h, place, q) => Does(h, place, db)
              /\ Send!Try(h, place, d) =>
                   Does(h, place, d) \/ Does(h, place, db)
         /\ \A s, place, q :
              /\ Send!KoraSigns(s, place) => Asks(s, place)
              /\ Send!KoraFails(s, place, q) /\ place # "final" => Asks(s, place)
         /\ \A h : Send!MayStart(h) => MayStart(h) /\ at[h] = "idle"
         /\ Send!Observable("success") \/ Send!Matches => Over
         /\ \/ Send!Observable("expired") \/ Send!Observable("chain_error") \/ Send!Mismatches
            => Failing
         /\ Send!Mismatches => AccountLag
<1>1. ASSUME NEW h, NEW place, NEW d, NEW q
      PROVE  /\ Send!Do(h, place, d, q) => Does(h, place, d)
             /\ Send!Go(h, place) => Does(h, place, db)
             /\ Send!Write(h, place, d) => Does(h, place, d)
             /\ Send!Take(h, place, q) => Does(h, place, db)
             /\ Send!Throw(h, place, q) => Does(h, place, db)
             /\ Send!Try(h, place, d) =>
                  Does(h, place, d) \/ Does(h, place, db)
  BY DEF Send!Do, Send!Go, Send!Write, Send!Take, Send!Throw, Send!Try, Does
<1>2. ASSUME NEW s, NEW place, NEW q
      PROVE  /\ Send!KoraSigns(s, place) => Asks(s, place)
             /\ Send!KoraFails(s, place, q) /\ place # "final" => Asks(s, place)
  BY DEF Send!KoraSigns, Send!KoraFails, Send!Chain, Asks
<1>3. \A h : Send!MayStart(h) => MayStart(h) /\ at[h] = "idle"
  BY DEF Send!MayStart, MayStart, Send!Handler, Handler, Send!Started, Started,
         Send!AtRest, AtRest, Send!Rest, Rest
<1>4. /\ Send!Observable("success") \/ Send!Matches => Over
      /\ \/ Send!Observable("expired") \/ Send!Observable("chain_error") \/ Send!Mismatches
         => Failing
      /\ Send!Mismatches => AccountLag
  BY DEF Send!Observable, Send!Matches, Send!Mismatches, Over, Failing, Ended
<1> QED BY <1>1, <1>2, <1>3, <1>4

LEMMA SendPromise ==
  ASSUME OneConsole, EnginesInv, ConsoleInv, engine = "send", engine' = engine, Send!Next
  PROVE  Kept
<1>0. /\ engine # "proof"
      /\ \A h \in Prepares \cup Aborts \cup Submits \cup Polls : h \in Handler
      /\ \A h \in Prepares : h \notin Aborts /\ h \notin Submits /\ h \notin Polls
      /\ \A h \in Aborts : h \notin Prepares /\ h \notin Submits /\ h \notin Polls
      /\ \A h \in Submits : h \notin Prepares /\ h \notin Aborts /\ h \notin Polls
      /\ \A h \in Polls : h \notin Prepares /\ h \notin Aborts /\ h \notin Submits
  BY Kinds DEF Handler
<1> USE DEF May, Reserves, Releases, Knowing, Undone, Sending, Holding, Unreserved, Reserving,
            Says, Lost, Hopeless, Failing, Closing, Doomed, BacksOut, OnRecord
<1>1. ASSUME NEW p \in Prepares, Send!PrepareLoad(p) PROVE Kept
  <2>1. /\ at[p] = "idle" /\ MayStart(p)
        /\ \/ Does(p, "reserve", db)
           \/ Does(p, "create", db)
    BY <1>1, <1>0, SendGoes, SendWrites DEF Send!PrepareLoad
  <2> QED BY <2>1, <1>0, DoesKeeps, Writes
<1>2. ASSUME NEW p \in Prepares, Send!PrepareCreate(p) PROVE Kept
  <2>1. /\ at[p] = "create"
        /\ \/ db.record.status = "none" /\ Does(p, "persist", RecordCreated)
           \/ Does(p, "ended", db)
    BY <1>2, <1>0, SendGoes, SendWrites DEF Send!PrepareCreate
  <2> QED BY <2>1, <1>0, DoesKeeps, Writes
<1>3. ASSUME NEW p \in Prepares, Send!PreparePersist(p) PROVE Kept
  <2>1. at[p] = "persist" /\ Does(p, "reserve", QuoteSaved(copy[p]))
    BY <1>3, <1>0, SendGoes, SendWrites DEF Send!PreparePersist
  <2> QED BY <2>1, <1>0, DoesKeeps, Writes
<1>4. ASSUME NEW p \in Prepares, Send!PrepareReserve(p) PROVE Kept
  <2>1. /\ at[p] = "reserve"
        /\ \/ Does(p, "activate", Reserved)
           \/ Does(p, "fail_release", db)
    BY <1>4, <1>0, SendGoes, SendWrites DEF Send!PrepareReserve
  <2> QED BY <2>1, <1>0, DoesKeeps, Writes
<1>5. ASSUME NEW p \in Prepares, Send!PrepareActivate(p) PROVE Kept
  <2>1. /\ at[p] = "activate"
        /\ \/ Does(p, "window", db)
           \/ Does(p, "fail_release", db)
           \/ Does(p, "done", db)
    BY <1>5, <1>0, SendGoes, SendWrites DEF Send!PrepareActivate
  <2> QED BY <2>1, <1>0, DoesKeeps, Writes
<1>6. ASSUME NEW p \in Prepares, Send!PrepareWindow(p) PROVE Kept
  <2>1. at[p] = "window" /\ Does(p, "done", QuoteSaved(copy[p]))
    BY <1>6, <1>0, SendGoes, SendWrites DEF Send!PrepareWindow
  <2> QED BY <2>1, <1>0, DoesKeeps, Writes
<1>7. ASSUME NEW a \in Prepares \cup Aborts, Send!AbortLoad(a) PROVE Kept
  <2>1. at[a] = "idle" /\ MayStart(a) /\ a \in Aborts /\ Does(a, "fail_release", db)
    BY <1>7, <1>0, SendGoes, SendWrites DEF Send!AbortLoad
  <2> QED BY <2>1, <1>0, DoesKeeps, Writes
<1>8. ASSUME NEW h \in Prepares \cup Aborts, Send!FailRelease(h) PROVE Kept
  <2>1. at[h] = "fail_release" /\ Does(h, "fail_record", GivenBack)
    BY <1>8, <1>0, SendGoes, SendWrites DEF Send!FailRelease
  <2> QED BY <2>1, <1>0, DoesKeeps, Writes
<1>9. ASSUME NEW h \in Prepares \cup Aborts, Send!FailRecord(h) PROVE Kept
  <2>1. at[h] = "fail_record" /\ Does(h, "fail_quote", RecordSet("failed"))
    BY <1>9, <1>0, SendGoes, SendWrites DEF Send!FailRecord
  <2> QED BY <2>1, <1>0, DoesKeeps, Writes
<1>10. ASSUME NEW h \in Prepares \cup Aborts, Send!FailQuote(h) PROVE Kept
  <2>1. at[h] = "fail_quote" /\ Does(h, "ended", QuoteSaved(copy[h]))
    BY <1>10, <1>0, SendGoes, SendWrites DEF Send!FailQuote
  <2> QED BY <2>1, <1>0, DoesKeeps, Writes
<1>11. ASSUME NEW s \in Submits, Send!SubmitLoad(s) PROVE Kept
  <2>1. /\ at[s] = "idle" /\ MayStart(s)
        /\ \/ Over /\ Does(s, "thank", db)
           \/ Does(s, "observe", db)
           \/ Does(s, "lock", db)
    BY <1>11, <1>0, SendGoes, SendWrites, Seen DEF Send!SubmitLoad
  <2> QED BY <2>1, <1>0, DoesKeeps, Writes
<1>12. ASSUME NEW s \in Submits, Send!SubmitLock(s) PROVE Kept
  <2>1. /\ at[s] = "lock"
        /\ \/ Does(s, "check", LockedBy(s))
           \/ Does(s, "undo", db)
    BY <1>12, <1>0, SendGoes, SendWrites DEF Send!SubmitLock, Send!Early, Send!Crossed
  <2> QED BY <2>1, <1>0, DoesKeeps, Writes
<1>13. ASSUME NEW s \in Submits, Send!SubmitCheck(s) PROVE Kept
  <2>1. /\ at[s] = "check"
        /\ \/ Does(s, "cross", db)
           \/ Does(s, "undo", db)
    BY <1>13, <1>0, SendGoes, SendWrites DEF Send!SubmitCheck, Send!Early, Send!Crossed
  <2> QED BY <2>1, <1>0, DoesKeeps, Writes
<1>14. ASSUME NEW s \in Submits, Send!SubmitCross(s) PROVE Kept
  <2>1. /\ at[s] = "cross"
        /\ \/ Does(s, "undo", db)
           \/ Does(s, "relay", QuoteSaved(Marked(copy[s], "relaying")))
           \/ Does(s, "catch_quote", db)
    BY <1>14, <1>0, SendGoes, SendWrites DEF Send!SubmitCross, Send!Early, Send!Crossed
  <2> QED BY <2>1, <1>0, DoesKeeps, Writes
<1>15. ASSUME NEW s \in Submits, Send!SubmitRelay(s) PROVE Kept
  <2>1. /\ at[s] = "relay"
        /\ \/ Does(s, "kora", RecordSet("relaying"))
           \/ Does(s, "catch_quote", db)
    BY <1>15, <1>0, SendGoes, SendWrites DEF Send!SubmitRelay, Send!Early, Send!Crossed
  <2> QED BY <2>1, <1>0, DoesKeeps, Writes
<1>16. ASSUME NEW s \in Submits, Send!SubmitKora(s) PROVE Kept
  <2>1. \/ Asks(s, "final")
        \/ Asks(s, "catch_quote")
    BY <1>16, <1>0, SendGoes, SendWrites DEF Send!SubmitKora, Send!Early, Send!Crossed
  <2> QED BY <2>1, <1>0, AskingKeeps, AskingSays DEF Kept, ConsoleInv
<1>17. ASSUME NEW s \in Submits, Send!SubmitFinal(s) PROVE Kept
  <2>1. /\ at[s] = "final"
        /\ \/ Does(s, "record", db)
           \/ Does(s, "catch_quote", db)
    BY <1>17, <1>0, SendGoes, SendWrites DEF Send!SubmitFinal, Send!Early, Send!Crossed
  <2> QED BY <2>1, <1>0, DoesKeeps, Writes
<1>18. ASSUME NEW s \in Submits, Send!SubmitRecord(s) PROVE Kept
  <2>1. at[s] = "record" /\ Does(s, "save", RecordSigned)
    BY <1>18, <1>0, SendGoes, SendWrites DEF Send!SubmitRecord
  <2> QED BY <2>1, <1>0, DoesKeeps, Writes, Held DEF Exists, Unrecorded
<1>19. ASSUME NEW s \in Submits, Send!SubmitSave(s) PROVE Kept
  <2>1. at[s] = "save" /\ Does(s, "broadcast", QuoteSaved(copy[s]))
    BY <1>19, <1>0, SendGoes, SendWrites DEF Send!SubmitSave
  <2> QED BY <2>1, <1>0, DoesKeeps, Writes
<1>20. ASSUME NEW s \in Submits, Send!SubmitBroadcast(s) PROVE Kept
  <2>1. Sends(s, "observe", copy[s])
    BY <1>20, <1>0, SendGoes, SendMoves DEF Send!SubmitBroadcast
  <2> QED BY <2>1, <1>0, SendingKeeps, SendingSays DEF Kept, ConsoleInv
<1>21. ASSUME NEW s \in Submits, Send!CatchUndo(s) PROVE Kept
  <2>1. at[s] = "undo" /\ Does(s, "catch_quote", Unlocked(s))
    BY <1>21, <1>0, SendGoes, SendWrites DEF Send!CatchUndo
  <2> QED BY <2>1, <1>0, DoesKeeps, Writes
<1>22. ASSUME NEW s \in Submits, Send!CatchQuote(s) PROVE Kept
  <2>1. /\ at[s] = "catch_quote"
        /\ \/ Does(s, "catch_record", QuoteSaved(copy[s]))
           \/ Does(s, "catch_record", db)
    BY <1>22, <1>0, SendGoes, SendWrites DEF Send!CatchQuote
  <2> QED BY <2>1, <1>0, DoesKeeps, Writes
<1>23. ASSUME NEW s \in Submits, Send!CatchRecord(s) PROVE Kept
  <2>1. /\ at[s] = "catch_record"
        /\ \/ Does(s, "ended", RecordSet(copy[s].part))
           \/ Does(s, "ended", db)
    BY <1>23, <1>0, SendGoes, SendWrites DEF Send!CatchRecord
  <2> QED BY <2>1, <1>0, DoesKeeps, Writes
<1>24. ASSUME NEW s \in Submits, Send!Thank(s) PROVE Kept
  <2>1. /\ at[s] = "thank"
        /\ \/ Does(s, "done", GivenBack)
           \/ Does(s, "done", db)
    BY <1>24, <1>0, SendGoes, SendWrites DEF Send!Thank
  <2> QED BY <2>1, <1>0, DoesKeeps, Writes
<1>25. ASSUME NEW q \in Polls, Send!PollLoad(q) PROVE Kept
  <2>1. at[q] = "idle" /\ MayStart(q) /\ Does(q, "observe", db)
    BY <1>25, <1>0, SendGoes, SendWrites DEF Send!PollLoad
  <2> QED BY <2>1, <1>0, DoesKeeps, Writes
<1>26. ASSUME NEW h \in Submits \cup Polls, Send!Pending(h) PROVE Kept
  <2>1. at[h] \in {"observe", "confirm"} /\ Does(h, "close", db)
    BY <1>26, <1>0, SendGoes, SendWrites DEF Send!Pending
  <2> QED BY <2>1, <1>0, DoesKeeps, Writes
<1>27. ASSUME NEW h \in Submits \cup Polls, Send!Decided(h) PROVE Kept
  <2>1. /\ at[h] \in {"observe", "confirm"}
        /\ \/ Does(h, "confirm", db)
           \/ Failing /\ Does(h, "end_release", RecordSet("failed"))
           \/ Does(h, "close", db)
           \/ Over /\ Does(h, "account", RecordSet("reconciled"))
    BY <1>27, <1>0, SendGoes, SendWrites, Seen DEF Send!Decided
  <2> QED BY <2>1, <1>0, DoesKeeps, Writes
<1>28. ASSUME NEW h \in Submits \cup Polls, Send!EndRelease(h) PROVE Kept
  <2>1. /\ at[h] = "end_release"
        /\ \/ Does(h, "close", GivenBack)
           \/ Does(h, "close", db)
    BY <1>28, <1>0, SendGoes, SendWrites DEF Send!EndRelease
  <2> QED BY <2>1, <1>0, DoesKeeps, Writes
<1>29. ASSUME NEW h \in Submits \cup Polls, Send!Account(h) PROVE Kept
  <2>1. at[h] = "account" /\ Does(h, "giveback", Booked)
    BY <1>29, <1>0, SendGoes, SendWrites DEF Send!Account
  <2> QED BY <2>1, <1>0, DoesKeeps, Writes
<1>30. ASSUME NEW h \in Submits \cup Polls, Send!GiveBack(h) PROVE Kept
  <2>1. /\ at[h] = "giveback"
        /\ \/ Does(h, "close", GivenBack)
           \/ Does(h, "close", db)
    BY <1>30, <1>0, SendGoes, SendWrites DEF Send!GiveBack
  <2> QED BY <2>1, <1>0, DoesKeeps, Writes
<1>31. ASSUME NEW h \in Submits \cup Polls, Send!Close(h) PROVE Kept
  <2>1. /\ at[h] = "close"
        /\ \/ h \notin Submits /\ Does(h, "idle", QuoteSaved(copy[h]))
           \/ Does(h, "done", QuoteSaved(copy[h]))
           \/ Does(h, "ended", QuoteSaved(copy[h]))
    BY <1>31, <1>0, SendGoes, SendWrites DEF Send!Close
  <2> QED BY <2>1, <1>0, DoesKeeps, Writes
<1>32. ASSUME Send!Surroundings PROVE Kept
  BY <1>32, <1>0, SendMoves, SurroundingsKeep, SurroundingsSay
     DEF Kept, ConsoleInv
<1>33. ASSUME NEW p \in Prepares, Send!Prepare(p) PROVE Kept
  BY <1>33, <1>1, <1>2, <1>3, <1>4, <1>5, <1>6 DEF Send!Prepare
<1>34. ASSUME NEW h \in Prepares \cup Aborts, Send!Abort(h) PROVE Kept
  BY <1>34, <1>7, <1>8, <1>9, <1>10 DEF Send!Abort
<1>35. ASSUME NEW s \in Submits, Send!Submit(s) PROVE Kept
  BY <1>35, <1>11, <1>12, <1>13, <1>14, <1>15, <1>16, <1>17, <1>18, <1>19, <1>20 DEF Send!Submit
<1>36. ASSUME NEW s \in Submits, Send!Catch(s) PROVE Kept
  BY <1>36, <1>21, <1>22, <1>23 DEF Send!Catch
<1>37. ASSUME NEW h \in Submits \cup Polls, Send!Settle(h) PROVE Kept
  BY <1>37, <1>27, <1>28, <1>29, <1>30, <1>31 DEF Send!Settle
<1> QED
  BY <1>24, <1>25, <1>26, <1>32, <1>33, <1>34, <1>35, <1>36, <1>37 DEF Send!Next

-----------------------------------------------------------------------------
(* Recover: what its steps are in these terms.                                 *)
LEMMA RecoverGoes ==
  ASSUME EnginesInv, engine' = engine
  PROVE  /\ \A h, place, d, q :
              /\ Recover!Do(h, place, d, q) => Does(h, place, d)
              /\ Recover!Go(h, place) => Does(h, place, db)
              /\ Recover!Write(h, place, d) => Does(h, place, d)
              /\ Recover!Take(h, place, q) => Does(h, place, db)
              /\ Recover!Throw(h, place, q) => Does(h, place, db)
              /\ Recover!Try(h, place, d) =>
                   Does(h, place, d) \/ Does(h, place, db)
         /\ \A s, place, q :
              /\ Recover!KoraSigns(s, place) => Asks(s, place)
              /\ Recover!KoraFails(s, place, q) /\ place # "final" => Asks(s, place)
         /\ \A h : Recover!MayStart(h) => MayStart(h) /\ at[h] = "idle"
         /\ Recover!Observable("success") \/ Recover!Matches => Over
         /\ \/ Recover!Observable("expired") \/ Recover!Observable("chain_error")
            \/ Recover!Mismatches
            => Failing
         /\ Recover!Mismatches => AccountLag
<1>1. ASSUME NEW h, NEW place, NEW d, NEW q
      PROVE  /\ Recover!Do(h, place, d, q) => Does(h, place, d)
             /\ Recover!Go(h, place) => Does(h, place, db)
             /\ Recover!Write(h, place, d) => Does(h, place, d)
             /\ Recover!Take(h, place, q) => Does(h, place, db)
             /\ Recover!Throw(h, place, q) => Does(h, place, db)
             /\ Recover!Try(h, place, d) =>
                  Does(h, place, d) \/ Does(h, place, db)
  BY DEF Recover!Do, Recover!Go, Recover!Write, Recover!Take, Recover!Throw, Recover!Try, Does
<1>2. ASSUME NEW s, NEW place, NEW q
      PROVE  /\ Recover!KoraSigns(s, place) => Asks(s, place)
             /\ Recover!KoraFails(s, place, q) /\ place # "final" => Asks(s, place)
  BY DEF Recover!KoraSigns, Recover!KoraFails, Recover!Chain, Asks
<1>3. \A h : Recover!MayStart(h) => MayStart(h) /\ at[h] = "idle"
  BY DEF Recover!MayStart, MayStart, Recover!Handler, Handler, Recover!Started, Started,
         Recover!AtRest, AtRest, Recover!Rest, Rest
<1>4. /\ Recover!Observable("success") \/ Recover!Matches => Over
      /\ \/ Recover!Observable("expired") \/ Recover!Observable("chain_error") \/ Recover!Mismatches
         => Failing
      /\ Recover!Mismatches => AccountLag
  BY DEF Recover!Observable, Recover!Matches, Recover!Mismatches, Over, Failing, Ended
<1> QED BY <1>1, <1>2, <1>3, <1>4

LEMMA RecoverPromise ==
  ASSUME OneConsole, EnginesInv, ConsoleInv, engine = "recover", engine' = engine, Recover!Next
  PROVE  Kept
<1>0. /\ engine # "proof"
      /\ \A h \in Prepares \cup Aborts \cup Submits \cup Polls : h \in Handler
      /\ \A h \in Prepares : h \notin Aborts /\ h \notin Submits /\ h \notin Polls
      /\ \A h \in Aborts : h \notin Prepares /\ h \notin Submits /\ h \notin Polls
      /\ \A h \in Submits : h \notin Prepares /\ h \notin Aborts /\ h \notin Polls
      /\ \A h \in Polls : h \notin Prepares /\ h \notin Aborts /\ h \notin Submits
  BY Kinds DEF Handler
<1> USE DEF May, Reserves, Releases, Knowing, Undone, Sending, Holding, Unreserved, Reserving,
            Says, Lost, Hopeless, Failing, Closing, Doomed, BacksOut, OnRecord
<1>1. ASSUME NEW p \in Prepares, Recover!PrepareLoad(p) PROVE Kept
  <2>1. /\ at[p] = "idle" /\ MayStart(p)
        /\ \/ Does(p, "reserve", db)
           \/ Does(p, "create", db)
    BY <1>1, <1>0, RecoverGoes, RecoverWrites DEF Recover!PrepareLoad
  <2> QED BY <2>1, <1>0, DoesKeeps, Writes
<1>2. ASSUME NEW p \in Prepares, Recover!PrepareCreate(p) PROVE Kept
  <2>1. /\ at[p] = "create"
        /\ \/ db.record.status = "none" /\ Does(p, "persist", RecordCreated)
           \/ Does(p, "ended", db)
    BY <1>2, <1>0, RecoverGoes, RecoverWrites DEF Recover!PrepareCreate
  <2> QED BY <2>1, <1>0, DoesKeeps, Writes
<1>3. ASSUME NEW p \in Prepares, Recover!PreparePersist(p) PROVE Kept
  <2>1. at[p] = "persist" /\ Does(p, "reserve", QuoteSaved(copy[p]))
    BY <1>3, <1>0, RecoverGoes, RecoverWrites DEF Recover!PreparePersist
  <2> QED BY <2>1, <1>0, DoesKeeps, Writes
<1>4. ASSUME NEW p \in Prepares, Recover!PrepareReserve(p) PROVE Kept
  <2>1. /\ at[p] = "reserve"
        /\ \/ Does(p, "activate", Reserved)
           \/ Does(p, "cleanup", db)
    BY <1>4, <1>0, RecoverGoes, RecoverWrites DEF Recover!PrepareReserve
  <2> QED BY <2>1, <1>0, DoesKeeps, Writes
<1>5. ASSUME NEW p \in Prepares, Recover!PrepareActivate(p) PROVE Kept
  <2>1. /\ at[p] = "activate"
        /\ \/ Does(p, "window", db)
           \/ Does(p, "cleanup", db)
    BY <1>5, <1>0, RecoverGoes, RecoverWrites DEF Recover!PrepareActivate
  <2> QED BY <2>1, <1>0, DoesKeeps, Writes
<1>6. ASSUME NEW p \in Prepares, Recover!PrepareWindow(p) PROVE Kept
  <2>1. at[p] = "window" /\ Does(p, "done", QuoteSaved(copy[p]))
    BY <1>6, <1>0, RecoverGoes, RecoverWrites DEF Recover!PrepareWindow
  <2> QED BY <2>1, <1>0, DoesKeeps, Writes
<1>7. ASSUME NEW a \in Prepares \cup Aborts \cup Submits, Recover!AbortLoad(a) PROVE Kept
  <2>1. at[a] = "idle" /\ MayStart(a) /\ a \in Aborts /\ Does(a, "cleanup", db)
    BY <1>7, <1>0, RecoverGoes, RecoverWrites DEF Recover!AbortLoad
  <2> QED BY <2>1, <1>0, DoesKeeps, Writes
<1>8. ASSUME NEW h \in Prepares \cup Aborts \cup Submits, Recover!Cleanup(h) PROVE Kept
  <2>1. /\ at[h] = "cleanup"
        /\ \/ Does(h, "ended", db)
           \/ Does(h, "fail_release", db)
           \/ Does(h, "again", db)
    BY <1>8, <1>0, RecoverGoes, RecoverWrites DEF Recover!Cleanup
  <2> QED BY <2>1, <1>0, DoesKeeps, Writes
<1>9. ASSUME NEW h \in Prepares \cup Aborts \cup Submits, Recover!FailRelease(h) PROVE Kept
  <2>1. /\ at[h] \in {"fail_release", "again"}
        /\ \/ Does(h, "fail_quote", GivenBack)
           \/ Does(h, "fail_record", GivenBack)
    BY <1>9, <1>0, RecoverGoes, RecoverWrites DEF Recover!FailRelease
  <2> QED BY <2>1, <1>0, DoesKeeps, Writes
<1>10. ASSUME NEW h \in Prepares \cup Aborts \cup Submits, Recover!FailRecord(h) PROVE Kept
  <2>1. at[h] = "fail_record" /\ Does(h, "fail_quote", RecordSet("failed"))
    BY <1>10, <1>0, RecoverGoes, RecoverWrites DEF Recover!FailRecord
  <2> QED BY <2>1, <1>0, DoesKeeps, Writes
<1>11. ASSUME NEW h \in Prepares \cup Aborts \cup Submits, Recover!FailQuote(h) PROVE Kept
  <2>1. /\ at[h] = "fail_quote"
        /\ \/ Does(h, "ended", db)
           \/ Does(h, "ended", QuoteSaved(Marked(copy[h], "failed")))
    BY <1>11, <1>0, RecoverGoes, RecoverWrites DEF Recover!FailQuote
  <2> QED BY <2>1, <1>0, DoesKeeps, Writes
<1>12. ASSUME NEW s \in Submits, Recover!SubmitLoad(s) PROVE Kept
  <2>1. /\ at[s] = "idle" /\ MayStart(s)
        /\ \/ Does(s, "done", db)
           \/ Does(s, "observe", db)
           \/ Does(s, "lock", db)
    BY <1>12, <1>0, RecoverGoes, RecoverWrites DEF Recover!SubmitLoad
  <2> QED BY <2>1, <1>0, DoesKeeps, Writes
<1>13. ASSUME NEW s \in Submits, Recover!SubmitLock(s) PROVE Kept
  <2>1. /\ at[s] = "lock"
        /\ \/ Does(s, "check", LockedBy(s))
           \/ Does(s, "reject", db)
    BY <1>13, <1>0, RecoverGoes, RecoverWrites DEF Recover!SubmitLock
  <2> QED BY <2>1, <1>0, DoesKeeps, Writes
<1>14. ASSUME NEW s \in Submits, Recover!SubmitCheck(s) PROVE Kept
  <2>1. /\ at[s] = "check"
        /\ \/ Does(s, "cross", db)
           \/ Does(s, "undo", db)
    BY <1>14, <1>0, RecoverGoes, RecoverWrites DEF Recover!SubmitCheck
  <2> QED BY <2>1, <1>0, DoesKeeps, Writes
<1>15. ASSUME NEW s \in Submits, Recover!SubmitCross(s) PROVE Kept
  <2>1. /\ at[s] = "cross"
        /\ \/ Does(s, "undo", db)
           \/ Does(s, "relay", QuoteSaved(Part(copy[s], "relaying")))
    BY <1>15, <1>0, RecoverGoes, RecoverWrites DEF Recover!SubmitCross
  <2> QED BY <2>1, <1>0, DoesKeeps, Writes
<1>16. ASSUME NEW s \in Submits, Recover!SubmitRelay(s) PROVE Kept
  <2>1. at[s] = "relay" /\ Does(s, "kora", RecordSet("relaying"))
    BY <1>16, <1>0, RecoverGoes, RecoverWrites DEF Recover!SubmitRelay
  <2> QED BY <2>1, <1>0, DoesKeeps, Writes
<1>17. ASSUME NEW s \in Submits, Recover!SubmitKora(s) PROVE Kept
  <2>1. \/ Asks(s, "final")
        \/ Asks(s, "ended")
    BY <1>17, <1>0, RecoverGoes, RecoverWrites DEF Recover!SubmitKora
  <2> QED BY <2>1, <1>0, AskingKeeps, AskingSays DEF Kept, ConsoleInv
<1>18. ASSUME NEW s \in Submits, Recover!SubmitFinal(s) PROVE Kept
  <2>1. /\ at[s] = "final"
        /\ \/ Does(s, "record", db)
           \/ Does(s, "giveback", db)
    BY <1>18, <1>0, RecoverGoes, RecoverWrites DEF Recover!SubmitFinal
  <2> QED BY <2>1, <1>0, DoesKeeps, Writes
<1>19. ASSUME NEW s \in Submits, Recover!SubmitRecord(s) PROVE Kept
  <2>1. at[s] = "record" /\ Does(s, "save", RecordSigned)
    BY <1>19, <1>0, RecoverGoes, RecoverWrites DEF Recover!SubmitRecord
  <2> QED BY <2>1, <1>0, DoesKeeps, Writes, Held DEF Exists, Unrecorded
<1>20. ASSUME NEW s \in Submits, Recover!SubmitSave(s) PROVE Kept
  <2>1. at[s] = "save" /\ Does(s, "broadcast", QuoteSaved(copy[s]))
    BY <1>20, <1>0, RecoverGoes, RecoverWrites DEF Recover!SubmitSave
  <2> QED BY <2>1, <1>0, DoesKeeps, Writes
<1>21. ASSUME NEW s \in Submits, Recover!SubmitBroadcast(s) PROVE Kept
  <2>1. Sends(s, "observe", copy[s])
    BY <1>21, <1>0, RecoverGoes, RecoverMoves DEF Recover!SubmitBroadcast
  <2> QED BY <2>1, <1>0, SendingKeeps, SendingSays DEF Kept, ConsoleInv
<1>22. ASSUME NEW s \in Submits, Recover!CatchUndo(s) PROVE Kept
  <2>1. /\ at[s] \in {"undo", "reject"}
        /\ \/ at[s] = "undo" /\ Does(s, "cleanup", Unlocked(s))
           \/ Does(s, "ended", Unlocked(s))
    BY <1>22, <1>0, RecoverGoes, RecoverWrites DEF Recover!CatchUndo
  <2> QED BY <2>1, <1>0, DoesKeeps, Writes
<1>23. ASSUME NEW s \in Submits, Recover!CatchQuote(s) PROVE Kept
  <2>1. /\ at[s] = "catch_quote"
        /\ \/ Does(s, "catch_record", QuoteSaved(copy[s]))
           \/ Does(s, "catch_record", db)
    BY <1>23, <1>0, RecoverGoes, RecoverWrites DEF Recover!CatchQuote
  <2> QED BY <2>1, <1>0, DoesKeeps, Writes
<1>24. ASSUME NEW s \in Submits, Recover!CatchGiveBack(s) PROVE Kept
  <2>1. /\ at[s] = "giveback"
        /\ \/ Does(s, "catch_quote", GivenBack)
           \/ Does(s, "catch_quote", db)
    BY <1>24, <1>0, RecoverGoes, RecoverWrites DEF Recover!CatchGiveBack
  <2> QED BY <2>1, <1>0, DoesKeeps, Writes
<1>25. ASSUME NEW s \in Submits, Recover!CatchRecord(s) PROVE Kept
  <2>1. /\ at[s] = "catch_record"
        /\ \/ Does(s, "ended", RecordSet("failed"))
           \/ Does(s, "ended", db)
    BY <1>25, <1>0, RecoverGoes, RecoverWrites DEF Recover!CatchRecord
  <2> QED BY <2>1, <1>0, DoesKeeps, Writes
<1>26. ASSUME NEW s \in Submits, Recover!SubmitObserve(s) PROVE Kept
  <2>1. /\ at[s] = "observe"
        /\ \/ Does(s, "confirm", db)
           \/ Failing /\ Does(s, "expire", db)
           \/ Does(s, "close", db)
    BY <1>26, <1>0, RecoverGoes, RecoverWrites, Seen
       DEF Recover!SubmitObserve, Recover!Finish
  <2> QED BY <2>1, <1>0, DoesKeeps, Writes
<1>27. ASSUME NEW s \in Submits, Recover!SubmitConfirm(s) PROVE Kept
  <2>1. /\ at[s] = "confirm"
        /\ \/ Does(s, "close", db)
           \/ Over /\ Does(s, "account", RecordSet("reconciled"))
           \/ AccountLag /\ Does(s, "close", RecordSet("failed"))
    BY <1>27, <1>0, RecoverGoes, RecoverWrites, Seen
       DEF Recover!SubmitConfirm, Recover!Finish
  <2> QED BY <2>1, <1>0, DoesKeeps, Writes
<1>28. ASSUME NEW s \in Submits, Recover!SubmitAccount(s) PROVE Kept
  <2>1. at[s] = "account" /\ Does(s, "close", Booked)
    BY <1>28, <1>0, RecoverGoes, RecoverWrites DEF Recover!SubmitAccount, Recover!Finish
  <2> QED BY <2>1, <1>0, DoesKeeps, Writes
<1>29. ASSUME NEW s \in Submits, Recover!SubmitExpire(s) PROVE Kept
  <2>1. /\ at[s] = "expire"
        /\ \/ Does(s, "end_release", db)
           \/ Does(s, "close", db)
    BY <1>29, <1>0, RecoverGoes, RecoverWrites DEF Recover!SubmitExpire, Recover!Finish
  <2> QED BY <2>1, <1>0, DoesKeeps, Writes
<1>30. ASSUME NEW s \in Submits, Recover!SubmitClose(s) PROVE Kept
  <2>1. /\ at[s] = "close"
        /\ \/ Over /\ Does(s, "thank", QuoteSaved(copy[s]))
           \/ Does(s, "ended", QuoteSaved(copy[s]))
    BY <1>30, <1>0, RecoverGoes, RecoverWrites, Seen DEF Recover!SubmitClose
  <2> QED BY <2>1, <1>0, DoesKeeps, Writes
<1>31. ASSUME NEW s \in Submits, Recover!SubmitThank(s) PROVE Kept
  <2>1. at[s] = "thank" /\ Does(s, "done", GivenBack)
    BY <1>31, <1>0, RecoverGoes, RecoverWrites DEF Recover!SubmitThank
  <2> QED BY <2>1, <1>0, DoesKeeps, Writes
<1>32. ASSUME NEW h \in Submits \cup Polls, Recover!EndRecord(h) PROVE Kept
  <2>1. /\ at[h] = "end_record"
        /\ \/ h \in Submits /\ Does(h, "close", RecordSet("failed"))
           \/ h \notin Submits /\ Does(h, "idle", RecordSet("failed"))
    BY <1>32, <1>0, RecoverGoes, RecoverWrites DEF Recover!EndRecord, Recover!Finish
  <2> QED BY <2>1, <1>0, DoesKeeps, Writes
<1>33. ASSUME NEW q \in Polls, Recover!PollLoad(q) PROVE Kept
  <2>1. /\ at[q] = "idle" /\ MayStart(q)
        /\ \/ Does(q, "observe", db)
           \/ Does(q, "heights", db)
    BY <1>33, <1>0, RecoverGoes, RecoverWrites DEF Recover!PollLoad
  <2> QED BY <2>1, <1>0, DoesKeeps, Writes
<1>34. ASSUME NEW q \in Polls, Recover!PollHeights(q) PROVE Kept
  <2>1. /\ at[q] = "heights"
        /\ \/ Over /\ Lost /\ Does(q, "end_release", db)
           \/ Does(q, "idle", db)
    BY <1>34, <1>0, RecoverGoes, RecoverWrites DEF Recover!PollHeights, Over
  <2> QED BY <2>1, <1>0, DoesKeeps, Writes
<1>35. ASSUME NEW q \in Polls, Recover!PollPending(q) PROVE Kept
  <2>1. at[q] \in {"observe", "confirm"} /\ Does(q, "idle", db)
    BY <1>35, <1>0, RecoverGoes, RecoverWrites DEF Recover!PollPending
  <2> QED BY <2>1, <1>0, DoesKeeps, Writes
<1>36. ASSUME NEW q \in Polls, Recover!PollDecided(q) PROVE Kept
  <2>1. /\ at[q] \in {"observe", "confirm"}
        /\ \/ Does(q, "confirm", db)
           \/ Failing /\ Does(q, "end_release", db)
           \/ Over /\ Does(q, "poll_account", db)
    BY <1>36, <1>0, RecoverGoes, RecoverWrites, Seen DEF Recover!PollDecided
  <2> QED BY <2>1, <1>0, DoesKeeps, Writes
<1>37. ASSUME NEW q \in Polls, Recover!PollAccount(q) PROVE Kept
  <2>1. at[q] = "poll_account" /\ Does(q, "poll_release", Booked)
    BY <1>37, <1>0, RecoverGoes, RecoverWrites DEF Recover!PollAccount
  <2> QED BY <2>1, <1>0, DoesKeeps, Writes
<1>38. ASSUME NEW q \in Polls, Recover!PollRelease(q) PROVE Kept
  <2>1. at[q] = "poll_release" /\ Does(q, "poll_record", GivenBack)
    BY <1>38, <1>0, RecoverGoes, RecoverWrites DEF Recover!PollRelease
  <2> QED BY <2>1, <1>0, DoesKeeps, Writes
<1>39. ASSUME NEW q \in Polls, Recover!PollRecord(q) PROVE Kept
  <2>1. at[q] = "poll_record" /\ Does(q, "idle", RecordSet("reconciled"))
    BY <1>39, <1>0, RecoverGoes, RecoverWrites DEF Recover!PollRecord
  <2> QED BY <2>1, <1>0, DoesKeeps, Writes
<1>40. ASSUME NEW h \in Submits \cup Polls, Recover!EndRelease(h) PROVE Kept
  <2>1. at[h] = "end_release" /\ Does(h, "end_record", GivenBack)
    BY <1>40, <1>0, RecoverGoes, RecoverWrites DEF Recover!EndRelease
  <2> QED BY <2>1, <1>0, DoesKeeps, Writes
<1>41. ASSUME Recover!Surroundings PROVE Kept
  BY <1>41, <1>0, RecoverMoves, SurroundingsKeep, SurroundingsSay
     DEF Kept, ConsoleInv
<1>42. ASSUME NEW p \in Prepares, Recover!Prepare(p) PROVE Kept
  BY <1>42, <1>1, <1>2, <1>3, <1>4, <1>5, <1>6 DEF Recover!Prepare
<1>43. ASSUME NEW h \in Prepares \cup Aborts \cup Submits, Recover!Abort(h) PROVE Kept
  BY <1>43, <1>7, <1>8, <1>9, <1>10, <1>11 DEF Recover!Abort
<1>44. ASSUME NEW s \in Submits, Recover!Submit(s) PROVE Kept
  BY <1>44, <1>12, <1>13, <1>14, <1>15, <1>16, <1>17, <1>18, <1>19, <1>20, <1>21 DEF Recover!Submit
<1>45. ASSUME NEW s \in Submits, Recover!Catch(s) PROVE Kept
  BY <1>45, <1>22, <1>24, <1>23, <1>25 DEF Recover!Catch
<1>46. ASSUME NEW s \in Submits, Recover!Settle(s) PROVE Kept
  BY <1>46, <1>26, <1>27, <1>28, <1>29, <1>30, <1>31 DEF Recover!Settle
<1>47. ASSUME NEW q \in Polls, Recover!Poll(q) PROVE Kept
  BY <1>47, <1>33, <1>34, <1>35, <1>36, <1>37, <1>38, <1>39, <1>40, <1>32 DEF Recover!Poll
<1> QED
  BY <1>32, <1>40, <1>41, <1>42, <1>43, <1>44, <1>45, <1>46, <1>47 DEF Recover!Next

-----------------------------------------------------------------------------
(* Swap: what its steps are in these terms.                                 *)
LEMMA SwapGoes ==
  ASSUME EnginesInv, engine' = engine
  PROVE  /\ \A h, place, d, q :
              /\ Swap!Do(h, place, d, q) => Does(h, place, d)
              /\ Swap!Go(h, place) => Does(h, place, db)
              /\ Swap!Write(h, place, d) => Does(h, place, d)
              /\ Swap!Take(h, place, q) => Does(h, place, db)
              /\ Swap!Throw(h, place, q) => Does(h, place, db)
              /\ Swap!Try(h, place, d) =>
                   Does(h, place, d) \/ Does(h, place, db)
         /\ \A s, place, q :
              /\ Swap!KoraSigns(s, place) => Asks(s, place)
              /\ Swap!KoraFails(s, place, q) /\ place # "final" => Asks(s, place)
         /\ \A h : Swap!MayStart(h) => MayStart(h) /\ at[h] = "idle"
         /\ Swap!Observable("success") \/ Swap!Matches => Over
         /\ \/ Swap!Observable("expired") \/ Swap!Observable("chain_error") \/ Swap!Mismatches
            => Failing
         /\ Swap!Mismatches => AccountLag
<1>1. ASSUME NEW h, NEW place, NEW d, NEW q
      PROVE  /\ Swap!Do(h, place, d, q) => Does(h, place, d)
             /\ Swap!Go(h, place) => Does(h, place, db)
             /\ Swap!Write(h, place, d) => Does(h, place, d)
             /\ Swap!Take(h, place, q) => Does(h, place, db)
             /\ Swap!Throw(h, place, q) => Does(h, place, db)
             /\ Swap!Try(h, place, d) =>
                  Does(h, place, d) \/ Does(h, place, db)
  BY DEF Swap!Do, Swap!Go, Swap!Write, Swap!Take, Swap!Throw, Swap!Try, Does
<1>2. ASSUME NEW s, NEW place, NEW q
      PROVE  /\ Swap!KoraSigns(s, place) => Asks(s, place)
             /\ Swap!KoraFails(s, place, q) /\ place # "final" => Asks(s, place)
  BY DEF Swap!KoraSigns, Swap!KoraFails, Swap!Chain, Asks
<1>3. \A h : Swap!MayStart(h) => MayStart(h) /\ at[h] = "idle"
  BY DEF Swap!MayStart, MayStart, Swap!Handler, Handler, Swap!Started, Started,
         Swap!AtRest, AtRest, Swap!Rest, Rest
<1>4. /\ Swap!Observable("success") \/ Swap!Matches => Over
      /\ \/ Swap!Observable("expired") \/ Swap!Observable("chain_error") \/ Swap!Mismatches
         => Failing
      /\ Swap!Mismatches => AccountLag
  BY DEF Swap!Observable, Swap!Matches, Swap!Mismatches, Over, Failing, Ended
<1> QED BY <1>1, <1>2, <1>3, <1>4

LEMMA SwapPromise ==
  ASSUME OneConsole, EnginesInv, ConsoleInv, engine = "swap", engine' = engine, Swap!Next
  PROVE  Kept
<1>0. /\ engine # "proof"
      /\ \A h \in Prepares \cup Aborts \cup Submits \cup Polls : h \in Handler
      /\ \A h \in Prepares : h \notin Aborts /\ h \notin Submits /\ h \notin Polls
      /\ \A h \in Aborts : h \notin Prepares /\ h \notin Submits /\ h \notin Polls
      /\ \A h \in Submits : h \notin Prepares /\ h \notin Aborts /\ h \notin Polls
      /\ \A h \in Polls : h \notin Prepares /\ h \notin Aborts /\ h \notin Submits
  BY Kinds DEF Handler
<1> USE DEF May, Reserves, Releases, Knowing, Undone, Sending, Holding, Unreserved, Reserving,
            Says, Lost, Hopeless, Failing, Closing, Doomed, BacksOut, OnRecord
<1>1. ASSUME NEW p \in Prepares, Swap!PrepareLoad(p) PROVE Kept
  <2>1. /\ at[p] = "idle" /\ MayStart(p)
        /\ \/ Does(p, "reserve", db)
           \/ Does(p, "create", db)
    BY <1>1, <1>0, SwapGoes, SwapWrites DEF Swap!PrepareLoad
  <2> QED BY <2>1, <1>0, DoesKeeps, Writes
<1>2. ASSUME NEW p \in Prepares, Swap!PrepareCreate(p) PROVE Kept
  <2>1. /\ at[p] = "create"
        /\ \/ db.record.status = "none" /\ Does(p, "persist", RecordCreated)
           \/ Does(p, "ended", db)
    BY <1>2, <1>0, SwapGoes, SwapWrites DEF Swap!PrepareCreate
  <2> QED BY <2>1, <1>0, DoesKeeps, Writes
<1>3. ASSUME NEW p \in Prepares, Swap!PreparePersist(p) PROVE Kept
  <2>1. at[p] = "persist" /\ Does(p, "reserve", QuoteSaved(copy[p]))
    BY <1>3, <1>0, SwapGoes, SwapWrites DEF Swap!PreparePersist
  <2> QED BY <2>1, <1>0, DoesKeeps, Writes
<1>4. ASSUME NEW p \in Prepares, Swap!PrepareReserve(p) PROVE Kept
  <2>1. /\ at[p] = "reserve"
        /\ \/ Does(p, "done", Reserved)
           \/ Does(p, "ended", db)
    BY <1>4, <1>0, SwapGoes, SwapWrites DEF Swap!PrepareReserve
  <2> QED BY <2>1, <1>0, DoesKeeps, Writes
<1>5. ASSUME NEW s \in Submits, Swap!SubmitLoad(s) PROVE Kept
  <2>1. /\ at[s] = "idle" /\ MayStart(s)
        /\ \/ Over /\ Does(s, "thank", db)
           \/ Does(s, "observe", db)
           \/ Does(s, "lock", db)
    BY <1>5, <1>0, SwapGoes, SwapWrites, Seen DEF Swap!SubmitLoad
  <2> QED BY <2>1, <1>0, DoesKeeps, Writes
<1>6. ASSUME NEW s \in Submits, Swap!SubmitLock(s) PROVE Kept
  <2>1. /\ at[s] = "lock"
        /\ \/ Does(s, "cross", LockedBy(s))
           \/ Does(s, "undo", db)
    BY <1>6, <1>0, SwapGoes, SwapWrites DEF Swap!SubmitLock, Swap!Early, Swap!Crossed
  <2> QED BY <2>1, <1>0, DoesKeeps, Writes
<1>7. ASSUME NEW s \in Submits, Swap!SubmitCross(s) PROVE Kept
  <2>1. /\ at[s] = "cross"
        /\ \/ Does(s, "undo", db)
           \/ Does(s, "relay", QuoteSaved(Marked(copy[s], "relaying")))
           \/ Does(s, "catch_quote", db)
    BY <1>7, <1>0, SwapGoes, SwapWrites DEF Swap!SubmitCross, Swap!Early, Swap!Crossed
  <2> QED BY <2>1, <1>0, DoesKeeps, Writes
<1>8. ASSUME NEW s \in Submits, Swap!SubmitRelay(s) PROVE Kept
  <2>1. /\ at[s] = "relay"
        /\ \/ Does(s, "kora", RecordSet("relaying"))
           \/ Does(s, "catch_quote", db)
    BY <1>8, <1>0, SwapGoes, SwapWrites DEF Swap!SubmitRelay, Swap!Early, Swap!Crossed
  <2> QED BY <2>1, <1>0, DoesKeeps, Writes
<1>9. ASSUME NEW s \in Submits, Swap!SubmitKora(s) PROVE Kept
  <2>1. \/ Asks(s, "final")
        \/ Asks(s, "catch_quote")
        \/ at[s] = "kora" /\ Does(s, "giveback", db)
    BY <1>9, <1>0, SwapGoes, SwapWrites DEF Swap!SubmitKora, Swap!Early, Swap!Crossed
  <2> QED BY <2>1, <1>0, DoesKeeps, Writes, AskingKeeps, AskingSays
         DEF Kept, ConsoleInv
<1>10. ASSUME NEW s \in Submits, Swap!SubmitFinal(s) PROVE Kept
  <2>1. /\ at[s] = "final"
        /\ \/ Does(s, "record", db)
           \/ Does(s, "catch_quote", db)
    BY <1>10, <1>0, SwapGoes, SwapWrites DEF Swap!SubmitFinal, Swap!Early, Swap!Crossed
  <2> QED BY <2>1, <1>0, DoesKeeps, Writes
<1>11. ASSUME NEW s \in Submits, Swap!SubmitRecord(s) PROVE Kept
  <2>1. at[s] = "record" /\ Does(s, "save", RecordSigned)
    BY <1>11, <1>0, SwapGoes, SwapWrites DEF Swap!SubmitRecord
  <2> QED BY <2>1, <1>0, DoesKeeps, Writes, Held DEF Exists, Unrecorded
<1>12. ASSUME NEW s \in Submits, Swap!SubmitSave(s) PROVE Kept
  <2>1. at[s] = "save" /\ Does(s, "broadcast", QuoteSaved(copy[s]))
    BY <1>12, <1>0, SwapGoes, SwapWrites DEF Swap!SubmitSave
  <2> QED BY <2>1, <1>0, DoesKeeps, Writes
<1>13. ASSUME NEW s \in Submits, Swap!SubmitBroadcast(s) PROVE Kept
  <2>1. Sends(s, "observe", copy[s])
    BY <1>13, <1>0, SwapGoes, SwapMoves DEF Swap!SubmitBroadcast
  <2> QED BY <2>1, <1>0, SendingKeeps, SendingSays DEF Kept, ConsoleInv
<1>14. ASSUME NEW s \in Submits, Swap!CatchUndo(s) PROVE Kept
  <2>1. at[s] = "undo" /\ Does(s, "catch_quote", Unlocked(s))
    BY <1>14, <1>0, SwapGoes, SwapWrites DEF Swap!CatchUndo
  <2> QED BY <2>1, <1>0, DoesKeeps, Writes
<1>15. ASSUME NEW s \in Submits, Swap!CatchQuote(s) PROVE Kept
  <2>1. /\ at[s] = "catch_quote"
        /\ \/ Does(s, "catch_record", QuoteSaved(copy[s]))
           \/ Does(s, "catch_record", db)
    BY <1>15, <1>0, SwapGoes, SwapWrites DEF Swap!CatchQuote
  <2> QED BY <2>1, <1>0, DoesKeeps, Writes
<1>16. ASSUME NEW s \in Submits, Swap!CatchGiveBack(s) PROVE Kept
  <2>1. /\ at[s] = "giveback"
        /\ \/ Does(s, "catch_quote", GivenBack)
           \/ Does(s, "catch_quote", db)
    BY <1>16, <1>0, SwapGoes, SwapWrites DEF Swap!CatchGiveBack
  <2> QED BY <2>1, <1>0, DoesKeeps, Writes
<1>17. ASSUME NEW s \in Submits, Swap!CatchRecord(s) PROVE Kept
  <2>1. /\ at[s] = "catch_record"
        /\ \/ Does(s, "ended", RecordSet(copy[s].part))
           \/ Does(s, "ended", db)
    BY <1>17, <1>0, SwapGoes, SwapWrites DEF Swap!CatchRecord
  <2> QED BY <2>1, <1>0, DoesKeeps, Writes
<1>18. ASSUME NEW s \in Submits, Swap!Pending(s) PROVE Kept
  <2>1. at[s] \in {"observe", "confirm"} /\ Does(s, "close", db)
    BY <1>18, <1>0, SwapGoes, SwapWrites DEF Swap!Pending
  <2> QED BY <2>1, <1>0, DoesKeeps, Writes
<1>19. ASSUME NEW s \in Submits, Swap!Decided(s) PROVE Kept
  <2>1. /\ at[s] \in {"observe", "confirm"}
        /\ \/ Does(s, "confirm", db)
           \/ Failing /\ Does(s, "end_release", RecordSet("failed"))
           \/ Does(s, "close", db)
           \/ Over /\ Does(s, "account", RecordSet("reconciled"))
    BY <1>19, <1>0, SwapGoes, SwapWrites, Seen DEF Swap!Decided
  <2> QED BY <2>1, <1>0, DoesKeeps, Writes
<1>20. ASSUME NEW s \in Submits, Swap!EndRelease(s) PROVE Kept
  <2>1. /\ at[s] = "end_release"
        /\ \/ Does(s, "close", GivenBack)
           \/ Does(s, "close", db)
    BY <1>20, <1>0, SwapGoes, SwapWrites DEF Swap!EndRelease
  <2> QED BY <2>1, <1>0, DoesKeeps, Writes
<1>21. ASSUME NEW s \in Submits, Swap!Account(s) PROVE Kept
  <2>1. at[s] = "account" /\ Does(s, "thank", Booked)
    BY <1>21, <1>0, SwapGoes, SwapWrites DEF Swap!Account
  <2> QED BY <2>1, <1>0, DoesKeeps, Writes
<1>22. ASSUME NEW s \in Submits, Swap!Thank(s) PROVE Kept
  <2>1. /\ at[s] = "thank"
        /\ \/ Does(s, "done", GivenBack)
           \/ Does(s, "done", db)
           \/ Does(s, "close", GivenBack)
           \/ Does(s, "close", db)
    BY <1>22, <1>0, SwapGoes, SwapWrites DEF Swap!Thank
  <2> QED BY <2>1, <1>0, DoesKeeps, Writes
<1>23. ASSUME NEW s \in Submits, Swap!Close(s) PROVE Kept
  <2>1. /\ at[s] = "close"
        /\ \/ Does(s, "done", QuoteSaved(copy[s]))
           \/ Does(s, "ended", QuoteSaved(copy[s]))
    BY <1>23, <1>0, SwapGoes, SwapWrites DEF Swap!Close
  <2> QED BY <2>1, <1>0, DoesKeeps, Writes
<1>24. ASSUME Swap!Surroundings PROVE Kept
  BY <1>24, <1>0, SwapMoves, SurroundingsKeep, SurroundingsSay
     DEF Kept, ConsoleInv
<1>25. ASSUME NEW p \in Prepares, Swap!Prepare(p) PROVE Kept
  BY <1>25, <1>1, <1>2, <1>3, <1>4 DEF Swap!Prepare
<1>26. ASSUME NEW s \in Submits, Swap!Submit(s) PROVE Kept
  BY <1>26, <1>5, <1>6, <1>7, <1>8, <1>9, <1>10, <1>11, <1>12, <1>13 DEF Swap!Submit
<1>27. ASSUME NEW s \in Submits, Swap!Catch(s) PROVE Kept
  BY <1>27, <1>14, <1>16, <1>15, <1>17 DEF Swap!Catch
<1>28. ASSUME NEW s \in Submits, Swap!Settle(s) PROVE Kept
  BY <1>28, <1>18, <1>19, <1>20, <1>21, <1>22, <1>23 DEF Swap!Settle
<1> QED
  BY <1>24, <1>25, <1>26, <1>27, <1>28 DEF Swap!Next

-----------------------------------------------------------------------------
LEMMA ConsoleKeeps ==
  ASSUME OneConsole, EnginesInv, ConsoleInv, engine # "proof", EngineNext
  PROVE  Kept
BY ClaimPromise, SendPromise, RecoverPromise, SwapPromise DEF EngineNext

(* The Devnet proof reserves nothing, and promises nothing.                *)
LEMMA ProofReservesNothing ==
  ASSUME EnginesInv, engine = "proof", engine' = engine, Proof!Next
  PROVE  UNCHANGED Promise!promise
<1>1. \A h, place, d, q, c :
        /\ Proof!Do(h, place, d, q) \/ Proof!Write(h, place, d) => db' = d
        /\ Proof!Go(h, place) \/ Proof!Take(h, place, q) => db' = db
        /\ Proof!Throw(h, place, q) \/ Proof!Chain(h, place, q, c) => db' = db
        /\ Proof!Try(h, place, d) => db' = d \/ db' = db
        /\ Proof!KoraSigns(h, place) \/ Proof!KoraFails(h, place, q) => db' = db
  BY DEF Proof!Do, Proof!Go, Proof!Write, Proof!Take, Proof!Throw, Proof!Try, Proof!Chain,
         Proof!KoraSigns, Proof!KoraFails
<1>2. ASSUME NEW p \in Prepares, Proof!Prepare(p) PROVE db'.exposure = db.exposure
  BY <1>1, <1>2, ProofWrites, Writes
     DEF Proof!Prepare, Proof!PrepareLoad, Proof!PreparePersist, Proof!PrepareCreate
<1>3. ASSUME NEW s \in Submits, Proof!Submit(s) PROVE db'.exposure = db.exposure
  <2>1. CASE \/ Proof!SubmitLoad(s) \/ Proof!SubmitLock(s) \/ Proof!SubmitCheck(s)
             \/ Proof!SubmitValidated(s) \/ Proof!SubmitCross(s) \/ Proof!SubmitRelay(s)
    BY <1>1, <2>1, ProofWrites, Writes
       DEF Proof!SubmitLoad, Proof!SubmitLock, Proof!SubmitCheck, Proof!SubmitValidated,
           Proof!SubmitCross, Proof!SubmitRelay
  <2>2. CASE Proof!SubmitKora(s) \/ Proof!SubmitFinal(s)
    BY <1>1, <2>2 DEF Proof!SubmitKora, Proof!SubmitFinal
  <2>3. CASE Proof!SubmitBroadcast(s)
    BY <2>3 DEF Proof!SubmitBroadcast, Proof!Chain
  <2>4. CASE Proof!SubmitRecord(s) \/ Proof!SubmitSave(s)
    BY <1>1, <2>4, ProofWrites, Writes DEF Proof!SubmitRecord, Proof!SubmitSave
  <2> QED BY <1>3, <2>1, <2>2, <2>3, <2>4 DEF Proof!Submit
<1>4. ASSUME NEW s \in Submits, Proof!Settle(s) \/ Proof!Catch(s) PROVE db'.exposure = db.exposure
  BY <1>1, <1>4, ProofWrites, Writes
     DEF Proof!Settle, Proof!Confirm, Proof!Account, Proof!Close,
         Proof!Catch, Proof!CatchUndo, Proof!CatchQuote, Proof!CatchRecord
<1>5. ASSUME Surroundings PROVE db'.exposure = db.exposure
  BY <1>5, Writes DEF Surroundings, Stop, Throw, NextBlock, Land, Forget
<1>6. db'.exposure = db.exposure
  BY <1>2, <1>3, <1>4, <1>5, ProofMoves DEF Proof!Next
<1> QED BY <1>6 DEF Promise!promise, MayStillLand, Sponsored

(* At the start nobody has started and nothing was reserved.               *)
LEMMA AtFirst ==
  ASSUME EngineInit
  PROVE  ConsoleInv /\ Promise!Init
<1> USE ConstantsAssumption DEF EngineInit, Init
<1>1. \A h \in Handler : at[h] = "idle"
  OBVIOUS
<1>2. InTurn /\ OnItsWay /\ HandedOn /\ GivesBack
  BY <1>1 DEF InTurn, OnItsWay, HandedOn, GivesBack, Handler, Started, AtRest, Rest,
              Sending, Holding, Unreserved, Reserving, Knowing, Undone
<1>3. FailInv
  BY <1>1 DEF FailInv, Handler, Doomed, BacksOut
<1>4. Promise!Init
  BY DEF Promise!Init, MayStillLand, Sponsored
<1> QED BY <1>2, <1>3, <1>4 DEF PromiseInv, ConsoleInv

LEMMA Standing ==
  ASSUME ConsoleInv, UNCHANGED <<vars, engine>>
  PROVE  Kept
<1>1. db' = db /\ chain' = chain /\ at' = at /\ engine' = engine
  BY DEF vars
<1>2. PromiseInv => Promised
  BY <1>1 DEF PromiseInv, InTurn, OnItsWay, HandedOn, GivesBack, Started, AtRest, Over,
              Covered, Promised, Promise!promise, MayStillLand, Sponsored
<1>3. FailInv => FailInv'
  BY <1>1 DEF FailInv, Lost, Hopeless, Ended, Closed, Started, BacksOut
<1> QED BY <1>2, <1>3 DEF ConsoleInv, Kept

(* The invariant of a console that submits once, and what its steps are to *)
(* SponsoredAttempt.                                                       *)
ConsoleHolds == EnginesInv /\ (engine # "proof" => ConsoleInv)

LEMMA ConsoleStep ==
  ASSUME OneConsole, ConsoleHolds, [EngineNext]_<<vars, engine>>
  PROVE  ConsoleHolds' /\ (Promise!Next \/ UNCHANGED Promise!promise)
<1>1. EnginesInv' /\ engine' = engine
  BY Stepwise DEF EngineNext, ConsoleHolds
<1>2. CASE engine # "proof"
  <2>1. Kept
    BY <1>2, ConsoleKeeps, Standing DEF ConsoleHolds
  <2> QED BY <1>1, <2>1 DEF Kept, Promised, ConsoleHolds, ConsoleInv
<1>3. CASE engine = "proof"
  <2>1. UNCHANGED Promise!promise
    <3>1. CASE EngineNext
      BY <1>3, <3>1, ProofReservesNothing DEF EngineNext, ConsoleHolds
    <3>2. CASE UNCHANGED <<vars, engine>>
      BY <3>2 DEF Promise!promise, MayStillLand, Sponsored, vars
    <3> QED BY <3>1, <3>2
  <2> QED BY <1>1, <1>3, <2>1 DEF ConsoleHolds
<1> QED BY <1>2, <1>3

(* When one console submits once, every sponsored engine implements        *)
(* SponsoredAttempt, and the Devnet proof asks nothing of it: whatever is  *)
(* lost, stops or fails, the payer signs once, the bytes are on their way  *)
(* only while the reservation is held, and it is given back once, when     *)
(* nothing that was sent can land.                                         *)
THEOREM PromiseKept ==
  ASSUME OneConsole
  PROVE  Spec => KeepsPromise
<1>1. EngineInit => ConsoleHolds /\ Promise!Init
  BY AtFirst, Initially DEF ConsoleHolds
<1>2. ConsoleHolds /\ [EngineNext]_<<vars, engine>>
        => ConsoleHolds' /\ [Promise!Next]_(Promise!promise)
  BY ConsoleStep
<1> QED BY <1>1, <1>2, PTL DEF Spec, KeepsPromise, Promise!Spec

(* When besides no provider lags behind about the accounts, nothing lands  *)
(* after an attempt is on record as failed, and what failed had not landed *)
(* either, so that the user who is told so may try again: in every         *)
(* sponsored engine, wherever its handlers stop.  A Recover may have       *)
(* landed when it is called failed after its last block.                   *)
THEOREM FailuresAreFinal ==
  ASSUME OneConsole, ~AccountLag
  PROVE  Spec => []FailedNeverLands
<1>1. EngineInit => ConsoleHolds
  BY AtFirst, Initially DEF ConsoleHolds
<1>2. ConsoleHolds /\ [EngineNext]_<<vars, engine>> => ConsoleHolds'
  BY ConsoleStep
<1>3. ConsoleHolds => FailedNeverLands
  BY Kinds
     DEF ConsoleHolds, ConsoleInv, FailInv, Lost, Hopeless, Ended, FailedNeverLands, MayStillLand,
         Sponsored
<1> QED BY <1>1, <1>2, <1>3, PTL DEF Spec

=============================================================================
