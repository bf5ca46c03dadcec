-------------------------- MODULE BurnEngineProofs --------------------------
(***************************************************************************)
(* Theorems about a Burn, for any number of requests of every kind, in any *)
(* order or in the console's, with sound or unsound observations, and with *)
(* any number of faults.                                                   *)
(*                                                                         *)
(* Each invariant is proved inductive relative to TypeOK, the last one     *)
(* (ConsoleInv: a reservation given back, a record that says failed) also  *)
(* relative to SignInv and BooksInv, for requests in the console's order.  *)
(***************************************************************************)
EXTENDS BurnEngine, TLAPS

\* Moving a handler to one of the places leaves every handler at a place.
LEMMA GotoKeepsPlaces ==
  ASSUME pc \in [Handler -> Places],
         NEW h \in Handler, NEW place \in Places, Goto(h, place)
  PROVE  pc' \in [Handler -> Places]
  BY DEF Goto

\* Giving a handler a quote to hold leaves every handler with a quote.
LEMMA HoldKeepsCopies ==
  ASSUME copy \in [Handler -> QuoteCopy],
         NEW h \in Handler, NEW q \in QuoteCopy, Hold(h, q)
  PROVE  copy' \in [Handler -> QuoteCopy]
  BY DEF Hold

\* The quotes the code writes are quotes, and the places it names are places.
LEMMA BothIsQuote ==
  ASSUME NEW s \in Status PROVE Both(s) \in QuoteCopy
  BY DEF Both, QuoteCopy

LEMMA WrittenQuotes ==
  /\ Created \in QuoteCopy /\ Awaiting \in QuoteCopy /\ FailedQuote \in QuoteCopy
  /\ \A s \in {"submitted", "failed", "reconciled"} : Both(s) \in QuoteCopy
  BY BothIsQuote DEF Created, Awaiting, FailedQuote, Status

LEMMA EndAsKeepsTypes ==
  ASSUME pc \in [Handler -> Places], copy \in [Handler -> QuoteCopy],
         NEW s \in Submits, NEW st \in {"submitted", "failed", "reconciled"}, EndAs(s, st)
  PROVE  pc' \in [Handler -> Places] /\ copy' \in [Handler -> QuoteCopy]
  <1>1. s \in Handler /\ "ended" \in Places /\ "close" \in Places
    BY DEF Handler, Places, Rest, SettlePlaces
  <1>2. CASE Resuming(s) /\ st # "reconciled"
    BY <1>1, <1>2, GotoKeepsPlaces DEF EndAs
  <1>3. CASE ~(Resuming(s) /\ st # "reconciled")
    BY <1>1, <1>3, GotoKeepsPlaces, HoldKeepsCopies, WrittenQuotes DEF EndAs
  <1> QED
    BY <1>2, <1>3

LEMMA FailKeepsTypes ==
  ASSUME pc \in [Handler -> Places], copy \in [Handler -> QuoteCopy], NEW s \in Submits,
         FailEarly(s) \/ FailCrossed(s) \/ FailSigned(s)
  PROVE  pc' \in [Handler -> Places] /\ copy' \in [Handler -> QuoteCopy]
  <1>1. s \in Handler /\ {"undo", "save", "giveback"} \subseteq Places
    BY DEF Handler, Places, SubmitPlaces
  <1> QED
    BY <1>1, GotoKeepsPlaces, HoldKeepsCopies, WrittenQuotes DEF FailEarly, FailCrossed, FailSigned

\* The durable writes leave a record.
LEMMA SetRecordKeepsRecord ==
  ASSUME record \in DurableRecord, NEW s \in Status, SetRecord(s)
  PROVE  record' \in DurableRecord
  BY DEF DurableRecord, SetRecord

LEMMA WrittenRecords ==
  /\ [status |-> "none", signed |-> FALSE] \in DurableRecord
  /\ [status |-> "awaiting_user_signature", signed |-> FALSE] \in DurableRecord
  /\ [status |-> "submitted", signed |-> TRUE] \in DurableRecord
  BY DEF DurableRecord, Status

\* The bound on faults is a bound.
LEMMA FaultKeepsCount ==
  ASSUME faults \in 0..MaxFaults, Fault
  PROVE  faults' \in 0..MaxFaults
  BY ConstantsAssumption DEF Fault, CanFault

\* Announcing the crossing in a quote leaves a quote.
LEMMA CrossingIsQuote ==
  ASSUME copy \in [Handler -> QuoteCopy], NEW s \in Submits
  PROVE  Crossing(s) \in QuoteCopy
  BY DEF Crossing, QuoteCopy, Handler, Status

\* Every state of the protocol is a state of the declared types.
THEOREM TypeCorrect == Spec => []TypeOK
  <1>1. Init => TypeOK
    <2> SUFFICES ASSUME Init
                 PROVE  TypeOK
      OBVIOUS
    <2>1. pc \in [Handler -> Places]
      BY DEF Init, Places, Rest
    <2>2. copy \in [Handler -> QuoteCopy] /\ quote \in QuoteCopy
      BY WrittenQuotes DEF Init
    <2>3. record \in DurableRecord /\ faults \in 0..MaxFaults
      BY ConstantsAssumption, WrittenRecords DEF Init
    <2> QED
      BY <2>1, <2>2, <2>3 DEF Init, TypeOK
  <1>2. TypeOK /\ [Next]_vars => TypeOK'
    <2> SUFFICES ASSUME TypeOK, [Next]_vars
                 PROVE  TypeOK'
      OBVIOUS
    <2>t. /\ pc \in [Handler -> Places] /\ copy \in [Handler -> QuoteCopy]
          /\ quote \in QuoteCopy /\ record \in DurableRecord
      BY DEF TypeOK
    <2>s. {"failed", "relaying", "reconciled", "submitted"} \subseteq Status
      BY DEF Status
    <2>1. ASSUME NEW p \in Prepares, Prepare(p)
          PROVE  TypeOK'
      <3>1. p \in Handler /\ PreparePlaces \cup {"done", "ended"} \subseteq Places
        BY DEF Handler, Places, Rest, PreparePlaces
      <3>2. pc' \in [Handler -> Places] /\ copy' \in [Handler -> QuoteCopy]
        <4>1. CASE PrepareLoad(p)
          BY <2>t, <3>1, <4>1, GotoKeepsPlaces, HoldKeepsCopies, WrittenQuotes,
             EndAsKeepsTypes, FailKeepsTypes
          DEF PrepareLoad, PreparePlaces
        <4>2. CASE PrepareCreate(p)
          BY <2>t, <3>1, <4>2, GotoKeepsPlaces, HoldKeepsCopies, WrittenQuotes,
             EndAsKeepsTypes, FailKeepsTypes
          DEF PrepareCreate, PreparePlaces
        <4>3. CASE PrepareSave(p)
          BY <2>t, <3>1, <4>3, GotoKeepsPlaces, HoldKeepsCopies, WrittenQuotes,
             EndAsKeepsTypes, FailKeepsTypes
          DEF PrepareSave, PreparePlaces
        <4>4. CASE PrepareReserve(p)
          BY <2>t, <3>1, <4>4, GotoKeepsPlaces, HoldKeepsCopies, WrittenQuotes,
             EndAsKeepsTypes, FailKeepsTypes
          DEF PrepareReserve, PreparePlaces
        <4>5. CASE PrepareActivate(p)
          BY <2>t, <3>1, <4>5, GotoKeepsPlaces, HoldKeepsCopies, WrittenQuotes,
             EndAsKeepsTypes, FailKeepsTypes
          DEF PrepareActivate, PreparePlaces
        <4>6. CASE PrepareWindow(p)
          BY <2>t, <3>1, <4>6, GotoKeepsPlaces, HoldKeepsCopies, WrittenQuotes,
             EndAsKeepsTypes, FailKeepsTypes
          DEF PrepareWindow, PreparePlaces
        <4> QED
          BY <2>1, <4>1, <4>2, <4>3, <4>4, <4>5, <4>6 DEF Prepare
      <3> USE DEF TypeOK, storeVars, chainVars, bookVars, GiveBack, NoFault
      <3>3. CASE PrepareLoad(p)
        BY <2>t, <3>1, <3>2, <3>3, WrittenQuotes DEF PrepareLoad
      <3>4. CASE PrepareCreate(p)
        <4>1. record' \in DurableRecord
          BY <2>t, <3>4, WrittenRecords DEF PrepareCreate
        <4> QED
          BY <3>2, <3>4, <4>1 DEF PrepareCreate
      <3>5. CASE PrepareSave(p)
        BY <2>t, <3>1, <3>2, <3>5, WrittenQuotes DEF PrepareSave
      <3>6. CASE PrepareReserve(p)
        BY <2>t, <3>1, <3>2, <3>6, WrittenQuotes DEF PrepareReserve
      <3>7. CASE PrepareActivate(p)
        BY <2>t, <3>1, <3>2, <3>7, WrittenQuotes DEF PrepareActivate
      <3>8. CASE PrepareWindow(p)
        BY <2>t, <3>1, <3>2, <3>8, WrittenQuotes DEF PrepareWindow
      <3> QED
        BY <2>1, <3>3, <3>4, <3>5, <3>6, <3>7, <3>8 DEF Prepare
    <2>2. ASSUME NEW h \in Prepares \cup Aborts, Fail(h)
          PROVE  TypeOK'
      <3>1. h \in Handler /\ AbortPlaces \cup {"ended"} \subseteq Places
        BY DEF Handler, Places, Rest, AbortPlaces
      <3>2. pc' \in [Handler -> Places] /\ copy' \in [Handler -> QuoteCopy]
        <4>1. CASE FailRelease(h)
          BY <2>t, <3>1, <4>1, GotoKeepsPlaces, HoldKeepsCopies, WrittenQuotes,
             EndAsKeepsTypes, FailKeepsTypes
          DEF FailRelease, AbortPlaces
        <4>2. CASE FailRecord(h)
          BY <2>t, <3>1, <4>2, GotoKeepsPlaces, HoldKeepsCopies, WrittenQuotes,
             EndAsKeepsTypes, FailKeepsTypes
          DEF FailRecord, AbortPlaces
        <4>3. CASE FailQuote(h)
          BY <2>t, <3>1, <4>3, GotoKeepsPlaces, HoldKeepsCopies, WrittenQuotes,
             EndAsKeepsTypes, FailKeepsTypes
          DEF FailQuote, AbortPlaces
        <4> QED
          BY <2>2, <4>1, <4>2, <4>3 DEF Fail
      <3> USE DEF TypeOK, storeVars, chainVars, bookVars, GiveBack, NoFault
      <3>3. CASE FailRelease(h)
        BY <2>t, <3>1, <3>2, <3>3, WrittenQuotes DEF FailRelease
      <3>4. CASE FailRecord(h)
        <4>1. record' \in DurableRecord
          BY <2>t, <2>s, <3>4, SetRecordKeepsRecord DEF FailRecord
        <4> QED
          BY <3>2, <3>4, <4>1 DEF FailRecord
      <3>5. CASE FailQuote(h)
        BY <2>t, <3>1, <3>2, <3>5, WrittenQuotes DEF FailQuote
      <3> QED
        BY <2>2, <3>3, <3>4, <3>5 DEF Fail
    <2>3. ASSUME NEW s \in Submits, Submit(s)
          PROVE  TypeOK'
      <3>1. s \in Handler /\ SubmitPlaces \cup {"observe", "done", "ended"} \subseteq Places
        BY DEF Handler, Places, Rest, SubmitPlaces, SettlePlaces
      <3>2. pc' \in [Handler -> Places] /\ copy' \in [Handler -> QuoteCopy]
        <4>1. CASE SubmitLoad(s)
          BY <2>t, <3>1, <4>1, GotoKeepsPlaces, HoldKeepsCopies, WrittenQuotes,
             EndAsKeepsTypes, FailKeepsTypes
          DEF SubmitLoad, SubmitPlaces
        <4>2. CASE SubmitLock(s)
          BY <2>t, <3>1, <4>2, GotoKeepsPlaces, HoldKeepsCopies, WrittenQuotes,
             EndAsKeepsTypes, FailKeepsTypes
          DEF SubmitLock, SubmitPlaces
        <4>3. CASE SubmitCheck(s)
          BY <2>t, <3>1, <4>3, GotoKeepsPlaces, HoldKeepsCopies, WrittenQuotes,
             EndAsKeepsTypes, FailKeepsTypes
          DEF SubmitCheck, SubmitPlaces
        <4>4. CASE SubmitCross(s)
          BY <2>t, <3>1, <4>4, GotoKeepsPlaces, HoldKeepsCopies, CrossingIsQuote,
             EndAsKeepsTypes, FailKeepsTypes
          DEF SubmitCross, SubmitPlaces
        <4>5. CASE SubmitRelay(s)
          BY <2>t, <3>1, <4>5, GotoKeepsPlaces, HoldKeepsCopies, WrittenQuotes,
             EndAsKeepsTypes, FailKeepsTypes
          DEF SubmitRelay, SubmitPlaces
        <4>6. CASE SubmitKora(s)
          BY <2>t, <3>1, <4>6, GotoKeepsPlaces, HoldKeepsCopies, WrittenQuotes,
             EndAsKeepsTypes, FailKeepsTypes
          DEF SubmitKora, SubmitPlaces
        <4>7. CASE SubmitFinal(s)
          BY <2>t, <3>1, <4>7, GotoKeepsPlaces, HoldKeepsCopies, WrittenQuotes,
             EndAsKeepsTypes, FailKeepsTypes
          DEF SubmitFinal, SubmitPlaces
        <4>8. CASE SubmitRecord(s)
          BY <2>t, <3>1, <4>8, GotoKeepsPlaces, HoldKeepsCopies, WrittenQuotes,
             EndAsKeepsTypes, FailKeepsTypes
          DEF SubmitRecord, SubmitPlaces
        <4>9. CASE SubmitPersist(s)
          BY <2>t, <3>1, <4>9, GotoKeepsPlaces, HoldKeepsCopies, WrittenQuotes,
             EndAsKeepsTypes, FailKeepsTypes
          DEF SubmitPersist, SubmitPlaces
        <4>10. CASE SubmitBroadcast(s)
          BY <2>t, <3>1, <4>10, GotoKeepsPlaces, HoldKeepsCopies, WrittenQuotes,
             EndAsKeepsTypes, FailKeepsTypes
          DEF SubmitBroadcast, SubmitPlaces
        <4> QED
          BY <2>3, <4>1, <4>2, <4>3, <4>4, <4>5, <4>6, <4>7, <4>8, <4>9, <4>10 DEF Submit
      <3> USE DEF TypeOK, storeVars, chainVars, bookVars, GiveBack, NoFault
      <3>3. CASE SubmitLoad(s)
        BY <2>t, <3>1, <3>2, <3>3, WrittenQuotes DEF SubmitLoad
      <3>4. CASE SubmitLock(s)
        BY <2>t, <3>1, <3>2, <3>4, WrittenQuotes DEF SubmitLock
      <3>5. CASE SubmitCheck(s)
        BY <2>t, <3>1, <3>2, <3>5, WrittenQuotes DEF SubmitCheck
      <3>6. CASE SubmitCross(s)
        BY <2>t, <3>1, <3>2, <3>6, CrossingIsQuote, FaultKeepsCount DEF SubmitCross
      <3>7. CASE SubmitRelay(s)
        <4>1. record' \in DurableRecord
          BY <2>t, <2>s, <3>7, SetRecordKeepsRecord DEF SubmitRelay
        <4> QED
          BY <3>2, <3>7, <4>1, FaultKeepsCount DEF SubmitRelay
      <3>8. CASE SubmitKora(s)
        BY <2>t, <3>1, <3>2, <3>8, WrittenQuotes DEF SubmitKora
      <3>9. CASE SubmitFinal(s)
        BY <2>t, <3>1, <3>2, <3>9, WrittenQuotes DEF SubmitFinal
      <3>10. CASE SubmitRecord(s)
        <4>1. record' \in DurableRecord
          BY <2>t, <3>10, WrittenRecords DEF SubmitRecord
        <4> QED
          BY <3>2, <3>10, <4>1 DEF SubmitRecord
      <3>11. CASE SubmitPersist(s)
        BY <2>t, <3>1, <3>2, <3>11, WrittenQuotes DEF SubmitPersist
      <3>12. CASE SubmitBroadcast(s)
        BY <2>t, <3>1, <3>2, <3>12, WrittenQuotes DEF SubmitBroadcast
      <3> QED
        BY <2>3, <3>3, <3>4, <3>5, <3>6, <3>7, <3>8, <3>9, <3>10, <3>11, <3>12 DEF Submit
    <2>4. ASSUME NEW s \in Submits, Catch(s)
          PROVE  TypeOK'
      <3>1. s \in Handler /\ SubmitPlaces \cup {"ended"} \subseteq Places
        BY DEF Handler, Places, Rest, SubmitPlaces, SettlePlaces
      <3>2. pc' \in [Handler -> Places] /\ copy' \in [Handler -> QuoteCopy]
        <4>1. CASE CatchUndo(s)
          BY <2>t, <3>1, <4>1, GotoKeepsPlaces, HoldKeepsCopies, WrittenQuotes,
             EndAsKeepsTypes, FailKeepsTypes
          DEF CatchUndo, SubmitPlaces
        <4>2. CASE CatchGiveBack(s)
          BY <2>t, <3>1, <4>2, GotoKeepsPlaces, HoldKeepsCopies, WrittenQuotes,
             EndAsKeepsTypes, FailKeepsTypes
          DEF CatchGiveBack, SubmitPlaces
        <4>3. CASE CatchSave(s)
          BY <2>t, <3>1, <4>3, GotoKeepsPlaces, HoldKeepsCopies, WrittenQuotes,
             EndAsKeepsTypes, FailKeepsTypes
          DEF CatchSave, SubmitPlaces
        <4>4. CASE CatchMark(s)
          BY <2>t, <3>1, <4>4, GotoKeepsPlaces, HoldKeepsCopies, WrittenQuotes,
             EndAsKeepsTypes, FailKeepsTypes
          DEF CatchMark, SubmitPlaces
        <4> QED
          BY <2>4, <4>1, <4>2, <4>3, <4>4 DEF Catch
      <3> USE DEF TypeOK, storeVars, chainVars, bookVars, GiveBack, NoFault
      <3>3. CASE CatchUndo(s)
        BY <2>t, <3>1, <3>2, <3>3, WrittenQuotes DEF CatchUndo
      <3>4. CASE CatchGiveBack(s)
        BY <2>t, <3>1, <3>2, <3>4, FaultKeepsCount DEF CatchGiveBack
      <3>5. CASE CatchSave(s)
        BY <2>t, <3>1, <3>2, <3>5, FaultKeepsCount DEF CatchSave
      <3>6. CASE CatchMark(s)
        <4>1. record' \in DurableRecord
          <5>1. copy[s].burn \in Status
            BY <2>t, <3>1 DEF QuoteCopy
          <5> QED
            BY <2>t, <3>6, <5>1, SetRecordKeepsRecord DEF CatchMark
        <4> QED
          BY <3>2, <3>6, <4>1, FaultKeepsCount DEF CatchMark
      <3> QED
        BY <2>4, <3>3, <3>4, <3>5, <3>6 DEF Catch
    <2>5. ASSUME NEW s \in Submits, Settle(s)
          PROVE  TypeOK'
      <3>1. s \in Handler /\ SettlePlaces \cup {"done", "ended"} \subseteq Places
        BY DEF Handler, Places, Rest, SettlePlaces
      <3>2. pc' \in [Handler -> Places] /\ copy' \in [Handler -> QuoteCopy]
        <4>1. CASE SubmitObserve(s)
          BY <2>t, <3>1, <4>1, GotoKeepsPlaces, HoldKeepsCopies, WrittenQuotes,
             EndAsKeepsTypes, FailKeepsTypes
          DEF SubmitObserve, SettlePlaces
        <4>2. CASE SubmitConfirm(s)
          BY <2>t, <3>1, <4>2, GotoKeepsPlaces, HoldKeepsCopies, WrittenQuotes,
             EndAsKeepsTypes, FailKeepsTypes
          DEF SubmitConfirm, SettlePlaces
        <4>3. CASE SubmitSettle(s)
          BY <2>t, <3>1, <4>3, GotoKeepsPlaces, HoldKeepsCopies, WrittenQuotes,
             EndAsKeepsTypes, FailKeepsTypes
          DEF SubmitSettle, SettlePlaces
        <4>4. CASE SubmitAccount(s)
          BY <2>t, <3>1, <4>4, GotoKeepsPlaces, HoldKeepsCopies, WrittenQuotes,
             EndAsKeepsTypes, FailKeepsTypes
          DEF SubmitAccount, SettlePlaces
        <4>5. CASE SubmitMismatch(s)
          BY <2>t, <3>1, <4>5, GotoKeepsPlaces, HoldKeepsCopies, WrittenQuotes,
             EndAsKeepsTypes, FailKeepsTypes
          DEF SubmitMismatch, SettlePlaces
        <4>6. CASE SubmitExpire(s)
          BY <2>t, <3>1, <4>6, GotoKeepsPlaces, HoldKeepsCopies, WrittenQuotes,
             EndAsKeepsTypes, FailKeepsTypes
          DEF SubmitExpire, SettlePlaces
        <4>7. CASE SubmitClose(s)
          BY <2>t, <3>1, <4>7, GotoKeepsPlaces, HoldKeepsCopies, WrittenQuotes,
             EndAsKeepsTypes, FailKeepsTypes
          DEF SubmitClose, SettlePlaces
        <4>8. CASE SubmitThank(s)
          BY <2>t, <3>1, <4>8, GotoKeepsPlaces, HoldKeepsCopies, WrittenQuotes,
             EndAsKeepsTypes, FailKeepsTypes
          DEF SubmitThank, SettlePlaces
        <4> QED
          BY <2>5, <4>1, <4>2, <4>3, <4>4, <4>5, <4>6, <4>7, <4>8 DEF Settle
      <3> USE DEF TypeOK, storeVars, chainVars, bookVars, GiveBack, NoFault
      <3>3. CASE SubmitObserve(s)
        BY <2>t, <3>1, <3>2, <3>3, WrittenQuotes DEF SubmitObserve
      <3>4. CASE SubmitConfirm(s)
        BY <2>t, <3>1, <3>2, <3>4, WrittenQuotes DEF SubmitConfirm
      <3>5. CASE SubmitSettle(s)
        <4>1. record' \in DurableRecord
          BY <2>t, <2>s, <3>5, SetRecordKeepsRecord DEF SubmitSettle
        <4> QED
          BY <3>2, <3>5, <4>1 DEF SubmitSettle
      <3>6. CASE SubmitAccount(s)
        BY <2>t, <3>1, <3>2, <3>6, WrittenQuotes DEF SubmitAccount
      <3>7. CASE SubmitMismatch(s)
        <4>1. record' \in DurableRecord
          BY <2>t, <2>s, <3>7, SetRecordKeepsRecord DEF SubmitMismatch
        <4> QED
          BY <3>2, <3>7, <4>1 DEF SubmitMismatch
      <3>8. CASE SubmitExpire(s)
        BY <2>t, <3>1, <3>2, <3>8, WrittenQuotes DEF SubmitExpire
      <3>9. CASE SubmitClose(s)
        BY <2>t, <3>1, <3>2, <3>9, WrittenQuotes DEF SubmitClose
      <3>10. CASE SubmitThank(s)
        BY <2>t, <3>1, <3>2, <3>10, FaultKeepsCount DEF SubmitThank
      <3> QED
        BY <2>5, <3>3, <3>4, <3>5, <3>6, <3>7, <3>8, <3>9, <3>10 DEF Settle
    <2>6. ASSUME NEW h \in Submits \cup Polls, End(h)
          PROVE  TypeOK'
      <3>1. h \in Handler /\ SettlePlaces \cup {"idle"} \subseteq Places
        BY DEF Handler, Places, Rest, SettlePlaces
      <3>2. pc' \in [Handler -> Places] /\ copy' \in [Handler -> QuoteCopy]
        <4>1. CASE EndRelease(h)
          BY <2>t, <3>1, <4>1, GotoKeepsPlaces, HoldKeepsCopies, WrittenQuotes,
             EndAsKeepsTypes, FailKeepsTypes
          DEF EndRelease, SettlePlaces
        <4>2. CASE EndRecord(h)
          BY <2>t, <3>1, <4>2, GotoKeepsPlaces, HoldKeepsCopies, WrittenQuotes,
             EndAsKeepsTypes, FailKeepsTypes
          DEF EndRecord, SettlePlaces
        <4> QED
          BY <2>6, <4>1, <4>2 DEF End
      <3> USE DEF TypeOK, storeVars, chainVars, bookVars, GiveBack, NoFault
      <3>3. CASE EndRelease(h)
        BY <2>t, <3>1, <3>2, <3>3, WrittenQuotes DEF EndRelease
      <3>4. CASE EndRecord(h)
        <4>1. record' \in DurableRecord
          BY <2>t, <2>s, <3>4, SetRecordKeepsRecord DEF EndRecord
        <4> QED
          BY <3>2, <3>4, <4>1 DEF EndRecord
      <3> QED
        BY <2>6, <3>3, <3>4 DEF End
    <2>7. ASSUME NEW q \in Polls, Poll(q)
          PROVE  TypeOK'
      <3>1. q \in Handler /\ PollPlaces \cup {"idle"} \subseteq Places
        BY DEF Handler, Places, Rest, PollPlaces
      <3>2. pc' \in [Handler -> Places] /\ copy' \in [Handler -> QuoteCopy]
        <4>1. CASE PollLoad(q)
          BY <2>t, <3>1, <4>1, GotoKeepsPlaces, HoldKeepsCopies, WrittenQuotes,
             EndAsKeepsTypes, FailKeepsTypes
          DEF PollLoad, PollPlaces
        <4>2. CASE PollDecided(q)
          BY <2>t, <3>1, <4>2, GotoKeepsPlaces, HoldKeepsCopies, WrittenQuotes,
             EndAsKeepsTypes, FailKeepsTypes
          DEF PollDecided, PollPlaces
        <4>3. CASE PollPending(q)
          BY <2>t, <3>1, <4>3, GotoKeepsPlaces, HoldKeepsCopies, WrittenQuotes,
             EndAsKeepsTypes, FailKeepsTypes
          DEF PollPending, PollPlaces
        <4>4. CASE PollConfirm(q)
          BY <2>t, <3>1, <4>4, GotoKeepsPlaces, HoldKeepsCopies, WrittenQuotes,
             EndAsKeepsTypes, FailKeepsTypes
          DEF PollConfirm, PollPlaces
        <4>5. CASE PollAccount(q)
          BY <2>t, <3>1, <4>5, GotoKeepsPlaces, HoldKeepsCopies, WrittenQuotes,
             EndAsKeepsTypes, FailKeepsTypes
          DEF PollAccount, PollPlaces
        <4>6. CASE PollRelease(q)
          BY <2>t, <3>1, <4>6, GotoKeepsPlaces, HoldKeepsCopies, WrittenQuotes,
             EndAsKeepsTypes, FailKeepsTypes
          DEF PollRelease, PollPlaces
        <4>7. CASE PollRecord(q)
          BY <2>t, <3>1, <4>7, GotoKeepsPlaces, HoldKeepsCopies, WrittenQuotes,
             EndAsKeepsTypes, FailKeepsTypes
          DEF PollRecord, PollPlaces
        <4> QED
          BY <2>7, <4>1, <4>2, <4>3, <4>4, <4>5, <4>6, <4>7 DEF Poll
      <3> USE DEF TypeOK, storeVars, chainVars, bookVars, GiveBack, NoFault
      <3>3. CASE PollLoad(q)
        BY <2>t, <3>1, <3>2, <3>3, WrittenQuotes DEF PollLoad
      <3>4. CASE PollDecided(q)
        BY <2>t, <3>1, <3>2, <3>4, WrittenQuotes DEF PollDecided
      <3>5. CASE PollPending(q)
        BY <2>t, <3>1, <3>2, <3>5, WrittenQuotes DEF PollPending
      <3>6. CASE PollConfirm(q)
        BY <2>t, <3>1, <3>2, <3>6, WrittenQuotes DEF PollConfirm
      <3>7. CASE PollAccount(q)
        BY <2>t, <3>1, <3>2, <3>7, WrittenQuotes DEF PollAccount
      <3>8. CASE PollRelease(q)
        BY <2>t, <3>1, <3>2, <3>8, WrittenQuotes DEF PollRelease
      <3>9. CASE PollRecord(q)
        <4>1. record' \in DurableRecord
          BY <2>t, <2>s, <3>9, SetRecordKeepsRecord DEF PollRecord
        <4> QED
          BY <3>2, <3>9, <4>1 DEF PollRecord
      <3> QED
        BY <2>7, <3>3, <3>4, <3>5, <3>6, <3>7, <3>8, <3>9 DEF Poll
    <2> USE DEF TypeOK, storeVars, chainVars
    <2>8. ASSUME NEW a \in Aborts, AbortLoad(a)
          PROVE  TypeOK'
      <3>1. a \in Handler /\ AbortPlaces \subseteq Places
        BY DEF Handler, Places, AbortPlaces, PreparePlaces
      <3>2. pc' \in [Handler -> Places] /\ copy' \in [Handler -> QuoteCopy]
        BY <2>t, <2>8, <3>1, GotoKeepsPlaces, HoldKeepsCopies DEF AbortLoad, AbortPlaces
      <3> QED
        BY <2>8, <3>2 DEF AbortLoad
    <2>9. ASSUME NEW h \in Handler, Stop(h)
          PROVE  TypeOK'
      <3>1. pc' \in [Handler -> Places]
        BY <2>t, <2>9, GotoKeepsPlaces DEF Stop, Places, Rest
      <3> QED
        BY <2>9, <3>1, FaultKeepsCount DEF Stop
    <2>10. CASE NextBlock
      BY <2>10 DEF NextBlock
    <2>11. CASE Land
      BY <2>11 DEF Land
    <2>12. CASE UNCHANGED vars
      BY <2>12 DEF vars
    <2> QED
      BY <2>1, <2>2, <2>3, <2>4, <2>5, <2>6, <2>7, <2>8, <2>9, <2>10, <2>11, <2>12 DEF Next
  <1> QED
    BY <1>1, <1>2, PTL DEF Spec

-----------------------------------------------------------------------------
(***************************************************************************)
(* Kora signs once.  The replay lock is what makes it so: from the moment  *)
(* a submission holds it until it has called Kora the count is zero, and   *)
(* once Kora was called nobody gives the lock back.                        *)
(***************************************************************************)
Approaching(s) == pc[s] \in {"check", "cross", "relay", "kora"}
Fresh(s) == pc[s] \in {"idle", "lock"}

SignInv ==
  /\ payer <= 1
  /\ payer # 0 => lock # None
  /\ \A s \in Submits : Approaching(s) => lock = s /\ payer = 0
  /\ \A s \in Submits : pc[s] = "undo" /\ lock = s => payer = 0
  /\ \A s \in Submits : Fresh(s) => lock # s

\* What does not change: the lock and the count, and nobody comes nearer to Kora.
LEMMA SignInvStable ==
  ASSUME TypeOK, SignInv, UNCHANGED <<lock, payer>>,
         \A s \in Submits : Approaching(s)' => Approaching(s),
         \A s \in Submits : pc'[s] = "undo" => pc[s] = "undo" \/ Approaching(s) \/ lock # s,
         \A s \in Submits : Fresh(s)' => Fresh(s)
  PROVE  SignInv'
  BY DEF SignInv, Approaching, Fresh

\* A handler that goes anywhere but nearer to Kora, or to the release of the lock.
LEMMA SignInvElsewhere ==
  ASSUME TypeOK, SignInv, UNCHANGED <<lock, payer>>,
         NEW h \in Handler, NEW place, Goto(h, place),
         h \in Submits => /\ place \notin {"check", "cross", "relay", "kora", "undo"}
                          /\ place \in {"idle", "lock"} => Fresh(h)
  PROVE  SignInv'
  <1>1. pc \in [Handler -> Places] /\ Submits \subseteq Handler
    BY DEF TypeOK, Handler
  <1>2. pc'[h] = place /\ \A t \in Submits : t # h => pc'[t] = pc[t]
    BY <1>1 DEF Goto
  <1> QED
    BY <1>1, <1>2, SignInvStable DEF Approaching, Fresh

LEMMA SignInvEndAs ==
  ASSUME TypeOK, SignInv, UNCHANGED <<lock, payer>>, NEW s \in Submits, NEW st, EndAs(s, st)
  PROVE  SignInv'
  <1>1. s \in Handler
    BY DEF Handler
  <1>2. PICK place \in {"ended", "close"} : Goto(s, place)
    BY DEF EndAs
  <1> QED
    BY <1>1, <1>2, SignInvElsewhere

\* A submission on its way that fails, or comes one step nearer, changes neither.
LEMMA SignInvOnTheWay ==
  ASSUME TypeOK, SignInv, UNCHANGED <<lock, payer>>, NEW s \in Submits, Approaching(s),
         NEW place, Goto(s, place), place \notin {"idle", "lock"}
  PROVE  SignInv'
  <1>1. pc \in [Handler -> Places] /\ s \in Handler
    BY DEF TypeOK, Handler
  <1>2. \A t \in Submits : t # s => pc'[t] = pc[t]
    BY <1>1 DEF Goto, Handler
  <1> QED
    BY <1>1, <1>2, SignInvStable DEF Approaching, Fresh, Goto

LEMMA SigningHolds == Spec => []SignInv
  <1>1. Init => SignInv
    <2> SUFFICES ASSUME Init
                 PROVE  SignInv
      OBVIOUS
    <2>1. \A s \in Submits : pc[s] = "idle"
      BY DEF Init, Handler
    <2>2. \A s \in Submits : s # None
      BY ConstantsAssumption DEF Handler
    <2> QED
      BY <2>1, <2>2 DEF Init, SignInv, Approaching, Fresh
  <1>2. TypeOK /\ SignInv /\ [Next]_vars => SignInv'
    <2> SUFFICES ASSUME TypeOK, SignInv, [Next]_vars
                 PROVE  SignInv'
      OBVIOUS
    <2> USE DEF storeVars, bookVars, chainVars
    <2>0. pc \in [Handler -> Places]
      BY DEF TypeOK
    <2>1. ASSUME NEW p \in Prepares, Prepare(p)
          PROVE  SignInv'
      <3>1. p \in Handler /\ p \notin Submits
        BY ConstantsAssumption DEF Handler
      <3> QED
        BY <2>1, <3>1, SignInvElsewhere
        DEF Prepare, PrepareLoad, PrepareCreate, PrepareSave, PrepareReserve, PrepareActivate,
            PrepareWindow
    <2>2. ASSUME NEW h \in Prepares \cup Aborts, Fail(h)
          PROVE  SignInv'
      <3>1. h \in Handler /\ h \notin Submits
        BY ConstantsAssumption DEF Handler
      <3> QED
        BY <2>2, <3>1, SignInvElsewhere DEF Fail, FailRelease, FailRecord, FailQuote
    <2>3. ASSUME NEW s \in Submits, Submit(s)
          PROVE  SignInv'
      <3>1. s \in Handler
        BY DEF Handler
      <3>2. CASE SubmitLoad(s)
        <4>1. PICK place \in {"done", "observe", "lock"} : Goto(s, place)
          BY <3>2 DEF SubmitLoad
        <4>2. Fresh(s)
          BY <3>2 DEF SubmitLoad, MayStart, Fresh
        <4> QED
          BY <3>1, <3>2, <4>1, <4>2, SignInvElsewhere DEF SubmitLoad
      <3>3. CASE SubmitLock(s)
        <4>1. CASE lock = None /\ lock' = s /\ Goto(s, "check")
          <5>1. payer = 0 /\ payer' = 0 /\ \A t \in Submits : ~Approaching(t)
            BY <3>3, <4>1, ConstantsAssumption DEF SubmitLock, SignInv, TypeOK, Handler
          <5>2. s # None
            BY <3>1, ConstantsAssumption
          <5>3. \A t \in Submits : t # s => pc'[t] = pc[t]
            BY <2>0, <3>1, <4>1 DEF Goto, Handler
          <5> QED
            BY <2>0, <3>1, <4>1, <5>1, <5>2, <5>3 DEF SignInv, Approaching, Fresh, Goto
        <4>2. CASE lock # None /\ lock' = lock /\ Goto(s, "undo")
          <5>1. lock # s /\ payer' = payer
            BY <3>3 DEF SubmitLock, SignInv, Fresh
          <5>2. \A t \in Submits : t # s => pc'[t] = pc[t]
            BY <2>0, <3>1, <4>2 DEF Goto, Handler
          <5> QED
            BY <2>0, <3>1, <4>2, <5>1, <5>2, SignInvStable DEF Approaching, Fresh, Goto
        <4> QED
          BY <3>3, <4>1, <4>2 DEF SubmitLock, FailEarly
      <3>4. CASE SubmitCheck(s)
        BY <3>4, SignInvOnTheWay DEF SubmitCheck, FailEarly, Approaching
      <3>5. CASE SubmitCross(s)
        BY <3>5, SignInvOnTheWay DEF SubmitCross, FailEarly, FailCrossed, Approaching
      <3>6. CASE SubmitRelay(s)
        BY <3>6, SignInvOnTheWay DEF SubmitRelay, FailCrossed, Approaching
      <3>7. CASE SubmitKora(s)
        <4>1. lock = s /\ payer = 0 /\ lock' = s
          BY <3>7 DEF SubmitKora, SignInv, Approaching
        <4>2. payer' \in {0, 1}
          BY <3>7, <4>1 DEF SubmitKora
        <4>3. PICK place \in {"final", "save"} : Goto(s, place)
          BY <3>7 DEF SubmitKora, FailCrossed
        <4>4. \A t \in Submits : t # s => ~Approaching(t) /\ lock' # t /\ pc'[t] = pc[t]
          BY <2>0, <3>1, <4>1, <4>3 DEF SignInv, Goto, Handler
        <4>5. s # None
          BY <3>1, ConstantsAssumption
        <4> QED
          BY <2>0, <3>1, <4>1, <4>2, <4>3, <4>4, <4>5 DEF SignInv, Approaching, Fresh, Goto
      <3>8. CASE SubmitFinal(s)
        BY <3>1, <3>8, SignInvElsewhere DEF SubmitFinal, FailSigned
      <3>9. CASE SubmitRecord(s) \/ SubmitPersist(s) \/ SubmitBroadcast(s)
        BY <3>1, <3>9, SignInvElsewhere DEF SubmitRecord, SubmitPersist, SubmitBroadcast
      <3> QED
        BY <2>3, <3>2, <3>3, <3>4, <3>5, <3>6, <3>7, <3>8, <3>9 DEF Submit
    <2>4. ASSUME NEW s \in Submits, Catch(s)
          PROVE  SignInv'
      <3>1. s \in Handler
        BY DEF Handler
      <3>2. CASE CatchUndo(s)
        <4>1. payer' = payer /\ pc'[s] = "save" /\ \A t \in Submits : t # s => pc'[t] = pc[t]
          BY <2>0, <3>1, <3>2 DEF CatchUndo, Goto, Handler
        <4>2. CASE lock = s
          <5>1. payer = 0 /\ lock' = None
            BY <3>2, <4>2 DEF CatchUndo, SignInv
          <5>2. \A t \in Submits : t # s => ~Approaching(t)
            BY <4>2 DEF SignInv
          <5>3. \A t \in Submits : t # None
            BY ConstantsAssumption DEF Handler
          <5> QED
            BY <4>1, <5>1, <5>2, <5>3 DEF SignInv, Approaching, Fresh
        <4>3. CASE lock # s
          <5>1. lock' = lock
            BY <3>2, <4>3 DEF CatchUndo
          <5> QED
            BY <4>1, <5>1, SignInvStable DEF Approaching, Fresh
        <4> QED
          BY <4>2, <4>3
      <3>3. CASE CatchGiveBack(s) \/ CatchSave(s) \/ CatchMark(s)
        BY <3>1, <3>3, SignInvElsewhere DEF CatchGiveBack, CatchSave, CatchMark
      <3> QED
        BY <2>4, <3>2, <3>3 DEF Catch
    <2>5. ASSUME NEW s \in Submits, Settle(s)
          PROVE  SignInv'
      <3>1. s \in Handler
        BY DEF Handler
      <3> QED
        BY <2>5, <3>1, SignInvElsewhere, SignInvEndAs
        DEF Settle, SubmitObserve, SubmitConfirm, SubmitSettle, SubmitAccount, SubmitMismatch,
            SubmitExpire, SubmitClose, SubmitThank
    <2>6. ASSUME NEW h \in Submits \cup Polls, End(h)
          PROVE  SignInv'
      <3>1. h \in Handler /\ (h \in Polls => h \notin Submits)
        BY ConstantsAssumption DEF Handler
      <3> QED
        BY <2>6, <3>1, SignInvElsewhere, SignInvEndAs DEF End, EndRelease, EndRecord
    <2>7. ASSUME NEW q \in Polls, Poll(q)
          PROVE  SignInv'
      <3>1. q \in Handler /\ q \notin Submits
        BY ConstantsAssumption DEF Handler
      <3> QED
        BY <2>7, <3>1, SignInvElsewhere
        DEF Poll, PollLoad, PollDecided, PollPending, PollConfirm, PollAccount, PollRelease,
            PollRecord
    <2>8. ASSUME NEW a \in Aborts, AbortLoad(a)
          PROVE  SignInv'
      <3>1. a \in Handler /\ a \notin Submits
        BY ConstantsAssumption DEF Handler
      <3> QED
        BY <2>8, <3>1, SignInvElsewhere DEF AbortLoad
    <2>9. ASSUME NEW h \in Handler, Stop(h)
          PROVE  SignInv'
      <3>1. h \in Submits => h \notin Polls
        BY ConstantsAssumption
      <3> QED
        BY <2>9, <3>1, SignInvElsewhere DEF Stop
    <2>10. CASE NextBlock \/ Land \/ UNCHANGED vars
      <3>1. UNCHANGED <<pc, lock, payer>>
        BY <2>10 DEF NextBlock, Land, vars
      <3> QED
        BY <3>1 DEF SignInv, Approaching, Fresh
    <2> QED
      BY <2>1, <2>2, <2>3, <2>4, <2>5, <2>6, <2>7, <2>8, <2>9, <2>10 DEF Next
  <1> QED
    BY <1>1, <1>2, TypeCorrect, PTL DEF Spec

\* Kora is asked for the payer's signature at most once (see PayerSignsOnce).
THEOREM SignsOnce == Spec => []PayerSignsOnce
  <1>1. SignInv => PayerSignsOnce
    BY DEF SignInv, PayerSignsOnce
  <1> QED
    BY <1>1, SigningHolds, PTL
-----------------------------------------------------------------------------
(***************************************************************************)
(* The signature is recorded before the bytes go out.  A record that has a *)
(* signature is a record, so nobody creates it anew; every other write of  *)
(* it changes the status only.                                             *)
(***************************************************************************)
AboutToSend(s) == pc[s] \in {"persist", "broadcast"}

PersistInv ==
  /\ record.signed => record.status # "none"
  /\ \A s \in Submits : AboutToSend(s) => record.signed
  /\ wire => record.signed

\* A handler that goes elsewhere, and writes no more than the record's status.
LEMMA PersistInvElsewhere ==
  ASSUME TypeOK, PersistInv, UNCHANGED wire,
         NEW h \in Handler, NEW place, Goto(h, place), place \notin {"persist", "broadcast"},
         UNCHANGED record \/ \E st \in Status : SetRecord(st)
  PROVE  PersistInv'
  <1>1. pc \in [Handler -> Places] /\ Submits \subseteq Handler /\ record \in DurableRecord
    BY DEF TypeOK, Handler
  <1>2. \A s \in Submits : AboutToSend(s)' => AboutToSend(s)
    BY <1>1 DEF Goto, AboutToSend
  <1>3. record'.signed = record.signed /\ (record.status # "none" => record'.status # "none")
    BY <1>1 DEF SetRecord, DurableRecord, Status
  <1> QED
    BY <1>2, <1>3 DEF PersistInv

LEMMA PersistInvEndAs ==
  ASSUME TypeOK, PersistInv, UNCHANGED wire, NEW s \in Submits, NEW st, EndAs(s, st),
         UNCHANGED record \/ \E t \in Status : SetRecord(t)
  PROVE  PersistInv'
  <1>1. s \in Handler
    BY DEF Handler
  <1>2. PICK place \in {"ended", "close"} : Goto(s, place)
    BY DEF EndAs
  <1> QED
    BY <1>1, <1>2, PersistInvElsewhere

LEMMA PersistenceHolds == Spec => []PersistInv
  <1>1. Init => PersistInv
    <2> SUFFICES ASSUME Init
                 PROVE  PersistInv
      OBVIOUS
    <2>1. \A s \in Submits : pc[s] = "idle"
      BY DEF Init, Handler
    <2> QED
      BY <2>1 DEF Init, PersistInv, AboutToSend
  <1>2. TypeOK /\ PersistInv /\ [Next]_vars => PersistInv'
    <2> SUFFICES ASSUME TypeOK, PersistInv, [Next]_vars
                 PROVE  PersistInv'
      OBVIOUS
    <2> USE DEF storeVars, bookVars, chainVars
    <2>0. pc \in [Handler -> Places] /\ copy \in [Handler -> QuoteCopy] /\ record \in DurableRecord
      BY DEF TypeOK
    <2>s. {"failed", "relaying", "reconciled", "submitted"} \subseteq Status
      BY DEF Status
    <2>h. Prepares \cup Aborts \cup Submits \cup Polls \subseteq Handler
      BY DEF Handler
    <2>1. ASSUME NEW p \in Prepares, Prepare(p)
          PROVE  PersistInv'
      <3>1. CASE PrepareCreate(p)
        <4>1. CASE UNCHANGED record
          <5>1. PICK place \in {"save_prepared", "ended"} : Goto(p, place)
            BY <3>1 DEF PrepareCreate
          <5> QED
            BY <2>h, <3>1, <4>1, <5>1, PersistInvElsewhere DEF PrepareCreate
        <4>2. CASE record.status = "none" /\ Goto(p, "save_prepared")
          <5>1. ~record.signed /\ ~wire' /\ \A s \in Submits : ~AboutToSend(s)
            BY <3>1, <4>2 DEF PrepareCreate, PersistInv
          <5>2. record'.status # "none" /\ \A s \in Submits : ~AboutToSend(s)'
            BY <2>0, <2>h, <3>1, <4>2, <5>1 DEF PrepareCreate, Goto, AboutToSend
          <5> QED
            BY <5>1, <5>2 DEF PersistInv
        <4> QED
          BY <3>1, <4>1, <4>2 DEF PrepareCreate
      <3>2. CASE ~PrepareCreate(p)
        BY <2>1, <2>h, <3>2, PersistInvElsewhere
        DEF Prepare, PrepareLoad, PrepareSave, PrepareReserve, PrepareActivate, PrepareWindow
      <3> QED
        BY <3>1, <3>2
    <2>2. ASSUME NEW h \in Prepares \cup Aborts, Fail(h)
          PROVE  PersistInv'
      BY <2>2, <2>h, <2>s, PersistInvElsewhere DEF Fail, FailRelease, FailRecord, FailQuote
    <2>3. ASSUME NEW s \in Submits, Submit(s)
          PROVE  PersistInv'
      <3>1. CASE SubmitRecord(s)
        <4>1. record'.signed /\ record'.status # "none"
          BY <3>1 DEF SubmitRecord
        <4> QED
          BY <4>1 DEF PersistInv
      <3>2. CASE SubmitPersist(s) \/ SubmitBroadcast(s)
        <4>1. record.signed /\ record' = record
          BY <3>2 DEF SubmitPersist, SubmitBroadcast, PersistInv, AboutToSend
        <4> QED
          BY <4>1 DEF PersistInv
      <3>3. CASE SubmitLoad(s)
        <4>1. PICK place \in {"done", "observe", "lock"} : Goto(s, place)
          BY <3>3 DEF SubmitLoad
        <4> QED
          BY <2>h, <3>3, <4>1, PersistInvElsewhere DEF SubmitLoad
      <3>4. CASE SubmitLock(s) \/ SubmitCheck(s) \/ SubmitCross(s)
        BY <2>h, <3>4, PersistInvElsewhere
        DEF SubmitLock, SubmitCheck, SubmitCross, FailEarly, FailCrossed
      <3>5. CASE SubmitRelay(s) \/ SubmitKora(s) \/ SubmitFinal(s)
        BY <2>h, <2>s, <3>5, PersistInvElsewhere
        DEF SubmitRelay, SubmitKora, SubmitFinal, FailCrossed, FailSigned
      <3> QED
        BY <2>3, <3>1, <3>2, <3>3, <3>4, <3>5 DEF Submit
    <2>4. ASSUME NEW s \in Submits, Catch(s)
          PROVE  PersistInv'
      <3>1. copy[s].burn \in Status
        BY <2>0, <2>h DEF QuoteCopy
      <3> QED
        BY <2>4, <2>h, <3>1, PersistInvElsewhere
        DEF Catch, CatchUndo, CatchGiveBack, CatchSave, CatchMark
    <2>5. ASSUME NEW s \in Submits, Settle(s)
          PROVE  PersistInv'
      <3>1. CASE SubmitClose(s)
        <4>1. PICK place \in {"thank", "ended"} : Goto(s, place)
          BY <3>1 DEF SubmitClose
        <4> QED
          BY <2>h, <3>1, <4>1, PersistInvElsewhere DEF SubmitClose
      <3>2. CASE ~SubmitClose(s)
        BY <2>5, <2>h, <2>s, <3>2, PersistInvElsewhere, PersistInvEndAs
        DEF Settle, SubmitObserve, SubmitConfirm, SubmitSettle, SubmitAccount, SubmitMismatch,
            SubmitExpire, SubmitThank
      <3> QED
        BY <3>1, <3>2
    <2>6. ASSUME NEW h \in Submits \cup Polls, End(h)
          PROVE  PersistInv'
      BY <2>6, <2>h, <2>s, PersistInvElsewhere, PersistInvEndAs DEF End, EndRelease, EndRecord
    <2>7. ASSUME NEW q \in Polls, Poll(q)
          PROVE  PersistInv'
      BY <2>7, <2>h, <2>s, PersistInvElsewhere
      DEF Poll, PollLoad, PollDecided, PollPending, PollConfirm, PollAccount, PollRelease,
          PollRecord
    <2>8. ASSUME NEW a \in Aborts, AbortLoad(a)
          PROVE  PersistInv'
      <3>1. PICK place \in {"fail_record", "fail_release"} : Goto(a, place)
        BY <2>8 DEF AbortLoad
      <3> QED
        BY <2>8, <2>h, <3>1, PersistInvElsewhere DEF AbortLoad
    <2>9. ASSUME NEW h \in Handler, Stop(h)
          PROVE  PersistInv'
      <3>1. PICK place \in {"idle", "ended"} : Goto(h, place)
        BY <2>9 DEF Stop
      <3> QED
        BY <2>9, <3>1, PersistInvElsewhere DEF Stop
    <2>10. CASE NextBlock \/ Land \/ UNCHANGED vars
      <3>1. UNCHANGED <<pc, record, wire>>
        BY <2>10 DEF NextBlock, Land, vars
      <3> QED
        BY <3>1 DEF PersistInv, AboutToSend
    <2> QED
      BY <2>1, <2>2, <2>3, <2>4, <2>5, <2>6, <2>7, <2>8, <2>9, <2>10 DEF Next
  <1> QED
    BY <1>1, <1>2, TypeCorrect, PTL DEF Spec

\* Bytes that were broadcast have their signature on record (see BroadcastIsPersisted).
THEOREM PersistsFirst == Spec => []BroadcastIsPersisted
  <1>1. PersistInv => BroadcastIsPersisted
    BY DEF PersistInv, BroadcastIsPersisted
  <1> QED
    BY <1>1, PersistenceHolds, PTL

-----------------------------------------------------------------------------
(***************************************************************************)
(* What is in the books is on chain.  A handler comes to write the books   *)
(* only after it saw the transaction succeed, which stays true; a quote,   *)
(* stored or held, calls its burn reconciled only after the books say so.  *)
(***************************************************************************)
Booking(h) == pc[h] \in {"settle", "account", "poll_account"}

BooksInv ==
  /\ accounted => landed = "ok"
  /\ \A h \in Handler : Booking(h) => landed = "ok"
  /\ \A h \in Handler : copy[h].burn = "reconciled" => accounted
  /\ quote.burn = "reconciled" => accounted

\* A handler that goes elsewhere, and holds or stores no news of a reconciliation.
LEMMA BooksInvElsewhere ==
  ASSUME TypeOK, BooksInv, UNCHANGED <<landed, accounted>>,
         NEW h \in Handler, NEW place, Goto(h, place),
         place \notin {"settle", "account", "poll_account"} \/ landed = "ok",
         \/ UNCHANGED copy
         \/ \E q \in QuoteCopy : Hold(h, q) /\ (q.burn = "reconciled" => accounted),
         quote'.burn = "reconciled" => accounted
  PROVE  BooksInv'
  <1>1. pc \in [Handler -> Places] /\ copy \in [Handler -> QuoteCopy]
    BY DEF TypeOK
  <1>2. \A g \in Handler : Booking(g)' => landed = "ok"
    BY <1>1 DEF Goto, Booking, BooksInv
  <1>3. \A g \in Handler : copy'[g].burn = "reconciled" => accounted
    <2> SUFFICES ASSUME NEW g \in Handler, copy'[g].burn = "reconciled"
                 PROVE  accounted
      OBVIOUS
    <2>1. CASE copy'[g] = copy[g]
      BY <2>1 DEF BooksInv
    <2>2. CASE copy'[g] # copy[g]
      <3>1. PICK q \in QuoteCopy : Hold(h, q) /\ (q.burn = "reconciled" => accounted)
        BY <2>2
      <3> QED
        BY <1>1, <2>2, <3>1 DEF Hold
    <2> QED
      BY <2>1, <2>2
  <1> QED
    BY <1>2, <1>3 DEF BooksInv

LEMMA BooksInvEndAs ==
  ASSUME TypeOK, BooksInv, UNCHANGED <<landed, accounted, quote>>, NEW s \in Submits,
         NEW st \in {"submitted", "failed"}, EndAs(s, st)
  PROVE  BooksInv'
  <1>1. s \in Handler
    BY DEF Handler
  <1>2. PICK place \in {"ended", "close"} : Goto(s, place)
    BY DEF EndAs
  <1>3. UNCHANGED copy \/ Hold(s, Both(st))
    BY DEF EndAs
  <1>4. Both(st) \in QuoteCopy /\ Both(st).burn # "reconciled"
    BY WrittenQuotes DEF Both
  <1>5. quote'.burn = "reconciled" => accounted
    BY DEF BooksInv
  <1> QED
    BY <1>1, <1>2, <1>3, <1>4, <1>5, BooksInvElsewhere

LEMMA BookingHolds == Spec => []BooksInv
  <1>1. Init => BooksInv
    <2> SUFFICES ASSUME Init
                 PROVE  BooksInv
      OBVIOUS
    <2>1. quote.burn # "reconciled" /\ \A h \in Handler : pc[h] = "idle" /\ copy[h].burn # "reconciled"
      BY DEF Init, Created, Both
    <2> QED
      BY <2>1 DEF Init, BooksInv, Booking
  <1>2. TypeOK /\ BooksInv /\ [Next]_vars => BooksInv'
    <2> SUFFICES ASSUME TypeOK, BooksInv, [Next]_vars
                 PROVE  BooksInv'
      OBVIOUS
    <2> USE DEF storeVars, bookVars, chainVars
    <2>0. /\ pc \in [Handler -> Places] /\ copy \in [Handler -> QuoteCopy]
          /\ quote \in QuoteCopy
      BY DEF TypeOK
    <2>h. Prepares \cup Aborts \cup Submits \cup Polls \subseteq Handler
      BY DEF Handler
    <2>q. /\ quote.burn = "reconciled" => accounted
          /\ \A h \in Handler : copy[h].burn = "reconciled" => accounted
      BY DEF BooksInv
    <2>w. /\ Awaiting \in QuoteCopy /\ Awaiting.burn # "reconciled"
          /\ FailedQuote \in QuoteCopy /\ FailedQuote.burn # "reconciled"
          /\ Both("submitted") \in QuoteCopy /\ Both("submitted").burn # "reconciled"
      BY WrittenQuotes DEF Awaiting, FailedQuote, Both
    <2>1. ASSUME NEW p \in Prepares, Prepare(p)
          PROVE  BooksInv'
      <3>1. CASE PrepareLoad(p)
        <4>1. PICK place \in {"create", "reserve"} : Goto(p, place)
          BY <3>1 DEF PrepareLoad
        <4> QED
          BY <2>0, <2>h, <2>q, <3>1, <4>1, BooksInvElsewhere DEF PrepareLoad
      <3>2. CASE PrepareCreate(p)
        BY <2>h, <2>q, <2>w, <3>2, BooksInvElsewhere DEF PrepareCreate
      <3>3. CASE PrepareSave(p) \/ PrepareWindow(p)
        <4>1. PICK place \in {"reserve", "done"} : Goto(p, place)
          BY <3>3 DEF PrepareSave, PrepareWindow
        <4>2. quote' = copy[p] /\ UNCHANGED <<landed, accounted, copy>>
          BY <3>3 DEF PrepareSave, PrepareWindow
        <4> QED
          BY <2>h, <2>q, <4>1, <4>2, BooksInvElsewhere
      <3>4. CASE PrepareReserve(p) \/ PrepareActivate(p)
        BY <2>h, <2>q, <3>4, BooksInvElsewhere DEF PrepareReserve, PrepareActivate
      <3> QED
        BY <2>1, <3>1, <3>2, <3>3, <3>4 DEF Prepare
    <2>2. ASSUME NEW h \in Prepares \cup Aborts, Fail(h)
          PROVE  BooksInv'
      BY <2>2, <2>h, <2>q, <2>w, BooksInvElsewhere DEF Fail, FailRelease, FailRecord, FailQuote
    <2>3. ASSUME NEW s \in Submits, Submit(s)
          PROVE  BooksInv'
      <3>1. CASE SubmitLoad(s)
        <4>1. PICK place \in {"done", "observe", "lock"} : Goto(s, place)
          BY <3>1 DEF SubmitLoad
        <4> QED
          BY <2>0, <2>h, <2>q, <3>1, <4>1, BooksInvElsewhere DEF SubmitLoad
      <3>2. CASE SubmitCross(s)
        <4>1. Crossing(s) \in QuoteCopy /\ Crossing(s).burn # "reconciled"
          BY <2>0, <2>h, CrossingIsQuote DEF Crossing, QuoteCopy
        <4> QED
          BY <2>h, <2>q, <2>w, <3>2, <4>1, BooksInvElsewhere DEF SubmitCross, FailEarly, FailCrossed
      <3>3. CASE SubmitPersist(s)
        BY <2>h, <2>q, <3>3, BooksInvElsewhere DEF SubmitPersist
      <3>4. CASE SubmitLock(s) \/ SubmitCheck(s) \/ SubmitRelay(s)
        BY <2>h, <2>q, <2>w, <3>4, BooksInvElsewhere
        DEF SubmitLock, SubmitCheck, SubmitRelay, FailEarly, FailCrossed
      <3>5. CASE SubmitKora(s) \/ SubmitFinal(s)
        BY <2>h, <2>q, <2>w, <3>5, BooksInvElsewhere
        DEF SubmitKora, SubmitFinal, FailCrossed, FailSigned
      <3>6. CASE SubmitRecord(s) \/ SubmitBroadcast(s)
        BY <2>h, <2>q, <2>w, <3>6, BooksInvElsewhere DEF SubmitRecord, SubmitBroadcast
      <3> QED
        BY <2>3, <3>1, <3>2, <3>3, <3>4, <3>5, <3>6 DEF Submit
    <2>4. ASSUME NEW s \in Submits, Catch(s)
          PROVE  BooksInv'
      BY <2>4, <2>h, <2>q, BooksInvElsewhere
      DEF Catch, CatchUndo, CatchGiveBack, CatchSave, CatchMark
    <2>5. ASSUME NEW s \in Submits, Settle(s)
          PROVE  BooksInv'
      <3>1. CASE SubmitClose(s)
        <4>1. PICK place \in {"thank", "ended"} : Goto(s, place)
          BY <3>1 DEF SubmitClose
        <4> QED
          BY <2>h, <2>q, <3>1, <4>1, BooksInvElsewhere DEF SubmitClose
      <3>2. CASE SubmitObserve(s) \/ SubmitExpire(s) \/ SubmitMismatch(s)
        BY <2>h, <2>q, <3>2, BooksInvElsewhere, BooksInvEndAs
        DEF SubmitObserve, SubmitExpire, SubmitMismatch
      <3>3. CASE SubmitConfirm(s)
        BY <2>h, <2>q, <3>3, BooksInvElsewhere, BooksInvEndAs DEF SubmitConfirm, EconomicsHold
      <3>4. CASE SubmitSettle(s)
        <4>1. landed = "ok"
          BY <2>h, <3>4 DEF SubmitSettle, BooksInv, Booking
        <4> QED
          BY <2>h, <2>q, <3>4, <4>1, BooksInvElsewhere DEF SubmitSettle
      <3>5. CASE SubmitAccount(s)
        <4>1. landed' = "ok" /\ accounted'
          BY <2>h, <3>5 DEF SubmitAccount, BooksInv, Booking
        <4> QED
          BY <4>1 DEF BooksInv
      <3>6. CASE SubmitThank(s)
        BY <2>h, <2>q, <3>6, BooksInvElsewhere DEF SubmitThank
      <3> QED
        BY <2>5, <3>1, <3>2, <3>3, <3>4, <3>5, <3>6 DEF Settle
    <2>6. ASSUME NEW h \in Submits \cup Polls, End(h)
          PROVE  BooksInv'
      BY <2>6, <2>h, <2>q, BooksInvElsewhere, BooksInvEndAs DEF End, EndRelease, EndRecord
    <2>7. ASSUME NEW q \in Polls, Poll(q)
          PROVE  BooksInv'
      <3>1. CASE PollAccount(q)
        <4>1. landed' = "ok" /\ accounted'
          BY <2>h, <3>1 DEF PollAccount, BooksInv, Booking
        <4> QED
          BY <4>1 DEF BooksInv
      <3>2. CASE ~PollAccount(q)
        BY <2>7, <2>h, <2>q, <3>2, BooksInvElsewhere
        DEF Poll, PollLoad, PollDecided, PollPending, PollConfirm, EconomicsHold, PollRelease,
            PollRecord
      <3> QED
        BY <3>1, <3>2
    <2>8. ASSUME NEW a \in Aborts, AbortLoad(a)
          PROVE  BooksInv'
      <3>1. PICK place \in {"fail_record", "fail_release"} : Goto(a, place)
        BY <2>8 DEF AbortLoad
      <3> QED
        BY <2>0, <2>8, <2>h, <2>q, <3>1, BooksInvElsewhere DEF AbortLoad
    <2>9. ASSUME NEW h \in Handler, Stop(h)
          PROVE  BooksInv'
      <3>1. PICK place \in {"idle", "ended"} : Goto(h, place)
        BY <2>9 DEF Stop
      <3> QED
        BY <2>9, <2>q, <3>1, BooksInvElsewhere DEF Stop
    <2>10. CASE NextBlock \/ UNCHANGED vars
      <3>1. UNCHANGED <<pc, copy, quote, accounted, landed>>
        BY <2>10 DEF NextBlock, vars
      <3> QED
        BY <3>1 DEF BooksInv, Booking
    <2>11. CASE Land
      <3>1. landed # "ok" /\ UNCHANGED <<pc, copy, quote, accounted>>
        BY <2>11 DEF Land
      <3> QED
        BY <3>1 DEF BooksInv, Booking
    <2> QED
      BY <2>1, <2>2, <2>3, <2>4, <2>5, <2>6, <2>7, <2>8, <2>9, <2>10, <2>11 DEF Next
  <1> QED
    BY <1>1, <1>2, TypeCorrect, PTL DEF Spec

\* What the quote calls reconciled was booked, and what was booked has landed (see
\* ReconciledIsOnChain).
THEOREM BooksAreTrue == Spec => []ReconciledIsOnChain
  <1>1. BooksInv => ReconciledIsOnChain
    BY DEF BooksInv, ReconciledIsOnChain
  <1> QED
    BY <1>1, BookingHolds, PTL

-----------------------------------------------------------------------------
(***************************************************************************)
(* What a console may rely on.  It sends its requests in their order, one  *)
(* at a time, and may submit as often as it likes; the verdicts on a       *)
(* signature are sound.                                                    *)
(***************************************************************************)
Orderly == Disciplined /\ SoundObservation

\* The order of the requests, as it shows in where the handlers are.
InTurn ==
  /\ \A p, r \in Prepares : Started(p) /\ Started(r) => p = r
  /\ \A g \in Aborts \cup Submits : Started(g) => \E p \in Prepares : pc[p] = "done"
  /\ \A s \in Submits, a \in Aborts : Started(s) => ~Started(a)
  /\ \A g, h \in Aborts \cup Submits : ~AtRest(g) /\ ~AtRest(h) => g = h

(***************************************************************************)
(* No submission is on its way and none will ever be: an abort began or    *)
(* the prepare gave up, so that no submission begins; or the replay lock   *)
(* is taken for good.                                                      *)
(***************************************************************************)
Sending == {"check", "cross", "relay", "kora", "final", "record", "persist", "broadcast"}
Giving == {"fail_release", "fail_record", "fail_quote", "ended"}

Turned == (\E a \in Aborts : Started(a)) \/ (\E p \in Prepares : pc[p] \in Giving)
Shut == lock # None /\ \A s \in Submits : pc[s] \notin Sending /\ (pc[s] = "undo" => lock # s)
Never == ~wire /\ (Turned \/ Shut)

(***************************************************************************)
(* Kora has signed before anything is sent, and a submission that backs    *)
(* out with a failed quote in hand keeps the lock.                         *)
(***************************************************************************)
Holding == {"final", "record", "persist", "broadcast", "giveback"}
BacksOut(place, q) == place = "giveback" \/ (place \in {"save", "mark"} /\ q.burn = "failed")

SentInv ==
  /\ landed # "none" => wire
  /\ wire => payer > 0
  /\ \A s \in Submits :
       /\ pc[s] \in Holding => payer > 0 /\ ~wire
       /\ pc[s] = "undo" => copy[s].burn # "failed"
       /\ BacksOut(pc[s], copy[s]) => Never

(***************************************************************************)
(* What a handler has seen of the chain when it comes to a place, and what *)
(* the reservation and the record tell about it.                           *)
(***************************************************************************)
Over == landed # "none" \/ height > LastValid
Ended == landed = "err" \/ (landed = "none" /\ height > LastValid)

Knows(place) ==
  /\ place \in {"expire", "end_release", "end_record"} => Over /\ (AccountLag \/ Ended)
  /\ place \in {"settle", "account", "thank", "poll_account", "poll_release", "poll_record"}
       => landed = "ok"
  /\ place = "mismatch" => landed = "ok" /\ AccountLag

ToldInv ==
  /\ \A h \in Handler : Knows(pc[h])
  /\ exposure = "released" => Over \/ Never
  /\ record.status = "failed" => AccountLag \/ Ended \/ Never
  /\ record.status = "reconciled" => landed = "ok"

ConsoleInv == InTurn /\ SentInv /\ ToldInv

(***************************************************************************)
(* A step of a handler, as far as the invariant is concerned: where it may *)
(* go, and what it may write.                                              *)
(***************************************************************************)
Goes(h, place) ==
  /\ pc' = [pc EXCEPT ![h] = place]
  /\ pc[h] \notin {"done", "ended"} /\ (pc[h] = "idle" => MayStart(h))
  /\ h \notin Polls => place # "idle"
  /\ h \in Prepares /\ pc[h] \in Giving => place \in Giving
  /\ Knows(place)
  /\ h \in Submits =>
       /\ place \in Sending => pc[h] \in Sending \/ (pc[h] = "lock" /\ lock = None)
       /\ place = "undo" => pc[h] \in {"check", "cross"} \/ lock # h
       /\ place \in Holding => pc[h] \in {"final", "record", "persist"} \/ pc[h] = "kora"

Copies(h, place) ==
  /\ \A s \in Submits : s # h => copy'[s] = copy[s]
  /\ h \in Submits =>
       /\ place = "undo" => copy'[h].burn # "failed"
       /\ BacksOut(place, copy'[h]) =>
            BacksOut(pc[h], copy[h]) \/ pc[h] \in {"cross", "relay", "kora", "final"}

Chains(h, place) ==
  /\ landed' = landed /\ height' = height
  /\ \/ wire' = wire
     \/ h \in Submits /\ pc[h] = "broadcast" /\ place \notin Sending \cup Holding
  /\ \/ payer' = payer /\ (h \in Submits /\ pc[h] = "kora" => place \notin Holding)
     \/ h \in Submits /\ pc[h] = "kora" /\ payer' = payer + 1

Stores(h, place) ==
  /\ \/ lock' = lock
     \/ h \in Submits /\ pc[h] = "lock" /\ place = "check" /\ lock = None /\ lock' = h
     \/ h \in Submits /\ pc[h] = "undo" /\ place = "save" /\ lock = h /\ lock' = None
  /\ exposure' = "released" => exposure = "released" \/ Over \/ Never
  /\ record'.status = "failed" => record.status = "failed" \/ AccountLag \/ Ended \/ Never
  /\ record'.status = "reconciled" => record.status = "reconciled" \/ landed = "ok"

Does(h, place) == Goes(h, place) /\ Copies(h, place) /\ Chains(h, place) /\ Stores(h, place)

Holds == TypeOK /\ SignInv /\ BooksInv /\ ConsoleInv

\* The facts about the kinds of handlers that the lemmas use.
LEMMA Kinds ==
  ASSUME TypeOK
  PROVE  /\ \A h \in Prepares : h \in Handler /\ h \notin Aborts \cup Submits \cup Polls
         /\ \A h \in Aborts : h \in Handler /\ h \notin Prepares \cup Submits \cup Polls
         /\ \A h \in Submits : h \in Handler /\ h \notin Aborts \cup Prepares \cup Polls
         /\ \A h \in Polls : h \in Handler /\ h \notin Aborts \cup Prepares \cup Submits
         /\ \A h \in Handler : h \in Prepares \/ h \in Aborts \/ h \in Submits \/ h \in Polls
         /\ \A h \in Submits : h # None
         /\ pc = [h \in Handler |-> pc[h]]
         /\ LastValid \in Nat /\ height \in Nat /\ payer \in Nat
         /\ landed \in {"none", "ok", "err"} /\ wire \in BOOLEAN
         /\ lock \in Submits \cup {None}
  BY ConstantsAssumption DEF TypeOK, Handler

\* The handlers take their turns.
LEMMA TurnKeeps ==
  ASSUME Orderly, TypeOK, InTurn, NEW h \in Handler, NEW place, Goes(h, place)
  PROVE  /\ InTurn'
         /\ h \in Aborts \cup Submits =>
              \A g \in Aborts \cup Submits : g # h => AtRest(g)
  <1>1. pc'[h] = place /\ \A g \in Handler : g # h => pc'[g] = pc[g]
    BY Kinds DEF Goes
  <1>2. pc[h] = "idle" =>
          \/ h \in Polls
          \/ h \in Prepares /\ \A g \in Handler \ Polls : ~Started(g)
          \/ /\ h \in Aborts \cup Submits
             /\ \E p \in Prepares : pc[p] = "done"
             /\ \A g \in Handler \ Polls : AtRest(g)
             /\ \A g \in IF h \in Aborts THEN Submits ELSE Aborts : ~Started(g)
    BY DEF Orderly, Goes, MayStart
  <1>3. h \in Aborts \cup Submits => \A g \in Aborts \cup Submits : g # h => AtRest(g)
    BY <1>2, Kinds DEF InTurn, Goes, AtRest, Rest
  <1>4. (\A p, r \in Prepares : Started(p) /\ Started(r) => p = r)'
    BY <1>1, <1>2, Kinds DEF InTurn, Goes, Started
  <1>5. ASSUME NEW g \in Aborts \cup Submits, pc'[g] # "idle"
        PROVE  \E p \in Prepares : pc'[p] = "done"
    <2>1. \E p \in Prepares : pc[p] = "done"
      BY <1>1, <1>2, <1>5, Kinds DEF InTurn, Goes, Started
    <2> QED
      BY <1>1, <2>1, Kinds DEF Goes
  <1>6. (\A s \in Submits, a \in Aborts : Started(s) => ~Started(a))'
    BY <1>1, <1>2, Kinds DEF InTurn, Goes, Started
  <1>7. (\A g, k \in Aborts \cup Submits : ~AtRest(g) /\ ~AtRest(k) => g = k)'
    BY <1>1, <1>3, Kinds DEF InTurn, AtRest
  <1> QED
    BY <1>3, <1>4, <1>5, <1>6, <1>7 DEF InTurn, Started

\* Once it has turned, nothing was sent, and no submission has begun.
LEMMA TurnedIsNever ==
  ASSUME TypeOK, SignInv, InTurn, SentInv, Turned
  PROVE  Never /\ \A s \in Submits : pc[s] = "idle"
  <1>1. \A s \in Submits : pc[s] = "idle"
    BY DEF Turned, InTurn, Started, Giving
  <1>2. lock = None
    BY <1>1, Kinds DEF SignInv, Fresh
  <1> QED
    BY <1>1, <1>2, Kinds DEF Never, SignInv, SentInv

\* What will never be sent is not sent.
LEMMA NeverKeeps ==
  ASSUME Orderly, TypeOK, SignInv, InTurn, SentInv, Never,
         NEW h \in Handler, NEW place, Does(h, place)
  PROVE  Never'
  <1>1. pc'[h] = place /\ \A g \in Handler : g # h => pc'[g] = pc[g]
    BY Kinds DEF Does, Goes
  <1>2. CASE Turned
    <2>1. \A s \in Submits : pc[s] = "idle"
      BY <1>2, TurnedIsNever
    <2>2. Turned'
      BY <1>1, <1>2, Kinds DEF Turned, Does, Goes, Started, Giving
    <2>3. ~wire'
      BY <2>1 DEF Does, Chains, Never
    <2> QED
      BY <2>2, <2>3 DEF Never
  <1>3. CASE Shut
    <2>1. lock' = lock
      BY <1>3 DEF Shut, Does, Stores
    <2>2. Shut'
      BY <1>1, <1>3, <2>1, Kinds DEF Shut, Does, Goes, Sending
    <2>3. ~wire'
      BY <1>3, Kinds DEF Shut, Never, Does, Chains, Sending
    <2> QED
      BY <2>2, <2>3 DEF Never
  <1> QED
    BY <1>2, <1>3 DEF Never

LEMMA DoesKeeps ==
  ASSUME Orderly, Holds, NEW h \in Handler, NEW place, Does(h, place)
  PROVE  ConsoleInv'
  <1>0. /\ TypeOK /\ SignInv /\ InTurn /\ SentInv /\ ToldInv
        /\ Goes(h, place) /\ Copies(h, place) /\ Chains(h, place) /\ Stores(h, place)
    BY DEF Holds, ConsoleInv, Does
  <1>1. pc'[h] = place /\ \A g \in Handler : g # h => pc'[g] = pc[g]
    BY <1>0, Kinds DEF Goes
  <1>2. /\ InTurn'
        /\ h \in Aborts \cup Submits => \A g \in Aborts \cup Submits : g # h => AtRest(g)
    BY <1>0, TurnKeeps
  <1>3. Never => Never'
    BY <1>0, NeverKeeps
  <1>4. (Over' <=> Over) /\ (Ended' <=> Ended) /\ \A x : (Knows(x))' <=> Knows(x)
    BY <1>0 DEF Chains, Over, Ended, Knows
  <1>5. SentInv'
    <2>1. (landed # "none" => wire)'
      BY <1>0 DEF Chains, SentInv, Holding
    <2>2. payer' \in Nat /\ (payer > 0 => payer' > 0)
      BY <1>0, Kinds DEF Chains
    <2>3. (wire => payer > 0)'
      BY <1>0, <2>2 DEF Chains, SentInv, Holding
    <2>4. ASSUME NEW s \in Submits, s # h, pc[s] \in Holding \/ pc[s] \in {"save", "mark"}
          PROVE  wire' = wire
      BY <1>0, <1>2, <2>4, Kinds DEF Chains, AtRest, Rest, Holding
    <2>5. ASSUME NEW s \in Submits, pc'[s] \in Holding
          PROVE  payer' > 0 /\ ~wire'
      <3>1. CASE s # h
        BY <1>0, <1>1, <2>2, <2>4, <2>5, <3>1, Kinds DEF SentInv
      <3>2. CASE s = h /\ pc[h] \in {"final", "record", "persist"}
        BY <1>0, <2>2, <3>2, Kinds DEF SentInv, Holding, Chains
      <3>3. CASE s = h /\ pc[h] = "kora"
        <4>1. payer = 0 /\ ~wire
          BY <1>0, <3>3, Kinds DEF SignInv, Approaching, SentInv
        <4> QED
          BY <1>0, <1>1, <2>5, <3>3, <4>1 DEF Chains
      <3> QED
        BY <1>0, <1>1, <2>5, <3>1, <3>2, <3>3 DEF Goes
    <2>6. ASSUME NEW s \in Submits, pc'[s] = "undo"
          PROVE  copy'[s].burn # "failed"
      BY <1>0, <1>1, <2>6, Kinds DEF Copies, SentInv
    <2>7. ASSUME NEW s \in Submits, BacksOut(pc'[s], copy'[s])
          PROVE  Never'
      <3>1. CASE BacksOut(pc[s], copy[s])
        BY <1>0, <1>3, <3>1 DEF SentInv
      <3>2. CASE ~BacksOut(pc[s], copy[s])
        <4>1. s = h /\ pc[h] \in {"cross", "relay", "kora", "final"}
          BY <1>0, <1>1, <2>7, <3>2, Kinds DEF Copies
        <4>2. pc'[h] \in {"giveback", "save", "mark"}
          BY <1>1, <2>7, <4>1 DEF BacksOut
        <4>3. lock # None /\ lock' = lock
          BY <1>0, <4>1, Kinds DEF SignInv, Approaching, SentInv, Holding, Stores
        <4>4. ~wire'
          BY <1>0, <4>1, Kinds DEF SignInv, Approaching, SentInv, Holding, Chains
        <4>5. ASSUME NEW g \in Submits, g # h
              PROVE  pc'[g] \in Rest
          <5>1. AtRest(g)
            BY <1>2, <4>1, <4>5
          <5> QED
            BY <1>0, <1>1, <4>5, <5>1, Kinds DEF AtRest
        <4>6. Shut'
          BY <1>1, <4>2, <4>3, <4>5 DEF Shut, Sending, Rest
        <4> QED
          BY <4>4, <4>6 DEF Never
      <3> QED
        BY <3>1, <3>2
    <2> QED
      BY <2>1, <2>3, <2>5, <2>6, <2>7 DEF SentInv
  <1>6. ToldInv'
    <2>1. ASSUME NEW g \in Handler PROVE (Knows(pc[g]))'
      BY <1>0, <1>1, <1>4 DEF ToldInv, Goes, Knows, Over, Ended, Chains
    <2>2. landed' = landed
      BY <1>0 DEF Chains
    <2> QED
      BY <1>0, <1>3, <1>4, <2>1, <2>2 DEF ToldInv, Stores
  <1> QED
    BY <1>2, <1>5, <1>6 DEF ConsoleInv

-----------------------------------------------------------------------------
(***************************************************************************)
(* Every action of a handler is such a step.                               *)
(***************************************************************************)
Steps(h) == \E place : Does(h, place)

\* A handler that is no submission, and leaves lock, payer and chain alone.
LEMMA Beside ==
  ASSUME Holds, NEW h \in Handler, h \notin Submits, NEW place, Goto(h, place),
         UNCHANGED <<landed, height, wire, payer, lock>>,
         UNCHANGED copy \/ \E q : Hold(h, q),
         pc[h] \notin {"done", "ended"}, pc[h] = "idle" => MayStart(h),
         h \notin Polls => place # "idle",
         h \in Prepares /\ pc[h] \in Giving => place \in Giving,
         Knows(place),
         exposure' = "released" => exposure = "released" \/ Over \/ Never,
         record'.status = "failed" => record.status = "failed" \/ AccountLag \/ Ended \/ Never,
         record'.status = "reconciled" => record.status = "reconciled" \/ landed = "ok"
  PROVE  Steps(h)
  <1>1. copy \in [Handler -> QuoteCopy] /\ Submits \subseteq Handler
    BY DEF Holds, TypeOK, Handler
  <1>2. \A s \in Submits : s # h => copy'[s] = copy[s]
    BY <1>1 DEF Hold
  <1>3. Goes(h, place) /\ Copies(h, place) /\ Chains(h, place) /\ Stores(h, place)
    BY <1>2 DEF Goes, Goto, Copies, Chains, Stores
  <1> QED
    BY <1>3 DEF Steps, Does

LEMMA PrepareSteps ==
  ASSUME Orderly, Holds, NEW p \in Prepares, Prepare(p)
  PROVE  Steps(p)
  <1> USE DEF storeVars, bookVars, chainVars
  <1>1. p \in Handler /\ p \notin Submits /\ p \notin Polls
    BY Kinds DEF Holds
  <1>2. \A place \in {"create", "reserve", "save_prepared", "ended", "activate", "fail_release",
                      "save_window", "done"} : Knows(place) /\ place # "idle"
    BY DEF Knows
  <1>4. CASE PrepareLoad(p)
    <2>1. PICK place \in {"create", "reserve"} : Goto(p, place)
      BY <1>4 DEF PrepareLoad
    <2>2. pc[p] = "idle"
      BY <1>4 DEF PrepareLoad, MayStart
    <2> QED
      BY <1>1, <1>2, <1>4, <2>1, <2>2, Beside DEF PrepareLoad, Giving
  <1>5. CASE PrepareCreate(p)
    <2>1. PICK place \in {"save_prepared", "ended"} : Goto(p, place)
      BY <1>5 DEF PrepareCreate
    <2>2. record' = record \/ record'.status = "awaiting_user_signature"
      BY <1>5 DEF PrepareCreate
    <2> QED
      BY <1>1, <1>2, <1>5, <2>1, <2>2, Beside DEF PrepareCreate, Giving
  <1>6. CASE PrepareSave(p) \/ PrepareWindow(p)
    BY <1>1, <1>2, <1>6, Beside DEF PrepareSave, PrepareWindow, Giving
  <1>7. CASE PrepareReserve(p)
    BY <1>1, <1>2, <1>7, Beside DEF PrepareReserve, Giving
  <1>8. CASE PrepareActivate(p)
    BY <1>1, <1>2, <1>8, Beside DEF PrepareActivate, Giving
  <1> QED
    BY <1>4, <1>5, <1>6, <1>7, <1>8 DEF Prepare

LEMMA FailSteps ==
  ASSUME Orderly, Holds, NEW h \in Prepares \cup Aborts, Fail(h)
  PROVE  Steps(h)
  <1> USE DEF storeVars, bookVars, chainVars
  <1>1. h \in Handler /\ h \notin Submits /\ h \notin Polls
    BY Kinds DEF Holds
  <1>2. \A place \in {"fail_record", "fail_quote", "ended"} :
          Knows(place) /\ place # "idle" /\ place \in Giving
    BY DEF Knows, Giving
  <1>3. pc[h] \in {"fail_release", "fail_record", "fail_quote"}
    BY DEF Fail, FailRelease, FailRecord, FailQuote
  <1>4. Turned
    BY <1>3 DEF Turned, Giving, Started
  <1>5. Never
    BY <1>4, TurnedIsNever DEF Holds, ConsoleInv
  <1>6. record \in DurableRecord
    BY DEF Holds, TypeOK
  <1>7. CASE FailRelease(h)
    BY <1>1, <1>2, <1>3, <1>5, <1>7, Beside DEF FailRelease
  <1>8. CASE FailRecord(h)
    <2>1. record'.status = "failed"
      BY <1>6, <1>8 DEF FailRecord, SetRecord, DurableRecord
    <2> QED
      BY <1>1, <1>2, <1>3, <1>5, <1>8, <2>1, Beside DEF FailRecord
  <1>9. CASE FailQuote(h)
    BY <1>1, <1>2, <1>3, <1>9, Beside DEF FailQuote
  <1> QED
    BY <1>7, <1>8, <1>9 DEF Fail

LEMMA AbortSteps ==
  ASSUME Orderly, Holds, NEW a \in Aborts, AbortLoad(a)
  PROVE  Steps(a)
  <1> USE DEF storeVars, bookVars, chainVars
  <1>1. a \in Handler /\ a \notin Submits /\ a \notin Polls /\ a \notin Prepares
    BY Kinds DEF Holds
  <1>2. PICK place \in {"fail_record", "fail_release"} : Goto(a, place)
    BY DEF AbortLoad
  <1>3. Knows(place) /\ place # "idle" /\ pc[a] = "idle"
    BY DEF Knows, AbortLoad, MayStart
  <1> QED
    BY <1>1, <1>2, <1>3, Beside DEF AbortLoad

LEMMA PollSteps ==
  ASSUME Orderly, Holds, NEW q \in Polls, Poll(q)
  PROVE  Steps(q)
  <1> USE DEF storeVars, bookVars, chainVars
  <1>1. q \in Handler /\ q \notin Submits /\ q \notin Prepares
    BY Kinds DEF Holds
  <1>2. Knows("idle") /\ Knows("observe") /\ Knows("confirm") /\ Knows(pc[q])
    BY <1>1 DEF Knows, Holds, ConsoleInv, ToldInv
  <1>3. record \in DurableRecord
    BY DEF Holds, TypeOK
  <1>4. CASE PollLoad(q)
    BY <1>1, <1>2, <1>4, Beside DEF PollLoad, MayStart
  <1>5. CASE PollDecided(q)
    <2>1. PICK place \in {"confirm", "end_release"} :
            Goto(q, place) /\ (place = "end_release" => Ended)
      BY <1>5, Kinds DEF PollDecided, Observable, Orderly, Ended, Holds
    <2>2. Knows(place)
      BY <2>1 DEF Knows, Over, Ended
    <2> QED
      BY <1>1, <1>5, <2>1, <2>2, Beside DEF PollDecided
  <1>6. CASE PollPending(q)
    BY <1>1, <1>2, <1>6, Beside DEF PollPending
  <1>7. CASE PollConfirm(q)
    <2>1. PICK place \in {"poll_account", "end_release"} :
            Goto(q, place) /\ Knows(place)
      BY <1>7 DEF PollConfirm, EconomicsHold, AccountSeenOpen, Knows, Over, Ended
    <2> QED
      BY <1>1, <1>7, <2>1, Beside DEF PollConfirm
  <1>8. CASE PollAccount(q)
    <2>1. landed = "ok" /\ Knows("poll_release")
      BY <1>2, <1>8 DEF PollAccount, Knows
    <2> QED
      BY <1>1, <1>8, <2>1, Beside DEF PollAccount
  <1>9. CASE PollRelease(q)
    <2>1. landed = "ok" /\ Over /\ Knows("poll_record")
      BY <1>2, <1>9 DEF PollRelease, Knows, Over
    <2> QED
      BY <1>1, <1>9, <2>1, Beside DEF PollRelease
  <1>10. CASE PollRecord(q)
    <2>1. landed = "ok"
      BY <1>2, <1>10 DEF PollRecord, Knows
    <2>2. record'.status = "reconciled"
      BY <1>3, <1>10 DEF PollRecord, SetRecord, DurableRecord
    <2> QED
      BY <1>1, <1>2, <1>10, <2>1, <2>2, Beside DEF PollRecord
  <1> QED
    BY <1>4, <1>5, <1>6, <1>7, <1>8, <1>9, <1>10 DEF Poll

\* A submission that keeps its copy, and one that takes another.
LEMMA CopyKept ==
  ASSUME NEW s \in Submits, NEW place, UNCHANGED copy, place # "undo",
         BacksOut(place, copy[s]) => BacksOut(pc[s], copy[s])
  PROVE  Copies(s, place)
  BY DEF Copies

LEMMA CopyTaken ==
  ASSUME TypeOK, NEW s \in Submits, NEW place, NEW q, Hold(s, q),
         place = "undo" => q.burn # "failed",
         BacksOut(place, q) => pc[s] \in {"cross", "relay", "kora", "final"}
  PROVE  Copies(s, place)
  <1>1. s \in Handler /\ Submits \subseteq Handler /\ copy \in [Handler -> QuoteCopy]
    BY DEF TypeOK, Handler
  <1>2. copy'[s] = q /\ \A t \in Submits : t # s => copy'[t] = copy[t]
    BY <1>1 DEF Hold
  <1> QED
    BY <1>2 DEF Copies

\* A submission that leaves lock, payer and chain alone.
LEMMA Within ==
  ASSUME Holds, NEW s \in Submits, NEW place, Goto(s, place), Copies(s, place),
         UNCHANGED <<landed, height, wire, payer, lock>>,
         pc[s] \notin {"done", "ended"}, pc[s] = "idle" => MayStart(s), place # "idle",
         Knows(place),
         place \in Sending => pc[s] \in Sending,
         place = "undo" => pc[s] \in {"check", "cross"} \/ lock # s,
         place \in Holding => pc[s] \in {"final", "record", "persist"},
         exposure' = "released" => exposure = "released" \/ Over \/ Never,
         record'.status = "failed" => record.status = "failed" \/ AccountLag \/ Ended \/ Never,
         record'.status = "reconciled" => record.status = "reconciled" \/ landed = "ok"
  PROVE  Steps(s)
  <1>1. s \in Handler /\ s \notin Prepares /\ s \notin Polls
    BY Kinds DEF Holds
  <1>2. Goes(s, place) /\ Chains(s, place) /\ Stores(s, place)
    BY <1>1 DEF Goes, Goto, Chains, Stores, Holding
  <1> QED
    BY <1>2 DEF Steps, Does

\* Places where a submission knows nothing it did not know.
LEMMA NothingKnown ==
  \A place \in Sending \cup {"lock", "undo", "giveback", "save", "mark", "observe", "confirm",
                             "close", "done", "ended"} : Knows(place) /\ place # "idle"
  BY DEF Sending, Knows

LEMMA SubmitSteps ==
  ASSUME Orderly, Holds, NEW s \in Submits, Submit(s)
  PROVE  Steps(s)
  <1> USE DEF storeVars, bookVars, chainVars
  <1>1. /\ s \in Handler /\ s \notin Polls /\ s \notin Prepares /\ s # None
        /\ TypeOK /\ SignInv /\ record \in DurableRecord
    BY Kinds DEF Holds, TypeOK
  <1>2. /\ Awaiting.burn # "failed" /\ FailedQuote.burn = "failed"
        /\ Both("submitted").burn = "submitted"
    BY DEF Awaiting, FailedQuote, Both
  <1>3. CASE SubmitLoad(s)
    <2>1. PICK place \in {"done", "observe", "lock"} : Goto(s, place)
      BY <1>3 DEF SubmitLoad
    <2>2. Copies(s, place)
      BY <1>1, <1>3, <2>1, CopyTaken DEF SubmitLoad, BacksOut
    <2>3. pc[s] = "idle" /\ MayStart(s)
      BY <1>3 DEF SubmitLoad, MayStart
    <2> QED
      BY <1>3, <2>1, <2>2, <2>3, NothingKnown, Within DEF SubmitLoad, Sending, Holding
  <1>4. CASE SubmitLock(s)
    <2>1. CASE lock = None /\ lock' = s /\ Goto(s, "check") /\ UNCHANGED copy
      <3>1. Copies(s, "check")
        BY <2>1, CopyKept DEF BacksOut
      <3>2. Goes(s, "check") /\ Chains(s, "check") /\ Stores(s, "check")
        BY <1>1, <1>4, <2>1, NothingKnown
           DEF SubmitLock, Goes, Goto, Chains, Stores, Sending, Holding
      <3> QED
        BY <3>1, <3>2 DEF Steps, Does
    <2>2. CASE lock # None /\ UNCHANGED lock /\ FailEarly(s)
      <3>1. Copies(s, "undo") /\ Goto(s, "undo")
        BY <1>1, <1>2, <2>2, CopyTaken DEF FailEarly, BacksOut
      <3>2. lock # s
        BY <1>1, <1>4 DEF SubmitLock, SignInv, Fresh
      <3> QED
        BY <1>4, <2>2, <3>1, <3>2, NothingKnown, Within DEF SubmitLock, Sending, Holding
    <2> QED
      BY <1>4, <2>1, <2>2 DEF SubmitLock
  <1>5. CASE SubmitCheck(s)
    <2>1. PICK place \in {"cross", "undo"} : Goto(s, place) /\ Copies(s, place)
      BY <1>1, <1>2, <1>5, CopyKept, CopyTaken DEF SubmitCheck, FailEarly, BacksOut
    <2> QED
      BY <1>5, <2>1, NothingKnown, Within DEF SubmitCheck, Sending, Holding
  <1>6. CASE SubmitCross(s)
    <2>1. PICK place \in {"undo", "relay", "save"} : Goto(s, place) /\ Copies(s, place)
      BY <1>1, <1>2, <1>6, CopyTaken DEF SubmitCross, FailEarly, FailCrossed, BacksOut
    <2> QED
      BY <1>6, <2>1, NothingKnown, Within DEF SubmitCross, Sending, Holding
  <1>7. CASE SubmitRelay(s)
    <2>1. PICK place \in {"kora", "save"} : Goto(s, place) /\ Copies(s, place)
      BY <1>1, <1>2, <1>7, CopyKept, CopyTaken DEF SubmitRelay, FailCrossed, BacksOut
    <2>2. record' = record \/ record'.status = "relaying"
      BY <1>1, <1>7 DEF SubmitRelay, SetRecord, DurableRecord
    <2> QED
      BY <1>7, <2>1, <2>2, NothingKnown, Within DEF SubmitRelay, Sending, Holding
  <1>8. CASE SubmitKora(s)
    <2>1. PICK place \in {"final", "save"} :
            /\ Goto(s, place) /\ Copies(s, place) /\ payer' \in {payer, payer + 1}
            /\ place = "final" => payer' = payer + 1
      BY <1>1, <1>2, <1>8, CopyKept, CopyTaken DEF SubmitKora, FailCrossed, BacksOut
    <2>2. Goes(s, place) /\ Chains(s, place) /\ Stores(s, place)
      BY <1>1, <1>8, <2>1, NothingKnown
         DEF SubmitKora, Goes, Goto, Chains, Stores, Sending, Holding
    <2> QED
      BY <2>1, <2>2 DEF Steps, Does
  <1>9. CASE SubmitFinal(s)
    <2>1. PICK place \in {"record", "giveback"} : Goto(s, place) /\ Copies(s, place)
      BY <1>1, <1>2, <1>9, CopyKept, CopyTaken DEF SubmitFinal, FailSigned, BacksOut
    <2> QED
      BY <1>9, <2>1, NothingKnown, Within DEF SubmitFinal, Sending, Holding
  <1>10. CASE SubmitRecord(s)
    <2>1. Goto(s, "persist") /\ Copies(s, "persist") /\ record'.status = "submitted"
      BY <1>1, <1>10, CopyTaken DEF SubmitRecord, BacksOut
    <2> QED
      BY <1>10, <2>1, NothingKnown, Within DEF SubmitRecord, Sending, Holding
  <1>11. CASE SubmitPersist(s)
    <2>1. Goto(s, "broadcast") /\ Copies(s, "broadcast")
      BY <1>11, CopyKept DEF SubmitPersist, BacksOut
    <2> QED
      BY <1>11, <2>1, NothingKnown, Within DEF SubmitPersist, Sending, Holding
  <1>12. CASE SubmitBroadcast(s)
    <2>1. Goto(s, "observe") /\ Copies(s, "observe")
      BY <1>12, CopyKept DEF SubmitBroadcast, BacksOut
    <2>2. Goes(s, "observe") /\ Chains(s, "observe") /\ Stores(s, "observe")
      BY <1>1, <1>12, <2>1, NothingKnown
         DEF SubmitBroadcast, Goes, Goto, Chains, Stores, Sending, Holding
    <2> QED
      BY <2>1, <2>2 DEF Steps, Does
  <1> QED
    BY <1>3, <1>4, <1>5, <1>6, <1>7, <1>8, <1>9, <1>10, <1>11, <1>12 DEF Submit

LEMMA CatchSteps ==
  ASSUME Orderly, Holds, NEW s \in Submits, Catch(s)
  PROVE  Steps(s)
  <1> USE DEF storeVars, bookVars, chainVars
  <1>1. /\ s \in Handler /\ s \notin Polls /\ s \notin Prepares /\ s # None
        /\ TypeOK /\ SignInv /\ BooksInv /\ SentInv /\ record \in DurableRecord
    BY Kinds DEF Holds, TypeOK, ConsoleInv
  <1>2. CASE CatchUndo(s)
    <2>1. Goto(s, "save") /\ Copies(s, "save")
      BY <1>1, <1>2, CopyKept DEF CatchUndo, BacksOut, SentInv
    <2>2. Goes(s, "save") /\ Chains(s, "save") /\ Stores(s, "save")
      BY <1>1, <1>2, <2>1, NothingKnown
         DEF CatchUndo, Goes, Goto, Chains, Stores, Sending, Holding
    <2> QED
      BY <2>1, <2>2 DEF Steps, Does
  <1>3. CASE CatchGiveBack(s)
    <2>1. Goto(s, "save") /\ Copies(s, "save") /\ Never
      BY <1>1, <1>3, CopyKept DEF CatchGiveBack, BacksOut, SentInv
    <2> QED
      BY <1>3, <2>1, NothingKnown, Within DEF CatchGiveBack, Sending, Holding
  <1>4. CASE CatchSave(s)
    <2>1. Goto(s, "mark") /\ Copies(s, "mark")
      BY <1>4, CopyKept DEF CatchSave, BacksOut
    <2> QED
      BY <1>4, <2>1, NothingKnown, Within DEF CatchSave, Sending, Holding
  <1>5. CASE CatchMark(s)
    <2>1. Goto(s, "ended") /\ Copies(s, "ended") /\ pc[s] = "mark"
      BY <1>5, CopyKept DEF CatchMark, BacksOut
    <2>2. record' = record \/ record'.status = copy[s].burn
      BY <1>1, <1>5 DEF CatchMark, SetRecord, DurableRecord
    <2>3. copy[s].burn = "failed" => Never
      BY <1>1, <2>1 DEF SentInv, BacksOut
    <2>4. copy[s].burn = "reconciled" => landed = "ok"
      BY <1>1 DEF BooksInv
    <2> QED
      BY <1>5, <2>1, <2>2, <2>3, <2>4, NothingKnown, Within DEF CatchMark, Sending, Holding
  <1> QED
    BY <1>2, <1>3, <1>4, <1>5 DEF Catch

\* A submission that ends.
LEMMA EndAsGoes ==
  ASSUME TypeOK, NEW s \in Submits, NEW st, EndAs(s, st)
  PROVE  \E place \in {"ended", "close"} : Goto(s, place) /\ Copies(s, place)
  BY CopyKept, CopyTaken DEF EndAs, BacksOut

LEMMA SettleSteps ==
  ASSUME Orderly, Holds, NEW s \in Submits, Settle(s)
  PROVE  Steps(s)
  <1> USE DEF storeVars, bookVars, chainVars
  <1>1. /\ s \in Handler /\ TypeOK /\ BooksInv /\ Knows(pc[s]) /\ record \in DurableRecord
    BY DEF Holds, TypeOK, ConsoleInv, ToldInv, Handler
  <1>2. CASE SubmitObserve(s)
    <2>1. PICK place \in {"confirm", "expire", "ended", "close"} :
            Goto(s, place) /\ Copies(s, place) /\ (place = "expire" => Ended)
      BY <1>1, <1>2, EndAsGoes, CopyKept
         DEF SubmitObserve, Observable, Orderly, Ended, BacksOut
    <2>2. Knows(place)
      BY <2>1 DEF Knows, Over, Ended
    <2> QED
      BY <1>2, <2>1, <2>2, Within DEF SubmitObserve, Sending, Holding
  <1>3. CASE SubmitConfirm(s)
    <2>1. PICK place \in {"settle", "mismatch", "ended", "close"} :
            Goto(s, place) /\ Copies(s, place) /\ Knows(place)
      <3>1. Knows("ended") /\ Knows("close")
        BY NothingKnown
      <3>2. landed = "ok" => Knows("settle")
        BY DEF Knows
      <3>3. AccountSeenOpen => Knows("mismatch")
        BY DEF Knows, AccountSeenOpen
      <3> QED
        BY <1>1, <1>3, <3>1, <3>2, <3>3, EndAsGoes, CopyKept
           DEF SubmitConfirm, EconomicsHold, BacksOut
    <2> QED
      BY <1>3, <2>1, Within DEF SubmitConfirm, Sending, Holding
  <1>4. CASE SubmitSettle(s)
    <2>1. Goto(s, "account") /\ Copies(s, "account")
      BY <1>4, CopyKept DEF SubmitSettle, BacksOut
    <2>2. landed = "ok" /\ Knows("account")
      BY <1>1, <1>4 DEF SubmitSettle, Knows
    <2>3. record'.status = "reconciled"
      BY <1>1, <1>4 DEF SubmitSettle, SetRecord, DurableRecord
    <2> QED
      BY <1>4, <2>1, <2>2, <2>3, Within DEF SubmitSettle, Sending, Holding
  <1>5. CASE SubmitAccount(s)
    <2>1. PICK place \in {"ended", "close"} : Goto(s, place) /\ Copies(s, place)
      BY <1>1, <1>5, EndAsGoes DEF SubmitAccount
    <2> QED
      BY <1>5, <2>1, NothingKnown, Within DEF SubmitAccount, Sending, Holding
  <1>6. CASE SubmitMismatch(s)
    <2>1. PICK place \in {"ended", "close"} : Goto(s, place) /\ Copies(s, place)
      BY <1>1, <1>6, EndAsGoes DEF SubmitMismatch
    <2>2. AccountLag
      BY <1>1, <1>6 DEF SubmitMismatch, Knows
    <2>3. record'.status = "failed"
      BY <1>1, <1>6 DEF SubmitMismatch, SetRecord, DurableRecord
    <2> QED
      BY <1>6, <2>1, <2>2, <2>3, NothingKnown, Within DEF SubmitMismatch, Sending, Holding
  <1>7. CASE SubmitExpire(s)
    <2>1. PICK place \in {"end_release", "ended", "close"} : Goto(s, place) /\ Copies(s, place)
      BY <1>1, <1>7, EndAsGoes, CopyKept DEF SubmitExpire, BacksOut
    <2>2. Knows(place)
      BY <1>1, <1>7, <2>1 DEF SubmitExpire, Knows
    <2> QED
      BY <1>7, <2>1, <2>2, Within DEF SubmitExpire, Sending, Holding
  <1>8. CASE SubmitClose(s)
    <2>1. PICK place \in {"thank", "ended"} :
            Goto(s, place) /\ (place = "thank" => copy[s].burn = "reconciled")
      BY <1>8 DEF SubmitClose
    <2>2. Copies(s, place)
      BY <1>8, <2>1, CopyKept DEF SubmitClose, BacksOut
    <2>3. Knows(place)
      BY <1>1, <2>1 DEF Knows, BooksInv
    <2> QED
      BY <1>8, <2>1, <2>2, <2>3, Within DEF SubmitClose, Sending, Holding
  <1>9. CASE SubmitThank(s)
    <2>1. Goto(s, "done") /\ Copies(s, "done")
      BY <1>9, CopyKept DEF SubmitThank, BacksOut
    <2>2. Over
      BY <1>1, <1>9 DEF SubmitThank, Knows, Over
    <2> QED
      BY <1>9, <2>1, <2>2, NothingKnown, Within DEF SubmitThank, Sending, Holding
  <1> QED
    BY <1>2, <1>3, <1>4, <1>5, <1>6, <1>7, <1>8, <1>9 DEF Settle

LEMMA EndSteps ==
  ASSUME Orderly, Holds, NEW h \in Submits \cup Polls, End(h)
  PROVE  Steps(h)
  <1> USE DEF storeVars, bookVars, chainVars
  <1>1. /\ h \in Handler /\ h \notin Prepares /\ TypeOK /\ record \in DurableRecord
        /\ (h \in Polls => h \notin Submits) /\ (h \notin Polls => h \in Submits)
    BY Kinds DEF Holds, TypeOK
  <1>2. Over /\ (AccountLag \/ Ended)
    <2>1. pc[h] \in {"end_release", "end_record"}
      BY DEF End, EndRelease, EndRecord
    <2>2. Knows(pc[h])
      BY <1>1 DEF Holds, ConsoleInv, ToldInv
    <2> QED
      BY <2>1, <2>2 DEF Knows
  <1>3. CASE EndRelease(h)
    <2>1. Knows("end_record")
      BY <1>2 DEF Knows
    <2>2. CASE h \in Submits
      <3>1. Copies(h, "end_record")
        BY <1>3, <2>2, CopyKept DEF EndRelease, BacksOut
      <3> QED
        BY <1>2, <1>3, <2>1, <2>2, <3>1, Within DEF EndRelease, Sending, Holding
    <2>3. CASE h \in Polls
      BY <1>1, <1>2, <1>3, <2>1, <2>3, Beside DEF EndRelease
    <2> QED
      BY <2>2, <2>3
  <1>4. CASE EndRecord(h)
    <2>1. record'.status = "failed"
      BY <1>1, <1>4 DEF EndRecord, SetRecord, DurableRecord
    <2>2. CASE h \in Submits
      <3>1. PICK place \in {"ended", "close"} : Goto(h, place) /\ Copies(h, place)
        BY <1>1, <1>4, <2>2, EndAsGoes DEF EndRecord
      <3> QED
        BY <1>2, <1>4, <2>1, <2>2, <3>1, NothingKnown, Within DEF EndRecord, Sending, Holding
    <2>3. CASE h \notin Submits
      <3>1. Knows("idle")
        BY DEF Knows
      <3> QED
        BY <1>1, <1>2, <1>4, <2>1, <2>3, <3>1, Beside DEF EndRecord
    <2> QED
      BY <2>2, <2>3
  <1> QED
    BY <1>3, <1>4 DEF End

LEMMA StopSteps ==
  ASSUME Orderly, Holds, NEW h \in Handler, Stop(h)
  PROVE  Steps(h)
  <1> USE DEF storeVars, bookVars, chainVars
  <1>1. PICK place \in {"idle", "ended"} :
          Goto(h, place) /\ (place = "idle" <=> h \in Polls) /\ Knows(place)
    BY DEF Stop, Knows
  <1>2. pc[h] \notin {"idle", "done", "ended"}
    BY DEF Stop, AtRest, Rest
  <1>3. CASE h \in Submits
    <2>1. Copies(h, place)
      BY <1>1, <1>3, CopyKept DEF Stop, BacksOut
    <2>2. place # "idle"
      BY <1>1, <1>3, Kinds DEF Holds
    <2> QED
      BY <1>1, <1>2, <1>3, <2>1, <2>2, Within DEF Stop, Sending, Holding
  <1>4. CASE h \notin Submits
    <2>1. h \in Prepares => place \in Giving
      BY <1>1, Kinds DEF Giving, Holds
    <2> QED
      BY <1>1, <1>2, <1>4, <2>1, Beside DEF Stop
  <1> QED
    BY <1>3, <1>4

\* A block, and the landing of what was sent.
LEMMA ChainKeeps ==
  ASSUME Holds, NextBlock \/ Land
  PROVE  ConsoleInv'
  <1> USE DEF storeVars
  <1>1. /\ UNCHANGED <<quote, record, lock, exposure, payer, wire, pc, copy>>
        /\ landed' # "none" => wire
        /\ Over => Over'
        /\ Ended => Ended'
        /\ landed = "ok" => landed' = "ok"
    BY Kinds DEF NextBlock, Land, Over, Ended, Holds, ConsoleInv, SentInv
  <1>2. Never' <=> Never
    BY <1>1 DEF Never, Turned, Shut, Started
  <1>3. InTurn'
    BY <1>1 DEF Holds, ConsoleInv, InTurn, Started, AtRest
  <1>4. SentInv'
    BY <1>1, <1>2 DEF Holds, ConsoleInv, SentInv
  <1>5. ToldInv'
    BY <1>1, <1>2 DEF Holds, ConsoleInv, ToldInv, Knows
  <1> QED
    BY <1>3, <1>4, <1>5 DEF ConsoleInv

LEMMA ConsoleKeeps ==
  ASSUME Orderly, Holds, [Next]_vars
  PROVE  ConsoleInv'
  <1>1. ASSUME NEW h \in Handler, Steps(h)
        PROVE  ConsoleInv'
    BY <1>1, DoesKeeps DEF Steps
  <1>2. Prepares \cup Aborts \cup Submits \cup Polls \subseteq Handler
    BY DEF Handler
  <1>3. CASE \E h \in Handler : Steps(h)
    BY <1>1, <1>3
  <1>4. CASE \E p \in Prepares : Prepare(p)
    BY <1>2, <1>3, <1>4, PrepareSteps
  <1>5. CASE \E a \in Aborts : AbortLoad(a)
    BY <1>2, <1>3, <1>5, AbortSteps
  <1>6. CASE \E h \in Prepares \cup Aborts : Fail(h)
    BY <1>2, <1>3, <1>6, FailSteps
  <1>7. CASE \E s \in Submits : Submit(s) \/ Catch(s) \/ Settle(s)
    BY <1>2, <1>3, <1>7, SubmitSteps, CatchSteps, SettleSteps
  <1>8. CASE \E h \in Submits \cup Polls : End(h)
    BY <1>2, <1>3, <1>8, EndSteps
  <1>9. CASE \E q \in Polls : Poll(q)
    BY <1>2, <1>3, <1>9, PollSteps
  <1>10. CASE \E h \in Handler : Stop(h)
    BY <1>3, <1>10, StopSteps
  <1>11. CASE NextBlock \/ Land
    BY <1>11, ChainKeeps
  <1>12. CASE UNCHANGED vars
    BY <1>12 DEF vars, Holds, ConsoleInv, InTurn, SentInv, ToldInv, Never, Turned, Shut,
                 Started, AtRest, Over, Ended, Knows
  <1> QED
    BY <1>4, <1>5, <1>6, <1>7, <1>8, <1>9, <1>10, <1>11, <1>12 DEF Next

LEMMA ConsoleHolds ==
  ASSUME Orderly
  PROVE  Spec => []Holds
  <1>1. Init => ConsoleInv
    <2> SUFFICES ASSUME Init
                 PROVE  ConsoleInv
      OBVIOUS
    <2>1. /\ \A h \in Handler : pc[h] = "idle"
          /\ Prepares \cup Aborts \cup Submits \cup Polls \subseteq Handler
      BY DEF Init, Handler
    <2>2. InTurn
      BY <2>1 DEF InTurn, Started, AtRest, Rest
    <2>3. SentInv
      BY <2>1 DEF Init, SentInv, Holding, BacksOut
    <2>4. ToldInv
      BY <2>1 DEF Init, ToldInv, Knows
    <2> QED
      BY <2>2, <2>3, <2>4 DEF ConsoleInv
  <1>2. ConsoleInv /\ TypeOK /\ SignInv /\ BooksInv /\ [Next]_vars => ConsoleInv'
    BY ConsoleKeeps DEF Holds
  <1>3. ConsoleInv /\ TypeOK /\ SignInv /\ BooksInv => Holds
    BY DEF Holds
  <1> QED
    BY <1>1, <1>2, <1>3, TypeCorrect, SigningHolds, BookingHolds, PTL DEF Spec

\* What will never be sent cannot land.
LEMMA NeverIsOver ==
  ASSUME Holds, Never
  PROVE  landed = "none" /\ ~MayStillLand
  <1>1. landed = "none" /\ ~wire
    BY DEF Holds, ConsoleInv, SentInv, Never
  <1>2. \A s \in Submits : pc[s] \notin Sending
    BY TurnedIsNever DEF Holds, ConsoleInv, Never, Shut, Sending
  <1> QED
    BY <1>1, <1>2 DEF MayStillLand, OnItsWay, Sending

\* Under a console the reservation is given back only when the burn cannot land any more (see
\* ReleasedIsSettled), for any number of requests, faults and blocks, and whatever the
\* providers know of the accounts.
THEOREM ReleasesAreSettled ==
  ASSUME Orderly
  PROVE  Spec => []ReleasedIsSettled
  <1>1. Holds => ReleasedIsSettled
    <2> SUFFICES ASSUME Holds, exposure = "released"
                 PROVE  ~MayStillLand
      BY DEF ReleasedIsSettled
    <2>1. Over \/ Never
      BY DEF Holds, ConsoleInv, ToldInv
    <2> QED
      BY <2>1, NeverIsOver, Kinds DEF Over, MayStillLand, Holds
  <1> QED
    BY <1>1, ConsoleHolds, PTL

\* A burn on record as failed has not landed without an error.
LEMMA FailedHasNotLanded ==
  ASSUME Holds, ~AccountLag, record.status = "failed"
  PROVE  landed # "ok" /\ ~MayStillLand
  <1>1. Ended \/ Never
    BY DEF Holds, ConsoleInv, ToldInv
  <1> QED
    BY <1>1, NeverIsOver, Kinds DEF Ended, MayStillLand, Holds

\* Under a console, and with providers that know the accounts, a burn on record as failed has
\* not burned anything and never will (see FailedNeverLands).
THEOREM FailuresAreFinal ==
  ASSUME Orderly, ~AccountLag
  PROVE  Spec => []FailedNeverLands
  <1>1. Holds => FailedNeverLands
    BY FailedHasNotLanded DEF FailedNeverLands
  <1> QED
    BY <1>1, ConsoleHolds, PTL

-----------------------------------------------------------------------------
(***************************************************************************)
(* When the console submits once, what is settled stays so.  With a second *)
(* submission it does not: one that lost the replay lock writes, over a    *)
(* burn that was settled meanwhile, that it awaits its signature.          *)
(***************************************************************************)
OneSubmission == Orderly /\ ~AccountLag /\ \A s, t \in Submits : s = t

\* Until the submission has recorded its signature there is none; if it fails, never.
Unsent == {"idle", "lock", "check", "cross", "relay", "kora", "final", "record",
           "undo", "giveback", "save", "mark"}

UnsentInv == \A s \in Submits : pc[s] \in Unsent => ~record.signed

\* A handler that writes no signature and does not go back before it.
LEMMA UnsentElsewhere ==
  ASSUME TypeOK, UnsentInv, NEW h \in Handler, NEW place, Goto(h, place),
         h \in Submits /\ place \in Unsent => pc[h] \in Unsent,
         UNCHANGED record \/ \E st : SetRecord(st)
  PROVE  UnsentInv'
  <1>1. pc \in [Handler -> Places] /\ Submits \subseteq Handler /\ record \in DurableRecord
    BY DEF TypeOK, Handler
  <1>2. record'.signed = record.signed
    BY <1>1 DEF SetRecord, DurableRecord
  <1> QED
    BY <1>1, <1>2 DEF UnsentInv, Goto

LEMMA UnsentEndAs ==
  ASSUME TypeOK, UnsentInv, NEW s \in Submits, NEW st, EndAs(s, st),
         UNCHANGED record \/ \E t : SetRecord(t)
  PROVE  UnsentInv'
  <1>1. s \in Handler
    BY DEF Handler
  <1>2. PICK place \in {"ended", "close"} : Goto(s, place)
    BY DEF EndAs
  <1> QED
    BY <1>1, <1>2, UnsentElsewhere DEF Unsent

LEMMA UnsentKeeps ==
  ASSUME OneSubmission, TypeOK, UnsentInv, [Next]_vars
  PROVE  UnsentInv'
  <1> USE DEF storeVars, bookVars, chainVars
  <1>0. pc \in [Handler -> Places] /\ record \in DurableRecord
    BY DEF TypeOK
  <1>h. Prepares \cup Aborts \cup Submits \cup Polls \subseteq Handler
    BY DEF Handler
  <1>k. \A h \in Prepares \cup Aborts \cup Polls : h \notin Submits
    BY Kinds
  <1>1. ASSUME NEW p \in Prepares, Prepare(p)
        PROVE  UnsentInv'
    <2>1. CASE PrepareCreate(p) /\ record' # record
      <3>1. ~record'.signed
        BY <2>1 DEF PrepareCreate
      <3> QED
        BY <3>1 DEF UnsentInv
    <2>2. CASE PrepareCreate(p) /\ record' = record
      <3>1. PICK place \in {"save_prepared", "ended"} : Goto(p, place)
        BY <2>2 DEF PrepareCreate
      <3> QED
        BY <1>h, <1>k, <2>2, <3>1, UnsentElsewhere
    <2>3. CASE ~PrepareCreate(p)
      <3>1. PICK place \in {"create", "reserve", "activate", "fail_release", "save_window",
                            "done"} : Goto(p, place)
        BY <1>1, <2>3
           DEF Prepare, PrepareLoad, PrepareSave, PrepareReserve, PrepareActivate, PrepareWindow
      <3>2. record' = record
        BY <1>1, <2>3
           DEF Prepare, PrepareLoad, PrepareSave, PrepareReserve, PrepareActivate, PrepareWindow
      <3> QED
        BY <1>h, <1>k, <3>1, <3>2, UnsentElsewhere
    <2> QED
      BY <2>1, <2>2, <2>3
  <1>2. ASSUME NEW h \in Prepares \cup Aborts, Fail(h)
        PROVE  UnsentInv'
    BY <1>2, <1>h, <1>k, UnsentElsewhere DEF Fail, FailRelease, FailRecord, FailQuote
  <1>3. ASSUME NEW s \in Submits, Submit(s)
        PROVE  UnsentInv'
    <2>1. CASE SubmitRecord(s)
      <3>1. pc'[s] = "persist" /\ \A t \in Submits : t = s
        BY <1>0, <1>h, <2>1 DEF SubmitRecord, Goto, OneSubmission
      <3> QED
        BY <3>1 DEF UnsentInv, Unsent
    <2>2. CASE ~SubmitRecord(s)
      <3>1. UNCHANGED record \/ \E st : SetRecord(st)
        BY <1>3, <2>2
           DEF Submit, SubmitLoad, SubmitLock, SubmitCheck, SubmitCross, SubmitRelay, SubmitKora,
               SubmitFinal, SubmitPersist, SubmitBroadcast
      <3>2. CASE pc[s] \in Unsent
        <4>1. \E place : Goto(s, place)
          BY <1>3, <2>2
             DEF Submit, SubmitLoad, SubmitLock, SubmitCheck, SubmitCross, SubmitRelay,
                 SubmitKora, SubmitFinal, SubmitPersist, SubmitBroadcast, FailEarly,
                 FailCrossed, FailSigned
        <4> QED
          BY <1>h, <3>1, <3>2, <4>1, UnsentElsewhere
      <3>3. CASE pc[s] \notin Unsent
        <4>1. PICK place \in {"broadcast", "observe"} : Goto(s, place)
          BY <1>3, <2>2, <3>3
             DEF Submit, SubmitLoad, SubmitLock, SubmitCheck, SubmitCross, SubmitRelay,
                 SubmitKora, SubmitFinal, SubmitPersist, SubmitBroadcast, Unsent, MayStart
        <4> QED
          BY <1>h, <3>1, <4>1, UnsentElsewhere DEF Unsent
      <3> QED
        BY <3>2, <3>3
    <2> QED
      BY <2>1, <2>2
  <1>4. ASSUME NEW s \in Submits, Catch(s)
        PROVE  UnsentInv'
    BY <1>4, <1>h, UnsentElsewhere
       DEF Catch, CatchUndo, CatchGiveBack, CatchSave, CatchMark, Unsent
  <1>5. ASSUME NEW s \in Submits, Settle(s)
        PROVE  UnsentInv'
    <2>1. CASE SubmitClose(s)
      <3>1. PICK place \in {"thank", "ended"} : Goto(s, place)
        BY <2>1 DEF SubmitClose
      <3> QED
        BY <1>h, <2>1, <3>1, UnsentElsewhere DEF SubmitClose, Unsent
    <2>2. CASE ~SubmitClose(s)
      BY <1>5, <1>h, <2>2, UnsentElsewhere, UnsentEndAs
         DEF Settle, SubmitObserve, SubmitConfirm, SubmitSettle, SubmitAccount, SubmitMismatch,
             SubmitExpire, SubmitThank, Unsent
    <2> QED
      BY <2>1, <2>2
  <1>6. ASSUME NEW h \in Submits \cup Polls, End(h)
        PROVE  UnsentInv'
    BY <1>6, <1>h, <1>k, UnsentElsewhere, UnsentEndAs DEF End, EndRelease, EndRecord, Unsent
  <1>7. ASSUME NEW q \in Polls, Poll(q)
        PROVE  UnsentInv'
    BY <1>7, <1>h, <1>k, UnsentElsewhere
       DEF Poll, PollLoad, PollDecided, PollPending, PollConfirm, PollAccount, PollRelease,
           PollRecord
  <1>8. ASSUME NEW a \in Aborts, AbortLoad(a)
        PROVE  UnsentInv'
    <2>1. PICK place \in {"fail_record", "fail_release"} : Goto(a, place)
      BY <1>8 DEF AbortLoad
    <2> QED
      BY <1>8, <1>h, <1>k, <2>1, UnsentElsewhere DEF AbortLoad
  <1>9. ASSUME NEW h \in Handler, Stop(h)
        PROVE  UnsentInv'
    <2>1. PICK place \in {"idle", "ended"} : Goto(h, place) /\ (place = "idle" => h \in Polls)
      BY <1>9 DEF Stop
    <2> QED
      BY <1>9, <1>k, <2>1, UnsentElsewhere DEF Stop, Unsent
  <1>10. CASE NextBlock \/ Land \/ UNCHANGED vars
    <2>1. UNCHANGED <<pc, record>>
      BY <1>10 DEF NextBlock, Land, vars
    <2> QED
      BY <2>1 DEF UnsentInv
  <1> QED
    BY <1>1, <1>2, <1>3, <1>4, <1>5, <1>6, <1>7, <1>8, <1>9, <1>10 DEF Next

\* A record that is settled knows how the burn ended, and is not written by whom does not.
LEMMA SettledStays ==
  ASSUME OneSubmission, Holds, PersistInv, UnsentInv, [Next]_vars,
         record.status = "reconciled" \/ (record.status = "failed" /\ record.signed)
  PROVE  record'.status = record.status
  <1> USE DEF storeVars, bookVars, chainVars
  <1>1. /\ record \in DurableRecord /\ record.signed
        /\ record.status = "reconciled" => landed = "ok"
        /\ record.status = "failed" => landed # "ok"
    <2>1. record.status = "reconciled" => landed = "ok" /\ wire
      BY DEF Holds, ConsoleInv, ToldInv, SentInv
    <2>2. record.status = "failed" => landed # "ok"
      BY FailedHasNotLanded DEF OneSubmission
    <2> QED
      BY <2>1, <2>2 DEF Holds, TypeOK, PersistInv
  <1>2. \A h \in Handler : Knows(pc[h])
    BY DEF Holds, ConsoleInv, ToldInv
  <1>3. \A s \in Submits : pc[s] \notin Unsent
    BY <1>1 DEF UnsentInv
  <1>4. \A st : SetRecord(st) => record'.status = st
    BY <1>1 DEF SetRecord, DurableRecord
  <1>5. Prepares \cup Aborts \cup Submits \cup Polls \subseteq Handler
    BY DEF Handler
  <1>6. ASSUME NEW p \in Prepares, Prepare(p)
        PROVE  record'.status = record.status
    BY <1>1, <1>6
       DEF PersistInv, Prepare, PrepareLoad, PrepareCreate, PrepareSave, PrepareReserve,
           PrepareActivate, PrepareWindow
  <1>7. ASSUME NEW h \in Prepares \cup Aborts, Fail(h)
        PROVE  record'.status = record.status
    <2>1. CASE FailRecord(h)
      <3>1. Turned
        BY <2>1 DEF FailRecord, Turned, Giving, Started
      <3>2. landed = "none"
        BY <3>1, TurnedIsNever, NeverIsOver DEF Holds, ConsoleInv
      <3> QED
        BY <1>1, <1>4, <2>1, <3>2 DEF FailRecord
    <2> QED
      BY <1>7, <2>1 DEF Fail, FailRelease, FailQuote
  <1>8. ASSUME NEW s \in Submits, Submit(s) \/ Catch(s)
        PROVE  record'.status = record.status
    BY <1>3, <1>8
       DEF Submit, SubmitLoad, SubmitLock, SubmitCheck, SubmitCross, SubmitRelay, SubmitKora,
           SubmitFinal, SubmitRecord, SubmitPersist, SubmitBroadcast, Catch, CatchUndo,
           CatchGiveBack, CatchSave, CatchMark, Unsent
  <1>9. ASSUME NEW s \in Submits, Settle(s)
        PROVE  record'.status = record.status
    <2>1. Knows(pc[s])
      BY <1>2, <1>5
    <2>2. CASE SubmitSettle(s)
      BY <1>1, <1>4, <2>1, <2>2 DEF SubmitSettle, Knows
    <2>3. CASE SubmitMismatch(s)
      BY <2>1, <2>3 DEF SubmitMismatch, Knows, OneSubmission
    <2> QED
      BY <1>9, <2>2, <2>3
         DEF Settle, SubmitObserve, SubmitConfirm, SubmitAccount, SubmitExpire, SubmitClose,
             SubmitThank
  <1>10. ASSUME NEW h \in Submits \cup Polls, End(h)
        PROVE  record'.status = record.status
    <2>1. Knows(pc[h])
      BY <1>2, <1>5
    <2>2. CASE EndRecord(h)
      BY <1>1, <1>4, <2>1, <2>2 DEF EndRecord, Knows, OneSubmission, Ended
    <2> QED
      BY <1>10, <2>2 DEF End, EndRelease
  <1>11. ASSUME NEW q \in Polls, Poll(q)
        PROVE  record'.status = record.status
    <2>1. Knows(pc[q])
      BY <1>2, <1>5
    <2>2. CASE PollRecord(q)
      BY <1>1, <1>4, <2>1, <2>2 DEF PollRecord, Knows
    <2> QED
      BY <1>11, <2>2
         DEF Poll, PollLoad, PollDecided, PollPending, PollConfirm, PollAccount, PollRelease
  <1>12. CASE \/ \E a \in Aborts : AbortLoad(a)
              \/ \E h \in Handler : Stop(h)
              \/ NextBlock \/ Land \/ UNCHANGED vars
    BY <1>12 DEF AbortLoad, Stop, NextBlock, Land, vars
  <1> QED
    BY <1>6, <1>7, <1>8, <1>9, <1>10, <1>11, <1>12 DEF Next

\* When the console submits once, a record that was settled, either way, is never settled
\* differently (see SettledIsFinal), whatever stops or fails.
THEOREM SettlementsAreFinal ==
  ASSUME OneSubmission
  PROVE  Spec => SettledIsFinal
  <1>1. Init => UnsentInv
    BY DEF Init, UnsentInv
  <1>2. UnsentInv /\ TypeOK /\ [Next]_vars => UnsentInv'
    BY UnsentKeeps
  <1>3. Holds /\ PersistInv /\ UnsentInv /\ [Next]_vars
          => [(record.status = "reconciled" \/ (record.status = "failed" /\ record.signed))
                => record'.status = record.status]_vars
    BY SettledStays
  <1>4. Orderly
    BY DEF OneSubmission
  <1>5. Spec => []Holds
    BY <1>4, ConsoleHolds
  <1> QED
    BY <1>1, <1>2, <1>3, <1>5, TypeCorrect, PersistenceHolds, PTL DEF Spec, SettledIsFinal
=============================================================================
