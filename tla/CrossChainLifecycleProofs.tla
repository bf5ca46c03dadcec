--------------------- MODULE CrossChainLifecycleProofs ---------------------
(***************************************************************************)
(* Theorems about a cross-chain quote, for any number of builds,           *)
(* submissions, status requests and closings, in any order, with any       *)
(* number of faults; ReleasesSettled and FailuresStayHome are for sound    *)
(* providers and a quote nobody closes, and leave out only what the user   *)
(* does with the bytes of a submission that was refused.                   *)
(***************************************************************************)
EXTENDS CrossChainLifecycle, FiniteSetTheorems, TLAPS

\* Moving a handler to one of the places leaves every handler at a place.
LEMMA GotoKeepsPlaces ==
  ASSUME pc \in [Handler -> Places],
         NEW h \in Handler, NEW place \in Places, Goto(h, place)
  PROVE  pc' \in [Handler -> Places]
  BY DEF Goto

\* Giving a handler statuses to hold leaves every handler with statuses.
LEMMA HoldKeepsStatuses ==
  ASSUME held \in [Handler -> Statuses],
         NEW h \in Handler, NEW s \in Status, NEW c \in CrossChainStatus, Hold(h, s, c)
  PROVE  held' \in [Handler -> Statuses]
  BY DEF Hold, Statuses

\* What the code writes to the durable record leaves a record.
LEMMA WritesKeepRecord ==
  ASSUME record \in DurableRecord
  PROVE  /\ \A s \in Status, c \in CrossChainStatus :
              SetStatuses(s, c) => record' \in DurableRecord
         /\ \A s \in Status : SetFailed(s) => record' \in DurableRecord
         /\ \A e \in BOOLEAN : SetSubmitted(e) => record' \in DurableRecord
  BY DEF DurableRecord, SetStatuses, SetFailed, SetSubmitted, Status, CrossChainStatus

\* A submission's announcements on the record leave a record.
LEMMA AnnouncingKeepsRecord ==
  ASSUME record \in DurableRecord, NEW s, SubmitUserSigned(s) \/ SubmitRelaying(s)
  PROVE  record' \in DurableRecord
  BY DEF DurableRecord, Status, SubmitUserSigned, SubmitRelaying

\* Kora's signatures are counted.
LEMMA SigningKeepsCount ==
  ASSUME payer \in Nat, NEW b, BuildSign(b)
  PROVE  payer' \in Nat
  BY DEF BuildSign

\* Giving a reservation back leaves every build with the state of one.
LEMMA GiveBackKeepsExposure ==
  ASSUME exposure \in [Builds -> {"none", "reserved", "released"}], NEW b, GiveBack(b)
  PROVE  exposure' \in [Builds -> {"none", "reserved", "released"}]
  BY DEF GiveBack

\* The bound on faults is a bound.
LEMMA FaultKeepsCount ==
  ASSUME faults \in 0..MaxFaults, Fault
  PROVE  faults' \in 0..MaxFaults
  BY ConstantsAssumption DEF Fault

\* Relay's answers have a translation, and that one a status for the record.
LEMMA TranslationsAreStatuses ==
  /\ \A value \in RelayStatus : normalizeRelayStatus(value) \in CrossChainStatus
  /\ \A c \in CrossChainStatus : DurableStatus(c) \in Status
  BY DEF RelayStatus, normalizeRelayStatus, CrossChainStatus, DurableStatus, Status

\* A request that learns an answer is at a place, with statuses.
LEMMA LearnKeepsTypes ==
  ASSUME pc \in [Handler -> Places], held \in [Handler -> Statuses],
         NEW p \in Polls, NEW c \in CrossChainStatus, Learn(p, c)
  PROVE  pc' \in [Handler -> Places] /\ held' \in [Handler -> Statuses]
  <1>1. p \in Handler /\ {"write", "release", "idle"} \subseteq Places
    BY DEF Handler, Places, PollPlaces
  <1>2. "none" \in Status /\ "none" \in CrossChainStatus
    BY DEF Status, CrossChainStatus
  <1>3. [status |-> DurableStatus(c), cross |-> c] \in Statuses
    BY TranslationsAreStatuses DEF Statuses
  <1> QED
    BY <1>1, <1>2, <1>3, GotoKeepsPlaces, HoldKeepsStatuses DEF Learn, Rest

\* Every state of the protocol is a state of the declared types.
THEOREM TypeCorrect == Spec => []TypeOK
  <1> USE DEF storeVars, chainVars, NoFault
  <1>1. Init => TypeOK
    <2> SUFFICES ASSUME Init
                 PROVE  TypeOK
      OBVIOUS
    <2>1. pc \in [Handler -> Places] /\ exposure \in [Builds -> {"none", "reserved", "released"}]
      BY DEF Init, Places
    <2>2. held \in [Handler -> Statuses] /\ record \in DurableRecord
      BY DEF Init, NoStatuses, NoRecord, DurableRecord, Statuses, Status, CrossChainStatus
    <2>3. faults \in 0..MaxFaults /\ payer \in Nat /\ height \in Nat
      BY ConstantsAssumption DEF Init
    <2>4. relay \in RelayStatus /\ landed \in {"none", "ok", "err"}
      BY DEF Init, RelayStatus
    <2> QED
      BY <2>1, <2>2, <2>3, <2>4 DEF Init, TypeOK
  <1>2. TypeOK /\ [Next]_vars => TypeOK'
    <2> SUFFICES ASSUME TypeOK, [Next]_vars
                 PROVE  TypeOK'
      OBVIOUS
    <2>t. /\ pc \in [Handler -> Places] /\ held \in [Handler -> Statuses]
          /\ record \in DurableRecord
          /\ exposure \in [Builds -> {"none", "reserved", "released"}]
          /\ faults \in 0..MaxFaults
      BY DEF TypeOK
    <2>s. /\ {"none", "validated", "awaiting_user_signature", "user_signed", "relaying",
              "submitted", "failed", "expired"} \subseteq Status
          /\ {"none", "preparing", "awaiting_signature", "submitted", "source_confirmed",
              "failed", "unknown_retryable"} \subseteq CrossChainStatus
      BY DEF Status, CrossChainStatus
    <2>1. ASSUME NEW b \in Builds, Build(b)
          PROVE  TypeOK'
      <3>1. b \in Handler /\ BuildPlaces \cup {"done", "ended"} \subseteq Places
        BY DEF Handler, Places
      <3> USE <2>t, <2>s, <3>1, GotoKeepsPlaces, WritesKeepRecord, FaultKeepsCount
          DEF TypeOK, BuildPlaces
      <3>2. CASE BuildLoad(b)
        BY <3>2 DEF BuildLoad
      <3>3. CASE BuildLock(b)
        BY <3>3 DEF BuildLock
      <3>4. CASE BuildReserve(b)
        BY <3>4 DEF BuildReserve
      <3>5. CASE BuildIntent(b)
        BY <3>5 DEF BuildIntent
      <3>6. CASE BuildCreate(b)
        BY <3>6 DEF BuildCreate
      <3>7. CASE BuildSign(b)
        <4>1. payer' \in Nat
          BY <3>7, SigningKeepsCount
        <4>2. pc' \in [Handler -> Places]
          BY <3>7 DEF BuildSign
        <4> QED
          BY <3>7, <4>1, <4>2 DEF BuildSign
      <3>8. CASE BuildActivate(b)
        BY <3>8 DEF BuildActivate
      <3> QED
        BY <2>1, <3>2, <3>3, <3>4, <3>5, <3>6, <3>7, <3>8 DEF Build
    <2>2. ASSUME NEW s \in Submits, Submit(s)
          PROVE  TypeOK'
      <3>1. s \in Handler /\ SubmitPlaces \cup {"done", "ended"} \subseteq Places
        BY DEF Handler, Places
      <3> USE <2>t, <2>s, <3>1, GotoKeepsPlaces, WritesKeepRecord, FaultKeepsCount
          DEF TypeOK, SubmitPlaces
      <3>2. CASE SubmitLoad(s)
        BY <3>2 DEF SubmitLoad
      <3>3. CASE SubmitLock(s)
        BY <3>3 DEF SubmitLock
      <3>4. CASE SubmitUserSigned(s)
        <4>1. record' \in DurableRecord
          BY <2>t, <3>4, AnnouncingKeepsRecord
        <4>2. pc' \in [Handler -> Places] /\ faults' \in 0..MaxFaults
          BY <3>4 DEF SubmitUserSigned
        <4> QED
          BY <2>t, <3>4, <4>1, <4>2 DEF SubmitUserSigned
      <3>5. CASE SubmitRelaying(s)
        <4>1. record' \in DurableRecord
          BY <2>t, <3>5, AnnouncingKeepsRecord
        <4>2. pc' \in [Handler -> Places] /\ faults' \in 0..MaxFaults
          BY <3>5 DEF SubmitRelaying
        <4> QED
          BY <2>t, <3>5, <4>1, <4>2 DEF SubmitRelaying
      <3>6. CASE SubmitHeights(s)
        BY <3>6 DEF SubmitHeights
      <3>7. CASE SubmitBroadcast(s)
        BY <3>7 DEF SubmitBroadcast, Sent, Rejected
      <3>8. CASE SubmitSubmitted(s)
        BY <3>8 DEF SubmitSubmitted
      <3>9. CASE SubmitConfirm(s)
        BY <3>9 DEF SubmitConfirm
      <3>10. CASE SubmitConfirmed(s)
        BY <3>10 DEF SubmitConfirmed
      <3>11. CASE SubmitChainRecord(s)
        BY <3>11 DEF SubmitChainRecord
      <3>12. CASE SubmitChainRelease(s)
        BY <3>12, GiveBackKeepsExposure DEF SubmitChainRelease
      <3>13. CASE CatchSent(s)
        BY <3>13 DEF CatchSent
      <3> QED
        BY <2>2, <3>2, <3>3, <3>4, <3>5, <3>6, <3>7, <3>8, <3>9, <3>10, <3>11, <3>12,
           <3>13 DEF Submit
    <2>3. ASSUME NEW h \in Builds \cup Submits, Fail(h)
          PROVE  TypeOK'
      <3>1. h \in Handler /\ {"fail_record", "ended"} \subseteq Places
        BY DEF Handler, Places, BuildPlaces
      <3>2. CASE FailRelease(h)
        BY <2>t, <3>1, <3>2, GotoKeepsPlaces, GiveBackKeepsExposure, FaultKeepsCount
        DEF TypeOK, FailRelease
      <3>3. CASE FailRecord(h)
        BY <2>t, <2>s, <3>1, <3>3, GotoKeepsPlaces, WritesKeepRecord, FaultKeepsCount
        DEF TypeOK, FailRecord
      <3> QED
        BY <2>3, <3>2, <3>3 DEF Fail
    <2>4. ASSUME NEW p \in Polls, Poll(p)
          PROVE  TypeOK'
      <3>1. p \in Handler /\ PollPlaces \cup {"idle"} \subseteq Places
        BY DEF Handler, Places
      <3> USE <2>t, <2>s, <3>1, GotoKeepsPlaces, HoldKeepsStatuses, WritesKeepRecord,
              FaultKeepsCount, GiveBackKeepsExposure, LearnKeepsTypes
          DEF TypeOK, PollPlaces, Rest
      <3>2. CASE PollLoad(p)
        <4>1. record.status \in Status /\ record.cross \in CrossChainStatus
          BY <2>t DEF DurableRecord
        <4> QED
          BY <3>2, <4>1 DEF PollLoad
      <3>3. CASE PollHeal(p)
        BY <3>3 DEF PollHeal
      <3>4. CASE PollAnswered(p)
        BY <3>4, TranslationsAreStatuses DEF PollAnswered
      <3>5. CASE PollUnknown(p)
        BY <3>5 DEF PollUnknown
      <3>6. CASE PollWrite(p)
        <4>1. record' \in DurableRecord
          BY <3>6 DEF PollWrite, DurableRecord, Statuses
        <4> QED
          BY <3>6, <4>1 DEF PollWrite
      <3>7. CASE PollRelease(p)
        BY <3>7 DEF PollRelease
      <3> QED
        BY <2>4, <3>2, <3>3, <3>4, <3>5, <3>6, <3>7 DEF Poll
    <2>5. ASSUME NEW c \in Closers, Close(c)
          PROVE  TypeOK'
      <3>1. c \in Handler /\ {"release", "close", "done"} \subseteq Places
        BY DEF Handler, Places, ClosePlaces
      <3>2. CASE CloseLoad(c)
        BY <2>t, <2>s, <3>1, <3>2, GotoKeepsPlaces, HoldKeepsStatuses DEF TypeOK, CloseLoad
      <3>3. CASE CloseRelease(c)
        BY <2>t, <3>1, <3>3, GotoKeepsPlaces, GiveBackKeepsExposure DEF TypeOK, CloseRelease
      <3>4. CASE CloseRecord(c)
        <4>1. held[c].status \in Status
          BY <2>t, <3>1 DEF Statuses
        <4> QED
          BY <2>t, <3>1, <3>4, <4>1, GotoKeepsPlaces, WritesKeepRecord DEF TypeOK, CloseRecord
      <3> QED
        BY <2>5, <3>2, <3>3, <3>4 DEF Close
    <2>6. CASE NextBlock
      BY <2>6 DEF TypeOK, NextBlock
    <2>7. CASE Land
      BY <2>7 DEF TypeOK, Land
    <2>8. CASE RelayStep
      BY <2>8, ConstantsAssumption DEF TypeOK, RelayStep, RelayFollows, RelayStatus
    <2>9. CASE UNCHANGED vars
      BY <2>9 DEF TypeOK, vars
    <2> QED
      BY <2>1, <2>2, <2>3, <2>4, <2>5, <2>6, <2>7, <2>8, <2>9 DEF Next
  <1> QED
    BY <1>1, <1>2, PTL DEF Spec

-----------------------------------------------------------------------------
\* What submissions, status requests and closings leave alone.
LEMMA OthersLeaveBuilds ==
  ASSUME TypeOK,
         \/ \E s \in Submits : Submit(s) \/ Fail(s)
         \/ \E p \in Polls : Poll(p)
         \/ \E c \in Closers : Close(c)
         \/ NextBlock \/ Land \/ RelayStep \/ UNCHANGED vars
  PROVE  UNCHANGED <<intent, payer>> /\ \A b \in Builds : pc'[b] = pc[b]
  <1> USE ConstantsAssumption DEF storeVars, chainVars, Handler, TypeOK, Goto
  <1>1. ASSUME NEW s \in Submits, Submit(s) \/ Fail(s)
        PROVE  UNCHANGED <<intent, payer>> /\ \A b \in Builds : pc'[b] = pc[b]
    BY <1>1
    DEF Submit, SubmitLoad, SubmitLock, SubmitUserSigned, SubmitRelaying, SubmitHeights,
        SubmitBroadcast, SubmitSubmitted, SubmitConfirm, SubmitConfirmed, SubmitChainRecord,
        SubmitChainRelease, CatchSent, Fail, FailRelease, FailRecord
  <1>2. ASSUME NEW p \in Polls, Poll(p)
        PROVE  UNCHANGED <<intent, payer>> /\ \A b \in Builds : pc'[b] = pc[b]
    BY <1>2
    DEF Poll, PollLoad, PollHeal, PollAnswered, PollUnknown, PollWrite, PollRelease, Learn, Rest
  <1>3. ASSUME NEW c \in Closers, Close(c)
        PROVE  UNCHANGED <<intent, payer>> /\ \A b \in Builds : pc'[b] = pc[b]
    BY <1>3 DEF Close, CloseLoad, CloseRelease, CloseRecord
  <1>4. CASE NextBlock \/ Land \/ RelayStep \/ UNCHANGED vars
    BY <1>4 DEF NextBlock, Land, RelayStep, vars
  <1> QED
    BY <1>1, <1>2, <1>3, <1>4

(***************************************************************************)
(* Only the build whose intent has the quote gets as far as Kora, and none *)
(* has been there before it.                                               *)
(***************************************************************************)
OneBuildSigns ==
  /\ payer <= 1
  /\ intent = None => payer = 0
  /\ \A b \in Builds :
       /\ pc[b] \in {"create", "sign", "activate"} => intent = b
       /\ pc[b] \in {"create", "sign"} => payer = 0
       /\ intent = b => pc[b] \notin {"idle", "lock", "reserve", "intent"}

\* Every step of a build or of another request keeps to one signing build.
LEMMA OneBuildSignsInvariant == Spec => []OneBuildSigns
  <1>1. Init => OneBuildSigns
    BY ConstantsAssumption DEF Init, OneBuildSigns, Handler
  <1>2. TypeOK /\ OneBuildSigns /\ [Next]_vars => OneBuildSigns'
    <2> SUFFICES ASSUME TypeOK, OneBuildSigns, [Next]_vars
                 PROVE  OneBuildSigns'
      OBVIOUS
    <2>1. ASSUME NEW b \in Builds, Build(b)
          PROVE  OneBuildSigns'
      <3> USE ConstantsAssumption
          DEF OneBuildSigns, Handler, TypeOK, Goto, storeVars
      <3>1. CASE BuildLoad(b)
        BY <3>1 DEF BuildLoad
      <3>2. CASE BuildLock(b)
        BY <3>2 DEF BuildLock
      <3>3. CASE BuildReserve(b)
        BY <3>3 DEF BuildReserve
      <3>4. CASE BuildIntent(b)
        BY <3>4 DEF BuildIntent
      <3>5. CASE BuildCreate(b)
        BY <3>5 DEF BuildCreate
      <3>6. CASE BuildSign(b)
        BY <3>6 DEF BuildSign
      <3>7. CASE BuildActivate(b)
        BY <3>7 DEF BuildActivate
      <3> QED
        BY <2>1, <3>1, <3>2, <3>3, <3>4, <3>5, <3>6, <3>7 DEF Build
    <2>2. ASSUME NEW b \in Builds, Fail(b)
          PROVE  OneBuildSigns'
      BY <2>2 DEF OneBuildSigns, Handler, TypeOK, Goto, Fail, FailRelease, FailRecord
    <2>3. CASE UNCHANGED <<intent, payer>> /\ \A b \in Builds : pc'[b] = pc[b]
      BY <2>3 DEF OneBuildSigns
    <2> QED
      BY <2>1, <2>2, <2>3, OthersLeaveBuilds DEF Next
  <1> QED
    BY <1>1, <1>2, TypeCorrect, PTL DEF Spec

(***************************************************************************)
(* Kora signs at most once for a quote, however many builds of it race     *)
(* each other past the look for an earlier one.                            *)
(***************************************************************************)
THEOREM SignsOnce == Spec => []PayerSignsOnce
  <1>1. OneBuildSigns => PayerSignsOnce
    BY DEF OneBuildSigns, PayerSignsOnce
  <1> QED
    BY <1>1, OneBuildSignsInvariant, PTL

-----------------------------------------------------------------------------
\* What builds, status requests and closings leave alone.
LEMMA OthersLeaveSubmissions ==
  ASSUME TypeOK,
         \/ \E b \in Builds : Build(b) \/ Fail(b)
         \/ \E p \in Polls : Poll(p)
         \/ \E c \in Closers : Close(c)
         \/ NextBlock \/ Land \/ RelayStep \/ UNCHANGED vars
  PROVE  UNCHANGED <<lock, wire>> /\ \A s \in Submits : pc'[s] = pc[s]
  <1> USE ConstantsAssumption DEF storeVars, chainVars, Handler, TypeOK, Goto
  <1>1. ASSUME NEW b \in Builds, Build(b) \/ Fail(b)
        PROVE  UNCHANGED <<lock, wire>> /\ \A s \in Submits : pc'[s] = pc[s]
    BY <1>1
    DEF Build, BuildLoad, BuildLock, BuildReserve, BuildIntent, BuildCreate, BuildSign,
        BuildActivate, Fail, FailRelease, FailRecord
  <1>2. ASSUME NEW p \in Polls, Poll(p)
        PROVE  UNCHANGED <<lock, wire>> /\ \A s \in Submits : pc'[s] = pc[s]
    BY <1>2
    DEF Poll, PollLoad, PollHeal, PollAnswered, PollUnknown, PollWrite, PollRelease, Learn, Rest
  <1>3. ASSUME NEW c \in Closers, Close(c)
        PROVE  UNCHANGED <<lock, wire>> /\ \A s \in Submits : pc'[s] = pc[s]
    BY <1>3 DEF Close, CloseLoad, CloseRelease, CloseRecord
  <1>4. CASE NextBlock \/ Land \/ RelayStep \/ UNCHANGED vars
    BY <1>4 DEF NextBlock, Land, RelayStep, vars
  <1> QED
    BY <1>1, <1>2, <1>3, <1>4

\* A submission between its lock and its broadcast.
BeforeBroadcast == {"user_signed", "relaying", "heights", "broadcast"}

(***************************************************************************)
(* The lock is never given up, so that what is on its way to a broadcast,  *)
(* or was broadcast, is the submission that holds it.                      *)
(***************************************************************************)
LockHolderBroadcasts ==
  /\ \A s \in Submits : pc[s] \in BeforeBroadcast => lock = s
  /\ \A s \in wire : lock = s

\* Every step keeps broadcasts to the holder of the lock.
LEMMA LockHolderInvariant == Spec => []LockHolderBroadcasts
  <1>1. Init => LockHolderBroadcasts
    BY DEF Init, LockHolderBroadcasts, BeforeBroadcast, Handler
  <1>2. TypeOK /\ LockHolderBroadcasts /\ [Next]_vars => LockHolderBroadcasts'
    <2> SUFFICES ASSUME TypeOK, LockHolderBroadcasts, [Next]_vars
                 PROVE  LockHolderBroadcasts'
      OBVIOUS
    <2>1. ASSUME NEW s \in Submits, Submit(s)
          PROVE  LockHolderBroadcasts'
      <3> USE ConstantsAssumption
          DEF LockHolderBroadcasts, BeforeBroadcast, Handler, TypeOK, Goto, storeVars, chainVars
      <3>1. CASE SubmitLoad(s)
        BY <3>1 DEF SubmitLoad
      <3>2. CASE SubmitLock(s)
        BY <3>2 DEF SubmitLock
      <3>3. CASE SubmitUserSigned(s)
        BY <3>3 DEF SubmitUserSigned
      <3>4. CASE SubmitRelaying(s)
        BY <3>4 DEF SubmitRelaying
      <3>5. CASE SubmitHeights(s)
        BY <3>5 DEF SubmitHeights
      <3>6. CASE SubmitBroadcast(s)
        BY <3>6 DEF SubmitBroadcast, Sent, Rejected
      <3>7. CASE SubmitSubmitted(s) \/ SubmitConfirm(s) \/ SubmitConfirmed(s)
        BY <3>7 DEF SubmitSubmitted, SubmitConfirm, SubmitConfirmed
      <3>8. CASE SubmitChainRecord(s) \/ SubmitChainRelease(s) \/ CatchSent(s)
        BY <3>8 DEF SubmitChainRecord, SubmitChainRelease, CatchSent
      <3> QED
        BY <2>1, <3>1, <3>2, <3>3, <3>4, <3>5, <3>6, <3>7, <3>8 DEF Submit
    <2>2. ASSUME NEW s \in Submits, Fail(s)
          PROVE  LockHolderBroadcasts'
      BY <2>2
      DEF LockHolderBroadcasts, BeforeBroadcast, Handler, TypeOK, Goto, Fail, FailRelease,
          FailRecord, chainVars
    <2>3. CASE UNCHANGED <<lock, wire>> /\ \A s \in Submits : pc'[s] = pc[s]
      BY <2>3 DEF LockHolderBroadcasts
    <2> QED
      BY <2>1, <2>2, <2>3, OthersLeaveSubmissions DEF Next
  <1> QED
    BY <1>1, <1>2, TypeCorrect, PTL DEF Spec

(***************************************************************************)
(* The bytes of a quote are broadcast by at most one submission, whatever  *)
(* the status requests write to the record meanwhile.                      *)
(***************************************************************************)
THEOREM BroadcastsOnce == Spec => []BroadcastOnce
  <1>1. LockHolderBroadcasts => BroadcastOnce
    <2> SUFFICES ASSUME LockHolderBroadcasts
                 PROVE  BroadcastOnce
      OBVIOUS
    <2>1. wire \subseteq {lock}
      BY DEF LockHolderBroadcasts
    <2>2. wire = {} \/ wire = {lock}
      BY <2>1
    <2>3. Cardinality({}) = 0 /\ Cardinality({lock}) = 1
      BY FS_EmptySet, FS_Singleton
    <2>4. Cardinality(wire) = 0 \/ Cardinality(wire) = 1
      BY <2>2, <2>3
    <2> QED
      BY <2>4 DEF BroadcastOnce
  <1> QED
    BY <1>1, LockHolderInvariant, PTL

-----------------------------------------------------------------------------
\* No handler takes the signature off the record.
LEMMA SignedStays ==
  ASSUME TypeOK, [Next]_vars, record.signed
  PROVE  record'.signed
  <1> USE DEF TypeOK, DurableRecord, SetStatuses, SetFailed, SetSubmitted, storeVars, chainVars
  <1>1. ASSUME NEW b \in Builds, Build(b)
        PROVE  record'.signed
    BY <1>1
    DEF Build, BuildLoad, BuildLock, BuildReserve, BuildIntent, BuildCreate, BuildSign,
        BuildActivate
  <1>2. ASSUME NEW s \in Submits, Submit(s)
        PROVE  record'.signed
    BY <1>2
    DEF Submit, SubmitLoad, SubmitLock, SubmitUserSigned, SubmitRelaying, SubmitHeights,
        SubmitBroadcast, SubmitSubmitted, SubmitConfirm, SubmitConfirmed, SubmitChainRecord,
        SubmitChainRelease, CatchSent
  <1>3. ASSUME NEW h \in Builds \cup Submits, Fail(h)
        PROVE  record'.signed
    BY <1>3 DEF Fail, FailRelease, FailRecord
  <1>4. ASSUME NEW p \in Polls, Poll(p)
        PROVE  record'.signed
    BY <1>4 DEF Poll, PollLoad, PollHeal, PollAnswered, PollUnknown, PollWrite, PollRelease
  <1>5. ASSUME NEW c \in Closers, Close(c)
        PROVE  record'.signed
    BY <1>5 DEF Close, CloseLoad, CloseRelease, CloseRecord
  <1>6. CASE NextBlock \/ Land \/ RelayStep \/ UNCHANGED vars
    BY <1>6 DEF NextBlock, Land, RelayStep, vars
  <1> QED
    BY <1>1, <1>2, <1>3, <1>4, <1>5, <1>6 DEF Next

\* The signature is recorded when the submission announces that it relays.
SignedFirst ==
  /\ \A s \in Submits : pc[s] \in {"heights", "broadcast"} => record.signed
  /\ wire # {} => record.signed

(***************************************************************************)
(* Whatever was broadcast has its signature on the durable record.         *)
(***************************************************************************)
THEOREM BroadcastRecorded == Spec => []BroadcastIsOnRecord
  <1>1. Init => SignedFirst
    BY DEF Init, SignedFirst, Handler
  <1>2. TypeOK /\ SignedFirst /\ [Next]_vars => SignedFirst'
    <2> SUFFICES ASSUME TypeOK, SignedFirst, [Next]_vars
                 PROVE  SignedFirst'
      OBVIOUS
    <2>1. CASE record.signed
      BY <2>1, SignedStays DEF SignedFirst
    <2>2. CASE ~record.signed
      <3>1. wire = {} /\ \A s \in Submits : pc[s] \notin {"heights", "broadcast"}
        BY <2>2 DEF SignedFirst
      <3>2. ASSUME NEW s \in Submits, Submit(s)
            PROVE  SignedFirst'
        <4> USE <3>1, <3>2 DEF TypeOK, SignedFirst, Handler, Goto, storeVars, chainVars
        <4>1. CASE SubmitLoad(s) \/ SubmitLock(s) \/ SubmitUserSigned(s)
          BY <4>1 DEF SubmitLoad, SubmitLock, SubmitUserSigned
        <4>2. CASE SubmitRelaying(s)
          BY <4>2 DEF SubmitRelaying, DurableRecord
        <4>3. CASE SubmitHeights(s) \/ SubmitBroadcast(s)
          BY <4>3 DEF SubmitHeights, SubmitBroadcast
        <4>4. CASE SubmitSubmitted(s) \/ SubmitConfirm(s) \/ SubmitConfirmed(s)
          BY <4>4 DEF SubmitSubmitted, SubmitConfirm, SubmitConfirmed
        <4>5. CASE SubmitChainRecord(s) \/ SubmitChainRelease(s) \/ CatchSent(s)
          BY <4>5 DEF SubmitChainRecord, SubmitChainRelease, CatchSent
        <4> QED
          BY <4>1, <4>2, <4>3, <4>4, <4>5 DEF Submit
      <3>3. ASSUME NEW s \in Submits, Fail(s)
            PROVE  SignedFirst'
        BY <3>1, <3>3
        DEF TypeOK, SignedFirst, Handler, Goto, chainVars, Fail, FailRelease, FailRecord
      <3>4. CASE UNCHANGED <<lock, wire>> /\ \A s \in Submits : pc'[s] = pc[s]
        BY <3>1, <3>4 DEF SignedFirst
      <3> QED
        BY <3>2, <3>3, <3>4, OthersLeaveSubmissions DEF Next
    <2> QED
      BY <2>1, <2>2
  <1>3. SignedFirst => BroadcastIsOnRecord
    BY DEF SignedFirst, BroadcastIsOnRecord
  <1> QED
    BY <1>1, <1>2, <1>3, TypeCorrect, PTL DEF Spec

-----------------------------------------------------------------------------
(***************************************************************************)
(* The rest is for providers of the right network whose statuses are       *)
(* final, and for quotes nobody closes.                                    *)
(***************************************************************************)
Sound == SoundProviders /\ Closers = {}

\* A submission that holds the lock, or a build, that ends in its catch clause.
Failing == {"fail_release", "fail_record", "ended"}

(***************************************************************************)
(* Who may be where: submissions and status requests follow an answered    *)
(* build, what is past the lock holds it, and what fails after a broadcast *)
(* leaves the catch clause for everything else alone.                      *)
(***************************************************************************)
InOrder ==
  /\ lock # None => Answered
  /\ \A h \in Submits \cup Polls : pc[h] # "idle" => Answered
  /\ \A s \in Submits : pc[s] \in SubmitPlaces \ {"lock"} => lock = s
  /\ \A s \in Submits : pc[s] \in BeforeBroadcast => wire = {}
  /\ \A b \in Builds : pc[b] = "fail_record" => intent = b
  /\ \A b \in Builds :
       pc[b] \in {"idle", "lock", "reserve", "intent"} => exposure[b] # "released"

(***************************************************************************)
(* What the handlers know of the chain, and Relay of the deposit.          *)
(***************************************************************************)
WellInformed ==
  /\ relay # "waiting" => landed = "ok"
  /\ \A s \in Submits :
       /\ pc[s] \in {"fail_release", "fail_record"} => wire = {} \/ landed = "err"
       /\ pc[s] \in {"chain_record", "chain_release"} => landed = "err"
  /\ \A p \in Polls :
       /\ pc[p] = "release" => landed = "ok"
       /\ pc[p] = "write" /\ Terminal(held[p].cross) => landed = "ok"
       /\ pc[p] = "write" /\ "failed" \in {held[p].status, held[p].cross}
            => relay = "failure"
       /\ pc[p] = "write" => held[p].status # "expired"

\* The bytes were not broadcast, and whoever could have has given up.
NeverSent ==
  /\ wire = {}
  /\ \/ intent # None /\ pc[intent] \in Failing
     \/ lock # None /\ pc[lock] \in Failing

Hopeless == relay = "failure" \/ landed = "err" \/ NeverSent

(***************************************************************************)
(* A failure is recorded, and a reservation given back, when the transfer  *)
(* has come to nothing, or, for the reservation, has landed.               *)
(***************************************************************************)
SettledForGood ==
  /\ \A p \in Polls : pc[p] = "heal" => Hopeless
  /\ record.status \in {"failed", "expired"} \/ record.failedAt => Hopeless
  /\ intent # None /\ exposure[intent] = "released" => landed # "none" \/ NeverSent

\* A build that has answered has answered for good.
LEMMA AnsweredStays ==
  ASSUME TypeOK, [Next]_vars, Answered
  PROVE  Answered' /\ UNCHANGED intent
  <1>1. intent \in Builds /\ pc[intent] = "done"
    BY DEF TypeOK, Answered
  <1>2. ASSUME NEW b \in Builds, Build(b) \/ Fail(b)
        PROVE  Answered' /\ UNCHANGED intent
    BY <1>1, <1>2, ConstantsAssumption
    DEF Answered, TypeOK, Handler, Goto, storeVars, Build, BuildLoad, BuildLock, BuildReserve,
        BuildIntent, BuildCreate, BuildSign, BuildActivate, Fail, FailRelease, FailRecord
  <1>3. CASE UNCHANGED <<intent, payer>> /\ \A b \in Builds : pc'[b] = pc[b]
    BY <1>1, <1>3 DEF Answered
  <1> QED
    BY <1>2, <1>3, OthersLeaveBuilds DEF Next

\* What builds leave alone of the chain, of Relay and of the other requests.
LEMMA BuildsLeaveTheChain ==
  ASSUME TypeOK, NEW b \in Builds, Build(b) \/ Fail(b)
  PROVE  UNCHANGED <<wire, landed, relay, held>>
         /\ \A h \in Submits \cup Polls : pc'[h] = pc[h]
  BY ConstantsAssumption
  DEF storeVars, chainVars, Handler, TypeOK, Goto, Build, BuildLoad, BuildLock, BuildReserve,
      BuildIntent, BuildCreate, BuildSign, BuildActivate, Fail, FailRelease, FailRecord

\* What builds, submissions and status requests leave alone.
LEMMA HandlersLeaveTheChain ==
  ASSUME TypeOK,
         \/ \E b \in Builds : Build(b)
         \/ \E s \in Submits : Submit(s)
         \/ \E h \in Builds \cup Submits : Fail(h)
         \/ \E p \in Polls : Poll(p)
         \/ \E c \in Closers : Close(c)
  PROVE  UNCHANGED <<landed, relay>>
  <1> USE DEF storeVars, chainVars
  <1>1. ASSUME NEW b \in Builds, Build(b)
        PROVE  UNCHANGED <<landed, relay>>
    BY <1>1, BuildsLeaveTheChain
  <1>2. ASSUME NEW s \in Submits, Submit(s)
        PROVE  UNCHANGED <<landed, relay>>
    BY <1>2
    DEF Submit, SubmitLoad, SubmitLock, SubmitUserSigned, SubmitRelaying, SubmitHeights,
        SubmitBroadcast, SubmitSubmitted, SubmitConfirm, SubmitConfirmed, SubmitChainRecord,
        SubmitChainRelease, CatchSent
  <1>3. ASSUME NEW h \in Builds \cup Submits, Fail(h)
        PROVE  UNCHANGED <<landed, relay>>
    BY <1>3 DEF Fail, FailRelease, FailRecord
  <1>4. ASSUME NEW p \in Polls, Poll(p)
        PROVE  UNCHANGED <<landed, relay>>
    BY <1>4 DEF Poll, PollLoad, PollHeal, PollAnswered, PollUnknown, PollWrite, PollRelease
  <1>5. ASSUME NEW c \in Closers, Close(c)
        PROVE  UNCHANGED <<landed, relay>>
    BY <1>5 DEF Close, CloseLoad, CloseRelease, CloseRecord
  <1> QED
    BY <1>1, <1>2, <1>3, <1>4, <1>5

\* What has landed are bytes that were handed out.
HandedOut == landed # "none" => Answered

\* Every step keeps the landing to bytes that were handed out.
LEMMA HandedOutInvariant == Spec => []HandedOut
  <1>1. Init => HandedOut
    BY DEF Init, HandedOut
  <1>2. TypeOK /\ HandedOut /\ [Next]_vars => HandedOut'
    <2> SUFFICES ASSUME TypeOK, HandedOut, [Next]_vars
                 PROVE  HandedOut'
      OBVIOUS
    <2>1. CASE Answered
      BY <2>1, AnsweredStays DEF HandedOut
    <2>2. CASE ~Answered
      <3>1. ~Land
        BY <2>2 DEF Land
      <3>2. CASE NextBlock \/ RelayStep \/ UNCHANGED vars
        BY <2>2, <3>2 DEF HandedOut, NextBlock, RelayStep, vars
      <3> QED
        BY <2>2, <3>1, <3>2, HandlersLeaveTheChain DEF HandedOut, Next
    <2> QED
      BY <2>1, <2>2
  <1> QED
    BY <1>1, <1>2, TypeCorrect, PTL DEF Spec

\* Every step keeps the order of the requests.
LEMMA InOrderInvariant ==
  ASSUME Sound
  PROVE  Spec => []InOrder
  <1>1. Init => InOrder
    BY DEF Init, InOrder, Handler, SubmitPlaces, BeforeBroadcast
  <1>2. TypeOK /\ OneBuildSigns /\ LockHolderBroadcasts /\ InOrder /\ [Next]_vars => InOrder'
    <2> SUFFICES ASSUME TypeOK, OneBuildSigns, LockHolderBroadcasts, InOrder, [Next]_vars
                 PROVE  InOrder'
      OBVIOUS
    <2>1. ASSUME NEW b \in Builds, Build(b)
          PROVE  InOrder'
      <3> USE ConstantsAssumption
          DEF InOrder, Answered, SubmitPlaces, BeforeBroadcast, OneBuildSigns, Handler, TypeOK,
              Goto, storeVars, chainVars
      <3>1. CASE BuildLoad(b)
        BY <3>1 DEF BuildLoad
      <3>2. CASE BuildLock(b)
        BY <3>2 DEF BuildLock
      <3>3. CASE BuildReserve(b)
        BY <3>3 DEF BuildReserve
      <3>4. CASE BuildIntent(b)
        BY <3>4 DEF BuildIntent
      <3>5. CASE BuildCreate(b)
        BY <3>5 DEF BuildCreate
      <3>6. CASE BuildSign(b)
        BY <3>6 DEF BuildSign
      <3>7. CASE BuildActivate(b)
        BY <3>7 DEF BuildActivate
      <3> QED
        BY <2>1, <3>1, <3>2, <3>3, <3>4, <3>5, <3>6, <3>7 DEF Build
    <2>2. ASSUME NEW s \in Submits, Submit(s)
          PROVE  InOrder'
      <3> USE ConstantsAssumption
          DEF InOrder, Answered, SubmitPlaces, BeforeBroadcast, LockHolderBroadcasts, Handler,
              TypeOK, Goto, storeVars, chainVars
      <3>1. CASE SubmitLoad(s)
        BY <3>1 DEF SubmitLoad
      <3>2. CASE SubmitLock(s)
        BY <3>2 DEF SubmitLock
      <3>3. CASE SubmitUserSigned(s) \/ SubmitRelaying(s) \/ SubmitHeights(s)
        BY <3>3 DEF SubmitUserSigned, SubmitRelaying, SubmitHeights
      <3>4. CASE SubmitBroadcast(s)
        BY <3>4 DEF SubmitBroadcast, Sent, Rejected
      <3>5. CASE SubmitSubmitted(s)
        BY <3>5 DEF SubmitSubmitted
      <3>6. CASE SubmitConfirm(s)
        BY <3>6 DEF SubmitConfirm
      <3>7. CASE SubmitConfirmed(s)
        BY <3>7 DEF SubmitConfirmed
      <3>8. CASE SubmitChainRecord(s)
        BY <3>8 DEF SubmitChainRecord
      <3>9. CASE SubmitChainRelease(s)
        BY <3>9 DEF SubmitChainRelease, GiveBack
      <3>10. CASE CatchSent(s)
        BY <3>10 DEF CatchSent
      <3> QED
        BY <2>2, <3>1, <3>2, <3>3, <3>4, <3>5, <3>6, <3>7, <3>8, <3>9, <3>10 DEF Submit
    <2>3. ASSUME NEW h \in Builds \cup Submits, Fail(h)
          PROVE  InOrder'
      <3> USE ConstantsAssumption
          DEF InOrder, Answered, SubmitPlaces, BeforeBroadcast, Handler, TypeOK, Goto,
              storeVars, chainVars
      <3>1. CASE FailRelease(h)
        BY <2>3, <3>1 DEF FailRelease, GiveBack, TransactionOf, Persisted
      <3>2. CASE FailRecord(h)
        BY <2>3, <3>2 DEF FailRecord
      <3> QED
        BY <2>3, <3>1, <3>2 DEF Fail
    <2>4. ASSUME NEW p \in Polls, Poll(p)
          PROVE  InOrder'
      <3> USE ConstantsAssumption
          DEF InOrder, Answered, SubmitPlaces, BeforeBroadcast, Handler, TypeOK, Goto,
              storeVars, chainVars
      <3>1. CASE PollLoad(p)
        BY <3>1 DEF PollLoad
      <3>2. CASE PollHeal(p) \/ PollWrite(p)
        BY <3>2 DEF PollHeal, PollWrite, Rest
      <3>3. CASE PollAnswered(p) \/ PollUnknown(p)
        BY <3>3 DEF PollAnswered, PollUnknown, Learn, Rest
      <3>4. CASE PollRelease(p)
        BY <3>4 DEF PollRelease, GiveBack, Rest
      <3> QED
        BY <2>4, <3>1, <3>2, <3>3, <3>4 DEF Poll
    <2>5. CASE NextBlock \/ Land \/ RelayStep \/ UNCHANGED vars
      BY <2>5
      DEF InOrder, Answered, NextBlock, Land, RelayStep, vars, storeVars
    <2> QED
      BY <2>1, <2>2, <2>3, <2>4, <2>5 DEF Next, Sound
  <1> QED
    BY <1>1, <1>2, TypeCorrect, OneBuildSignsInvariant, LockHolderInvariant, PTL DEF Spec

\* An answer that is terminal, or a failure, is one Relay gives for what has landed.
LEMMA TerminalHasLanded ==
  ASSUME WellInformed, relay \in RelayStatus,
         Terminal(normalizeRelayStatus(relay))
  PROVE  /\ landed = "ok"
         /\ normalizeRelayStatus(relay) = "failed" => relay = "failure"
  BY DEF WellInformed, RelayStatus, normalizeRelayStatus, Terminal

\* Only a failure of Relay is written as a failure.
LEMMA DurableFailureIsRelays ==
  ASSUME NEW c \in CrossChainStatus
  PROVE  /\ DurableStatus(c) = "failed" => c = "failed"
         /\ DurableStatus(c) # "expired"
  BY DEF CrossChainStatus, DurableStatus

\* Every step keeps what the handlers know true.
LEMMA WellInformedInvariant ==
  ASSUME Sound
  PROVE  Spec => []WellInformed
  <1>1. Init => WellInformed
    BY DEF Init, WellInformed, Handler
  <1>2. TypeOK /\ InOrder /\ WellInformed /\ [Next]_vars => WellInformed'
    <2> SUFFICES ASSUME TypeOK, InOrder, WellInformed, [Next]_vars
                 PROVE  WellInformed'
      OBVIOUS
    <2>1. ASSUME NEW b \in Builds, Build(b) \/ Fail(b)
          PROVE  WellInformed'
      BY <2>1, BuildsLeaveTheChain DEF WellInformed
    <2>2. ASSUME NEW s \in Submits, Submit(s) \/ Fail(s)
          PROVE  WellInformed'
      <3> USE ConstantsAssumption
          DEF WellInformed, InOrder, SubmitPlaces, BeforeBroadcast, Handler, TypeOK, Goto,
              storeVars, chainVars
      <3>1. CASE SubmitLoad(s)
        BY <3>1 DEF SubmitLoad
      <3>2. CASE SubmitLock(s)
        BY <3>2 DEF SubmitLock
      <3>3. CASE SubmitUserSigned(s)
        BY <3>3 DEF SubmitUserSigned
      <3>4. CASE SubmitRelaying(s)
        BY <3>4 DEF SubmitRelaying
      <3>5. CASE SubmitHeights(s)
        BY <3>5 DEF SubmitHeights
      <3>6. CASE SubmitBroadcast(s)
        BY <3>6 DEF Sound, SubmitBroadcast, Sent, Rejected
      <3>7. CASE SubmitSubmitted(s)
        BY <3>7 DEF SubmitSubmitted
      <3>8. CASE SubmitConfirm(s)
        BY <3>8 DEF Sound, SubmitConfirm, Observable
      <3>9. CASE SubmitConfirmed(s)
        BY <3>9 DEF SubmitConfirmed
      <3>10. CASE SubmitChainRecord(s)
        BY <3>10 DEF SubmitChainRecord
      <3>11. CASE SubmitChainRelease(s)
        BY <3>11 DEF SubmitChainRelease
      <3>12. CASE CatchSent(s)
        BY <3>12 DEF CatchSent
      <3>13. CASE FailRelease(s) \/ FailRecord(s)
        BY <3>13 DEF FailRelease, FailRecord
      <3> QED
        BY <2>2, <3>1, <3>2, <3>3, <3>4, <3>5, <3>6, <3>7, <3>8, <3>9, <3>10, <3>11, <3>12,
           <3>13 DEF Submit, Fail
    <2>3. ASSUME NEW p \in Polls, Poll(p)
          PROVE  WellInformed'
      <3>0. ASSUME NEW c \in CrossChainStatus, Learn(p, c), UNCHANGED chainVars,
                   Terminal(c) => landed = "ok", c = "failed" => relay = "failure"
            PROVE  WellInformed'
        <4>1. /\ DurableStatus(c) = "failed" => c = "failed"
              /\ DurableStatus(c) # "expired"
          BY DurableFailureIsRelays
        <4> QED
          BY <3>0, <4>1, ConstantsAssumption
          DEF WellInformed, Handler, TypeOK, Goto, Hold, chainVars, Learn, Rest, Statuses
      <3> USE ConstantsAssumption
          DEF WellInformed, Handler, TypeOK, Goto, storeVars, chainVars
      <3>1. CASE PollLoad(p)
        BY <3>1 DEF PollLoad, Hold
      <3>2. CASE PollHeal(p)
        BY <3>2 DEF PollHeal, Rest, Hold
      <3>3. CASE PollAnswered(p)
        <4>1. normalizeRelayStatus(relay) \in CrossChainStatus
          BY TranslationsAreStatuses
        <4>2. normalizeRelayStatus(relay) = "failed" => Terminal(normalizeRelayStatus(relay))
          BY DEF Terminal
        <4> QED
          BY <3>0, <3>3, <4>1, <4>2, TerminalHasLanded DEF PollAnswered
      <3>4. CASE PollUnknown(p)
        <4>1. CASE Rest(p) /\ UNCHANGED chainVars
          BY <4>1 DEF Rest, Hold
        <4>2. CASE Learn(p, "source_confirmed") \/ Learn(p, "unknown_retryable")
          <5>1. {"source_confirmed", "unknown_retryable"} \subseteq CrossChainStatus
            BY DEF CrossChainStatus
          <5>2. UNCHANGED chainVars
            BY <3>4 DEF PollUnknown
          <5> QED
            BY <3>0, <4>2, <5>1, <5>2 DEF Terminal
        <4> QED
          BY <3>4, <4>1, <4>2 DEF PollUnknown
      <3>5. CASE PollWrite(p)
        BY <3>5 DEF PollWrite, Rest, Hold
      <3>6. CASE PollRelease(p)
        BY <3>6 DEF PollRelease, Rest, Hold
      <3> QED
        BY <2>3, <3>1, <3>2, <3>3, <3>4, <3>5, <3>6 DEF Poll
    <2>4. CASE NextBlock \/ UNCHANGED vars
      BY <2>4 DEF WellInformed, NextBlock, vars
    <2>5. CASE Land
      BY <2>5 DEF WellInformed, Land
    <2>6. CASE RelayStep
      BY <2>6, ConstantsAssumption DEF WellInformed, RelayStep, RelayFollows
    <2> QED
      BY <2>1, <2>2, <2>3, <2>4, <2>5, <2>6 DEF Next, Sound
  <1> QED
    BY <1>1, <1>2, TypeCorrect, InOrderInvariant, PTL DEF Spec

\* Who has given up does not come back, and nobody takes over.
LEMMA NeverSentStays ==
  ASSUME Sound, TypeOK, InOrder, NeverSent, [Next]_vars
  PROVE  NeverSent'
  <1> USE ConstantsAssumption DEF Handler, TypeOK, Goto, storeVars, chainVars
  <1>1. CASE intent # None /\ pc[intent] \in Failing
    <2>1. /\ intent \in Builds /\ ~Answered
          /\ \A h \in Submits \cup Polls : pc[h] = "idle"
      BY <1>1 DEF Failing, Answered, InOrder
    <2>2. ASSUME NEW b \in Builds, Build(b) \/ Fail(b)
          PROVE  UNCHANGED intent /\ pc'[intent] \in Failing
      BY <1>1, <2>1, <2>2
      DEF Failing, Build, BuildLoad, BuildLock, BuildReserve, BuildIntent, BuildCreate,
          BuildSign, BuildActivate, Fail, FailRelease, FailRecord
    <2>3. ASSUME NEW s \in Submits, Submit(s) \/ Fail(s)
          PROVE  FALSE
      BY <2>1, <2>3
      DEF Submit, SubmitLoad, SubmitLock, SubmitUserSigned, SubmitRelaying, SubmitHeights,
          SubmitBroadcast, SubmitSubmitted, SubmitConfirm, SubmitConfirmed, SubmitChainRecord,
          SubmitChainRelease, CatchSent, Fail, FailRelease, FailRecord
    <2>4. wire' = wire \/ \E s \in Submits : Submit(s)
      BY OthersLeaveSubmissions DEF Next, Fail, FailRelease, FailRecord
    <2>5. (UNCHANGED intent /\ pc'[intent] \in Failing) \/ \E s \in Submits : Submit(s) \/ Fail(s)
      BY <1>1, <2>1, <2>2, OthersLeaveBuilds DEF Next
    <2> QED
      BY <1>1, <2>3, <2>4, <2>5 DEF NeverSent
  <1>2. CASE lock # None /\ pc[lock] \in Failing
    <2>1. lock \in Submits
      BY <1>2
    <2>2. ASSUME NEW s \in Submits, Submit(s)
          PROVE  UNCHANGED <<lock, wire>> /\ pc'[lock] \in Failing
      <3>1. pc[s] \notin Failing
        BY <2>2
        DEF Failing, Submit, SubmitLoad, SubmitLock, SubmitUserSigned, SubmitRelaying,
            SubmitHeights, SubmitBroadcast, SubmitSubmitted, SubmitConfirm, SubmitConfirmed,
            SubmitChainRecord, SubmitChainRelease, CatchSent
      <3>2. s # lock /\ pc[s] \in {"idle", "lock"}
        <4>1. s # lock
          BY <1>2, <3>1
        <4>2. pc[s] \in {"idle"} \cup SubmitPlaces
          BY <2>2
          DEF SubmitPlaces, Submit, SubmitLoad, SubmitLock, SubmitUserSigned, SubmitRelaying,
              SubmitHeights, SubmitBroadcast, SubmitSubmitted, SubmitConfirm, SubmitConfirmed,
              SubmitChainRecord, SubmitChainRelease, CatchSent
        <4> QED
          BY <4>1, <4>2 DEF InOrder
      <3>3. SubmitLoad(s) \/ SubmitLock(s)
        BY <2>2, <3>2
        DEF Submit, SubmitUserSigned, SubmitRelaying, SubmitHeights,
            SubmitBroadcast, SubmitSubmitted, SubmitConfirm, SubmitConfirmed,
            SubmitChainRecord, SubmitChainRelease, CatchSent
      <3> QED
        BY <1>2, <2>1, <3>2, <3>3 DEF SubmitLoad, SubmitLock
    <2>3. ASSUME NEW s \in Submits, Fail(s)
          PROVE  UNCHANGED <<lock, wire>> /\ pc'[lock] \in Failing
      BY <1>2, <2>1, <2>3 DEF Failing, Fail, FailRelease, FailRecord
    <2>4. CASE UNCHANGED <<lock, wire>> /\ \A s \in Submits : pc'[s] = pc[s]
      BY <1>2, <2>1, <2>4 DEF NeverSent
    <2> QED
      BY <1>2, <2>2, <2>3, <2>4, OthersLeaveSubmissions DEF Next, NeverSent
  <1> QED
    BY <1>1, <1>2 DEF NeverSent

\* The result on chain is final, and so is Relay's failure.
LEMMA ResultsStay ==
  ASSUME TypeOK, [Next]_vars
  PROVE  /\ landed # "none" => UNCHANGED landed
         /\ relay = "failure" => UNCHANGED relay
  <1>1. CASE NextBlock \/ UNCHANGED vars
    BY <1>1 DEF NextBlock, vars
  <1>2. CASE Land
    BY <1>2 DEF Land
  <1>3. CASE RelayStep
    BY <1>3, ConstantsAssumption DEF RelayStep, RelayFollows
  <1> QED
    BY <1>1, <1>2, <1>3, HandlersLeaveTheChain DEF Next

\* What has come to nothing comes to nothing for good.
LEMMA HopelessStays ==
  ASSUME Sound, TypeOK, InOrder, Hopeless, [Next]_vars
  PROVE  Hopeless'
  BY NeverSentStays, ResultsStay DEF Hopeless

\* A handler in its catch clause fails what was never sent, or failed on chain.
LEMMA FailingIsHopeless ==
  ASSUME TypeOK, OneBuildSigns, LockHolderBroadcasts, InOrder, WellInformed,
         NEW h \in Builds \cup Submits,
         pc[h] \in {"fail_release", "fail_record"},
         h \in Builds => intent = h
  PROVE  landed = "err" \/ NeverSent
  <1>1. CASE h \in Submits
    BY <1>1, ConstantsAssumption
    DEF InOrder, SubmitPlaces, WellInformed, NeverSent, Failing, Handler
  <1>2. CASE h \in Builds
    <2>1. lock = None
      BY <1>2 DEF InOrder, Answered
    <2>2. wire = {}
      BY <2>1, ConstantsAssumption DEF LockHolderBroadcasts, TypeOK, Handler
    <2> QED
      BY <1>2, <2>2, ConstantsAssumption DEF NeverSent, Failing, Handler
  <1> QED
    BY <1>1, <1>2

\* Nothing is recorded as failed, or about to be, before it is hopeless.
LEMMA FailedMeansHopeless ==
  ASSUME Sound, TypeOK, OneBuildSigns, LockHolderBroadcasts, InOrder, WellInformed,
         SettledForGood, [Next]_vars
  PROVE  /\ \A p \in Polls : pc'[p] = "heal" => Hopeless'
         /\ record'.status \in {"failed", "expired"} \/ record'.failedAt => Hopeless'
  <1>1. CASE Hopeless
    BY <1>1, HopelessStays
  <1>2. CASE ~Hopeless
    <2> DEFINE Unfailed == /\ \A p \in Polls : pc'[p] # "heal"
                           /\ record'.status \notin {"failed", "expired"}
                           /\ ~record'.failedAt
    <2> SUFFICES Unfailed
      OBVIOUS
    <2>1. /\ \A p \in Polls : pc[p] # "heal"
          /\ record.status \notin {"failed", "expired"} /\ ~record.failedAt
      BY <1>2 DEF SettledForGood
    <2>2. record \in DurableRecord /\ pc \in [Handler -> Places]
      BY DEF TypeOK
    <2> USE ConstantsAssumption
        DEF Handler, Goto, DurableRecord, storeVars, chainVars, SetStatuses, SetFailed,
            SetSubmitted
    <2>3. ASSUME NEW b \in Builds, Build(b)
          PROVE  Unfailed
      BY <2>1, <2>2, <2>3
      DEF Build, BuildLoad, BuildLock, BuildReserve, BuildIntent, BuildCreate, BuildSign,
          BuildActivate
    <2>4. ASSUME NEW s \in Submits, Submit(s)
          PROVE  Unfailed
      <3>1. CASE SubmitLoad(s) \/ SubmitLock(s) \/ SubmitUserSigned(s) \/ SubmitRelaying(s)
        BY <2>1, <2>2, <3>1 DEF SubmitLoad, SubmitLock, SubmitUserSigned, SubmitRelaying
      <3>2. CASE SubmitHeights(s) \/ SubmitBroadcast(s) \/ SubmitSubmitted(s)
        BY <2>1, <2>2, <3>2 DEF SubmitHeights, SubmitBroadcast, SubmitSubmitted
      <3>3. CASE SubmitConfirm(s) \/ SubmitConfirmed(s)
        BY <2>1, <2>2, <3>3 DEF SubmitConfirm, SubmitConfirmed
      <3>4. CASE SubmitChainRecord(s)
        BY <1>2, <3>4 DEF SubmitChainRecord, WellInformed, Hopeless
      <3>5. CASE SubmitChainRelease(s) \/ CatchSent(s)
        BY <2>1, <2>2, <3>5 DEF SubmitChainRelease, CatchSent
      <3> QED
        BY <2>4, <3>1, <3>2, <3>3, <3>4, <3>5 DEF Submit
    <2>5. ASSUME NEW h \in Builds \cup Submits, Fail(h)
          PROVE  Unfailed
      <3>1. CASE FailRelease(h)
        BY <2>1, <2>2, <3>1 DEF FailRelease
      <3>2. CASE FailRecord(h)
        <4>1. h \in Builds => intent = h
          BY <3>2 DEF FailRecord, InOrder
        <4> QED
          BY <1>2, <3>2, <4>1, FailingIsHopeless DEF FailRecord, Hopeless
      <3> QED
        BY <2>5, <3>1, <3>2 DEF Fail
    <2>6. ASSUME NEW p \in Polls, Poll(p)
          PROVE  Unfailed
      <3>1. CASE PollLoad(p)
        BY <2>1, <2>2, <3>1 DEF PollLoad, FailedForGood
      <3>2. CASE PollHeal(p)
        BY <2>1, <3>2 DEF PollHeal
      <3>3. CASE PollAnswered(p) \/ PollUnknown(p)
        BY <2>1, <2>2, <3>3 DEF PollAnswered, PollUnknown, Learn, Rest
      <3>4. CASE PollWrite(p)
        <4>1. /\ held[p].status \notin {"failed", "expired"}
              /\ held[p].cross # "failed"
          BY <1>2, <3>4 DEF PollWrite, WellInformed, Hopeless
        <4> QED
          BY <2>1, <2>2, <3>4, <4>1 DEF PollWrite, Rest
      <3>5. CASE PollRelease(p)
        BY <2>1, <2>2, <3>5 DEF PollRelease, Rest
      <3> QED
        BY <2>6, <3>1, <3>2, <3>3, <3>4, <3>5 DEF Poll
    <2>7. CASE NextBlock \/ Land \/ RelayStep \/ UNCHANGED vars
      BY <2>1, <2>7 DEF NextBlock, Land, RelayStep, vars
    <2> QED
      BY <2>3, <2>4, <2>5, <2>6, <2>7 DEF Next, Sound
  <1> QED
    BY <1>1, <1>2

\* The reservation of the quote's transaction.
Released == intent # None /\ exposure[intent] = "released"
Over == landed # "none" \/ NeverSent

\* It is not given back before the transaction has landed or was given up.
LEMMA ReleasedMeansOver ==
  ASSUME Sound, TypeOK, OneBuildSigns, LockHolderBroadcasts, InOrder, WellInformed,
         Released => Over, [Next]_vars
  PROVE  Released' => Over'
  <1>1. CASE Over
    BY <1>1, NeverSentStays, ResultsStay DEF Over
  <1>2. CASE ~Over
    <2>1. ~Released
      BY <1>2
    <2> SUFFICES ~Released'
      OBVIOUS
    <2> USE ConstantsAssumption DEF Handler, TypeOK, Goto, Released, storeVars, chainVars
    <2>2. ASSUME NEW b \in Builds, Build(b)
          PROVE  ~Released'
      <3>1. CASE BuildReserve(b)
        BY <2>1, <3>1 DEF BuildReserve
      <3>2. CASE BuildIntent(b)
        BY <2>1, <3>2 DEF BuildIntent, InOrder
      <3>3. CASE UNCHANGED <<intent, exposure>>
        BY <2>1, <3>3
      <3> QED
        BY <2>2, <3>1, <3>2, <3>3
        DEF Build, BuildLoad, BuildLock, BuildCreate, BuildSign, BuildActivate
    <2>3. ASSUME NEW s \in Submits, Submit(s)
          PROVE  ~Released'
      <3>1. CASE SubmitChainRelease(s)
        BY <1>2, <3>1 DEF SubmitChainRelease, WellInformed, Over
      <3>2. CASE UNCHANGED <<intent, exposure>>
        BY <2>1, <3>2
      <3> QED
        BY <2>3, <3>1, <3>2
        DEF Submit, SubmitLoad, SubmitLock, SubmitUserSigned, SubmitRelaying, SubmitHeights,
            SubmitBroadcast, SubmitSubmitted, SubmitConfirm, SubmitConfirmed,
            SubmitChainRecord, CatchSent
    <2>4. ASSUME NEW h \in Builds \cup Submits, Fail(h)
          PROVE  ~Released'
      <3>1. CASE FailRelease(h) /\ (h \in Builds => intent = h)
        BY <1>2, <3>1, FailingIsHopeless DEF FailRelease, Over
      <3>2. CASE FailRelease(h) /\ h \in Builds /\ intent # h
        BY <2>1, <3>2 DEF FailRelease, GiveBack, TransactionOf
      <3>3. CASE FailRecord(h)
        BY <2>1, <3>3 DEF FailRecord
      <3> QED
        BY <2>4, <3>1, <3>2, <3>3 DEF Fail
    <2>5. ASSUME NEW p \in Polls, Poll(p)
          PROVE  ~Released'
      <3>1. CASE PollRelease(p)
        BY <1>2, <3>1 DEF PollRelease, WellInformed, Over
      <3>2. CASE UNCHANGED <<intent, exposure>>
        BY <2>1, <3>2
      <3> QED
        BY <2>5, <3>1, <3>2
        DEF Poll, PollLoad, PollHeal, PollAnswered, PollUnknown, PollWrite
    <2>6. CASE NextBlock \/ Land \/ RelayStep \/ UNCHANGED vars
      BY <2>1, <2>6 DEF NextBlock, Land, RelayStep, vars
    <2> QED
      BY <2>2, <2>3, <2>4, <2>5, <2>6 DEF Next, Sound
  <1> QED
    BY <1>1, <1>2

\* Every step keeps what is settled settled, with the invariants that rest on it.
LEMMA SettledInvariant ==
  ASSUME Sound
  PROVE  Spec => [](WellInformed /\ InOrder /\ LockHolderBroadcasts /\ SettledForGood)
  <1>1. Init => SettledForGood
    BY DEF Init, SettledForGood, NoRecord, Handler
  <1>2. TypeOK /\ OneBuildSigns /\ LockHolderBroadcasts /\ InOrder /\ WellInformed
          /\ SettledForGood /\ [Next]_vars => SettledForGood'
    <2> SUFFICES ASSUME TypeOK, OneBuildSigns, LockHolderBroadcasts, InOrder, WellInformed,
                        SettledForGood, [Next]_vars
                 PROVE  SettledForGood'
      OBVIOUS
    <2>1. Released => Over
      BY DEF Released, Over, SettledForGood
    <2>2. Released' => Over'
      BY <2>1, ReleasedMeansOver
    <2> QED
      BY <2>2, FailedMeansHopeless DEF Released, Over, SettledForGood
  <1> QED
    BY <1>1, <1>2, TypeCorrect, OneBuildSignsInvariant, LockHolderInvariant, InOrderInvariant,
       WellInformedInvariant, PTL DEF Spec

\* What was never sent is the user's to send, or nobody's.
LEMMA NeverSentIsTheUsers ==
  ASSUME HandedOut, NeverSent
  PROVE  LeftToUser \/ (landed = "none" /\ ~MayStillLand)
  <1>1. CASE intent # None /\ pc[intent] \in Failing
    <2>1. ~Answered
      BY <1>1 DEF Answered, Failing
    <2> QED
      BY <2>1 DEF HandedOut, MayStillLand
  <1>2. CASE lock # None /\ pc[lock] \in Failing
    BY <1>2 DEF NeverSent, LeftToUser, Failing
  <1> QED
    BY <1>1, <1>2 DEF NeverSent

(***************************************************************************)
(* The reservation of a quote's transaction is given back only when that   *)
(* transaction has landed or cannot land any more, or when the server has  *)
(* given it up before any broadcast, so that only the user can land it.    *)
(***************************************************************************)
THEOREM ReleasesSettled ==
  ASSUME Sound
  PROVE  Spec => []ReleasedIsSettled
  <1>1. HandedOut /\ SettledForGood => ReleasedIsSettled
    <2> SUFFICES ASSUME HandedOut, SettledForGood,
                        NEW b \in Builds, intent = b, exposure[b] = "released"
                 PROVE  ~MayStillLand \/ LeftToUser
      BY DEF ReleasedIsSettled
    <2>1. landed # "none" \/ NeverSent
      BY ConstantsAssumption DEF SettledForGood, Handler
    <2>2. CASE landed # "none"
      BY <2>2 DEF MayStillLand
    <2>3. CASE NeverSent
      BY <2>3, NeverSentIsTheUsers
    <2> QED
      BY <2>1, <2>2, <2>3
  <1> QED
    BY <1>1, HandedOutInvariant, SettledInvariant, PTL

(***************************************************************************)
(* A transfer is recorded as failed only when Relay failed it, when its    *)
(* source transaction has not left Solana and never will, or when the      *)
(* server has given it up before any broadcast: what the user does with    *)
(* his bytes then is not on record.                                        *)
(***************************************************************************)
THEOREM FailuresStayHome ==
  ASSUME Sound
  PROVE  Spec => []FailedNeverLeaves
  <1>1. HandedOut /\ SettledForGood => FailedNeverLeaves
    <2> SUFFICES ASSUME HandedOut, SettledForGood, record.status = "failed"
                 PROVE  relay = "failure" \/ (landed # "ok" /\ ~MayStillLand) \/ LeftToUser
      BY DEF FailedNeverLeaves
    <2>1. Hopeless
      BY DEF SettledForGood
    <2>2. CASE landed = "err"
      BY <2>2 DEF MayStillLand
    <2>3. CASE NeverSent
      BY <2>3, NeverSentIsTheUsers
    <2> QED
      BY <2>1, <2>2, <2>3 DEF Hopeless
  <1> QED
    BY <1>1, HandedOutInvariant, SettledInvariant, PTL
=============================================================================
