------------------------ MODULE CleanSubmissionProofs ------------------------
(***************************************************************************)
(* Theorems about the observation of a signature, for any finite number of *)
(* providers, any lag of each, any bounds and any failures of requests.    *)
(* None of them uses the fairness of Spec.                                 *)
(***************************************************************************)
EXTENDS CleanSubmission, TLAPS

\* The answers a provider can give are answers.
LEMMA AnswersAreTyped ==
  ASSUME TypeOK, NEW p \in Provider
  PROVE  /\ StatusAt(p) \subseteq StatusAnswer /\ HeightAt(p) \in HeightAnswer
         /\ Failed \in StatusAnswer /\ Failed \in HeightAnswer
         /\ Unread \in StatusAnswer /\ Unread \in HeightAnswer
  <1>1. view[p] \in Nat
    BY ConstantsAssumption DEF TypeOK
  <1>2. Absent(p) \in StatusAnswer /\ HeightAt(p) \in HeightAnswer
    BY <1>1 DEF Absent, StatusAnswer, HeightAt, HeightAnswer
  <1>3. \A r \in Result : Seen("confirmed", r) \in StatusAnswer /\ Seen("processed", r) \in StatusAnswer
    BY DEF Seen, StatusAnswer
  <1>4. StatusAt(p) \subseteq StatusAnswer
    BY <1>2, <1>3 DEF StatusAt, TypeOK
  <1> QED
    BY <1>2, <1>4 DEF StatusAnswer, HeightAnswer

LEMMA UnreadIsTyped ==
  AllUnread \in [Provider -> StatusAnswer] /\ AllUnread \in [Provider -> HeightAnswer]
  BY DEF AllUnread, StatusAnswer, HeightAnswer

LEMMA VerdictsAreTyped ==
  VerdictWithoutHeights \in Verdict /\ VerdictWithHeights \in Verdict
  BY DEF VerdictWithoutHeights, VerdictWithHeights, Verdict

LEMMA ErrorKeepsCount ==
  ASSUME errors \in 0..MaxErrors, CanFail
  PROVE  errors + 1 \in 0..MaxErrors
  BY ConstantsAssumption DEF CanFail

LEMMA ConcludeKeepsTypes ==
  ASSUME TypeOK, NEW v \in Verdict, Conclude(v)
  PROVE  TypeOK'
  <1>1. round' \in 1..MaxRounds
    BY ConstantsAssumption DEF TypeOK, Conclude
  <1> QED
    BY <1>1, UnreadIsTyped DEF TypeOK, Conclude, chainVars

\* Every state of the observation is a state of the declared types.
THEOREM TypeCorrect == Spec => []TypeOK
  <1>1. Init => TypeOK
    <2>1. 0 \in 0..MaxHeight /\ 0 \in 0..MaxErrors /\ 1 \in 1..MaxRounds
      BY ConstantsAssumption
    <2> QED
      BY <2>1, UnreadIsTyped DEF Init, TypeOK
  <1>2. TypeOK /\ [Next]_vars => TypeOK'
    <2> SUFFICES ASSUME TypeOK, [Next]_vars
                 PROVE  TypeOK'
      OBVIOUS
    <2>1. ASSUME NEW p \in Provider, ReadStatus(p)
          PROVE  TypeOK'
      <3>1. PICK a \in StatusAnswer : status' = Answered(status, p, a)
        BY <2>1, AnswersAreTyped DEF ReadStatus
      <3>2. status' \in [Provider -> StatusAnswer]
        BY <3>1 DEF Answered, TypeOK
      <3>3. errors' \in 0..MaxErrors
        BY <2>1, ErrorKeepsCount DEF ReadStatus, TypeOK
      <3> QED
        BY <2>1, <3>2, <3>3 DEF ReadStatus, TypeOK, chainVars
    <2>2. ASSUME NEW p \in Provider, ReadHeight(p)
          PROVE  TypeOK'
      <3>1. PICK a \in HeightAnswer : clock' = Answered(clock, p, a)
        BY <2>2, AnswersAreTyped DEF ReadHeight
      <3>2. clock' \in [Provider -> HeightAnswer]
        BY <3>1 DEF Answered, TypeOK
      <3>3. errors' \in 0..MaxErrors
        BY <2>2, ErrorKeepsCount DEF ReadHeight, TypeOK
      <3> QED
        BY <2>2, <3>2, <3>3 DEF ReadHeight, TypeOK, chainVars
    <2>3. CASE ConcludeFromStatuses \/ ConcludeFromHeights
      BY <2>3, ConcludeKeepsTypes, VerdictsAreTyped DEF ConcludeFromStatuses, ConcludeFromHeights
    <2>4. CASE AskHeights
      BY <2>4 DEF AskHeights, TypeOK, chainVars
    <2>5. CASE StartRound
      BY <2>5, UnreadIsTyped DEF StartRound, TypeOK, chainVars
    <2>6. CASE Broadcast \/ ObserveAgain
      BY <2>6 DEF Broadcast, ObserveAgain, TypeOK, chainVars
    <2>7. CASE ObservationThrows
      BY <2>7, ErrorKeepsCount, UnreadIsTyped DEF ObservationThrows, TypeOK, chainVars
    <2>8. CASE Execute
      BY <2>8 DEF Execute, TypeOK
    <2>9. CASE NextBlock
      <3>1. height' \in 0..MaxHeight
        BY <2>9, ConstantsAssumption DEF NextBlock, TypeOK
      <3> QED
        BY <2>9, <3>1 DEF NextBlock, TypeOK
    <2>10. ASSUME NEW p \in Provider, CatchUp(p)
           PROVE  TypeOK'
      <3>1. view' \in [Provider -> 0..MaxHeight]
        BY <2>10 DEF CatchUp, TypeOK
      <3> QED
        BY <2>10, <3>1 DEF CatchUp, TypeOK, chainVars
    <2>11. CASE UNCHANGED vars
      BY <2>11 DEF vars, TypeOK
    <2> QED
      BY <2>1, <2>2, <2>3, <2>4, <2>5, <2>6, <2>7, <2>8, <2>9, <2>10, <2>11
      DEF Next, Observer, Cluster
  <1> QED
    BY <1>1, <1>2, PTL DEF Spec

-----------------------------------------------------------------------------
(***************************************************************************)
(* What the observer knows is true of the chain: an answer that says       *)
(* confirmed stays true, and no provider ever reports a height the chain   *)
(* has not reached.                                                        *)
(***************************************************************************)
Informed ==
  /\ \A p \in Provider : status[p].kind = "confirmed" => landed # "none"
  /\ \A p \in Provider : view[p] <= height
  /\ \A p \in Provider : clock[p].kind = "height" => clock[p].value <= height
  /\ outcome = "confirmed_success" => landed # "none"
  /\ outcome = "expired" => height > LastValid
  /\ pending # "none" => height < LastValid

\* The verdicts are drawn from what is known.
LEMMA VerdictsAreTrue ==
  ASSUME TypeOK, Informed
  PROVE  /\ SuccessSeen => landed # "none"
         /\ AllProvidersExpired => height > LastValid
  <1>1. ASSUME AllProvidersExpired
        PROVE  height > LastValid
    <2>1. PICK p \in Provider : TRUE
      BY ConstantsAssumption
    <2>2. clock[p].kind = "height" /\ clock[p].value > LastValid
      BY <1>1 DEF AllProvidersExpired
    <2>3. clock[p].value \in Nat /\ clock[p].value <= height
      BY <2>2 DEF TypeOK, Informed, HeightAnswer, Unread, Failed
    <2> QED
      BY <2>2, <2>3, ConstantsAssumption DEF TypeOK
  <1> QED
    BY <1>1 DEF SuccessSeen, Informed

LEMMA ConcludeStaysInformed ==
  ASSUME TypeOK, Informed, NEW v, Conclude(v),
         v = "confirmed_success" => landed # "none",
         v = "expired" => height > LastValid
  PROVE  Informed'
  <1>1. \A p \in Provider : status'[p].kind = "unread" /\ clock'[p].kind = "unread"
    BY DEF Conclude, AllUnread, Unread
  <1> QED
    BY <1>1 DEF Conclude, Informed, chainVars

THEOREM StaysInformed == Spec => []Informed
  <1>1. Init => Informed
    BY ConstantsAssumption DEF Init, Informed, AllUnread, Unread
  <1>2. TypeOK /\ Informed /\ [Next]_vars => Informed'
    <2> SUFFICES ASSUME TypeOK, Informed, [Next]_vars
                 PROVE  Informed'
      OBVIOUS
    <2>1. ASSUME NEW p \in Provider, ReadStatus(p)
          PROVE  Informed'
      <3>1. PICK a \in StatusAnswer : /\ status' = Answered(status, p, a)
                                      /\ a.kind = "confirmed" => landed # "none"
        <4>1. \A a \in StatusAt(p) : a.kind = "confirmed" => landed # "none"
          BY DEF StatusAt, Seen, Absent
        <4>2. Failed.kind # "confirmed"
          BY DEF Failed
        <4> QED
          BY <2>1, <4>1, <4>2, AnswersAreTyped DEF ReadStatus
      <3>2. \A q \in Provider : status'[q].kind = "confirmed" => landed # "none"
        BY <3>1 DEF Answered, TypeOK, Informed
      <3> QED
        BY <2>1, <3>2 DEF ReadStatus, Informed, chainVars
    <2>2. ASSUME NEW p \in Provider, ReadHeight(p)
          PROVE  Informed'
      <3>1. PICK a \in HeightAnswer : /\ clock' = Answered(clock, p, a)
                                      /\ a.kind = "height" => a.value <= height
        <4>1. HeightAt(p).value <= height
          BY DEF HeightAt, Informed
        <4>2. Failed.kind # "height"
          BY DEF Failed
        <4> QED
          BY <2>2, <4>1, <4>2, AnswersAreTyped DEF ReadHeight
      <3>2. \A q \in Provider : clock'[q].kind = "height" => clock'[q].value <= height
        BY <3>1 DEF Answered, TypeOK, Informed
      <3> QED
        BY <2>2, <3>2 DEF ReadHeight, Informed, chainVars
    <2>3. CASE ConcludeFromStatuses
      <3>1. Conclude(VerdictWithoutHeights) /\ VerdictWithoutHeights # "expired"
        BY <2>3 DEF ConcludeFromStatuses, VerdictWithoutHeights
      <3>2. VerdictWithoutHeights = "confirmed_success" => landed # "none"
        BY VerdictsAreTrue DEF VerdictWithoutHeights
      <3> QED
        BY <3>1, <3>2, ConcludeStaysInformed
    <2>4. CASE ConcludeFromHeights
      <3>1. Conclude(VerdictWithHeights) /\ VerdictWithHeights # "confirmed_success"
        BY <2>4 DEF ConcludeFromHeights, VerdictWithHeights
      <3>2. VerdictWithHeights = "expired" => height > LastValid
        BY VerdictsAreTrue DEF VerdictWithHeights
      <3> QED
        BY <3>1, <3>2, ConcludeStaysInformed
    <2>5. CASE AskHeights \/ Broadcast \/ ObserveAgain
      BY <2>5 DEF AskHeights, Broadcast, ObserveAgain, Informed, chainVars
    <2>6. CASE StartRound \/ ObservationThrows
      <3>1. clock' = AllUnread /\ status' \in {status, AllUnread}
        BY <2>6 DEF StartRound, ObservationThrows
      <3>2. \A p \in Provider : AllUnread[p].kind = "unread"
        BY DEF AllUnread, Unread
      <3> QED
        BY <2>6, <3>1, <3>2 DEF StartRound, ObservationThrows, Informed, chainVars
    <2>7. CASE Execute
      BY <2>7, ConstantsAssumption DEF Execute, Informed, TypeOK
    <2>8. CASE NextBlock
      <3>1. \A p \in Provider : clock[p].kind = "height" => clock[p].value \in Nat
        BY DEF TypeOK, HeightAnswer, Unread, Failed
      <3>2. /\ \A p \in Provider : view[p] <= height'
            /\ \A p \in Provider : clock[p].kind = "height" => clock[p].value <= height'
            /\ outcome = "expired" => height' > LastValid
        BY <2>8, <3>1, ConstantsAssumption DEF NextBlock, Informed, TypeOK
      <3>3. landed # "none" => landed' # "none"
        BY <2>8 DEF NextBlock
      <3> QED
        BY <2>8, <3>2, <3>3 DEF NextBlock, Informed
    <2>9. ASSUME NEW p \in Provider, CatchUp(p)
          PROVE  Informed'
      <3>1. \A q \in Provider : view'[q] <= height
        BY <2>9 DEF CatchUp, Informed, TypeOK
      <3> QED
        BY <2>9, <3>1 DEF CatchUp, Informed, chainVars
    <2>10. CASE UNCHANGED vars
      BY <2>10 DEF vars, Informed
    <2> QED
      BY <2>1, <2>2, <2>3, <2>4, <2>5, <2>6, <2>7, <2>8, <2>9, <2>10 DEF Next, Observer, Cluster
  <1> QED
    BY <1>1, <1>2, TypeCorrect, PTL DEF Spec

\* A success is a confirmed landing (see SuccessSound).
THEOREM SuccessesAreSound == Spec => []SuccessSound
  <1>1. Informed => SuccessSound
    BY DEF Informed, SuccessSound
  <1> QED
    BY <1>1, StaysInformed, PTL

\* An attempt that was declared expired before it landed never lands (see ExpiredNeverLandsLater).
THEOREM ExpiryIsFinal == Spec => ExpiredNeverLandsLater
  <1>1. TypeOK /\ Informed /\ [Next]_vars
          => [outcome = "expired" /\ landed = "none" => landed' = "none"]_vars
    <2> SUFFICES ASSUME TypeOK, Informed, Next, outcome = "expired", landed = "none"
                 PROVE  landed' = "none"
      OBVIOUS
    <2>1. CASE NextBlock
      <3>1. pending = "none"
        BY ConstantsAssumption DEF Informed, TypeOK
      <3> QED
        BY <2>1, <3>1 DEF NextBlock
    <2>2. CASE ~NextBlock
      BY <2>2 DEF Next, Observer, Cluster, ReadStatus, ReadHeight, ConcludeFromStatuses, AskHeights,
         ConcludeFromHeights, Conclude, StartRound, Broadcast, ObservationThrows, ObserveAgain,
         Execute, CatchUp, chainVars
    <2> QED
      BY <2>1, <2>2
  <1> QED
    BY <1>1, TypeCorrect, StaysInformed, PTL DEF Spec, ExpiredNeverLandsLater

(***************************************************************************)
(* What an absence means: the provider had not reached the landing when it *)
(* answered.  An answer given before the landing was given at a height the *)
(* chain had then, and a landing only ever happens at a greater one.       *)
(***************************************************************************)
AbsenceIsOld ==
  \A p \in Provider :
    status[p].kind = "absent" => /\ status[p].at \in Nat /\ status[p].at <= height
                                 /\ landed # "none" => status[p].at < landedAt

\* An answer that a provider gives is about what it has reached.
LEMMA ReadingIsOld ==
  ASSUME TypeOK, Informed, AbsenceIsOld, NEW p \in Provider, ReadStatus(p)
  PROVE  AbsenceIsOld'
  <1>1. /\ view[p] \in Nat /\ height \in Nat /\ landedAt \in Nat /\ view[p] <= height
        /\ UNCHANGED <<height, landed, landedAt>>
    BY ConstantsAssumption DEF TypeOK, Informed, ReadStatus, chainVars
  <1>2. PICK a : /\ status' = Answered(status, p, a)
                 /\ a.kind = "absent" => /\ a.at = view[p]
                                         /\ landed # "none" => view[p] < landedAt
    <2>1. ASSUME NEW a \in StatusAt(p), a.kind = "absent"
          PROVE  a.at = view[p] /\ (landed # "none" => view[p] < landedAt)
      <3>1. \A l \in {"confirmed", "processed"}, r \in Result : Seen(l, r).kind # "absent"
        BY DEF Seen
      <3>2. landed \in Result \cup {"none"}
        BY DEF TypeOK
      <3>3. ~ (landed # "none" /\ view[p] >= landedAt)
        BY <2>1, <3>1, <3>2 DEF StatusAt
      <3>4. a = Absent(p)
        BY <2>1, <3>1, <3>3 DEF StatusAt
      <3> QED
        BY <1>1, <3>3, <3>4 DEF Absent
    <2>2. Failed.kind # "absent"
      BY DEF Failed
    <2> QED
      BY <2>1, <2>2 DEF ReadStatus
  <1>3. \A q \in Provider : status'[q] = IF q = p THEN a ELSE status[q]
    BY <1>2 DEF Answered, TypeOK
  <1> QED
    BY <1>1, <1>2, <1>3 DEF AbsenceIsOld

\* An attempt that landed is declared expired only by a race (see ExpiredOnlyByRace).
THEOREM ExpiryIsNoOversight == Spec => []ExpiredOnlyByRace
  <1>1. Init => AbsenceIsOld
    BY DEF Init, AbsenceIsOld, AllUnread, Unread
  <1>2. TypeOK /\ Informed /\ AbsenceIsOld /\ [Next]_vars => AbsenceIsOld'
    <2> SUFFICES ASSUME TypeOK, Informed, AbsenceIsOld, [Next]_vars
                 PROVE  AbsenceIsOld'
      OBVIOUS
    <2>1. CASE status' = AllUnread
      BY <2>1 DEF AbsenceIsOld, AllUnread, Unread
    <2>2. CASE UNCHANGED <<height, landed, landedAt, status>>
      BY <2>2 DEF AbsenceIsOld
    <2>3. CASE NextBlock
      <3>1. height \in Nat /\ height' = height + 1 /\ status' = status
        BY <2>3, ConstantsAssumption DEF NextBlock, TypeOK
      <3>2. \/ landed' = landed /\ landedAt' = landedAt
            \/ landedAt' = height'
        BY <2>3 DEF NextBlock
      <3> QED
        BY <3>1, <3>2 DEF AbsenceIsOld
    <2>4. CASE ConcludeFromStatuses \/ ConcludeFromHeights \/ ObservationThrows
      BY <2>1, <2>4 DEF ConcludeFromStatuses, ConcludeFromHeights, ObservationThrows, Conclude
    <2>5. CASE AskHeights \/ StartRound \/ Broadcast \/ ObserveAgain \/ Execute
               \/ (\E p \in Provider : ReadHeight(p) \/ CatchUp(p)) \/ UNCHANGED vars
      BY <2>2, <2>5 DEF AskHeights, StartRound, Broadcast, ObserveAgain, Execute, ReadHeight,
         CatchUp, chainVars, vars
    <2> QED
      BY <2>3, <2>4, <2>5, ReadingIsOld DEF Next, Observer, Cluster
  <1>3. AbsenceIsOld => ExpiredOnlyByRace
    <2> SUFFICES ASSUME AbsenceIsOld, VerdictWithHeights = "expired", landed # "none",
                        NEW p \in Provider
                 PROVE  status[p].kind = "absent" /\ status[p].at < landedAt
      BY DEF ExpiredOnlyByRace
    <2>1. AllStatusesAbsent
      BY DEF VerdictWithHeights
    <2> QED
      BY <2>1 DEF AllStatusesAbsent, AbsenceIsOld
  <1> QED
    BY <1>1, <1>2, <1>3, TypeCorrect, StaysInformed, PTL DEF Spec
=============================================================================
