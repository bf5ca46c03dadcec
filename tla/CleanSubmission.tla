--------------------------- MODULE CleanSubmission ---------------------------
(***************************************************************************)
(* Broadcasting one fully signed transaction and finding out what became   *)
(* of it (server/clean/submission.ts over server/solana/rpc.ts), shared by *)
(* the Claim, Burn, Recover, Send and Swap engines.                        *)
(*                                                                         *)
(* The cluster is seen through several RPC providers.  Each one lags       *)
(* behind it by an amount of its own, and an observation asks all of them  *)
(* first for the status of the signature and then, once every status has   *)
(* arrived, for the block height.  Blocks are produced, and transactions   *)
(* land, between any two of those answers.                                 *)
(***************************************************************************)
EXTENDS Integers, FiniteSets, FiniteSetsExt

CONSTANTS
  Provider,    \* the configured RPC endpoints
  LastValid,   \* lastValidBlockHeight of the prepared transaction
  Floor,       \* CLEAN_BROADCAST_SAFETY_FLOOR_BLOCKS
  MaxRounds,   \* CLEAN_BROADCAST_MAX_ROUNDS
  MaxHeight,   \* bound: the last block of the run
  MaxErrors    \* bound: how many requests fail in a run

ASSUME ConstantsAssumption ==
  /\ IsFiniteSet(Provider) /\ Provider # {}
  /\ LastValid \in Nat /\ Floor \in Nat /\ MaxErrors \in Nat
  /\ MaxRounds \in Nat \ {0}
  /\ MaxHeight \in Nat /\ MaxHeight > LastValid

Result == {"ok", "err"}      \* how the program ended the transaction
Verdict == {"confirmed_success", "confirmed_chain_error", "expired", "timeout_unknown"}

VARIABLES
  height,    \* the cluster's confirmed block height
  pending,   \* its result in the block being voted on, or "none"
  landed,    \* its result on the confirmed chain, or "none"
  landedAt,  \* the height it landed at
  view,      \* the height each provider has reached
  sent,      \* whether the bytes were ever given to a provider
  errors,    \* failed requests so far
  pc,        \* what the observer does: heights, broadcast, statuses, clocks, idle
  round,     \* ordinal of the broadcast round
  last,      \* whether this observation is not followed by another round
  status,    \* the answers to getSignatureStatuses, by provider
  clock,     \* the answers to getBlockHeight, by provider
  outcome    \* the verdict of the latest observation

chainVars == <<height, pending, landed, landedAt>>
vars == <<height, pending, landed, landedAt, view, sent, errors, pc, round, last,
          status, clock, outcome>>

Unread == [kind |-> "unread"]
Failed == [kind |-> "error"]
Absent(p) == [kind |-> "absent", at |-> view[p]]
Seen(level, r) == [kind |-> level, result |-> r]

\* "at" is the context slot an answer carries; the code drops it.
StatusAnswer == {Unread, Failed}
                  \cup [kind : {"absent"}, at : Nat]
                  \cup [kind : {"processed", "confirmed"}, result : Result]
HeightAnswer == {Unread, Failed} \cup [kind : {"height"}, value : Nat]

TypeOK ==
  /\ height \in 0..MaxHeight
  /\ pending \in Result \cup {"none"} /\ landed \in Result \cup {"none"}
  /\ landedAt \in 0..MaxHeight
  /\ view \in [Provider -> 0..MaxHeight]
  /\ sent \in BOOLEAN /\ last \in BOOLEAN
  /\ errors \in 0..MaxErrors
  /\ pc \in {"heights", "broadcast", "statuses", "clocks", "idle"}
  /\ round \in 1..MaxRounds
  /\ status \in [Provider -> StatusAnswer]
  /\ clock \in [Provider -> HeightAnswer]
  /\ outcome \in Verdict \cup {"none"}

-----------------------------------------------------------------------------
AllUnread == [p \in Provider |-> Unread]

Init ==
  /\ height = 0 /\ pending = "none" /\ landed = "none" /\ landedAt = 0
  /\ view = [p \in Provider |-> 0]
  /\ sent = FALSE /\ errors = 0
  /\ pc = "heights" /\ round = 1 /\ last = FALSE
  /\ status = AllUnread /\ clock = AllUnread
  /\ outcome = "none"

(***************************************************************************)
(* The cluster.  A transaction whose bytes were sent may be executed in    *)
(* the next block while that block is one its blockhash is valid for.      *)
(* The block is confirmed, or its fork is dropped and the transaction      *)
(* with it.  Nothing executes twice: the cluster knows the signature.      *)
(***************************************************************************)
Execute ==
  /\ sent /\ landed = "none" /\ pending = "none"
  /\ height + 1 <= LastValid
  /\ pending' \in Result
  /\ UNCHANGED <<height, landed, landedAt, view, sent, errors, pc, round, last,
                 status, clock, outcome>>

NextBlock ==
  /\ height < MaxHeight
  /\ height' = height + 1
  /\ pending' = "none"
  /\ \/ /\ pending # "none"
        /\ landed' = pending /\ landedAt' = height'
     \/ UNCHANGED <<landed, landedAt>>      \* an empty block, or a dropped fork
  /\ UNCHANGED <<view, sent, errors, pc, round, last, status, clock, outcome>>

CatchUp(p) ==
  /\ view[p] < height
  /\ view' = [view EXCEPT ![p] = height]
  /\ UNCHANGED <<chainVars, sent, errors, pc, round, last, status, clock, outcome>>

(***************************************************************************)
(* What a provider can answer.  What it has confirmed it reports; what it  *)
(* has only processed, or has yet to hear of, it may report either way.    *)
(***************************************************************************)
StatusAt(p) ==
  IF landed # "none" /\ view[p] >= landedAt
    THEN {Seen("confirmed", landed)}
    ELSE {Absent(p)} \cup {Seen("processed", r) : r \in {pending, landed} \cap Result}

HeightAt(p) == [kind |-> "height", value |-> view[p]]

\* One answer of a Promise.all: every request is under way, each answers in its own time.
Answered(answers, p, a) == [answers EXCEPT ![p] = a]
AllRead(answers) == \A p \in Provider : answers[p] # Unread

CanFail == errors < MaxErrors

ReadStatus(p) ==
  /\ pc = "statuses" /\ status[p] = Unread
  /\ \/ /\ \E a \in StatusAt(p) : status' = Answered(status, p, a)
        /\ UNCHANGED errors
     \/ /\ CanFail
        /\ status' = Answered(status, p, Failed) /\ errors' = errors + 1
  /\ UNCHANGED <<chainVars, view, sent, pc, round, last, clock, outcome>>

ReadHeight(p) ==
  /\ pc \in {"heights", "clocks"} /\ clock[p] = Unread
  /\ \/ /\ clock' = Answered(clock, p, HeightAt(p))
        /\ UNCHANGED errors
     \/ /\ CanFail
        /\ clock' = Answered(clock, p, Failed) /\ errors' = errors + 1
  /\ UNCHANGED <<chainVars, view, sent, pc, round, last, status, outcome>>

-----------------------------------------------------------------------------
\* Fault: a processed status is taken for a success.
ProcessedSeen ==
  \E p \in Provider :
    \/ status[p].kind = "confirmed"
    \/ status[p].kind = "processed" /\ status[p].result = "ok"

(***************************************************************************)
(* observeCleanSignature.  What it concludes from the answers.             *)
(***************************************************************************)
ReadableHeights == {clock[p].value : p \in {q \in Provider : clock[q].kind = "height"}}

SuccessSeen == \E p \in Provider : status[p].kind = "confirmed"
ErrorSeen == \E p \in Provider : status[p].kind = "processed" /\ status[p].result = "err"

\* Fault: one provider's absence is enough.
SomeStatusAbsent == \E p \in Provider : status[p].kind = "absent"

AllStatusesAbsent == \A p \in Provider : status[p].kind = "absent"

\* Fault: the broadcast floor is applied to the expiry as well.
AllProvidersInFloor ==
  \A p \in Provider : clock[p].kind = "height" /\ clock[p].value + Floor > LastValid

AllProvidersExpired ==
  \A p \in Provider : clock[p].kind = "height" /\ clock[p].value > LastValid

VerdictWithoutHeights ==
  IF SuccessSeen THEN "confirmed_success" ELSE "confirmed_chain_error"

VerdictWithHeights ==
  IF AllStatusesAbsent /\ AllProvidersExpired THEN "expired" ELSE "timeout_unknown"

(***************************************************************************)
(* What follows a verdict in broadcastAndConfirmClean: the next round,     *)
(* when the outcome is still unknown and rounds are left.                  *)
(***************************************************************************)
Conclude(v) ==
  /\ outcome' = v
  /\ status' = AllUnread /\ clock' = AllUnread
  /\ IF v = "timeout_unknown" /\ ~last /\ round < MaxRounds
       THEN pc' = "heights" /\ round' = round + 1
       ELSE pc' = "idle" /\ round' = round
  /\ UNCHANGED <<chainVars, view, sent, errors, last>>

\* A success or an error decides without asking for heights.
ConcludeFromStatuses ==
  /\ pc = "statuses" /\ AllRead(status)
  /\ SuccessSeen \/ ErrorSeen
  /\ Conclude(VerdictWithoutHeights)

AskHeights ==
  /\ pc = "statuses" /\ AllRead(status)
  /\ ~SuccessSeen /\ ~ErrorSeen
  /\ pc' = "clocks"
  /\ UNCHANGED <<chainVars, view, sent, errors, round, last, status, clock, outcome>>

ConcludeFromHeights ==
  /\ pc = "clocks" /\ AllRead(clock)
  /\ Conclude(VerdictWithHeights)

(***************************************************************************)
(* broadcastAndConfirmClean: a round goes ahead while the highest height   *)
(* any provider reports leaves Floor blocks; otherwise one last            *)
(* observation ends the attempt without another broadcast.                 *)
(***************************************************************************)
HasMargin ==
  ReadableHeights # {} /\ LastValid - Max(ReadableHeights) >= Floor

StartRound ==
  /\ pc = "heights" /\ AllRead(clock)
  /\ IF HasMargin THEN pc' = "broadcast" /\ last' = FALSE
                  ELSE pc' = "statuses" /\ last' = TRUE
  /\ clock' = AllUnread
  /\ UNCHANGED <<chainVars, view, sent, errors, round, status, outcome>>

(***************************************************************************)
(* broadcastRawTransactionAcrossProviders.  Every answer leads to the same *)
(* observation: a rejection or a timeout does not say the bytes were not   *)
(* forwarded.                                                              *)
(***************************************************************************)
Broadcast ==
  /\ pc = "broadcast"
  /\ sent' = TRUE
  /\ pc' = "statuses"
  /\ UNCHANGED <<chainVars, view, errors, round, last, status, clock, outcome>>

(***************************************************************************)
(* The observation throws: an endpoint turns out to be on another cluster, *)
(* or the durable store fails to record what was seen.  The caller gets no *)
(* verdict.                                                                *)
(***************************************************************************)
ObservationThrows ==
  /\ pc # "idle" /\ CanFail
  /\ errors' = errors + 1
  /\ pc' = "idle" /\ status' = AllUnread /\ clock' = AllUnread
  /\ UNCHANGED <<chainVars, view, sent, round, last, outcome>>

\* Fault: an observation that threw is not asked for again.
OpenUnlessThrown(v) == v = "timeout_unknown"

(***************************************************************************)
(* Another look at a signature whose fate is open: a turn of the loop of   *)
(* confirmCleanSignature, or a status request of the client.               *)
(***************************************************************************)
Open(v) == v \in {"none", "timeout_unknown"}

ObserveAgain ==
  /\ pc = "idle" /\ Open(outcome)
  /\ pc' = "statuses" /\ last' = TRUE
  /\ UNCHANGED <<chainVars, view, sent, errors, round, status, clock, outcome>>

Observer ==
  \/ \E p \in Provider : ReadStatus(p) \/ ReadHeight(p)
  \/ ConcludeFromStatuses \/ AskHeights \/ ConcludeFromHeights
  \/ StartRound \/ Broadcast \/ ObservationThrows \/ ObserveAgain

Cluster == Execute \/ NextBlock \/ \E p \in Provider : CatchUp(p)

Next == Observer \/ Cluster

(***************************************************************************)
(* Fairness.  Every request ends (each has a time limit of its own) and    *)
(* the loops go on; the client asks again while the answer is pending.     *)
(* Blocks are produced and providers follow.  That a transaction executes  *)
(* is not assumed.                                                         *)
(***************************************************************************)
Fairness ==
  /\ WF_vars(Observer)
  /\ WF_vars(NextBlock)
  /\ \A p \in Provider : WF_vars(CatchUp(p))

Spec == Init /\ [][Next]_vars /\ Fairness

-----------------------------------------------------------------------------
(***************************************************************************)
(* A success is a confirmed landing: the engines account for it and close  *)
(* the attempt.                                                            *)
(***************************************************************************)
SuccessSound == outcome = "confirmed_success" => landed # "none"

(***************************************************************************)
(* Once an attempt is declared expired its bytes can never land any more,  *)
(* however late a provider delivers them: what happened is settled, and    *)
(* the sponsorship given back is not owed for a later landing.             *)
(***************************************************************************)
ExpiredNeverLandsLater ==
  [][outcome = "expired" /\ landed = "none" => landed' = "none"]_vars

(***************************************************************************)
(* An attempt that landed is declared expired only by a race: every        *)
(* provider's status answer was given before that provider had reached the *)
(* landing.  No answer that already knew of it was overlooked.             *)
(***************************************************************************)
ExpiredOnlyByRace ==
  (pc = "clocks" /\ AllRead(clock) /\ VerdictWithHeights = "expired" /\ landed # "none") =>
    \A p \in Provider : status[p].kind = "absent" /\ status[p].at < landedAt

(***************************************************************************)
(* The fate of the attempt is found out in the end: once requests stop     *)
(* failing, asking again leads to a verdict, whether it landed or not.     *)
(***************************************************************************)
EventuallyDecided == <>[](outcome \in Verdict \ {"timeout_unknown"})
=============================================================================
