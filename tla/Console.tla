------------------------------- MODULE Console -------------------------------
(***************************************************************************)
(* One panel of the page (src/src/features): Claim, Burn, Recover, Send,   *)
(* Swap or Cross-chain, with the wallet account the page shows, the quote  *)
(* requests in flight and the one asynchronous submission its signing lock *)
(* admits.  React state is `view`, refs are `lock` and `gen`, local        *)
(* storage is `pending`; every await is a point where the user, another    *)
(* continuation or the server may act.  The server is what the panel can   *)
(* see of it: it answers, refuses, or its answer is lost.  A time limit    *)
(* (quote expiry, signing window) is a choice; block heights are `left`.   *)
(***************************************************************************)
EXTENDS Naturals, Sequences

CONSTANTS Kinds,      \* the panels the run looks at
          Wallets, NoWallet,
          Inputs, NoInput,   \* what a form or a selection can hold
          Batches,    \* approvals one Claim asks for
          MaxQuotes, MaxMoves, MaxScans, MaxLosses   \* bounds

ASSUME KindsAssumption == Kinds \subseteq {"claim", "burn", "recover", "send", "swap", "bridge"}

VARIABLES kind,       \* which panel this is
          account,    \* wallet.account, and liveWalletAddress.current
          form,       \* the inputs, or the selected token account
          view,       \* [state, session, quote]: what the panel shows
          confirmed,  \* the checkbox of Burn and Recover
          lock,       \* signingLocked.current
          gen,        \* generation.current, previewGeneration.current
          armed,      \* the quote timer of Swap and Cross-chain is set
          scans,      \* discoveries under way
          asks,       \* quote requests under way
          job,        \* the submission under way
          pending,    \* localStorage: the quote submitted for a wallet
          quotes,     \* the server's quotes
          acked,      \* the quote on screen when the checkbox was ticked
          left,       \* blocks left for the prepared message: 2 safe, 1 late, 0 none
          moves, losses, scanned   \* counted against the bounds

vars == <<kind, account, form, view, confirmed, lock, gen, armed, scans, asks, job, pending,
          quotes, acked, left, moves, losses, scanned>>
budget == <<moves, losses, scanned>>
inputs == <<kind, account, form>>

NoJob == [at |-> "none", wallet |-> NoWallet, session |-> NoWallet, input |-> NoInput,
          quote |-> 0, batch |-> 0, opened |-> FALSE, next |-> "none", moved |-> FALSE]
Shows(state, session, quote) == [state |-> state, session |-> session, quote |-> quote]

(* History: `moved` says that the wallet has changed since a submission of *)
(* Swap began, `stray` that such a submission has asked for this quote.    *)
Quote(w, i, fate, stray) ==
  [wallet |-> w, input |-> i, fate |-> fate, sent |-> FALSE, lost |-> FALSE, stray |-> stray]

Remembers  == kind \in {"claim", "burn", "recover"}  \* keeps its submission in local storage
ChecksLive == kind \in {"claim", "burn", "send"}     \* compares liveWalletAddress
Guarded    == kind \in {"send", "swap", "bridge"}    \* numbers its quote requests
Timed      == kind \in {"swap", "bridge"}            \* asks for quotes on a timer
GivesBack  == ~Timed                                 \* aborts what it does not submit
Confirms   == kind \in {"burn", "recover"}           \* has a checkbox

Init ==
  /\ kind \in Kinds
  /\ account = NoWallet /\ form = NoInput /\ view = Shows("disconnected", NoWallet, 0)
  /\ confirmed = FALSE /\ lock = FALSE /\ gen = 0 /\ armed = FALSE
  /\ scans = {} /\ asks = {} /\ job = NoJob /\ quotes = <<>> /\ acked = 0 /\ left = 2
  /\ pending = [w \in Wallets |-> 0]
  /\ moves = 0 /\ losses = 0 /\ scanned = 0

Issue(w, i, fate, stray) ==
  /\ Len(quotes) < MaxQuotes
  /\ quotes' = Append(quotes, Quote(w, i, fate, stray))
Newest == Len(quotes) + 1
Fate(q) == quotes[q].fate
Becomes(q, fate) == quotes' = [quotes EXCEPT ![q].fate = fate]

(* An aborted request answers nobody; a submission that was waiting for it *)
(* (its last step) is over.                                                *)
AfterAbort == IF job.at = "preview" THEN NoJob ELSE job

-----------------------------------------------------------------------------
(* Discovery.                                                              *)

Load(w) ==
  /\ scanned < MaxScans /\ scanned' = scanned + 1
  /\ LET scan == [n |-> scanned, wallet |-> w, quote |-> 0,
                  at |-> IF kind = "bridge" THEN "find" ELSE "session"] IN
     scans' = IF Timed THEN {scan} ELSE scans \cup {scan}

(* Cross-chain: with a form filled in, the quote effect aborts the session *)
(* request the effect before it has just made (`request` is shared) and    *)
(* asks with the session it had.                                           *)
Overtaken == kind = "bridge" /\ form # NoInput /\ view.session # NoWallet

(* An open submission outlives the change, with all that it has captured.  *)
AfterSwitch ==
  IF kind = "swap" /\ AfterAbort # NoJob THEN [job EXCEPT !.moved = TRUE] ELSE AfterAbort

Switch(w) ==
  /\ w # account /\ moves < MaxMoves /\ moves' = moves + 1
  /\ account' = w
  /\ \/ /\ w = NoWallet /\ view' = Shows("disconnected", NoWallet, 0) /\ armed' = FALSE
        /\ scans' = IF Timed THEN {} ELSE scans
        /\ UNCHANGED <<scanned, confirmed, form>>
     \/ /\ w # NoWallet /\ Overtaken /\ armed' = TRUE /\ scans' = {}
        /\ UNCHANGED <<view, scanned, confirmed, form>>
     \/ /\ w # NoWallet /\ ~Overtaken /\ Load(w) /\ armed' = FALSE
        /\ view' = IF kind = "bridge" THEN view ELSE Shows("loading", NoWallet, 0)
        /\ confirmed' = (confirmed /\ ~Confirms)
        /\ form' = IF Confirms THEN NoInput ELSE form
  /\ IF Timed THEN asks' = {} /\ job' = AfterSwitch /\ gen' = gen + 1
     ELSE UNCHANGED <<asks, job, gen>>
  /\ UNCHANGED <<kind, lock, pending, quotes, acked, left, losses>>

(* SCAN AGAIN, CHECK CLAIM STATUS; SEND AGAIN and SWAP AGAIN clear the form.*)
Scan ==
  /\ account # NoWallet /\ kind # "bridge"
  /\ view.state \in IF Guarded THEN {"confirmed"} ELSE {"idle", "pending", "failure"}
  /\ kind = "recover" => form = NoInput
  /\ Load(account) /\ view' = Shows("loading", NoWallet, 0)
  /\ confirmed' = (confirmed /\ ~Confirms)
  /\ form' = NoInput
  /\ IF kind = "swap" THEN asks' = {} /\ gen' = gen + 1 ELSE UNCHANGED <<asks, gen>>
  /\ UNCHANGED <<kind, account, lock, armed, job, pending, quotes, acked, left, moves, losses>>

Drop(s) == scans' = scans \ {s}
GoOn(s, at, q) == scans' = (scans \ {s}) \cup {[s EXCEPT !.at = at, !.quote = q]}
scanFrame == <<inputs, confirmed, lock, gen, asks, job, acked, left, budget>>

SessionAnswer(s) ==
  /\ s.at = "session"
  /\ IF Remembers /\ pending[s.wallet] # 0 THEN GoOn(s, "status", pending[s.wallet])
     ELSE GoOn(s, "find", 0)
  /\ UNCHANGED <<scanFrame, view, armed, pending, quotes>>

StatusAnswer(s) ==
  /\ s.at = "status"
  /\ LET fate == Fate(s.quote)
         forget == pending' = [pending EXCEPT ![s.wallet] = 0] IN
     \/ /\ fate = "landed" /\ forget /\ view' = Shows("confirmed", s.wallet, 0)
        /\ IF kind = "recover" THEN Drop(s) ELSE GoOn(s, "refresh", 0)
     \/ /\ fate = "taken" /\ view' = Shows("pending", s.wallet, 0) /\ Drop(s)
        /\ UNCHANGED pending
     \/ /\ fate = "failed" /\ kind = "claim" /\ forget
        /\ view' = Shows("failure", s.wallet, 0) /\ Drop(s)
     \/ /\ fate \notin {"landed", "taken"} /\ ~(fate = "failed" /\ kind = "claim")
        /\ forget /\ GoOn(s, "find", 0) /\ UNCHANGED view
  /\ UNCHANGED <<scanFrame, armed, quotes>>

(* Claim's discovery and quote are one request; the other panels only list. *)
FindAnswer(s) ==
  /\ s.at \in {"find", "refresh"} /\ Drop(s)
  /\ \/ kind = "claim" /\ s.at = "find" /\ Issue(s.wallet, NoInput, "quoted", FALSE)
        /\ view' = Shows("ready", s.wallet, Newest)
     \/ view' = Shows("idle", s.wallet, 0) /\ UNCHANGED quotes
  /\ armed' = (Timed /\ form # NoInput)
  /\ UNCHANGED <<scanFrame, pending>>

ScanFails(s) ==
  /\ losses < MaxLosses /\ losses' = losses + 1 /\ Drop(s)
  /\ view' = Shows(IF s.at = "refresh" THEN "idle" ELSE "failure",
                   IF s.at = "refresh" THEN s.wallet ELSE NoWallet, 0)
  /\ UNCHANGED <<inputs, confirmed, lock, gen, armed, asks, job, pending, quotes, acked, left,
                 moves, scanned>>

-----------------------------------------------------------------------------
(* Quotes.                                                                 *)

Ask(n, w, s, i, stray) ==
  [gen |-> n, wallet |-> w, session |-> s, input |-> i, stray |-> stray]

(* requestQuote, preview: the quote on screen is gone, and but for Burn    *)
(* and Recover, which do not number their requests either (here `gen` only *)
(* tells two apart), the newest request aborts the one before it.          *)
Request(w, s, i, stray) ==
  /\ gen' = gen + 1
  /\ asks' = (IF Confirms THEN asks ELSE {}) \cup {Ask(gen + 1, w, s, i, stray)}
  /\ view' = [view EXCEPT !.state = "quoting", !.quote = 0]

(* Burn and Recover: picking a token asks for its quote, whatever the      *)
(* panel is doing; so does Recover's TRY AGAIN for the token picked.       *)
Pick(i) ==
  /\ Confirms /\ account # NoWallet /\ view.session # NoWallet
  /\ i = form => kind = "recover" /\ view.state = "failure"
  /\ moves < MaxMoves /\ moves' = moves + 1
  /\ form' = i /\ confirmed' = FALSE
  /\ Request(account, view.session, i, FALSE)
  /\ UNCHANGED <<kind, account, lock, armed, scans, job, pending, quotes, acked, left,
                 losses, scanned>>

(* The inputs are disabled while the panel is busy.                        *)
Busy == view.state \in {"loading", "preparing", "awaiting", "submitting"}

\* Fault: an edit leaves the request in flight alone.
InvalidateViewOnly ==
  /\ UNCHANGED <<gen, asks, job>>
  /\ view' = [view EXCEPT !.state = "idle", !.quote = 0]

Invalidate ==
  /\ gen' = gen + 1 /\ asks' = {} /\ job' = AfterAbort
  /\ view' = [view EXCEPT !.state = "idle", !.quote = 0]

Edit(i) ==
  /\ Guarded /\ ~Busy /\ view.state # "disconnected" /\ i # form
  /\ form # NoInput => moves < MaxMoves   \* filling in an empty form is not counted
  /\ moves' = IF form = NoInput THEN moves ELSE moves + 1
  /\ form' = i /\ Invalidate
  /\ armed' = (Timed /\ view.session # NoWallet)
  /\ UNCHANGED <<kind, account, confirmed, lock, scans, pending, quotes, acked, left, losses,
                 scanned>>

(* REVIEW SEND; REQUEST AGAIN of Swap after an error.                      *)
Preview ==
  /\ kind \in {"send", "swap"} /\ ~lock /\ job = NoJob
  /\ view.state \in IF kind = "send" THEN {"idle", "failure"} ELSE {"failure"}
  /\ account # NoWallet /\ view.session # NoWallet /\ form # NoInput
  /\ moves < MaxMoves /\ moves' = moves + 1
  /\ Request(account, view.session, form, FALSE)
  /\ UNCHANGED <<inputs, confirmed, lock, armed, scans, job, pending, quotes, acked, left, losses,
                 scanned>>

(* The 500 ms debounce after a change, and the refresh of a quote that is  *)
(* about to expire; neither asks while the lock is held.                   *)
QuoteTimer ==
  /\ Timed /\ account # NoWallet /\ view.session # NoWallet /\ form # NoInput
  /\ armed \/ (kind = "swap" /\ view.state = "ready" /\ moves < MaxMoves)
  /\ moves' = IF armed THEN moves ELSE moves + 1
  /\ armed' = FALSE
  /\ IF lock /\ kind = "swap" THEN UNCHANGED <<gen, asks, view, job>>
     ELSE Request(account, view.session, form, FALSE) /\ job' = AfterAbort
  /\ UNCHANGED <<inputs, confirmed, lock, scans, pending, quotes, acked, left, losses, scanned>>

(* The application goes idle: the request in flight is dropped; coming     *)
(* back sets the timer again.                                              *)
Idle ==
  /\ kind = "swap" /\ moves < MaxMoves /\ moves' = moves + 1
  /\ gen' = gen + 1 /\ asks' = {} /\ job' = AfterAbort
  /\ armed' = (form # NoInput /\ view.session # NoWallet)
  /\ UNCHANGED <<inputs, view, confirmed, lock, scans, pending, quotes, acked, left, losses,
                 scanned>>

(* Cross-chain only says that a quote has expired.                         *)
Expire ==
  /\ kind = "bridge" /\ view.state = "ready"
  /\ view' = [view EXCEPT !.state = "failure", !.quote = 0]
  /\ UNCHANGED <<inputs, confirmed, lock, gen, armed, scans, asks, job, pending, quotes, acked,
                 left, budget>>

(* shouldAcceptQuote, shouldAcceptSendPreview; Cross-chain has no lock here. *)
Accepts(a) == Guarded => a.gen = gen /\ (lock => kind = "bridge")

askEnd == job' = AfterAbort /\ lock' = (lock /\ job.at # "preview")

AskAnswered(a) ==
  /\ a.session = a.wallet /\ Issue(a.wallet, a.input, "quoted", a.stray)
  /\ asks' = asks \ {a} /\ askEnd
  /\ view' = IF Accepts(a) THEN [view EXCEPT !.state = "ready", !.quote = Newest] ELSE view
  /\ UNCHANGED <<inputs, confirmed, gen, armed, scans, pending, acked, left, budget>>

(* Refused (always, when the session is another wallet's), or lost.        *)
AskFails(a) ==
  /\ asks' = asks \ {a} /\ askEnd
  /\ view' = IF Accepts(a) THEN [view EXCEPT !.state = "failure", !.quote = 0] ELSE view
  /\ UNCHANGED <<inputs, confirmed, gen, armed, scans, pending, quotes, acked, left, budget>>

Tick(on) ==
  /\ Confirms /\ view.state = "ready" /\ confirmed' = on /\ confirmed # on
  /\ acked' = IF on THEN view.quote ELSE acked
  /\ UNCHANGED <<inputs, view, lock, gen, armed, scans, asks, job, pending, quotes, left, budget>>

-----------------------------------------------------------------------------
(* Submission.  job.at is the await the continuation stands at:            *)
(* prepare, height (the last block height before the wallet opens),        *)
(* wallet, signed (a signature in hand, its block height not yet read),    *)
(* event (the report of its return), submit, poll (Cross-chain), refresh,  *)
(* abort, and preview (a last quote request).                              *)

jobFrame == <<kind, account, armed, scans, acked, budget>>
others == <<form, confirmed, gen, asks>>

(* quoteIdForPrepare asks for a ready quote with some time left; the       *)
(* other panels take what the view holds.                                  *)
Submit ==
  /\ ~lock /\ job = NoJob /\ account # NoWallet
  /\ view.session # NoWallet /\ view.state = "ready" /\ view.quote # 0
  /\ Confirms => confirmed
  /\ lock' = TRUE
  /\ job' = [NoJob EXCEPT !.at = "prepare", !.wallet = account, !.session = view.session,
                         !.input = form, !.quote = view.quote, !.batch = 1]
  /\ view' = IF kind = "burn" THEN view ELSE [view EXCEPT !.state = "preparing"]
  /\ IF kind \in {"send", "swap"} THEN gen' = gen + 1 /\ asks' = {} ELSE UNCHANGED <<gen, asks>>
  /\ UNCHANGED <<inputs, confirmed, armed, scans, pending, quotes, acked, left, budget>>

Goes(at, state) == job' = [job EXCEPT !.at = at] /\ view' = [view EXCEPT !.state = state]
                   /\ UNCHANGED <<lock, others>>
\* Fault: no finally clause.
EndLocked(state) == job' = NoJob /\ view' = [view EXCEPT !.state = state]
                    /\ UNCHANGED <<lock, others>>

End(state) == job' = NoJob /\ lock' = FALSE /\ view' = [view EXCEPT !.state = state]
              /\ UNCHANGED others

(* Recover and Swap end by asking for a new quote, with what they captured *)
(* when they started; Swap frees the lock first.                           *)
Requote(keep) ==
  /\ job' = [job EXCEPT !.at = "preview"] /\ lock' = (kind = "recover")
  /\ Request(job.wallet, job.session, job.input, job.moved)
  /\ form' = (IF kind = "recover" THEN job.input ELSE form) /\ confirmed' = (confirmed /\ keep)

(* The preparation is given back first; `next` is what follows.            *)
GiveBack(next) == job' = [job EXCEPT !.at = "abort", !.next = next]
                  /\ UNCHANGED <<lock, view, others>>

(* Before the wallet opened, and after.                                    *)
GateCloses == CASE kind \in {"claim", "burn", "send"} -> GiveBack("failure")
                [] kind = "recover" -> GiveBack("review")
                [] kind = "swap"    -> Requote(TRUE)
ApprovalFails == CASE kind \in {"claim", "burn", "send"} -> GiveBack("failure")
                   [] kind = "recover" -> GiveBack("retry")
                   [] kind = "swap"    -> Requote(TRUE)
                   [] kind = "bridge"  -> End("failure")

(* Only a quote of the session's wallet is prepared.  Recover's answer may *)
(* name a fresh one.                                                       *)
Prepares == /\ job.session = job.wallet /\ quotes[job.quote].wallet = job.wallet
            /\ Fate(job.quote) \in {"quoted", "prepared"}

PrepareAnswer ==
  /\ job.at = "prepare" /\ Prepares /\ left' = 2
  /\ \/ Becomes(job.quote, "prepared") /\ job' = [job EXCEPT !.at = "height"]
     \/ /\ kind = "recover" /\ Issue(job.wallet, job.input, "prepared", FALSE)
        /\ job' = [job EXCEPT !.at = "height", !.quote = Newest]
  /\ UNCHANGED <<jobFrame, lock, view, others, pending>>

PrepareFails ==
  /\ job.at = "prepare"
  /\ \/ UNCHANGED <<quotes, losses>>
     \/ /\ Prepares /\ losses < MaxLosses /\ losses' = losses + 1
        /\ quotes' = [quotes EXCEPT ![job.quote].fate = "prepared", ![job.quote].lost = TRUE]
  /\ IF kind \in {"recover", "swap"} THEN Requote(TRUE) ELSE End("failure")
  /\ UNCHANGED <<kind, account, armed, scans, acked, moves, scanned, pending, left>>

\* Fault: the catch clause forgets the preparation.
HeightFailsKeeping ==
  /\ job.at = "height" /\ kind \in {"claim", "burn", "send"} /\ End("failure")
  /\ UNCHANGED <<jobFrame, pending, quotes, left>>

(* The last look before the wallet opens: Claim, Burn and Send ask for the *)
(* block height, and the catch clause gives back what no wallet has seen.  *)
HeightFails ==
  /\ job.at = "height" /\ kind \in {"claim", "burn", "send"}
  /\ IF job.opened THEN End("failure") ELSE GiveBack("failure")
  /\ UNCHANGED <<jobFrame, pending, quotes, left>>

Gate ==
  /\ job.at = "height"
  /\ \/ kind # "bridge" /\ GateCloses
     \/ /\ (GivesBack => left = 2) /\ (ChecksLive => account = job.wallet)
        /\ IF account = job.wallet
           THEN /\ job' = [job EXCEPT !.at = "wallet", !.opened = TRUE]
                /\ view' = [view EXCEPT !.state = "awaiting"]
                /\ UNCHANGED <<lock, others>>
           ELSE ApprovalFails
  /\ UNCHANGED <<jobFrame, pending, quotes, left>>

(* awaitWalletApproval: the wallet signs or refuses when it likes; between *)
(* its polls the block height ends the wait of every panel but Swap and    *)
(* Cross-chain.  A height read that fails is tried again.                  *)
WalletSigns ==
  /\ job.at = "wallet" /\ job' = [job EXCEPT !.at = "signed"]
  /\ UNCHANGED <<jobFrame, lock, view, others, pending, quotes, left>>

WalletRefuses ==
  /\ job.at = "wallet" /\ ApprovalFails
  /\ UNCHANGED <<jobFrame, pending, quotes, left>>

\* Fault: only the wallet ends the wait.
PollForever ==
  FALSE /\ UNCHANGED vars

Poll ==
  /\ job.at = "wallet" /\ GivesBack /\ left = 0 /\ ApprovalFails
  /\ UNCHANGED <<jobFrame, pending, quotes, left>>

Sends == /\ job' = [job EXCEPT !.at = "submit"]
         /\ view' = [view EXCEPT !.state = "submitting"]
         /\ quotes' = [quotes EXCEPT ![job.quote].sent = TRUE]
         /\ UNCHANGED <<lock, others>>

(* With a signature: enough blocks left, and still the same wallet; Swap   *)
(* looks at its signing window.                                            *)
Signed ==
  /\ job.at = "signed"
  /\ \/ /\ GivesBack /\ left < 2 /\ ApprovalFails /\ UNCHANGED quotes
     \/ /\ ChecksLive /\ left = 2 /\ account # job.wallet /\ GiveBack("failure")
        /\ UNCHANGED quotes
     \/ /\ GivesBack /\ left = 2 /\ (ChecksLive => account = job.wallet)
        /\ Goes("event", view.state) /\ UNCHANGED quotes
     \/ kind = "swap" /\ Requote(TRUE) /\ UNCHANGED quotes
     \/ Timed /\ Sends
  /\ UNCHANGED <<jobFrame, pending, left>>

EventAnswer ==
  /\ job.at = "event" /\ Sends
  /\ pending' = IF Remembers THEN [pending EXCEPT ![job.wallet] = job.quote] ELSE pending
  /\ UNCHANGED <<jobFrame, left>>

(* The server takes the submission; the network decides it.                *)
Taken ==
  /\ job.at = "submit" /\ Fate(job.quote) = "prepared" /\ Becomes(job.quote, "taken")
  /\ UNCHANGED <<jobFrame, job, lock, view, others, pending, left>>

NetworkDecides(q) ==
  /\ Fate(q) = "taken" /\ \E fate \in {"landed", "failed"} : Becomes(q, fate)
  /\ UNCHANGED <<jobFrame, job, lock, view, others, pending, left>>

(* Confirmed: the next batch of a Claim, or the end.                       *)
Confirmed ==
  /\ job.at = "submit" /\ Fate(job.quote) = "landed"
  /\ IF kind = "claim" /\ job.batch < Batches
     THEN /\ Becomes(job.quote, "prepared") /\ left' = 2
          /\ job' = [job EXCEPT !.at = "height", !.batch = job.batch + 1]
          /\ UNCHANGED <<view, lock, others, pending>>
     ELSE /\ pending' = IF Remembers THEN [pending EXCEPT ![job.wallet] = 0] ELSE pending
          /\ CASE kind \in {"claim", "burn"} -> Goes("refresh", "confirmed")
               [] kind \in {"recover", "send", "swap"} -> End("confirmed")
               [] kind = "bridge" -> Goes("poll", "submitting")
          /\ UNCHANGED <<quotes, left>>
  /\ UNCHANGED jobFrame

(* Answered without a confirmation.                                        *)
Unconfirmed ==
  /\ job.at = "submit" /\ Fate(job.quote) \in {"taken", "failed"}
  /\ CASE kind = "recover" -> End("pending")
       [] kind \in {"claim", "burn"} -> \E state \in {"pending", "failure"} : End(state)
       [] kind \in {"send", "swap"} -> End("failure")
       [] kind = "bridge" -> Goes("poll", "submitting")
  /\ UNCHANGED <<jobFrame, pending, quotes, left>>

(* Refused, or the answer lost.                                            *)
SubmitFails ==
  /\ job.at = "submit"
  /\ IF kind = "swap" THEN Requote(TRUE) ELSE End("failure")
  /\ UNCHANGED <<jobFrame, pending, quotes, left>>

(* Cross-chain polls until the status is terminal, or for 20 minutes.      *)
PollStatus ==
  /\ job.at = "poll"
  /\ End(IF Fate(job.quote) = "landed" THEN "confirmed" ELSE "failure")
  /\ UNCHANGED <<jobFrame, pending, quotes, left>>

(* refreshAfterSuccess of Claim and Burn.                                  *)
Refreshed ==
  /\ job.at = "refresh"
  /\ job' = NoJob /\ lock' = FALSE /\ view' = Shows("idle", job.session, 0)
  /\ UNCHANGED <<jobFrame, others, pending, quotes, left>>

(* The abort request is served, or lost.                                   *)
Aborted ==
  /\ job.at = "abort"
  /\ \/ Becomes(job.quote, "aborted") /\ UNCHANGED losses
     \/ /\ losses < MaxLosses /\ losses' = losses + 1
        /\ quotes' = [quotes EXCEPT ![job.quote].lost = TRUE]
  /\ IF job.next = "failure" THEN End("failure") ELSE Requote(job.next = "review")
  /\ UNCHANGED <<kind, account, armed, scans, acked, moves, scanned, pending, left>>

(* Blocks pass while a prepared message waits.                             *)
Block ==
  /\ job.at \in {"height", "wallet", "signed"} /\ left > 0 /\ left' = left - 1
  /\ UNCHANGED <<jobFrame, job, lock, view, others, pending, quotes>>

-----------------------------------------------------------------------------
User == \/ \E w \in Wallets \cup {NoWallet} : Switch(w)
        \/ Scan \/ Preview \/ QuoteTimer \/ Idle \/ Expire \/ Submit
        \/ \E i \in Inputs : Pick(i) \/ Edit(i)
        \/ \E on \in BOOLEAN : Tick(on)
        \/ WalletSigns \/ WalletRefuses
Scanning == \E s \in scans : SessionAnswer(s) \/ StatusAnswer(s) \/ FindAnswer(s) \/ ScanFails(s)
Asking == \E a \in asks : AskAnswered(a) \/ AskFails(a)
Submitting == \/ PrepareAnswer \/ PrepareFails \/ HeightFails \/ Gate \/ Poll \/ Signed
              \/ EventAnswer \/ Confirmed \/ Unconfirmed \/ SubmitFails \/ PollStatus
              \/ Refreshed \/ Aborted
Network == Taken \/ Block \/ \E q \in DOMAIN quotes : NetworkDecides(q)

Next == User \/ Scanning \/ Asking \/ Submitting \/ Network
Spec == Init /\ [][Next]_vars

(* Requests are answered, or fail; block heights grow.  The wallet and the *)
(* user owe nothing.                                                       *)
FairSpec == Spec /\ WF_vars(Submitting) /\ WF_vars(Asking) /\ WF_vars(Block)

-----------------------------------------------------------------------------
(* Everything is what the panel can hold.                                  *)
States == {"disconnected", "loading", "idle", "quoting", "ready", "preparing", "awaiting",
           "submitting", "pending", "confirmed", "failure"}
Places == {"none", "prepare", "height", "wallet", "signed", "event", "submit", "poll", "refresh",
           "abort", "preview"}
TypeOK ==
  /\ kind \in Kinds /\ account \in Wallets \cup {NoWallet} /\ form \in Inputs \cup {NoInput}
  /\ view.state \in States /\ view.session \in Wallets \cup {NoWallet}
  /\ view.quote \in 0..Len(quotes) /\ acked \in 0..Len(quotes)
  /\ lock \in BOOLEAN /\ confirmed \in BOOLEAN /\ armed \in BOOLEAN /\ left \in 0..2
  /\ job.at \in Places /\ (job # NoJob => job.quote \in DOMAIN quotes)
  /\ (job = NoJob => ~lock)
  /\ \A w \in Wallets : pending[w] \in 0..Len(quotes)

(* shouldAcceptSendPreview, shouldAcceptQuote and the invalidation on every *)
(* edit: the quote that Send, Swap or Cross-chain offers to submit is a     *)
(* quote of what the form says now, whichever answers arrive and in         *)
(* whichever order.  The exception is Swap's: a submission that is broken   *)
(* off after the wallet has changed under it asks for a quote of the form   *)
(* it has captured, and numbers that request as the newest.                 *)
OfferFitsForm ==
  Guarded /\ view.state = "ready" =>
    \/ quotes[view.quote].input = form
    \/ kind = "swap" /\ quotes[view.quote].stray

(* abort-wallet-gate and abort-wallet-approval: when a submission of Claim, *)
(* Burn, Recover or Send is over, no preparation it caused is still held on *)
(* the server, unless it was submitted, or a request or an answer got lost. *)
NothingLeftPrepared ==
  GivesBack /\ job = NoJob =>
    \A q \in DOMAIN quotes : Fate(q) = "prepared" => quotes[q].sent \/ quotes[q].lost

(* awaitWalletApproval: with a wallet that never answers, a submission of   *)
(* Claim, Burn, Recover or Send still ends, and its lock is free again.     *)
ApprovalEnds == (GivesBack /\ lock) ~> ~lock

(* The checkbox of Burn and Recover: the token a submission destroys or     *)
(* sells is the token on screen when the box was ticked.                    *)
SubmitsWhatWasAcknowledged ==
  Confirms /\ job.at = "prepare" => quotes[job.quote].input = quotes[acked].input
=============================================================================
