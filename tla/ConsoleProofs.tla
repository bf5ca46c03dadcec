---------------------------- MODULE ConsoleProofs ----------------------------
(***************************************************************************)
(* Theorems about a panel of the page, of any kind, with any wallets and   *)
(* inputs, and any number of quotes, moves and losses.                     *)
(*                                                                         *)
(* Shape says what every variable holds, and when the signing lock is      *)
(* held; OfferInv what the panel offers; HeldInv what it holds of the      *)
(* server.  The last two are inductive relative to the first.              *)
(***************************************************************************)
EXTENDS Console, TLAPS

Wallet == Wallets \cup {NoWallet}
Input == Inputs \cup {NoInput}

Views == [state : States, session : Wallet, quote : Nat]
Scans == [n : Nat, wallet : Wallets, quote : Nat, at : {"session", "status", "find", "refresh"}]
Asks == [gen : Nat, wallet : Wallets, session : Wallets, input : Input, stray : BOOLEAN]
Jobs == [at : Places, wallet : Wallet, session : Wallet, input : Input, quote : Nat, batch : Nat,
         opened : BOOLEAN, next : {"none", "failure", "review", "retry"}, moved : BOOLEAN]
Quotes == [wallet : Wallets, input : Input, sent : BOOLEAN, lost : BOOLEAN, stray : BOOLEAN,
           fate : {"quoted", "prepared", "taken", "landed", "failed", "aborted"}]

(* A submission is under way, and with it the signing lock is held; Recover *)
(* holds it through its last quote request too.                             *)
Active == job.at \notin {"none", "preview"}
Locks == Active \/ (job.at = "preview" /\ kind = "recover")

PanelShape ==
  /\ kind \in Kinds /\ account \in Wallet /\ form \in Input
  /\ confirmed \in BOOLEAN /\ armed \in BOOLEAN /\ left \in 0..2 /\ gen \in Nat
  /\ view \in Views /\ view.quote <= Len(quotes)
  /\ acked \in Nat /\ acked <= Len(quotes)

RequestShape ==
  /\ scans \subseteq Scans /\ \A s \in scans : s.quote <= Len(quotes)
  /\ asks \subseteq Asks
  /\ scanned \in Nat

JobShape ==
  /\ job \in Jobs /\ lock \in BOOLEAN /\ (lock <=> Locks)
  /\ job.at = "none" => job = NoJob
  /\ job.at # "none" => /\ job.wallet \in Wallets /\ job.session \in Wallets
                        /\ job.quote \in DOMAIN quotes
  /\ job.at = "abort" => job.next = "failure" \/ kind = "recover"
  /\ job.at = "refresh" => kind \in {"claim", "burn"}

StoreShape ==
  /\ quotes \in Seq(Quotes)
  /\ pending \in [Wallets -> Nat] /\ \A w \in Wallets : pending[w] <= Len(quotes)

Shape == PanelShape /\ RequestShape /\ JobShape /\ StoreShape

-----------------------------------------------------------------------------
(* What the panel and the server write.                                    *)

\* Quotes are added and changed; none is taken away, and each stays a quote of its form.
Grows ==
  /\ quotes' \in Seq(Quotes) /\ Len(quotes) <= Len(quotes')
  /\ \A q \in DOMAIN quotes : /\ q \in DOMAIN quotes' /\ quotes'[q].input = quotes[q].input
                             /\ quotes'[q].stray = quotes[q].stray

LEMMA NothingGrows ==
  ASSUME Shape, UNCHANGED quotes
  PROVE  Grows
  BY DEF Shape, StoreShape, Grows

LEMMA Issues ==
  ASSUME Shape, NEW w \in Wallets, NEW i \in Input, NEW fate \in {"quoted", "prepared"},
         NEW stray \in BOOLEAN, Issue(w, i, fate, stray)
  PROVE  /\ Grows /\ Len(quotes') = Len(quotes) + 1
         /\ Newest \in DOMAIN quotes' /\ quotes'[Newest] = Quote(w, i, fate, stray)
         /\ \A q \in DOMAIN quotes : quotes'[q] = quotes[q]
         /\ \A q \in DOMAIN quotes' : q \in DOMAIN quotes \/ q = Newest
  <1>1. Quote(w, i, fate, stray) \in Quotes
    BY DEF Quote, Quotes
  <1>2. quotes \in Seq(Quotes) /\ quotes' = Append(quotes, Quote(w, i, fate, stray))
    BY DEF Shape, StoreShape, Issue
  <1>3. /\ quotes' \in Seq(Quotes) /\ Len(quotes') = Len(quotes) + 1
        /\ \A q \in 1..Len(quotes) : quotes'[q] = quotes[q]
        /\ quotes'[Len(quotes) + 1] = Quote(w, i, fate, stray)
    BY <1>1, <1>2
  <1>4. DOMAIN quotes = 1..Len(quotes) /\ DOMAIN quotes' = 1..Len(quotes') /\ Len(quotes) \in Nat
    BY <1>2, <1>3
  <1> QED
    BY <1>3, <1>4 DEF Grows, Newest

LEMMA IssuesPlain ==
  ASSUME Shape, NEW w \in Wallets, NEW i \in Input, NEW fate \in {"quoted", "prepared"},
         Issue(w, i, fate, FALSE)
  PROVE  /\ Grows /\ Len(quotes') = Len(quotes) + 1
         /\ Newest \in DOMAIN quotes' /\ quotes'[Newest] = Quote(w, i, fate, FALSE)
         /\ \A q \in DOMAIN quotes : quotes'[q] = quotes[q]
         /\ \A q \in DOMAIN quotes' : q \in DOMAIN quotes \/ q = Newest
  <1>1. PICK stray \in BOOLEAN : stray = FALSE
    OBVIOUS
  <1>2. Issue(w, i, fate, stray)
    BY <1>1
  <1> QED
    BY <1>1, <1>2, Issues

\* A quote is changed, in its fate or in what is known of it.
LEMMA Changes ==
  ASSUME Shape, NEW q \in DOMAIN quotes, NEW r \in Quotes, r.input = quotes[q].input,
         r.stray = quotes[q].stray, quotes' = [quotes EXCEPT ![q] = r]
  PROVE  /\ Grows /\ Len(quotes') = Len(quotes) /\ DOMAIN quotes' = DOMAIN quotes
         /\ quotes'[q] = r /\ \A p \in DOMAIN quotes : p # q => quotes'[p] = quotes[p]
  <1>1. quotes \in Seq(Quotes)
    BY DEF Shape, StoreShape
  <1>2. /\ quotes' \in Seq(Quotes) /\ Len(quotes') = Len(quotes) /\ DOMAIN quotes' = DOMAIN quotes
        /\ quotes'[q] = r /\ \A p \in DOMAIN quotes : p # q => quotes'[p] = quotes[p]
    BY <1>1
  <1> QED
    BY <1>1, <1>2 DEF Grows

LEMMA QuoteIsQuote ==
  ASSUME Shape, NEW q \in DOMAIN quotes
  PROVE  quotes[q] \in Quotes /\ q \in Nat /\ q <= Len(quotes)
  BY DEF Shape, StoreShape

LEMMA Decided ==
  ASSUME Shape, NEW q \in DOMAIN quotes,
         NEW fate \in {"quoted", "prepared", "taken", "landed", "failed", "aborted"},
         Becomes(q, fate)
  PROVE  /\ Grows /\ Len(quotes') = Len(quotes) /\ DOMAIN quotes' = DOMAIN quotes
         /\ quotes'[q] = [quotes[q] EXCEPT !.fate = fate]
         /\ \A p \in DOMAIN quotes : p # q => quotes'[p] = quotes[p]
  <1> DEFINE r == [quotes[q] EXCEPT !.fate = fate]
  <1>1. r \in Quotes /\ r.input = quotes[q].input /\ r.stray = quotes[q].stray
    BY QuoteIsQuote DEF Quotes
  <1>2. quotes' = [quotes EXCEPT ![q] = r]
    BY DEF Becomes
  <1> HIDE DEF r
  <1>3. /\ Grows /\ Len(quotes') = Len(quotes) /\ DOMAIN quotes' = DOMAIN quotes
        /\ quotes'[q] = r /\ \A p \in DOMAIN quotes : p # q => quotes'[p] = quotes[p]
    BY <1>1, <1>2, Changes
  <1> QED
    BY <1>3 DEF r

\* What was referred to still is.
LEMMA ShapeFollows ==
  ASSUME Shape, Grows,
         PanelShape', scans' \subseteq Scans,
         \A s \in scans' : s \in scans \/ s.quote <= Len(quotes'),
         asks' \subseteq Asks, scanned' \in Nat, JobShape',
         pending' \in [Wallets -> Nat],
         \A w \in Wallets : pending'[w] = pending[w] \/ pending'[w] <= Len(quotes')
  PROVE  Shape'
  <1>1. Len(quotes) \in Nat /\ Len(quotes') \in Nat /\ Len(quotes) <= Len(quotes')
    BY DEF Shape, StoreShape, Grows
  <1>2. RequestShape'
    <2>1. ASSUME NEW s \in scans'
          PROVE  s.quote <= Len(quotes')
      <3>1. s.quote \in Nat
        BY <2>1 DEF Scans
      <3>2. s \in scans => s.quote <= Len(quotes)
        BY DEF Shape, RequestShape
      <3> QED
        BY <1>1, <2>1, <3>1, <3>2
    <2> QED
      BY <2>1 DEF RequestShape
  <1>3. StoreShape'
    <2>1. ASSUME NEW w \in Wallets
          PROVE  pending'[w] <= Len(quotes')
      BY <1>1, <2>1 DEF Shape, StoreShape
    <2> QED
      BY <2>1 DEF StoreShape, Grows
  <1> QED
    BY <1>2, <1>3 DEF Shape

-----------------------------------------------------------------------------
(* How a submission goes on, or ends.                                      *)

Continues ==
  /\ job' \in Jobs /\ job'.at \notin {"none", "preview"}
  /\ job'.wallet = job.wallet /\ job'.session = job.session /\ job'.input = job.input
  /\ job'.moved = job.moved /\ job'.quote \in DOMAIN quotes'
  /\ job'.at = "abort" => job'.next = "failure" \/ kind = "recover"
  /\ job'.at = "refresh" => kind \in {"claim", "burn"}
  /\ UNCHANGED <<lock, others>>
  /\ \/ UNCHANGED view
     \/ \E state \in {"awaiting", "submitting", "confirmed"} :
          /\ view' = [view EXCEPT !.state = state]
          /\ state = "confirmed" => kind \in {"claim", "burn"}

Outcome ==
  \/ Continues
  \/ \E state \in {"failure", "pending", "confirmed"} : End(state)
  \/ kind \in {"recover", "swap"} /\ \E keep \in BOOLEAN : Requote(keep)

LEMMA Requests ==
  ASSUME Shape, NEW w \in Wallets, NEW s \in Wallets, NEW i \in Input, NEW stray \in BOOLEAN,
         Request(w, s, i, stray)
  PROVE  /\ gen' = gen + 1 /\ gen' \in Nat /\ asks' \subseteq Asks
         /\ view' \in Views /\ view'.quote = 0 /\ view'.state = "quoting"
         /\ view'.session = view.session
         /\ ~Confirms => asks' = {Ask(gen', w, s, i, stray)}
  <1>1. gen \in Nat /\ view \in Views /\ asks \subseteq Asks
    BY DEF Shape, PanelShape, RequestShape
  <1>2. Ask(gen + 1, w, s, i, stray) \in Asks
    BY <1>1 DEF Ask, Asks
  <1>3. /\ view' \in Views /\ view'.quote = 0
        /\ view'.state = "quoting" /\ view'.session = view.session
    BY <1>1 DEF Request, Views, States
  <1> QED
    BY <1>1, <1>2, <1>3 DEF Request

\* A submission's step that leaves the rest of the panel alone.
LEMMA ShapeOfOutcome ==
  ASSUME Shape, Active, Grows, Outcome,
         UNCHANGED <<kind, account, armed, scans, acked, scanned>>,
         left' \in 0..2, pending' \in [Wallets -> Nat],
         \A w \in Wallets : pending'[w] = pending[w] \/ pending'[w] <= Len(quotes')
  PROVE  Shape'
  <1>1. PanelShape /\ RequestShape /\ JobShape
    BY DEF Shape
  <1>2. Len(quotes) \in Nat /\ Len(quotes') \in Nat /\ Len(quotes) <= Len(quotes')
    BY DEF Shape, StoreShape, Grows
  <1>3. /\ view \in Views /\ view.quote \in Nat /\ view.quote <= Len(quotes')
        /\ acked \in Nat /\ acked <= Len(quotes')
    <2>1. view \in Views /\ view.quote <= Len(quotes) /\ acked \in Nat /\ acked <= Len(quotes)
      BY <1>1 DEF PanelShape
    <2>2. view.quote \in Nat
      BY <2>1 DEF Views
    <2> QED
      BY <1>2, <2>1, <2>2
  <1>4. /\ job \in Jobs /\ job.at # "none" /\ job.wallet \in Wallets /\ job.session \in Wallets
        /\ job.quote \in DOMAIN quotes /\ job.input \in Input /\ lock = TRUE
        /\ job.moved \in BOOLEAN
    <2>1. job.at # "none"
      BY DEF Active
    <2> QED
      BY <1>1, <2>1 DEF JobShape, Locks, Jobs
  <1>5. CASE Continues
    <2>1. view' \in Views /\ view'.quote = view.quote
      BY <1>3, <1>5 DEF Continues, Views, States
    <2>2. PanelShape'
      BY <1>1, <1>3, <1>5, <2>1 DEF PanelShape, Continues, others
    <2>3. JobShape'
      <3>1. UNCHANGED <<kind, lock>> /\ Locks' /\ lock' = TRUE
        BY <1>4, <1>5 DEF Continues, Locks, Active, others
      <3> QED
        BY <1>4, <1>5, <3>1 DEF JobShape, Continues
    <2>4. asks' \subseteq Asks
      BY <1>1, <1>5 DEF RequestShape, Continues, others
    <2> QED
      BY <1>1, <2>2, <2>3, <2>4, ShapeFollows DEF RequestShape
  <1>6. ASSUME NEW state \in {"failure", "pending", "confirmed"}, End(state)
        PROVE  Shape'
    <2>1. view' \in Views /\ view'.quote = view.quote
      BY <1>3, <1>6 DEF End, Views, States
    <2>2. PanelShape'
      BY <1>1, <1>3, <1>6, <2>1 DEF PanelShape, End, others
    <2>3. NoJob \in Jobs
      BY DEF NoJob, Jobs, Places, Wallet, Input
    <2>4. JobShape'
      BY <1>6, <2>3 DEF JobShape, End, Locks, Active, NoJob
    <2>5. asks' \subseteq Asks
      BY <1>1, <1>6 DEF RequestShape, End, others
    <2> QED
      BY <1>1, <2>2, <2>4, <2>5, ShapeFollows DEF RequestShape
  <1>7. ASSUME NEW keep \in BOOLEAN, Requote(keep)
        PROVE  Shape'
    <2>1. /\ gen' \in Nat /\ asks' \subseteq Asks /\ view' \in Views /\ view'.quote = 0
      BY <1>4, <1>7, Requests DEF Requote
    <2>2. form' \in Input /\ confirmed' \in BOOLEAN
      BY <1>1, <1>4, <1>7 DEF Requote, PanelShape
    <2>3. PanelShape'
      BY <1>1, <1>2, <1>3, <2>1, <2>2 DEF PanelShape
    <2>4. job' \in Jobs /\ job'.at = "preview" /\ lock' = (kind = "recover")
      BY <1>4, <1>7 DEF Requote, Jobs, Places
    <2>5. job'.wallet = job.wallet /\ job'.session = job.session /\ job'.quote = job.quote
      BY <1>4, <1>7 DEF Requote, Jobs
    <2>6. JobShape'
      BY <1>4, <2>4, <2>5 DEF JobShape, Locks, Active, Grows
    <2> QED
      BY <1>1, <2>1, <2>3, <2>6, ShapeFollows DEF RequestShape
  <1> QED
    BY <1>5, <1>6, <1>7 DEF Outcome

(* Every step of a submission is of this kind, but the last look of Claim  *)
(* and Burn at the server.                                                 *)
Acts ==
  /\ Active /\ Grows /\ Outcome
  /\ UNCHANGED <<kind, account, armed, scans, acked, scanned>>
  /\ left' \in 0..2 /\ pending' \in [Wallets -> Nat]
  /\ \A w \in Wallets : pending'[w] = pending[w] \/ pending'[w] <= Len(quotes')

LEMMA Kinds6 ==
  ASSUME Shape
  PROVE  kind \in {"claim", "burn", "recover", "send", "swap", "bridge"}
  BY KindsAssumption DEF Shape, PanelShape

\* The job while a submission is under way.
LEMMA JobAtWork ==
  ASSUME Shape, Active
  PROVE  /\ job \in Jobs /\ job.wallet \in Wallets /\ job.session \in Wallets
         /\ job.input \in Input /\ job.quote \in DOMAIN quotes /\ job.quote \in Nat
         /\ job.moved \in BOOLEAN
         /\ quotes[job.quote] \in Quotes /\ lock = TRUE /\ left \in 0..2
         /\ pending \in [Wallets -> Nat] /\ job.quote <= Len(quotes)
  <1>1. job.at # "none"
    BY DEF Active
  <1> QED
    BY <1>1, QuoteIsQuote DEF Shape, JobShape, PanelShape, StoreShape, Locks, Jobs

\* The job goes to another place.
LEMMA MovesOn ==
  ASSUME Shape, Active, Grows, NEW at \in Places, at \notin {"none", "preview"},
         NEW j \in Jobs, j.at = at, j.wallet = job.wallet, j.session = job.session,
         j.input = job.input, j.moved = job.moved, j.quote \in DOMAIN quotes', job' = j,
         at = "abort" => j.next = "failure" \/ kind = "recover",
         at = "refresh" => kind \in {"claim", "burn"},
         UNCHANGED <<lock, others>>,
         \/ UNCHANGED view
         \/ \E state \in {"awaiting", "submitting", "confirmed"} :
              /\ view' = [view EXCEPT !.state = state]
              /\ state = "confirmed" => kind \in {"claim", "burn"}
  PROVE  Outcome
  BY DEF Outcome, Continues

LEMMA GivesBackOutcome ==
  ASSUME Shape, Active, Grows, NEW next \in {"failure", "review", "retry"}, GiveBack(next),
         next = "failure" \/ kind = "recover"
  PROVE  Outcome
  <1> DEFINE j == [job EXCEPT !.at = "abort", !.next = next]
  <1>1. j \in Jobs /\ j.at = "abort" /\ j.wallet = job.wallet /\ j.session = job.session
        /\ j.input = job.input /\ j.moved = job.moved /\ j.quote = job.quote /\ j.next = next
    BY JobAtWork DEF Jobs, Places
  <1>2. job' = j /\ UNCHANGED <<lock, view, others>>
    BY DEF GiveBack
  <1>3. j.quote \in DOMAIN quotes'
    BY <1>1, JobAtWork DEF Grows
  <1> HIDE DEF j
  <1> QED
    BY <1>1, <1>2, <1>3, MovesOn DEF Places

LEMMA WaysOut ==
  ASSUME Shape, Active, Grows, ApprovalFails \/ (kind # "bridge" /\ GateCloses)
  PROVE  Outcome
  <1>1. \/ \E next \in {"failure", "review", "retry"} :
             GiveBack(next) /\ (next = "failure" \/ kind = "recover")
        \/ kind = "swap" /\ Requote(TRUE)
        \/ End("failure")
    BY Kinds6 DEF ApprovalFails, GateCloses
  <1> QED
    BY <1>1, GivesBackOutcome DEF Outcome

LEMMA GoesOutcome ==
  ASSUME Shape, Active, Grows, NEW at \in Places, at \notin {"none", "preview", "abort"}, NEW state,
         at = "refresh" => kind \in {"claim", "burn"}, Goes(at, state),
         state = view.state \/ state \in {"awaiting", "submitting"}
           \/ (state = "confirmed" /\ kind \in {"claim", "burn"})
  PROVE  Outcome
  <1> DEFINE j == [job EXCEPT !.at = at]
  <1>1. j \in Jobs /\ j.at = at /\ j.wallet = job.wallet /\ j.session = job.session
        /\ j.input = job.input /\ j.moved = job.moved /\ j.quote = job.quote
    BY JobAtWork DEF Jobs
  <1>2. job' = j /\ UNCHANGED <<lock, others>> /\ view' = [view EXCEPT !.state = state]
    BY DEF Goes
  <1>3. j.quote \in DOMAIN quotes'
    BY <1>1, JobAtWork DEF Grows
  <1>4. state = view.state => view' = view
    BY <1>2 DEF Shape, PanelShape, Views
  <1> HIDE DEF j
  <1> QED
    BY <1>1, <1>2, <1>3, <1>4, MovesOn

LEMMA SendsOutcome ==
  ASSUME Shape, Active, Sends
  PROVE  Grows /\ Outcome /\ DOMAIN quotes' = DOMAIN quotes /\ Len(quotes') = Len(quotes)
         /\ quotes'[job.quote] = [quotes[job.quote] EXCEPT !.sent = TRUE]
         /\ \A p \in DOMAIN quotes : p # job.quote => quotes'[p] = quotes[p]
  <1> DEFINE r == [quotes[job.quote] EXCEPT !.sent = TRUE]
             j == [job EXCEPT !.at = "submit"]
  <1>1. r \in Quotes /\ r.input = quotes[job.quote].input
        /\ r.stray = quotes[job.quote].stray
    BY JobAtWork DEF Quotes
  <1>2. quotes' = [quotes EXCEPT ![job.quote] = r]
    BY DEF Sends
  <1> HIDE DEF r
  <1>3. /\ Grows /\ DOMAIN quotes' = DOMAIN quotes /\ Len(quotes') = Len(quotes)
        /\ quotes'[job.quote] = r
        /\ \A p \in DOMAIN quotes : p # job.quote => quotes'[p] = quotes[p]
    BY <1>1, <1>2, JobAtWork, Changes
  <1>4. j \in Jobs /\ j.at = "submit" /\ j.wallet = job.wallet /\ j.session = job.session
        /\ j.input = job.input /\ j.moved = job.moved /\ j.quote = job.quote
    BY JobAtWork DEF Jobs, Places
  <1>5. job' = j /\ UNCHANGED <<lock, others>> /\ view' = [view EXCEPT !.state = "submitting"]
    BY DEF Sends
  <1>6. j.quote \in DOMAIN quotes'
    BY <1>3, <1>4, JobAtWork
  <1> HIDE DEF j
  <1>7. Outcome
    BY <1>3, <1>4, <1>5, <1>6, MovesOn DEF Places
  <1> QED
    BY <1>3, <1>7 DEF r

LEMMA AbortsFollow ==
  ASSUME Shape, job.at = "abort", Grows,
         IF job.next = "failure" THEN End("failure") ELSE Requote(job.next = "review")
  PROVE  Outcome
  BY DEF Shape, JobShape, Outcome

LEMMA SubmissionActs ==
  ASSUME Shape, Submitting \/ WalletSigns \/ WalletRefuses, ~Refreshed
  PROVE  Acts
  <1> USE DEF jobFrame, budget
  <1>1. Active
    BY DEF Submitting, PrepareAnswer, PrepareFails, HeightFails, Gate, Poll, Signed,
           EventAnswer, Confirmed, Unconfirmed, SubmitFails, PollStatus, Aborted, WalletSigns,
           WalletRefuses, Active
  <1>2. UNCHANGED <<kind, account, armed, scans, acked, scanned>>
    BY DEF Submitting, PrepareAnswer, PrepareFails, HeightFails, Gate, Poll, Signed,
           EventAnswer, Confirmed, Unconfirmed, SubmitFails, PollStatus, Aborted, WalletSigns,
           WalletRefuses
  <1>3. left' = left \/ left' = 2
    BY DEF Submitting, PrepareAnswer, PrepareFails, HeightFails, Gate, Poll, Signed,
           EventAnswer, Confirmed, Unconfirmed, SubmitFails, PollStatus, Aborted, WalletSigns,
           WalletRefuses
  <1>4. \/ pending' = pending \/ pending' = [pending EXCEPT ![job.wallet] = job.quote]
        \/ pending' = [pending EXCEPT ![job.wallet] = 0]
    BY DEF Submitting, PrepareAnswer, PrepareFails, HeightFails, Gate, Poll, Signed,
           EventAnswer, Confirmed, Unconfirmed, SubmitFails, PollStatus, Aborted, WalletSigns,
           WalletRefuses
  <1>5. Grows /\ Outcome
    <2>0. /\ UNCHANGED quotes => Grows
          /\ job.quote \in DOMAIN quotes /\ job \in Jobs /\ job.wallet \in Wallets
          /\ job.input \in Input /\ view.state \in States
      BY <1>1, NothingGrows, JobAtWork DEF Shape, PanelShape, Views
    <2>1. CASE PrepareAnswer
      <3>1. CASE Becomes(job.quote, "prepared") /\ job' = [job EXCEPT !.at = "height"]
        <4>1. Grows
          BY <2>0, <3>1, Decided
        <4>2. job' \in Jobs /\ job'.at = "height" /\ job'.wallet = job.wallet
              /\ job'.session = job.session /\ job'.input = job.input
              /\ job'.moved = job.moved /\ job'.quote = job.quote
          BY <2>0, <3>1 DEF Jobs, Places
        <4> QED
          BY <1>1, <2>0, <2>1, <4>1, <4>2 DEF PrepareAnswer, Outcome, Continues, Grows
      <3>2. CASE /\ Issue(job.wallet, job.input, "prepared", FALSE)
                 /\ job' = [job EXCEPT !.at = "height", !.quote = Newest]
        <4>0. Newest \in Nat
          BY DEF Newest, Shape, StoreShape
        <4>1. Grows /\ Newest \in DOMAIN quotes' /\ Newest \in Nat
          BY <2>0, <3>2, <4>0, IssuesPlain, Zenon
        <4>2. job' \in Jobs /\ job'.at = "height" /\ job'.wallet = job.wallet
              /\ job'.session = job.session /\ job'.input = job.input
              /\ job'.moved = job.moved /\ job'.quote = Newest
          BY <2>0, <3>2, <4>1 DEF Jobs, Places
        <4> QED
          BY <1>1, <2>0, <2>1, <4>1, <4>2 DEF PrepareAnswer, Outcome, Continues
      <3> QED
        BY <2>1, <3>1, <3>2 DEF PrepareAnswer
    <2>2. CASE PrepareFails
      <3>1. CASE UNCHANGED quotes
        BY <2>0, <2>2, <3>1 DEF PrepareFails, Outcome
      <3>2. CASE quotes' = [quotes EXCEPT ![job.quote].fate = "prepared", ![job.quote].lost = TRUE]
        <4> DEFINE r == [quotes[job.quote] EXCEPT !.fate = "prepared", !.lost = TRUE]
        <4>1. r \in Quotes /\ r.input = quotes[job.quote].input
              /\ r.stray = quotes[job.quote].stray
          BY <1>1, JobAtWork DEF Quotes
        <4>2. quotes' = [quotes EXCEPT ![job.quote] = r]
          BY <1>1, <3>2, JobAtWork DEF Quotes, Shape, StoreShape
        <4> HIDE DEF r
        <4>3. Grows
          BY <2>0, <4>1, <4>2, Changes
        <4> QED
          BY <2>2, <4>3 DEF PrepareFails, Outcome
      <3> QED
        BY <2>2, <3>1, <3>2 DEF PrepareFails
    <2>3. CASE HeightFails
      BY <1>1, <2>0, <2>3, GivesBackOutcome DEF HeightFails, Outcome
    <2>4. CASE Gate
      <3>1. CASE /\ job' = [job EXCEPT !.at = "wallet", !.opened = TRUE]
                 /\ view' = [view EXCEPT !.state = "awaiting"]
                 /\ UNCHANGED <<lock, others>>
        <4>1. job' \in Jobs /\ job'.at = "wallet" /\ job'.wallet = job.wallet
              /\ job'.session = job.session /\ job'.input = job.input
              /\ job'.moved = job.moved /\ job'.quote = job.quote
          BY <2>0, <3>1 DEF Jobs, Places
        <4> QED
          BY <2>0, <2>4, <3>1, <4>1 DEF Gate, Outcome, Continues
      <3>2. CASE ApprovalFails \/ (kind # "bridge" /\ GateCloses)
        BY <1>1, <2>0, <2>4, <3>2, WaysOut DEF Gate
      <3> QED
        BY <2>4, <3>1, <3>2 DEF Gate
    <2>5. CASE Poll
      BY <1>1, <2>0, <2>5, WaysOut DEF Poll
    <2>6. CASE WalletSigns
      <3>1. job' \in Jobs /\ job'.at = "signed" /\ job'.wallet = job.wallet
            /\ job'.session = job.session /\ job'.input = job.input
            /\ job'.moved = job.moved /\ job'.quote = job.quote
        BY <2>0, <2>6 DEF WalletSigns, Jobs, Places
      <3> QED
        BY <2>0, <2>6, <3>1 DEF WalletSigns, Outcome, Continues
    <2>7. CASE WalletRefuses
      BY <1>1, <2>0, <2>7, WaysOut DEF WalletRefuses
    <2>8. CASE Signed
      <3>1. CASE UNCHANGED quotes /\ ApprovalFails
        BY <1>1, <2>0, <3>1, WaysOut
      <3>2. CASE UNCHANGED quotes /\ GiveBack("failure")
        BY <1>1, <2>0, <3>2, GivesBackOutcome
      <3>3. CASE UNCHANGED quotes /\ Goes("event", view.state)
        BY <1>1, <2>0, <3>3, GoesOutcome DEF Places
      <3>4. CASE UNCHANGED quotes /\ kind = "swap" /\ Requote(TRUE)
        BY <2>0, <3>4 DEF Outcome
      <3>5. CASE Sends
        BY <1>1, <3>5, SendsOutcome
      <3> QED
        BY <2>8, <3>1, <3>2, <3>3, <3>4, <3>5 DEF Signed
    <2>9. CASE EventAnswer
      BY <1>1, <2>9, SendsOutcome DEF EventAnswer
    <2>10. CASE Confirmed
      <3>1. CASE /\ Becomes(job.quote, "prepared")
                 /\ job' = [job EXCEPT !.at = "height", !.batch = job.batch + 1]
                 /\ UNCHANGED <<view, lock, others, pending>>
        <4>1. Grows
          BY <2>0, <3>1, Decided
        <4>2. job' \in Jobs /\ job'.at = "height" /\ job'.wallet = job.wallet
              /\ job'.session = job.session /\ job'.input = job.input
              /\ job'.moved = job.moved /\ job'.quote = job.quote
          <5>1. job.batch \in Nat /\ job.batch + 1 \in Nat
            BY <2>0 DEF Jobs
          <5> QED
            BY <2>0, <3>1, <5>1 DEF Jobs, Places
        <4> QED
          BY <1>1, <2>0, <3>1, <4>1, <4>2 DEF Outcome, Continues, Grows
      <3>2. CASE /\ UNCHANGED quotes
                 /\ CASE kind \in {"claim", "burn"} -> Goes("refresh", "confirmed")
                      [] kind \in {"recover", "send", "swap"} -> End("confirmed")
                      [] kind = "bridge" -> Goes("poll", "submitting")
        <4>1. CASE kind \in {"claim", "burn"} /\ Goes("refresh", "confirmed")
          BY <1>1, <2>0, <3>2, <4>1, GoesOutcome DEF Places
        <4>2. CASE End("confirmed")
          BY <2>0, <3>2, <4>2 DEF Outcome
        <4>3. CASE Goes("poll", "submitting")
          BY <1>1, <2>0, <3>2, <4>3, GoesOutcome DEF Places
        <4> QED
          BY <3>2, <4>1, <4>2, <4>3, Kinds6
      <3> QED
        BY <2>10, <3>1, <3>2 DEF Confirmed
    <2>11. CASE Unconfirmed
      <3>1. End("pending") \/ End("failure") \/ Goes("poll", "submitting")
        BY <2>11, Kinds6 DEF Unconfirmed
      <3> QED
        BY <1>1, <2>0, <2>11, <3>1, GoesOutcome DEF Unconfirmed, Outcome, Places
    <2>12. CASE SubmitFails
      BY <2>0, <2>12 DEF SubmitFails, Outcome
    <2>13. CASE PollStatus
      BY <2>0, <2>13 DEF PollStatus, Outcome
    <2>14. CASE Aborted
      <3>1. CASE Becomes(job.quote, "aborted")
        <4>1. Grows
          BY <2>0, <3>1, Decided
        <4> QED
          BY <2>14, <4>1, AbortsFollow DEF Aborted
      <3>2. CASE quotes' = [quotes EXCEPT ![job.quote].lost = TRUE]
        <4> DEFINE r == [quotes[job.quote] EXCEPT !.lost = TRUE]
        <4>1. r \in Quotes /\ r.input = quotes[job.quote].input
              /\ r.stray = quotes[job.quote].stray
          BY <1>1, JobAtWork DEF Quotes
        <4>2. quotes' = [quotes EXCEPT ![job.quote] = r]
          BY <3>2
        <4> HIDE DEF r
        <4>3. Grows
          BY <2>0, <4>1, <4>2, Changes
        <4> QED
          BY <2>14, <4>3, AbortsFollow DEF Aborted
      <3> QED
        BY <2>14, <3>1, <3>2 DEF Aborted
    <2> QED
      BY <2>1, <2>2, <2>3, <2>4, <2>5, <2>6, <2>7, <2>8, <2>9, <2>10, <2>11, <2>12, <2>13, <2>14
         DEF Submitting
  <1>6. left' \in 0..2
    BY <1>1, <1>3, JobAtWork
  <1>7. pending' \in [Wallets -> Nat] /\ job.quote <= Len(quotes') /\ 0 <= Len(quotes')
    <2>1. /\ pending \in [Wallets -> Nat] /\ job.quote \in Nat /\ job.quote <= Len(quotes)
          /\ job.wallet \in Wallets
      BY <1>1, JobAtWork
    <2>2. pending' \in [Wallets -> Nat]
      BY <1>4, <2>1
    <2>3. Len(quotes) \in Nat /\ Len(quotes') \in Nat /\ Len(quotes) <= Len(quotes')
      BY <1>5 DEF Grows, Shape, StoreShape
    <2> QED
      BY <2>1, <2>2, <2>3
  <1>8. \A w \in Wallets : pending'[w] = pending[w] \/ pending'[w] <= Len(quotes')
    BY <1>1, <1>4, <1>7, JobAtWork
  <1> QED
    BY <1>1, <1>2, <1>5, <1>6, <1>7, <1>8 DEF Acts

-----------------------------------------------------------------------------
(* The rest of the panel.                                                  *)

\* A panel's step that leaves a submission alone, or drops its last request.
LEMMA ShapeOfPanel ==
  ASSUME Shape, Grows, UNCHANGED kind, account' \in Wallet, form' \in Input,
         confirmed' \in BOOLEAN, armed' \in BOOLEAN, left' \in 0..2, gen' \in {gen, gen + 1},
         view' \in Views, view'.quote \in {0, view.quote} \/ view'.quote <= Len(quotes'),
         acked' \in {acked, view.quote},
         scans' \subseteq Scans, \A s \in scans' : s \in scans \/ s.quote <= Len(quotes'),
         asks' \subseteq Asks, scanned' \in {scanned, scanned + 1}, JobShape',
         pending' \in [Wallets -> Nat],
         \A w \in Wallets : pending'[w] = pending[w] \/ pending'[w] <= Len(quotes')
  PROVE  Shape'
  <1>1. PanelShape /\ RequestShape /\ scanned \in Nat
    BY DEF Shape, RequestShape
  <1>2. Len(quotes) \in Nat /\ Len(quotes') \in Nat /\ Len(quotes) <= Len(quotes')
    BY DEF Shape, StoreShape, Grows
  <1>3. /\ view.quote \in Nat /\ view.quote <= Len(quotes) /\ view'.quote \in Nat
        /\ acked \in Nat /\ acked <= Len(quotes)
    BY <1>1 DEF PanelShape, Views
  <1>4. view'.quote <= Len(quotes') /\ acked' \in Nat /\ acked' <= Len(quotes')
    BY <1>2, <1>3
  <1>5. gen' \in Nat /\ scanned' \in Nat
    BY <1>1 DEF PanelShape
  <1>6. PanelShape'
    BY <1>1, <1>4, <1>5 DEF PanelShape
  <1> QED
    BY <1>5, <1>6, ShapeFollows

LEMMA JobStays ==
  ASSUME Shape, Grows, UNCHANGED <<kind, job, lock>>
  PROVE  JobShape'
  BY DEF Shape, JobShape, Locks, Active, Grows

LEMMA JobDropped ==
  ASSUME Shape, Grows, UNCHANGED kind, job' = AfterAbort,
         \/ lock' = lock /\ kind # "recover"
         \/ lock' = (lock /\ job.at # "preview")
  PROVE  JobShape'
  <1>1. CASE job.at = "preview"
    <2>1. job' = NoJob /\ NoJob \in Jobs /\ NoJob.at = "none" /\ lock' = FALSE
      BY <1>1 DEF AfterAbort, NoJob, Jobs, Places, Wallet, Input, Shape, JobShape, Locks, Active
    <2> QED
      BY <2>1 DEF JobShape, Locks, Active
  <1>2. CASE job.at # "preview"
    <2>1. job' = job /\ lock' = lock
      BY <1>2 DEF AfterAbort, Shape, JobShape
    <2> QED
      BY <2>1, JobStays
  <1> QED
    BY <1>1, <1>2

\* The wallet changes under a submission of Swap.
LEMMA JobMoved ==
  ASSUME Shape, Grows, UNCHANGED <<kind, lock>>, kind = "swap", AfterAbort # NoJob,
         job' = [job EXCEPT !.moved = TRUE]
  PROVE  JobShape'
  <1>1. job.at # "preview" /\ job \in Jobs
    BY DEF AfterAbort, Shape, JobShape
  <1>2. job.at # "none"
    BY <1>1 DEF AfterAbort, Shape, JobShape
  <1>3. /\ job' \in Jobs /\ job'.at = job.at /\ job'.wallet = job.wallet
        /\ job'.session = job.session /\ job'.quote = job.quote /\ job'.next = job.next
    BY <1>1 DEF Jobs
  <1> QED
    BY <1>1, <1>2, <1>3 DEF Shape, JobShape, Locks, Active, Grows

\* What a step that touches little keeps.
LEMMA Standing ==
  ASSUME Shape
  PROVE  /\ kind \in Kinds /\ account \in Wallet /\ form \in Input /\ confirmed \in BOOLEAN
         /\ armed \in BOOLEAN /\ left \in 0..2 /\ gen \in Nat /\ view \in Views
         /\ scans \subseteq Scans /\ asks \subseteq Asks /\ scanned \in Nat
         /\ pending \in [Wallets -> Nat] /\ job \in Jobs /\ lock \in BOOLEAN
         /\ \A w \in Wallets : pending[w] <= Len(quotes)
  BY DEF Shape, PanelShape, RequestShape, StoreShape, JobShape

LEMMA Shown ==
  ASSUME NEW state \in States, NEW session \in Wallet, NEW quote \in Nat
  PROVE  /\ Shows(state, session, quote) \in Views
         /\ Shows(state, session, quote).quote = quote
  BY DEF Shows, Views

LEMMA Reset ==
  ASSUME Shape, NEW state \in States, view' = [view EXCEPT !.state = state, !.quote = 0]
  PROVE  /\ view' \in Views /\ view'.quote = 0 /\ view'.state = state
         /\ view'.session = view.session
  BY Standing DEF Views

LEMMA Loaded ==
  ASSUME Shape, NEW w \in Wallets, Load(w)
  PROVE  /\ scanned' = scanned + 1 /\ scans' \subseteq Scans
         /\ \A s \in scans' : s \in scans \/ s.quote = 0
         /\ \A s \in scans' : s \in scans \/ s.at \in {"find", "session"}
         /\ \A s \in scans' : ~Timed => s \in scans \/ s.at = "session"
         /\ Timed => \A s, t \in scans' : s = t
  <1> DEFINE scan == [n |-> scanned, wallet |-> w, quote |-> 0,
                      at |-> IF kind = "bridge" THEN "find" ELSE "session"]
  <1>1. scan \in Scans /\ scan.quote = 0 /\ scan.at \in {"find", "session"}
    BY Standing DEF Scans
  <1>2. ~Timed => scan.at = "session"
    BY DEF Timed
  <1>3. scanned' = scanned + 1 /\ scans' = IF Timed THEN {scan} ELSE scans \cup {scan}
    BY DEF Load
  <1> HIDE DEF scan
  <1> QED
    BY <1>1, <1>2, <1>3, Standing

LEMMA SwitchShape ==
  ASSUME Shape, NEW w \in Wallet, Switch(w)
  PROVE  Shape'
  <1>1. /\ Grows /\ UNCHANGED <<kind, lock, pending, quotes, acked, left>> /\ account' = w
    BY NothingGrows DEF Switch
  <1>2. JobShape'
    <2>1. CASE Timed
      BY <1>1, <2>1, JobDropped, JobMoved DEF Switch, AfterSwitch, Timed
    <2>2. CASE ~Timed
      BY <1>1, <2>2, JobStays DEF Switch
    <2> QED
      BY <2>1, <2>2
  <1>3. asks' \subseteq Asks /\ gen' \in {gen, gen + 1}
    BY Standing DEF Switch
  <1>4. /\ view' \in Views /\ view'.quote \in {0, view.quote} /\ armed' \in BOOLEAN
        /\ confirmed' \in BOOLEAN /\ form' \in Input
        /\ scanned' \in {scanned, scanned + 1} /\ scans' \subseteq Scans
        /\ \A s \in scans' : s \in scans \/ s.quote = 0
    <2>0. \A state \in {"disconnected", "loading"} :
            /\ Shows(state, NoWallet, 0) \in Views
            /\ Shows(state, NoWallet, 0).quote = 0
      BY DEF Shows, Views, States, Wallet
    <2>1. CASE w = NoWallet /\ view' = Shows("disconnected", NoWallet, 0) /\ armed' = FALSE
               /\ scans' = (IF Timed THEN {} ELSE scans)
               /\ UNCHANGED <<scanned, confirmed, form>>
      BY <2>0, <2>1, Standing
    <2>2. CASE armed' = TRUE /\ scans' = {} /\ UNCHANGED <<view, scanned, confirmed, form>>
      BY <2>2, Standing
    <2>3. CASE /\ w # NoWallet /\ Load(w) /\ armed' = FALSE
               /\ view' = IF kind = "bridge" THEN view ELSE Shows("loading", NoWallet, 0)
               /\ confirmed' = (confirmed /\ ~Confirms)
               /\ form' = IF Confirms THEN NoInput ELSE form
      <3>1. view' \in Views /\ view'.quote \in {0, view.quote}
        BY <2>0, <2>3, Standing
      <3>2. confirmed' \in BOOLEAN /\ form' \in Input
        BY <2>3, Standing DEF Input
      <3>3. w \in Wallets
        BY <2>3 DEF Wallet
      <3> QED
        BY <2>3, <3>1, <3>2, <3>3, Loaded
    <2> QED
      BY <2>1, <2>2, <2>3 DEF Switch
  <1>5. \A s \in scans' : s \in scans \/ s.quote <= Len(quotes')
    BY <1>1, <1>4 DEF Shape, StoreShape
  <1> QED
    BY <1>1, <1>2, <1>3, <1>4, <1>5, Standing, ShapeOfPanel

LEMMA UserShape ==
  ASSUME Shape,
         \/ Scan \/ Preview \/ QuoteTimer \/ Idle \/ Expire \/ Submit
         \/ \E i \in Inputs : Pick(i) \/ Edit(i)
         \/ \E on \in BOOLEAN : Tick(on)
  PROVE  Shape'
  <1> USE DEF inputs, budget
  <1>1. /\ Grows /\ UNCHANGED <<kind, account, pending, quotes, left>>
    BY NothingGrows DEF Scan, Preview, QuoteTimer, Idle, Expire, Submit, Pick, Edit, Tick
  <1>2. /\ kind \in Kinds /\ account \in Wallet /\ form \in Input /\ confirmed \in BOOLEAN
        /\ armed \in BOOLEAN /\ left \in 0..2 /\ gen \in Nat /\ view \in Views
        /\ scans \subseteq Scans /\ asks \subseteq Asks /\ scanned \in Nat
        /\ pending \in [Wallets -> Nat] /\ job \in Jobs /\ view.quote \in Nat
        /\ view.session \in Wallet
    BY Standing DEF Views
  <1>3. Len(quotes') \in Nat
    BY <1>1 DEF Grows
  <1>4. UNCHANGED <<job, lock>> => JobShape'
    BY <1>1, JobStays
  <1>5. job' = AfterAbort /\ lock' = lock /\ kind # "recover" => JobShape'
    BY <1>1, JobDropped
  <1>6. (Timed => kind # "recover") /\ (Guarded => kind # "recover")
    BY DEF Timed, Guarded
  <1>7. CASE Scan
    <2>1. account \in Wallets
      BY <1>2, <1>7 DEF Scan, Wallet
    <2>2. scanned' = scanned + 1 /\ scans' \subseteq Scans
          /\ \A s \in scans' : s \in scans \/ s.quote <= Len(quotes')
      BY <1>3, <1>7, <2>1, Loaded DEF Scan
    <2>3. view' = Shows("loading", NoWallet, 0)
          /\ Shows("loading", NoWallet, 0) \in Views /\ Shows("loading", NoWallet, 0).quote = 0
      BY <1>7 DEF Scan, Shows, Views, States, Wallet
    <2>4. JobShape'
      BY <1>4, <1>7 DEF Scan
    <2>5. form' \in Input /\ confirmed' \in BOOLEAN /\ gen' \in {gen, gen + 1}
          /\ asks' \subseteq Asks /\ UNCHANGED <<armed, acked>>
      BY <1>2, <1>7 DEF Scan, Input
    <2> QED
      BY <1>1, <1>2, <2>2, <2>3, <2>4, <2>5, ShapeOfPanel
  <1>8. CASE Preview
    <2>1. /\ gen' = gen + 1 /\ asks' \subseteq Asks /\ view' \in Views /\ view'.quote = 0
      BY <1>2, <1>8, Requests DEF Preview, Wallet
    <2>2. JobShape'
      BY <1>4, <1>8 DEF Preview
    <2> QED
      BY <1>1, <1>2, <1>8, <2>1, <2>2, ShapeOfPanel DEF Preview
  <1>9. CASE QuoteTimer
    <2>1. /\ gen' \in {gen, gen + 1} /\ asks' \subseteq Asks /\ view' \in Views
          /\ view'.quote \in {0, view.quote}
      BY <1>2, <1>9, Requests DEF QuoteTimer, Wallet
    <2>2. JobShape'
      BY <1>4, <1>5, <1>6, <1>9 DEF QuoteTimer
    <2> QED
      BY <1>1, <1>2, <1>9, <2>1, <2>2, ShapeOfPanel DEF QuoteTimer
  <1>10. CASE Idle
    <2>1. JobShape'
      BY <1>5, <1>10 DEF Idle
    <2>2. gen' = gen + 1 /\ asks' = {} /\ armed' \in BOOLEAN
          /\ UNCHANGED <<form, view, confirmed, scans, acked, scanned>>
      BY <1>10 DEF Idle
    <2> QED
      BY <1>1, <1>2, <2>1, <2>2, ShapeOfPanel
  <1>11. CASE Expire
    <2>1. JobShape'
      BY <1>4, <1>11 DEF Expire
    <2>2. view' \in Views /\ view'.quote = 0
      BY <1>2, <1>11 DEF Expire, Views, States
    <2>3. UNCHANGED <<form, confirmed, armed, gen, scans, asks, acked, scanned>>
      BY <1>11 DEF Expire
    <2> QED
      BY <1>1, <1>2, <2>1, <2>2, <2>3, ShapeOfPanel
  <1>12. CASE Submit
    <2>1. view.quote \in DOMAIN quotes /\ account \in Wallets /\ view.session \in Wallets
      BY <1>2, <1>12 DEF Submit, Wallet, Shape, PanelShape, StoreShape
    <2>2. /\ job' \in Jobs /\ job'.at = "prepare" /\ job'.wallet = account
          /\ job'.session = view.session /\ job'.quote = view.quote /\ lock' = TRUE
      BY <1>2, <1>12, <2>1 DEF Submit, NoJob, Jobs, Places, Wallet
    <2>3. JobShape'
      BY <1>1, <2>1, <2>2 DEF JobShape, Locks, Active
    <2>4. view' \in Views /\ view'.quote = view.quote
      BY <1>2, <1>12 DEF Submit, Views, States
    <2>5. gen' \in {gen, gen + 1} /\ asks' \subseteq Asks
          /\ UNCHANGED <<form, confirmed, armed, scans, acked, scanned>>
      BY <1>2, <1>12 DEF Submit
    <2> QED
      BY <1>1, <1>2, <2>3, <2>4, <2>5, ShapeOfPanel
  <1>13. ASSUME NEW i \in Inputs, Pick(i)
         PROVE  Shape'
    <2>1. /\ gen' = gen + 1 /\ asks' \subseteq Asks /\ view' \in Views /\ view'.quote = 0
      BY <1>2, <1>13, Requests DEF Pick, Wallet, Input
    <2>2. JobShape'
      BY <1>4, <1>13 DEF Pick
    <2>3. form' = i /\ confirmed' = FALSE /\ UNCHANGED <<armed, scans, acked, scanned>>
      BY <1>13 DEF Pick
    <2> QED
      BY <1>1, <1>2, <2>1, <2>2, <2>3, ShapeOfPanel DEF Input
  <1>14. ASSUME NEW i \in Inputs, Edit(i)
         PROVE  Shape'
    <2>1. view' \in Views /\ view'.quote = 0
      BY <1>2, <1>14 DEF Edit, Invalidate, Views, States
    <2>2. JobShape'
      BY <1>5, <1>6, <1>14 DEF Edit, Invalidate
    <2>3. gen' = gen + 1 /\ asks' = {} /\ form' = i /\ armed' \in BOOLEAN
          /\ UNCHANGED <<confirmed, scans, acked, scanned>>
      BY <1>14 DEF Edit, Invalidate
    <2> QED
      BY <1>1, <1>2, <2>1, <2>2, <2>3, ShapeOfPanel DEF Input
  <1>15. ASSUME NEW on \in BOOLEAN, Tick(on)
         PROVE  Shape'
    <2>1. JobShape'
      BY <1>4, <1>15 DEF Tick
    <2>2. confirmed' \in BOOLEAN /\ acked' \in {acked, view.quote}
          /\ UNCHANGED <<form, view, gen, armed, scans, asks, scanned>>
      BY <1>15 DEF Tick
    <2> QED
      BY <1>1, <1>2, <2>1, <2>2, ShapeOfPanel
  <1> QED
    BY <1>7, <1>8, <1>9, <1>10, <1>11, <1>12, <1>13, <1>14, <1>15

LEMMA RefreshShape ==
  ASSUME Shape, Refreshed
  PROVE  Shape'
  <1>1. Active /\ Grows
    BY NothingGrows DEF Refreshed, Active
  <1>2. NoJob \in Jobs /\ NoJob.at = "none"
    BY DEF NoJob, Jobs, Places, Wallet, Input
  <1>3. JobShape'
    BY <1>2 DEF Refreshed, JobShape, Locks, Active
  <1>4. view' \in Views /\ view'.quote = 0
    BY <1>1, JobAtWork DEF Refreshed, Shows, Views, States, Wallet
  <1> QED
    BY <1>1, <1>3, <1>4, Standing, ShapeOfPanel DEF Refreshed, jobFrame, others, budget

LEMMA ScanShape ==
  ASSUME Shape, Scanning
  PROVE  Shape'
  <1> USE DEF scanFrame, inputs, budget
  <1>1. PICK s \in scans : SessionAnswer(s) \/ StatusAnswer(s) \/ FindAnswer(s) \/ ScanFails(s)
    BY DEF Scanning
  <1>2. s \in Scans /\ s.wallet \in Wallets /\ s.wallet \in Wallet /\ s.quote <= Len(quotes)
    BY DEF Shape, RequestShape, Scans, Wallet
  <1>3. /\ kind \in Kinds /\ account \in Wallet /\ form \in Input /\ confirmed \in BOOLEAN
        /\ armed \in BOOLEAN /\ left \in 0..2 /\ gen \in Nat /\ view \in Views
        /\ scans \subseteq Scans /\ asks \subseteq Asks /\ scanned \in Nat
        /\ pending \in [Wallets -> Nat] /\ Len(quotes) \in Nat
    BY Standing DEF Shape, StoreShape
  <1>4. /\ UNCHANGED <<kind, account, form, confirmed, lock, gen, asks, job, acked, left, scanned>>
        /\ UNCHANGED quotes \/ Issue(s.wallet, NoInput, "quoted", FALSE)
    BY <1>1 DEF SessionAnswer, StatusAnswer, FindAnswer, ScanFails
  <1>5. Grows /\ Len(quotes') \in Nat /\ (~UNCHANGED quotes => Newest = Len(quotes'))
    <2>1. NoInput \in Input
      BY DEF Input
    <2>2. CASE UNCHANGED quotes
      BY <1>3, <2>2, NothingGrows
    <2>3. CASE Issue(s.wallet, NoInput, "quoted", FALSE)
      <3>1. Grows /\ Len(quotes') = Len(quotes) + 1
        BY <1>2, <2>1, <2>3, IssuesPlain, Zenon
      <3> QED
        BY <1>3, <3>1 DEF Newest
    <2> QED
      BY <1>4, <2>2, <2>3
  <1>6. JobShape'
    BY <1>4, <1>5, JobStays
  <1>7. armed' \in BOOLEAN
    BY <1>1, <1>3 DEF SessionAnswer, StatusAnswer, FindAnswer, ScanFails
  <1>8. \/ pending' = pending
        \/ pending' = [pending EXCEPT ![s.wallet] = 0]
    BY <1>1 DEF SessionAnswer, StatusAnswer, FindAnswer, ScanFails
  <1>9. pending' \in [Wallets -> Nat]
        /\ \A w \in Wallets : pending'[w] = pending[w] \/ pending'[w] <= Len(quotes')
    BY <1>3, <1>5, <1>8
  <1>10. view' \in Views /\ (view'.quote \in {0, view.quote} \/ view'.quote <= Len(quotes'))
    <2>1. ASSUME NEW state \in States, NEW session \in Wallet, NEW quote \in Nat,
                 view' = Shows(state, session, quote),
                 quote = 0 \/ quote <= Len(quotes')
          PROVE  view' \in Views /\ (view'.quote \in {0, view.quote} \/ view'.quote <= Len(quotes'))
      BY <2>1, Shown
    <2>2. \/ UNCHANGED view
          \/ \E state \in {"confirmed", "pending", "failure", "idle"}, w \in {s.wallet, NoWallet} :
               view' = Shows(state, w, 0)
          \/ view' = Shows("ready", s.wallet, Newest) /\ Issue(s.wallet, NoInput, "quoted", FALSE)
      BY <1>1 DEF SessionAnswer, StatusAnswer, FindAnswer, ScanFails
    <2>3. Issue(s.wallet, NoInput, "quoted", FALSE) => Newest \in Nat /\ Newest <= Len(quotes')
      <3>1. Issue(s.wallet, NoInput, "quoted", FALSE) => Len(quotes') = Len(quotes) + 1
        <4>1. NoInput \in Input
          BY DEF Input
        <4> QED
          BY <1>2, <4>1, IssuesPlain, Zenon
      <3> QED
        BY <1>3, <3>1 DEF Newest
    <2> QED
      BY <1>2, <1>3, <2>1, <2>2, <2>3 DEF States, Wallet
  <1>11. scans' \subseteq Scans /\ \A t \in scans' : t \in scans \/ t.quote <= Len(quotes')
    <2>1. ASSUME NEW at \in {"session", "status", "find", "refresh"}, NEW q \in Nat,
                 q <= Len(quotes'), GoOn(s, at, q)
          PROVE  scans' \subseteq Scans /\ \A t \in scans' : t \in scans \/ t.quote <= Len(quotes')
      <3>1. [s EXCEPT !.at = at, !.quote = q] \in Scans
            /\ [s EXCEPT !.at = at, !.quote = q].quote = q
        BY <1>2 DEF Scans
      <3> QED
        BY <1>3, <2>1, <3>1 DEF GoOn
    <2>2. Drop(s) => scans' \subseteq Scans /\ \A t \in scans' : t \in scans
      BY <1>3 DEF Drop
    <2>3. pending[s.wallet] \in Nat /\ pending[s.wallet] <= Len(quotes)
      BY <1>2, Standing
    <2>4. /\ pending[s.wallet] <= Len(quotes') /\ 0 <= Len(quotes')
      BY <1>3, <1>5, <2>3 DEF Grows
    <2>5. \/ Drop(s) \/ GoOn(s, "status", pending[s.wallet]) \/ GoOn(s, "find", 0)
          \/ GoOn(s, "refresh", 0)
      BY <1>1 DEF SessionAnswer, StatusAnswer, FindAnswer, ScanFails
    <2> QED
      BY <2>1, <2>2, <2>3, <2>4, <2>5
  <1> QED
    BY <1>3, <1>4, <1>5, <1>6, <1>7, <1>9, <1>10, <1>11, ShapeOfPanel

LEMMA AskShape ==
  ASSUME Shape, Asking
  PROVE  Shape'
  <1> USE DEF inputs, budget
  <1>1. PICK a \in asks : AskAnswered(a) \/ AskFails(a)
    BY DEF Asking
  <1>2. a.wallet \in Wallets /\ a.input \in Input /\ a.stray \in BOOLEAN
    BY DEF Shape, RequestShape, Asks
  <1>3. /\ kind \in Kinds /\ account \in Wallet /\ form \in Input /\ confirmed \in BOOLEAN
        /\ armed \in BOOLEAN /\ left \in 0..2 /\ gen \in Nat /\ view \in Views
        /\ scans \subseteq Scans /\ asks \subseteq Asks /\ scanned \in Nat
        /\ pending \in [Wallets -> Nat] /\ Len(quotes) \in Nat
    BY Standing DEF Shape, StoreShape
  <1>4. /\ UNCHANGED <<kind, account, form, confirmed, gen, armed, scans, pending, acked, left,
                       scanned>>
        /\ asks' = asks \ {a} /\ job' = AfterAbort /\ lock' = (lock /\ job.at # "preview")
    BY <1>1 DEF AskAnswered, AskFails, askEnd
  <1>5. Grows /\ (Issue(a.wallet, a.input, "quoted", a.stray) =>
                   Newest \in Nat /\ Newest <= Len(quotes'))
    <2>1. UNCHANGED quotes \/ Issue(a.wallet, a.input, "quoted", a.stray)
      BY <1>1 DEF AskAnswered, AskFails
    <2> QED
      BY <1>2, <1>3, <2>1, NothingGrows, Issues DEF Newest
  <1>6. JobShape'
    BY <1>4, <1>5, JobDropped
  <1>7. view' \in Views /\ (view'.quote \in {0, view.quote} \/ view'.quote <= Len(quotes'))
    <2>1. CASE UNCHANGED view
      BY <1>3, <2>1
    <2>2. CASE view' = [view EXCEPT !.state = "failure", !.quote = 0]
      BY <1>3, <2>2 DEF Views, States
    <2>3. CASE view' = [view EXCEPT !.state = "ready", !.quote = Newest]
               /\ Issue(a.wallet, a.input, "quoted", a.stray)
      BY <1>3, <1>5, <2>3 DEF Views, States
    <2> QED
      BY <1>1, <2>1, <2>2, <2>3 DEF AskAnswered, AskFails
  <1> QED
    BY <1>3, <1>4, <1>5, <1>6, <1>7, ShapeOfPanel

LEMMA NetworkShape ==
  ASSUME Shape, Network
  PROVE  Shape'
  <1> USE DEF jobFrame, others, budget
  <1>1. /\ UNCHANGED <<kind, account, armed, scans, acked, scanned, job, lock, view, form,
                       confirmed, gen, asks, pending>>
        /\ left' \in {left, left - 1} /\ (left' # left => left > 0)
    BY DEF Network, Taken, NetworkDecides, Block
  <1>2. Grows
    <2>1. job.at = "submit" => job.quote \in DOMAIN quotes
      BY DEF Shape, JobShape
    <2> QED
      BY <2>1, NothingGrows, Decided DEF Network, Taken, NetworkDecides, Block
  <1>3. left' \in 0..2
    BY <1>1, Standing
  <1>4. JobShape'
    BY <1>1, <1>2, JobStays
  <1> QED
    BY <1>1, <1>2, <1>3, <1>4, Standing, ShapeOfPanel

LEMMA ShapeHolds == Spec => []Shape
  <1>1. Init => Shape
    <2> SUFFICES ASSUME Init
                 PROVE  Shape
      OBVIOUS
    <2>1. Shows("disconnected", NoWallet, 0) \in Views
          /\ Shows("disconnected", NoWallet, 0).quote = 0
      BY DEF Shows, Views, States, Wallet
    <2>2. PanelShape
      <3>1. Len(quotes) = 0 /\ view = Shows("disconnected", NoWallet, 0) /\ acked = 0 /\ gen = 0
            /\ left = 2
        BY DEF Init
      <3>2. view \in Views /\ view.quote <= Len(quotes)
        BY <2>1, <3>1
      <3>3. kind \in Kinds /\ account \in Wallet /\ form \in Input /\ confirmed \in BOOLEAN
            /\ armed \in BOOLEAN
        BY DEF Init, Wallet, Input
      <3> QED
        BY <3>1, <3>2, <3>3 DEF PanelShape
    <2>3. NoJob \in Jobs /\ NoJob.at = "none"
      BY DEF NoJob, Jobs, Places, Wallet, Input
    <2>4. JobShape
      BY <2>3 DEF Init, JobShape, Locks, Active
    <2> QED
      BY <2>2, <2>4 DEF Init, Shape, RequestShape, StoreShape
  <1>2. Shape /\ [Next]_vars => Shape'
    <2> SUFFICES ASSUME Shape, [Next]_vars
                 PROVE  Shape'
      OBVIOUS
    <2>1. CASE UNCHANGED vars
      BY <2>1 DEF vars, Shape, PanelShape, RequestShape, JobShape, StoreShape, Locks, Active
    <2>2. CASE \E w \in Wallets \cup {NoWallet} : Switch(w)
      BY <2>2, SwitchShape DEF Wallet
    <2>3. CASE (Submitting \/ WalletSigns \/ WalletRefuses) /\ ~Refreshed
      BY <2>3, SubmissionActs, ShapeOfOutcome DEF Acts
    <2> QED
      BY <2>1, <2>2, <2>3, UserShape, RefreshShape, ScanShape, AskShape, NetworkShape
         DEF Next, User
  <1> QED
    BY <1>1, <1>2, PTL DEF Spec

(* Every state of a panel is one it can hold: the view, the lock, the      *)
(* submission and the quotes they name belong to each other.               *)
THEOREM TypeCorrect == Spec => []TypeOK
  <1>1. Shape => TypeOK
    <2> SUFFICES ASSUME Shape
                 PROVE  TypeOK
      OBVIOUS
    <2>1. PanelShape /\ JobShape /\ StoreShape
      BY DEF Shape
    <2>2. /\ view.state \in States /\ view.session \in Wallet /\ view.quote \in 0..Len(quotes)
          /\ acked \in 0..Len(quotes)
      BY <2>1 DEF PanelShape, Views, StoreShape
    <2>3. job.at \in Places /\ (job # NoJob => job.quote \in DOMAIN quotes)
      BY <2>1 DEF JobShape, Jobs
    <2>4. job = NoJob => ~lock
      BY <2>1 DEF JobShape, Locks, Active, NoJob
    <2>5. \A w \in Wallets : pending[w] \in 0..Len(quotes)
      BY <2>1 DEF StoreShape
    <2> QED
      BY <2>1, <2>2, <2>3, <2>4, <2>5 DEF TypeOK, PanelShape, JobShape, Wallet, Input
  <1> QED
    BY <1>1, ShapeHolds, PTL

-----------------------------------------------------------------------------
(* What Send, Swap and Cross-chain offer.                                  *)

\* What the panel offers is a quote, and the guarded panels' quote is the form's
\* or one that Swap asked for after the wallet had changed.
Offers ==
  view.state = "ready" =>
    /\ view.quote \in DOMAIN quotes
    /\ Guarded => \/ quotes[view.quote].input = form
                  \/ kind = "swap" /\ quotes[view.quote].stray

\* The newest request asks about the form, but for the one of such a submission.
AsksForm ==
  Guarded => \A a \in asks : a.gen = gen => a.input = form \/ (kind = "swap" /\ a.stray)

\* Send asks for nothing while it submits, nor until its result is cleared.
SendAsksNothing ==
  kind = "send" /\ (lock \/ view.state = "confirmed") => asks = {}

\* A submission under the wallet it began with.
Sticks == Active /\ ~job.moved

\* Swap discovers one wallet at a time, without a session; while it submits,
\* and the wallet stays, its form is locked and it discovers nothing.
SwapStands ==
  kind = "swap" =>
    /\ \A s, t \in scans : s = t
    /\ scans # {} => view.session = NoWallet
    /\ Sticks => job.input = form /\ Busy /\ scans = {}

ScansKnow == ~Remembers => \A s \in scans : s.at \in {"session", "find"}

OfferInv == Offers /\ AsksForm /\ SendAsksNothing /\ SwapStands /\ ScansKnow

\* The offer on screen stays what it was.
LEMMA OffersStay ==
  ASSUME Offers, Grows, UNCHANGED kind, view'.state = "ready" => UNCHANGED <<view, form>>
  PROVE  Offers'
  BY DEF Offers, Grows, Guarded

LEMMA SubmissionOffers ==
  ASSUME Shape, OfferInv, Acts
  PROVE  OfferInv'
  <1>1. /\ Active /\ Grows /\ Outcome /\ UNCHANGED <<kind, scans>> /\ job \in Jobs /\ view \in Views
        /\ job.wallet \in Wallets /\ job.session \in Wallets /\ job.input \in Input /\ lock = TRUE
        /\ job.moved \in BOOLEAN
    BY JobAtWork, Standing DEF Acts
  <1>2. ScansKnow'
    BY <1>1 DEF OfferInv, ScansKnow, Remembers
  <1>3. CASE Continues
    <2>1. /\ UNCHANGED <<lock, form, gen, asks>> /\ job'.input = job.input
          /\ job'.moved = job.moved /\ view'.session = view.session
          /\ UNCHANGED view \/ view'.state \in {"awaiting", "submitting"}
             \/ (view'.state = "confirmed" /\ kind \in {"claim", "burn"})
      BY <1>1, <1>3 DEF Continues, others, Views
    <2>2. Offers'
      BY <1>1, <2>1, OffersStay DEF OfferInv
    <2>3. AsksForm' /\ SendAsksNothing'
      BY <1>1, <2>1 DEF OfferInv, AsksForm, SendAsksNothing, Guarded
    <2>4. SwapStands'
      BY <1>1, <2>1 DEF OfferInv, SwapStands, Sticks, Busy
    <2> QED
      BY <1>2, <2>2, <2>3, <2>4 DEF OfferInv
  <1>4. ASSUME NEW state \in {"failure", "pending", "confirmed"}, End(state)
        PROVE  OfferInv'
    <2>1. /\ UNCHANGED <<form, gen, asks>> /\ job'.at = "none" /\ lock' = FALSE
          /\ view'.session = view.session /\ view'.state = state
      BY <1>1, <1>4 DEF End, others, Views, NoJob
    <2>2. Offers'
      BY <2>1 DEF Offers
    <2>3. AsksForm' /\ SendAsksNothing'
      BY <1>1, <2>1 DEF OfferInv, AsksForm, SendAsksNothing, Guarded
    <2>4. SwapStands'
      BY <1>1, <2>1 DEF OfferInv, SwapStands, Sticks, Active
    <2> QED
      BY <1>2, <2>2, <2>3, <2>4 DEF OfferInv
  <1>5. ASSUME kind \in {"recover", "swap"}, NEW keep \in BOOLEAN, Requote(keep)
        PROVE  OfferInv'
    <2>1. /\ gen' = gen + 1 /\ gen' \in Nat /\ view'.state = "quoting"
          /\ view'.session = view.session
          /\ ~Confirms => asks' = {Ask(gen', job.wallet, job.session, job.input, job.moved)}
      <3>1. Request(job.wallet, job.session, job.input, job.moved)
        BY <1>5 DEF Requote
      <3>2. /\ job.wallet \in Wallets /\ job.session \in Wallets /\ job.input \in Input
            /\ job.moved \in BOOLEAN
        BY <1>1
      <3> QED
        BY <3>1, <3>2, Requests, ZenonT(60)
    <2>2. job'.at = "preview" /\ form' = (IF kind = "recover" THEN job.input ELSE form)
      BY <1>1, <1>5 DEF Requote, Jobs
    <2>3. Offers'
      BY <2>1 DEF Offers
    <2>4. AsksForm' /\ SendAsksNothing'
      BY <1>1, <1>5, <2>1, <2>2
         DEF OfferInv, AsksForm, SendAsksNothing, SwapStands, Sticks, Guarded, Confirms, Ask
    <2>5. SwapStands'
      BY <1>1, <2>1, <2>2 DEF OfferInv, SwapStands, Sticks, Active
    <2> QED
      BY <1>2, <2>3, <2>4, <2>5 DEF OfferInv
  <1> QED
    BY <1>1, <1>3, <1>4, <1>5 DEF Outcome

\* Leaving the submission alone, dropping its last request, or noting that the
\* wallet has changed under it.
Rests ==
  job' = job \/ job' = AfterAbort \/ (kind = "swap" /\ job' = [job EXCEPT !.moved = TRUE])

LEMMA Resting ==
  ASSUME Shape, Rests
  PROVE  Sticks' => Sticks /\ job' = job
  <1>1. job \in Jobs
    BY Standing
  <1>2. CASE job' = [job EXCEPT !.moved = TRUE]
    BY <1>1, <1>2 DEF Sticks, Jobs
  <1> QED
    BY <1>2 DEF Rests, AfterAbort, Active, Sticks, NoJob

\* A step of the rest of the panel, by what it does to the view and the requests.
LEMMA PanelOffers ==
  ASSUME Shape, OfferInv, Grows, UNCHANGED kind, Rests,
         view'.state = "ready" => UNCHANGED <<view, form>> \/ Offers',
         \/ asks' \subseteq asks /\ UNCHANGED <<gen, form>>
         \/ asks' = {}
         \/ Guarded => \A a \in asks' : a.input = form',
         kind = "send" /\ lock' => asks' \subseteq asks /\ lock,
         kind = "send" /\ view'.state = "confirmed" =>
           asks' \subseteq asks /\ view.state = "confirmed",
         kind = "swap" => \/ /\ UNCHANGED scans /\ view'.session = view.session
                             /\ Sticks' => UNCHANGED form /\ view'.state = view.state
                          \/ scans' = {} /\ ~Sticks'
                          \/ /\ ~Sticks' /\ view'.session = NoWallet
                             /\ \A s, t \in scans' : s = t,
         ScansKnow'
  PROVE  OfferInv'
  <1>1. Offers'
    BY OffersStay DEF OfferInv
  <1>2. AsksForm'
    BY DEF OfferInv, AsksForm, Guarded
  <1>3. SendAsksNothing'
    BY DEF OfferInv, SendAsksNothing
  <1>4. SwapStands'
    BY Resting DEF OfferInv, SwapStands, Busy
  <1> QED
    BY <1>1, <1>2, <1>3, <1>4 DEF OfferInv

LEMMA SwitchOffers ==
  ASSUME Shape, OfferInv, NEW w \in Wallet, Switch(w)
  PROVE  OfferInv'
  <1>1. /\ Grows /\ UNCHANGED <<kind, lock, quotes>> /\ Rests
        /\ IF Timed THEN asks' = {} ELSE asks' = asks /\ gen' = gen /\ job' = job
    BY NothingGrows DEF Switch, AfterSwitch, Rests
  <1>2. kind = "swap" => ~Sticks'
    BY Standing DEF Switch, AfterSwitch, AfterAbort, Sticks, Active, NoJob, Jobs, Timed
  <1>3. /\ \/ view' = view /\ kind = "bridge"
           \/ view'.state \in {"disconnected", "loading"} /\ view'.session = NoWallet
        /\ form' = form \/ Confirms
        /\ Timed => \A s, t \in scans' : s = t
        /\ \A s \in scans' : s \in scans \/ s.at \in {"session", "find"}
        /\ ~Timed => \A s \in scans' : s \in scans \/ s.at = "session"
    <2>1. CASE /\ w = NoWallet /\ view' = Shows("disconnected", NoWallet, 0)
               /\ scans' = (IF Timed THEN {} ELSE scans)
               /\ form' = form
      BY <2>1 DEF Shows
    <2>2. CASE w # NoWallet /\ Overtaken /\ scans' = {} /\ UNCHANGED <<view, form>>
      BY <2>2 DEF Overtaken
    <2>3. CASE /\ w # NoWallet /\ Load(w)
               /\ view' = IF kind = "bridge" THEN view ELSE Shows("loading", NoWallet, 0)
               /\ form' = IF Confirms THEN NoInput ELSE form
      <3>1. w \in Wallets
        BY <2>3 DEF Wallet
      <3> QED
        BY <2>3, <3>1, Loaded DEF Shows
    <2> QED
      BY <2>1, <2>2, <2>3 DEF Switch
  <1>4. ScansKnow'
    BY <1>1, <1>3 DEF OfferInv, ScansKnow, Remembers
  <1>5. view'.state = "ready" => UNCHANGED <<view, form>>
    BY <1>3 DEF Confirms
  <1>6. (Confirms => ~Guarded) /\ (kind = "send" => ~Timed /\ ~Confirms) /\ (kind = "swap" => Timed)
    BY DEF Confirms, Guarded, Timed
  <1> QED
    BY <1>1, <1>2, <1>3, <1>4, <1>5, <1>6, PanelOffers

LEMMA SubmitOffers ==
  ASSUME Shape, OfferInv, Submit
  PROVE  OfferInv'
  <1> USE DEF inputs, budget
  <1>1. /\ Grows /\ UNCHANGED <<kind, form, scans, quotes>> /\ view \in Views /\ lock' = TRUE
        /\ job' \in Jobs /\ job'.input = form
        /\ IF kind \in {"send", "swap"} THEN asks' = {} ELSE asks' = asks /\ gen' = gen
    BY NothingGrows, Standing DEF Submit, NoJob, Jobs, Places, Wallet, Shape, PanelShape, Views
  <1>2. /\ IF kind = "burn" THEN view' = view ELSE view'.state = "preparing"
        /\ view'.session = view.session
    BY <1>1 DEF Submit, Views
  <1>3. Offers'
    BY <1>1, <1>2, OffersStay DEF OfferInv
  <1>4. AsksForm' /\ SendAsksNothing'
    BY <1>1, <1>2 DEF OfferInv, AsksForm, SendAsksNothing, Guarded
  <1>5. kind = "swap" => scans = {}
    BY DEF OfferInv, SwapStands, Submit
  <1>6. SwapStands'
    BY <1>1, <1>2, <1>5 DEF SwapStands, Busy
  <1>7. ScansKnow'
    BY <1>1 DEF OfferInv, ScansKnow, Remembers
  <1> QED
    BY <1>3, <1>4, <1>6, <1>7 DEF OfferInv

LEMMA UserOffers ==
  ASSUME Shape, OfferInv,
         \/ Scan \/ Preview \/ QuoteTimer \/ Idle \/ Expire
         \/ \E i \in Inputs : Pick(i) \/ Edit(i)
         \/ \E on \in BOOLEAN : Tick(on)
  PROVE  OfferInv'
  <1> USE DEF inputs, budget
  <1>1. /\ Grows /\ UNCHANGED <<kind, lock, quotes>> /\ Rests
    BY NothingGrows
       DEF Scan, Preview, QuoteTimer, Idle, Expire, Pick, Edit, Tick, Invalidate, Rests
  <1>2. view \in Views /\ account \in Wallet /\ view.session \in Wallet /\ form \in Input
    BY Standing DEF Views
  <1>3. /\ Active => lock = TRUE
        /\ ~Sticks => ~Sticks'
    BY JobAtWork, <1>1, Resting
  <1>4. (Confirms => ~Guarded) /\ (kind = "send" => ~Timed /\ ~Confirms /\ Guarded)
        /\ (kind = "swap" => Timed /\ Guarded /\ ~Confirms) /\ (Timed => Guarded)
    BY DEF Confirms, Guarded, Timed
  <1>5. UNCHANGED scans => ScansKnow'
    BY <1>1 DEF OfferInv, ScansKnow, Remembers
  <1>6. kind = "swap" /\ Sticks => Busy
    BY DEF OfferInv, SwapStands
  <1>7. CASE Scan
    <2>1. account \in Wallets
      BY <1>2, <1>7 DEF Scan, Wallet
    <2>2. /\ \A s \in scans' : s \in scans \/ s.at \in {"session", "find"}
          /\ kind = "swap" => \A s, t \in scans' : s = t
      BY <1>4, <1>7, <2>1, Loaded DEF Scan
    <2>3. view'.state = "loading" /\ view'.session = NoWallet
      BY <1>7 DEF Scan, Shows
    <2>4. kind = "send" => asks = {} /\ asks' = {}
      BY <1>7 DEF Scan, Guarded, OfferInv, SendAsksNothing
    <2>5. kind = "swap" => asks' = {} /\ ~Sticks'
      BY <1>3, <1>6, <1>7 DEF Scan, Guarded, Busy
    <2>6. Guarded => asks' = {}
      BY <1>7, <2>4, <2>5 DEF Scan, Guarded
    <2>7. ScansKnow'
      BY <1>1, <2>2 DEF OfferInv, ScansKnow, Remembers
    <2> QED
      BY <1>1, <2>2, <2>3, <2>4, <2>5, <2>6, <2>7, PanelOffers
  <1>8. ASSUME NEW i \in Input, Request(account, view.session, i, FALSE), i = form',
               UNCHANGED scans, account # NoWallet, view.session # NoWallet, kind = "send" => ~lock,
               kind = "swap" => ~Active
        PROVE  OfferInv'
    <2>0. kind = "swap" => ~Sticks'
      BY <1>3, <1>8 DEF Sticks
    <2>1. /\ view'.state = "quoting" /\ view'.session = view.session
          /\ ~Confirms => asks' = {Ask(gen', account, view.session, i, FALSE)}
      BY <1>2, <1>8, Requests DEF Wallet
    <2>2. Guarded => \A a \in asks' : a.input = form'
      BY <1>4, <1>8, <2>1 DEF Ask
    <2> QED
      BY <1>1, <1>4, <1>5, <1>8, <2>0, <2>1, <2>2, PanelOffers
  <1>9. CASE Preview
    <2>1. kind = "swap" => ~Active
      BY <1>9 DEF Preview, Active, NoJob
    <2> QED
      BY <1>2, <1>8, <1>9, <2>1 DEF Preview
  <1>10. CASE QuoteTimer
    <2>1. CASE UNCHANGED <<gen, asks, view, job>>
      <3>1. UNCHANGED <<scans, form>>
        BY <1>10 DEF QuoteTimer
      <3> QED
        BY <1>1, <1>5, <2>1, <3>1, PanelOffers
    <2>2. CASE ~(lock /\ kind = "swap")
      BY <1>2, <1>3, <1>4, <1>8, <1>10, <2>2 DEF QuoteTimer
    <2> QED
      BY <1>10, <2>1, <2>2 DEF QuoteTimer
  <1>11. CASE Idle
    <2>1. asks' = {} /\ UNCHANGED <<scans, form, view>> /\ kind = "swap"
      BY <1>11 DEF Idle
    <2> QED
      BY <1>1, <1>5, <2>1, PanelOffers
  <1>12. CASE Expire
    <2>1. view'.state = "failure" /\ UNCHANGED <<asks, gen, form, scans>> /\ kind = "bridge"
      BY <1>2, <1>12 DEF Expire, Views
    <2> QED
      BY <1>1, <1>5, <2>1, PanelOffers
  <1>13. ASSUME NEW i \in Inputs, Pick(i)
         PROVE  OfferInv'
    BY <1>2, <1>4, <1>8, <1>13 DEF Pick, Input
  <1>14. ASSUME NEW i \in Inputs, Edit(i)
         PROVE  OfferInv'
    <2>1. /\ view'.state = "idle" /\ view'.session = view.session /\ asks' = {} /\ UNCHANGED scans
          /\ ~Busy /\ (kind = "swap" => ~Sticks')
      BY <1>2, <1>3, <1>6, <1>14 DEF Edit, Invalidate, Views
    <2> QED
      BY <1>1, <1>5, <2>1, PanelOffers
  <1>15. ASSUME NEW on \in BOOLEAN, Tick(on)
         PROVE  OfferInv'
    <2>1. UNCHANGED <<form, view, gen, scans, asks>>
      BY <1>15 DEF Tick
    <2> QED
      BY <1>1, <1>5, <2>1, PanelOffers
  <1> QED
    BY <1>7, <1>9, <1>10, <1>11, <1>12, <1>13, <1>14, <1>15

LEMMA RefreshOffers ==
  ASSUME Shape, OfferInv, Refreshed
  PROVE  OfferInv'
  <1>1. /\ Active /\ lock = TRUE /\ Grows /\ UNCHANGED <<kind, form, gen, asks, scans>>
        /\ lock' = FALSE /\ view'.state = "idle" /\ job'.at = "none"
    BY JobAtWork, NothingGrows DEF Refreshed, Active, jobFrame, others, budget, Shows, NoJob
  <1>2. kind \in {"claim", "burn"}
    BY DEF Refreshed, Shape, JobShape
  <1> QED
    BY <1>1, <1>2
       DEF OfferInv, Offers, AsksForm, SendAsksNothing, SwapStands, ScansKnow, Guarded, Remembers,
           Sticks, Active

LEMMA ScanOffers ==
  ASSUME Shape, OfferInv, Scanning
  PROVE  OfferInv'
  <1> USE DEF scanFrame, inputs, budget
  <1>1. PICK s \in scans : SessionAnswer(s) \/ StatusAnswer(s) \/ FindAnswer(s) \/ ScanFails(s)
    BY DEF Scanning
  <1>2. s \in Scans /\ s.wallet \in Wallets /\ view \in Views
    BY Standing DEF Scans
  <1>3. /\ UNCHANGED <<kind, form, lock, gen, asks, job>> /\ Rests
        /\ UNCHANGED quotes \/ Issue(s.wallet, NoInput, "quoted", FALSE)
    BY <1>1 DEF SessionAnswer, StatusAnswer, FindAnswer, ScanFails, Rests
  <1>4. Grows
    BY <1>2, <1>3, NothingGrows, IssuesPlain DEF Input
  <1>5. kind = "swap" => ~Sticks' /\ view.session = NoWallet /\ scans = {s}
    BY <1>3, Resting DEF OfferInv, SwapStands
  <1>6. ~Remembers => s.at \in {"session", "find"}
    BY DEF OfferInv, ScansKnow
  <1>7. \A at, q : GoOn(s, at, q) =>
          \A t \in scans' : t \in scans \/ (t = [s EXCEPT !.at = at, !.quote = q] /\ t.at = at)
    BY <1>2 DEF GoOn, Scans
  <1>8. ScansKnow'
    <2>1. ~Remembers => Drop(s) \/ GoOn(s, "find", 0)
      BY <1>1, <1>6 DEF SessionAnswer, StatusAnswer, FindAnswer, ScanFails
    <2>2. ~Remembers => \A t \in scans' : t \in scans \/ t.at = "find"
      BY <1>7, <2>1 DEF Drop
    <2> QED
      BY <1>3, <2>2 DEF OfferInv, ScansKnow, Remembers
  <1>9. kind = "swap" => scans' = {} \/ (UNCHANGED view /\ \A t, u \in scans' : t = u)
    <2>1. kind = "swap" => Drop(s) \/ (UNCHANGED view /\ GoOn(s, "find", 0))
      BY <1>1, <1>6 DEF SessionAnswer, StatusAnswer, FindAnswer, ScanFails, Remembers
    <2> QED
      BY <1>5, <2>1 DEF Drop, GoOn
  <1>10. view'.state = "ready" => UNCHANGED <<view, form>> \/ Offers'
    <2>1. CASE view' = Shows("ready", s.wallet, Newest) /\ Issue(s.wallet, NoInput, "quoted", FALSE)
               /\ kind = "claim"
      <3>1. Newest \in DOMAIN quotes' /\ view'.quote = Newest
        BY <1>2, <2>1, IssuesPlain DEF Input, Shows
      <3> QED
        BY <1>3, <2>1, <3>1 DEF Offers, Guarded
    <2>2. \/ UNCHANGED view
          \/ \E state \in {"confirmed", "pending", "failure", "idle"}, w \in Wallet :
               view' = Shows(state, w, 0)
          \/ view' = Shows("ready", s.wallet, Newest) /\ Issue(s.wallet, NoInput, "quoted", FALSE)
             /\ kind = "claim"
      BY <1>1, <1>2 DEF Wallet, SessionAnswer, StatusAnswer, FindAnswer, ScanFails
    <2>3. CASE UNCHANGED view
      BY <1>3, <2>3
    <2>4. CASE \E state \in {"confirmed", "pending", "failure", "idle"}, w \in Wallet :
                 view' = Shows(state, w, 0)
      BY <2>4 DEF Shows
    <2> QED
      BY <2>1, <2>2, <2>3, <2>4, Zenon
  <1>11. kind = "send" => UNCHANGED view \/ view'.state \in {"idle", "failure"}
    BY <1>1, <1>6 DEF SessionAnswer, StatusAnswer, FindAnswer, ScanFails, Remembers, Shows
  <1> QED
    BY <1>3, <1>4, <1>5, <1>8, <1>9, <1>10, <1>11, PanelOffers

LEMMA AskOffers ==
  ASSUME Shape, OfferInv, Asking
  PROVE  OfferInv'
  <1> USE DEF inputs, budget
  <1>1. PICK a \in asks : AskAnswered(a) \/ AskFails(a)
    BY DEF Asking
  <1>2. a.wallet \in Wallets /\ a.input \in Input /\ a.stray \in BOOLEAN
        /\ view \in Views /\ lock \in BOOLEAN
    BY Standing DEF Shape, RequestShape, Asks
  <1>3. /\ UNCHANGED <<kind, form, gen, scans>> /\ Rests
        /\ asks' = asks \ {a} /\ lock' = (lock /\ job.at # "preview")
    BY <1>1 DEF AskAnswered, AskFails, askEnd, Rests
  <1>4. Grows
    <2>1. UNCHANGED quotes \/ Issue(a.wallet, a.input, "quoted", a.stray)
      BY <1>1 DEF AskAnswered, AskFails
    <2> QED
      BY <1>2, <2>1, NothingGrows, Issues
  <1>5. \/ UNCHANGED view
        \/ Accepts(a) /\ view' = [view EXCEPT !.state = "failure", !.quote = 0]
        \/ /\ Accepts(a) /\ view' = [view EXCEPT !.state = "ready", !.quote = Newest]
           /\ Issue(a.wallet, a.input, "quoted", a.stray)
    BY <1>1 DEF AskAnswered, AskFails
  <1>6. view'.session = view.session /\ (UNCHANGED view \/ view'.state \in {"failure", "ready"})
    BY <1>2, <1>5 DEF Views
  <1>7. kind = "swap" /\ Sticks' => UNCHANGED view
    BY <1>3, <1>5, JobAtWork, Resting DEF Accepts, Guarded, Sticks
  <1>8. view'.state = "ready" => UNCHANGED <<view, form>> \/ Offers'
    <2>1. CASE /\ Accepts(a) /\ view' = [view EXCEPT !.state = "ready", !.quote = Newest]
               /\ Issue(a.wallet, a.input, "quoted", a.stray)
      <3>1. /\ Newest \in DOMAIN quotes' /\ view'.quote = Newest
            /\ quotes'[Newest].input = a.input /\ quotes'[Newest].stray = a.stray
        <4>1. /\ Newest \in DOMAIN quotes'
              /\ quotes'[Newest] = Quote(a.wallet, a.input, "quoted", a.stray)
          BY <1>2, <2>1, Issues
        <4>2. view'.quote = Newest
          BY <1>2, <2>1 DEF Views
        <4> QED
          BY <4>1, <4>2 DEF Quote
      <3>2. Guarded => a.input = form \/ (kind = "swap" /\ a.stray)
        BY <2>1 DEF Accepts, OfferInv, AsksForm
      <3> QED
        BY <1>3, <3>1, <3>2 DEF Offers, Guarded
    <2> QED
      BY <1>2, <1>3, <1>5, <2>1 DEF Views
  <1>9. ScansKnow'
    BY <1>3 DEF OfferInv, ScansKnow, Remembers
  <1>10. kind = "send" /\ lock' => lock
    BY <1>3
  <1> QED
    BY <1>3, <1>4, <1>6, <1>7, <1>8, <1>9, <1>10, PanelOffers

LEMMA NetworkOffers ==
  ASSUME Shape, OfferInv, Network
  PROVE  OfferInv'
  <1>1. UNCHANGED <<kind, scans, job, lock, view, form, gen, asks>>
    BY DEF Network, Taken, NetworkDecides, Block, jobFrame, others
  <1>2. Grows
    <2>1. job.at = "submit" => job.quote \in DOMAIN quotes
      BY DEF Shape, JobShape
    <2> QED
      BY <2>1, NothingGrows, Decided DEF Network, Taken, NetworkDecides, Block
  <1>3. Offers'
    BY <1>1, <1>2, OffersStay DEF OfferInv
  <1> QED
    BY <1>1, <1>3
       DEF OfferInv, AsksForm, SendAsksNothing, SwapStands, ScansKnow, Guarded, Remembers, Sticks,
           Active, Busy

LEMMA OffersHold == Spec => []OfferInv
  <1>1. Init => OfferInv
    BY DEF Init, OfferInv, Offers, AsksForm, SendAsksNothing, SwapStands, ScansKnow, Shows, Sticks,
           Active, NoJob
  <1>2. Shape /\ OfferInv /\ [Next]_vars => OfferInv'
    <2> SUFFICES ASSUME Shape, OfferInv, [Next]_vars
                 PROVE  OfferInv'
      OBVIOUS
    <2>1. CASE UNCHANGED vars
      BY <2>1
         DEF vars, OfferInv, Offers, AsksForm, SendAsksNothing, SwapStands, ScansKnow, Guarded,
             Remembers, Sticks, Active, Busy
    <2>2. CASE \E w \in Wallets \cup {NoWallet} : Switch(w)
      BY <2>2, SwitchOffers DEF Wallet
    <2>3. CASE (Submitting \/ WalletSigns \/ WalletRefuses) /\ ~Refreshed
      BY <2>3, SubmissionActs, SubmissionOffers
    <2> QED
      BY <2>1, <2>2, <2>3, UserOffers, SubmitOffers, RefreshOffers, ScanOffers, AskOffers,
         NetworkOffers DEF Next, User
  <1> QED
    BY <1>1, <1>2, ShapeHolds, PTL DEF Spec

(* The quote that Send, Swap or Cross-chain offers to submit is a quote of *)
(* what the form says now, whatever the user does and in whatever order    *)
(* the answers come, but for the quote that a submission of Swap asks for  *)
(* once the wallet has changed under it.                                   *)
THEOREM OffersFit == Spec => []OfferFitsForm
  <1>1. OfferInv => OfferFitsForm
    BY DEF OfferInv, Offers, OfferFitsForm
  <1> QED
    BY <1>1, OffersHold, PTL

-----------------------------------------------------------------------------
(* What a submission of Claim, Burn, Recover or Send holds on the server.  *)

\* Where a submission still owes its preparation back.
Held == {"height", "wallet", "signed", "event", "abort"}

\* A preparation nobody answers for is the one of the submission under way.
Owed ==
  \A q \in DOMAIN quotes :
    Fate(q) = "prepared" =>
      quotes[q].sent \/ quotes[q].lost \/ (job.quote = q /\ job.at \in Held)

\* The quote was sent once the wallet has been left behind.
WasSent ==
  /\ job.at = "submit" => quotes[job.quote].sent
  /\ job.at = "height" /\ job.opened => quotes[job.quote].sent
  /\ job.at = "prepare" => ~job.opened

HeldInv == GivesBack => Owed /\ WasSent

\* The store keeps what it has prepared as it is, or decides it.
Stands ==
  \A q \in DOMAIN quotes' :
    \/ quotes'[q].fate # "prepared" /\ (q \in DOMAIN quotes => quotes'[q].sent = quotes[q].sent)
    \/ q \in DOMAIN quotes /\ quotes'[q] = quotes[q]

LEMMA StandsWhenIssued ==
  ASSUME Shape, NEW w \in Wallets, NEW i \in Input, NEW stray \in BOOLEAN,
         UNCHANGED quotes \/ Issue(w, i, "quoted", stray)
  PROVE  Stands /\ Grows
  <1>1. CASE UNCHANGED quotes
    BY <1>1, NothingGrows DEF Stands
  <1>2. CASE Issue(w, i, "quoted", stray)
    <2>1. /\ Grows /\ quotes'[Newest] = Quote(w, i, "quoted", stray)
          /\ \A q \in DOMAIN quotes : quotes'[q] = quotes[q]
          /\ \A q \in DOMAIN quotes' : q \in DOMAIN quotes \/ q = Newest
      BY <1>2, Issues
    <2>2. Newest \notin DOMAIN quotes
      BY DEF Shape, StoreShape, Newest
    <2>3. Quote(w, i, "quoted", stray).fate # "prepared"
      BY DEF Quote
    <2> QED
      BY <2>1, <2>2, <2>3 DEF Stands
  <1> QED
    BY <1>1, <1>2

LEMMA StandsWhenDecided ==
  ASSUME Shape, NEW q \in DOMAIN quotes, NEW fate \in {"taken", "landed", "failed", "aborted"},
         Becomes(q, fate)
  PROVE  Stands /\ Grows
  <1>1. /\ Grows /\ DOMAIN quotes' = DOMAIN quotes
        /\ quotes'[q] = [quotes[q] EXCEPT !.fate = fate]
        /\ \A p \in DOMAIN quotes : p # q => quotes'[p] = quotes[p]
    BY Decided
  <1>2. quotes'[q].fate = fate /\ quotes'[q].sent = quotes[q].sent
    BY <1>1, QuoteIsQuote DEF Quotes
  <1> QED
    BY <1>1, <1>2 DEF Stands

\* A step that leaves the submission alone, or drops what it holds no more.
LEMMA HeldRests ==
  ASSUME Shape, HeldInv, UNCHANGED kind, Stands, Grows,
         \/ job' = job
         \/ job.at \notin Held /\ job'.at \notin Held \cup {"submit"} /\ ~job'.opened
  PROVE  HeldInv'
  <1> SUFFICES ASSUME GivesBack
               PROVE  Owed' /\ WasSent'
    BY DEF HeldInv, GivesBack, Timed
  <1>1. Owed /\ WasSent
    BY DEF HeldInv
  <1>2. Owed'
    BY <1>1 DEF Owed, Stands, Fate
  <1>3. job.at # "none" => job.quote \in DOMAIN quotes /\ job.quote \in DOMAIN quotes'
    BY DEF Shape, JobShape, Grows
  <1>4. WasSent'
    BY <1>1, <1>3 DEF WasSent, Stands, Held
  <1> QED
    BY <1>2, <1>4

LEMMA RestsHeld ==
  ASSUME Shape, HeldInv, UNCHANGED kind, Stands, Grows, Rests
  PROVE  HeldInv'
  <1> SUFFICES ASSUME GivesBack
               PROVE  HeldInv'
    BY DEF HeldInv, GivesBack, Timed
  <1>1. \/ job' = job
        \/ job.at \notin Held /\ job'.at \notin Held \cup {"submit"} /\ ~job'.opened
    BY DEF Rests, AfterAbort, NoJob, Held, GivesBack, Timed
  <1> QED
    BY <1>1, HeldRests

LEMMA PanelHolds ==
  ASSUME Shape, HeldInv,
         \/ \E w \in Wallet : Switch(w)
         \/ Scan \/ Preview \/ QuoteTimer \/ Idle \/ Expire \/ Submit
         \/ \E i \in Inputs : Pick(i) \/ Edit(i)
         \/ \E on \in BOOLEAN : Tick(on)
         \/ Scanning \/ Asking \/ Network \/ Refreshed
  PROVE  HeldInv'
  <1> USE DEF inputs, budget, scanFrame, jobFrame, others
  <1>1. CASE \/ \E w \in Wallet : Switch(w)
             \/ Scan \/ Preview \/ QuoteTimer \/ Idle \/ Expire
             \/ \E i \in Inputs : Pick(i) \/ Edit(i)
             \/ \E on \in BOOLEAN : Tick(on)
    <2>1. UNCHANGED <<kind, quotes>> /\ Rests
      BY <1>1 DEF Switch, AfterSwitch, Scan, Preview, QuoteTimer, Idle, Expire, Pick, Edit, Tick,
                  Invalidate, Rests
    <2> QED
      BY <2>1, NothingGrows, RestsHeld DEF Stands
  <1>2. CASE Submit
    <2>1. /\ UNCHANGED <<kind, quotes>> /\ job.at = "none"
          /\ job'.at = "prepare" /\ ~job'.opened
      BY <1>2 DEF Submit, NoJob
    <2> QED
      BY <2>1, NothingGrows, HeldRests DEF Stands, Held
  <1>3. CASE Refreshed
    <2>1. /\ UNCHANGED <<kind, quotes>> /\ job.at = "refresh"
          /\ job'.at = "none" /\ ~job'.opened
      BY <1>3 DEF Refreshed, NoJob
    <2> QED
      BY <2>1, NothingGrows, HeldRests DEF Stands, Held
  <1>4. CASE Scanning
    <2>1. PICK s \in scans : SessionAnswer(s) \/ StatusAnswer(s) \/ FindAnswer(s) \/ ScanFails(s)
      BY <1>4 DEF Scanning
    <2>2. s.wallet \in Wallets /\ NoInput \in Input
      BY Standing DEF Scans, Input
    <2>3. UNCHANGED <<kind, job>> /\ (UNCHANGED quotes \/ Issue(s.wallet, NoInput, "quoted", FALSE))
      BY <2>1 DEF SessionAnswer, StatusAnswer, FindAnswer, ScanFails
    <2> QED
      BY <2>2, <2>3, StandsWhenIssued, RestsHeld DEF Rests
  <1>5. CASE Asking
    <2>1. PICK a \in asks : AskAnswered(a) \/ AskFails(a)
      BY <1>5 DEF Asking
    <2>2. a.wallet \in Wallets /\ a.input \in Input /\ a.stray \in BOOLEAN
      BY Standing DEF Asks
    <2>3. /\ UNCHANGED kind /\ Rests
          /\ UNCHANGED quotes \/ Issue(a.wallet, a.input, "quoted", a.stray)
      BY <2>1 DEF AskAnswered, AskFails, askEnd, Rests
    <2> QED
      BY <2>2, <2>3, StandsWhenIssued, RestsHeld
  <1>6. CASE Network
    <2>1. UNCHANGED <<kind, job>>
      BY <1>6 DEF Network, Taken, NetworkDecides, Block
    <2>2. job.at = "submit" => job.quote \in DOMAIN quotes
      BY DEF Shape, JobShape
    <2>3. Stands /\ Grows
      <3>1. CASE UNCHANGED quotes
        BY <3>1, NothingGrows DEF Stands
      <3>2. CASE \E q \in DOMAIN quotes, fate \in {"taken", "landed", "failed", "aborted"} :
                   Becomes(q, fate)
        BY <3>2, StandsWhenDecided
      <3> QED
        BY <1>6, <2>2, <3>1, <3>2 DEF Network, Taken, NetworkDecides, Block
    <2> QED
      BY <2>1, <2>3, RestsHeld DEF Rests
  <1> QED
    BY <1>1, <1>2, <1>3, <1>4, <1>5, <1>6

\* Only the quotes the submission works on need a look.
LEMMA HeldMoves ==
  ASSUME HeldInv, UNCHANGED kind, WasSent',
         \A p \in DOMAIN quotes' : p \notin {job.quote, job'.quote} =>
           p \in DOMAIN quotes /\ quotes'[p] = quotes[p],
         \A p \in {job.quote, job'.quote} : quotes'[p].fate = "prepared" =>
           \/ quotes'[p].sent \/ quotes'[p].lost
           \/ job'.quote = p /\ job'.at \in Held
  PROVE  HeldInv'
  BY DEF HeldInv, Owed, Fate, GivesBack, Timed

\* The submission goes on with its preparation, to where it still owes it.
LEMMA HeldOn ==
  ASSUME HeldInv, UNCHANGED <<kind, quotes>>, job'.quote = job.quote,
         job'.at \in Held \ {"height"}
  PROVE  HeldInv'
  <1>1. WasSent'
    BY DEF WasSent, Held
  <1> QED
    BY <1>1, HeldMoves

\* The submission leaves what it answers for no longer.
LEMMA HeldEnds ==
  ASSUME Shape, HeldInv, GivesBack => job.at \notin Held \/ quotes[job.quote].sent,
         Active, UNCHANGED <<kind, quotes>>,
         job'.at \in {"none", "preview", "refresh", "poll"}
  PROVE  HeldInv'
  <1>1. WasSent'
    BY DEF WasSent
  <1>2. job.quote \in DOMAIN quotes
    BY JobAtWork
  <1> QED
    BY <1>1, <1>2 DEF HeldInv, Owed, Fate, GivesBack, Timed

LEMMA GivesBackHolds ==
  ASSUME Shape, Active, HeldInv, UNCHANGED <<kind, quotes>>, NEW next, GiveBack(next)
  PROVE  HeldInv'
  <1>1. job'.quote = job.quote /\ job'.at = "abort"
    BY JobAtWork DEF GiveBack, Jobs
  <1> QED
    BY <1>1, HeldOn DEF Held

LEMMA WaysOutHold ==
  ASSUME Shape, Active, HeldInv, UNCHANGED <<kind, quotes>>, GivesBack,
         ApprovalFails \/ (kind # "bridge" /\ GateCloses)
  PROVE  HeldInv'
  <1>1. \E next : GiveBack(next)
    BY Kinds6 DEF ApprovalFails, GateCloses, GivesBack, Timed
  <1> QED
    BY <1>1, GivesBackHolds

LEMMA SubmissionHolds ==
  ASSUME Shape, HeldInv, Submitting \/ WalletSigns \/ WalletRefuses, ~Refreshed
  PROVE  HeldInv'
  <1> USE DEF jobFrame, budget
  <1>1. Active /\ UNCHANGED kind
    BY SubmissionActs DEF Acts
  <1> SUFFICES ASSUME GivesBack
               PROVE  HeldInv'
    BY <1>1 DEF HeldInv, GivesBack, Timed
  <1>2. /\ job.quote \in DOMAIN quotes /\ job \in Jobs /\ job.wallet \in Wallets
        /\ job.input \in Input /\ quotes[job.quote] \in Quotes
    BY <1>1, JobAtWork
  <1>3. kind \in {"claim", "burn", "recover", "send"}
    BY Kinds6 DEF GivesBack, Timed
  <1>4. Owed /\ WasSent
    BY DEF HeldInv
  <1>5. \A state : End(state) => job'.at = "none"
    BY DEF End, NoJob
  <1>6. \A keep : Requote(keep) => job'.at = "preview" /\ job'.quote = job.quote
    BY <1>2 DEF Requote, Jobs
  <1>7. CASE PrepareAnswer
    <2>1. job.at = "prepare" /\ job.opened = FALSE
      BY <1>2, <1>4, <1>7 DEF PrepareAnswer, WasSent, Jobs
    <2>2. CASE Becomes(job.quote, "prepared") /\ job' = [job EXCEPT !.at = "height"]
      <3>1. /\ DOMAIN quotes' = DOMAIN quotes
            /\ \A p \in DOMAIN quotes : p # job.quote => quotes'[p] = quotes[p]
        BY <1>2, <2>2, Decided
      <3>2. job'.at = "height" /\ job'.quote = job.quote /\ job'.opened = FALSE
        BY <1>2, <2>1, <2>2 DEF Jobs
      <3>3. WasSent'
        BY <3>2 DEF WasSent
      <3> QED
        BY <1>1, <3>1, <3>2, <3>3, HeldMoves DEF Held
    <2>3. CASE /\ Issue(job.wallet, job.input, "prepared", FALSE)
               /\ job' = [job EXCEPT !.at = "height", !.quote = Newest]
      <3>1. /\ \A q \in DOMAIN quotes : quotes'[q] = quotes[q]
            /\ \A q \in DOMAIN quotes' : q \in DOMAIN quotes \/ q = Newest
        BY <1>2, <2>3, IssuesPlain
      <3>2. job'.at = "height" /\ job'.quote = Newest /\ job'.opened = FALSE
        BY <1>2, <2>1, <2>3 DEF Jobs
      <3>3. WasSent'
        BY <3>2 DEF WasSent
      <3>4. quotes'[job.quote] = quotes[job.quote]
        BY <1>2, <3>1
      <3>5. quotes[job.quote].fate = "prepared" =>
              quotes[job.quote].sent \/ quotes[job.quote].lost
        BY <1>2, <1>4, <2>1 DEF Owed, Held, Fate
      <3> QED
        BY <1>1, <3>1, <3>2, <3>3, <3>4, <3>5, HeldMoves DEF Held
    <2> QED
      BY <1>7, <2>2, <2>3 DEF PrepareAnswer
  <1>8. CASE PrepareFails
    <2>1. job.at = "prepare" /\ job'.at \in {"none", "preview"}
      BY <1>5, <1>6, <1>8 DEF PrepareFails
    <2>2. CASE UNCHANGED quotes
      BY <1>1, <2>1, <2>2, HeldEnds DEF Held
    <2>3. CASE quotes' = [quotes EXCEPT ![job.quote].fate = "prepared", ![job.quote].lost = TRUE]
      <3>1. /\ DOMAIN quotes' = DOMAIN quotes
            /\ \A p \in DOMAIN quotes : p # job.quote => quotes'[p] = quotes[p]
            /\ quotes'[job.quote].lost
        BY <1>2, <2>3 DEF Quotes, Shape, StoreShape
      <3>2. WasSent'
        BY <2>1 DEF WasSent
      <3> QED
        BY <1>1, <1>4, <2>1, <3>1, <3>2
           DEF HeldInv, Owed, Fate, GivesBack, Timed, Held
    <2> QED
      BY <1>8, <2>2, <2>3 DEF PrepareFails
  <1>9. CASE HeightFails
    <2>1. UNCHANGED quotes /\ job.at = "height"
      BY <1>9 DEF HeightFails
    <2>2. CASE job.opened /\ End("failure")
      BY <1>1, <1>4, <1>5, <2>1, <2>2, HeldEnds DEF WasSent
    <2>3. CASE GiveBack("failure")
      BY <1>1, <2>1, <2>3, GivesBackHolds
    <2> QED
      BY <1>9, <2>2, <2>3 DEF HeightFails
  <1>10. CASE Gate
    <2>1. UNCHANGED quotes
      BY <1>10 DEF Gate
    <2>2. CASE job' = [job EXCEPT !.at = "wallet", !.opened = TRUE]
      <3>1. job'.at = "wallet" /\ job'.quote = job.quote
        BY <1>2, <2>2 DEF Jobs
      <3> QED
        BY <1>1, <2>1, <3>1, HeldOn DEF Held
    <2>3. CASE ApprovalFails \/ (kind # "bridge" /\ GateCloses)
      BY <1>1, <2>1, <2>3, WaysOutHold
    <2> QED
      BY <1>10, <2>2, <2>3 DEF Gate
  <1>11. CASE Poll
    BY <1>1, <1>11, WaysOutHold DEF Poll
  <1>12. CASE WalletSigns
    <2>1. UNCHANGED quotes /\ job'.at = "signed" /\ job'.quote = job.quote
      BY <1>2, <1>12 DEF WalletSigns, Jobs
    <2> QED
      BY <1>1, <2>1, HeldOn DEF Held
  <1>13. CASE WalletRefuses
    BY <1>1, <1>13, WaysOutHold DEF WalletRefuses
  <1>14. CASE Sends
    <2>1. /\ DOMAIN quotes' = DOMAIN quotes
          /\ quotes'[job.quote] = [quotes[job.quote] EXCEPT !.sent = TRUE]
          /\ \A p \in DOMAIN quotes : p # job.quote => quotes'[p] = quotes[p]
      BY <1>1, <1>14, SendsOutcome
    <2>2. quotes'[job.quote].sent
      BY <1>2, <2>1 DEF Quotes
    <2>3. job'.at = "submit" /\ job'.quote = job.quote
      BY <1>2, <1>14 DEF Sends, Jobs
    <2>4. WasSent'
      BY <2>2, <2>3 DEF WasSent
    <2> QED
      BY <1>1, <2>1, <2>2, <2>3, <2>4, HeldMoves
  <1>15. CASE Signed
    <2>1. CASE UNCHANGED quotes /\ ApprovalFails
      BY <1>1, <2>1, WaysOutHold
    <2>2. CASE UNCHANGED quotes /\ GiveBack("failure")
      BY <1>1, <2>2, GivesBackHolds
    <2>3. CASE UNCHANGED quotes /\ Goes("event", view.state)
      <3>1. job'.at = "event" /\ job'.quote = job.quote
        BY <1>2, <2>3 DEF Goes, Jobs
      <3> QED
        BY <1>1, <2>3, <3>1, HeldOn DEF Held
    <2> QED
      BY <1>3, <1>14, <1>15, <2>1, <2>2, <2>3 DEF Signed
  <1>16. CASE EventAnswer
    BY <1>14, <1>16 DEF EventAnswer
  <1>17. CASE Confirmed
    <2>1. job.at = "submit" /\ quotes[job.quote].sent
      BY <1>4, <1>17 DEF Confirmed, WasSent
    <2>2. CASE /\ Becomes(job.quote, "prepared")
               /\ job' = [job EXCEPT !.at = "height", !.batch = job.batch + 1]
      <3>1. /\ DOMAIN quotes' = DOMAIN quotes
            /\ quotes'[job.quote] = [quotes[job.quote] EXCEPT !.fate = "prepared"]
            /\ \A p \in DOMAIN quotes : p # job.quote => quotes'[p] = quotes[p]
        BY <1>2, <2>2, Decided
      <3>2. quotes'[job.quote].sent
        BY <1>2, <2>1, <3>1 DEF Quotes
      <3>3. job'.at = "height" /\ job'.quote = job.quote
        BY <1>2, <2>2 DEF Jobs
      <3>4. WasSent'
        BY <3>2, <3>3 DEF WasSent
      <3> QED
        BY <1>1, <3>1, <3>2, <3>3, <3>4, HeldMoves
    <2>3. CASE UNCHANGED quotes /\ (Goes("refresh", "confirmed") \/ End("confirmed"))
      <3>1. job'.at \in {"none", "refresh"}
        BY <1>2, <1>5, <2>3 DEF Goes, Jobs
      <3> QED
        BY <1>1, <2>1, <2>3, <3>1, HeldEnds
    <2> QED
      BY <1>3, <1>17, <2>2, <2>3 DEF Confirmed
  <1>18. CASE Unconfirmed \/ SubmitFails \/ PollStatus
    <2>1. UNCHANGED quotes /\ job.at \in {"submit", "poll"} /\ job'.at = "none"
      BY <1>3, <1>5, <1>18 DEF Unconfirmed, SubmitFails, PollStatus
    <2> QED
      BY <1>1, <2>1, HeldEnds DEF Held
  <1>19. CASE Aborted
    <2>1. job.at = "abort" /\ job'.at \in {"none", "preview"}
      BY <1>5, <1>6, <1>19 DEF Aborted
    <2>2. /\ DOMAIN quotes' = DOMAIN quotes
          /\ \A p \in DOMAIN quotes : p # job.quote => quotes'[p] = quotes[p]
          /\ quotes'[job.quote].fate = "prepared" => quotes'[job.quote].lost
      <3>1. CASE Becomes(job.quote, "aborted")
        <4>1. /\ DOMAIN quotes' = DOMAIN quotes
              /\ quotes'[job.quote] = [quotes[job.quote] EXCEPT !.fate = "aborted"]
              /\ \A p \in DOMAIN quotes : p # job.quote => quotes'[p] = quotes[p]
          BY <1>2, <3>1, Decided
        <4>2. quotes'[job.quote].fate = "aborted"
          BY <1>2, <4>1 DEF Quotes
        <4> QED
          BY <4>1, <4>2
      <3>2. CASE quotes' = [quotes EXCEPT ![job.quote].lost = TRUE]
        BY <1>2, <3>2 DEF Quotes, Shape, StoreShape
      <3> QED
        BY <1>19, <3>1, <3>2 DEF Aborted
    <2>3. WasSent'
      BY <2>1 DEF WasSent
    <2> QED
      BY <1>1, <1>4, <2>1, <2>2, <2>3 DEF HeldInv, Owed, Fate, GivesBack, Timed
  <1> QED
    BY <1>7, <1>8, <1>9, <1>10, <1>11, <1>12, <1>13, <1>15, <1>16, <1>17, <1>18, <1>19
       DEF Submitting

(* When a submission of Claim, Burn, Recover or Send is over, no           *)
(* preparation it caused is held on the server, unless it was submitted,   *)
(* or a request or an answer got lost.                                     *)
THEOREM NothingIsLeftPrepared == Spec => []NothingLeftPrepared
  <1>1. Init => HeldInv
    BY DEF Init, HeldInv, Owed, WasSent, NoJob
  <1>2. Shape /\ HeldInv /\ [Next]_vars => HeldInv'
    <2> SUFFICES ASSUME Shape, HeldInv, [Next]_vars
                 PROVE  HeldInv'
      OBVIOUS
    <2>1. CASE UNCHANGED vars
      BY <2>1 DEF vars, HeldInv, Owed, WasSent, Fate, GivesBack, Timed
    <2>2. CASE (Submitting \/ WalletSigns \/ WalletRefuses) /\ ~Refreshed
      BY <2>2, SubmissionHolds
    <2> QED
      BY <2>1, <2>2, PanelHolds DEF Next, User, Wallet
  <1>3. HeldInv => NothingLeftPrepared
    BY DEF HeldInv, Owed, NothingLeftPrepared, Held, NoJob
  <1> QED
    BY <1>1, <1>2, <1>3, ShapeHolds, PTL DEF Spec
=============================================================================
