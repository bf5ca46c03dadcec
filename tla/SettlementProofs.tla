-------------------------- MODULE SettlementProofs --------------------------
(***************************************************************************)
(* What is true of a settlement for every price, fee, buffer, balance and  *)
(* chain.  The arithmetic: no rounding costs the sponsor a unit, and the   *)
(* bisection for the largest amount of a Send finds it.  And the whole     *)
(* way from a quote to its verdict: a message does what its quote says,    *)
(* whatever of it the server takes back from a wallet; what it does is all *)
(* that the ledger looks at; the receipt is therefore the arithmetic of    *)
(* the quote; and that is what the wallet was promised, what the sponsor   *)
(* spent and what reconciliation expects.                                  *)
(***************************************************************************)
EXTENDS Settlement, FiniteSetTheorems, SequenceTheorems, TLAPS

LEMMA Division ==
  ASSUME NEW a \in Nat, NEW b \in Nat \ {0}
  PROVE  /\ a \div b \in Nat
         /\ (a \div b) * b <= a
         /\ a < (a \div b) * b + b
  OBVIOUS

LEMMA CeilDivCovers ==
  ASSUME NEW value \in Nat, NEW divisor \in Nat \ {0}
  PROVE  /\ CeilDiv(value, divisor) \in Nat
         /\ CeilDiv(value, divisor) * divisor >= value
<1>1. CASE value = 0
  BY <1>1 DEF CeilDiv
<1>2. CASE value # 0
  <2> DEFINE a == value + divisor - 1
  <2>1. a \in Nat
    BY <1>2
  <2>2. /\ a \div divisor \in Nat
        /\ a < (a \div divisor) * divisor + divisor
    BY <2>1, Division
  <2>3. CeilDiv(value, divisor) = a \div divisor
    BY <1>2 DEF CeilDiv
  <2>4. (a \div divisor) * divisor \in Nat
    BY <2>2
  <2> QED BY <2>2, <2>3, <2>4
<1> QED BY <1>1, <1>2

LEMMA MultiplyKeepsOrder ==
  ASSUME NEW a \in Nat, NEW b \in Nat, NEW c \in Nat, a <= b
  PROVE  a * c \in Nat /\ b * c \in Nat /\ a * c <= b * c
<1>1. PICK d \in Nat : b = a + d
  <2>1. b - a \in Nat /\ b = a + (b - a)
    OBVIOUS
  <2> QED BY <2>1
<1>2. b * c = a * c + d * c
  BY <1>1
<1>3. d * c \in Nat /\ a * c \in Nat /\ b * c \in Nat
  OBVIOUS
<1> QED BY <1>2, <1>3

(* Dividing keeps the order of amounts, whatever is cut off.               *)
LEMMA DivideKeepsOrder ==
  ASSUME NEW a \in Nat, NEW b \in Nat, NEW c \in Nat \ {0}, a <= b
  PROVE  a \div c <= b \div c
<1> DEFINE p == a \div c
           q == b \div c
<1>1. /\ p \in Nat /\ q \in Nat
      /\ p * c <= a /\ b < q * c + c
  BY Division
<1>2. SUFFICES ASSUME q + 1 <= p PROVE FALSE
  BY <1>1
<1>3. (q + 1) * c <= p * c
  BY <1>1, <1>2, MultiplyKeepsOrder
<1>4. (q + 1) * c = q * c + c
  BY <1>1
<1>5. p * c \in Nat /\ q * c \in Nat
  BY <1>1
<1> HIDE DEF p, q
<1> QED BY <1>1, <1>3, <1>4, <1>5

-----------------------------------------------------------------------------
(* The service fee of a Send is an amount, never above its cap, and grows   *)
(* with the amount it is taken of.                                         *)
LEMMA SendFeeGrows ==
  ASSUME NEW m \in Nat, NEW n \in Nat, m <= n
  PROVE  /\ CalculateSendServiceFee(m) \in Nat
         /\ CalculateSendServiceFee(m) <= CalculateSendServiceFee(n)
<1> DEFINE cap == (CAP_USD_MICROS * UNIT) \div TOKEN_PRICE
           p == (m * FEE_BPS) \div BPS_DENOMINATOR
           q == (n * FEE_BPS) \div BPS_DENOMINATOR
<1>1. BPS_DENOMINATOR \in Nat \ {0} /\ FEE_BPS \in Nat
  BY EconomicsAssumption
<1>2. m * FEE_BPS \in Nat /\ n * FEE_BPS \in Nat /\ m * FEE_BPS <= n * FEE_BPS
  BY <1>1, MultiplyKeepsOrder
<1>3. p \in Nat /\ q \in Nat /\ p <= q
  BY <1>1, <1>2, DivideKeepsOrder, Division
<1>4. cap \in Nat
  <2>1. CAP_USD_MICROS * UNIT \in Nat /\ TOKEN_PRICE \in Nat \ {0}
    BY EconomicsAssumption
  <2> QED BY <2>1, Division
<1>5. /\ CalculateSendServiceFee(m) = IF p < cap THEN p ELSE cap
      /\ CalculateSendServiceFee(n) = IF q < cap THEN q ELSE cap
  BY DEF CalculateSendServiceFee
<1> HIDE DEF p, q, cap
<1> QED BY <1>3, <1>4, <1>5

(* Sending more takes more from the account: however the fee is rounded    *)
(* and wherever it is capped, it never falls by as much as the amount      *)
(* rises.  The bisection for the maximum rests on it.                      *)
THEOREM DebitGrows ==
  ASSUME NEW m \in Nat, NEW n \in Nat, m < n, NEW r \in Nat
  PROVE  SendDebit(m, r) < SendDebit(n, r)
<1>1. /\ CalculateSendServiceFee(m) \in Nat
      /\ CalculateSendServiceFee(n) \in Nat
      /\ CalculateSendServiceFee(m) <= CalculateSendServiceFee(n)
  BY SendFeeGrows
<1> QED BY <1>1 DEF SendDebit

(* What the sponsor gets back in tokens is worth at least what it spends,  *)
(* at the quoted prices, for every price, buffer and amount: two divisions *)
(* that round, and neither costs the sponsor a unit.                       *)
THEOREM ReimbursementCovers ==
  ASSUME NEW spent \in Nat
  PROVE  /\ CalculateSponsorReimbursement(spent) \in Nat
         /\ CalculateSponsorReimbursement(spent) * (LAMPORTS_PER_SOL * TOKEN_PRICE)
              >= spent * SOL_PRICE * UNIT
<1> DEFINE worth == spent * SOL_PRICE * UNIT
           divisor == LAMPORTS_PER_SOL * TOKEN_PRICE
           raw == CeilDiv(worth, divisor)
           buffered == raw * (BPS_DENOMINATOR + BUFFER_BPS)
           paid == CeilDiv(buffered, BPS_DENOMINATOR)
<1>1. /\ worth \in Nat /\ divisor \in Nat \ {0}
      /\ BPS_DENOMINATOR \in Nat \ {0} /\ BUFFER_BPS \in Nat
  <2>1. /\ SOL_PRICE \in Nat \ {0} /\ UNIT \in Nat \ {0}
        /\ LAMPORTS_PER_SOL \in Nat \ {0} /\ TOKEN_PRICE \in Nat \ {0}
    BY EconomicsAssumption
  <2>2. spent * SOL_PRICE \in Nat
    BY <2>1
  <2>3. worth \in Nat
    BY <2>1, <2>2
  <2>4. divisor \in Nat \ {0}
    BY <2>1
  <2> QED BY <2>3, <2>4, EconomicsAssumption
<1>2. CalculateSponsorReimbursement(spent) = paid
  BY DEF CalculateSponsorReimbursement
<1> HIDE DEF worth, divisor
<1>3. raw \in Nat /\ raw * divisor >= worth
  BY <1>1, CeilDivCovers
<1> HIDE DEF raw
<1>4. buffered \in Nat /\ raw * BPS_DENOMINATOR <= buffered
  <2>1. buffered = raw * BPS_DENOMINATOR + raw * BUFFER_BPS
    BY <1>1, <1>3
  <2>2. raw * BPS_DENOMINATOR \in Nat /\ raw * BUFFER_BPS \in Nat
    BY <1>1, <1>3
  <2> HIDE DEF buffered
  <2> QED BY <2>1, <2>2
<1> HIDE DEF buffered
<1>5. paid \in Nat /\ paid * BPS_DENOMINATOR >= buffered
  BY <1>1, <1>4, CeilDivCovers
<1> HIDE DEF paid
<1>6. raw <= paid
  <2>1. SUFFICES ASSUME paid + 1 <= raw PROVE FALSE
    BY <1>3, <1>5
  <2>2. (paid + 1) * BPS_DENOMINATOR <= raw * BPS_DENOMINATOR
    BY <1>1, <1>3, <1>5, <2>1, MultiplyKeepsOrder
  <2>3. (paid + 1) * BPS_DENOMINATOR = paid * BPS_DENOMINATOR + BPS_DENOMINATOR
    BY <1>1, <1>5
  <2>4. paid * BPS_DENOMINATOR \in Nat /\ raw * BPS_DENOMINATOR \in Nat
    BY <1>1, <1>3, <1>5
  <2> QED BY <1>1, <1>4, <1>5, <2>2, <2>3, <2>4
<1>7. raw * divisor \in Nat /\ paid * divisor \in Nat /\ raw * divisor <= paid * divisor
  BY <1>1, <1>3, <1>5, <1>6, MultiplyKeepsOrder
<1>8. paid * divisor >= worth
  BY <1>1, <1>3, <1>7
<1> QED BY <1>2, <1>5, <1>8 DEF worth, divisor

-----------------------------------------------------------------------------
SendMax == order.action = "send" /\ order.max

\* The fields of a quote the search and its result are about.
Priced ==
  /\ {"amount", "serviceFee", "total", "reimbursement", "seen"} \subseteq DOMAIN quote
  /\ Balance \in Nat /\ quote.reimbursement \in Nat

Narrowing ==
  /\ low \in Nat /\ high \in Nat /\ low <= high
  /\ SendDebit(low, quote.reimbursement) <= Balance
  /\ \A m \in high + 1 .. Balance : SendDebit(m, quote.reimbursement) > Balance

Maximal ==
  /\ SendDebit(quote.amount, quote.reimbursement) <= Balance
  /\ \A m \in quote.amount + 1 .. Balance : SendDebit(m, quote.reimbursement) > Balance

MaxInv ==
  /\ phase = "asked" => chain \in Chains
  /\ SendMax /\ phase = "searching" => Priced /\ Narrowing
  /\ SendMax /\ phase \notin {"asked", "searching"} => Maximal

-----------------------------------------------------------------------------
(* A reimbursement and a fee are amounts.                                  *)
LEMMA DebitIsAmount ==
  ASSUME NEW m \in Nat, NEW r \in Nat
  PROVE  SendDebit(m, r) \in Nat /\ SendDebit(m, r) >= m + r
<1>1. CalculateSendServiceFee(m) \in Nat
  BY SendFeeGrows
<1> QED BY <1>1 DEF SendDebit

(* Nothing sent costs nothing but the reimbursement.                       *)
LEMMA DebitOfNothing ==
  ASSUME NEW r \in Nat
  PROVE  SendDebit(0, r) = r
<1>1. (0 * FEE_BPS) \div BPS_DENOMINATOR = 0
  BY EconomicsAssumption
<1>2. (CAP_USD_MICROS * UNIT) \div TOKEN_PRICE \in Nat
  <2>1. CAP_USD_MICROS * UNIT \in Nat /\ TOKEN_PRICE \in Nat \ {0}
    BY EconomicsAssumption
  <2> QED BY <2>1, Division
<1>3. CalculateSendServiceFee(0) = 0
  BY <1>1, <1>2 DEF CalculateSendServiceFee
<1> QED BY <1>3 DEF SendDebit

(* The search starts with everything the reimbursement leaves.             *)
LEMMA QuoteSendNarrows ==
  ASSUME MaxInv, QuoteSend PROVE MaxInv'
<1>1. /\ phase = "asked" /\ phase' = "searching" /\ order' = order /\ low' = 0
      /\ high' = chain.accounts[1].amount - quote'.reimbursement
      /\ order.max => high' > 0
  BY DEF QuoteSend, Asked
<1>2. PICK fee \in CompleteFees :
        quote' = [Seen(<<1>>) EXCEPT !.network = fee, !.rent = ReceivingRent,
                     !.amount = order.amount,
                     !.reimbursement = CalculateSponsorReimbursement(fee + ReceivingRent)]
  BY DEF QuoteSend
<1>3. /\ chain.fee \in Nat /\ chain.accounts[1].amount \in Nat
      /\ BASE_FEE \in Nat /\ ATA_RENT \in Nat
  <2>1. chain \in Chain
    BY <1>1, SettlementAssumption DEF MaxInv
  <2>2. /\ chain.fee \in Nat /\ chain.accounts \in Seq(Account)
        /\ Len(chain.accounts) \in 1 .. Len(Address)
    BY <2>1 DEF Chain
  <2>3. chain.accounts[1] \in Account
    BY <2>2, LedgerAssumption
  <2> QED BY <2>2, <2>3, LedgerAssumption DEF Account
<1>4. fee + ReceivingRent \in Nat
  BY <1>2, <1>3 DEF CompleteFees, FeeAnswers, ReceivingRent
<1>5. CalculateSponsorReimbursement(fee + ReceivingRent) \in Nat
  BY <1>4, ReimbursementCovers
<1>6. /\ quote'.seen = chain.accounts
      /\ quote'.reimbursement = CalculateSponsorReimbursement(fee + ReceivingRent)
      /\ {"amount", "serviceFee", "total", "reimbursement", "seen"} \subseteq DOMAIN quote'
  BY <1>2 DEF Seen, NoQuote
<1>7. Priced'
  BY <1>3, <1>5, <1>6 DEF Priced, Balance
<1>8. order.max => Narrowing'
  <2> SUFFICES ASSUME order.max PROVE Narrowing'
    OBVIOUS
  <2> DEFINE b == Balance'
             r == quote'.reimbursement
  <2>1. b \in Nat /\ r \in Nat
    BY <1>7 DEF Priced
  <2>2. b = chain.accounts[1].amount
    BY <1>6 DEF Balance
  <2>3. low' = 0 /\ high' = b - r /\ high' > 0
    BY <1>1, <2>2
  <2> HIDE DEF b, r
  <2>4. SendDebit(0, r) <= b
    BY <2>1, <2>3, DebitOfNothing
  <2>5. ASSUME NEW m \in high' + 1 .. b PROVE SendDebit(m, r) > b
    <3>1. m \in Nat /\ m + r > b
      BY <2>1, <2>3
    <3> QED BY <2>1, <3>1, DebitIsAmount
  <2>6. high' \in Nat /\ low' \in Nat /\ low' <= high'
    BY <2>1, <2>3
  <2> QED BY <2>3, <2>4, <2>5, <2>6 DEF Narrowing, b, r
<1> QED BY <1>1, <1>7, <1>8 DEF MaxInv, SendMax

(* A turn looks at the middle, rounded up, and keeps the half it is in.    *)
LEMMA SearchMaxNarrows ==
  ASSUME MaxInv, SearchMax PROVE MaxInv'
<1> DEFINE middle == (low + high + 1) \div 2
           r == quote.reimbursement
<1>1. /\ phase = "searching" /\ SendMax /\ low < high
      /\ IF SendDebit(middle, r) <= Balance
           THEN low' = middle /\ high' = high
           ELSE low' = low /\ high' = middle - 1
      /\ UNCHANGED <<order, chain, phase, quote>>
  BY DEF SearchMax, At, SendMax
<1>2. Priced /\ Narrowing
  BY <1>1 DEF MaxInv
<1>3. Priced' /\ Balance' = Balance
  BY <1>1, <1>2 DEF Priced, Balance
<1>4. /\ low \in Nat /\ high \in Nat /\ Balance \in Nat /\ r \in Nat
      /\ SendDebit(low, r) <= Balance
      /\ \A m \in high + 1 .. Balance : SendDebit(m, r) > Balance
  BY <1>2 DEF Priced, Narrowing
<1>5. middle \in Nat /\ low < middle /\ middle <= high
  BY <1>1, <1>4
<1> HIDE DEF middle
<1>6. CASE SendDebit(middle, r) <= Balance
  BY <1>1, <1>3, <1>4, <1>5, <1>6 DEF MaxInv, Narrowing, SendMax
<1>7. CASE ~(SendDebit(middle, r) <= Balance)
  <2>1. SendDebit(middle, r) \in Nat
    BY <1>4, <1>5, DebitIsAmount
  <2>2. SendDebit(middle, r) > Balance
    BY <1>4, <1>7, <2>1
  <2>3. ASSUME NEW m \in middle .. Balance PROVE SendDebit(m, r) > Balance
    <3>1. CASE m = middle
      BY <2>2, <3>1
    <3>2. CASE middle < m
      <4>1. m \in Nat
        BY <1>4, <1>5
      <4>2. SendDebit(middle, r) < SendDebit(m, r) /\ SendDebit(m, r) \in Nat
        BY <1>4, <1>5, <3>2, <4>1, DebitGrows, DebitIsAmount
      <4> QED BY <1>4, <2>1, <2>2, <4>2
    <3> QED BY <1>4, <1>5, <3>1, <3>2
  <2>4. low' = low /\ high' = middle - 1
    BY <1>1, <1>7
  <2>5. Narrowing'
    BY <1>1, <1>3, <1>4, <1>5, <2>3, <2>4 DEF Narrowing
  <2> QED BY <1>1, <1>3, <2>5 DEF MaxInv, SendMax
<1> QED BY <1>6, <1>7

(* What is left of the interval is the amount that is quoted.              *)
LEMMA SendQuotedIsMaximal ==
  ASSUME MaxInv, SendQuoted PROVE MaxInv'
<1>1. /\ phase = "searching" /\ order.action = "send" /\ order' = order
      /\ phase' \in {"quoted", "refused"}
      /\ order.max => low >= high
      /\ quote' = SendQuote(IF order.max THEN low ELSE order.amount)
  BY DEF SendQuoted, FinishSendQuote, At
<1>2. SUFFICES ASSUME order.max PROVE Maximal'
  BY <1>1 DEF MaxInv, SendMax
<1>3. Priced /\ Narrowing
  BY <1>1, <1>2 DEF MaxInv, SendMax
<1>4. /\ quote'.amount = low /\ quote'.reimbursement = quote.reimbursement
      /\ quote'.seen = quote.seen
  BY <1>1, <1>2, <1>3 DEF SendQuote, Priced
<1>5. low = high
  BY <1>1, <1>2, <1>3 DEF Narrowing
<1> QED BY <1>3, <1>4, <1>5 DEF Narrowing, Maximal, Balance

(* No other handler changes the quote of a Send.                           *)
LEMMA QuoteStays ==
  ASSUME MaxInv, order' = order, quote' = quote,
         phase \notin {"asked", "searching"}, phase' \notin {"asked", "searching"}
  PROVE  MaxInv'
BY DEF MaxInv, SendMax, Maximal, Balance

LEMMA OtherActions ==
  ASSUME MaxInv, order' = order, order.action # "send", phase' # "asked"
  PROVE  MaxInv'
BY DEF MaxInv, SendMax

LEMMA MaxInvInductive ==
  ASSUME MaxInv, [Next]_vars PROVE MaxInv'
<1>1. CASE UNCHANGED vars
  BY <1>1 DEF MaxInv, SendMax, Priced, Narrowing, Maximal, Balance, vars
<1>2. CASE QuoteClaim \/ QuoteBurn \/ QuoteRecover \/ QuoteSwap \/ QuoteDeposit
  BY <1>2, OtherActions
     DEF QuoteClaim, QuoteBurn, QuoteRecover, QuoteSwap, QuoteDeposit, Asked, Quoted
<1>3. CASE PrepareClaim \/ PrepareBurn \/ PrepareRecover \/ PrepareSwap \/ PrepareDeposit
  BY <1>3, OtherActions
     DEF PrepareClaim, PrepareBurn, PrepareRecover, PrepareSwap, PrepareDeposit, At, Prepared
<1>4. CASE RouteSwap
  BY <1>4, OtherActions DEF RouteSwap, At, Quoted
<1>5. CASE QuoteSend
  BY <1>5, QuoteSendNarrows
<1>6. CASE SearchMax
  BY <1>6, SearchMaxNarrows
<1>7. CASE SendQuoted
  BY <1>7, SendQuotedIsMaximal
<1>8. CASE PrepareSend
  BY <1>8, QuoteStays DEF PrepareSend, At, Prepared
<1>9. CASE Approve
  BY <1>9, QuoteStays DEF Approve
<1>10. CASE Submit
  <2>1. PICK returned \in WalletReturns(message) :
          \/ SubmitClaim(returned) \/ SubmitBurn(returned) \/ SubmitRecover(returned)
          \/ SubmitSend(returned) \/ SubmitSwap(returned) \/ SubmitDeposit(returned)
    BY <1>10 DEF Submit
  <2>2. /\ order' = order /\ quote' = quote /\ phase = "approved"
        /\ phase' \in {"submitted", "refused"}
    BY <1>10, <2>1 DEF Submit, SubmitClaim, SubmitBurn, SubmitRecover, SubmitSend, SubmitSwap,
         SubmitDeposit, Submitted
  <2> QED BY <2>2, QuoteStays
<1>11. CASE Land
  BY <1>11, QuoteStays DEF Land
<1>12. CASE Change
  <2>1. CASE phase = "searching"
    <3>1. SendMax => Priced /\ Narrowing
      BY <2>1 DEF MaxInv
    <3> QED BY <1>12, <2>1, <3>1
        DEF Change, MaxInv, SendMax, Priced, Narrowing, Balance
  <2>2. CASE phase # "searching"
    BY <1>12, <2>2, QuoteStays DEF Change
  <2> QED BY <2>1, <2>2
<1>13. CASE Reconcile
  BY <1>13, QuoteStays DEF Reconcile
<1> QED BY <1>1, <1>2, <1>3, <1>4, <1>5, <1>6, <1>7, <1>8, <1>9, <1>10, <1>11, <1>12, <1>13
    DEF Next

(* Whatever the bisection quotes is the most the balance allows, however   *)
(* the chain changes meanwhile: the search is over the balance it read.    *)
THEOREM MaximumFound == Spec => []MaxIsMaximal
<1>1. Init => MaxInv
  BY DEF Init, MaxInv
<1>2. MaxInv /\ [Next]_vars => MaxInv'
  BY MaxInvInductive
<1>3. MaxInv => MaxIsMaximal
  BY DEF MaxInv, MaxIsMaximal, Maximal, SendMax
<1> QED BY <1>1, <1>2, <1>3, PTL DEF Spec

-----------------------------------------------------------------------------
(***************************************************************************)
(* Sums over finite sets, as in the proofs of the sponsorship budget: what *)
(* an induction over finite sets would show is shown by looking at a       *)
(* smallest set of which it fails.                                         *)
(***************************************************************************)
\* The element a sum takes out first, and what makes g the table of the sums over S's subsets.
First(S) == CHOOSE x \in S : TRUE
Entry(f, g, s) == IF s = {} THEN 0 ELSE f[First(s)] + g[s \ {First(s)}]
Adds(f, g, S) == g = [s \in SUBSET S |-> Entry(f, g, s)]
Table(f, S) == CHOOSE g : Adds(f, g, S)

\* Among any subsets of a finite set there is one that contains no other.
LEMMA SmallestSubset ==
  ASSUME NEW S, IsFiniteSet(S), NEW Q \in SUBSET (SUBSET S), Q # {}
  PROVE  \E T \in Q : \A U \in SUBSET T : U \in Q => U = T
<1>1. IsWellFoundedOn(StrictSubsetOrdering(S), SUBSET S)
  BY FS_StrictSubsetOrderingWellFounded, FS_FiniteSubsetsOfFinite
<1>2. \E T \in Q : \A U \in Q : ~ (<<U, T>> \in StrictSubsetOrdering(S))
  BY <1>1, WFMin
<1> QED BY <1>2 DEF StrictSubsetOrdering

\* A sum is the last entry of such a table.
LEMMA TotalIsEntry == \A f, S : Total(f, S) = Table(f, S)[S]
BY DEF Total, MapThenSumSet, MapThenFoldSet, Table, Adds, Entry, First

\* Two tables agree where both are defined.
LEMMA TablesAgree ==
  ASSUME NEW S, IsFiniteSet(S), NEW f, NEW g, NEW h,
         \A u \in SUBSET S : g[u] = Entry(f, g, u) /\ h[u] = Entry(f, h, u)
  PROVE  \A u \in SUBSET S : g[u] = h[u]
<1> DEFINE Q == {u \in SUBSET S : g[u] # h[u]}
<1> SUFFICES ASSUME Q # {} PROVE FALSE
  OBVIOUS
<1>1. PICK T \in Q : \A U \in SUBSET T : U \in Q => U = T
  <2>1. Q \in SUBSET (SUBSET S)
    OBVIOUS
  <2> HIDE DEF Q
  <2> QED BY <2>1, SmallestSubset
<1>2. T # {}
  BY <1>1 DEF Entry
<1>3. First(T) \in T
  BY <1>2 DEF First
<1>4. g[T \ {First(T)}] = h[T \ {First(T)}]
  BY <1>1, <1>3
<1>5. Entry(f, g, T) = Entry(f, h, T)
  BY <1>4 DEF Entry
<1> QED BY <1>1, <1>5

\* Every finite set has a table of the sums over its subsets.
LEMMA TableExists ==
  ASSUME NEW S, IsFiniteSet(S), NEW f
  PROVE  Adds(f, Table(f, S), S)
<1> DEFINE Q == {T \in SUBSET S : ~ \E g : Adds(f, g, T)}
<1>1. Q = {}
  <2> SUFFICES ASSUME Q # {} PROVE FALSE
    OBVIOUS
  <2>1. PICK T \in Q : \A U \in SUBSET T : U \in Q => U = T
    <3>1. Q \in SUBSET (SUBSET S)
      OBVIOUS
    <3> HIDE DEF Q
    <3> QED BY <3>1, SmallestSubset
  <2>2. ASSUME NEW U \in SUBSET T, U # T
        PROVE  /\ Adds(f, Table(f, U), U)
               /\ \A u \in SUBSET U : Table(f, U)[u] = Entry(f, Table(f, U), u)
               /\ IsFiniteSet(U)
    <3>1. \E g : Adds(f, g, U)
      BY <2>1, <2>2
    <3>2. Adds(f, Table(f, U), U)
      BY <3>1 DEF Table
    <3>3. \A u \in SUBSET U : Table(f, U)[u] = Entry(f, Table(f, U), u)
      BY <3>2 DEF Adds
    <3>4. U \in SUBSET S
      BY <2>1
    <3> QED BY <3>2, <3>3, <3>4, FS_Subset
  <2>3. \A u \in SUBSET T : u # {} => First(u) \in u
    BY DEF First
  <2> DEFINE Others(u) == u \ {First(u)}
             G == [u \in SUBSET T |->
                     IF u = {} THEN 0 ELSE f[First(u)] + Table(f, Others(u))[Others(u)]]
  <2>4. \A u \in SUBSET T : u # {} => Others(u) \in SUBSET T /\ Others(u) # T
    BY <2>3
  <2>5. ASSUME NEW v \in SUBSET T, v # T
        PROVE  G[v] = Table(f, v)[v]
    <3>1. Table(f, v)[v] = Entry(f, Table(f, v), v)
      BY <2>2, <2>5
    <3>2. CASE v = {}
      BY <3>1, <3>2 DEF Entry
    <3>3. CASE v # {}
      <4>1. Others(v) \in SUBSET T /\ Others(v) # T /\ Others(v) \in SUBSET v
        BY <2>4, <3>3
      <4>2. IsFiniteSet(Others(v))
        BY <2>2, <4>1
      <4>3. \A u \in SUBSET Others(v) : /\ Table(f, v)[u] = Entry(f, Table(f, v), u)
                                        /\ Table(f, Others(v))[u] = Entry(f, Table(f, Others(v)), u)
        BY <2>2, <2>5, <4>1
      <4>4. Table(f, v)[Others(v)] = Table(f, Others(v))[Others(v)]
        <5> DEFINE g == Table(f, v)
                   h == Table(f, Others(v))
                   V == Others(v)
        <5>1. \A u \in SUBSET V : g[u] = Entry(f, g, u) /\ h[u] = Entry(f, h, u)
          BY <4>3
        <5>2. IsFiniteSet(V)
          BY <4>2
        <5> HIDE DEF g, h, V
        <5>3. g[V] = h[V]
          BY <5>1, <5>2, TablesAgree
        <5> QED BY <5>3 DEF g, h, V
      <4> QED BY <3>1, <3>3, <4>4 DEF Entry
    <3> QED BY <3>2, <3>3
  <2>6. \A u \in SUBSET T : G[u] = Entry(f, G, u)
    <3> SUFFICES ASSUME NEW u \in SUBSET T, u # {} PROVE G[u] = Entry(f, G, u)
      BY DEF Entry
    <3>1. G[Others(u)] = Table(f, Others(u))[Others(u)]
      <4> HIDE DEF G, Others
      <4> QED BY <2>4, <2>5
    <3> QED BY <3>1 DEF Entry
  <2>7. Adds(f, G, T)
    <3>1. G = [u \in SUBSET T |-> G[u]]
      OBVIOUS
    <3> HIDE DEF G
    <3> QED BY <2>6, <3>1 DEF Adds
  <2> QED BY <2>1, <2>7
<1>2. \E g : Adds(f, g, S)
  BY <1>1
<1> QED BY <1>2 DEF Table

\* What a sum is: nothing of the empty set, or one value and the sum of the others.
LEMMA TotalEquation ==
  ASSUME NEW S, IsFiniteSet(S), NEW f
  PROVE  /\ S = {} => Total(f, S) = 0
         /\ S # {} => /\ First(S) \in S
                      /\ Total(f, S) = f[First(S)] + Total(f, S \ {First(S)})
<1>1. \A u \in SUBSET S : Table(f, S)[u] = Entry(f, Table(f, S), u)
  <2>1. Adds(f, Table(f, S), S)
    BY TableExists
  <2> QED BY <2>1 DEF Adds
<1>2. CASE S = {}
  BY <1>1, <1>2, TotalIsEntry DEF Entry
<1>3. CASE S # {}
  <2> DEFINE R == S \ {First(S)}
  <2>1. First(S) \in S /\ R \in SUBSET S /\ IsFiniteSet(R)
    BY <1>3, FS_Subset DEF First
  <2>2. \A u \in SUBSET R : Table(f, R)[u] = Entry(f, Table(f, R), u)
    BY <2>1, TableExists DEF Adds
  <2>3. \A u \in SUBSET R : Table(f, S)[u] = Entry(f, Table(f, S), u)
    BY <1>1
  <2>4. Table(f, S)[R] = Table(f, R)[R]
    <3> DEFINE g == Table(f, S)
               h == Table(f, R)
    <3>1. \A u \in SUBSET R : g[u] = Entry(f, g, u) /\ h[u] = Entry(f, h, u)
      BY <2>2, <2>3
    <3> HIDE DEF g, h, R
    <3>2. g[R] = h[R]
      BY <2>1, <3>1, TablesAgree
    <3> QED BY <3>2 DEF g, h
  <2>5. Table(f, S)[S] = f[First(S)] + Table(f, S)[R]
    BY <1>1, <1>3 DEF Entry
  <2> QED BY <1>3, <2>1, <2>4, <2>5, TotalIsEntry
<1> QED BY <1>2, <1>3

\* A sum of integers is one, and no larger than the sum of what is no smaller.
LEMMA TotalGrows ==
  ASSUME NEW S, IsFiniteSet(S), NEW f, NEW g,
         \A x \in S : f[x] \in Int /\ g[x] \in Int /\ f[x] <= g[x]
  PROVE  Total(f, S) \in Int /\ Total(g, S) \in Int /\ Total(f, S) <= Total(g, S)
<1> DEFINE Fine(T) == Total(f, T) \in Int /\ Total(g, T) \in Int /\ Total(f, T) <= Total(g, T)
           Q == {T \in SUBSET S : ~ Fine(T)}
<1> SUFFICES ASSUME Q # {} PROVE FALSE
  OBVIOUS
<1>1. PICK T \in Q : \A U \in SUBSET T : U \in Q => U = T
  <2>1. Q \in SUBSET (SUBSET S)
    OBVIOUS
  <2> HIDE DEF Q
  <2> QED BY <2>1, SmallestSubset
<1>2. T \in SUBSET S /\ ~ Fine(T)
  BY <1>1
<1>3. IsFiniteSet(T)
  BY <1>2, FS_Subset
<1>4. T # {}
  <2>1. T = {} => Total(f, T) = 0 /\ Total(g, T) = 0
    BY <1>3, TotalEquation
  <2> QED BY <1>2, <2>1
<1> DEFINE x == First(T)
<1>5. /\ x \in T
      /\ Total(f, T) = f[x] + Total(f, T \ {x}) /\ Total(g, T) = g[x] + Total(g, T \ {x})
  BY <1>3, <1>4, TotalEquation
<1>6. Fine(T \ {x})
  BY <1>1, <1>2, <1>5
<1>7. f[x] \in Int /\ g[x] \in Int /\ f[x] <= g[x]
  BY <1>2, <1>5
<1> HIDE DEF x, Q
<1> QED BY <1>2, <1>5, <1>6, <1>7

\* What is summed decides the sum.
LEMMA TotalSame ==
  ASSUME NEW S, IsFiniteSet(S), NEW f, NEW g, \A x \in S : f[x] \in Int /\ f[x] = g[x]
  PROVE  Total(f, S) \in Int /\ Total(f, S) = Total(g, S)
<1>1. Total(f, S) \in Int /\ Total(g, S) \in Int /\ Total(f, S) <= Total(g, S)
  BY TotalGrows
<1>2. Total(g, S) <= Total(f, S)
  BY TotalGrows
<1> QED BY <1>1, <1>2

LEMMA TotalOfNone == \A f : Total(f, {}) = 0
BY TotalEquation, FS_EmptySet

LEMMA TotalOfOne ==
  ASSUME NEW f, NEW a, f[a] \in Int
  PROVE  Total(f, {a}) = f[a]
<1>1. IsFiniteSet({a}) /\ {a} \ {a} = {}
  BY FS_Singleton
<1>2. First({a}) = a
  BY DEF First
<1>3. Total(f, {a}) = f[a] + Total(f, {a} \ {a})
  BY <1>1, <1>2, TotalEquation
<1>4. Total(f, {a} \ {a}) = 0
  BY <1>1, TotalOfNone
<1> QED BY <1>3, <1>4

LEMMA TotalOfTwo ==
  ASSUME NEW f, NEW a, NEW b, a # b, f[a] \in Int, f[b] \in Int
  PROVE  Total(f, {a, b}) = f[a] + f[b]
<1>1. IsFiniteSet({a, b})
  <2>1. IsFiniteSet({a} \cup {b}) /\ {a, b} = {a} \cup {b}
    BY FS_Singleton, FS_AddElement
  <2> QED BY <2>1
<1>2. First({a, b}) \in {a, b}
      /\ Total(f, {a, b}) = f[First({a, b})] + Total(f, {a, b} \ {First({a, b})})
  BY <1>1, TotalEquation
<1>3. Total(f, {a}) = f[a] /\ Total(f, {b}) = f[b]
  BY TotalOfOne
<1>4. {a, b} \ {a} = {b} /\ {a, b} \ {b} = {a}
  OBVIOUS
<1> DEFINE x == First({a, b})
<1> HIDE DEF x
<1>5. x = a \/ x = b
  BY <1>2 DEF x
<1>6. Total(f, {a, b}) = f[x] + Total(f, {a, b} \ {x})
  BY <1>2 DEF x
<1>7. CASE x = a
  <2>1. {a, b} \ {x} = {b}
    BY <1>4, <1>7
  <2>2. Total(f, {a, b}) = f[a] + Total(f, {b})
    BY <1>6, <1>7, <2>1
  <2> QED BY <1>3, <2>2
<1>8. CASE x = b
  <2>1. {a, b} \ {x} = {a}
    BY <1>4, <1>8
  <2>2. Total(f, {a, b}) = f[b] + Total(f, {a})
    BY <1>6, <1>8, <2>1
  <2> QED BY <1>3, <2>2
<1> QED BY <1>5, <1>7, <1>8

\* The first number with a property.
LEMMA SmallestNumber ==
  ASSUME NEW N \in Nat, NEW B \in SUBSET (0 .. N), B # {}
  PROVE  \E n \in B : \A m \in B : n <= m
<1> DEFINE Q == {0 .. n : n \in B}
           S == 0 .. N
<1>1. IsFiniteSet(S)
  BY FS_Interval
<1>2. PICK T \in Q : \A U \in SUBSET T : U \in Q => U = T
  <2>1. \A n \in B : 0 .. n \in SUBSET S
    OBVIOUS
  <2>2. Q \in SUBSET (SUBSET S)
    <3> HIDE DEF S
    <3> QED BY <2>1
  <2>3. Q # {}
    OBVIOUS
  <2> HIDE DEF Q, S
  <2> QED BY <1>1, <2>2, <2>3, SmallestSubset
<1>3. PICK n \in B : T = 0 .. n
  BY <1>2
<1>4. ASSUME NEW m \in B, ~ (n <= m)
      PROVE  FALSE
  <2>1. 0 .. m \in SUBSET T /\ 0 .. m \in Q /\ n \in T /\ n \notin 0 .. m
    BY <1>3, <1>4
  <2> HIDE DEF Q
  <2> QED BY <1>2, <2>1
<1> QED BY <1>4

\* What discovery has found when it has looked at n accounts.
Found(action, accounts, f, n) ==
  IF n = 0 THEN << >>
  ELSE IF Inspect(action, accounts[n]) THEN Append(f[n - 1], n)
  ELSE f[n - 1]

\* Discovery ends: its loop is a function.
LEMMA LoopExists ==
  ASSUME NEW action, NEW accounts, NEW N \in Nat
  PROVE  \E f : f = [n \in 0 .. N |-> Found(action, accounts, f, n)]
<1> DEFINE P(k) == \E f : f = [n \in 0 .. k |-> Found(action, accounts, f, n)]
           B == {k \in 0 .. N : ~ P(k)}
<1> SUFFICES ASSUME B # {} PROVE FALSE
  OBVIOUS
<1>1. PICK k \in B : \A m \in B : k <= m
  <2>1. B \in SUBSET (0 .. N)
    OBVIOUS
  <2> HIDE DEF B
  <2> QED BY <2>1, SmallestNumber
<1>2. k \in 0 .. N /\ ~ P(k)
  BY <1>1
<1>3. CASE k = 0
  <2> DEFINE f == [n \in 0 .. 0 |-> << >>]
  <2>1. f = [n \in 0 .. 0 |-> Found(action, accounts, f, n)]
    BY DEF Found
  <2> QED BY <1>2, <1>3, <2>1
<1>4. CASE k # 0
  <2>1. k - 1 \in 0 .. N /\ k - 1 \notin B
    BY <1>1, <1>2, <1>4
  <2>2. PICK g : g = [n \in 0 .. k - 1 |-> Found(action, accounts, g, n)]
    BY <2>1
  <2> DEFINE f == [n \in 0 .. k |-> IF n = k THEN Found(action, accounts, g, k) ELSE g[n]]
  <2>3. \A n \in 0 .. k - 1 : f[n] = g[n] /\ g[n] = Found(action, accounts, g, n)
    BY <1>2, <2>2
  <2>4. ASSUME NEW n \in 0 .. k
        PROVE  f[n] = Found(action, accounts, f, n)
    <3>1. n # 0 => n - 1 \in 0 .. k - 1
      BY <1>2
    <3>2. Found(action, accounts, f, n) = Found(action, accounts, g, n)
      <4> HIDE DEF f
      <4> QED BY <2>3, <3>1 DEF Found
    <3>3. n # k => f[n] = g[n] /\ n \in 0 .. k - 1
      BY <1>2
    <3> QED BY <2>3, <3>2, <3>3
  <2>5. f = [n \in 0 .. k |-> Found(action, accounts, f, n)]
    <3>1. f = [n \in 0 .. k |-> f[n]]
      OBVIOUS
    <3> HIDE DEF f
    <3> QED BY <2>4, <3>1
  <2> QED BY <1>2, <2>5
<1> QED BY <1>3, <1>4

\* Discovery finds positions of accounts, and only of those that pass inspection.
LEMMA Discovered ==
  ASSUME NEW action, NEW accounts \in Seq(Account)
  PROVE  /\ Discover(action, accounts) \in Seq(DOMAIN accounts)
         /\ \A n \in DOMAIN Discover(action, accounts) :
              Inspect(action, accounts[Discover(action, accounts)[n]])
<1> DEFINE N == Len(accounts)
           f == CHOOSE g : g = [n \in 0 .. N |-> Found(action, accounts, g, n)]
           Eligible == {k \in DOMAIN accounts : Inspect(action, accounts[k])}
           B == {n \in 0 .. N : f[n] \notin Seq(Eligible)}
<1>1. N \in Nat /\ DOMAIN accounts = 1 .. N
  OBVIOUS
<1>2. f = [n \in 0 .. N |-> Found(action, accounts, f, n)]
  <2>1. \E g : g = [n \in 0 .. N |-> Found(action, accounts, g, n)]
    BY <1>1, LoopExists
  <2> QED BY <2>1
<1>3. Discover(action, accounts) = f[N]
  BY DEF Discover, Found
<1> HIDE DEF f
<1>4. \A n \in 0 .. N : f[n] = Found(action, accounts, f, n)
  BY <1>2
<1>5. B = {}
  <2> SUFFICES ASSUME B # {} PROVE FALSE
    OBVIOUS
  <2>1. PICK n \in B : \A m \in B : n <= m
    <3>1. B \in SUBSET (0 .. N)
      OBVIOUS
    <3> HIDE DEF B, N
    <3> QED BY <1>1, <3>1, SmallestNumber
  <2>2. n \in 0 .. N /\ f[n] = Found(action, accounts, f, n) /\ f[n] \notin Seq(Eligible)
    BY <1>4, <2>1
  <2>3. n # 0
    <3>1. << >> \in Seq(Eligible)
      OBVIOUS
    <3> QED BY <2>2, <3>1 DEF Found
  <2>4. n - 1 \in 0 .. N /\ n - 1 \notin B
    BY <1>1, <2>1, <2>2, <2>3
  <2>5. f[n - 1] \in Seq(Eligible)
    BY <2>4
  <2>6. Inspect(action, accounts[n]) => n \in Eligible
    BY <1>1, <2>2, <2>3
  <2>7. Inspect(action, accounts[n]) => Append(f[n - 1], n) \in Seq(Eligible)
    <3> HIDE DEF Eligible
    <3> QED BY <2>5, <2>6
  <2> HIDE DEF Eligible
  <2> QED BY <2>2, <2>3, <2>5, <2>7 DEF Found
<1>6. f[N] \in Seq(Eligible)
  BY <1>1, <1>5
<1>7. Eligible \subseteq DOMAIN accounts
  OBVIOUS
<1>8. f[N] \in Seq(DOMAIN accounts)
  <2> HIDE DEF Eligible
  <2> QED BY <1>6, <1>7, SeqMonotonic
<1>9. ASSUME NEW n \in DOMAIN f[N]
      PROVE  f[N][n] \in Eligible
  <2> HIDE DEF Eligible
  <2> QED BY <1>6
<1> QED BY <1>3, <1>8, <1>9

-----------------------------------------------------------------------------
(***************************************************************************)
(* Messages.  What a message does is said by its instructions' set; the    *)
(* Lighthouse assertions of a wallet do nothing.                           *)
(***************************************************************************)
MessageFields ==
  {"signers", "privilege", "blockhash", "lookups", "instructions", "payerSigned", "walletSigned"}

\* s is a sequence, of whatever.
Sequence(s) == \E D : s \in Seq(D)

Proper(m) == DOMAIN m = MessageFields /\ Sequence(m.instructions)

\* The instructions that do something; a limit and an assertion do not.
Effects == {"price", "close", "transfer", "pay", "burn", "swap", "unwrap", "create", "deposit"}

SameOps(p, r) == \A op \in Effects : Ops(r, op) = Ops(p, op)

\* A sequence is what it begins with and the rest.
LEMMA SplitSequence ==
  ASSUME NEW s, Sequence(s), NEW n \in 0 .. Len(s)
  PROVE  /\ Range(s) = Range(SubSeq(s, 1, n)) \cup Range(SubSeq(s, n + 1, Len(s)))
         /\ Sequence(SubSeq(s, n + 1, Len(s)))
         /\ Len(SubSeq(s, n + 1, Len(s))) = Len(s) - n
<1>1. PICK D : s \in Seq(D)
  BY DEF Sequence
<1>2. Len(s) \in Nat /\ DOMAIN s = 1 .. Len(s) /\ \A k \in 1 .. Len(s) : s[k] \in D
  BY <1>1
<1> DEFINE a == SubSeq(s, 1, n)
           b == SubSeq(s, n + 1, Len(s))
<1>3. /\ DOMAIN a = 1 .. n /\ \A k \in 1 .. n : a[k] = s[k]
      /\ DOMAIN b = 1 .. Len(s) - n /\ \A k \in 1 .. Len(s) - n : b[k] = s[k + n]
  BY <1>2
<1>4. b \in Seq(D) /\ Len(b) = Len(s) - n
  <2>1. /\ n + 1 \in Int /\ Len(s) \in Int
        /\ \A k \in n + 1 .. Len(s) : s[k] \in D
    BY <1>2
  <2>2. b \in Seq(D) /\ Len(b) = IF n + 1 <= Len(s) THEN Len(s) - (n + 1) + 1 ELSE 0
    BY <2>1, SubSeqProperties
  <2>3. n \in Nat /\ n <= Len(s)
    BY <1>2
  <2> DEFINE l == Len(s)
             k == Len(b)
  <2> HIDE DEF b, l, k
  <2>4. l \in Nat /\ n \in Nat /\ n <= l /\ k = IF n + 1 <= l THEN l - (n + 1) + 1 ELSE 0
    BY <1>2, <2>2, <2>3 DEF k, l
  <2>5. k = l - n
    BY <2>4
  <2> QED BY <2>2, <2>5 DEF k, l
<1> HIDE DEF a, b
<1>5. \A x \in Range(s) : x \in Range(a) \/ x \in Range(b)
  <2> SUFFICES ASSUME NEW k \in 1 .. Len(s) PROVE s[k] \in Range(a) \/ s[k] \in Range(b)
    BY <1>2 DEF Range
  <2>1. CASE k <= n
    BY <1>2, <1>3, <2>1 DEF Range
  <2>2. CASE ~ (k <= n)
    <3>1. k - n \in 1 .. Len(s) - n /\ (k - n) + n = k
      BY <1>2, <2>2
    <3>2. b[k - n] = s[k] /\ k - n \in DOMAIN b
      BY <1>3, <3>1
    <3> QED BY <3>2 DEF Range
  <2> QED BY <2>1, <2>2
<1>6. \A x \in Range(a) : x \in Range(s)
  BY <1>2, <1>3 DEF Range
<1>7. \A x \in Range(b) : x \in Range(s)
  <2> SUFFICES ASSUME NEW k \in 1 .. Len(s) - n PROVE b[k] \in Range(s)
    BY <1>3 DEF Range
  <2>1. k + n \in 1 .. Len(s)
    BY <1>2
  <2> QED BY <1>2, <1>3, <2>1 DEF Range
<1>8. Range(s) = Range(a) \cup Range(b)
  BY <1>5, <1>6, <1>7
<1> QED BY <1>4, <1>8 DEF a, b, Sequence

\* What a server takes for the message it prepared does what that message does.
LEMMA ReturnedDoesTheSame ==
  ASSUME NEW p, NEW r, Proper(p), Proper(r), Len(p.instructions) >= 3,
         ValidatePhantomCompatibleTransaction(p, r)
  PROVE  SameOps(p, r)
<1> DEFINE hasLighthouse == DOMAIN r.privilege \ DOMAIN p.privilege = {"lighthouse"}
<1>1. CASE Body(p) = Body(r)
  <2>1. Body(p).instructions = p.instructions /\ Body(r).instructions = r.instructions
    BY DEF Body, Proper, MessageFields
  <2> QED BY <1>1, <2>1 DEF SameOps, Ops
<1>2. CASE SameCompute(p, r) /\ SameEconomics(p, r, hasLighthouse)
  <2> DEFINE s == p.instructions
             t == r.instructions
             expected == SubSeq(s, 3, Len(s))
             tail == SubSeq(t, 3, Len(t))
             extra == SubSeq(tail, Len(expected) + 1, Len(tail))
  <2>1. Sequence(s) /\ Sequence(t) /\ Len(s) \in Nat /\ Len(t) \in Nat
    BY DEF Proper, Sequence
  <2>2. Range(SubSeq(s, 1, 2)) = Range(SubSeq(t, 1, 2))
    BY <1>2 DEF SameCompute
  <2>3. /\ IsPrefix(expected, tail)
        /\ IF hasLighthouse
             THEN \A k \in DOMAIN extra :
                    LighthouseAssertionIsSupported(extra[k], DOMAIN p.privilege)
             ELSE extra = << >>
    BY <1>2 DEF SameEconomics, EconomicInstructions
  <2> HIDE DEF hasLighthouse
  <2>4. \A x \in Range(extra) : x.op = "assert"
    <3>1. \A k \in DOMAIN extra : extra[k].op = "assert"
      <4>1. extra = << >> => DOMAIN extra = {}
        <5> HIDE DEF extra
        <5> QED OBVIOUS
      <4> HIDE DEF extra
      <4> QED BY <2>3, <4>1 DEF LighthouseAssertionIsSupported
    <3> HIDE DEF extra
    <3> QED BY <3>1 DEF Range
  <2>5. /\ Range(s) = Range(SubSeq(s, 1, 2)) \cup Range(expected)
        /\ Sequence(expected) /\ Len(expected) = Len(s) - 2
    <3>1. 2 \in 0 .. Len(s) /\ 2 + 1 = 3
      BY <2>1
    <3>2. Sequence(s)
      BY <2>1
    <3> HIDE DEF s
    <3>3. /\ Range(s) = Range(SubSeq(s, 1, 2)) \cup Range(SubSeq(s, 2 + 1, Len(s)))
          /\ Sequence(SubSeq(s, 2 + 1, Len(s)))
          /\ Len(SubSeq(s, 2 + 1, Len(s))) = Len(s) - 2
      BY <3>1, <3>2, SplitSequence
    <3> QED BY <3>1, <3>3
  <2>6. Len(expected) \in Nat \ {0} /\ Len(expected) <= Len(tail)
    <3>1. Len(s) >= 3
      OBVIOUS
    <3> HIDE DEF s, expected, tail
    <3> QED BY <2>1, <2>3, <2>5, <3>1 DEF IsPrefix
  <2>7. Len(t) >= 3
    <3>1. Len(t) < 3 => tail = << >>
      <4> HIDE DEF t
      <4> QED BY <2>1, SubSeqEmpty
    <3>2. Len(<< >>) = 0
      OBVIOUS
    <3> HIDE DEF t, tail, expected
    <3> QED BY <2>1, <2>6, <3>1, <3>2
  <2>8. /\ Range(t) = Range(SubSeq(t, 1, 2)) \cup Range(tail)
        /\ Sequence(tail) /\ Len(tail) = Len(t) - 2
    <3>1. 2 \in 0 .. Len(t) /\ 2 + 1 = 3
      BY <2>1, <2>7
    <3>2. Sequence(t)
      BY <2>1
    <3> HIDE DEF t
    <3>3. /\ Range(t) = Range(SubSeq(t, 1, 2)) \cup Range(SubSeq(t, 2 + 1, Len(t)))
          /\ Sequence(SubSeq(t, 2 + 1, Len(t)))
          /\ Len(SubSeq(t, 2 + 1, Len(t))) = Len(t) - 2
      BY <3>1, <3>2, SplitSequence
    <3> QED BY <3>1, <3>3
  <2>9. Range(tail) = Range(SubSeq(tail, 1, Len(expected))) \cup Range(extra)
    <3>1. Len(expected) \in 0 .. Len(tail)
      BY <2>1, <2>6, <2>8
    <3> HIDE DEF tail, expected
    <3> QED BY <2>8, <3>1, SplitSequence
  <2>10. SubSeq(tail, 1, Len(expected)) = expected
    <3>1. SubSeq(expected, 1, Len(expected)) = expected
      <4>1. PICK D : expected \in Seq(D)
        BY <2>5 DEF Sequence
      <4> HIDE DEF expected
      <4> QED BY <4>1, SubSeqFull
    <3> QED BY <2>3, <3>1 DEF IsPrefix
  <2>11. Range(t) = Range(s) \cup Range(extra)
    <3> HIDE DEF s, t, expected, tail, extra
    <3> QED BY <2>2, <2>5, <2>8, <2>9, <2>10
  <2>12. \A x \in Range(extra) : x.op \notin Effects
    <3> HIDE DEF extra
    <3> QED BY <2>4 DEF Effects
  <2> HIDE DEF extra
  <2> QED BY <2>11, <2>12 DEF SameOps, Ops
<1> QED BY <1>1, <1>2 DEF ValidatePhantomCompatibleTransaction

-----------------------------------------------------------------------------
(* Whatever a wallet hands back, it is a message.                          *)
LEMMA ProperChanged ==
  ASSUME NEW m, Proper(m), NEW f \in MessageFields \ {"instructions"}, NEW v
  PROVE  Proper([m EXCEPT ![f] = v])
BY DEF Proper

LEMMA ProperRewritten ==
  ASSUME NEW m, Proper(m), NEW s, Sequence(s)
  PROVE  Proper([m EXCEPT !.instructions = s])
BY DEF Proper, MessageFields

LEMMA SequenceJoined ==
  ASSUME NEW s, NEW t, Sequence(s), Sequence(t)
  PROVE  Sequence(s \o t)
<1>1. PICK D : s \in Seq(D)
  BY DEF Sequence
<1>2. PICK E : t \in Seq(E)
  BY DEF Sequence
<1>3. s \in Seq(D \cup E) /\ t \in Seq(D \cup E)
  BY <1>1, <1>2, SeqMonotonic
<1> QED BY <1>3, ConcatProperties DEF Sequence

LEMMA SequenceCut ==
  ASSUME NEW s, Sequence(s), NEW a \in Nat \ {0}, NEW b \in Int, b <= Len(s)
  PROVE  Sequence(SubSeq(s, a, b))
<1>1. PICK D : s \in Seq(D)
  BY DEF Sequence
<1>2. \A i \in a .. b : s[i] \in D
  BY <1>1
<1>3. SubSeq(s, a, b) \in Seq(D)
  BY <1>2, SubSeqProperties
<1> QED BY <1>3 DEF Sequence

LEMMA SequenceExtended ==
  ASSUME NEW s, Sequence(s), NEW i
  PROVE  Sequence(Append(s, i))
<1>1. PICK D : s \in Seq(D)
  BY DEF Sequence
<1>2. s \in Seq(D \cup {i}) /\ i \in D \cup {i}
  BY <1>1, SeqMonotonic
<1> QED BY <1>2, AppendProperties DEF Sequence

LEMMA SequenceChanged ==
  ASSUME NEW s, Sequence(s), NEW k, NEW i
  PROVE  Sequence([s EXCEPT ![k] = i])
<1>1. PICK D : s \in Seq(D)
  BY DEF Sequence
<1>2. s \in Seq(D \cup {i}) /\ i \in D \cup {i}
  BY <1>1, SeqMonotonic
<1>3. [s EXCEPT ![k] = i] \in Seq(D \cup {i})
  <2>1. CASE k \in 1 .. Len(s)
    BY <1>2, <2>1, ExceptSeq
  <2>2. CASE k \notin 1 .. Len(s)
    <3>1. s = [n \in 1 .. Len(s) |-> s[n]]
      BY <1>2
    <3>2. [s EXCEPT ![k] = i] = s
      BY <2>2, <3>1
    <3> QED BY <1>2, <3>2
  <2> QED BY <2>1, <2>2
<1> QED BY <1>3 DEF Sequence

(* What a wallet may hand back is a message still.                         *)
LEMMA NormalisedIsProper ==
  ASSUME NEW m, Proper(m), NEW n \in Normalised(m)
  PROVE  Proper(n)
<1> DEFINE l == LimitFirst(m)
<1>0. Sequence(m.instructions) /\ Len(m.instructions) \in Nat
  BY DEF Proper, Sequence
<1>1. Proper(l)
  <2> DEFINE s == m.instructions
             u == <<s[2], s[1]>> \o SubSeq(s, 3, Len(s))
  <2>1. Sequence(<<s[2], s[1]>>)
    <3>1. <<s[2], s[1]>> \in Seq({s[1], s[2]})
      OBVIOUS
    <3> QED BY <3>1 DEF Sequence
  <2>2. Sequence(SubSeq(s, 3, Len(s)))
    BY <1>0, SequenceCut
  <2>3. Sequence(u)
    BY <2>1, <2>2, SequenceJoined
  <2>4. l = m \/ l = [m EXCEPT !.instructions = u]
    BY DEF LimitFirst
  <2> HIDE DEF l, u
  <2> QED BY <2>3, <2>4, ProperRewritten
<1> HIDE DEF l
<1>2. ASSUME NEW x, Proper(x), NEW key, NEW privilege
      PROVE  Proper(WithKey(x, key, privilege))
  <2>1. \E v : WithKey(x, key, privilege) = [x EXCEPT !.privilege = v]
    BY DEF WithKey
  <2>2. "privilege" \in MessageFields \ {"instructions"}
    BY DEF MessageFields
  <2> QED BY <1>2, <2>1, <2>2, ProperChanged
<1>3. ASSUME NEW op, NEW count \in Nat
      PROVE  Proper(Guarded(m, op, count))
  <2> DEFINE w == WithKey(l, "lighthouse", "-r")
             t == Assertions(op, count)
  <2>1. Proper(w) /\ Sequence(w.instructions)
    BY <1>1, <1>2 DEF Proper
  <2>2. Sequence(t)
    <3>1. t \in Seq({Instruction("lighthouse", op, "wallet", 0)})
      BY DEF Assertions
    <3> QED BY <3>1 DEF Sequence
  <2> HIDE DEF w, t
  <2>3. Proper([w EXCEPT !.instructions = w.instructions \o t])
    BY <2>1, <2>2, SequenceJoined, ProperRewritten
  <2> QED BY <2>3 DEF Guarded, w, t, l
<1>4. 1 \in Nat /\ MAX_LIGHTHOUSE_ASSERTIONS + 1 \in Nat
  BY DEF MAX_LIGHTHOUSE_ASSERTIONS
<1> QED BY <1>1, <1>2, <1>3, <1>4 DEF Normalised, l

LEMMA TamperedIsProper ==
  ASSUME NEW m, Proper(m), NEW n \in Tampered(m)
  PROVE  Proper(n)
<1> DEFINE s == m.instructions
           last == Len(s)
<1>1. Sequence(s) /\ last \in Nat
  BY DEF Proper, Sequence
<1>2. ASSUME NEW k, NEW i
      PROVE  Sequence([s EXCEPT ![k] = i])
  BY <1>1, SequenceChanged
<1>3. Sequence(RemoveAt(s, 1)) /\ Sequence(RemoveAt(s, last))
  <2>1. ASSUME NEW k \in Nat, k <= last + 1
        PROVE  Sequence(RemoveAt(s, k))
    <3>1. Sequence(SubSeq(s, 1, k - 1)) /\ Sequence(SubSeq(s, k + 1, last))
      <4>1. 1 \in Nat \ {0} /\ k - 1 \in Int /\ k - 1 <= last /\ k + 1 \in Nat \ {0} /\ last \in Int
        BY <1>1, <2>1
      <4>2. last <= Len(s)
        BY <1>1
      <4> HIDE DEF s
      <4> QED BY <1>1, <4>1, <4>2, SequenceCut
    <3> HIDE DEF s
    <3> QED BY <3>1, SequenceJoined DEF RemoveAt
  <2>2. 1 \in Nat /\ 1 <= last + 1 /\ last \in Nat /\ last <= last + 1
    BY <1>1
  <2> HIDE DEF last, s
  <2> QED BY <2>1, <2>2
<1>4. Sequence(Append(s, Instruction("token", "pay", "stranger", 1)))
  BY <1>1, SequenceExtended
<1>5. CASE n \in {[m EXCEPT !.blockhash = "other"], [m EXCEPT !.lookups = "other"],
                  [m EXCEPT !.signers = <<"wallet", "payer">>],
                  [m EXCEPT !.privilege["wallet"] = "-w"], WithKey(m, "stranger", "-w"),
                  [m EXCEPT !.walletSigned = FALSE], [m EXCEPT !.payerSigned = TRUE]}
  BY <1>5 DEF Proper, MessageFields, WithKey
<1>6. CASE n \in {[m EXCEPT !.instructions = RemoveAt(@, 1)],
                  [m EXCEPT !.instructions = RemoveAt(@, last)],
                  [m EXCEPT !.instructions =
                      Append(@, Instruction("token", "pay", "stranger", 1))]}
  <2>1. \E t : n = [m EXCEPT !.instructions = t] /\ Sequence(t)
    <3> HIDE DEF last
    <3> QED BY <1>3, <1>4, <1>6
  <2> QED BY <2>1, ProperRewritten
<1>7. CASE \/ n = [m EXCEPT !.instructions[1].amount = @ + 1]
           \/ \E k : \/ n = [m EXCEPT !.instructions[k].amount = @ - 1]
                    \/ n = [m EXCEPT !.instructions[k].account = "wallet"]
  <2>1. \E k, i : n = [m EXCEPT !.instructions = [s EXCEPT ![k] = i]]
    BY <1>7
  <2>2. \E t : n = [m EXCEPT !.instructions = t] /\ Sequence(t)
    <3> HIDE DEF s
    <3> QED BY <1>2, <2>1
  <2> QED BY <2>2, ProperRewritten
<1> QED BY <1>5, <1>6, <1>7 DEF Tampered

LEMMA ReturnedIsProper ==
  ASSUME NEW m, Proper(m), NEW r \in WalletReturns(m)
  PROVE  Proper(r)
<1> DEFINE signed == [m EXCEPT !.walletSigned = TRUE]
<1>1. Proper(signed)
  BY ProperChanged DEF MessageFields
<1>2. PICK n \in Normalised(signed) : r = n \/ r \in Tampered(n)
  BY DEF WalletReturns
<1> HIDE DEF signed
<1>3. Proper(n)
  BY <1>1, <1>2, NormalisedIsProper
<1> QED BY <1>2, <1>3, TamperedIsProper

-----------------------------------------------------------------------------
LEMMA RangeJoined ==
  ASSUME NEW s, NEW t, Sequence(s), Sequence(t)
  PROVE  Range(s \o t) = Range(s) \cup Range(t) /\ Len(s \o t) = Len(s) + Len(t)
<1>1. /\ Len(s) \in Nat /\ DOMAIN s = 1 .. Len(s) /\ Len(t) \in Nat /\ DOMAIN t = 1 .. Len(t)
  BY DEF Sequence
<1> DEFINE u == s \o t
<1>2. /\ DOMAIN u = 1 .. Len(s) + Len(t) /\ Len(u) = Len(s) + Len(t)
      /\ \A k \in 1 .. Len(s) : u[k] = s[k]
      /\ \A k \in Len(s) + 1 .. Len(s) + Len(t) : u[k] = t[k - Len(s)]
  <2>1. PICK D : s \in Seq(D)
    BY DEF Sequence
  <2>2. PICK E : t \in Seq(E)
    BY DEF Sequence
  <2>3. s \in Seq(D \cup E) /\ t \in Seq(D \cup E)
    BY <2>1, <2>2, SeqMonotonic
  <2>4. /\ u \in Seq(D \cup E) /\ Len(u) = Len(s) + Len(t)
        /\ \A i \in 1 .. Len(s) + Len(t) : u[i] = IF i <= Len(s) THEN s[i] ELSE t[i - Len(s)]
    BY <2>3, ConcatProperties
  <2> HIDE DEF u
  <2> QED BY <1>1, <2>4
<1> HIDE DEF u
<1>3. \A x \in Range(u) : x \in Range(s) \/ x \in Range(t)
  <2> SUFFICES ASSUME NEW k \in DOMAIN u PROVE u[k] \in Range(s) \/ u[k] \in Range(t)
    BY DEF Range
  <2>1. CASE k <= Len(s)
    BY <1>1, <1>2, <2>1 DEF Range
  <2>2. CASE ~ (k <= Len(s))
    <3>1. k - Len(s) \in 1 .. Len(t) /\ k \in Len(s) + 1 .. Len(s) + Len(t)
      BY <1>1, <1>2, <2>2
    <3> QED BY <1>1, <1>2, <3>1 DEF Range
  <2> QED BY <2>1, <2>2
<1>4. \A x \in Range(s) : x \in Range(u)
  BY <1>1, <1>2 DEF Range
<1>5. \A x \in Range(t) : x \in Range(u)
  <2> SUFFICES ASSUME NEW k \in 1 .. Len(t) PROVE t[k] \in Range(u)
    BY <1>1 DEF Range
  <2>1. k + Len(s) \in Len(s) + 1 .. Len(s) + Len(t) /\ (k + Len(s)) - Len(s) = k
    BY <1>1
  <2>2. u[k + Len(s)] = t[k] /\ k + Len(s) \in DOMAIN u
    BY <1>1, <1>2, <2>1
  <2> QED BY <2>2 DEF Range
<1> QED BY <1>2, <1>3, <1>4, <1>5 DEF u

LEMMA RangeOfNone == Sequence(<< >>) /\ Range(<< >>) = {} /\ Len(<< >>) = 0
BY DEF Sequence, Range

LEMMA RangeOfOne ==
  ASSUME NEW a
  PROVE  Sequence(<<a>>) /\ Range(<<a>>) = {a} /\ Len(<<a>>) = 1
<1> DEFINE s == <<a>>
<1>1. s \in Seq({a}) /\ Len(s) = 1 /\ DOMAIN s = 1 .. 1
  OBVIOUS
<1>2. s[1] = a
  OBVIOUS
<1>3. Sequence(s)
  BY <1>1 DEF Sequence
<1> HIDE DEF s
<1>4. 1 .. 1 = {1}
  OBVIOUS
<1>5. Range(s) = {a}
  BY <1>1, <1>2, <1>4 DEF Range
<1> QED BY <1>1, <1>3, <1>5 DEF s

LEMMA RangeOfTwo ==
  ASSUME NEW a, NEW b
  PROVE  Sequence(<<a, b>>) /\ Range(<<a, b>>) = {a, b} /\ Len(<<a, b>>) = 2
<1> DEFINE s == <<a, b>>
<1>1. s \in Seq({a, b}) /\ Len(s) = 2 /\ DOMAIN s = 1 .. 2
  OBVIOUS
<1>2. s[1] = a /\ s[2] = b
  OBVIOUS
<1>3. Sequence(s)
  BY <1>1 DEF Sequence
<1> HIDE DEF s
<1>4. 1 .. 2 = {1, 2}
  OBVIOUS
<1>5. Range(s) = {a, b}
  BY <1>1, <1>2, <1>4 DEF Range
<1> QED BY <1>1, <1>3, <1>5 DEF s

LEMMA RangeOfThree ==
  ASSUME NEW a, NEW b, NEW c
  PROVE  Sequence(<<a, b, c>>) /\ Range(<<a, b, c>>) = {a, b, c} /\ Len(<<a, b, c>>) = 3
<1> DEFINE s == <<a, b, c>>
<1>1. s \in Seq({a, b, c}) /\ Len(s) = 3 /\ DOMAIN s = 1 .. 3
  OBVIOUS
<1>2. s[1] = a /\ s[2] = b /\ s[3] = c
  OBVIOUS
<1>3. Sequence(s)
  BY <1>1 DEF Sequence
<1> HIDE DEF s
<1>4. 1 .. 3 = {1, 2, 3}
  OBVIOUS
<1>5. Range(s) = {a, b, c}
  BY <1>1, <1>2, <1>4 DEF Range
<1> QED BY <1>1, <1>3, <1>5 DEF s

LEMMA RangeOfFour ==
  ASSUME NEW a, NEW b, NEW c, NEW d
  PROVE  /\ Sequence(<<a, b, c, d>>) /\ Range(<<a, b, c, d>>) = {a, b, c, d}
         /\ Len(<<a, b, c, d>>) = 4
<1> DEFINE s == <<a, b, c, d>>
<1>1. s \in Seq({a, b, c, d}) /\ Len(s) = 4 /\ DOMAIN s = 1 .. 4
  OBVIOUS
<1>2. s[1] = a /\ s[2] = b /\ s[3] = c /\ s[4] = d
  OBVIOUS
<1>3. Sequence(s)
  BY <1>1 DEF Sequence
<1> HIDE DEF s
<1>4. 1 .. 4 = {1, 2, 3, 4}
  OBVIOUS
<1>5. Range(s) = {a, b, c, d}
  BY <1>1, <1>2, <1>4 DEF Range
<1> QED BY <1>1, <1>3, <1>5 DEF s

\* A message as the server builds it.
Sponsored(m) ==
  Proper(m) /\ Len(m.instructions) >= 3 /\ m.signers = <<"payer", "wallet">>

LEMMA CompiledIsProper ==
  ASSUME NEW s, Sequence(s), NEW w, NEW l
  PROVE  /\ Proper(Compile(s, w, l)) /\ Compile(s, w, l).instructions = s
         /\ Compile(s, w, l).signers = <<"payer", "wallet">>
BY DEF Compile, Proper, MessageFields

Price == Instruction("compute", "price", "none", 0)
Limit == Instruction("compute", "limit", "none", 0)
Transfer(x) == Instruction("system", "transfer", "feeDestination", x)
Pay(account, x) == Instruction("token", "pay", account, x)
Create(account) == Instruction("ata", "create", account, 0)

\* A Claim closes its accounts and settles.
ClaimOps(m, accounts, x) ==
  /\ Ops(m, "price") = {Price} /\ Ops(m, "transfer") = {Transfer(x)}
  /\ Ops(m, "close") = {CloseAccount(a) : a \in Range(accounts)}
  /\ \A op \in {"pay", "burn", "swap", "unwrap", "create", "deposit"} : Ops(m, op) = {}

LEMMA BuildClaimDoes ==
  ASSUME NEW accounts, Sequence(accounts), NEW x
  PROVE  /\ Sponsored(BuildClaimTransaction(accounts, x))
         /\ ClaimOps(BuildClaimTransaction(accounts, x), accounts, x)
<1> DEFINE c == [k \in 1 .. Len(accounts) |-> CloseAccount(accounts[k])]
           C == {CloseAccount(a) : a \in Range(accounts)}
           t == <<Transfer(x)>>
           m == BuildClaimTransaction(accounts, x)
<1>1. Len(accounts) \in Nat /\ DOMAIN accounts = 1 .. Len(accounts)
  BY DEF Sequence
<1>2. Sequence(c) /\ Range(c) = C /\ Len(c) \in Nat
  <2>1. c \in Seq(C)
    BY <1>1 DEF Range
  <2>2. Range(c) = C
    BY <1>1 DEF Range
  <2>3. Len(c) \in Nat
    BY <1>1
  <2> HIDE DEF c, C
  <2> QED BY <2>1, <2>2, <2>3 DEF Sequence
<1>3. /\ Sequence(CleanComputeBudget) /\ Range(CleanComputeBudget) = {Price, Limit}
      /\ Len(CleanComputeBudget) = 2
  BY RangeOfTwo DEF CleanComputeBudget, Price, Limit
<1>4. Sequence(t) /\ Range(t) = {Transfer(x)} /\ Len(t) = 1
  BY RangeOfOne
<1>5. m = Compile((CleanComputeBudget \o c) \o t, "sw", "none")
  BY DEF BuildClaimTransaction, Transfer
<1> DEFINE s == (CleanComputeBudget \o c) \o t
<1> HIDE DEF c, t, m, C
<1>6. Sequence(s) /\ Range(s) = {Price, Limit} \cup C \cup {Transfer(x)} /\ Len(s) >= 3
  <2>1. Sequence(CleanComputeBudget \o c)
    BY <1>2, <1>3, SequenceJoined
  <2>2. /\ Range(CleanComputeBudget \o c) = {Price, Limit} \cup C
        /\ Len(CleanComputeBudget \o c) = 2 + Len(c)
    BY <1>2, <1>3, RangeJoined
  <2>3. Sequence(s)
    BY <1>4, <2>1, SequenceJoined
  <2>4. /\ Range(s) = Range(CleanComputeBudget \o c) \cup Range(t)
        /\ Len(s) = Len(CleanComputeBudget \o c) + Len(t)
    BY <1>4, <2>1, RangeJoined
  <2> QED BY <1>2, <1>4, <2>2, <2>3, <2>4
<1> HIDE DEF s
<1>7. Sponsored(m) /\ m.instructions = s
  <2>1. m = Compile(s, "sw", "none")
    BY <1>5 DEF s
  <2>2. Proper(m) /\ m.instructions = s /\ m.signers = <<"payer", "wallet">>
    BY <1>6, <2>1, CompiledIsProper
  <2> QED BY <1>6, <2>2 DEF Sponsored
<1>8. \A i \in C : i.op = "close"
  BY DEF C, CloseAccount, Instruction
<1>9. Price.op = "price" /\ Limit.op = "limit" /\ Transfer(x).op = "transfer"
  BY DEF Price, Limit, Transfer, Instruction
<1>10. ClaimOps(m, accounts, x)
  <2>1. \A op : Ops(m, op) = {i \in {Price, Limit} \cup C \cup {Transfer(x)} : i.op = op}
    BY <1>6, <1>7 DEF Ops
  <2> QED BY <1>8, <1>9, <2>1 DEF ClaimOps, C
<1> QED BY <1>7, <1>10 DEF m

\* A Burn burns what is in its account, closes it and settles.
BurnOps(m, a, y, x) ==
  /\ Ops(m, "price") = {Price} /\ Ops(m, "transfer") = {Transfer(x)}
  /\ Ops(m, "close") = {CloseAccount(a)}
  /\ Ops(m, "burn") = {Instruction("token", "burn", a, y)}
  /\ \A op \in {"pay", "swap", "unwrap", "create", "deposit"} : Ops(m, op) = {}

LEMMA BuildBurnDoes ==
  ASSUME NEW a, NEW y, NEW x
  PROVE  /\ Sponsored(BuildBurnTransaction(a, y, x))
         /\ BurnOps(BuildBurnTransaction(a, y, x), a, y, x)
<1> DEFINE b == Instruction("token", "burn", a, y)
           t == <<b, CloseAccount(a), Transfer(x)>>
           s == CleanComputeBudget \o t
           m == BuildBurnTransaction(a, y, x)
<1>1. /\ Sequence(CleanComputeBudget) /\ Range(CleanComputeBudget) = {Price, Limit}
      /\ Len(CleanComputeBudget) = 2
  BY RangeOfTwo DEF CleanComputeBudget, Price, Limit
<1>2. Sequence(t) /\ Range(t) = {b, CloseAccount(a), Transfer(x)} /\ Len(t) = 3
  BY RangeOfThree
<1>3. m = Compile(s, "sw", "none")
  BY DEF BuildBurnTransaction, Transfer
<1> HIDE DEF t, m
<1>4. Sequence(s) /\ Range(s) = {Price, Limit, b, CloseAccount(a), Transfer(x)} /\ Len(s) >= 3
  <2>1. Sequence(s)
    BY <1>1, <1>2, SequenceJoined
  <2>2. Range(s) = {Price, Limit} \cup {b, CloseAccount(a), Transfer(x)} /\ Len(s) = 2 + 3
    BY <1>1, <1>2, RangeJoined
  <2> HIDE DEF s
  <2> QED BY <2>1, <2>2
<1> HIDE DEF s
<1>5. Sponsored(m) /\ m.instructions = s
  <2>1. Proper(m) /\ m.instructions = s /\ m.signers = <<"payer", "wallet">>
    BY <1>3, <1>4, CompiledIsProper
  <2> QED BY <1>4, <2>1 DEF Sponsored
<1>6. /\ Price.op = "price" /\ Limit.op = "limit" /\ Transfer(x).op = "transfer"
      /\ b.op = "burn" /\ CloseAccount(a).op = "close"
  BY DEF Price, Limit, Transfer, CloseAccount, Instruction
<1> HIDE DEF b
<1>7. \A op : Ops(m, op) = {i \in {Price, Limit, b, CloseAccount(a), Transfer(x)} : i.op = op}
  BY <1>4, <1>5 DEF Ops
<1>8. BurnOps(m, a, y, x)
  BY <1>6, <1>7 DEF BurnOps, b
<1> QED BY <1>5, <1>8 DEF m

(* A message of three parts does what its parts do.                        *)
LEMMA CompiledDoes ==
  ASSUME NEW a, NEW b, NEW c, NEW w, NEW l, Sequence(a), Sequence(b), Sequence(c),
         Len(a) = 2, Len(b) \in Nat, Len(c) \in Nat \ {0}
  PROVE  /\ Sponsored(Compile((a \o b) \o c, w, l))
         /\ \A op : Ops(Compile((a \o b) \o c, w, l), op)
                      = {i \in Range(a) \cup Range(b) \cup Range(c) : i.op = op}
<1> DEFINE s == (a \o b) \o c
           m == Compile(s, w, l)
<1>1. Sequence(s) /\ Range(s) = Range(a) \cup Range(b) \cup Range(c) /\ Len(s) >= 3
  <2>1. Sequence(a \o b)
    BY SequenceJoined
  <2>2. Range(a \o b) = Range(a) \cup Range(b) /\ Len(a \o b) = 2 + Len(b)
    BY RangeJoined
  <2>3. Sequence(s)
    BY <2>1, SequenceJoined
  <2>4. Range(s) = Range(a \o b) \cup Range(c) /\ Len(s) = Len(a \o b) + Len(c)
    BY <2>1, RangeJoined
  <2> QED BY <2>2, <2>3, <2>4
<1> HIDE DEF s
<1>2. Proper(m) /\ m.instructions = s /\ m.signers = <<"payer", "wallet">>
  BY <1>1, CompiledIsProper
<1> QED BY <1>1, <1>2 DEF Sponsored, Ops, s

(* A Recover swaps what is in its account, closes it, unwraps and settles. *)
RecoverOps(m, a, y, x, setup) ==
  /\ Ops(m, "price") = {Price} /\ Ops(m, "transfer") = {Transfer(x)}
  /\ Ops(m, "close") = {CloseAccount(a)}
  /\ Ops(m, "swap") = {Instruction("jupiter", "swap", a, y)}
  /\ Ops(m, "unwrap") = {Instruction("token", "unwrap", "wrapped", 0)}
  /\ Ops(m, "create") = IF setup THEN {Create("wrapped")} ELSE {}
  /\ \A op \in {"pay", "burn", "deposit"} : Ops(m, op) = {}

LEMMA BuildRecoverDoes ==
  ASSUME NEW a, NEW y, NEW x, NEW setup \in BOOLEAN
  PROVE  /\ Sponsored(BuildRecoverTransaction(a, y, x, setup))
         /\ RecoverOps(BuildRecoverTransaction(a, y, x, setup), a, y, x, setup)
<1> DEFINE i1 == Instruction("jupiter", "swap", a, y)
           i2 == Instruction("token", "unwrap", "wrapped", 0)
           c == <<i1, CloseAccount(a), i2, Transfer(x)>>
           b == IF setup THEN <<Create("wrapped")>> ELSE << >>
           B == IF setup THEN {Create("wrapped")} ELSE {}
           m == BuildRecoverTransaction(a, y, x, setup)
<1>1. /\ Sequence(CleanComputeBudget) /\ Range(CleanComputeBudget) = {Price, Limit}
      /\ Len(CleanComputeBudget) = 2
  BY RangeOfTwo DEF CleanComputeBudget, Price, Limit
<1>2. Sequence(b) /\ Range(b) = B /\ Len(b) \in Nat
  BY RangeOfOne, RangeOfNone
<1>3. Sequence(c) /\ Range(c) = {i1, CloseAccount(a), i2, Transfer(x)} /\ Len(c) \in Nat \ {0}
  <2> HIDE DEF i1, i2
  <2> QED BY RangeOfFour
<1>4. m = Compile((CleanComputeBudget \o b) \o c, "sw", "route")
  BY DEF BuildRecoverTransaction, Create, Transfer
<1> HIDE DEF b, c, m
<1>5. /\ Sponsored(m)
      /\ \A op : Ops(m, op) = {i \in {Price, Limit} \cup B
                                      \cup {i1, CloseAccount(a), i2, Transfer(x)} : i.op = op}
  BY <1>1, <1>2, <1>3, <1>4, CompiledDoes
<1>6. /\ Price.op = "price" /\ Limit.op = "limit" /\ Transfer(x).op = "transfer"
      /\ i1.op = "swap" /\ i2.op = "unwrap" /\ CloseAccount(a).op = "close"
      /\ Create("wrapped").op = "create"
  BY DEF Price, Limit, Transfer, CloseAccount, Create, Instruction
<1> HIDE DEF i1, i2
<1>7. RecoverOps(m, a, y, x, setup)
  BY <1>5, <1>6 DEF RecoverOps, i1, i2
<1> QED BY <1>5, <1>7 DEF m

(* A Send pays the recipient, the sponsor and the fee.                     *)
SendOps(m, amount, reimbursement, fee, exists) ==
  /\ Ops(m, "price") = {Price}
  /\ Ops(m, "pay") = {Pay("recipient", amount), Pay("reimbursement", reimbursement),
                      Pay("serviceFee", fee)}
  /\ Ops(m, "create") = IF exists THEN {} ELSE {Create("recipient")}
  /\ \A op \in {"transfer", "close", "swap", "burn", "unwrap", "deposit"} : Ops(m, op) = {}

LEMMA BuildSendDoes ==
  ASSUME NEW amount, NEW reimbursement, NEW fee, NEW exists \in BOOLEAN
  PROVE  /\ Sponsored(BuildSendTransaction(amount, reimbursement, fee, exists))
         /\ SendOps(BuildSendTransaction(amount, reimbursement, fee, exists),
                    amount, reimbursement, fee, exists)
<1> DEFINE i1 == Pay("recipient", amount)
           i2 == Pay("reimbursement", reimbursement)
           i3 == Pay("serviceFee", fee)
           c == <<i1, i2, i3>>
           b == IF exists THEN << >> ELSE <<Create("recipient")>>
           B == IF exists THEN {} ELSE {Create("recipient")}
           m == BuildSendTransaction(amount, reimbursement, fee, exists)
<1>1. /\ Sequence(CleanComputeBudget) /\ Range(CleanComputeBudget) = {Price, Limit}
      /\ Len(CleanComputeBudget) = 2
  BY RangeOfTwo DEF CleanComputeBudget, Price, Limit
<1>2. Sequence(b) /\ Range(b) = B /\ Len(b) \in Nat
  BY RangeOfOne, RangeOfNone
<1>3. Sequence(c) /\ Range(c) = {i1, i2, i3} /\ Len(c) \in Nat \ {0}
  <2> HIDE DEF i1, i2, i3
  <2> QED BY RangeOfThree
<1>4. m = Compile((CleanComputeBudget \o b) \o c, "sr", "none")
  BY DEF BuildSendTransaction, Create, Pay
<1> HIDE DEF b, c, m
<1>5. /\ Sponsored(m)
      /\ \A op : Ops(m, op) = {i \in {Price, Limit} \cup B \cup {i1, i2, i3} : i.op = op}
  BY <1>1, <1>2, <1>3, <1>4, CompiledDoes
<1>6. /\ Price.op = "price" /\ Limit.op = "limit"
      /\ i1.op = "pay" /\ i2.op = "pay" /\ i3.op = "pay" /\ Create("recipient").op = "create"
  BY DEF Price, Limit, Pay, Create, Instruction
<1> HIDE DEF i1, i2, i3
<1>7. SendOps(m, amount, reimbursement, fee, exists)
  BY <1>5, <1>6 DEF SendOps, i1, i2, i3
<1> QED BY <1>5, <1>7 DEF m

(* A Swap routes an amount and pays the sponsor and the fee.               *)
SwapOps(m, a, routed, reimbursement, fee, exists) ==
  /\ Ops(m, "price") = {Price}
  /\ Ops(m, "swap") = {Instruction("jupiter", "swap", a, routed)}
  /\ Ops(m, "pay") = {Pay("reimbursement", reimbursement), Pay("serviceFee", fee)}
  /\ Ops(m, "create") = IF exists THEN {} ELSE {Create("output")}
  /\ \A op \in {"transfer", "close", "burn", "unwrap", "deposit"} : Ops(m, op) = {}

LEMMA BuildSwapDoes ==
  ASSUME NEW a, NEW routed, NEW reimbursement, NEW fee, NEW exists \in BOOLEAN
  PROVE  /\ Sponsored(BuildSwapTransaction(a, routed, reimbursement, fee, exists))
         /\ SwapOps(BuildSwapTransaction(a, routed, reimbursement, fee, exists),
                    a, routed, reimbursement, fee, exists)
<1> DEFINE i1 == Instruction("jupiter", "swap", a, routed)
           i2 == Pay("reimbursement", reimbursement)
           i3 == Pay("serviceFee", fee)
           c == <<i1, i2, i3>>
           b == IF exists THEN << >> ELSE <<Create("output")>>
           B == IF exists THEN {} ELSE {Create("output")}
           m == BuildSwapTransaction(a, routed, reimbursement, fee, exists)
<1>1. /\ Sequence(<<Limit, Price>>) /\ Range(<<Limit, Price>>) = {Limit, Price}
      /\ Len(<<Limit, Price>>) = 2
  BY RangeOfTwo
<1>2. Sequence(b) /\ Range(b) = B /\ Len(b) \in Nat
  BY RangeOfOne, RangeOfNone
<1>3. Sequence(c) /\ Range(c) = {i1, i2, i3} /\ Len(c) \in Nat \ {0}
  <2> HIDE DEF i1, i2, i3
  <2> QED BY RangeOfThree
<1>4. m = Compile((<<Limit, Price>> \o b) \o c, "sw", "route")
  BY DEF BuildSwapTransaction, Create, Pay, Limit, Price
<1> HIDE DEF b, c, m
<1>5. /\ Sponsored(m)
      /\ \A op : Ops(m, op) = {i \in {Limit, Price} \cup B \cup {i1, i2, i3} : i.op = op}
  BY <1>1, <1>2, <1>3, <1>4, CompiledDoes
<1>6. /\ Price.op = "price" /\ Limit.op = "limit"
      /\ i1.op = "swap" /\ i2.op = "pay" /\ i3.op = "pay" /\ Create("output").op = "create"
  BY DEF Price, Limit, Pay, Create, Instruction
<1> HIDE DEF i1, i2, i3
<1>7. SwapOps(m, a, routed, reimbursement, fee, exists)
  BY <1>5, <1>6 DEF SwapOps, i1, i2, i3
<1> QED BY <1>5, <1>7 DEF m

(* A deposit is one instruction, signed by the sponsor first.              *)
DepositOps(m, i) ==
  /\ Ops(m, "deposit") = {i}
  /\ \A op \in Effects \ {"deposit"} : Ops(m, op) = {}

LEMMA BuildDepositDoes ==
  ASSUME NEW i, i.op = "deposit"
  PROVE  /\ Proper(SponsorSigned(BuildDeposit(i)))
         /\ SponsorSigned(BuildDeposit(i)).signers = <<"payer", "wallet">>
         /\ DepositOps(SponsorSigned(BuildDeposit(i)), i)
<1> DEFINE p == BuildDeposit(i)
           m == SponsorSigned(p)
<1>1. /\ Sequence(<<i>>) /\ Range(<<i>>) = {i}
  BY RangeOfOne
<1>2. p = Compile(<<i>>, "sr", "relay")
  BY DEF BuildDeposit
<1>3. Proper(p) /\ p.instructions = <<i>> /\ p.signers = <<"payer", "wallet">>
  BY <1>1, <1>2, CompiledIsProper
<1> HIDE DEF p
<1>4. /\ Proper(m) /\ m.instructions = <<i>> /\ m.signers = <<"payer", "wallet">>
  BY <1>3 DEF SponsorSigned, Proper, MessageFields
<1> HIDE DEF m
<1>5. \A op : Ops(m, op) = {j \in {i} : j.op = op}
  BY <1>1, <1>4 DEF Ops
<1>6. DepositOps(m, i)
  BY <1>5 DEF DepositOps, Effects
<1> QED BY <1>4, <1>6 DEF m, p

-----------------------------------------------------------------------------
(***************************************************************************)
(* What a message moves.                                                   *)
(***************************************************************************)
LEMMA AmountOfNone == Amount({}) = 0
BY TotalOfNone DEF Amount

LEMMA AmountOfOne ==
  ASSUME NEW i, i.amount \in Int
  PROVE  Amount({i}) = i.amount
<1> DEFINE f == [j \in {i} |-> j.amount]
<1>1. f[i] = i.amount /\ Amount({i}) = Total(f, {i})
  BY DEF Amount
<1> HIDE DEF f
<1> QED BY <1>1, TotalOfOne

LEMMA AmountOfTwo ==
  ASSUME NEW i, NEW j, i # j, i.amount \in Int, j.amount \in Int
  PROVE  Amount({i, j}) = i.amount + j.amount
<1> DEFINE f == [l \in {i, j} |-> l.amount]
<1>1. f[i] = i.amount /\ f[j] = j.amount /\ Amount({i, j}) = Total(f, {i, j})
  BY DEF Amount
<1> HIDE DEF f
<1>2. f[i] \in Int /\ f[j] \in Int
  BY <1>1
<1>3. Total(f, {i, j}) = f[i] + f[j]
  BY <1>2, TotalOfTwo
<1> QED BY <1>1, <1>3

LEMMA AmountOfThree ==
  ASSUME NEW i, NEW j, NEW k, i # j, i # k, j # k,
         i.amount \in Int, j.amount \in Int, k.amount \in Int
  PROVE  Amount({i, j, k}) = i.amount + j.amount + k.amount
<1> DEFINE f == [l \in {i, j, k} |-> l.amount]
<1>1. /\ f[i] = i.amount /\ f[j] = j.amount /\ f[k] = k.amount
      /\ Amount({i, j, k}) = Total(f, {i, j, k})
  BY DEF Amount
<1> HIDE DEF f
<1>2. f[i] \in Int /\ f[j] \in Int /\ f[k] \in Int
  BY <1>1
<1>3. PICK p \in Int, q \in Int, r \in Int : p = f[i] /\ q = f[j] /\ r = f[k]
  BY <1>2
<1>4. IsFiniteSet({i, j, k})
  <2>1. IsFiniteSet({i} \cup {j})
    BY FS_Singleton, FS_AddElement
  <2>2. IsFiniteSet(({i} \cup {j}) \cup {k}) /\ {i, j, k} = ({i} \cup {j}) \cup {k}
    BY <2>1, FS_AddElement
  <2> QED BY <2>2
<1>5. First({i, j, k}) \in {i, j, k}
      /\ Total(f, {i, j, k}) = f[First({i, j, k})] + Total(f, {i, j, k} \ {First({i, j, k})})
  BY <1>4, TotalEquation
<1>6. /\ Total(f, {i, j}) = f[i] + f[j] /\ Total(f, {i, k}) = f[i] + f[k]
      /\ Total(f, {j, k}) = f[j] + f[k]
  BY <1>2, TotalOfTwo
<1>7. /\ Total(f, {i, j}) = p + q /\ Total(f, {i, k}) = p + r
      /\ Total(f, {j, k}) = q + r
  BY <1>6, <1>3
<1>8. /\ {i, j, k} \ {i} = {j, k} /\ {i, j, k} \ {j} = {i, k} /\ {i, j, k} \ {k} = {i, j}
  OBVIOUS
<1> DEFINE x == First({i, j, k})
<1> HIDE DEF x
<1>9. x = i \/ x = j \/ x = k
  BY <1>5 DEF x
<1>10. Total(f, {i, j, k}) = f[x] + Total(f, {i, j, k} \ {x})
  BY <1>5 DEF x
<1>11. CASE x = i
  <2>1. {i, j, k} \ {x} = {j, k}
    BY <1>8, <1>11
  <2>2. Total(f, {i, j, k}) = p + Total(f, {j, k})
    BY <1>10, <1>3, <1>11, <2>1
  <2>3. Total(f, {i, j, k}) = p + q + r
    BY <1>7, <2>2
  <2> QED BY <1>1, <1>3, <2>3
<1>12. CASE x = j
  <2>1. {i, j, k} \ {x} = {i, k}
    BY <1>8, <1>12
  <2>2. Total(f, {i, j, k}) = q + Total(f, {i, k})
    BY <1>10, <1>3, <1>12, <2>1
  <2>3. Total(f, {i, j, k}) = p + q + r
    BY <1>7, <2>2
  <2> QED BY <1>1, <1>3, <2>3
<1>13. CASE x = k
  <2>1. {i, j, k} \ {x} = {i, j}
    BY <1>8, <1>13
  <2>2. Total(f, {i, j, k}) = r + Total(f, {i, j})
    BY <1>10, <1>3, <1>13, <2>1
  <2>3. Total(f, {i, j, k}) = p + q + r
    BY <1>7, <2>2
  <2> QED BY <1>1, <1>3, <2>3
<1> QED BY <1>9, <1>11, <1>12, <1>13

LEMMA IndexOfAddress ==
  ASSUME NEW k \in DOMAIN Address
  PROVE  IndexOf(Address[k]) = k
BY LedgerAssumption DEF IndexOf

LEMMA AmountToNobody ==
  ASSUME NEW m, NEW op, NEW account, \A i \in Ops(m, op) : i.account # account
  PROVE  AmountTo(m, op, account) = 0
<1>1. {i \in Ops(m, op) : i.account = account} = {}
  OBVIOUS
<1> QED BY <1>1, AmountOfNone DEF AmountTo

LEMMA AmountToOne ==
  ASSUME NEW m, NEW op, NEW i \in Ops(m, op), i.amount \in Int,
         \A j \in Ops(m, op) : j.account = i.account => j = i
  PROVE  AmountTo(m, op, i.account) = i.amount
<1>1. {j \in Ops(m, op) : j.account = i.account} = {i}
  OBVIOUS
<1> QED BY <1>1, AmountOfOne DEF AmountTo

(* The accounts it closes, the one it takes from, and what it settles.     *)
Moves(m, closed, source, debit, settlement) ==
  /\ Closed(m) = closed
  /\ \A k \in DOMAIN Address : Debit(m, k) = IF k = source THEN debit ELSE 0
  /\ Amount(Ops(m, "transfer")) = settlement
  /\ AmountTo(m, "transfer", "feeDestination") = settlement

\* What is settled goes to the destination.
LEMMA TransferMoves ==
  ASSUME NEW m, NEW x \in Int, Ops(m, "transfer") = {Transfer(x)}
  PROVE  /\ Amount(Ops(m, "transfer")) = x
         /\ AmountTo(m, "transfer", "feeDestination") = x
<1>1. Transfer(x).amount = x /\ Transfer(x).account = "feeDestination"
  BY DEF Transfer, Instruction
<1> HIDE DEF Transfer
<1>2. Transfer(x) \in Ops(m, "transfer")
  OBVIOUS
<1>3. AmountTo(m, "transfer", Transfer(x).account) = Transfer(x).amount
  BY <1>1, <1>2, AmountToOne
<1> QED BY <1>1, <1>3, AmountOfOne

\* A single account is debited by a single instruction.
LEMMA SingleDebit ==
  ASSUME NEW m, NEW op, NEW k \in DOMAIN Address, NEW i, i.amount \in Int,
         i.account = Address[k], Ops(m, op) = {i}, NEW j \in DOMAIN Address
  PROVE  AmountTo(m, op, Address[j]) = IF j = k THEN i.amount ELSE 0
<1>1. CASE j = k
  BY <1>1, AmountToOne
<1>2. CASE j # k
  <2>1. Address[j] # Address[k]
    BY <1>2, LedgerAssumption
  <2>2. \A l \in Ops(m, op) : l.account # Address[j]
    BY <2>1
  <2> QED BY <1>2, <2>2, AmountToNobody
<1> QED BY <1>1, <1>2

LEMMA ClaimMoves ==
  ASSUME NEW m, NEW s, Sequence(s), Range(s) \subseteq DOMAIN Address, NEW x \in Int,
         ClaimOps(m, [k \in DOMAIN s |-> Address[s[k]]], x)
  PROVE  Moves(m, Range(s), 1, 0, x)
<1> DEFINE a == [k \in DOMAIN s |-> Address[s[k]]]
<1>1. Range(a) = {Address[k] : k \in Range(s)}
  BY DEF Range
<1>2. Ops(m, "close") = {CloseAccount(l) : l \in Range(a)}
  BY DEF ClaimOps
<1>3. \A k \in Range(s) : CloseAccount(Address[k]).account = Address[k]
                          /\ IndexOf(Address[k]) = k
  BY IndexOfAddress DEF CloseAccount, Instruction
<1>4. Closed(m) = Range(s)
  <2>1. Closed(m) = {IndexOf(CloseAccount(l).account) : l \in Range(a)}
    BY <1>2 DEF Closed
  <2> HIDE DEF a
  <2>2. Closed(m) = {IndexOf(CloseAccount(Address[k]).account) : k \in Range(s)}
    BY <1>1, <2>1
  <2> QED BY <1>3, <2>2
<1>5. \A op \in {"pay", "burn", "swap", "deposit"} : Ops(m, op) = {}
  BY DEF ClaimOps
<1>6. \A k \in DOMAIN Address : Debit(m, k) = 0
  <2>1. \A account : AmountTo(m, "burn", account) = 0 /\ AmountTo(m, "swap", account) = 0
    BY <1>5, AmountToNobody
  <2>2. Amount(Ops(m, "pay") \cup Ops(m, "deposit")) = 0
    <3>1. Ops(m, "pay") \cup Ops(m, "deposit") = {}
      BY <1>5
    <3> QED BY <3>1, AmountOfNone
  <2> QED BY <2>1, <2>2 DEF Debit
<1>7. Ops(m, "transfer") = {Transfer(x)}
  BY DEF ClaimOps
<1> QED BY <1>4, <1>6, <1>7, TransferMoves DEF Moves

LEMMA BurnMoves ==
  ASSUME NEW m, NEW k \in DOMAIN Address, NEW y \in Int, NEW x \in Int,
         BurnOps(m, Address[k], y, x)
  PROVE  Moves(m, {k}, k, y, x)
<1> DEFINE i == Instruction("token", "burn", Address[k], y)
<1>1. i.amount = y /\ i.account = Address[k]
  BY DEF Instruction
<1>2. /\ Ops(m, "burn") = {i} /\ Ops(m, "swap") = {} /\ Ops(m, "pay") = {}
      /\ Ops(m, "deposit") = {} /\ Ops(m, "transfer") = {Transfer(x)}
      /\ Ops(m, "close") = {CloseAccount(Address[k])}
  BY DEF BurnOps
<1> HIDE DEF i
<1>3. Closed(m) = {k}
  <2>1. CloseAccount(Address[k]).account = Address[k]
    BY DEF CloseAccount, Instruction
  <2>2. Closed(m) = {IndexOf(CloseAccount(Address[k]).account)}
    BY <1>2 DEF Closed
  <2> QED BY <2>1, <2>2, IndexOfAddress
<1>4. ASSUME NEW j \in DOMAIN Address PROVE Debit(m, j) = IF j = k THEN y ELSE 0
  <2>1. AmountTo(m, "burn", Address[j]) = IF j = k THEN y ELSE 0
    BY <1>1, <1>2, SingleDebit
  <2>2. AmountTo(m, "swap", Address[j]) = 0
    BY <1>2, AmountToNobody
  <2>3. Amount(Ops(m, "pay") \cup Ops(m, "deposit")) = 0
    <3>1. Ops(m, "pay") \cup Ops(m, "deposit") = {}
      BY <1>2
    <3> QED BY <3>1, AmountOfNone
  <2> QED BY <2>1, <2>2, <2>3 DEF Debit
<1> QED BY <1>2, <1>3, <1>4, TransferMoves DEF Moves

LEMMA RecoverMoves ==
  ASSUME NEW m, NEW k \in DOMAIN Address, NEW y \in Int, NEW x \in Int, NEW setup \in BOOLEAN,
         RecoverOps(m, Address[k], y, x, setup)
  PROVE  Moves(m, {k}, k, y, x)
<1> DEFINE i == Instruction("jupiter", "swap", Address[k], y)
<1>1. i.amount = y /\ i.account = Address[k]
  BY DEF Instruction
<1>2. /\ Ops(m, "swap") = {i} /\ Ops(m, "burn") = {} /\ Ops(m, "pay") = {}
      /\ Ops(m, "deposit") = {} /\ Ops(m, "transfer") = {Transfer(x)}
      /\ Ops(m, "close") = {CloseAccount(Address[k])}
  BY DEF RecoverOps
<1> HIDE DEF i
<1>3. Closed(m) = {k}
  <2>1. CloseAccount(Address[k]).account = Address[k]
    BY DEF CloseAccount, Instruction
  <2>2. Closed(m) = {IndexOf(CloseAccount(Address[k]).account)}
    BY <1>2 DEF Closed
  <2> QED BY <2>1, <2>2, IndexOfAddress
<1>4. ASSUME NEW j \in DOMAIN Address PROVE Debit(m, j) = IF j = k THEN y ELSE 0
  <2>1. AmountTo(m, "swap", Address[j]) = IF j = k THEN y ELSE 0
    BY <1>1, <1>2, SingleDebit
  <2>2. AmountTo(m, "burn", Address[j]) = 0
    BY <1>2, AmountToNobody
  <2>3. Amount(Ops(m, "pay") \cup Ops(m, "deposit")) = 0
    <3>1. Ops(m, "pay") \cup Ops(m, "deposit") = {}
      BY <1>2
    <3> QED BY <3>1, AmountOfNone
  <2> QED BY <2>1, <2>2, <2>3 DEF Debit
<1> QED BY <1>2, <1>3, <1>4, TransferMoves DEF Moves

\* No lamports move where nothing is closed and nothing is settled.
LEMMA NothingSettled ==
  ASSUME NEW m, Ops(m, "close") = {}, Ops(m, "transfer") = {}
  PROVE  /\ Closed(m) = {} /\ Amount(Ops(m, "transfer")) = 0
         /\ AmountTo(m, "transfer", "feeDestination") = 0
BY AmountOfNone, AmountToNobody DEF Closed

LEMMA SendMoves ==
  ASSUME NEW m, NEW amount \in Int, NEW reimbursement \in Int, NEW fee \in Int,
         NEW exists \in BOOLEAN, SendOps(m, amount, reimbursement, fee, exists)
  PROVE  /\ Moves(m, {}, 1, amount + reimbursement + fee, 0)
         /\ AmountTo(m, "pay", "recipient") = amount
         /\ AmountTo(m, "pay", "reimbursement") = reimbursement
         /\ AmountTo(m, "pay", "serviceFee") = fee
<1> DEFINE i1 == Pay("recipient", amount)
           i2 == Pay("reimbursement", reimbursement)
           i3 == Pay("serviceFee", fee)
<1>1. /\ i1.account = "recipient" /\ i1.amount = amount
      /\ i2.account = "reimbursement" /\ i2.amount = reimbursement
      /\ i3.account = "serviceFee" /\ i3.amount = fee
  BY DEF Pay, Instruction
<1>2. /\ Ops(m, "pay") = {i1, i2, i3} /\ Ops(m, "close") = {} /\ Ops(m, "transfer") = {}
      /\ Ops(m, "burn") = {} /\ Ops(m, "swap") = {} /\ Ops(m, "deposit") = {}
  BY DEF SendOps
<1> HIDE DEF i1, i2, i3
<1>3. i1 # i2 /\ i1 # i3 /\ i2 # i3
  BY <1>1
<1>4. ASSUME NEW j \in DOMAIN Address
      PROVE  Debit(m, j) = IF j = 1 THEN amount + reimbursement + fee ELSE 0
  <2>1. AmountTo(m, "swap", Address[j]) = 0 /\ AmountTo(m, "burn", Address[j]) = 0
    BY <1>2, AmountToNobody
  <2>2. Amount(Ops(m, "pay") \cup Ops(m, "deposit")) = amount + reimbursement + fee
    <3>1. Ops(m, "pay") \cup Ops(m, "deposit") = {i1, i2, i3}
      BY <1>2
    <3> QED BY <1>1, <1>3, <3>1, AmountOfThree
  <2> QED BY <2>1, <2>2 DEF Debit
<1>5. /\ AmountTo(m, "pay", i1.account) = i1.amount
      /\ AmountTo(m, "pay", i2.account) = i2.amount
      /\ AmountTo(m, "pay", i3.account) = i3.amount
  <2>1. i1 \in Ops(m, "pay") /\ i2 \in Ops(m, "pay") /\ i3 \in Ops(m, "pay")
    BY <1>2
  <2>2. \A j \in Ops(m, "pay") : \A i \in Ops(m, "pay") : j.account = i.account => j = i
    BY <1>1, <1>2
  <2> QED BY <1>1, <2>1, <2>2, AmountToOne
<1> QED BY <1>1, <1>2, <1>4, <1>5, NothingSettled DEF Moves

LEMMA SwapMoves ==
  ASSUME NEW m, NEW routed \in Int, NEW reimbursement \in Int, NEW fee \in Int,
         NEW exists \in BOOLEAN, 1 \in DOMAIN Address,
         SwapOps(m, Address[1], routed, reimbursement, fee, exists)
  PROVE  /\ Moves(m, {}, 1, routed + reimbursement + fee, 0)
         /\ AmountTo(m, "pay", "recipient") = 0
         /\ AmountTo(m, "pay", "reimbursement") = reimbursement
         /\ AmountTo(m, "pay", "serviceFee") = fee
<1> DEFINE i1 == Instruction("jupiter", "swap", Address[1], routed)
           i2 == Pay("reimbursement", reimbursement)
           i3 == Pay("serviceFee", fee)
<1>1. /\ i1.account = Address[1] /\ i1.amount = routed
      /\ i2.account = "reimbursement" /\ i2.amount = reimbursement
      /\ i3.account = "serviceFee" /\ i3.amount = fee
  BY DEF Pay, Instruction
<1>2. /\ Ops(m, "pay") = {i2, i3} /\ Ops(m, "close") = {} /\ Ops(m, "transfer") = {}
      /\ Ops(m, "burn") = {} /\ Ops(m, "swap") = {i1} /\ Ops(m, "deposit") = {}
  BY DEF SwapOps
<1> HIDE DEF i1, i2, i3
<1>3. i2 # i3
  BY <1>1
<1>4. ASSUME NEW j \in DOMAIN Address
      PROVE  Debit(m, j) = IF j = 1 THEN routed + reimbursement + fee ELSE 0
  <2>1. AmountTo(m, "burn", Address[j]) = 0
    BY <1>2, AmountToNobody
  <2>2. AmountTo(m, "swap", Address[j]) = IF j = 1 THEN routed ELSE 0
    BY <1>1, <1>2, SingleDebit
  <2>3. Amount(Ops(m, "pay") \cup Ops(m, "deposit")) = reimbursement + fee
    <3>1. Ops(m, "pay") \cup Ops(m, "deposit") = {i2, i3}
      BY <1>2
    <3> QED BY <1>1, <1>3, <3>1, AmountOfTwo
  <2> QED BY <2>1, <2>2, <2>3 DEF Debit
<1>5. /\ AmountTo(m, "pay", i2.account) = i2.amount
      /\ AmountTo(m, "pay", i3.account) = i3.amount
  <2>1. i2 \in Ops(m, "pay") /\ i3 \in Ops(m, "pay")
    BY <1>2
  <2>2. \A j \in Ops(m, "pay") : \A i \in Ops(m, "pay") : j.account = i.account => j = i
    BY <1>1, <1>2
  <2> QED BY <1>1, <2>1, <2>2, AmountToOne
<1>6. AmountTo(m, "pay", "recipient") = 0
  BY <1>1, <1>2, AmountToNobody
<1> QED BY <1>1, <1>2, <1>4, <1>5, <1>6, NothingSettled DEF Moves

LEMMA DepositMovesAmount ==
  ASSUME NEW m, NEW i, i.amount \in Int, DepositOps(m, i)
  PROVE  /\ Moves(m, {}, 1, i.amount, 0)
         /\ AmountTo(m, "deposit", i.account) = i.amount
<1>1. /\ Ops(m, "pay") = {} /\ Ops(m, "close") = {} /\ Ops(m, "transfer") = {}
      /\ Ops(m, "burn") = {} /\ Ops(m, "swap") = {} /\ Ops(m, "deposit") = {i}
  BY DEF DepositOps, Effects
<1>2. ASSUME NEW j \in DOMAIN Address
      PROVE  Debit(m, j) = IF j = 1 THEN i.amount ELSE 0
  <2>1. AmountTo(m, "burn", Address[j]) = 0 /\ AmountTo(m, "swap", Address[j]) = 0
    BY <1>1, AmountToNobody
  <2>2. Amount(Ops(m, "pay") \cup Ops(m, "deposit")) = i.amount
    <3>1. Ops(m, "pay") \cup Ops(m, "deposit") = {i}
      BY <1>1
    <3> QED BY <3>1, AmountOfOne
  <2> QED BY <2>1, <2>2 DEF Debit
<1>3. AmountTo(m, "deposit", i.account) = i.amount
  BY <1>1, AmountToOne
<1> QED BY <1>1, <1>2, <1>3, NothingSettled DEF Moves

-----------------------------------------------------------------------------
(***************************************************************************)
(* The invariant of an attempt.  While it is under way the chain is still  *)
(* the one the quote saw, but for what somebody else did to it; the quote  *)
(* is the arithmetic of what it saw; and the message, whatever the wallet  *)
(* handed back, does what the quote says and nothing else.  What a quote q *)
(* of an order o says is stated of any order and quote, for the ones that  *)
(* an action is about to write.                                            *)
(***************************************************************************)
Closing(o) == o.action \in {"claim", "burn", "recover"}

QuoteFields == DOMAIN NoQuote

Sighted(q) ==
  /\ DOMAIN q = QuoteFields
  /\ q.seen \in Seq(Account) /\ Len(q.seen) \in 1 .. Len(Address)
  /\ q.receiving \in {"absent", "present", "frozen"}
  /\ q.picked \in Seq(DOMAIN q.seen)

OpeningRent(q) == IF q.receiving = "absent" THEN ATA_RENT ELSE 0

\* A lamport action names the accounts it closes and what is in them.
ClosingQuote(o, q) ==
  /\ q.picked # << >>
  /\ \A k \in Range(q.picked) : Inspect(o.action, q.seen[k])
  /\ q.gross = Total(Lamports(q.seen), Range(q.picked))
  /\ q.serviceFee \in Nat
  /\ o.action # "claim" =>
       Len(q.picked) = 1 /\ q.amount = q.seen[q.picked[1]].amount

\* A token action is paid from the first account, which has the total.
PayingQuote(q) ==
  /\ q.rent = OpeningRent(q) /\ q.receiving # "frozen"
  /\ InspectSendTokenAccount(q.seen[1])

SendSearch(q) ==
  /\ PayingQuote(q)
  /\ q.network \in Nat /\ q.network >= PRIORITY_FEE
  /\ q.reimbursement = CalculateSponsorReimbursement(q.network + q.rent)

SendOffer(q) ==
  /\ SendSearch(q)
  /\ q.amount \in Nat /\ q.serviceFee \in Nat
  /\ q.total = q.amount + q.reimbursement + q.serviceFee
  /\ q.total <= q.seen[1].amount

SwapRouting(q) ==
  /\ PayingQuote(q)
  /\ q.total \in Nat /\ q.total <= q.seen[1].amount
  /\ q.serviceFee \in Nat /\ q.reimbursement \in Nat /\ q.threshold \in Nat

SwapOffer(q) ==
  /\ SwapRouting(q)
  /\ q.network \in Nat
  /\ q.reimbursement = CalculateSponsorReimbursement(q.network + q.rent)
  /\ q.amount = Routed(q)

Offer(o, q) ==
  /\ Closing(o) => ClosingQuote(o, q)
  /\ o.action = "claim" => q.promise = q.gross - q.serviceFee - MAXIMUM_NETWORK_FEE
  /\ o.action = "recover" => q.receiving # "frozen" /\ q.promise \in Int
  /\ o.action = "send" => SendOffer(q)
  /\ o.action = "swap" => SwapOffer(q)
  /\ o.action = "deposit" =>
       q.total = o.amount /\ q.promise = q.relay.minimum /\ q.promise \in Nat

\* What is settled when the message is prepared.
ClaimTerms(q) ==
  /\ q.gross - q.serviceFee - q.network >= MINIMUM_PAYOUT
  /\ q.network >= PRIORITY_FEE

BurnTerms(q) == ClaimTerms(q) /\ q.promise = q.gross - q.serviceFee - q.network

RecoverTerms(q) ==
  /\ q.threshold \in Nat /\ q.rent = OpeningRent(q)
  /\ RecoverPayout(q) >= MINIMUM_PAYOUT
  /\ q.network >= PRIORITY_FEE

DepositTerms(o, q) ==
  /\ ValidateRelayTransaction(q.relay, Ask(o.amount, o.threshold))
  /\ q.network = BASE_FEE /\ q.network <= MAXIMUM_SPONSORED_COST

Terms(o, q) ==
  /\ Offer(o, q)
  /\ q.network \in Nat
  /\ o.action = "claim" => ClaimTerms(q)
  /\ o.action = "burn" => BurnTerms(q)
  /\ o.action = "recover" => RecoverTerms(q)
  /\ o.action = "deposit" => DepositTerms(o, q)

\* A deposit looks at the account when it is prepared.
Funded(o, q) == InspectSendTokenAccount(q.seen[1]) /\ q.seen[1].amount >= o.amount

\* What the message does, and nothing else.
Does(o, q, m) ==
  /\ o.action = "claim" => ClaimOps(m, Addresses(q), q.serviceFee + q.network)
  /\ o.action = "burn" =>
       BurnOps(m, Addresses(q)[1], q.amount, q.serviceFee + q.network)
  /\ o.action = "recover" =>
       RecoverOps(m, Addresses(q)[1], q.amount, q.serviceFee + q.network + q.rent,
                  q.receiving = "absent")
  /\ o.action = "send" =>
       SendOps(m, q.amount, q.reimbursement, q.serviceFee, q.receiving # "absent")
  /\ o.action = "swap" =>
       SwapOps(m, Address[1], q.amount, q.reimbursement, q.serviceFee,
               q.receiving # "absent")
  /\ o.action = "deposit" => DepositOps(m, q.relay.deposit)

\* The chain has what the quote saw, if not more.
Fits(q, c) ==
  /\ DOMAIN c.accounts = DOMAIN q.seen
  /\ \A k \in DOMAIN q.seen : c.accounts[k].lamports >= q.seen[k].lamports

Untouched(q, c) ==
  c.accounts = q.seen /\ c.receiving = q.receiving /\ c.market = "good"

\* What the rechecks before the payer's signature saw.
Rechecked(o, q, c) ==
  /\ Closing(o) => \A k \in Range(q.picked) : c.accounts[k] = q.seen[k]
  /\ o.action \in {"recover", "send"} =>
       ((c.receiving = "absent") <=> (q.receiving = "absent"))
  /\ o.action = "swap" /\ q.receiving = "present" => c.receiving = "present"

-----------------------------------------------------------------------------
(***************************************************************************)
(* What a quote says, in the terms of the ledger.                          *)
(***************************************************************************)
LEMMA SightedFacts ==
  ASSUME NEW q, Sighted(q)
  PROVE  /\ Len(q.seen) \in Nat \ {0} /\ DOMAIN q.seen = 1 .. Len(q.seen) /\ 1 \in DOMAIN q.seen
         /\ DOMAIN q.seen \subseteq DOMAIN Address
         /\ \A k \in DOMAIN q.seen : q.seen[k] \in Account
         /\ Sequence(q.picked) /\ Len(q.picked) \in Nat /\ DOMAIN q.picked = 1 .. Len(q.picked)
         /\ Range(q.picked) \subseteq DOMAIN q.seen /\ IsFiniteSet(Range(q.picked))
         /\ Len(q.picked) = 1 =>
              /\ Range(q.picked) = {q.picked[1]} /\ q.picked[1] \in DOMAIN q.seen
              /\ Addresses(q)[1] = Address[q.picked[1]]
<1>1. /\ Len(Address) \in Nat /\ DOMAIN Address = 1 .. Len(Address)
  BY LedgerAssumption
<1>2. /\ Len(q.seen) \in Nat \ {0} /\ DOMAIN q.seen = 1 .. Len(q.seen)
      /\ Len(q.seen) <= Len(Address) /\ \A k \in DOMAIN q.seen : q.seen[k] \in Account
  BY <1>1 DEF Sighted
<1>3. /\ Sequence(q.picked) /\ Len(q.picked) \in Nat /\ DOMAIN q.picked = 1 .. Len(q.picked)
      /\ \A k \in DOMAIN q.picked : q.picked[k] \in DOMAIN q.seen
  BY DEF Sighted, Sequence
<1>4. Range(q.picked) \subseteq DOMAIN q.seen
  BY <1>3 DEF Range
<1>5. IsFiniteSet(Range(q.picked))
  <2>1. IsFiniteSet(1 .. Len(q.seen))
    BY <1>2, FS_Interval
  <2> QED BY <1>2, <1>4, <2>1, FS_Subset
<1>6. ASSUME Len(q.picked) = 1
      PROVE  /\ Range(q.picked) = {q.picked[1]} /\ q.picked[1] \in DOMAIN q.seen
             /\ Addresses(q)[1] = Address[q.picked[1]]
  <2>1. DOMAIN q.picked = {1}
    BY <1>3, <1>6
  <2> QED BY <1>3, <2>1 DEF Range, Addresses
<1>7. 1 \in DOMAIN q.seen /\ DOMAIN q.seen \subseteq DOMAIN Address
  BY <1>1, <1>2
<1> QED BY <1>2, <1>3, <1>4, <1>5, <1>6, <1>7

(* What a message does to the lamports of the wallet and of the sponsor.   *)
LEMMA LamportsMove ==
  ASSUME NEW m, NEW P, NEW k, NEW d, NEW x \in Int, Moves(m, P, k, d, x),
         m.signers[1] = "payer", NEW c, c.fee \in Nat,
         NEW out, Ops(m, "unwrap") # {} => out \in Nat, IsFiniteSet(P),
         P \subseteq DOMAIN c.accounts, \A j \in P : c.accounts[j].lamports \in Nat
  PROVE  /\ Total(Lamports(c.accounts), P) \in Int
         /\ Unwrapped(m, out) \in Nat
         /\ WalletDelta(m, c, out) = Total(Lamports(c.accounts), P) + Unwrapped(m, out) - x
         /\ NetworkFee(m, c) \in Nat
         /\ PayerDelta(m, c) = - NetworkFee(m, c) - (IF Creates(m, c) THEN ATA_RENT ELSE 0)
<1>1. \A j \in P : Lamports(c.accounts)[j] \in Int
  BY DEF Lamports
<1>2. Total(Lamports(c.accounts), P) \in Int
  <2> DEFINE f == Lamports(c.accounts)
  <2>1. \A j \in P : f[j] \in Int /\ f[j] = f[j]
    BY <1>1
  <2> HIDE DEF f
  <2>2. Total(f, P) \in Int
    BY <2>1, TotalSame
  <2> QED BY <2>2 DEF f
<1>3. ATA_RENT \in Nat /\ BASE_FEE \in Nat
  BY LedgerAssumption
<1>4. Unwrapped(m, out) \in Nat /\ NetworkFee(m, c) \in Nat
  BY <1>3 DEF Unwrapped, NetworkFee
<1>5. WalletDelta(m, c, out) = Total(Lamports(c.accounts), P) + Unwrapped(m, out) - x - 0
  BY DEF WalletDelta, Moves
<1>6. PayerDelta(m, c) = - NetworkFee(m, c) - (IF Creates(m, c) THEN ATA_RENT ELSE 0)
  BY DEF PayerDelta
<1> QED BY <1>2, <1>4, <1>5, <1>6

-----------------------------------------------------------------------------
Picks(o, q) == IF Closing(o) THEN Range(q.picked) ELSE {}

Source(o, q) == IF o.action \in {"burn", "recover"} THEN q.picked[1] ELSE 1

Debited(o, q) ==
  IF o.action = "claim" THEN 0
  ELSE IF o.action \in {"burn", "recover"} THEN q.amount ELSE q.total

Settled(o, q) ==
  IF o.action = "recover" THEN q.serviceFee + q.network + q.rent
  ELSE IF Closing(o) THEN q.serviceFee + q.network ELSE 0

Opens(o, q) == o.action \in {"recover", "send", "swap"} /\ q.receiving = "absent"

\* All that the ledger looks at in a message.
Bears(o, q, m) ==
  /\ Moves(m, Picks(o, q), Source(o, q), Debited(o, q), Settled(o, q))
  /\ (Ops(m, "price") = {}) <=> (o.action = "deposit")
  /\ (Ops(m, "create") # {}) <=> Opens(o, q)
  /\ (Ops(m, "unwrap") # {}) <=> (o.action = "recover")
  /\ (Ops(m, "swap") # {}) <=> (o.action \in {"recover", "swap"})
  /\ Receives(m) <=> (o.action \in {"recover", "send", "swap"})
  /\ o.action = "send" => AmountTo(m, "pay", "recipient") = q.amount
  /\ o.action \in {"send", "swap"} =>
       /\ AmountTo(m, "pay", "reimbursement") = q.reimbursement
       /\ AmountTo(m, "pay", "serviceFee") = q.serviceFee
  /\ o.action = "deposit" =>
       /\ AmountTo(m, "deposit", "vault") = o.amount
       /\ \A i \in Ops(m, "deposit") : i.order = q.relay.orderId

Amounts(o, q) ==
  /\ Source(o, q) \in DOMAIN q.seen /\ Debited(o, q) \in Nat /\ Settled(o, q) \in Nat
  /\ q.network \in Nat
  /\ Closing(o) \/ o.action \in {"send", "swap"} => q.serviceFee \in Nat
  /\ o.action \in {"recover", "send", "swap"} => q.rent = OpeningRent(q) /\ q.rent \in Nat
  /\ o.action \in {"send", "swap"} => q.reimbursement \in Nat

LEMMA SingleAmount ==
  ASSUME NEW o, NEW q, Sighted(q), ClosingQuote(o, q), o.action # "claim"
  PROVE  /\ Len(q.picked) = 1 /\ q.amount \in Nat
         /\ q.picked[1] \in DOMAIN q.seen /\ Range(q.picked) = {q.picked[1]}
         /\ Addresses(q)[1] = Address[q.picked[1]] /\ q.picked[1] \in DOMAIN Address
<1>1. Len(q.picked) = 1 /\ q.amount = q.seen[q.picked[1]].amount
  BY DEF ClosingQuote
<1>2. q.seen[q.picked[1]] \in Account
  BY <1>1, SightedFacts
<1>3. q.amount \in Nat
  BY <1>1, <1>2 DEF Account
<1> QED BY <1>1, <1>3, SightedFacts

LEMMA RentIsAmount ==
  ASSUME NEW q
  PROVE  OpeningRent(q) \in Nat
BY LedgerAssumption DEF OpeningRent

LEMMA TermsAmounts ==
  ASSUME NEW o \in Order, NEW q, Sighted(q), Terms(o, q)
  PROVE  Amounts(o, q)
<1>1. o.action \in Actions /\ o.amount \in Nat /\ q.network \in Nat /\ 1 \in DOMAIN q.seen
  BY SightedFacts DEF Order, Terms
<1>2. ASSUME Closing(o) PROVE Amounts(o, q)
  <2>1. ClosingQuote(o, q) /\ q.serviceFee \in Nat
    BY <1>2 DEF Terms, Offer, ClosingQuote
  <2>2. o.action = "recover" => q.rent = OpeningRent(q) /\ q.rent \in Nat
    BY RentIsAmount DEF Terms, RecoverTerms
  <2>3. o.action # "claim" => q.amount \in Nat /\ q.picked[1] \in DOMAIN q.seen
    BY <2>1, SingleAmount
  <2>4. Source(o, q) \in DOMAIN q.seen /\ Debited(o, q) \in Nat
    BY <1>1, <1>2, <2>3 DEF Source, Debited, Closing
  <2>5. Settled(o, q) \in Nat
    BY <1>1, <1>2, <2>1, <2>2 DEF Settled
  <2> QED BY <1>1, <1>2, <2>1, <2>2, <2>4, <2>5 DEF Amounts, Closing
<1>3. ASSUME o.action \in {"send", "swap"} PROVE Amounts(o, q)
  <2>1. /\ q.serviceFee \in Nat /\ q.rent = OpeningRent(q)
        /\ q.reimbursement = CalculateSponsorReimbursement(q.network + q.rent)
    BY <1>3 DEF Terms, Offer, SendOffer, SendSearch, SwapOffer, SwapRouting, PayingQuote
  <2>2. q.rent \in Nat
    BY <2>1, RentIsAmount
  <2>3. q.network + q.rent \in Nat
    BY <1>1, <2>2
  <2>4. q.reimbursement \in Nat
    BY <2>1, <2>3, ReimbursementCovers
  <2>5. q.total \in Nat
    <3>1. o.action = "send" =>
            q.amount \in Nat /\ q.total = q.amount + q.reimbursement + q.serviceFee
      BY DEF Terms, Offer, SendOffer
    <3>2. o.action = "swap" => q.total \in Nat
      BY DEF Terms, Offer, SwapOffer, SwapRouting
    <3> QED BY <1>3, <2>1, <2>4, <3>1, <3>2
  <2> QED BY <1>1, <1>3, <2>1, <2>2, <2>4, <2>5 DEF Amounts, Closing, Source, Debited, Settled
<1>4. ASSUME o.action = "deposit" PROVE Amounts(o, q)
  <2>1. q.total = o.amount
    BY <1>4 DEF Terms, Offer
  <2> QED BY <1>1, <1>4, <2>1 DEF Amounts, Closing, Source, Debited, Settled
<1> QED BY <1>1, <1>2, <1>3, <1>4 DEF Actions, Closing

-----------------------------------------------------------------------------
\* One lemma per action: what its message does is what the ledger looks at.
LEMMA ClaimBears ==
  ASSUME NEW o \in Order, NEW q, NEW m, Sighted(q), Terms(o, q), Does(o, q, m),
         o.action = "claim"
  PROVE  Bears(o, q, m)
<1> DEFINE x == q.serviceFee + q.network
<1>1. Amounts(o, q)
  BY TermsAmounts
<1>2. x \in Int
  BY <1>1 DEF Amounts, Closing
<1>3. Settled(o, q) = x /\ Picks(o, q) = Range(q.picked) /\ Debited(o, q) = 0 /\ Source(o, q) = 1
  BY DEF Settled, Picks, Debited, Source, Closing
<1>4. ClaimOps(m, [k \in DOMAIN q.picked |-> Address[q.picked[k]]], x)
  BY DEF Does, Addresses
<1>5. Sequence(q.picked) /\ Range(q.picked) \subseteq DOMAIN Address
  BY SightedFacts
<1> HIDE DEF x
<1>6. Moves(m, Range(q.picked), 1, 0, x)
  BY <1>2, <1>4, <1>5, ClaimMoves
<1>7. /\ Ops(m, "price") # {} /\ Ops(m, "create") = {} /\ Ops(m, "unwrap") = {}
      /\ Ops(m, "swap") = {} /\ Ops(m, "pay") = {}
  BY <1>4 DEF ClaimOps
<1> QED BY <1>3, <1>6, <1>7 DEF Bears, Receives, Opens

LEMMA BurnBears ==
  ASSUME NEW o \in Order, NEW q, NEW m, Sighted(q), Terms(o, q), Does(o, q, m),
         o.action = "burn"
  PROVE  Bears(o, q, m)
<1> DEFINE x == q.serviceFee + q.network
           k == q.picked[1]
<1>1. Amounts(o, q)
  BY TermsAmounts
<1>2. x \in Int
  BY <1>1 DEF Amounts, Closing
<1>3. /\ q.amount \in Nat /\ k \in DOMAIN Address /\ Range(q.picked) = {k}
      /\ Addresses(q)[1] = Address[k]
  <2>1. ClosingQuote(o, q)
    BY DEF Terms, Offer, Closing
  <2> QED BY <2>1, SingleAmount
<1>4. /\ Settled(o, q) = x /\ Picks(o, q) = {k} /\ Debited(o, q) = q.amount
      /\ Source(o, q) = k
  BY <1>3 DEF Settled, Picks, Debited, Source, Closing
<1>5. BurnOps(m, Address[k], q.amount, x)
  BY <1>3 DEF Does
<1> HIDE DEF x, k
<1>6. Moves(m, {k}, k, q.amount, x)
  BY <1>2, <1>3, <1>5, BurnMoves
<1>7. /\ Ops(m, "price") # {} /\ Ops(m, "create") = {} /\ Ops(m, "unwrap") = {}
      /\ Ops(m, "swap") = {} /\ Ops(m, "pay") = {}
  BY <1>5 DEF BurnOps
<1> QED BY <1>4, <1>6, <1>7 DEF Bears, Receives, Opens

LEMMA RecoverBears ==
  ASSUME NEW o \in Order, NEW q, NEW m, Sighted(q), Terms(o, q), Does(o, q, m),
         o.action = "recover"
  PROVE  Bears(o, q, m)
<1> DEFINE x == q.serviceFee + q.network + q.rent
           k == q.picked[1]
           setup == q.receiving = "absent"
<1>1. Amounts(o, q)
  BY TermsAmounts
<1>2. x \in Int
  BY <1>1 DEF Amounts, Closing
<1>3. /\ q.amount \in Nat /\ k \in DOMAIN Address /\ Range(q.picked) = {k}
      /\ Addresses(q)[1] = Address[k]
  <2>1. ClosingQuote(o, q)
    BY DEF Terms, Offer, Closing
  <2> QED BY <2>1, SingleAmount
<1>4. /\ Settled(o, q) = x /\ Picks(o, q) = {k} /\ Debited(o, q) = q.amount
      /\ Source(o, q) = k
  BY <1>3 DEF Settled, Picks, Debited, Source, Closing
<1>5. RecoverOps(m, Address[k], q.amount, x, setup) /\ setup \in BOOLEAN
  BY <1>3 DEF Does
<1>6. Opens(o, q) <=> setup
  BY DEF Opens
<1> HIDE DEF x, k, setup
<1>7. Moves(m, {k}, k, q.amount, x)
  BY <1>2, <1>3, <1>5, RecoverMoves
<1>8. /\ Ops(m, "price") # {} /\ (Ops(m, "create") # {} <=> setup) /\ Ops(m, "unwrap") # {}
      /\ Ops(m, "swap") # {} /\ Ops(m, "pay") = {}
  BY <1>5 DEF RecoverOps
<1> QED BY <1>4, <1>6, <1>7, <1>8 DEF Bears, Receives

LEMMA SendBears ==
  ASSUME NEW o \in Order, NEW q, NEW m, Sighted(q), Terms(o, q), Does(o, q, m),
         o.action = "send"
  PROVE  Bears(o, q, m)
<1> DEFINE exists == q.receiving # "absent"
<1>1. q.reimbursement \in Nat /\ q.serviceFee \in Nat
  BY TermsAmounts DEF Amounts
<1>2. q.amount \in Nat /\ q.total = q.amount + q.reimbursement + q.serviceFee
  BY DEF Terms, Offer, SendOffer
<1>3. /\ Settled(o, q) = 0 /\ Picks(o, q) = {} /\ Debited(o, q) = q.total
      /\ Source(o, q) = 1
  BY DEF Settled, Picks, Debited, Source, Closing
<1>4. SendOps(m, q.amount, q.reimbursement, q.serviceFee, exists) /\ exists \in BOOLEAN
  BY DEF Does
<1>5. Opens(o, q) <=> ~exists
  BY DEF Opens
<1> HIDE DEF exists
<1>6. /\ Moves(m, {}, 1, q.total, 0)
      /\ AmountTo(m, "pay", "recipient") = q.amount
      /\ AmountTo(m, "pay", "reimbursement") = q.reimbursement
      /\ AmountTo(m, "pay", "serviceFee") = q.serviceFee
  <2> DEFINE a == q.amount
             r == q.reimbursement
             f == q.serviceFee
             t == q.total
  <2>1. /\ SendOps(m, a, r, f, exists) /\ exists \in BOOLEAN
        /\ a \in Int /\ r \in Int /\ f \in Int /\ t = a + r + f
    BY <1>1, <1>2, <1>4
  <2> HIDE DEF a, r, f, t
  <2>2. /\ Moves(m, {}, 1, a + r + f, 0)
        /\ AmountTo(m, "pay", "recipient") = a
        /\ AmountTo(m, "pay", "reimbursement") = r
        /\ AmountTo(m, "pay", "serviceFee") = f
    BY <2>1, SendMoves
  <2>3. Moves(m, {}, 1, t, 0)
    BY <2>1, <2>2
  <2> QED BY <2>2, <2>3 DEF a, r, f, t
<1>7. /\ Ops(m, "price") # {} /\ (Ops(m, "create") # {} <=> ~exists) /\ Ops(m, "unwrap") = {}
      /\ Ops(m, "swap") = {}
  BY <1>4 DEF SendOps
<1>8. Receives(m)
  <2>1. Pay("recipient", q.amount) \in Ops(m, "pay")
    BY <1>4 DEF SendOps
  <2>2. Pay("recipient", q.amount).account = "recipient"
    BY DEF Pay, Instruction
  <2> QED BY <2>1, <2>2 DEF Receives
<1> QED BY <1>3, <1>5, <1>6, <1>7, <1>8 DEF Bears

LEMMA SwapBears ==
  ASSUME NEW o \in Order, NEW q, NEW m, Sighted(q), Terms(o, q), Does(o, q, m),
         o.action = "swap"
  PROVE  Bears(o, q, m)
<1> DEFINE exists == q.receiving # "absent"
<1>1. q.reimbursement \in Nat /\ q.serviceFee \in Nat
  BY TermsAmounts DEF Amounts
<1>2. q.amount = q.total - q.serviceFee - q.reimbursement /\ q.total \in Nat
  BY DEF Terms, Offer, SwapOffer, SwapRouting, Routed
<1>3. /\ Settled(o, q) = 0 /\ Picks(o, q) = {} /\ Debited(o, q) = q.total
      /\ Source(o, q) = 1
  BY DEF Settled, Picks, Debited, Source, Closing
<1>4. /\ SwapOps(m, Address[1], q.amount, q.reimbursement, q.serviceFee, exists)
      /\ exists \in BOOLEAN
  BY DEF Does
<1>5. Opens(o, q) <=> ~exists
  BY DEF Opens
<1>6. 1 \in DOMAIN Address
  BY SightedFacts
<1> HIDE DEF exists
<1>7. /\ Moves(m, {}, 1, q.total, 0)
      /\ AmountTo(m, "pay", "reimbursement") = q.reimbursement
      /\ AmountTo(m, "pay", "serviceFee") = q.serviceFee
  <2> DEFINE a == q.amount
             r == q.reimbursement
             f == q.serviceFee
             t == q.total
  <2>1. /\ SwapOps(m, Address[1], a, r, f, exists) /\ exists \in BOOLEAN
        /\ a \in Int /\ r \in Int /\ f \in Int /\ t = a + r + f
    BY <1>1, <1>2, <1>4
  <2> HIDE DEF a, r, f, t
  <2>2. /\ Moves(m, {}, 1, a + r + f, 0)
        /\ AmountTo(m, "pay", "reimbursement") = r
        /\ AmountTo(m, "pay", "serviceFee") = f
    BY <1>6, <2>1, SwapMoves
  <2>3. Moves(m, {}, 1, t, 0)
    BY <2>1, <2>2
  <2> QED BY <2>2, <2>3 DEF a, r, f, t
<1>8. /\ Ops(m, "price") # {} /\ (Ops(m, "create") # {} <=> ~exists) /\ Ops(m, "unwrap") = {}
      /\ Ops(m, "swap") # {}
  BY <1>4 DEF SwapOps
<1> QED BY <1>3, <1>5, <1>7, <1>8 DEF Bears, Receives

LEMMA DepositBears ==
  ASSUME NEW o \in Order, NEW q, NEW m, Sighted(q), Terms(o, q), Does(o, q, m),
         o.action = "deposit"
  PROVE  Bears(o, q, m)
<1> DEFINE i == q.relay.deposit
<1>1. i = Deposit("depository", "vault", o.amount, q.relay.orderId)
  BY DEF Terms, DepositTerms, ValidateRelayTransaction, AssertInstruction, Ask
<1>2. i.amount = o.amount /\ i.account = "vault" /\ i.order = q.relay.orderId
  BY <1>1 DEF Deposit
<1>3. q.total = o.amount /\ o.amount \in Nat
  BY DEF Terms, Offer, Order
<1>4. /\ Settled(o, q) = 0 /\ Picks(o, q) = {} /\ Debited(o, q) = i.amount
      /\ Source(o, q) = 1
  BY <1>2, <1>3 DEF Settled, Picks, Debited, Source, Closing
<1>5. DepositOps(m, i)
  BY DEF Does
<1> HIDE DEF i
<1>6. Moves(m, {}, 1, i.amount, 0) /\ AmountTo(m, "deposit", i.account) = i.amount
  <2>1. i.amount \in Int
    BY <1>2, <1>3
  <2> QED BY <1>5, <2>1, DepositMovesAmount
<1>7. /\ Ops(m, "price") = {} /\ Ops(m, "create") = {} /\ Ops(m, "unwrap") = {}
      /\ Ops(m, "swap") = {} /\ Ops(m, "pay") = {} /\ Ops(m, "deposit") = {i}
  BY <1>5 DEF DepositOps, Effects
<1> QED BY <1>2, <1>4, <1>6, <1>7 DEF Bears, Receives, Opens

LEMMA MessageBears ==
  ASSUME NEW o \in Order, NEW q, NEW m, Sighted(q), Terms(o, q), Does(o, q, m)
  PROVE  Bears(o, q, m)
<1>1. o.action \in {"claim", "burn", "recover", "send", "swap", "deposit"}
  BY DEF Order, Actions
<1> QED BY <1>1, ClaimBears, BurnBears, RecoverBears, SendBears, SwapBears, DepositBears

-----------------------------------------------------------------------------
(***************************************************************************)
(* What the network does with such a message.                              *)
(***************************************************************************)
LEMMA ChainFacts ==
  ASSUME NEW c \in Chain
  PROVE  /\ DOMAIN c = {"accounts", "receiving", "fee", "market"} /\ c.fee \in Nat
         /\ c.receiving \in {"absent", "present", "frozen"}
         /\ \A k \in DOMAIN c.accounts : c.accounts[k] \in Account
         /\ \A k \in DOMAIN c.accounts :
              c.accounts[k].lamports \in Nat /\ c.accounts[k].amount \in Nat
<1>1. c.accounts \in Seq(Account)
  BY DEF Chain
<1>2. \A k \in DOMAIN c.accounts : c.accounts[k] \in Account
  BY <1>1
<1> QED BY <1>2 DEF Chain, Account

\* The balances a landed message changes.
LEMMA Lands ==
  ASSUME NEW o \in Order, NEW q, NEW m, Sighted(q), Terms(o, q), Does(o, q, m),
         m.signers[1] = "payer", NEW c \in Chain, Fits(q, c),
         NEW out, o.action = "recover" => out \in Nat
  PROVE  LET held == Total(Lamports(c.accounts), Picks(o, q))
             r == Receipt(m, c, out)
         IN  /\ Amounts(o, q) /\ Bears(o, q, m) /\ held \in Int
             /\ r.wallet = held + (IF o.action = "recover" THEN out + ATA_RENT ELSE 0)
                             - Settled(o, q)
             /\ r.payer = - r.fee - (IF Opens(o, q) /\ c.receiving = "absent"
                                     THEN ATA_RENT ELSE 0)
             /\ r.fee = (IF o.action = "deposit" THEN BASE_FEE ELSE c.fee)
             /\ r.wallet = WalletDelta(m, c, out) /\ r.payer = PayerDelta(m, c)
             /\ r.destination = Settled(o, q) /\ r.source = - Debit(m, 1)
             /\ Debit(m, 1) = IF Source(o, q) = 1 THEN Debited(o, q) ELSE 0
<1> DEFINE P == Picks(o, q)
           r == Receipt(m, c, out)
           held == Total(Lamports(c.accounts), P)
<1>1. Amounts(o, q) /\ Bears(o, q, m)
  BY TermsAmounts, MessageBears
<1>2. Moves(m, P, Source(o, q), Debited(o, q), Settled(o, q))
  BY <1>1 DEF Bears
<1>3. P \subseteq DOMAIN c.accounts /\ IsFiniteSet(P)
  BY SightedFacts, FS_EmptySet DEF Picks, Fits
<1>4. \A j \in P : c.accounts[j].lamports \in Nat
  BY <1>3, ChainFacts
<1>5. c.fee \in Nat /\ Settled(o, q) \in Int
  BY <1>1, ChainFacts DEF Amounts
<1>6. Ops(m, "unwrap") # {} => out \in Nat
  BY <1>1 DEF Bears
<1> HIDE DEF P
<1>7. /\ held \in Int /\ Unwrapped(m, out) \in Nat /\ NetworkFee(m, c) \in Nat
      /\ WalletDelta(m, c, out) = held + Unwrapped(m, out) - Settled(o, q)
      /\ PayerDelta(m, c) = - NetworkFee(m, c) - (IF Creates(m, c) THEN ATA_RENT ELSE 0)
  BY <1>2, <1>3, <1>4, <1>5, <1>6, LamportsMove
<1>8. /\ r.fee = NetworkFee(m, c) /\ r.payer = PayerDelta(m, c)
      /\ r.wallet = WalletDelta(m, c, out) /\ r.source = - Debit(m, 1)
      /\ r.destination = AmountTo(m, "transfer", "feeDestination")
  BY DEF Receipt
<1> HIDE DEF r, held
<1>9. Unwrapped(m, out) = (IF o.action = "recover" THEN out + ATA_RENT ELSE 0)
  BY <1>1 DEF Unwrapped, Bears
<1>10. NetworkFee(m, c) = (IF o.action = "deposit" THEN BASE_FEE ELSE c.fee)
  BY <1>1 DEF NetworkFee, Bears
<1>11. Creates(m, c) <=> Opens(o, q) /\ c.receiving = "absent"
  BY <1>1 DEF Creates, Bears
<1>12. r.destination = Settled(o, q)
  BY <1>2, <1>8 DEF Moves
<1>13. Debit(m, 1) = IF Source(o, q) = 1 THEN Debited(o, q) ELSE 0
  <2>1. 1 \in DOMAIN Address
    BY SightedFacts
  <2> QED BY <1>2, <2>1 DEF Moves
<1> QED BY <1>1, <1>7, <1>8, <1>9, <1>10, <1>11, <1>12, <1>13 DEF r, held, P

\* Nobody takes lamports out of the accounts that are to be closed.
LEMMA HeldGrows ==
  ASSUME NEW o \in Order, NEW q, Sighted(q), ClosingQuote(o, q), Closing(o),
         NEW c \in Chain, Fits(q, c)
  PROVE  LET held == Total(Lamports(c.accounts), Picks(o, q))
         IN  /\ held \in Int /\ q.gross \in Int /\ q.gross <= held
             /\ (\A k \in Range(q.picked) : c.accounts[k] = q.seen[k]) => held = q.gross
<1> DEFINE P == Range(q.picked)
           f == Lamports(q.seen)
           g == Lamports(c.accounts)
<1>1. P = Picks(o, q) /\ P \subseteq DOMAIN q.seen /\ IsFiniteSet(P)
  BY SightedFacts DEF Picks
<1>2. \A k \in P : f[k] \in Int /\ g[k] \in Int /\ f[k] <= g[k]
  <2> SUFFICES ASSUME NEW k \in P PROVE f[k] \in Int /\ g[k] \in Int /\ f[k] <= g[k]
    OBVIOUS
  <2>1. k \in DOMAIN q.seen /\ k \in DOMAIN c.accounts
    BY <1>1 DEF Fits
  <2>2. f[k] = q.seen[k].lamports /\ g[k] = c.accounts[k].lamports
    BY <2>1 DEF Lamports
  <2>3. q.seen[k] \in Account /\ c.accounts[k].lamports \in Nat
    BY <2>1, SightedFacts, ChainFacts
  <2>4. q.seen[k].lamports \in Nat
    BY <2>3 DEF Account
  <2>5. q.seen[k].lamports <= c.accounts[k].lamports
    BY <2>1, <2>3, <2>4 DEF Fits
  <2> HIDE DEF f, g
  <2> QED BY <2>2, <2>3, <2>4, <2>5
<1>3. q.gross = Total(f, P)
  BY DEF ClosingQuote
<1>4. ASSUME \A k \in P : c.accounts[k] = q.seen[k] PROVE \A k \in P : g[k] = f[k]
  BY <1>1, <1>4 DEF Lamports, Fits
<1> HIDE DEF P, f, g
<1>5. Total(f, P) \in Int /\ Total(g, P) \in Int /\ Total(f, P) <= Total(g, P)
  BY <1>1, <1>2, TotalGrows
<1>6. ASSUME \A k \in P : c.accounts[k] = q.seen[k] PROVE Total(g, P) = Total(f, P)
  <2>1. \A k \in P : g[k] \in Int /\ g[k] = f[k]
    BY <1>2, <1>4, <1>6
  <2> QED BY <1>1, <2>1, TotalSame
<1>7. Picks(o, q) = P
  BY <1>1
<1> QED BY <1>3, <1>5, <1>6, <1>7 DEF P, f, g

-----------------------------------------------------------------------------
\* WalletKeepsItsPromise of an order, a quote and a receipt.
Kept(o, q, r) ==
  IF Closing(o) THEN r.wallet >= q.promise
  ELSE /\ r.wallet = 0
       /\ r.source = -q.total
       /\ o.action = "send" => r.recipient = q.amount
       /\ o.action = "swap" => r.output >= q.threshold
       /\ o.action = "deposit" =>
              /\ r.vault = o.amount
              /\ \A id \in r.orders :
                  LET p == q.relay.order
                      ask == Ask(o.amount, o.threshold)
                  IN  /\ id = RelayOrderId(p)
                      /\ p.recipient = ask.recipient /\ p.output = ask.asset
                      /\ p.minimum >= q.promise /\ q.promise > 0
                      /\ p.originRefund = "wallet"
                      /\ p.destinationRefund = ask.recipient

LEMMA DepositKept ==
  ASSUME NEW o \in Order, NEW q, NEW m, Terms(o, q), Bears(o, q, m), NEW c, NEW out,
         o.action = "deposit"
  PROVE  LET r == Receipt(m, c, out)
             p == q.relay.order
             ask == Ask(o.amount, o.threshold)
         IN  /\ r.vault = o.amount
             /\ \A id \in r.orders : id = RelayOrderId(p)
             /\ p.recipient = ask.recipient /\ p.output = ask.asset
             /\ p.minimum >= q.promise /\ q.promise > 0
             /\ p.originRefund = "wallet" /\ p.destinationRefund = ask.recipient
<1> DEFINE ask == Ask(o.amount, o.threshold)
           r == Receipt(m, c, out)
<1>1. AssertProtocol(q.relay, ask)
  BY DEF Terms, DepositTerms, ValidateRelayTransaction
<1>2. /\ q.relay.orderId = RelayOrderId(q.relay.order)
      /\ q.relay.order.recipient = ask.recipient /\ q.relay.order.output = ask.asset
      /\ q.relay.order.minimum > 0 /\ q.relay.minimum = q.relay.order.minimum
      /\ q.relay.order.originRefund = "wallet"
      /\ q.relay.order.destinationRefund = ask.recipient
  BY <1>1 DEF AssertProtocol, RecipientBinding, RefundBinding
<1>3. q.promise = q.relay.minimum /\ q.promise \in Nat
  BY DEF Terms, Offer
<1>4. r.vault = AmountTo(m, "deposit", "vault") /\ r.orders = {i.order : i \in Ops(m, "deposit")}
  BY DEF Receipt
<1>5. /\ AmountTo(m, "deposit", "vault") = o.amount
      /\ \A i \in Ops(m, "deposit") : i.order = q.relay.orderId
  BY DEF Bears
<1> HIDE DEF ask, r
<1>6. q.relay.order.minimum >= q.promise /\ q.promise > 0
  BY <1>2, <1>3
<1> QED BY <1>2, <1>4, <1>5, <1>6 DEF ask, r

(* What landed gives the wallet what it was promised.                      *)
LEMMA LandsKept ==
  ASSUME NEW o \in Order, NEW q, NEW m, Sighted(q), Terms(o, q), Does(o, q, m),
         m.signers[1] = "payer", NEW c \in Chain, Fits(q, c),
         NEW out \in {q.threshold, q.threshold + 1},
         o.action \in {"claim", "burn"} => q.network <= MAXIMUM_NETWORK_FEE,
         o.action = "recover" => RecoverPayout(q) >= q.promise,
         o.action = "recover" => q.promise \in Int
  PROVE  Kept(o, q, Receipt(m, c, out))
<1> DEFINE r == Receipt(m, c, out)
           held == Total(Lamports(c.accounts), Picks(o, q))
<1>1. o.action \in {"recover", "swap"} => q.threshold \in Nat /\ out \in Nat /\ out >= q.threshold
  BY DEF Terms, Offer, RecoverTerms, SwapOffer, SwapRouting
<1>2. /\ Amounts(o, q) /\ Bears(o, q, m) /\ held \in Int
      /\ r.wallet = held + (IF o.action = "recover" THEN out + ATA_RENT ELSE 0)
                      - Settled(o, q)
      /\ r.source = - Debit(m, 1)
      /\ Debit(m, 1) = IF Source(o, q) = 1 THEN Debited(o, q) ELSE 0
  BY <1>1, Lands
<1>3. /\ r.recipient = AmountTo(m, "pay", "recipient")
      /\ r.output = IF Ops(m, "swap") = {} THEN 0 ELSE out
  BY DEF Receipt
<1>4. CASE Closing(o)
  <2>1. ClosingQuote(o, q) /\ q.serviceFee \in Nat /\ q.network \in Nat
    BY <1>2, <1>4 DEF Terms, Offer, Amounts
  <2>2. q.gross \in Int /\ q.gross <= held
    BY <1>4, <2>1, HeldGrows
  <2> HIDE DEF r, held
  <2>3. MAXIMUM_NETWORK_FEE \in Nat /\ ATA_RENT \in Nat
    BY EconomicsAssumption, LedgerAssumption
  <2>4. ASSUME o.action = "claim" PROVE r.wallet >= q.promise
    <3>1. q.promise = q.gross - q.serviceFee - MAXIMUM_NETWORK_FEE
      BY <2>4 DEF Terms, Offer
    <3>2. r.wallet = held + 0 - (q.serviceFee + q.network) /\ q.network <= MAXIMUM_NETWORK_FEE
      BY <1>2, <2>4 DEF Settled, Closing
    <3> QED BY <1>2, <2>1, <2>2, <2>3, <3>1, <3>2
  <2>5. ASSUME o.action = "burn" PROVE r.wallet >= q.promise
    <3>1. q.promise = q.gross - q.serviceFee - q.network
      BY <2>5 DEF Terms, BurnTerms
    <3>2. r.wallet = held + 0 - (q.serviceFee + q.network)
      BY <1>2, <2>5 DEF Settled, Closing
    <3> QED BY <1>2, <2>1, <2>2, <3>1, <3>2
  <2>6. ASSUME o.action = "recover" PROVE r.wallet >= q.promise
    <3>1. q.threshold + q.gross - q.serviceFee - q.network >= q.promise
      BY <2>6 DEF RecoverPayout
    <3>2. r.wallet = held + (out + ATA_RENT) - (q.serviceFee + q.network + q.rent)
      BY <1>2, <2>6 DEF Settled
    <3>3. q.rent \in Nat /\ q.rent <= ATA_RENT
      BY <1>2, <2>3, <2>6 DEF Amounts, OpeningRent
    <3>4. q.threshold \in Nat /\ out \in Nat /\ out >= q.threshold
      BY <1>1, <2>6
    <3>5. q.promise \in Int
      BY <2>6
    <3> QED BY <1>2, <2>1, <2>2, <2>3, <3>1, <3>2, <3>3, <3>4, <3>5
  <2> QED BY <1>4, <2>4, <2>5, <2>6 DEF Kept, Closing, r
<1>5. CASE ~ Closing(o)
  <2>1. held = 0
    BY <1>5, TotalOfNone DEF Picks
  <2>2. o.action \in {"send", "swap", "deposit"}
    BY <1>5 DEF Closing, Order, Actions
  <2>3. Settled(o, q) = 0 /\ Source(o, q) = 1 /\ Debited(o, q) = q.total
    BY <1>5, <2>2 DEF Settled, Source, Debited
  <2>4. r.wallet = 0 /\ r.source = -q.total
    <3> HIDE DEF r, held
    <3> QED BY <1>2, <2>1, <2>2, <2>3
  <2>5. o.action = "send" => r.recipient = q.amount
    BY <1>2, <1>3 DEF Bears
  <2>6. o.action = "swap" => r.output >= q.threshold
    <3> HIDE DEF r
    <3> QED BY <1>1, <1>2, <1>3 DEF Bears
  <2>7. o.action = "deposit" =>
              /\ r.vault = o.amount
              /\ \A id \in r.orders :
                  LET p == q.relay.order
                      ask == Ask(o.amount, o.threshold)
                  IN  /\ id = RelayOrderId(p)
                      /\ p.recipient = ask.recipient /\ p.output = ask.asset
                      /\ p.minimum >= q.promise /\ q.promise > 0
                      /\ p.originRefund = "wallet"
                      /\ p.destinationRefund = ask.recipient
    BY <1>2, DepositKept
  <2> HIDE DEF r
  <2>8. Kept(o, q, r)
    BY <1>5, <2>4, <2>5, <2>6, <2>7 DEF Kept
  <2> QED BY <2>8 DEF r
<1> QED BY <1>4, <1>5

\* SponsorMadeWhole of an order, a quote, a receipt and a fee.
Whole(o, q, r, fee) ==
  (o.action = "swap" => q.network = fee) =>
    IF o.action = "deposit"
      THEN -r.payer = q.network /\ q.network <= MAXIMUM_SPONSORED_COST
    ELSE IF Closing(o) THEN r.destination - q.serviceFee >= -r.payer
    ELSE r.reimbursement * TOKEN_PRICE * LAMPORTS_PER_SOL >= -r.payer * SOL_PRICE * UNIT

(* What landed pays the sponsor back.                                      *)
LEMMA LandsWhole ==
  ASSUME NEW o \in Order, NEW q, NEW m, Sighted(q), Terms(o, q), Does(o, q, m),
         m.signers[1] = "payer", NEW c \in Chain, Fits(q, c),
         NEW out, o.action = "recover" => out \in Nat,
         o.action \in {"claim", "burn", "recover", "send"} => q.network = c.fee
  PROVE  Whole(o, q, Receipt(m, c, out), c.fee)
<1> DEFINE r == Receipt(m, c, out)
<1>1. /\ Amounts(o, q) /\ Bears(o, q, m)
      /\ r.payer = - r.fee - (IF Opens(o, q) /\ c.receiving = "absent" THEN ATA_RENT ELSE 0)
      /\ r.fee = (IF o.action = "deposit" THEN BASE_FEE ELSE c.fee)
      /\ r.destination = Settled(o, q)
  BY Lands
<1>2. r.reimbursement = AmountTo(m, "pay", "reimbursement")
  BY DEF Receipt
<1> HIDE DEF r
<1>3. ATA_RENT \in Nat /\ BASE_FEE \in Nat /\ c.fee \in Nat
  BY LedgerAssumption, ChainFacts
<1>4. CASE o.action = "deposit"
  <2>1. r.payer = - BASE_FEE - 0
    BY <1>1, <1>4 DEF Opens
  <2>2. q.network = BASE_FEE /\ q.network <= MAXIMUM_SPONSORED_COST
    BY <1>4 DEF Terms, DepositTerms
  <2> QED BY <1>3, <1>4, <2>1, <2>2 DEF Whole, r
<1>5. ASSUME o.action # "deposit", q.network = c.fee
      PROVE  -r.payer \in Nat /\ q.network \in Nat
             /\ -r.payer <= q.network + (IF Opens(o, q) THEN ATA_RENT ELSE 0)
  BY <1>1, <1>3, <1>5
<1>6. CASE Closing(o)
  <2>1. o.action # "deposit" /\ q.network = c.fee
    BY <1>6 DEF Closing
  <2>2. q.serviceFee \in Nat
    BY <1>1, <1>6 DEF Amounts
  <2>3. o.action = "recover" => q.rent = IF Opens(o, q) THEN ATA_RENT ELSE 0
    BY <1>1 DEF Amounts, OpeningRent, Opens
  <2>4. o.action # "recover" => ~ Opens(o, q)
    BY <1>6 DEF Closing, Opens
  <2>5. r.destination - q.serviceFee = q.network + (IF Opens(o, q) THEN ATA_RENT ELSE 0)
    BY <1>1, <1>3, <1>5, <1>6, <2>1, <2>2, <2>3, <2>4 DEF Settled
  <2>6. r.destination - q.serviceFee >= -r.payer
    BY <1>3, <1>5, <2>1, <2>5
  <2> QED BY <1>6, <2>1, <2>6 DEF Whole, r
<1>7. CASE o.action \in {"send", "swap"}
  <2>1. SUFFICES ASSUME q.network = c.fee
        PROVE  r.reimbursement * TOKEN_PRICE * LAMPORTS_PER_SOL >= -r.payer * SOL_PRICE * UNIT
    BY <1>7 DEF Whole, Closing, r
  <2> DEFINE spent == q.network + q.rent
             cost == -r.payer
             back == r.reimbursement
  <2>2. q.rent \in Nat /\ q.rent = IF Opens(o, q) THEN ATA_RENT ELSE 0
    BY <1>1, <1>7 DEF Amounts, OpeningRent, Opens
  <2>3. cost \in Nat /\ spent \in Nat /\ cost <= spent
    BY <1>3, <1>5, <1>7, <2>1, <2>2
  <2>4. back = CalculateSponsorReimbursement(spent)
    BY <1>1, <1>2, <1>7 DEF Bears, Terms, Offer, SendOffer, SendSearch, SwapOffer
  <2> HIDE DEF spent, cost, back
  <2>5. /\ back \in Nat
        /\ back * (LAMPORTS_PER_SOL * TOKEN_PRICE) >= spent * SOL_PRICE * UNIT
    BY <2>3, <2>4, ReimbursementCovers
  <2>6. /\ SOL_PRICE \in Nat /\ UNIT \in Nat /\ TOKEN_PRICE \in Nat /\ LAMPORTS_PER_SOL \in Nat
    BY EconomicsAssumption
  <2>7. cost * SOL_PRICE \in Nat /\ spent * SOL_PRICE \in Nat
        /\ cost * SOL_PRICE <= spent * SOL_PRICE
    BY <2>3, <2>6, MultiplyKeepsOrder
  <2>8. /\ cost * SOL_PRICE * UNIT \in Nat /\ spent * SOL_PRICE * UNIT \in Nat
        /\ cost * SOL_PRICE * UNIT <= spent * SOL_PRICE * UNIT
    BY <2>6, <2>7, MultiplyKeepsOrder
  <2>9. back * TOKEN_PRICE * LAMPORTS_PER_SOL = back * (LAMPORTS_PER_SOL * TOKEN_PRICE)
        /\ back * TOKEN_PRICE * LAMPORTS_PER_SOL \in Nat
    BY <2>5, <2>6
  <2>10. back * TOKEN_PRICE * LAMPORTS_PER_SOL >= cost * SOL_PRICE * UNIT
    BY <2>5, <2>8, <2>9
  <2>11. - r.payer * SOL_PRICE * UNIT = cost * SOL_PRICE * UNIT
    <3>1. r.payer \in Int /\ r.payer = - cost
      <4>1. r.payer \in Int
        BY <1>1, <1>3
      <4> QED BY <4>1 DEF cost
    <3> DEFINE p == r.payer
    <3> HIDE DEF p
    <3>2. p \in Int /\ p = - cost /\ cost \in Nat
      BY <2>3, <3>1 DEF p
    <3>3. - (p * SOL_PRICE * UNIT) = cost * SOL_PRICE * UNIT
      <4>1. p * SOL_PRICE = - (cost * SOL_PRICE)
        BY <2>6, <3>2
      <4>2. p * SOL_PRICE * UNIT = - (cost * SOL_PRICE * UNIT)
        BY <2>6, <2>7, <4>1
      <4> QED BY <2>8, <4>2
    <3> QED BY <3>3 DEF p
  <2> QED BY <2>10, <2>11 DEF back
<1> QED BY <1>4, <1>6, <1>7 DEF Order, Actions, Closing

-----------------------------------------------------------------------------
\* Matches of an order, a quote, a receipt and the chain after it.
Agrees(o, q, r, c) ==
  /\ Closing(o) => \A k \in Range(q.picked) : c.accounts[k].lamports = 0
  /\ o.action # "deposit" => r.fee = q.network
  /\ o.action \in {"claim", "burn"} =>
       /\ r.wallet = q.gross - q.serviceFee - q.network
       /\ r.destination = q.serviceFee + q.network
       /\ r.payer = - q.network
  /\ o.action = "burn" => r.wallet = q.promise
  /\ o.action = "recover" =>
       /\ r.wallet >= RecoverPayout(q)
       /\ r.destination = q.serviceFee + (q.network + q.rent)
       /\ r.payer = - (q.network + q.rent)
       /\ c.receiving = "absent"
  /\ o.action \in {"send", "swap"} =>
       /\ r.source = -q.total
       /\ r.reimbursement = q.reimbursement
       /\ r.serviceFee = q.serviceFee
       /\ r.payer = - (q.network + q.rent)
  /\ o.action = "send" => r.recipient = q.amount
  /\ o.action = "swap" => r.output >= q.threshold

LEMMA AgreesMatches ==
  ASSUME order' \in Order, Agrees(order', quote', receipt', chain')
  PROVE  Matches'
<1>1. order'.action \in {"claim", "burn", "recover", "send", "swap", "deposit"}
  BY DEF Order, Actions
<1>2. CASE order'.action = "claim"
  BY <1>2 DEF Agrees, Closing, Matches, ClaimMatches, Gone
<1>3. CASE order'.action = "burn"
  BY <1>3 DEF Agrees, Closing, Matches, BurnMatches, Gone
<1>4. CASE order'.action = "recover"
  BY <1>4 DEF Agrees, Closing, Matches, RecoverMatches, Gone
<1>5. CASE order'.action = "send"
  BY <1>5 DEF Agrees, Closing, Matches, SendMatches
<1>6. CASE order'.action = "swap"
  BY <1>6 DEF Agrees, Closing, Matches, SwapMatches
<1>7. CASE order'.action = "deposit"
  BY <1>7 DEF Matches
<1> QED BY <1>1, <1>2, <1>3, <1>4, <1>5, <1>6, <1>7

\* What is left of an account that was closed.
LEMMA AfterFacts ==
  ASSUME NEW m, NEW c \in Chain
  PROVE  LET d == After(m, c)
         IN  /\ DOMAIN d = DOMAIN c /\ d.fee = c.fee
             /\ \A k \in DOMAIN c.accounts \cap Closed(m) : d.accounts[k].lamports = 0
             /\ Ops(m, "unwrap") # {} => d.receiving = "absent"
<1> DEFINE d == After(m, c)
<1>1. DOMAIN d = DOMAIN c /\ d.fee = c.fee
  BY ChainFacts DEF After
<1>2. Ops(m, "unwrap") # {} => d.receiving = "absent"
  BY ChainFacts DEF After
<1>3. ASSUME NEW k \in DOMAIN c.accounts \cap Closed(m) PROVE d.accounts[k].lamports = 0
  <2>1. d.accounts[k] = Used(c.accounts[k], Debit(m, k), TRUE)
    BY <1>3, ChainFacts DEF After
  <2>2. c.accounts[k] \in Account
    BY ChainFacts
  <2>3. \A a \in Account : \A v : Used(a, v, TRUE).lamports = 0
    BY DEF Used, Account
  <2> HIDE DEF d
  <2> QED BY <2>1, <2>2, <2>3
<1> QED BY <1>1, <1>2, <1>3

(* What landed is what reconciliation expects, where the rechecks saw what *)
(* the quote had seen.                                                     *)
LEMMA LandsAgrees ==
  ASSUME NEW o \in Order, NEW q, NEW m, Sighted(q), Terms(o, q), Does(o, q, m),
         m.signers[1] = "payer", NEW c \in Chain, Fits(q, c), Rechecked(o, q, c),
         NEW out \in {q.threshold, q.threshold + 1},
         o.action # "deposit" => q.network = c.fee,
         o.action = "swap" /\ q.receiving = "absent" => c.receiving = "absent"
  PROVE  Agrees(o, q, Receipt(m, c, out), After(m, c))
<1> DEFINE r == Receipt(m, c, out)
           d == After(m, c)
           held == Total(Lamports(c.accounts), Picks(o, q))
           opening == IF Opens(o, q) THEN ATA_RENT ELSE 0
<1>1. o.action \in {"recover", "swap"} => q.threshold \in Nat /\ out \in Nat /\ out >= q.threshold
  BY DEF Terms, Offer, RecoverTerms, SwapOffer, SwapRouting
<1>2. /\ Amounts(o, q) /\ Bears(o, q, m) /\ held \in Int
      /\ r.wallet = held + (IF o.action = "recover" THEN out + ATA_RENT ELSE 0)
                      - Settled(o, q)
      /\ r.payer = - r.fee - (IF Opens(o, q) /\ c.receiving = "absent" THEN ATA_RENT ELSE 0)
      /\ r.fee = (IF o.action = "deposit" THEN BASE_FEE ELSE c.fee)
      /\ r.destination = Settled(o, q) /\ r.source = - Debit(m, 1)
      /\ Debit(m, 1) = IF Source(o, q) = 1 THEN Debited(o, q) ELSE 0
  BY <1>1, Lands
<1>3. /\ r.recipient = AmountTo(m, "pay", "recipient")
      /\ r.reimbursement = AmountTo(m, "pay", "reimbursement")
      /\ r.serviceFee = AmountTo(m, "pay", "serviceFee")
      /\ r.output = IF Ops(m, "swap") = {} THEN 0 ELSE out
  BY DEF Receipt
<1>4. /\ \A k \in DOMAIN c.accounts \cap Closed(m) : d.accounts[k].lamports = 0
      /\ Ops(m, "unwrap") # {} => d.receiving = "absent"
  BY AfterFacts
<1>5. Closed(m) = Picks(o, q)
  BY <1>2 DEF Bears, Moves
<1> HIDE DEF r, d, held
<1>6. ATA_RENT \in Nat /\ c.fee \in Nat
  BY LedgerAssumption, ChainFacts
<1>7. Opens(o, q) => c.receiving = "absent"
  BY DEF Opens, Rechecked
<1>8. ASSUME o.action # "deposit"
      PROVE  /\ r.fee = q.network /\ q.network \in Nat
             /\ r.payer = - q.network - opening
  BY <1>2, <1>6, <1>7, <1>8 DEF Amounts
<1>9. o.action \in {"recover", "send", "swap"} => q.rent = opening
  BY <1>2 DEF Amounts, OpeningRent, Opens
<1>10. ASSUME Closing(o)
       PROVE  /\ held = q.gross /\ q.gross \in Int /\ q.serviceFee \in Nat
              /\ \A k \in Range(q.picked) : d.accounts[k].lamports = 0
  <2>1. ClosingQuote(o, q) /\ q.serviceFee \in Nat
    BY <1>2, <1>10 DEF Terms, Offer, Amounts
  <2>2. \A k \in Range(q.picked) : c.accounts[k] = q.seen[k]
    BY <1>10 DEF Rechecked
  <2>3. held = q.gross /\ q.gross \in Int
    BY <1>10, <2>1, <2>2, HeldGrows DEF held
  <2>4. Range(q.picked) \subseteq DOMAIN c.accounts /\ Picks(o, q) = Range(q.picked)
    BY <1>10, SightedFacts DEF Fits, Picks
  <2> QED BY <1>4, <1>5, <2>1, <2>3, <2>4
<1>11. ASSUME o.action \in {"claim", "burn"}
       PROVE  /\ r.wallet = q.gross - q.serviceFee - q.network
              /\ r.destination = q.serviceFee + q.network
              /\ r.payer = - q.network
              /\ o.action = "burn" => r.wallet = q.promise
  <2>1. Closing(o) /\ ~ Opens(o, q) /\ Settled(o, q) = q.serviceFee + q.network
    BY <1>11 DEF Closing, Opens, Settled
  <2>2. r.wallet = held + 0 - (q.serviceFee + q.network)
    BY <1>2, <1>11, <2>1
  <2>3. r.wallet = q.gross - q.serviceFee - q.network
    BY <1>8, <1>10, <1>11, <2>1, <2>2
  <2>4. o.action = "burn" => q.promise = q.gross - q.serviceFee - q.network
    BY DEF Terms, BurnTerms
  <2>5. r.payer = - q.network
    BY <1>8, <1>11, <2>1
  <2> QED BY <1>2, <2>1, <2>3, <2>4, <2>5
<1>12. ASSUME o.action = "recover"
       PROVE  /\ r.wallet >= RecoverPayout(q)
              /\ r.destination = q.serviceFee + (q.network + q.rent)
              /\ r.payer = - (q.network + q.rent)
              /\ d.receiving = "absent"
  <2>1. Closing(o) /\ Settled(o, q) = q.serviceFee + q.network + q.rent
    BY <1>12 DEF Closing, Settled
  <2>2. q.rent \in Nat /\ q.rent <= ATA_RENT /\ q.rent = opening
    BY <1>2, <1>6, <1>9, <1>12 DEF Amounts
  <2>3. q.threshold \in Nat /\ out \in Nat /\ out >= q.threshold
    BY <1>1, <1>12
  <2>4. r.wallet = held + (out + ATA_RENT) - (q.serviceFee + q.network + q.rent)
    BY <1>2, <1>12, <2>1
  <2>5. r.wallet >= q.threshold + q.gross - q.serviceFee - q.network
    BY <1>6, <1>8, <1>10, <1>12, <2>1, <2>2, <2>3, <2>4
  <2>6. r.destination = q.serviceFee + (q.network + q.rent)
    BY <1>2, <1>8, <1>10, <1>12, <2>1, <2>2
  <2>7. r.payer = - (q.network + q.rent)
    BY <1>8, <1>12, <2>2
  <2>8. d.receiving = "absent"
    BY <1>2, <1>4, <1>12 DEF Bears
  <2> QED BY <2>5, <2>6, <2>7, <2>8 DEF RecoverPayout
<1>13. ASSUME o.action \in {"send", "swap"}
       PROVE  /\ r.source = -q.total
              /\ r.reimbursement = q.reimbursement
              /\ r.serviceFee = q.serviceFee
              /\ r.payer = - (q.network + q.rent)
  <2>1. Source(o, q) = 1 /\ Debited(o, q) = q.total
    BY <1>13 DEF Source, Debited
  <2>2. r.payer = - (q.network + q.rent)
    <3>1. q.rent \in Nat /\ q.rent = opening
      BY <1>2, <1>9, <1>13 DEF Amounts
    <3> QED BY <1>8, <1>13, <3>1
  <2> QED BY <1>2, <1>3, <1>13, <2>1, <2>2 DEF Bears
<1>14. o.action = "send" => r.recipient = q.amount
  BY <1>2, <1>3 DEF Bears
<1>15. o.action = "swap" => r.output >= q.threshold
  BY <1>1, <1>2, <1>3 DEF Bears
<1>16. Agrees(o, q, r, d)
  BY <1>8, <1>10, <1>11, <1>12, <1>13, <1>14, <1>15 DEF Agrees
<1> QED BY <1>16 DEF r, d

-----------------------------------------------------------------------------
(* While nobody touched the chain, the network takes the message.          *)
LEMMA Allowed ==
  ASSUME NEW o \in Order, NEW q, NEW m, Sighted(q), Terms(o, q), Does(o, q, m),
         m.signers[1] = "payer", NEW c \in Chain, Untouched(q, c),
         NEW out, o.action = "recover" => out \in Nat /\ out >= q.threshold,
         o.action = "deposit" => Funded(o, q)
  PROVE  Succeeds(m, c, out)
<1> DEFINE held == Total(Lamports(c.accounts), Picks(o, q))
           k == Source(o, q)
<1>1. Fits(q, c)
  <2>1. \A j \in DOMAIN q.seen : q.seen[j].lamports \in Nat
    BY ChainFacts DEF Untouched
  <2> QED BY <2>1 DEF Fits, Untouched
<1>2. /\ Amounts(o, q) /\ Bears(o, q, m) /\ held \in Int
      /\ WalletDelta(m, c, out)
           = held + (IF o.action = "recover" THEN out + ATA_RENT ELSE 0) - Settled(o, q)
  <2>1. o.action = "recover" => out \in Nat
    OBVIOUS
  <2> QED BY <1>1, <2>1, Lands
<1> HIDE DEF held
<1>3. Moves(m, Picks(o, q), k, Debited(o, q), Settled(o, q))
  BY <1>2 DEF Bears
<1>4. /\ k \in DOMAIN q.seen /\ DOMAIN q.seen \subseteq DOMAIN Address
      /\ c.accounts = q.seen
  BY <1>2, SightedFacts DEF Amounts, Untouched
<1>5. \A j \in DOMAIN c.accounts : Debit(m, j) = IF j = k THEN Debited(o, q) ELSE 0
  BY <1>3, <1>4 DEF Moves
<1>6. MayDebit(q.seen[k], Debited(o, q))
  <2>1. CASE o.action = "claim"
    BY <2>1 DEF Debited, MayDebit
  <2>2. CASE o.action \in {"burn", "recover"}
    <3>1. ClosingQuote(o, q) /\ o.action # "claim"
      BY <2>2 DEF Terms, Offer, Closing
    <3>2. /\ q.amount = q.seen[q.picked[1]].amount /\ q.picked[1] \in Range(q.picked)
          /\ Inspect(o.action, q.seen[q.picked[1]]) /\ q.amount \in Nat
      BY <3>1, SingleAmount DEF ClosingQuote
    <3>3. k = q.picked[1] /\ Debited(o, q) = q.amount
      BY <2>2 DEF Source, Debited
    <3>4. q.seen[k].state = "initialized"
      BY <2>2, <3>2, <3>3 DEF Inspect, InspectRecoverAccount, InspectBurnAccount, Ordinary
    <3> HIDE DEF k
    <3> QED BY <3>2, <3>3, <3>4 DEF MayDebit
  <2>3. CASE o.action \in {"send", "swap", "deposit"}
    <3>1. k = 1 /\ Debited(o, q) = q.total
      BY <2>3 DEF Source, Debited
    <3>2. InspectSendTokenAccount(q.seen[1]) /\ q.total <= q.seen[1].amount
      <4>1. CASE o.action = "send"
        BY <4>1 DEF Terms, Offer, SendOffer, SendSearch, PayingQuote
      <4>2. CASE o.action = "swap"
        BY <4>2 DEF Terms, Offer, SwapOffer, SwapRouting, PayingQuote
      <4>3. CASE o.action = "deposit"
        <5>1. q.total = o.amount /\ o.amount \in Nat
          BY <4>3 DEF Terms, Offer, Order
        <5>2. q.seen[1].amount \in Nat
          BY <1>4, <3>1, ChainFacts
        <5> QED BY <4>3, <5>1, <5>2 DEF Funded
      <4> QED BY <2>3, <4>1, <4>2, <4>3
    <3> HIDE DEF k
    <3> QED BY <3>1, <3>2 DEF MayDebit, InspectSendTokenAccount, Ordinary
  <2> QED BY <2>1, <2>2, <2>3 DEF Order, Actions
<1>7. \A j \in Closed(m) : MayClose(c.accounts[j], Debit(m, j))
  <2> SUFFICES ASSUME NEW j \in Closed(m) PROVE MayClose(c.accounts[j], Debit(m, j))
    OBVIOUS
  <2>1. j \in Picks(o, q) /\ Closing(o) /\ j \in Range(q.picked)
    BY <1>3 DEF Moves, Picks
  <2>2. ClosingQuote(o, q) /\ Inspect(o.action, q.seen[j]) /\ j \in DOMAIN q.seen
    BY <2>1, SightedFacts DEF Terms, Offer, ClosingQuote
  <2>3. q.seen[j].program = "legacy" /\ ~ q.seen[j].closeAuthority
    BY <2>1, <2>2 DEF Inspect, InspectClaimAccount, InspectBurnAccount, InspectRecoverAccount,
         Ordinary, Plain
  <2>4. Debit(m, j) = IF j = k THEN Debited(o, q) ELSE 0
    BY <1>4, <1>5, <2>2
  <2>5. CASE o.action = "claim"
    <3>1. q.seen[j].amount = 0
      BY <2>2, <2>5 DEF Inspect, InspectClaimAccount
    <3>2. Debit(m, j) = 0
      BY <2>4, <2>5 DEF Debited
    <3> QED BY <1>4, <2>3, <3>1, <3>2 DEF MayClose
  <2>6. CASE o.action \in {"burn", "recover"}
    <3>1. j = q.picked[1] /\ q.amount = q.seen[q.picked[1]].amount
      BY <2>1, <2>2, <2>6, SingleAmount DEF ClosingQuote
    <3>2. k = q.picked[1] /\ Debited(o, q) = q.amount
      BY <2>6 DEF Source, Debited
    <3> HIDE DEF k
    <3>3. Debit(m, j) = q.seen[j].amount
      BY <2>4, <3>1, <3>2
    <3> QED BY <1>4, <2>3, <3>3 DEF MayClose
  <2> QED BY <2>1, <2>5, <2>6 DEF Closing
<1>8. Receives(m) => (c.receiving = "present" \/ Creates(m, c))
  <2> SUFFICES ASSUME Receives(m), c.receiving # "present" PROVE Creates(m, c)
    OBVIOUS
  <2>1. o.action \in {"recover", "send", "swap"}
    BY <1>2 DEF Bears
  <2>2. q.receiving # "frozen"
    BY <2>1 DEF Terms, Offer, SendOffer, SendSearch, SwapOffer, SwapRouting, PayingQuote
  <2>3. c.receiving = q.receiving /\ c.receiving \in {"absent", "present", "frozen"}
    BY ChainFacts DEF Untouched
  <2>4. Opens(o, q)
    BY <2>1, <2>2, <2>3 DEF Opens
  <2> QED BY <1>2, <2>2, <2>3, <2>4 DEF Bears, Creates
<1>9. c.market = "good"
  BY DEF Untouched
<1>10. WALLET_LAMPORTS + WalletDelta(m, c, out) >= 0
  <2>1. WALLET_LAMPORTS \in Nat /\ ATA_RENT \in Nat /\ MINIMUM_PAYOUT \in Nat
    BY LedgerAssumption, EconomicsAssumption
  <2>2. CASE Closing(o)
    <3>1. ClosingQuote(o, q) /\ q.serviceFee \in Nat /\ q.network \in Nat
      BY <1>2, <2>2 DEF Terms, Offer, Amounts
    <3>2. q.gross \in Int /\ q.gross <= held
      BY <1>1, <2>2, <3>1, HeldGrows DEF held
    <3>3. CASE o.action \in {"claim", "burn"}
      <4>1. q.gross - q.serviceFee - q.network >= MINIMUM_PAYOUT
        BY <3>3 DEF Terms, BurnTerms, ClaimTerms
      <4>2. WalletDelta(m, c, out) = held + 0 - (q.serviceFee + q.network)
        BY <1>2, <2>2, <3>3 DEF Settled
      <4> QED BY <1>2, <2>1, <3>1, <3>2, <4>1, <4>2
    <3>4. CASE o.action = "recover"
      <4>1. q.threshold + q.gross - q.serviceFee - q.network >= MINIMUM_PAYOUT
            /\ q.threshold \in Nat
        BY <3>4 DEF Terms, RecoverTerms, RecoverPayout
      <4>2. WalletDelta(m, c, out)
              = held + (out + ATA_RENT) - (q.serviceFee + q.network + q.rent)
        BY <1>2, <3>4 DEF Settled
      <4>3. q.rent \in Nat /\ q.rent <= ATA_RENT
        BY <1>2, <2>1, <3>4 DEF Amounts, OpeningRent
      <4>4. out \in Nat /\ out >= q.threshold
        BY <3>4
      <4> QED BY <1>2, <2>1, <3>1, <3>2, <4>1, <4>2, <4>3, <4>4
    <3> QED BY <2>2, <3>3, <3>4 DEF Closing
  <2>3. CASE ~ Closing(o)
    <3>1. held = 0
      BY <2>3, TotalOfNone DEF Picks, held
    <3>2. o.action # "recover" /\ Settled(o, q) = 0
      BY <2>3 DEF Closing, Settled
    <3> QED BY <1>2, <2>1, <3>1, <3>2
  <2> QED BY <2>2, <2>3
<1>11. \A j \in DOMAIN c.accounts : MayDebit(c.accounts[j], Debit(m, j))
  <2> SUFFICES ASSUME NEW j \in DOMAIN c.accounts PROVE MayDebit(c.accounts[j], Debit(m, j))
    OBVIOUS
  <2>1. CASE j = k
    BY <1>4, <1>5, <1>6, <2>1
  <2>2. CASE j # k
    BY <1>5, <2>2 DEF MayDebit
  <2> QED BY <2>1, <2>2
<1> QED BY <1>7, <1>8, <1>9, <1>10, <1>11 DEF Succeeds

-----------------------------------------------------------------------------
(***************************************************************************)
(* The invariant.                                                          *)
(***************************************************************************)
Working == phase \in {"searching", "routing", "quoted", "prepared", "approved", "submitted"}

Agreed == phase \in {"prepared", "approved", "submitted"}

\* What an attempt starts with is a chain; what is left when its message
\* has landed has the same fee.
ChainInv ==
  /\ DOMAIN chain = {"accounts", "receiving", "fee", "market"} /\ chain.fee \in Nat
  /\ phase \notin {"landed", "settled"} => chain \in Chain
  /\ phase = "asked" => chain \in Chains /\ changed = "no"

\* The chain is the one that was seen until somebody changes it, and has
\* no fewer lamports then.
SeenInv ==
  Working =>
    /\ Sighted(quote) /\ Fits(quote, chain)
    /\ changed = "no" => Untouched(quote, chain)

\* The quote is the arithmetic of what was seen.
OfferInv ==
  /\ phase = "searching" => order.action = "send" /\ SendSearch(quote)
  /\ phase = "routing" => order.action = "swap" /\ SwapRouting(quote)
  /\ phase = "quoted" => Offer(order, quote)
  /\ Agreed => Terms(order, quote)
  /\ phase \in {"approved", "submitted"} /\ order.action = "recover" =>
       RecoverPayout(quote) >= quote.promise

\* The message does what the quote says, in the wallet's hands as well.
MessageInv ==
  Agreed =>
    /\ Proper(message) /\ message.signers[1] = "payer" /\ Does(order, quote, message)
    /\ order.action = "deposit" /\ changed = "no" => Funded(order, quote)
    /\ phase # "submitted" /\ order.action # "deposit" => Len(message.instructions) >= 3

\* What the last checks before the sponsor's signature established.
SubmittedInv ==
  phase = "submitted" =>
    /\ order.action \in {"claim", "burn", "recover", "send"} => quote.network = chain.fee
    /\ order.action \in {"claim", "burn"} => quote.network <= MAXIMUM_NETWORK_FEE
    /\ changed # "late" => Rechecked(order, quote, chain)

\* Both parties got what was agreed on.
LandedInv ==
  phase \in {"landed", "settled"} /\ receipt.ok =>
    /\ Kept(order, quote, receipt)
    /\ Whole(order, quote, receipt, chain.fee)

\* The premises of LandedReconciles.
Expected ==
  /\ changed # "late"
  /\ order.action = "swap" =>
       /\ quote.network = chain.fee
       /\ quote.receiving = "absent" => changed = "no"

MatchesInv == phase = "landed" /\ receipt.ok /\ Expected => Matches

Core ==
  /\ order \in Orders /\ changed \in {"no", "early", "late"}
  /\ ChainInv /\ SeenInv /\ OfferInv /\ MessageInv /\ SubmittedInv
  /\ LandedInv /\ MatchesInv /\ LandedReconciles
  /\ NothingOfferedIsRefused

Inv == MaxInv /\ Core

-----------------------------------------------------------------------------
(* A sum of amounts is an amount.                                          *)
LEMMA TotalIsAmount ==
  ASSUME NEW S, IsFiniteSet(S), NEW f, \A x \in S : f[x] \in Nat
  PROVE  Total(f, S) \in Nat
<1> DEFINE Q == {T \in SUBSET S : Total(f, T) \notin Nat}
<1> SUFFICES ASSUME Q # {} PROVE FALSE
  OBVIOUS
<1>1. PICK T \in Q : \A U \in SUBSET T : U \in Q => U = T
  <2>1. Q \in SUBSET (SUBSET S)
    OBVIOUS
  <2> HIDE DEF Q
  <2> QED BY <2>1, SmallestSubset
<1>2. T \in SUBSET S /\ Total(f, T) \notin Nat
  BY <1>1
<1>3. IsFiniteSet(T)
  BY <1>2, FS_Subset
<1>4. T # {}
  <2>1. T = {} => Total(f, T) = 0
    BY <1>3, TotalEquation
  <2> QED BY <1>2, <2>1
<1> DEFINE x == First(T)
<1>5. x \in T /\ Total(f, T) = f[x] + Total(f, T \ {x})
  BY <1>3, <1>4, TotalEquation
<1>6. Total(f, T \ {x}) \in Nat
  BY <1>1, <1>2, <1>5
<1>7. f[x] \in Nat
  BY <1>2, <1>5
<1> HIDE DEF x, Q
<1> QED BY <1>2, <1>5, <1>6, <1>7

(* A quote starts with the chain it is made on.                            *)
LEMMA SightedFirst ==
  ASSUME NEW c \in Chain, NEW q, DOMAIN q = QuoteFields, q.seen = c.accounts,
         q.receiving = c.receiving, q.picked \in Seq(DOMAIN c.accounts)
  PROVE  Sighted(q) /\ Fits(q, c) /\ (c.market = "good" => Untouched(q, c))
<1>1. c.accounts \in Seq(Account) /\ Len(c.accounts) \in 1 .. Len(Address)
  BY DEF Chain
<1>2. \A k \in DOMAIN c.accounts : c.accounts[k].lamports \in Nat
  BY ChainFacts
<1>3. c.receiving \in {"absent", "present", "frozen"}
  BY ChainFacts
<1> QED BY <1>1, <1>2, <1>3 DEF Sighted, Fits, Untouched

(* A quote only gets its figures filled in.                                *)
LEMMA SightedStill ==
  ASSUME NEW p, NEW q, Sighted(p), DOMAIN q = DOMAIN p, q.seen = p.seen,
         q.receiving = p.receiving, q.picked = p.picked, NEW c
  PROVE  Sighted(q) /\ (Fits(p, c) => Fits(q, c)) /\ (Untouched(p, c) => Untouched(q, c))
BY DEF Sighted, Fits, Untouched

LEMMA AskedFacts ==
  ASSUME Core, phase = "asked"
  PROVE  /\ chain \in Chain /\ chain.market = "good" /\ changed = "no"
         /\ order \in Orders /\ order \in Order
         /\ chain.accounts \in Seq(Account) /\ DOMAIN chain.accounts = 1 .. Len(chain.accounts)
         /\ 1 \in DOMAIN chain.accounts
         /\ \A k \in DOMAIN chain.accounts :
              chain.accounts[k].lamports \in Nat /\ chain.accounts[k].amount \in Nat
<1>1. chain \in Chains /\ changed = "no" /\ order \in Orders
  BY DEF Core, ChainInv
<1>2. chain \in Chain /\ chain.market = "good" /\ order \in Order
  BY <1>1, SettlementAssumption
<1>3. chain.accounts \in Seq(Account) /\ Len(chain.accounts) \in 1 .. Len(Address)
  BY <1>2 DEF Chain
<1>4. Len(Address) \in Nat
  BY LedgerAssumption
<1>5. DOMAIN chain.accounts = 1 .. Len(chain.accounts) /\ Len(chain.accounts) \in Nat
  BY <1>3
<1>6. 1 \in DOMAIN chain.accounts
  BY <1>3, <1>4, <1>5
<1> QED BY <1>1, <1>2, <1>3, <1>5, <1>6, ChainFacts

(* What is left to show of a step, by where it leads.                      *)
LEMMA LeadsToOffer ==
  ASSUME Core, phase \notin {"landed", "settled"},
         UNCHANGED <<order, chain, changed>>, phase' \in {"searching", "routing", "quoted"},
         Sighted(quote'), Fits(quote', chain), changed = "no" => Untouched(quote', chain),
         phase' = "searching" => order.action = "send" /\ SendSearch(quote'),
         phase' = "routing" => order.action = "swap" /\ SwapRouting(quote'),
         phase' = "quoted" => Offer(order, quote')
  PROVE  Core'
<1>1. ChainInv'
  BY DEF Core, ChainInv
<1>2. SeenInv'
  BY DEF SeenInv, Working
<1>3. OfferInv' /\ MessageInv' /\ SubmittedInv'
  BY DEF OfferInv, MessageInv, SubmittedInv, Agreed
<1>4. LandedInv' /\ MatchesInv' /\ LandedReconciles' /\ NothingOfferedIsRefused'
  BY DEF LandedInv, MatchesInv, LandedReconciles, NothingOfferedIsRefused
<1> QED BY <1>1, <1>2, <1>3, <1>4 DEF Core

LEMMA LeadsToRefusal ==
  ASSUME Core, phase \notin {"landed", "settled"},
         UNCHANGED <<order, chain, changed>>, phase' = "refused", changed # "no"
  PROVE  Core'
<1>1. ChainInv'
  BY DEF Core, ChainInv
<1>2. SeenInv' /\ OfferInv' /\ MessageInv' /\ SubmittedInv'
  BY DEF SeenInv, Working, OfferInv, MessageInv, SubmittedInv, Agreed
<1>3. LandedInv' /\ MatchesInv' /\ LandedReconciles' /\ NothingOfferedIsRefused'
  BY DEF LandedInv, MatchesInv, LandedReconciles, NothingOfferedIsRefused
<1> QED BY <1>1, <1>2, <1>3 DEF Core

LEMMA LeadsToAgreement ==
  ASSUME Core, phase \notin {"landed", "settled"},
         UNCHANGED <<order, chain, changed>>, phase' \in {"prepared", "approved", "submitted"},
         Sighted(quote'), Fits(quote', chain), changed = "no" => Untouched(quote', chain),
         Terms(order, quote'),
         phase' \in {"approved", "submitted"} /\ order.action = "recover" =>
           RecoverPayout(quote') >= quote'.promise,
         Proper(message'), message'.signers[1] = "payer", Does(order, quote', message'),
         order.action = "deposit" /\ changed = "no" => Funded(order, quote'),
         phase' # "submitted" /\ order.action # "deposit" => Len(message'.instructions) >= 3,
         phase' = "submitted" =>
           /\ order.action \in {"claim", "burn", "recover", "send"} => quote'.network = chain.fee
           /\ order.action \in {"claim", "burn"} => quote'.network <= MAXIMUM_NETWORK_FEE
           /\ changed # "late" => Rechecked(order, quote', chain)
  PROVE  Core'
<1>1. ChainInv'
  BY DEF Core, ChainInv
<1>2. SeenInv'
  BY DEF SeenInv, Working
<1>3. OfferInv' 
  BY DEF OfferInv, Agreed
<1>4. MessageInv' /\ SubmittedInv'
  BY DEF MessageInv, SubmittedInv, Agreed
<1>5. LandedInv' /\ MatchesInv' /\ LandedReconciles' /\ NothingOfferedIsRefused'
  BY DEF LandedInv, MatchesInv, LandedReconciles, NothingOfferedIsRefused
<1> QED BY <1>1, <1>2, <1>3, <1>4, <1>5 DEF Core

(* A transaction's worth of accounts are some of those found.              *)
LEMMA BatchIsSome ==
  ASSUME NEW D, NEW s \in Seq(D), NEW n \in Nat
  PROVE  /\ BatchClaimAccounts(s, n) \in Seq(D)
         /\ \A k \in DOMAIN BatchClaimAccounts(s, n) :
              k \in DOMAIN s /\ BatchClaimAccounts(s, n)[k] = s[k]
<1> DEFINE b == IF Len(s) < n THEN Len(s) ELSE n
<1>1. b \in Nat /\ b <= Len(s) /\ Len(s) \in Nat /\ DOMAIN s = 1 .. Len(s)
  OBVIOUS
<1>2. BatchClaimAccounts(s, n) = SubSeq(s, 1, b)
  BY DEF BatchClaimAccounts
<1> HIDE DEF b
<1>3. \A k \in 1 .. b : s[k] \in D /\ k \in DOMAIN s
  BY <1>1
<1>4. SubSeq(s, 1, b) \in Seq(D)
  BY <1>1, <1>3, SubSeqProperties
<1>5. DOMAIN SubSeq(s, 1, b) = 1 .. b /\ \A k \in 1 .. b : SubSeq(s, 1, b)[k] = s[k]
  BY <1>1
<1> QED BY <1>2, <1>3, <1>4, <1>5

(* A fee is an amount.                                                     *)
LEMMA FeeIsAmount ==
  ASSUME NEW x \in Nat
  PROVE  /\ CalculateClaimFee(x) \in Nat /\ CalculateBurnFee(x) \in Nat
         /\ CalculateSwapServiceFee(x) \in Nat
         /\ \A y \in Nat : CalculateRecoverFees(y, x) \in Nat
<1>1. BPS_DENOMINATOR \in Nat \ {0} /\ FEE_BPS \in Nat
  BY EconomicsAssumption
<1>2. \A y \in Nat : (y * FEE_BPS) \div BPS_DENOMINATOR \in Nat
  <2> SUFFICES ASSUME NEW y \in Nat PROVE (y * FEE_BPS) \div BPS_DENOMINATOR \in Nat
    OBVIOUS
  <2>1. y * FEE_BPS \in Nat
    BY <1>1
  <2> QED BY <1>1, <2>1, Division
<1>3. \A p, r \in Nat : p + r \in Nat
  OBVIOUS
<1> QED BY <1>2, <1>3 DEF CalculateClaimFee, CalculateBurnFee, CalculateSwapServiceFee,
                         CalculateRecoverFees

(* The accounts that discovery offers.                                     *)
LEMMA Offered ==
  ASSUME Core, phase = "asked"
  PROVE  /\ Discover(order.action, chain.accounts) \in Seq(DOMAIN chain.accounts)
         /\ \A k \in Range(Discover(order.action, chain.accounts)) :
              k \in DOMAIN chain.accounts /\ Inspect(order.action, chain.accounts[k])
<1>1. chain.accounts \in Seq(Account)
  BY AskedFacts
<1> DEFINE d == Discover(order.action, chain.accounts)
<1>2. /\ d \in Seq(DOMAIN chain.accounts)
      /\ \A n \in DOMAIN d : Inspect(order.action, chain.accounts[d[n]])
  BY <1>1, Discovered
<1> HIDE DEF d
<1>3. \A n \in DOMAIN d : d[n] \in DOMAIN chain.accounts
  BY <1>2
<1>4. \A k \in Range(d) : k \in DOMAIN chain.accounts /\ Inspect(order.action, chain.accounts[k])
  BY <1>2, <1>3 DEF Range
<1> QED BY <1>2, <1>4 DEF d

LEMMA SeenFields ==
  ASSUME NEW p
  PROVE  /\ DOMAIN Seen(p) = QuoteFields /\ Seen(p).picked = p
         /\ Seen(p).seen = chain.accounts /\ Seen(p).receiving = chain.receiving
BY DEF Seen, NoQuote, QuoteFields

-----------------------------------------------------------------------------
(* A quote is made of what the chain has.                                  *)
LEMMA QuoteClaimStep ==
  ASSUME Core, QuoteClaim
  PROVE  Core'
<1>1. /\ phase = "asked" /\ order.action = "claim" /\ phase' = "quoted"
      /\ UNCHANGED <<order, chain, changed>>
  BY DEF QuoteClaim, Asked, Quoted
<1> DEFINE d == Discover("claim", chain.accounts)
           p == BatchClaimAccounts(d, MAX_ACCOUNTS)
           gross == Rent(p)
           fee == CalculateClaimFee(gross)
           net == gross - fee - MAXIMUM_NETWORK_FEE
<1>2. /\ p # << >>
      /\ quote' = [Seen(p) EXCEPT !.gross = gross, !.serviceFee = fee, !.promise = net]
  BY DEF QuoteClaim, Quoted
<1>3. /\ chain \in Chain /\ chain.market = "good" /\ changed = "no"
      /\ DOMAIN chain.accounts = 1 .. Len(chain.accounts)
      /\ \A k \in DOMAIN chain.accounts : chain.accounts[k].lamports \in Nat
  BY <1>1, AskedFacts
<1>4. /\ d \in Seq(DOMAIN chain.accounts)
      /\ \A k \in Range(d) : k \in DOMAIN chain.accounts /\ Inspect("claim", chain.accounts[k])
  BY <1>1, Offered
<1>5. /\ p \in Seq(DOMAIN chain.accounts)
      /\ \A n \in DOMAIN p : n \in DOMAIN d /\ p[n] = d[n]
  <2>1. MAX_ACCOUNTS \in Nat
    BY SettlementAssumption
  <2> DEFINE D == DOMAIN chain.accounts
  <2> HIDE DEF d, D
  <2>2. d \in Seq(D)
    BY <1>4 DEF D
  <2>3. p \in Seq(D) /\ \A n \in DOMAIN p : n \in DOMAIN d /\ p[n] = d[n]
    BY <2>1, <2>2, BatchIsSome
  <2> QED BY <2>3 DEF D
<1> HIDE DEF d, p, gross, fee, net
<1>6. \A k \in Range(p) : k \in DOMAIN chain.accounts /\ Inspect("claim", chain.accounts[k])
  BY <1>4, <1>5 DEF Range
<1>7. /\ DOMAIN quote' = QuoteFields /\ quote'.seen = chain.accounts
      /\ quote'.receiving = chain.receiving /\ quote'.picked = p
      /\ quote'.gross = gross /\ quote'.serviceFee = fee /\ quote'.promise = net
  BY <1>2 DEF Seen, NoQuote, QuoteFields
<1>8. Sighted(quote') /\ Fits(quote', chain) /\ Untouched(quote', chain)
  BY <1>3, <1>5, <1>7, SightedFirst
<1>9. IsFiniteSet(Range(p))
  BY <1>7, <1>8, SightedFacts
<1>10. gross = Total(Lamports(chain.accounts), Range(p)) /\ gross \in Nat
  <2>1. \A k \in Range(p) : Lamports(chain.accounts)[k] \in Nat
    BY <1>3, <1>6 DEF Lamports
  <2>2. Total(Lamports(chain.accounts), Range(p)) \in Nat
    BY <1>9, <2>1, TotalIsAmount
  <2> QED BY <2>2 DEF gross, Rent
<1>11. fee \in Nat
  BY <1>10, FeeIsAmount DEF fee
<1>12. ClosingQuote(order, quote')
  BY <1>1, <1>2, <1>6, <1>7, <1>10, <1>11 DEF ClosingQuote
<1>13. Offer(order, quote')
  BY <1>1, <1>7, <1>12 DEF Offer, net
<1> QED BY <1>1, <1>8, <1>13, LeadsToOffer

LEMMA OneIsSighted ==
  ASSUME Core, phase = "asked", NEW k \in DOMAIN chain.accounts,
         NEW q, DOMAIN q = QuoteFields, q.seen = chain.accounts,
         q.receiving = chain.receiving, q.picked = <<k>>
  PROVE  /\ Sighted(q) /\ Fits(q, chain) /\ Untouched(q, chain)
         /\ chain.accounts[k].lamports \in Nat
         /\ Range(q.picked) = {k} /\ Len(q.picked) = 1 /\ q.picked[1] = k /\ q.picked # << >>
         /\ Total(Lamports(q.seen), Range(q.picked)) = chain.accounts[k].lamports
<1>1. chain \in Chain /\ chain.market = "good" /\ chain.accounts[k].lamports \in Nat
  BY AskedFacts
<1>2. q.picked \in Seq(DOMAIN chain.accounts)
  <2> DEFINE D == DOMAIN chain.accounts
  <2> HIDE DEF D
  <2>1. k \in D
    BY DEF D
  <2>2. <<k>> \in Seq(D)
    BY <2>1
  <2> QED BY <2>2 DEF D
<1>3. Sighted(q) /\ Fits(q, chain) /\ Untouched(q, chain)
  BY <1>1, <1>2, SightedFirst
<1>4. Range(q.picked) = {k} /\ Len(q.picked) = 1
  BY RangeOfOne
<1>5. q.picked[1] = k /\ q.picked # << >>
  OBVIOUS
<1>6. Lamports(q.seen)[k] = chain.accounts[k].lamports
  BY DEF Lamports
<1>7. Total(Lamports(q.seen), {k}) = chain.accounts[k].lamports
  <2> DEFINE f == Lamports(q.seen)
  <2>1. f[k] \in Int /\ f[k] = chain.accounts[k].lamports
    BY <1>1, <1>6
  <2> HIDE DEF f
  <2>2. Total(f, {k}) = f[k]
    BY <2>1, TotalOfOne
  <2> QED BY <2>1, <2>2 DEF f
<1> QED BY <1>1, <1>3, <1>4, <1>5, <1>7

LEMMA QuoteBurnStep ==
  ASSUME Core, QuoteBurn
  PROVE  Core'
<1>1. /\ phase = "asked" /\ order.action = "burn" /\ phase' = "quoted"
      /\ UNCHANGED <<order, chain, changed>>
  BY DEF QuoteBurn, Asked, Quoted
<1>2. PICK k \in Range(Discover("burn", chain.accounts)) :
        quote' = [Seen(<<k>>) EXCEPT !.gross = chain.accounts[k].lamports,
                     !.serviceFee = CalculateBurnFee(chain.accounts[k].lamports),
                     !.amount = chain.accounts[k].amount]
  BY DEF QuoteBurn, Quoted
<1>3. k \in DOMAIN chain.accounts /\ Inspect("burn", chain.accounts[k])
  BY <1>1, Offered
<1> DEFINE rent == chain.accounts[k].lamports
           fee == CalculateBurnFee(rent)
<1>4. /\ DOMAIN quote' = QuoteFields /\ quote'.seen = chain.accounts
      /\ quote'.receiving = chain.receiving /\ quote'.picked = <<k>>
      /\ quote'.gross = rent /\ quote'.serviceFee = fee
      /\ quote'.amount = chain.accounts[k].amount
  BY <1>2 DEF Seen, NoQuote, QuoteFields
<1>5. /\ Sighted(quote') /\ Fits(quote', chain) /\ Untouched(quote', chain)
      /\ rent \in Nat
      /\ Range(quote'.picked) = {k} /\ Len(quote'.picked) = 1 /\ quote'.picked[1] = k
      /\ quote'.picked # << >>
      /\ Total(Lamports(quote'.seen), Range(quote'.picked)) = rent
  BY <1>1, <1>3, <1>4, OneIsSighted
<1>6. fee \in Nat
  BY <1>5, FeeIsAmount
<1> HIDE DEF fee, rent
<1>7. ClosingQuote(order, quote')
  BY <1>1, <1>3, <1>4, <1>5, <1>6 DEF ClosingQuote
<1>8. Offer(order, quote')
  BY <1>1, <1>7 DEF Offer
<1> QED BY <1>1, <1>5, <1>8, LeadsToOffer

LEMMA QuoteRecoverStep ==
  ASSUME Core, QuoteRecover
  PROVE  Core'
<1>1. /\ phase = "asked" /\ order.action = "recover" /\ phase' = "quoted"
      /\ UNCHANGED <<order, chain, changed>> /\ chain.receiving # "frozen"
  BY DEF QuoteRecover, Asked, Quoted
<1>2. PICK k \in Range(Discover("recover", chain.accounts)) :
        LET rent == chain.accounts[k].lamports
            fees == CalculateRecoverFees(order.threshold, rent)
        IN  quote' = [Seen(<<k>>) EXCEPT !.gross = rent, !.serviceFee = fees,
                         !.amount = chain.accounts[k].amount, !.threshold = order.threshold,
                         !.promise = order.threshold + rent - fees - MAXIMUM_NETWORK_FEE]
  BY DEF QuoteRecover, Quoted
<1>3. k \in DOMAIN chain.accounts /\ Inspect("recover", chain.accounts[k])
  BY <1>1, Offered
<1> DEFINE rent == chain.accounts[k].lamports
           fee == CalculateRecoverFees(order.threshold, rent)
<1>4. /\ DOMAIN quote' = QuoteFields /\ quote'.seen = chain.accounts
      /\ quote'.receiving = chain.receiving /\ quote'.picked = <<k>>
      /\ quote'.gross = rent /\ quote'.serviceFee = fee
      /\ quote'.amount = chain.accounts[k].amount
      /\ quote'.promise = order.threshold + rent - fee - MAXIMUM_NETWORK_FEE
  BY <1>2 DEF Seen, NoQuote, QuoteFields
<1>5. /\ Sighted(quote') /\ Fits(quote', chain) /\ Untouched(quote', chain)
      /\ rent \in Nat
      /\ Range(quote'.picked) = {k} /\ Len(quote'.picked) = 1 /\ quote'.picked[1] = k
      /\ quote'.picked # << >>
      /\ Total(Lamports(quote'.seen), Range(quote'.picked)) = rent
  BY <1>1, <1>3, <1>4, OneIsSighted
<1>6. order.threshold \in Nat /\ MAXIMUM_NETWORK_FEE \in Nat
  BY <1>1, AskedFacts, EconomicsAssumption DEF Order
<1>7. fee \in Nat
  BY <1>5, <1>6, FeeIsAmount
<1> HIDE DEF fee, rent
<1>8. quote'.promise \in Int
  BY <1>4, <1>5, <1>6, <1>7
<1>9. ClosingQuote(order, quote')
  BY <1>1, <1>3, <1>4, <1>5, <1>7 DEF ClosingQuote
<1>10. Offer(order, quote')
  BY <1>1, <1>4, <1>8, <1>9 DEF Offer
<1> QED BY <1>1, <1>5, <1>10, LeadsToOffer

LEMMA FeeAnswersFacts ==
  ASSUME NEW fee \in FeeAnswers, chain.fee \in Nat
  PROVE  /\ fee \in Nat
         /\ fee \in CompleteFees => fee >= PRIORITY_FEE /\ fee = chain.fee
<1>1. BASE_FEE \in Nat /\ PRIORITY_FEE \in Nat /\ BASE_FEE < PRIORITY_FEE
  BY LedgerAssumption, EconomicsAssumption, SettlementAssumption
<1> QED BY <1>1 DEF FeeAnswers, CompleteFees

LEMMA QuoteSendStep ==
  ASSUME Core, QuoteSend
  PROVE  Core'
<1>1. /\ phase = "asked" /\ order.action = "send" /\ phase' = "searching"
      /\ UNCHANGED <<order, chain, changed>> /\ chain.receiving # "frozen"
      /\ InspectSendTokenAccount(chain.accounts[1])
  BY DEF QuoteSend, Asked
<1>2. PICK fee \in CompleteFees :
        quote' = [Seen(<<1>>) EXCEPT !.network = fee, !.rent = ReceivingRent,
                     !.amount = order.amount,
                     !.reimbursement = CalculateSponsorReimbursement(fee + ReceivingRent)]
  BY DEF QuoteSend
<1>3. 1 \in DOMAIN chain.accounts /\ chain \in Chain
  BY <1>1, AskedFacts
<1>4. /\ DOMAIN quote' = QuoteFields /\ quote'.seen = chain.accounts
      /\ quote'.receiving = chain.receiving /\ quote'.picked = <<1>>
      /\ quote'.network = fee /\ quote'.rent = ReceivingRent
      /\ quote'.reimbursement = CalculateSponsorReimbursement(fee + ReceivingRent)
  BY <1>2 DEF Seen, NoQuote, QuoteFields
<1>5. Sighted(quote') /\ Fits(quote', chain) /\ Untouched(quote', chain)
  BY <1>1, <1>3, <1>4, OneIsSighted
<1>6. fee \in Nat /\ fee >= PRIORITY_FEE
  <2>1. fee \in FeeAnswers /\ fee \in CompleteFees /\ chain.fee \in Nat
    BY <1>3, ChainFacts DEF CompleteFees
  <2> QED BY <2>1, FeeAnswersFacts
<1>7. quote'.rent = OpeningRent(quote')
  BY <1>4 DEF OpeningRent, ReceivingRent
<1>8. SendSearch(quote')
  BY <1>1, <1>4, <1>6, <1>7 DEF SendSearch, PayingQuote
<1> QED BY <1>1, <1>5, <1>8, LeadsToOffer

LEMMA QuoteSwapStep ==
  ASSUME Core, QuoteSwap
  PROVE  Core'
<1>1. /\ phase = "asked" /\ order.action = "swap" /\ phase' = "routing"
      /\ UNCHANGED <<order, chain, changed>> /\ chain.receiving # "frozen"
      /\ InspectSendTokenAccount(chain.accounts[1])
      /\ order.amount <= chain.accounts[1].amount
      /\ quote' = [Seen(<<1>>) EXCEPT !.total = order.amount, !.threshold = order.threshold,
                    !.serviceFee = CalculateSwapServiceFee(order.amount),
                    !.rent = ReceivingRent,
                    !.reimbursement =
                      CalculateSponsorReimbursement(ReceivingRent + FIRST_GUESS_FEE)]
  BY DEF QuoteSwap, Asked
<1>2. 1 \in DOMAIN chain.accounts /\ order \in Order
  BY <1>1, AskedFacts
<1>3. /\ DOMAIN quote' = QuoteFields /\ quote'.seen = chain.accounts
      /\ quote'.receiving = chain.receiving /\ quote'.picked = <<1>>
      /\ quote'.total = order.amount /\ quote'.threshold = order.threshold
      /\ quote'.serviceFee = CalculateSwapServiceFee(order.amount)
      /\ quote'.rent = ReceivingRent
      /\ quote'.reimbursement = CalculateSponsorReimbursement(ReceivingRent + FIRST_GUESS_FEE)
  BY <1>1 DEF Seen, NoQuote, QuoteFields
<1>4. Sighted(quote') /\ Fits(quote', chain) /\ Untouched(quote', chain)
  BY <1>1, <1>2, <1>3, OneIsSighted
<1>5. order.amount \in Nat /\ order.threshold \in Nat
  BY <1>2 DEF Order
<1>6. quote'.serviceFee \in Nat
  BY <1>3, <1>5, FeeIsAmount
<1>7. quote'.reimbursement \in Nat
  <2>1. ReceivingRent + FIRST_GUESS_FEE \in Nat
    BY LedgerAssumption, SettlementAssumption DEF ReceivingRent
  <2> QED BY <1>3, <2>1, ReimbursementCovers
<1>8. quote'.rent = OpeningRent(quote')
  BY <1>3 DEF OpeningRent, ReceivingRent
<1>9. SwapRouting(quote')
  BY <1>1, <1>3, <1>5, <1>6, <1>7, <1>8 DEF SwapRouting, PayingQuote
<1> QED BY <1>1, <1>4, <1>9, LeadsToOffer

(* Whatever Relay answers, it names an amount that it will pay at least.   *)
LEMMA AnswersNameAnAmount ==
  ASSUME NEW ask, ask.minimum \in Nat, NEW a \in RelayAnswers(ask)
  PROVE  a.minimum \in Nat
<1> DEFINE right == Quoting(ask, RelayOrder(ask))
           orders == {[right.order EXCEPT !.recipient = "stranger"],
                   [right.order EXCEPT !.originRefund = "stranger"],
                   [right.order EXCEPT !.destinationRefund = "stranger"],
                   [right.order EXCEPT !.output = "other"],
                   [right.order EXCEPT !.input = "other"],
                   [right.order EXCEPT !.amount = @ + 1],
                   [right.order EXCEPT !.minimum = 0],
                   [right.order EXCEPT !.expected = 0],
                   [right.order EXCEPT !.solver = "stranger"],
                   [right.order EXCEPT !.calls = 1],
                   [right.order EXCEPT !.fees = 1]}
<1>1. right.order = RelayOrder(ask)
  BY DEF Quoting
<1>2. \A o \in orders : o.minimum \in Nat
  <2> SUFFICES ASSUME NEW o \in orders PROVE o.minimum \in Nat
    OBVIOUS
  <2> QED BY <1>1 DEF RelayOrder
<1>3. right.minimum = ask.minimum /\ DOMAIN right =
        {"sender", "recipient", "amount", "input", "output", "minimum", "expected",
         "order", "orderId", "payment", "deposit"}
  BY DEF Quoting, RelayOrder
<1>4. \A o : Quoting(ask, o).minimum = o.minimum
  BY DEF Quoting
<1> DEFINE others == {[right EXCEPT !.recipient = "stranger"],
                [right EXCEPT !.amount = @ + 1],
                [right EXCEPT !.minimum = @ + 1],
                [right EXCEPT !.payment.amount = @ + 1],
                [right EXCEPT !.deposit.program = "stranger"],
                [right EXCEPT !.deposit.account = "stranger"],
                [right EXCEPT !.deposit.account = "payer"],
                [right EXCEPT !.deposit.amount = @ + 1],
                [right EXCEPT !.deposit.order = RelayOrderId([right.order EXCEPT !.minimum = 0])]}
<1>5. \/ a = right
      \/ \E o \in orders : a = Quoting(ask, o)
      \/ \E o \in orders : a = [right EXCEPT !.order = o]
      \/ a \in others
      \/ \E o \in orders :
           a = [right EXCEPT !.orderId = RelayOrderId(o), !.deposit.order = RelayOrderId(o)]
  BY DEF RelayAnswers
<1> HIDE DEF orders
<1>6. a \in others => a.minimum \in {right.minimum, right.minimum + 1}
  <2> HIDE DEF right
  <2> QED BY <1>3
<1>7. ASSUME NEW o \in orders
      PROVE  /\ [right EXCEPT !.order = o].minimum = right.minimum
             /\ [right EXCEPT !.orderId = RelayOrderId(o),
                              !.deposit.order = RelayOrderId(o)].minimum = right.minimum
  <2> HIDE DEF right
  <2> QED BY <1>3
<1> HIDE DEF others
<1>8. CASE a = right
  BY <1>3, <1>8
<1>9. CASE \E o \in orders : a = Quoting(ask, o)
  BY <1>2, <1>4, <1>9
<1>10. CASE \E o \in orders : a = [right EXCEPT !.order = o]
  <2> HIDE DEF right
  <2> QED BY <1>3, <1>7, <1>10
<1>11. CASE a \in others
  <2> HIDE DEF right
  <2> QED BY <1>3, <1>6, <1>11
<1>12. CASE \E o \in orders :
              a = [right EXCEPT !.orderId = RelayOrderId(o), !.deposit.order = RelayOrderId(o)]
  <2> HIDE DEF right
  <2> QED BY <1>3, <1>7, <1>12
<1> QED BY <1>5, <1>8, <1>9, <1>10, <1>11, <1>12

LEMMA QuoteDepositStep ==
  ASSUME Core, QuoteDeposit
  PROVE  Core'
<1>1. /\ phase = "asked" /\ order.action = "deposit" /\ phase' = "quoted"
      /\ UNCHANGED <<order, chain, changed>>
  BY DEF QuoteDeposit, Asked, Quoted
<1>2. PICK answer \in RelayAnswers(Bridge) :
        quote' = [Seen(<<1>>) EXCEPT !.total = order.amount, !.promise = answer.minimum,
                                      !.relay = answer]
  BY DEF QuoteDeposit, Quoted
<1>3. 1 \in DOMAIN chain.accounts /\ order \in Order
  BY <1>1, AskedFacts
<1>4. /\ DOMAIN quote' = QuoteFields /\ quote'.seen = chain.accounts
      /\ quote'.receiving = chain.receiving /\ quote'.picked = <<1>>
      /\ quote'.total = order.amount /\ quote'.promise = answer.minimum
      /\ quote'.relay = answer
  BY <1>2 DEF Seen, NoQuote, QuoteFields
<1>5. Sighted(quote') /\ Fits(quote', chain) /\ Untouched(quote', chain)
  BY <1>1, <1>3, <1>4, OneIsSighted
<1>6. answer.minimum \in Nat
  <2>1. Bridge.minimum \in Nat
    BY <1>3 DEF Bridge, Ask, Order
  <2> DEFINE ask == Bridge
  <2> HIDE DEF ask
  <2>2. answer \in RelayAnswers(ask) /\ ask.minimum \in Nat
    BY <2>1 DEF ask
  <2> QED BY <2>2, AnswersNameAnAmount
<1>7. Offer(order, quote')
  BY <1>1, <1>4, <1>6 DEF Offer, Closing
<1> QED BY <1>1, <1>5, <1>7, LeadsToOffer

-----------------------------------------------------------------------------
LEMMA SearchMaxStep ==
  ASSUME Core, SearchMax
  PROVE  Core'
<1>1. phase = "searching" /\ phase' = phase /\ quote' = quote /\ UNCHANGED <<order, chain, changed>>
  BY DEF SearchMax, At
<1>2. /\ Sighted(quote) /\ Fits(quote, chain) /\ (changed = "no" => Untouched(quote, chain))
      /\ order.action = "send" /\ SendSearch(quote)
  BY <1>1 DEF Core, SeenInv, Working, OfferInv
<1> QED BY <1>1, <1>2, LeadsToOffer

(* A quote of a Send is simulated, and goes through.                       *)
LEMMA SendQuotedStep ==
  ASSUME MaxInv, Core, SendQuoted
  PROVE  Core'
<1> DEFINE amount == IF order.max THEN low ELSE order.amount
           fee == CalculateSendServiceFee(amount)
           m == BuildSendTransaction(quote'.amount, quote'.reimbursement, quote'.serviceFee,
                                     quote'.receiving # "absent")
<1>1. /\ phase = "searching" /\ order.action = "send" /\ UNCHANGED <<order, chain, changed>>
      /\ quote' = [quote EXCEPT !.amount = amount, !.serviceFee = fee,
                      !.total = amount + quote.reimbursement + fee]
      /\ quote'.total <= quote'.seen[1].amount
      /\ phase' = IF Succeeds(m, chain, 0) THEN "quoted" ELSE "refused"
  BY DEF SendQuoted, At, FinishSendQuote, SendQuote
<1>2. /\ Sighted(quote) /\ Fits(quote, chain) /\ (changed = "no" => Untouched(quote, chain))
      /\ SendSearch(quote) /\ order \in Order /\ chain \in Chain
  BY <1>1, SettlementAssumption DEF Core, ChainInv, SeenInv, Working, OfferInv
<1>3. amount \in Nat
  <2>1. order.max => low \in Nat
    BY <1>1 DEF MaxInv, SendMax, Narrowing
  <2>2. order.amount \in Nat
    BY <1>2 DEF Order
  <2> QED BY <2>1, <2>2
<1>4. fee \in Nat
  BY <1>3, SendFeeGrows
<1> HIDE DEF amount, fee
<1>5. DOMAIN quote = QuoteFields
  BY <1>2 DEF Sighted
<1>6. /\ DOMAIN quote' = DOMAIN quote /\ quote'.seen = quote.seen
      /\ quote'.receiving = quote.receiving /\ quote'.picked = quote.picked
      /\ quote'.amount = amount /\ quote'.serviceFee = fee
      /\ quote'.total = amount + quote.reimbursement + fee
      /\ quote'.reimbursement = quote.reimbursement
      /\ quote'.network = quote.network /\ quote'.rent = quote.rent
  BY <1>1, <1>5 DEF QuoteFields, NoQuote
<1>7. /\ Sighted(quote') /\ Fits(quote', chain)
      /\ changed = "no" => Untouched(quote', chain)
  BY <1>2, <1>6, SightedStill
<1>8. SendOffer(quote')
  BY <1>1, <1>2, <1>3, <1>4, <1>6 DEF SendOffer, SendSearch, PayingQuote, OpeningRent
<1>9. Offer(order, quote')
  BY <1>1, <1>8 DEF Offer, Closing
<1>10. CASE Succeeds(m, chain, 0)
  BY <1>1, <1>7, <1>9, <1>10, LeadsToOffer
<1>11. CASE ~ Succeeds(m, chain, 0)
  <2>1. ASSUME changed = "no" PROVE FALSE
    <3> DEFINE q == quote'
               exists == q.receiving # "absent"
    <3>1. Terms(order, q)
      BY <1>1, <1>8, <1>9 DEF Terms, SendOffer, SendSearch
    <3>2. /\ Sponsored(m)
          /\ SendOps(m, q.amount, q.reimbursement, q.serviceFee, exists)
      <4>1. exists \in BOOLEAN
        OBVIOUS
      <4> HIDE DEF exists, q
      <4>2. /\ Sponsored(BuildSendTransaction(q.amount, q.reimbursement, q.serviceFee, exists))
            /\ SendOps(BuildSendTransaction(q.amount, q.reimbursement, q.serviceFee, exists),
                       q.amount, q.reimbursement, q.serviceFee, exists)
        BY <4>1, BuildSendDoes
      <4> QED BY <4>2 DEF q, exists
    <3> HIDE DEF m
    <3>3. Does(order, q, m) /\ m.signers[1] = "payer"
      BY <1>1, <3>2 DEF Does, Sponsored
    <3>4. Sighted(q) /\ Untouched(q, chain)
      BY <1>7, <2>1
    <3> HIDE DEF q
    <3>5. Succeeds(m, chain, 0)
      BY <1>1, <1>2, <3>1, <3>3, <3>4, Allowed
    <3> QED BY <1>11, <3>5
  <2> QED BY <1>1, <1>11, <2>1, LeadsToRefusal
<1> QED BY <1>10, <1>11

LEMMA RouteSwapStep ==
  ASSUME Core, RouteSwap
  PROVE  Core'
<1>1. phase = "routing" /\ order.action = "swap" /\ UNCHANGED <<order, chain, changed>>
  BY DEF RouteSwap, At
<1>2. PICK fee \in FeeAnswers :
        LET exact == CalculateSponsorReimbursement(fee + quote.rent)
        IN  \/ /\ exact = quote.reimbursement
               /\ quote' = [quote EXCEPT !.network = fee, !.amount = Routed(quote)]
               /\ phase' = "quoted"
            \/ /\ quote' = [quote EXCEPT !.reimbursement = exact, !.attempt = quote.attempt + 1]
               /\ phase' = phase
  BY DEF RouteSwap, Quoted
<1> DEFINE exact == CalculateSponsorReimbursement(fee + quote.rent)
<1>3. /\ Sighted(quote) /\ Fits(quote, chain) /\ (changed = "no" => Untouched(quote, chain))
      /\ SwapRouting(quote) /\ chain \in Chain
  BY <1>1 DEF Core, ChainInv, SeenInv, Working, OfferInv
<1>4. fee \in Nat
  BY <1>3, ChainFacts, FeeAnswersFacts
<1>5. quote.rent \in Nat
  BY <1>3, RentIsAmount DEF SwapRouting, PayingQuote
<1>6. exact \in Nat
  <2>1. fee + quote.rent \in Nat
    BY <1>4, <1>5
  <2> QED BY <2>1, ReimbursementCovers
<1>7. DOMAIN quote = QuoteFields
  BY <1>3 DEF Sighted
<1>8. CASE /\ exact = quote.reimbursement
           /\ quote' = [quote EXCEPT !.network = fee, !.amount = Routed(quote)]
           /\ phase' = "quoted"
  <2> HIDE DEF exact
  <2>1. /\ DOMAIN quote' = DOMAIN quote /\ quote'.seen = quote.seen
        /\ quote'.receiving = quote.receiving /\ quote'.picked = quote.picked
        /\ quote'.amount = Routed(quote) /\ quote'.network = fee
        /\ quote'.serviceFee = quote.serviceFee /\ quote'.rent = quote.rent
        /\ quote'.total = quote.total /\ quote'.threshold = quote.threshold
        /\ quote'.reimbursement = exact /\ quote.reimbursement = exact
    BY <1>7, <1>8 DEF QuoteFields, NoQuote
  <2>2. /\ Sighted(quote') /\ Fits(quote', chain)
        /\ changed = "no" => Untouched(quote', chain)
    BY <1>3, <2>1, SightedStill
  <2>3. SwapRouting(quote')
    BY <1>3, <2>1 DEF SwapRouting, PayingQuote, OpeningRent
  <2>4. SwapOffer(quote')
    BY <1>4, <2>1, <2>3 DEF SwapOffer, Routed, exact
  <2>5. Offer(order, quote')
    BY <1>1, <2>4 DEF Offer, Closing
  <2> QED BY <1>1, <1>8, <2>2, <2>5, LeadsToOffer
<1>9. CASE /\ quote' = [quote EXCEPT !.reimbursement = exact, !.attempt = quote.attempt + 1]
           /\ phase' = phase
  <2> HIDE DEF exact
  <2>1. /\ DOMAIN quote' = DOMAIN quote /\ quote'.seen = quote.seen
        /\ quote'.receiving = quote.receiving /\ quote'.picked = quote.picked
        /\ quote'.serviceFee = quote.serviceFee /\ quote'.rent = quote.rent
        /\ quote'.total = quote.total /\ quote'.threshold = quote.threshold
        /\ quote'.reimbursement = exact
    BY <1>7, <1>9 DEF QuoteFields, NoQuote
  <2>2. /\ Sighted(quote') /\ Fits(quote', chain)
        /\ changed = "no" => Untouched(quote', chain)
    BY <1>3, <2>1, SightedStill
  <2>3. SwapRouting(quote')
    BY <1>3, <1>6, <2>1 DEF SwapRouting, PayingQuote, OpeningRent
  <2> QED BY <1>1, <1>9, <2>2, <2>3, LeadsToOffer
<1> QED BY <1>2, <1>8, <1>9

-----------------------------------------------------------------------------
LEMMA QuotedFacts ==
  ASSUME Core, phase = "quoted"
  PROVE  /\ Sighted(quote) /\ Fits(quote, chain) /\ (changed = "no" => Untouched(quote, chain))
         /\ Offer(order, quote) /\ chain \in Chain /\ order \in Order
         /\ DOMAIN quote = QuoteFields
<1>1. Sighted(quote) /\ Fits(quote, chain) /\ (changed = "no" => Untouched(quote, chain))
  BY DEF Core, SeenInv, Working
<1>2. Offer(order, quote) /\ chain \in Chain /\ order \in Order
  BY SettlementAssumption DEF Core, OfferInv, ChainInv
<1> QED BY <1>1, <1>2 DEF Sighted

(* A prepared message is agreed on, unless somebody changed the chain.     *)
LEMMA PreparedStep ==
  ASSUME Core, phase = "quoted", UNCHANGED <<order, chain, changed>>, NEW q, NEW m,
         Prepared(q, m), DOMAIN q = DOMAIN quote, q.seen = quote.seen,
         q.receiving = quote.receiving, q.picked = quote.picked,
         Terms(order, q), Does(order, q, m), Sponsored(m), order.action # "deposit"
  PROVE  Core'
<1>1. /\ quote' = q /\ message' = m
      /\ phase' = IF Succeeds(m, chain, q.threshold) THEN "prepared" ELSE "refused"
  BY DEF Prepared
<1>2. chain \in Chain /\ order \in Order
  BY QuotedFacts
<1>3. /\ Sighted(q) /\ Fits(q, chain)
      /\ changed = "no" => Untouched(q, chain)
  BY QuotedFacts, SightedStill
<1>4. Proper(m) /\ m.signers[1] = "payer" /\ Len(m.instructions) >= 3
  BY DEF Sponsored
<1>5. CASE Succeeds(m, chain, q.threshold)
  BY <1>1, <1>3, <1>4, <1>5, LeadsToAgreement
<1>6. CASE ~ Succeeds(m, chain, q.threshold)
  <2>1. ASSUME changed = "no" PROVE FALSE
    <3>1. order.action = "recover" => q.threshold \in Nat /\ q.threshold >= q.threshold
      BY DEF Terms, RecoverTerms
    <3>2. Untouched(q, chain)
      BY <1>3, <2>1
    <3> QED BY <1>2, <1>3, <1>4, <1>6, <3>1, <3>2, Allowed
  <2> QED BY <1>1, <1>6, <2>1, LeadsToRefusal
<1> QED BY <1>5, <1>6

LEMMA AddressesAreASequence ==
  ASSUME NEW q, Sighted(q)
  PROVE  Sequence(Addresses(q))
<1> DEFINE D == {Address[k] : k \in Range(q.picked)}
<1>1. Len(q.picked) \in Nat /\ DOMAIN q.picked = 1 .. Len(q.picked)
  BY SightedFacts
<1>2. \A k \in 1 .. Len(q.picked) : Address[q.picked[k]] \in D
  BY <1>1 DEF Range
<1> HIDE DEF D
<1>3. Addresses(q) \in Seq(D)
  BY <1>1, <1>2 DEF Addresses
<1> QED BY <1>3 DEF Sequence

(* What is prepared is built from the quote.                               *)
LEMMA PrepareClaimStep ==
  ASSUME Core, PrepareClaim
  PROVE  Core'
<1>1. phase = "quoted" /\ order.action = "claim" /\ UNCHANGED <<order, chain, changed>>
  BY DEF PrepareClaim, At
<1>2. PICK fee \in CompleteFees :
        /\ quote.gross - quote.serviceFee - fee >= MINIMUM_PAYOUT
        /\ Prepared([quote EXCEPT !.network = fee],
                    BuildClaimTransaction(Addresses(quote), quote.serviceFee + fee))
  BY DEF PrepareClaim
<1> DEFINE q == [quote EXCEPT !.network = fee]
           m == BuildClaimTransaction(Addresses(quote), quote.serviceFee + fee)
<1>3. Offer(order, quote) /\ Sighted(quote) /\ DOMAIN quote = QuoteFields /\ chain \in Chain
  BY <1>1, QuotedFacts
<1>4. fee \in Nat /\ fee >= PRIORITY_FEE
  BY <1>3, ChainFacts, FeeAnswersFacts DEF CompleteFees
<1>5. /\ DOMAIN q = DOMAIN quote /\ q.seen = quote.seen /\ q.receiving = quote.receiving
      /\ q.picked = quote.picked /\ q.network = fee /\ q.gross = quote.gross
      /\ q.serviceFee = quote.serviceFee /\ q.amount = quote.amount /\ q.promise = quote.promise
  BY <1>3 DEF QuoteFields, NoQuote
<1>6. Sponsored(m) /\ ClaimOps(m, Addresses(quote), quote.serviceFee + fee)
  BY <1>3, AddressesAreASequence, BuildClaimDoes
<1>7. Prepared(q, m)
  BY <1>2
<1> HIDE DEF q, m
<1>8. Addresses(q) = Addresses(quote)
  BY <1>5 DEF Addresses
<1>9. Does(order, q, m)
  BY <1>1, <1>5, <1>6, <1>8 DEF Does
<1>10. ClaimTerms(q)
  BY <1>2, <1>4, <1>5 DEF ClaimTerms
<1>11. ClosingQuote(order, q)
  BY <1>1, <1>3, <1>5 DEF Offer, Closing, ClosingQuote
<1>12. Offer(order, q)
  BY <1>1, <1>3, <1>5, <1>11 DEF Offer
<1>13. Terms(order, q)
  BY <1>1, <1>4, <1>5, <1>10, <1>12 DEF Terms
<1> QED BY <1>1, <1>5, <1>6, <1>7, <1>9, <1>13, PreparedStep

LEMMA PrepareBurnStep ==
  ASSUME Core, PrepareBurn
  PROVE  Core'
<1>1. phase = "quoted" /\ order.action = "burn" /\ UNCHANGED <<order, chain, changed>>
  BY DEF PrepareBurn, At
<1>2. PICK fee \in CompleteFees :
        /\ quote.gross - quote.serviceFee - fee >= MINIMUM_PAYOUT
        /\ Prepared([quote EXCEPT !.network = fee,
                                  !.promise = quote.gross - quote.serviceFee - fee],
                    BuildBurnTransaction(Addresses(quote)[1], quote.amount,
                                         quote.serviceFee + fee))
  BY DEF PrepareBurn
<1> DEFINE q == [quote EXCEPT !.network = fee,
                              !.promise = quote.gross - quote.serviceFee - fee]
           m == BuildBurnTransaction(Addresses(quote)[1], quote.amount, quote.serviceFee + fee)
<1>3. Offer(order, quote) /\ DOMAIN quote = QuoteFields /\ chain \in Chain
  BY <1>1, QuotedFacts
<1>4. fee \in Nat /\ fee >= PRIORITY_FEE
  BY <1>3, ChainFacts, FeeAnswersFacts DEF CompleteFees
<1>5. /\ DOMAIN q = DOMAIN quote /\ q.seen = quote.seen /\ q.receiving = quote.receiving
      /\ q.picked = quote.picked /\ q.network = fee /\ q.gross = quote.gross
      /\ q.serviceFee = quote.serviceFee /\ q.amount = quote.amount
      /\ q.promise = quote.gross - quote.serviceFee - fee
  BY <1>3 DEF QuoteFields, NoQuote
<1>6. /\ Sponsored(m)
      /\ BurnOps(m, Addresses(quote)[1], quote.amount, quote.serviceFee + fee)
  BY BuildBurnDoes
<1>7. Prepared(q, m)
  BY <1>2
<1> HIDE DEF q, m
<1>8. Addresses(q) = Addresses(quote)
  BY <1>5 DEF Addresses
<1>9. Does(order, q, m)
  BY <1>1, <1>5, <1>6, <1>8 DEF Does
<1>10. BurnTerms(q)
  BY <1>2, <1>4, <1>5 DEF BurnTerms, ClaimTerms
<1>11. ClosingQuote(order, q)
  BY <1>1, <1>3, <1>5 DEF Offer, Closing, ClosingQuote
<1>12. Offer(order, q)
  BY <1>1, <1>3, <1>5, <1>11 DEF Offer
<1>13. Terms(order, q)
  BY <1>1, <1>4, <1>5, <1>10, <1>12 DEF Terms
<1> QED BY <1>1, <1>5, <1>6, <1>7, <1>9, <1>13, PreparedStep

LEMMA PrepareRecoverStep ==
  ASSUME Core, PrepareRecover
  PROVE  Core'
<1>1. /\ phase = "quoted" /\ order.action = "recover" /\ UNCHANGED <<order, chain, changed>>
      /\ chain.receiving = quote.receiving
  BY DEF PrepareRecover, At
<1>2. PICK threshold \in FreshThresholds, fee \in CompleteFees :
        LET rent == ReceivingRent
            q == [quote EXCEPT !.threshold = threshold, !.network = fee, !.rent = rent,
                               !.serviceFee = CalculateRecoverFees(threshold, quote.gross)]
        IN  /\ RecoverPayout(q) >= MINIMUM_PAYOUT
            /\ Prepared(q, BuildRecoverTransaction(Addresses(q)[1], q.amount,
                               q.serviceFee + fee + rent, chain.receiving = "absent"))
  BY DEF PrepareRecover
<1> DEFINE q == [quote EXCEPT !.threshold = threshold, !.network = fee, !.rent = ReceivingRent,
                              !.serviceFee = CalculateRecoverFees(threshold, quote.gross)]
           m == BuildRecoverTransaction(Addresses(q)[1], q.amount,
                    q.serviceFee + fee + ReceivingRent, chain.receiving = "absent")
<1>3. /\ Offer(order, quote) /\ Sighted(quote) /\ DOMAIN quote = QuoteFields /\ chain \in Chain
      /\ order \in Order
  BY <1>1, QuotedFacts
<1>4. fee \in Nat /\ fee >= PRIORITY_FEE
  BY <1>3, ChainFacts, FeeAnswersFacts DEF CompleteFees
<1>5. /\ DOMAIN q = DOMAIN quote /\ q.seen = quote.seen /\ q.receiving = quote.receiving
      /\ q.picked = quote.picked /\ q.network = fee /\ q.gross = quote.gross
      /\ q.serviceFee = CalculateRecoverFees(threshold, quote.gross)
      /\ q.amount = quote.amount /\ q.promise = quote.promise
      /\ q.threshold = threshold /\ q.rent = ReceivingRent
  BY <1>3 DEF QuoteFields, NoQuote
<1>6. RecoverPayout(q) >= MINIMUM_PAYOUT /\ Prepared(q, m)
  BY <1>2
<1>7. /\ Sponsored(m)
      /\ RecoverOps(m, Addresses(q)[1], q.amount, q.serviceFee + fee + ReceivingRent,
                    chain.receiving = "absent")
  <2> DEFINE setup == chain.receiving = "absent"
             a == Addresses(q)[1]
             y == q.amount
             x == q.serviceFee + fee + ReceivingRent
  <2>1. setup \in BOOLEAN
    OBVIOUS
  <2> HIDE DEF setup, a, y, x
  <2>2. /\ Sponsored(BuildRecoverTransaction(a, y, x, setup))
        /\ RecoverOps(BuildRecoverTransaction(a, y, x, setup), a, y, x, setup)
    BY <2>1, BuildRecoverDoes
  <2> QED BY <2>2 DEF setup, a, y, x
<1> HIDE DEF q, m
<1>8. threshold \in Nat
  <2>1. order.threshold \in Nat /\ ROUTE_DRIFT \in Nat
    BY <1>3, SettlementAssumption DEF Order
  <2> QED BY <2>1 DEF FreshThresholds
<1>9. quote.gross \in Nat
  <2>1. ClosingQuote(order, quote)
    BY <1>1, <1>3 DEF Offer, Closing
  <2> DEFINE k == quote.picked[1]
             f == Lamports(quote.seen)
  <2>2. k \in DOMAIN quote.seen /\ Range(quote.picked) = {k}
    BY <1>1, <1>3, <2>1, SingleAmount
  <2>3. f[k] \in Nat
    <3>1. quote.seen[k] \in Account
      BY <1>3, <2>2, SightedFacts
    <3> QED BY <2>2, <3>1 DEF Lamports, Account
  <2>4. quote.gross = Total(f, {k})
    BY <2>1, <2>2 DEF ClosingQuote
  <2> HIDE DEF f, k
  <2>5. Total(f, {k}) = f[k]
    BY <2>3, TotalOfOne
  <2> QED BY <2>3, <2>4, <2>5
<1>10. q.serviceFee \in Nat
  BY <1>5, <1>8, <1>9, FeeIsAmount
<1>11. q.rent = OpeningRent(q)
  BY <1>1, <1>5 DEF OpeningRent, ReceivingRent
<1>12. Does(order, q, m)
  BY <1>1, <1>5, <1>7 DEF Does
<1>13. RecoverTerms(q)
  BY <1>4, <1>5, <1>6, <1>8, <1>11 DEF RecoverTerms
<1>14. ClosingQuote(order, q)
  BY <1>1, <1>3, <1>5, <1>10 DEF Offer, Closing, ClosingQuote
<1>15. Offer(order, q)
  BY <1>1, <1>3, <1>5, <1>14 DEF Offer
<1>16. Terms(order, q)
  BY <1>1, <1>4, <1>5, <1>13, <1>15 DEF Terms
<1> QED BY <1>1, <1>5, <1>6, <1>7, <1>12, <1>16, PreparedStep

LEMMA PrepareSendStep ==
  ASSUME Core, PrepareSend
  PROVE  Core'
<1> DEFINE exists == quote.receiving # "absent"
           m == BuildSendTransaction(quote.amount, quote.reimbursement, quote.serviceFee, exists)
<1>1. /\ phase = "quoted" /\ order.action = "send" /\ UNCHANGED <<order, chain, changed>>
      /\ Prepared(quote, m)
  BY DEF PrepareSend, At
<1>2. Offer(order, quote)
  BY <1>1, QuotedFacts
<1>3. /\ Sponsored(m)
      /\ SendOps(m, quote.amount, quote.reimbursement, quote.serviceFee, exists)
  <2>1. exists \in BOOLEAN
    OBVIOUS
  <2> HIDE DEF exists
  <2> QED BY <2>1, BuildSendDoes
<1> HIDE DEF m
<1>4. Does(order, quote, m)
  BY <1>1, <1>3 DEF Does
<1>5. Terms(order, quote)
  BY <1>1, <1>2 DEF Terms, Offer, SendOffer, SendSearch
<1> QED BY <1>1, <1>3, <1>4, <1>5, PreparedStep

LEMMA PrepareSwapStep ==
  ASSUME Core, PrepareSwap
  PROVE  Core'
<1> DEFINE exists == quote.receiving # "absent"
           m == BuildSwapTransaction(Address[1], quote.amount, quote.reimbursement,
                                     quote.serviceFee, exists)
<1>1. /\ phase = "quoted" /\ order.action = "swap" /\ UNCHANGED <<order, chain, changed>>
      /\ Prepared(quote, m)
  BY DEF PrepareSwap, At
<1>2. Offer(order, quote)
  BY <1>1, QuotedFacts
<1>3. /\ Sponsored(m)
      /\ SwapOps(m, Address[1], quote.amount, quote.reimbursement, quote.serviceFee, exists)
  <2>1. exists \in BOOLEAN
    OBVIOUS
  <2> HIDE DEF exists
  <2> QED BY <2>1, BuildSwapDoes
<1> HIDE DEF m
<1>4. Does(order, quote, m)
  BY <1>1, <1>3 DEF Does
<1>5. Terms(order, quote)
  BY <1>1, <1>2 DEF Terms, Offer, SwapOffer
<1> QED BY <1>1, <1>3, <1>4, <1>5, PreparedStep

(* A deposit that the simulation would show moves what it is for.          *)
LEMMA DepositIsAllowed ==
  ASSUME NEW q, NEW m, order \in Order, chain \in Chain, order.action = "deposit",
         Sighted(q), Terms(order, q), Does(order, q, m), m.signers[1] = "payer",
         Fits(q, chain), Untouched(q, chain), Funded(order, q)
  PROVE  DepositMoves(m) /\ PayerDelta(m, chain) = -q.network
<1>1. Succeeds(m, chain, 0)
  BY Allowed
<1> DEFINE r == Receipt(m, chain, 0)
<1>2. /\ Bears(order, q, m)
      /\ r.payer = - r.fee - (IF Opens(order, q) /\ chain.receiving = "absent"
                                     THEN ATA_RENT ELSE 0)
      /\ r.fee = BASE_FEE
      /\ r.payer = PayerDelta(m, chain)
      /\ Debit(m, 1) = IF Source(order, q) = 1 THEN Debited(order, q) ELSE 0
  BY Lands
<1> HIDE DEF r
<1>3. AmountTo(m, "deposit", "vault") = order.amount
  BY <1>2 DEF Bears
<1>4. q.total = order.amount /\ q.network = BASE_FEE
  BY DEF Terms, Offer, DepositTerms
<1>5. Debit(m, 1) = order.amount
  BY <1>2, <1>4 DEF Source, Debited
<1>6. PayerDelta(m, chain) = - q.network
  <2>1. r.payer = - BASE_FEE - 0
    BY <1>2 DEF Opens
  <2>2. BASE_FEE \in Nat
    BY LedgerAssumption
  <2> QED BY <1>2, <1>4, <2>1, <2>2
<1> QED BY <1>1, <1>3, <1>5, <1>6 DEF DepositMoves

LEMMA PrepareDepositStep ==
  ASSUME Core, PrepareDeposit
  PROVE  Core'
<1> DEFINE i == quote.relay.deposit
           m == SponsorSigned(BuildDeposit(i))
<1>1. /\ phase = "quoted" /\ order.action = "deposit" /\ UNCHANGED <<order, chain, changed>>
      /\ ValidateRelayTransaction(quote.relay, Bridge)
      /\ InspectSendTokenAccount(chain.accounts[1]) /\ chain.accounts[1].amount >= order.amount
      /\ BASE_FEE <= MAXIMUM_SPONSORED_COST
      /\ quote' = [quote EXCEPT !.network = BASE_FEE]
      /\ message' = m
      /\ phase' = IF DepositMoves(m) THEN "prepared" ELSE "refused"
  BY DEF PrepareDeposit, At
<1>2. /\ Sighted(quote) /\ Fits(quote, chain) /\ (changed = "no" => Untouched(quote, chain))
      /\ Offer(order, quote) /\ chain \in Chain /\ order \in Order
      /\ DOMAIN quote = QuoteFields
  BY <1>1, QuotedFacts
<1> DEFINE q == quote'
<1>3. /\ DOMAIN q = DOMAIN quote /\ q.seen = quote.seen /\ q.receiving = quote.receiving
      /\ q.picked = quote.picked /\ q.network = BASE_FEE /\ q.relay = quote.relay
      /\ q.total = quote.total /\ q.promise = quote.promise
  BY <1>1, <1>2 DEF QuoteFields, NoQuote
<1>4. i.op = "deposit"
  BY <1>1 DEF ValidateRelayTransaction, AssertInstruction, Deposit
<1>5. Proper(m) /\ m.signers = <<"payer", "wallet">> /\ DepositOps(m, i)
  BY <1>4, BuildDepositDoes
<1> HIDE DEF i, m
<1>6. Does(order, q, m) /\ m.signers[1] = "payer"
  BY <1>1, <1>3, <1>5 DEF Does, i
<1>7. DepositTerms(order, q)
  BY <1>1, <1>3 DEF DepositTerms, Bridge
<1>8. Offer(order, q)
  BY <1>1, <1>2, <1>3 DEF Offer, Closing
<1>9. Terms(order, q)
  BY <1>1, <1>3, <1>7, <1>8, LedgerAssumption DEF Terms
<1>10. /\ Sighted(q) /\ Fits(q, chain)
       /\ changed = "no" => Untouched(q, chain)
  BY <1>2, <1>3, SightedStill
<1>11. changed = "no" => Funded(order, q)
  BY <1>1, <1>10 DEF Funded, Untouched
<1>12. CASE DepositMoves(m)
  BY <1>1, <1>5, <1>6, <1>9, <1>10, <1>11, <1>12, LeadsToAgreement
<1>13. CASE ~ DepositMoves(m)
  <2>1. ASSUME changed = "no" PROVE FALSE
    <3> HIDE DEF q
    <3>1. Untouched(q, chain) /\ Funded(order, q)
      BY <1>10, <1>11, <2>1
    <3> QED BY <1>1, <1>2, <1>6, <1>9, <1>10, <1>13, <3>1, DepositIsAllowed
  <2> QED BY <1>1, <1>13, <2>1, LeadsToRefusal
<1> QED BY <1>12, <1>13

-----------------------------------------------------------------------------
LEMMA AgreedFacts ==
  ASSUME Core, phase \in {"prepared", "approved", "submitted"}
  PROVE  /\ Sighted(quote) /\ Fits(quote, chain) /\ (changed = "no" => Untouched(quote, chain))
         /\ Terms(order, quote) /\ chain \in Chain /\ order \in Order
         /\ Proper(message) /\ message.signers[1] = "payer" /\ Does(order, quote, message)
         /\ order.action = "deposit" /\ changed = "no" => Funded(order, quote)
         /\ phase # "submitted" /\ order.action # "deposit" => Len(message.instructions) >= 3
<1>1. Sighted(quote) /\ Fits(quote, chain) /\ (changed = "no" => Untouched(quote, chain))
  BY DEF Core, SeenInv, Working
<1>2. Terms(order, quote) /\ chain \in Chain /\ order \in Order
  BY SettlementAssumption DEF Core, OfferInv, ChainInv, Agreed
<1>3. /\ Proper(message) /\ message.signers[1] = "payer" /\ Does(order, quote, message)
      /\ order.action = "deposit" /\ changed = "no" => Funded(order, quote)
      /\ phase # "submitted" /\ order.action # "deposit" => Len(message.instructions) >= 3
  BY DEF Core, MessageInv, Agreed
<1> QED BY <1>1, <1>2, <1>3

(* Approval is of a payout that is no less than its preview.               *)
LEMMA ApproveStep ==
  ASSUME Core, Approve
  PROVE  Core'
<1>1. /\ phase = "prepared" /\ phase' = "approved"
      /\ UNCHANGED <<order, chain, quote, message, changed>>
      /\ order.action = "recover" => ~ RecoverHasEconomicDownside
  BY DEF Approve
<1>2. /\ Sighted(quote) /\ Fits(quote, chain) /\ (changed = "no" => Untouched(quote, chain))
      /\ Terms(order, quote) /\ chain \in Chain /\ order \in Order
      /\ Proper(message) /\ message.signers[1] = "payer" /\ Does(order, quote, message)
      /\ order.action = "deposit" /\ changed = "no" => Funded(order, quote)
      /\ order.action # "deposit" => Len(message.instructions) >= 3
  BY <1>1, AgreedFacts
<1>3. order.action = "recover" => RecoverPayout(quote) >= quote.promise
  <2> SUFFICES ASSUME order.action = "recover" PROVE RecoverPayout(quote) >= quote.promise
    OBVIOUS
  <2>1. /\ ClosingQuote(order, quote) /\ quote.serviceFee \in Nat /\ quote.network \in Nat
        /\ quote.threshold \in Nat /\ quote.promise \in Int
    BY <1>2 DEF Terms, Offer, Closing, RecoverTerms, ClosingQuote
  <2>2. quote.gross \in Int
    <3>1. Closing(order)
      BY DEF Closing
    <3> QED BY <1>2, <2>1, <3>1, HeldGrows
  <2> DEFINE p == RecoverPayout(quote)
  <2>3. p \in Int
    BY <2>1, <2>2 DEF RecoverPayout
  <2>4. ~ (p < quote.promise)
    BY <1>1 DEF RecoverHasEconomicDownside
  <2> HIDE DEF p
  <2>5. p >= quote.promise
    BY <2>1, <2>3, <2>4
  <2> QED BY <2>5 DEF p
<1> QED BY <1>1, <1>2, <1>3, LeadsToAgreement

-----------------------------------------------------------------------------
(* What counts is what a message does.                                     *)
LEMMA DoesTheSame ==
  ASSUME NEW o \in Order, NEW q, NEW p, NEW r, Does(o, q, p), SameOps(p, r)
  PROVE  Does(o, q, r)
<1>1. \A op \in Effects : Ops(r, op) = Ops(p, op)
  BY DEF SameOps
<1>2. /\ "price" \in Effects /\ "close" \in Effects /\ "transfer" \in Effects
      /\ "pay" \in Effects /\ "burn" \in Effects /\ "swap" \in Effects
      /\ "unwrap" \in Effects /\ "create" \in Effects /\ "deposit" \in Effects
  BY DEF Effects
<1>3. CASE o.action = "claim"
  <2>1. ClaimOps(p, Addresses(q), q.serviceFee + q.network)
    BY <1>3 DEF Does
  <2>2. ClaimOps(r, Addresses(q), q.serviceFee + q.network)
    BY <1>1, <1>2, <2>1 DEF ClaimOps
  <2> QED BY <1>3, <2>2 DEF Does
<1>4. CASE o.action = "burn"
  <2>1. BurnOps(p, Addresses(q)[1], q.amount, q.serviceFee + q.network)
    BY <1>4 DEF Does
  <2>2. BurnOps(r, Addresses(q)[1], q.amount, q.serviceFee + q.network)
    BY <1>1, <1>2, <2>1 DEF BurnOps
  <2> QED BY <1>4, <2>2 DEF Does
<1>5. CASE o.action = "recover"
  <2>1. RecoverOps(p, Addresses(q)[1], q.amount, q.serviceFee + q.network + q.rent,
                   q.receiving = "absent")
    BY <1>5 DEF Does
  <2>2. RecoverOps(r, Addresses(q)[1], q.amount, q.serviceFee + q.network + q.rent,
                   q.receiving = "absent")
    BY <1>1, <1>2, <2>1 DEF RecoverOps
  <2> QED BY <1>5, <2>2 DEF Does
<1>6. CASE o.action = "send"
  <2>1. SendOps(p, q.amount, q.reimbursement, q.serviceFee, q.receiving # "absent")
    BY <1>6 DEF Does
  <2>2. SendOps(r, q.amount, q.reimbursement, q.serviceFee, q.receiving # "absent")
    BY <1>1, <1>2, <2>1 DEF SendOps
  <2> QED BY <1>6, <2>2 DEF Does
<1>7. CASE o.action = "swap"
  <2>1. SwapOps(p, Address[1], q.amount, q.reimbursement, q.serviceFee,
                q.receiving # "absent")
    BY <1>7 DEF Does
  <2>2. SwapOps(r, Address[1], q.amount, q.reimbursement, q.serviceFee,
                q.receiving # "absent")
    BY <1>1, <1>2, <2>1 DEF SwapOps
  <2> QED BY <1>7, <2>2 DEF Does
<1>8. CASE o.action = "deposit"
  <2>1. DepositOps(p, q.relay.deposit)
    BY <1>8 DEF Does
  <2>2. DepositOps(r, q.relay.deposit)
    BY <1>1, <1>2, <2>1 DEF DepositOps
  <2> QED BY <1>8, <2>2 DEF Does
<1> QED BY <1>3, <1>4, <1>5, <1>6, <1>7, <1>8 DEF Order, Actions

(* A message that is the prepared one, but for what a server may accept.   *)
LEMMA AcceptedDoes ==
  ASSUME Core, phase = "approved", order.action # "deposit",
         NEW returned \in WalletReturns(message),
         ValidatePhantomCompatibleTransaction(message, returned),
         returned.signers[1] = "payer"
  PROVE  LET m == [returned EXCEPT !.payerSigned = TRUE]
         IN  /\ Proper(returned) /\ Does(order, quote, returned)
             /\ Proper(m) /\ Does(order, quote, m) /\ m.signers[1] = "payer"
<1> DEFINE m == [returned EXCEPT !.payerSigned = TRUE]
<1>1. /\ Proper(message) /\ Does(order, quote, message) /\ order \in Order
      /\ Len(message.instructions) >= 3
  BY AgreedFacts
<1>2. Proper(returned)
  BY <1>1, ReturnedIsProper
<1>3. SameOps(message, returned)
  BY <1>1, <1>2, ReturnedDoesTheSame
<1>4. Does(order, quote, returned)
  BY <1>1, <1>3, DoesTheSame
<1>5. /\ DOMAIN m = DOMAIN returned /\ m.instructions = returned.instructions
      /\ m.signers = returned.signers
  BY <1>2 DEF Proper, MessageFields
<1> HIDE DEF m
<1>6. Proper(m)
  BY <1>2, <1>5 DEF Proper
<1>7. SameOps(returned, m)
  BY <1>5 DEF SameOps, Ops
<1>8. Does(order, quote, m)
  BY <1>1, <1>4, <1>7, DoesTheSame
<1> QED BY <1>2, <1>4, <1>5, <1>6, <1>8 DEF m

(* The final simulation, of a message that was accepted.                   *)
LEMMA SubmittedStep ==
  ASSUME Core, phase = "approved", order.action # "deposit",
         NEW returned \in WalletReturns(message),
         ValidatePhantomCompatibleTransaction(message, returned),
         returned.signers[1] = "payer", Submitted(returned),
         order.action \in {"claim", "burn", "recover", "send"} => quote.network = chain.fee,
         order.action \in {"claim", "burn"} => quote.network <= MAXIMUM_NETWORK_FEE,
         Rechecked(order, quote, chain)
  PROVE  Core'
<1> DEFINE m == [returned EXCEPT !.payerSigned = TRUE]
<1>1. /\ message' = m /\ UNCHANGED <<order, chain, quote, changed>>
      /\ phase' = IF Succeeds(returned, chain, quote.threshold) THEN "submitted" ELSE "refused"
  BY DEF Submitted
<1>2. /\ Proper(returned) /\ Does(order, quote, returned)
      /\ Proper(m) /\ Does(order, quote, m) /\ m.signers[1] = "payer"
  BY AcceptedDoes
<1>3. /\ Sighted(quote) /\ Fits(quote, chain) /\ (changed = "no" => Untouched(quote, chain))
      /\ Terms(order, quote) /\ chain \in Chain /\ order \in Order
  BY AgreedFacts
<1>4. order.action = "recover" => RecoverPayout(quote) >= quote.promise
  BY DEF Core, OfferInv
<1> HIDE DEF m
<1>5. CASE Succeeds(returned, chain, quote.threshold)
  BY <1>1, <1>2, <1>3, <1>4, <1>5, LeadsToAgreement
<1>6. CASE ~ Succeeds(returned, chain, quote.threshold)
  <2>1. ASSUME changed = "no" PROVE FALSE
    <3>1. order.action = "recover" =>
            quote.threshold \in Nat /\ quote.threshold >= quote.threshold
      BY <1>3 DEF Terms, RecoverTerms
    <3>2. Untouched(quote, chain)
      BY <1>3, <2>1
    <3> QED BY <1>2, <1>3, <1>6, <3>1, <3>2, Allowed
  <2> QED BY <1>1, <1>6, <2>1, LeadsToRefusal
<1> QED BY <1>5, <1>6

(* The fee the node answers is the one the quote names, if it was complete *)
(* when it was quoted.                                                     *)
LEMMA FeeIsTheChains ==
  ASSUME Core, phase = "approved", FeeIsAsQuoted,
         order.action \in {"claim", "burn", "recover", "send"}
  PROVE  quote.network = chain.fee
<1>1. Terms(order, quote) /\ chain \in Chain
  BY AgreedFacts
<1>2. quote.network \in Nat /\ quote.network >= PRIORITY_FEE
  BY <1>1 DEF Terms, Offer, ClaimTerms, BurnTerms, RecoverTerms, SendOffer, SendSearch
<1>3. quote.network \in FeeAnswers /\ chain.fee \in Nat
  BY <1>1, ChainFacts DEF FeeIsAsQuoted
<1>4. quote.network \in CompleteFees
  BY <1>2, <1>3 DEF CompleteFees
<1> QED BY <1>3, <1>4, FeeAnswersFacts

(* Whatever the wallet handed back, what is submitted does the same.       *)
LEMMA SubmitStep ==
  ASSUME Core, Submit
  PROVE  Core'
<1>1. PICK returned \in WalletReturns(message) :
        \/ SubmitClaim(returned) \/ SubmitBurn(returned) \/ SubmitRecover(returned)
        \/ SubmitSend(returned) \/ SubmitSwap(returned) \/ SubmitDeposit(returned)
  BY DEF Submit
<1>2. phase = "approved"
  BY DEF Submit
<1>3. <<"payer", "wallet">>[1] = "payer"
  OBVIOUS
<1>4. CASE SubmitClaim(returned)
  <2>1. /\ order.action = "claim" /\ AccountsUnchanged /\ FeeIsAsQuoted
        /\ quote.network <= MAXIMUM_NETWORK_FEE /\ Submitted(returned)
        /\ ValidatePhantomCompatibleTransaction(message, returned)
        /\ returned.signers[1] = "payer"
    BY <1>3, <1>4 DEF SubmitClaim, At, ValidateSignedClean
  <2>2. quote.network = chain.fee
    BY <1>2, <2>1, FeeIsTheChains
  <2>3. Rechecked(order, quote, chain)
    BY <2>1 DEF Rechecked, AccountsUnchanged
  <2> QED BY <1>2, <2>1, <2>2, <2>3, SubmittedStep
<1>5. CASE SubmitBurn(returned)
  <2>1. /\ order.action = "burn" /\ AccountsUnchanged /\ FeeIsAsQuoted
        /\ quote.network <= MAXIMUM_NETWORK_FEE /\ Submitted(returned)
        /\ ValidatePhantomCompatibleTransaction(message, returned)
        /\ returned.signers[1] = "payer"
    BY <1>3, <1>5 DEF SubmitBurn, At, ValidateSignedClean
  <2>2. quote.network = chain.fee
    BY <1>2, <2>1, FeeIsTheChains
  <2>3. Rechecked(order, quote, chain)
    BY <2>1 DEF Rechecked, AccountsUnchanged
  <2> QED BY <1>2, <2>1, <2>2, <2>3, SubmittedStep
<1>6. CASE SubmitRecover(returned)
  <2>1. /\ order.action = "recover" /\ AccountsUnchanged /\ FeeIsAsQuoted
        /\ chain.receiving = quote.receiving /\ Submitted(returned)
        /\ ValidatePhantomCompatibleTransaction(message, returned)
        /\ returned.signers[1] = "payer"
    BY <1>3, <1>6 DEF SubmitRecover, At, ValidateSignedClean
  <2>2. quote.network = chain.fee
    BY <1>2, <2>1, FeeIsTheChains
  <2>3. Rechecked(order, quote, chain)
    BY <2>1 DEF Rechecked, AccountsUnchanged
  <2> QED BY <1>2, <2>1, <2>2, <2>3, SubmittedStep
<1>7. CASE SubmitSend(returned)
  <2>1. /\ order.action = "send" /\ SendReceivingUnchanged /\ FeeIsAsQuoted
        /\ Submitted(returned)
        /\ ValidatePhantomCompatibleTransaction(message, returned)
        /\ returned.signers[1] = "payer"
    BY <1>3, <1>7 DEF SubmitSend, At, ValidateSignedSend
  <2>2. quote.network = chain.fee
    BY <1>2, <2>1, FeeIsTheChains
  <2>3. Rechecked(order, quote, chain)
    BY <2>1 DEF Rechecked, SendReceivingUnchanged, Closing
  <2> QED BY <1>2, <2>1, <2>2, <2>3, SubmittedStep
<1>8. CASE SubmitSwap(returned)
  <2>1. /\ order.action = "swap" /\ SwapRecheck /\ Submitted(returned)
        /\ ValidatePhantomCompatibleTransaction(message, returned)
        /\ returned.signers[1] = "payer"
    BY <1>8 DEF SubmitSwap, At, ValidateSignedSwap
  <2>2. Rechecked(order, quote, chain)
    BY <2>1 DEF Rechecked, SwapRecheck, Closing
  <2> QED BY <1>2, <2>1, <2>2, SubmittedStep
<1>9. CASE SubmitDeposit(returned)
  <2>1. /\ order.action = "deposit" /\ ValidateUserSigned(message, returned)
        /\ message' = returned /\ UNCHANGED <<order, chain, quote, changed>>
        /\ phase' = IF DepositMoves(returned) /\ PayerDelta(returned, chain) = -quote.network
                     THEN "submitted" ELSE "refused"
    BY <1>9 DEF SubmitDeposit, At
  <2>2. /\ Sighted(quote) /\ Fits(quote, chain) /\ (changed = "no" => Untouched(quote, chain))
        /\ Terms(order, quote) /\ chain \in Chain /\ order \in Order
        /\ Proper(message) /\ message.signers[1] = "payer" /\ Does(order, quote, message)
        /\ changed = "no" => Funded(order, quote)
    BY <1>2, <2>1, AgreedFacts
  <2>3. Proper(returned)
    BY <2>2, ReturnedIsProper
  <2>4. returned.instructions = message.instructions /\ returned.signers = message.signers
    <3>1. /\ Body(message).instructions = message.instructions
          /\ Body(message).signers = message.signers
          /\ Body(returned).instructions = returned.instructions
          /\ Body(returned).signers = returned.signers
      BY <2>2, <2>3 DEF Proper, MessageFields, Body
    <3>2. Body(message) = Body(returned)
      BY <2>1 DEF ValidateUserSigned
    <3> QED BY <3>1, <3>2
  <2>5. SameOps(message, returned)
    BY <2>4 DEF SameOps, Ops
  <2>6. Does(order, quote, returned) /\ returned.signers[1] = "payer"
    BY <2>2, <2>4, <2>5, DoesTheSame
  <2>7. Rechecked(order, quote, chain)
    BY <2>1 DEF Rechecked, Closing
  <2>8. CASE DepositMoves(returned) /\ PayerDelta(returned, chain) = -quote.network
    BY <1>2, <2>1, <2>2, <2>3, <2>6, <2>7, <2>8, LeadsToAgreement
  <2>9. CASE ~ (DepositMoves(returned) /\ PayerDelta(returned, chain) = -quote.network)
    <3>1. ASSUME changed = "no" PROVE FALSE
      <4>1. Untouched(quote, chain) /\ Funded(order, quote)
        BY <2>2, <3>1
      <4> QED BY <2>1, <2>2, <2>6, <2>9, <4>1, DepositIsAllowed
    <3> QED BY <1>2, <2>1, <2>9, <3>1, LeadsToRefusal
  <2> QED BY <2>8, <2>9
<1> QED BY <1>1, <1>4, <1>5, <1>6, <1>7, <1>8, <1>9

-----------------------------------------------------------------------------
(* The message lands on the chain as it is by then.                        *)
LEMMA LandStep ==
  ASSUME Core, Land
  PROVE  Core'
<1>1. PICK out \in {quote.threshold, quote.threshold + 1} :
        receipt' = Receipt(message, chain, out)
  BY DEF Land
<1>2. /\ phase = "submitted" /\ phase' = "landed" /\ UNCHANGED <<order, quote, changed>>
      /\ chain' = IF receipt'.ok THEN After(message, chain) ELSE chain
  BY DEF Land
<1>3. /\ Sighted(quote) /\ Fits(quote, chain) /\ (changed = "no" => Untouched(quote, chain))
      /\ Terms(order, quote) /\ chain \in Chain /\ order \in Order
      /\ message.signers[1] = "payer" /\ Does(order, quote, message)
  BY <1>2, AgreedFacts
<1>4. /\ order.action \in {"claim", "burn", "recover", "send"} => quote.network = chain.fee
      /\ order.action \in {"claim", "burn"} => quote.network <= MAXIMUM_NETWORK_FEE
      /\ changed # "late" => Rechecked(order, quote, chain)
      /\ order.action = "recover" => RecoverPayout(quote) >= quote.promise
  BY <1>2 DEF Core, SubmittedInv, OfferInv
<1>5. order.action = "recover" => quote.promise \in Int /\ quote.threshold \in Nat /\ out \in Nat
  <2>1. order.action = "recover" => quote.promise \in Int /\ quote.threshold \in Nat
    BY <1>3 DEF Terms, Offer, RecoverTerms
  <2> QED BY <2>1
<1>6. chain'.fee = chain.fee /\ DOMAIN chain' = DOMAIN chain
  BY <1>2, <1>3, AfterFacts
<1>7. Kept(order, quote, receipt')
  BY <1>1, <1>3, <1>4, <1>5, LandsKept
<1>8. Whole(order, quote, receipt', chain.fee)
  BY <1>1, <1>3, <1>4, <1>5, LandsWhole
<1>9. ChainInv'
  BY <1>2, <1>3, <1>6, ChainFacts DEF ChainInv
<1>10. LandedInv'
  BY <1>2, <1>6, <1>7, <1>8 DEF LandedInv
<1>11. MatchesInv'
  <2> SUFFICES ASSUME receipt'.ok, Expected' PROVE Matches'
    BY DEF MatchesInv
  <2>1. /\ changed # "late"
        /\ order.action = "swap" =>
             /\ quote.network = chain.fee
             /\ quote.receiving = "absent" => changed = "no"
    BY <1>2, <1>6 DEF Expected
  <2>2. Rechecked(order, quote, chain)
    BY <1>4, <2>1
  <2>3. order.action # "deposit" => quote.network = chain.fee
    BY <1>3, <1>4, <2>1 DEF Order, Actions
  <2>4. order.action = "swap" /\ quote.receiving = "absent" => chain.receiving = "absent"
    BY <1>3, <2>1 DEF Untouched
  <2>5. Agrees(order, quote, Receipt(message, chain, out), After(message, chain))
    BY <1>1, <1>3, <2>2, <2>3, <2>4, LandsAgrees
  <2>6. Agrees(order', quote', receipt', chain')
    BY <1>1, <1>2, <2>5
  <2> QED BY <1>2, <1>3, <2>6, AgreesMatches
<1>12. SeenInv' /\ OfferInv' /\ MessageInv' /\ SubmittedInv'
  BY <1>2 DEF SeenInv, Working, OfferInv, MessageInv, SubmittedInv, Agreed
<1>13. LandedReconciles' /\ NothingOfferedIsRefused'
  BY <1>2 DEF LandedReconciles, NothingOfferedIsRefused
<1> QED BY <1>2, <1>9, <1>10, <1>11, <1>12, <1>13 DEF Core

(* What somebody else does to the chain takes no lamports away.            *)
LEMMA ChangesKeep ==
  ASSUME NEW c, NEW d \in Changes(c), DOMAIN c = {"accounts", "receiving", "fee", "market"}
  PROVE  /\ DOMAIN d = DOMAIN c /\ d.fee = c.fee
         /\ c \in Chain =>
              /\ d \in Chain /\ DOMAIN d.accounts = DOMAIN c.accounts
              /\ \A k \in DOMAIN c.accounts : d.accounts[k].lamports >= c.accounts[k].lamports
<1>1. CASE \E state \in Flip(c.receiving) : d = [c EXCEPT !.receiving = state]
  <2>1. PICK state \in {"present", "absent", "frozen"} : d = [c EXCEPT !.receiving = state]
    BY <1>1 DEF Flip
  <2>2. DOMAIN d = DOMAIN c /\ d.fee = c.fee /\ d.accounts = c.accounts
    BY <2>1
  <2>3. c \in Chain => d \in Chain
    BY <2>1 DEF Chain
  <2>4. c \in Chain => \A k \in DOMAIN c.accounts : c.accounts[k].lamports \in Nat
    BY ChainFacts
  <2> QED BY <2>2, <2>3, <2>4
<1>2. CASE d = [c EXCEPT !.market = "bad"]
  <2>1. DOMAIN d = DOMAIN c /\ d.fee = c.fee /\ d.accounts = c.accounts
    BY <1>2
  <2>2. c \in Chain => d \in Chain
    BY <1>2 DEF Chain
  <2>3. c \in Chain => \A k \in DOMAIN c.accounts : c.accounts[k].lamports \in Nat
    BY ChainFacts
  <2> QED BY <2>1, <2>2, <2>3
<1>3. ASSUME NEW b, d = [c EXCEPT !.accounts = [c.accounts EXCEPT ![1] = b]],
             c \in Chain => b \in Account /\ b.lamports >= c.accounts[1].lamports
      PROVE  /\ DOMAIN d = DOMAIN c /\ d.fee = c.fee
             /\ c \in Chain =>
                  /\ d \in Chain /\ DOMAIN d.accounts = DOMAIN c.accounts
                  /\ \A k \in DOMAIN c.accounts :
                       d.accounts[k].lamports >= c.accounts[k].lamports
  <2> DEFINE s == c.accounts
             t == [s EXCEPT ![1] = b]
  <2>1. DOMAIN d = DOMAIN c /\ d.fee = c.fee /\ d.accounts = t
    BY <1>3
  <2> SUFFICES ASSUME c \in Chain
               PROVE  /\ d \in Chain /\ DOMAIN d.accounts = DOMAIN s
                      /\ \A k \in DOMAIN s : d.accounts[k].lamports >= s[k].lamports
    BY <2>1
  <2>2. /\ s \in Seq(Account) /\ Len(s) \in 1 .. Len(Address)
        /\ \A k \in DOMAIN s : s[k].lamports \in Nat
    BY ChainFacts DEF Chain
  <2>3. DOMAIN t = DOMAIN s /\ \A k \in DOMAIN s : t[k] = IF k = 1 THEN b ELSE s[k]
    <3> HIDE DEF s
    <3> QED OBVIOUS
  <2>4. Len(s) \in Nat /\ DOMAIN s = 1 .. Len(s) /\ \A k \in DOMAIN s : s[k] \in Account
    <3> HIDE DEF s
    <3> QED BY <2>2
  <2>5. t \in Seq(Account) /\ Len(t) = Len(s)
    <3> HIDE DEF s
    <3>1. \A k \in 1 .. Len(s) : t[k] \in Account
      BY <1>3, <2>3, <2>4
    <3>2. t = [k \in 1 .. Len(s) |-> t[k]]
      BY <2>3, <2>4
    <3> HIDE DEF t
    <3> QED BY <2>4, <3>1, <3>2
  <2>6. d \in Chain
    <3> HIDE DEF s, t
    <3>1. d.receiving = c.receiving /\ d.market = c.market
      BY <1>3
    <3>2. d = [c EXCEPT !.accounts = t]
      BY <1>3 DEF s, t
    <3> QED BY <2>1, <2>2, <2>5, <3>1, <3>2 DEF Chain
  <2>7. \A k \in DOMAIN s : t[k].lamports >= s[k].lamports
    <3> HIDE DEF t
    <3> QED BY <1>3, <2>2, <2>3 DEF s
  <2> QED BY <2>1, <2>3, <2>6, <2>7
<1>4. c \in Chain => /\ c.accounts[1] \in Account
                     /\ c.accounts[1].lamports \in Nat /\ c.accounts[1].amount \in Nat
  <2> SUFFICES ASSUME c \in Chain
               PROVE  /\ c.accounts[1] \in Account
                      /\ c.accounts[1].lamports \in Nat /\ c.accounts[1].amount \in Nat
    OBVIOUS
  <2>1. c.accounts \in Seq(Account) /\ Len(c.accounts) \in 1 .. Len(Address)
    BY DEF Chain
  <2>2. 1 \in DOMAIN c.accounts
    BY <2>1, LedgerAssumption
  <2> QED BY <2>2, ChainFacts
<1> DEFINE a == c.accounts[1]
<1>5. CASE d = [c EXCEPT !.accounts[1].lamports = @ + 1]
  <2> DEFINE b == [a EXCEPT !.lamports = @ + 1]
  <2>1. d = [c EXCEPT !.accounts = [c.accounts EXCEPT ![1] = b]]
    BY <1>5
  <2>2. c \in Chain => b \in Account /\ b.lamports >= a.lamports
    <3> HIDE DEF a
    <3>1. \A x \in Account : [x EXCEPT !.lamports = @ + 1] \in Account
                             /\ [x EXCEPT !.lamports = @ + 1].lamports = x.lamports + 1
                             /\ x.lamports \in Nat
      BY DEF Account
    <3> QED BY <1>4, <3>1 DEF a
  <2> HIDE DEF b
  <2> QED BY <1>3, <2>1, <2>2
<1>6. CASE d = [c EXCEPT !.accounts[1].amount = @ + 1]
  <2> DEFINE b == [a EXCEPT !.amount = @ + 1]
  <2>1. d = [c EXCEPT !.accounts = [c.accounts EXCEPT ![1] = b]]
    BY <1>6
  <2>2. c \in Chain => b \in Account /\ b.lamports >= a.lamports
    <3> HIDE DEF a
    <3>1. \A x \in Account : [x EXCEPT !.amount = @ + 1] \in Account
                             /\ [x EXCEPT !.amount = @ + 1].lamports = x.lamports
                             /\ x.lamports \in Nat
      BY DEF Account
    <3> QED BY <1>4, <3>1 DEF a
  <2> HIDE DEF b
  <2> QED BY <1>3, <2>1, <2>2
<1>7. CASE c.accounts[1].amount > 0 /\ d = [c EXCEPT !.accounts[1].amount = @ - 1]
  <2> DEFINE b == [a EXCEPT !.amount = @ - 1]
  <2>1. d = [c EXCEPT !.accounts = [c.accounts EXCEPT ![1] = b]]
    BY <1>7
  <2>2. c \in Chain => b \in Account /\ b.lamports >= a.lamports
    <3>1. a.amount > 0
      BY <1>7
    <3> HIDE DEF a
    <3>2. \A x \in Account : x.amount > 0 =>
                             /\ [x EXCEPT !.amount = @ - 1] \in Account
                             /\ [x EXCEPT !.amount = @ - 1].lamports = x.lamports
                             /\ x.lamports \in Nat
      BY DEF Account
    <3> QED BY <1>4, <3>1, <3>2 DEF a
  <2> HIDE DEF b
  <2> QED BY <1>3, <2>1, <2>2
<1>8. \/ \E state \in Flip(c.receiving) : d = [c EXCEPT !.receiving = state]
      \/ d = [c EXCEPT !.market = "bad"]
      \/ d = [c EXCEPT !.accounts[1].lamports = @ + 1]
      \/ d = [c EXCEPT !.accounts[1].amount = @ + 1]
      \/ c.accounts[1].amount > 0 /\ d = [c EXCEPT !.accounts[1].amount = @ - 1]
  BY DEF Changes
<1> HIDE DEF a
<1> QED BY <1>1, <1>2, <1>5, <1>6, <1>7, <1>8

(* Changes come from outside at any time.                                  *)
LEMMA ChangeStep ==
  ASSUME Core, Change
  PROVE  Core'
<1>1. /\ changed = "no" /\ phase \notin {"asked", "refused", "settled"}
      /\ chain' \in Changes(chain)
      /\ changed' = IF phase \in {"submitted", "landed"} THEN "late" ELSE "early"
      /\ UNCHANGED <<order, phase, quote, message, receipt, verdict>>
  BY DEF Change
<1>2. /\ DOMAIN chain = {"accounts", "receiving", "fee", "market"} /\ chain.fee \in Nat
      /\ phase \notin {"landed", "settled"} => chain \in Chain
  BY DEF Core, ChainInv
<1>3. /\ DOMAIN chain' = DOMAIN chain /\ chain'.fee = chain.fee
      /\ chain \in Chain =>
           /\ chain' \in Chain /\ DOMAIN chain'.accounts = DOMAIN chain.accounts
           /\ \A k \in DOMAIN chain.accounts :
                chain'.accounts[k].lamports >= chain.accounts[k].lamports
  BY <1>1, <1>2, ChangesKeep
<1>4. ChainInv'
  BY <1>1, <1>2, <1>3 DEF ChainInv
<1>5. SeenInv'
  <2> SUFFICES ASSUME Working PROVE Sighted(quote) /\ Fits(quote, chain')
    BY <1>1 DEF SeenInv, Working
  <2>1. Sighted(quote) /\ Fits(quote, chain) /\ chain \in Chain
    BY <1>2 DEF Core, SeenInv, Working
  <2>2. \A k \in DOMAIN quote.seen : quote.seen[k].lamports \in Nat
    <3>1. \A k \in DOMAIN quote.seen : quote.seen[k] \in Account
      BY <2>1, SightedFacts
    <3> QED BY <3>1 DEF Account
  <2>3. \A k \in DOMAIN chain.accounts :
          chain.accounts[k].lamports \in Nat /\ chain'.accounts[k].lamports \in Nat
    BY <1>3, <2>1, ChainFacts
  <2> QED BY <1>3, <2>1, <2>2, <2>3 DEF Fits
<1>6. OfferInv'
  BY <1>1 DEF Core, OfferInv, Agreed
<1>7. MessageInv'
  BY <1>1 DEF Core, MessageInv, Agreed
<1>8. SubmittedInv'
  BY <1>1, <1>3 DEF Core, SubmittedInv
<1>9. LandedInv'
  BY <1>1, <1>3 DEF Core, LandedInv
<1>10. MatchesInv'
  BY <1>1 DEF MatchesInv, Expected
<1>11. LandedReconciles' /\ NothingOfferedIsRefused'
  BY <1>1 DEF LandedReconciles, NothingOfferedIsRefused
<1>12. order' \in Orders /\ changed' \in {"no", "early", "late"}
  BY <1>1 DEF Core
<1> QED BY <1>4, <1>5, <1>6, <1>7, <1>8, <1>9, <1>10, <1>11, <1>12 DEF Core

(* Reconciliation looks at the chain right after the landing, or at one    *)
(* that was changed late.                                                  *)
LEMMA ReconcileStep ==
  ASSUME Core, Reconcile
  PROVE  Core'
<1>1. /\ phase = "landed" /\ phase' = "settled"
      /\ UNCHANGED <<order, chain, quote, message, receipt, changed>>
      /\ verdict' = IF receipt.ok /\ Matches THEN "confirmed" ELSE "failed"
  BY DEF Reconcile
<1>2. ChainInv'
  BY <1>1 DEF Core, ChainInv
<1>3. LandedInv'
  BY <1>1 DEF Core, LandedInv
<1>4. LandedReconciles'
  <2> SUFFICES ASSUME receipt'.ok, changed' # "late",
                      order'.action = "swap" =>
                        /\ quote'.network = chain'.fee
                        /\ quote'.receiving = "absent" => changed' = "no"
               PROVE  verdict' = "confirmed"
    BY DEF LandedReconciles
  <2>1. receipt.ok /\ Expected
    BY <1>1 DEF Expected
  <2>2. Matches
    BY <1>1, <2>1 DEF Core, MatchesInv
  <2> QED BY <1>1, <2>1, <2>2
<1>5. SeenInv' /\ OfferInv' /\ MessageInv' /\ SubmittedInv' /\ MatchesInv'
  BY <1>1 DEF SeenInv, Working, OfferInv, MessageInv, SubmittedInv, Agreed, MatchesInv
<1>6. NothingOfferedIsRefused'
  BY <1>1 DEF NothingOfferedIsRefused
<1> QED BY <1>1, <1>2, <1>3, <1>4, <1>5, <1>6 DEF Core

LEMMA CoreStutters ==
  ASSUME Core, UNCHANGED vars
  PROVE  Core'
<1>1. UNCHANGED <<order, chain, phase, quote, message, receipt, verdict, changed>>
  BY DEF vars
<1>2. ChainInv' /\ SeenInv' /\ OfferInv'
  BY <1>1 DEF Core, ChainInv, SeenInv, Working, OfferInv, Agreed
<1>3. MessageInv' /\ SubmittedInv' /\ LandedInv'
  BY <1>1 DEF Core, MessageInv, Agreed, SubmittedInv, LandedInv
<1>4. LandedReconciles' /\ NothingOfferedIsRefused'
  BY <1>1 DEF Core, LandedReconciles, NothingOfferedIsRefused
<1>5. Matches => Matches'
  BY <1>1 DEF Matches, ClaimMatches, BurnMatches, RecoverMatches, SendMatches, SwapMatches, Gone
<1>6. MatchesInv'
  BY <1>1, <1>5 DEF Core, MatchesInv, Expected
<1> QED BY <1>1, <1>2, <1>3, <1>4, <1>6 DEF Core

LEMMA CoreInductive ==
  ASSUME MaxInv, Core, [Next]_vars
  PROVE  Core'
BY QuoteClaimStep, PrepareClaimStep, QuoteBurnStep, PrepareBurnStep, QuoteRecoverStep,
   PrepareRecoverStep, QuoteSendStep, SearchMaxStep, SendQuotedStep, PrepareSendStep,
   QuoteSwapStep, RouteSwapStep, PrepareSwapStep, QuoteDepositStep, PrepareDepositStep,
   ApproveStep, SubmitStep, LandStep, ChangeStep, ReconcileStep, CoreStutters DEF Next

LEMMA InitialCore ==
  ASSUME Init
  PROVE  MaxInv /\ Core
<1>1. /\ order \in Orders /\ chain \in Chains /\ phase = "asked" /\ changed = "no"
  BY DEF Init
<1>2. chain \in Chain
  BY <1>1, SettlementAssumption
<1>3. ChainInv
  BY <1>1, <1>2, ChainFacts DEF ChainInv
<1>4. SeenInv /\ OfferInv /\ MessageInv /\ SubmittedInv
  BY <1>1 DEF SeenInv, Working, OfferInv, MessageInv, SubmittedInv, Agreed
<1>5. LandedInv /\ MatchesInv /\ LandedReconciles /\ NothingOfferedIsRefused
  BY <1>1 DEF LandedInv, MatchesInv, LandedReconciles, NothingOfferedIsRefused
<1>6. MaxInv
  BY <1>1 DEF MaxInv
<1> QED BY <1>1, <1>3, <1>4, <1>5, <1>6 DEF Core

LEMMA CoreShows ==
  ASSUME Core
  PROVE  /\ WalletKeepsItsPromise /\ SponsorMadeWhole
         /\ LandedReconciles /\ NothingOfferedIsRefused
<1>1. Landed => Kept(order, quote, receipt) /\ Whole(order, quote, receipt, chain.fee)
  BY DEF Core, LandedInv, Landed
<1>2. WalletKeepsItsPromise
  BY <1>1 DEF WalletKeepsItsPromise, Kept, Closing, LamportAction, Bridge
<1>3. SponsorMadeWhole
  BY <1>1 DEF SponsorMadeWhole, Whole, Closing, LamportAction
<1> QED BY <1>2, <1>3 DEF Core

(* The invariant holds of every settlement.                                *)
LEMMA InvHolds == Spec => []Inv
<1>1. Init => Inv
  BY InitialCore DEF Inv
<1>2. Inv /\ [Next]_vars => Inv'
  BY MaxInvInductive, CoreInductive DEF Inv
<1> QED BY <1>1, <1>2, PTL DEF Spec

-----------------------------------------------------------------------------
(* Nobody gets less than shown: what lands pays the wallet no less than    *)
(* the preview, or takes the quoted total exactly, for every message a     *)
(* wallet hands back that the validators accept, every answer of Relay     *)
(* that its validator accepts and every change of the chain on the way.    *)
THEOREM WalletIsPaid == Spec => []WalletKeepsItsPromise
<1>1. Inv => WalletKeepsItsPromise
  BY CoreShows DEF Inv
<1> QED BY <1>1, InvHolds, PTL

(* What the sponsor spends on a message comes back with it, for every fee, *)
(* price and buffer: in lamports to the unit, in tokens at the quoted      *)
(* prices however the two divisions round.                                 *)
THEOREM SponsorIsPaid == Spec => []SponsorMadeWhole
<1>1. Inv => SponsorMadeWhole
  BY CoreShows DEF Inv
<1> QED BY <1>1, InvHolds, PTL

(* What landed as it was approved is confirmed: the rechecks before the    *)
(* sponsor's signature leave nothing that the exact equations of           *)
(* reconciliation could stumble over.                                      *)
THEOREM LandingsReconcile == Spec => []LandedReconciles
<1>1. Inv => LandedReconciles
  BY CoreShows DEF Inv
<1> QED BY <1>1, InvHolds, PTL

(* No simulation fails while nobody changes the chain: discovery offers    *)
(* nothing that the token program would refuse, and no quote promises more *)
(* than its accounts hold.                                                 *)
THEOREM OffersAreAccepted == Spec => []NothingOfferedIsRefused
<1>1. Inv => NothingOfferedIsRefused
  BY CoreShows DEF Inv
<1> QED BY <1>1, InvHolds, PTL
=============================================================================
