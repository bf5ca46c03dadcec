----------------------------- MODULE Settlement -----------------------------
(***************************************************************************)
(* The economics of one sponsored action from its quote to its verdict:    *)
(* what the wallet is promised, what the message makes it pay, what the    *)
(* server checks before it signs as fee payer, what the network then does  *)
(* and what reconciliation says of it (server/<action>/engine.ts with      *)
(* chains/solana/transactions/<action>.ts).                                *)
(*                                                                         *)
(* The engines' records, locks and crashes are the subject of Engines;     *)
(* here every handler runs once and what varies is the data: accounts of   *)
(* every kind, fees and prices, a route that gets worse, a node that       *)
(* answers a fee without its priority part, a wallet that hands back       *)
(* another message, and a chain that changes under the quote.              *)
(*                                                                         *)
(* A request that the code refuses with an error is no step at all.        *)
(***************************************************************************)
EXTENDS Economics, Accounts, Ledger

CONSTANTS
    Orders,            \* what a user may ask for
    Chains,            \* the chains at the start
    MAX_ACCOUNTS,      \* maximumAccountsPerBatch
    FIRST_GUESS_FEE,   \* 10_000n in the swap engine
    ROUTE_DRIFT,       \* bound on how far a fresh route is from its preview
    MAX_STABILIZATION_ATTEMPTS

Actions == {"claim", "burn", "recover", "send", "swap", "deposit"}

Order == [action : Actions, amount : Nat, max : BOOLEAN, threshold : Nat]

\* The wallet has at least the account a Send or a Swap is about.
Chain ==
    {c \in [accounts : Seq(Account), receiving : {"absent", "present", "frozen"},
            fee : Nat, market : {"good", "bad"}] : Len(c.accounts) \in 1 .. Len(Address)}

\* A fee without its priority part is two signatures' worth, 10_000 lamports;
\* the priority part is 37_500 at least (chains/solana/transactions/clean.ts).
ASSUME SettlementAssumption ==
    /\ BASE_FEE < PRIORITY_FEE
    /\ \A o \in Orders : o \in Order
    /\ \A c \in Chains : c \in Chain /\ c.market = "good"
    /\ MAX_ACCOUNTS \in Nat /\ FIRST_GUESS_FEE \in Nat /\ ROUTE_DRIFT \in Nat

VARIABLES order, chain, phase, quote, low, high, message, receipt, verdict,
          changed      \* "no", "early" or "late": when the chain changed

vars == <<order, chain, phase, quote, low, high, message, receipt, verdict, changed>>

\* One quote record for all actions; a field an action does not use keeps
\* its value here.  picked are the positions of the token accounts.
NoQuote ==
    [picked |-> << >>, seen |-> << >>, receiving |-> "none", gross |-> 0,
     threshold |-> 0, serviceFee |-> 0, network |-> 0, rent |-> 0, reimbursement |-> 0,
     amount |-> 0, total |-> 0, promise |-> 0, attempt |-> 0,
     relay |-> [order |-> << >>]]

NoMessage == [instructions |-> << >>]

NoReceipt == [ok |-> FALSE]

Init ==
    /\ order \in Orders /\ chain \in Chains
    /\ phase = "asked" /\ quote = NoQuote /\ low = 0 /\ high = 0
    /\ message = NoMessage /\ receipt = NoReceipt /\ verdict = "none" /\ changed = "no"

(***************************************************************************)
(* What the handlers ask the node.                                         *)
(***************************************************************************)
FeeAnswers == {chain.fee, BASE_FEE}

CompleteFees == {fee \in FeeAnswers : fee >= PRIORITY_FEE}

Rent(picked) == Total(Lamports(chain.accounts), Range(picked))

ReceivingRent == IF chain.receiving = "absent" THEN ATA_RENT ELSE 0

Asked(action) == phase = "asked" /\ order.action = action

At(step, action) == phase = step /\ order.action = action

Addresses(q) == [k \in DOMAIN q.picked |-> Address[q.picked[k]]]

\* The accounts are what the quote saw, byte for byte.
AccountsUnchanged ==
    \A k \in Range(quote.picked) :
        chain.accounts[k] = quote.seen[k] /\ Inspect(order.action, chain.accounts[k])

\* Every prepared message is simulated; a failure ends the attempt.
Prepared(q, m) ==
    /\ quote' = q
    /\ message' = m
    /\ phase' = IF Succeeds(m, chain, q.threshold) THEN "prepared" ELSE "refused"

Quoted(q) == quote' = q /\ phase' = "quoted"

Seen(picked) ==
    [NoQuote EXCEPT !.picked = picked, !.seen = chain.accounts,
                    !.receiving = chain.receiving]

(***************************************************************************)
(* Claim: every eligible empty account, up to one transaction's worth.     *)
(***************************************************************************)
QuoteClaim ==
    /\ Asked("claim")
    /\ LET picked == BatchClaimAccounts(Discover("claim", chain.accounts), MAX_ACCOUNTS)
           gross  == Rent(picked)
           fee    == CalculateClaimFee(gross)
           net    == gross - fee - MAXIMUM_NETWORK_FEE
       IN  /\ picked # << >>
           /\ net >= MINIMUM_PAYOUT
           /\ Quoted([Seen(picked) EXCEPT !.gross = gross, !.serviceFee = fee, !.promise = net])
    /\ UNCHANGED <<order, chain, low, high, message, receipt, verdict, changed>>

PrepareClaim ==
    /\ At("quoted", "claim")
    /\ AccountsUnchanged
    /\ \E fee \in CompleteFees :
        /\ quote.gross - quote.serviceFee - fee >= MINIMUM_PAYOUT
        /\ Prepared([quote EXCEPT !.network = fee],
                    BuildClaimTransaction(Addresses(quote), quote.serviceFee + fee))
    /\ UNCHANGED <<order, chain, low, high, receipt, verdict, changed>>

(***************************************************************************)
(* Burn: one account with everything in it.  The quote names no payout;    *)
(* the prepared one is what the user approves.                             *)
(***************************************************************************)
QuoteBurn ==
    /\ Asked("burn")
    /\ \E k \in Range(Discover("burn", chain.accounts)) :
        LET rent == chain.accounts[k].lamports
        IN  Quoted([Seen(<<k>>) EXCEPT !.gross = rent, !.serviceFee = CalculateBurnFee(rent),
                                       !.amount = chain.accounts[k].amount])
    /\ UNCHANGED <<order, chain, low, high, message, receipt, verdict, changed>>

PrepareBurn ==
    /\ At("quoted", "burn")
    /\ AccountsUnchanged
    /\ \E fee \in CompleteFees :
        LET net == quote.gross - quote.serviceFee - fee
        IN  /\ net >= MINIMUM_PAYOUT
            /\ Prepared([quote EXCEPT !.network = fee, !.promise = net],
                        BuildBurnTransaction(Addresses(quote)[1], quote.amount,
                                             quote.serviceFee + fee))
    /\ UNCHANGED <<order, chain, low, high, receipt, verdict, changed>>

(***************************************************************************)
(* Recover Value: the preview promises a floor; the route is fetched again *)
(* when the user approves and may be better or worse.                      *)
(***************************************************************************)
QuoteRecover ==
    /\ Asked("recover")
    /\ chain.receiving # "frozen"
    /\ \E k \in Range(Discover("recover", chain.accounts)) :
        LET rent  == chain.accounts[k].lamports
            fees  == CalculateRecoverFees(order.threshold, rent)
            floor == order.threshold + rent - fees - MAXIMUM_NETWORK_FEE
        IN  /\ floor >= MINIMUM_PAYOUT
            /\ Quoted([Seen(<<k>>) EXCEPT !.gross = rent, !.serviceFee = fees,
                           !.amount = chain.accounts[k].amount,
                           !.threshold = order.threshold, !.promise = floor])
    /\ UNCHANGED <<order, chain, low, high, message, receipt, verdict, changed>>

FreshThresholds ==
    {t \in order.threshold - ROUTE_DRIFT .. order.threshold + ROUTE_DRIFT : t >= 0}

RecoverPayout(q) == q.threshold + q.gross - q.serviceFee - q.network

PrepareRecover ==
    /\ At("quoted", "recover")
    /\ AccountsUnchanged
    /\ chain.receiving = quote.receiving
    /\ \E threshold \in FreshThresholds, fee \in CompleteFees :
        LET rent == ReceivingRent
            q == [quote EXCEPT !.threshold = threshold, !.network = fee, !.rent = rent,
                               !.serviceFee = CalculateRecoverFees(threshold, quote.gross)]
        IN  /\ RecoverPayout(q) >= MINIMUM_PAYOUT
            /\ fee + rent <= MAXIMUM_SPONSORED_COST
            /\ Prepared(q, BuildRecoverTransaction(Addresses(q)[1], q.amount,
                               q.serviceFee + fee + rent, chain.receiving = "absent"))
    /\ UNCHANGED <<order, chain, low, high, receipt, verdict, changed>>

RecoverHasEconomicDownside == RecoverPayout(quote) < quote.promise

(***************************************************************************)
(* Send: an amount, or the largest one the balance allows, found by        *)
(* bisection; one iteration is one step.                                   *)
(***************************************************************************)
Balance == quote.seen[1].amount

SendQuote(amount) ==
    LET fee == CalculateSendServiceFee(amount)
    IN  [quote EXCEPT !.amount = amount, !.serviceFee = fee,
                      !.total = amount + quote.reimbursement + fee]

\* The quote is simulated as well: a preview that cannot run is not shown.
FinishSendQuote(q) ==
    /\ q.amount > 0
    /\ q.total <= q.seen[1].amount
    /\ quote' = q
    /\ phase' = IF Succeeds(BuildSendTransaction(q.amount, q.reimbursement, q.serviceFee,
                                q.receiving # "absent"), chain, 0)
                THEN "quoted" ELSE "refused"

QuoteSend ==
    /\ Asked("send")
    /\ InspectSendTokenAccount(chain.accounts[1])
    /\ chain.receiving # "frozen"
    /\ order.max \/ order.amount > 0
    /\ \E fee \in CompleteFees :
        LET sponsored == fee + ReceivingRent
        IN  /\ sponsored <= MAXIMUM_SPONSORED_COST
            /\ quote' = [Seen(<<1>>) EXCEPT !.network = fee, !.rent = ReceivingRent,
                            !.amount = order.amount,
                            !.reimbursement = CalculateSponsorReimbursement(sponsored)]
    /\ low' = 0
    /\ high' = chain.accounts[1].amount - quote'.reimbursement
    /\ order.max => high' > 0
    /\ phase' = "searching"
    /\ UNCHANGED <<order, chain, message, receipt, verdict, changed>>

\* Fault: an amount that uses the whole balance is taken not to fit.
SearchMaxStrict ==
    /\ At("searching", "send") /\ order.max /\ low < high
    /\ LET middle == (low + high + 1) \div 2
       IN  IF SendDebit(middle, quote.reimbursement) < Balance
             THEN low' = middle /\ high' = high
             ELSE low' = low /\ high' = middle - 1
    /\ UNCHANGED <<order, chain, phase, quote, message, receipt, verdict, changed>>

\* calculateSendMax: the middle is rounded up, so a step always narrows.
SearchMax ==
    /\ At("searching", "send") /\ order.max /\ low < high
    /\ LET middle == (low + high + 1) \div 2
       IN  IF SendDebit(middle, quote.reimbursement) <= Balance
             THEN low' = middle /\ high' = high
             ELSE low' = low /\ high' = middle - 1
    /\ UNCHANGED <<order, chain, phase, quote, message, receipt, verdict, changed>>

SendQuoted ==
    /\ At("searching", "send")
    /\ order.max => low >= high
    /\ FinishSendQuote(SendQuote(IF order.max THEN low ELSE order.amount))
    /\ UNCHANGED <<order, chain, low, high, message, receipt, verdict, changed>>

SendSourceCovers ==
    InspectSendTokenAccount(chain.accounts[1]) /\ chain.accounts[1].amount >= quote.total

\* Fault: an account that appeared in the meantime is good enough.
SendReceivingReceives == chain.receiving # "frozen"

SendReceivingUnchanged ==
    /\ (chain.receiving = "absent") = (quote.receiving = "absent")
    /\ chain.receiving # "frozen"

\* Everything is computed again and must come out the same: the same fee
\* gives the same reimbursement, so the comparison is one of fees.
PrepareSend ==
    /\ At("quoted", "send")
    /\ SendSourceCovers
    /\ order.max => chain.accounts[1].amount = Balance
    /\ SendReceivingUnchanged
    /\ quote.network \in CompleteFees
    /\ Prepared(quote, BuildSendTransaction(quote.amount, quote.reimbursement,
                           quote.serviceFee, quote.receiving # "absent"))
    /\ UNCHANGED <<order, chain, low, high, receipt, verdict, changed>>

(***************************************************************************)
(* Swap: the network fee depends on the route, the routed amount on the    *)
(* fee; the engine iterates until they agree.                              *)
(***************************************************************************)
QuoteSwap ==
    /\ Asked("swap")
    /\ InspectSendTokenAccount(chain.accounts[1])
    /\ chain.receiving # "frozen"
    /\ order.amount > 0 /\ order.amount <= chain.accounts[1].amount
    /\ quote' = [Seen(<<1>>) EXCEPT !.total = order.amount, !.threshold = order.threshold,
                    !.serviceFee = CalculateSwapServiceFee(order.amount),
                    !.rent = ReceivingRent,
                    !.reimbursement = CalculateSponsorReimbursement(ReceivingRent + FIRST_GUESS_FEE)]
    /\ phase' = "routing"
    /\ UNCHANGED <<order, chain, low, high, message, receipt, verdict, changed>>

Routed(q) == q.total - q.serviceFee - q.reimbursement

\* The estimate of the fee is not checked for its priority part.
RouteSwap ==
    /\ At("routing", "swap")
    /\ Routed(quote) > 0
    /\ quote.receiving = "present" => chain.receiving = "present"
    /\ \E fee \in FeeAnswers :
        LET sponsored == fee + quote.rent
            exact == CalculateSponsorReimbursement(sponsored)
        IN  /\ sponsored <= MAXIMUM_SPONSORED_COST
            /\ \/ /\ exact = quote.reimbursement
                  /\ Quoted([quote EXCEPT !.network = fee, !.amount = Routed(quote)])
               \/ /\ exact # quote.reimbursement
                  /\ quote.attempt < MAX_STABILIZATION_ATTEMPTS - 1
                  /\ quote' = [quote EXCEPT !.reimbursement = exact, !.attempt = @ + 1]
                  /\ UNCHANGED phase
    /\ UNCHANGED <<order, chain, low, high, message, receipt, verdict, changed>>

\* An account that was there must still be; one that was not may be by now.
SwapRecheck ==
    /\ InspectSendTokenAccount(chain.accounts[1])
    /\ chain.accounts[1].amount >= quote.total
    /\ chain.receiving # "frozen"
    /\ quote.receiving = "present" => chain.receiving = "present"

PrepareSwap ==
    /\ At("quoted", "swap")
    /\ SwapRecheck
    /\ quote.network \in FeeAnswers
    /\ Prepared(quote, BuildSwapTransaction(Address[1], quote.amount, quote.reimbursement,
                           quote.serviceFee, quote.receiving # "absent"))
    /\ UNCHANGED <<order, chain, low, high, receipt, verdict, changed>>

(***************************************************************************)
(* A cross-chain transfer: the quote says what Relay says it will pay, and *)
(* is looked into when it is to be signed.  The sponsor signs the prepared *)
(* deposit before the wallet does, and gets nothing back for it.           *)
(***************************************************************************)
Bridge == Ask(order.amount, order.threshold)

QuoteDeposit ==
    /\ Asked("deposit")
    /\ \E answer \in RelayAnswers(Bridge) :
        /\ ValidateProviderQuote(answer, Bridge)
        /\ Quoted([Seen(<<1>>) EXCEPT !.total = order.amount, !.promise = answer.minimum,
                                      !.relay = answer])
    /\ UNCHANGED <<order, chain, low, high, message, receipt, verdict, changed>>

\* What a simulation has to show: this much leaves the wallet's account and
\* reaches the vault.
DepositMoves(m) ==
    /\ Succeeds(m, chain, 0)
    /\ Debit(m, 1) = order.amount /\ AmountTo(m, "deposit", "vault") = order.amount

PrepareDeposit ==
    /\ At("quoted", "deposit")
    /\ ValidateRelayTransaction(quote.relay, Bridge)
    /\ InspectSendTokenAccount(chain.accounts[1]) /\ chain.accounts[1].amount >= order.amount
    /\ BASE_FEE <= MAXIMUM_SPONSORED_COST
    /\ quote' = [quote EXCEPT !.network = BASE_FEE]
    /\ message' = SponsorSigned(BuildDeposit(quote.relay.deposit))
    /\ phase' = IF DepositMoves(message') THEN "prepared" ELSE "refused"
    /\ UNCHANGED <<order, chain, low, high, receipt, verdict, changed>>

(***************************************************************************)
(* Approval and submission.                                                *)
(***************************************************************************)
\* Fault: the fresh route is not compared with the preview.
ApproveAnyRoute ==
    /\ phase = "prepared"
    /\ phase' = "approved"
    /\ UNCHANGED <<order, chain, quote, low, high, message, receipt, verdict, changed>>

\* The console stops a Recover whose fresh route pays less than its preview.
Approve ==
    /\ phase = "prepared"
    /\ order.action = "recover" => ~RecoverHasEconomicDownside
    /\ phase' = "approved"
    /\ UNCHANGED <<order, chain, quote, low, high, message, receipt, verdict, changed>>

\* The predicted fee of the signed bytes is the one of the quote.
FeeIsAsQuoted == quote.network \in FeeAnswers

\* The final simulation runs on the fully signed bytes.
Submitted(returned) ==
    /\ message' = [returned EXCEPT !.payerSigned = TRUE]
    /\ phase' = IF Succeeds(returned, chain, quote.threshold) THEN "submitted" ELSE "refused"
    /\ UNCHANGED <<order, chain, quote, low, high, receipt, verdict, changed>>

SubmitClaim(returned) ==
    /\ At("approved", "claim")
    /\ ValidateSignedClean(message, returned, FALSE)
    /\ AccountsUnchanged
    /\ FeeIsAsQuoted /\ quote.network <= MAXIMUM_NETWORK_FEE
    /\ Submitted(returned)

SubmitBurn(returned) ==
    /\ At("approved", "burn")
    /\ ValidateSignedClean(message, returned, FALSE)
    /\ AccountsUnchanged
    /\ FeeIsAsQuoted /\ quote.network <= MAXIMUM_NETWORK_FEE
    /\ Submitted(returned)

SubmitRecover(returned) ==
    /\ At("approved", "recover")
    /\ ValidateSignedClean(message, returned, TRUE)
    /\ AccountsUnchanged
    /\ chain.receiving = quote.receiving
    /\ FeeIsAsQuoted /\ quote.network <= MAXIMUM_NETWORK_FEE
    /\ Submitted(returned)

SubmitSend(returned) ==
    /\ At("approved", "send")
    /\ ValidateSignedSend(message, returned)
    /\ SendSourceCovers
    /\ SendReceivingUnchanged
    /\ FeeIsAsQuoted
    /\ Submitted(returned)

SubmitSwap(returned) ==
    /\ At("approved", "swap")
    /\ ValidateSignedSwap(message, returned)
    /\ SwapRecheck
    /\ FeeIsAsQuoted
    /\ Submitted(returned)

\* The final simulation also shows what the sponsor pays.
SubmitDeposit(returned) ==
    /\ At("approved", "deposit")
    /\ ValidateUserSigned(message, returned)
    /\ message' = returned
    /\ phase' = IF DepositMoves(returned) /\ PayerDelta(returned, chain) = -quote.network
                 THEN "submitted" ELSE "refused"
    /\ UNCHANGED <<order, chain, quote, low, high, receipt, verdict, changed>>

Submit ==
    /\ phase = "approved"
    /\ \E returned \in WalletReturns(message) :
        \/ SubmitClaim(returned)
        \/ SubmitBurn(returned)
        \/ SubmitRecover(returned)
        \/ SubmitSend(returned)
        \/ SubmitSwap(returned)
        \/ SubmitDeposit(returned)

(***************************************************************************)
(* The chain: a route pays at least what it guarantees.                    *)
(***************************************************************************)
Land ==
    /\ phase = "submitted"
    /\ \E output \in {quote.threshold, quote.threshold + 1} :
        receipt' = Receipt(message, chain, output)
    /\ chain' = IF receipt'.ok THEN After(message, chain) ELSE chain
    /\ phase' = "landed"
    /\ UNCHANGED <<order, quote, low, high, message, verdict, changed>>

Flip(state) ==
    IF state = "absent" THEN {"present"} ELSE {"absent", "frozen"}

\* One thing that somebody else does: the owner of the receiving account,
\* a stranger who sends lamports or tokens, the wallet in another
\* application, the market.
Changes(c) ==
    {[c EXCEPT !.receiving = state] : state \in Flip(c.receiving)}
      \cup {[c EXCEPT !.accounts[1].lamports = @ + 1],
            [c EXCEPT !.accounts[1].amount = @ + 1],
            [c EXCEPT !.market = "bad"]}
      \cup (IF c.accounts[1].amount > 0
              THEN {[c EXCEPT !.accounts[1].amount = @ - 1]} ELSE {})

Change ==
    /\ changed = "no"
    /\ phase \notin {"asked", "refused", "settled"}
    /\ chain' \in Changes(chain)
    /\ changed' = IF phase \in {"submitted", "landed"} THEN "late" ELSE "early"
    /\ UNCHANGED <<order, phase, quote, low, high, message, receipt, verdict>>

(***************************************************************************)
(* Reconciliation of a confirmed transaction.                              *)
(***************************************************************************)
Gone(picked) == \A k \in Range(picked) : chain.accounts[k].lamports = 0

ClaimMatches ==
    /\ receipt.fee = quote.network
    /\ receipt.wallet = quote.gross - quote.serviceFee - quote.network
    /\ receipt.destination = quote.serviceFee + quote.network
    /\ receipt.payer = -quote.network
    /\ Gone(quote.picked)

BurnMatches ==
    /\ receipt.fee = quote.network
    /\ receipt.wallet = quote.promise
    /\ receipt.destination = quote.serviceFee + quote.network
    /\ receipt.payer = -quote.network
    /\ Gone(quote.picked)

RecoverMatches ==
    LET sponsored == quote.network + quote.rent
    IN  /\ receipt.fee = quote.network
        /\ receipt.wallet >= RecoverPayout(quote)
        /\ receipt.destination = quote.serviceFee + sponsored
        /\ receipt.payer = -sponsored
        /\ Gone(quote.picked)
        /\ chain.receiving = "absent"

SendMatches ==
    /\ receipt.source = -quote.total
    /\ receipt.recipient = quote.amount
    /\ receipt.reimbursement = quote.reimbursement
    /\ receipt.serviceFee = quote.serviceFee
    /\ receipt.fee = quote.network
    /\ receipt.payer = -(quote.network + quote.rent)

SwapMatches ==
    /\ receipt.source = -quote.total
    /\ receipt.reimbursement = quote.reimbursement
    /\ receipt.serviceFee = quote.serviceFee
    /\ receipt.output >= quote.threshold
    /\ receipt.payer = -(quote.network + quote.rent)

Matches ==
    CASE order.action = "claim"   -> ClaimMatches
      [] order.action = "burn"    -> BurnMatches
      [] order.action = "recover" -> RecoverMatches
      [] order.action = "send"    -> SendMatches
      [] order.action = "swap"    -> SwapMatches
      [] order.action = "deposit" -> TRUE   \* a confirmed success is all it asks for

Reconcile ==
    /\ phase = "landed"
    /\ verdict' = IF receipt.ok /\ Matches THEN "confirmed" ELSE "failed"
    /\ phase' = "settled"
    /\ UNCHANGED <<order, chain, quote, low, high, message, receipt, changed>>

Next ==
    \/ QuoteClaim \/ PrepareClaim
    \/ QuoteBurn \/ PrepareBurn
    \/ QuoteRecover \/ PrepareRecover
    \/ QuoteSend \/ SearchMax \/ SendQuoted \/ PrepareSend
    \/ QuoteSwap \/ RouteSwap \/ PrepareSwap
    \/ QuoteDeposit \/ PrepareDeposit
    \/ Approve \/ Submit \/ Land \/ Change \/ Reconcile

Spec == Init /\ [][Next]_vars

(***************************************************************************)
(* Properties.                                                             *)
(***************************************************************************)
Landed == phase \in {"landed", "settled"} /\ receipt.ok

LamportAction == order.action \in {"claim", "burn", "recover"}

\* What the sponsor spends on a transaction comes back in the same
\* transaction, in lamports next to the service fee, or in tokens that are
\* worth as much at the quoted prices, whichever roundings the arithmetic
\* takes.  For a Swap the premise is that the node's fee was complete: the
\* engine does not check it (chains/solana/transactions/swap.ts:104).  What
\* a deposit costs nobody pays back: it is what was reserved, within the cap.
SponsorMadeWhole ==
    Landed /\ (order.action = "swap" => quote.network = chain.fee) =>
        IF order.action = "deposit"
          THEN -receipt.payer = quote.network /\ quote.network <= MAXIMUM_SPONSORED_COST
        ELSE IF LamportAction
          THEN receipt.destination - quote.serviceFee >= -receipt.payer
          ELSE receipt.reimbursement * TOKEN_PRICE * LAMPORTS_PER_SOL
                   >= -receipt.payer * SOL_PRICE * UNIT

\* A landed transaction gives the wallet at least what the user was shown
\* before approving (the preview of a Claim or a Recover, the prepared
\* payout of a Burn), and takes exactly the total of a Send or a Swap and
\* not one lamport, whatever the wallet handed back and the chain did.  A
\* deposit takes its amount to the vault for one order, which pays the
\* recipient no less than was shown and refunds nobody but the wallet and the
\* recipient, whatever Relay answered.
WalletKeepsItsPromise ==
    Landed =>
        IF LamportAction THEN receipt.wallet >= quote.promise
        ELSE /\ receipt.wallet = 0
             /\ receipt.source = -quote.total
             /\ order.action = "send" => receipt.recipient = quote.amount
             /\ order.action = "swap" => receipt.output >= quote.threshold
             /\ order.action = "deposit" =>
                    /\ receipt.vault = order.amount
                    /\ \A id \in receipt.orders :
                        LET o == quote.relay.order
                        IN  /\ id = RelayOrderId(o)
                            /\ o.recipient = Bridge.recipient /\ o.output = Bridge.asset
                            /\ o.minimum >= quote.promise /\ quote.promise > 0
                            /\ o.originRefund = "wallet"
                            /\ o.destinationRefund = Bridge.recipient

\* A transaction that landed as the server approved it is confirmed: the
\* rechecks before the payer's signature see every earlier change that
\* would break the exact equations of reconciliation.  Two cases of Swap
\* are left out because the code does record them as failed: the receiving
\* account created by somebody else after the quote, and an incomplete fee.
LandedReconciles ==
    /\ phase = "settled" /\ receipt.ok /\ changed # "late"
    /\ order.action = "swap" =>
        /\ quote.network = chain.fee
        /\ quote.receiving = "absent" => changed = "no"
    => verdict = "confirmed"

\* The bisection finds the largest amount whose amount, fee and
\* reimbursement fit the balance, although the fee's floor and its cap make
\* the debit neither linear nor strictly proportional.
MaxIsMaximal ==
    order.action = "send" /\ order.max /\ phase \notin {"asked", "searching"} =>
        /\ SendDebit(quote.amount, quote.reimbursement) <= Balance
        /\ \A m \in quote.amount + 1 .. Balance : SendDebit(m, quote.reimbursement) > Balance

\* What discovery offers, the chain accepts: as long as nobody changes
\* anything no simulation fails, neither the one of the preview or of the
\* prepared message nor the final one of the signed bytes.
NothingOfferedIsRefused == phase = "refused" => changed # "no"
=============================================================================
