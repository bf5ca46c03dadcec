----------------------------- MODULE RelayDeposit -----------------------------
(***************************************************************************)
(* The deposit of a cross-chain transfer: what Relay quotes, what of it    *)
(* GASLESS is ready to sponsor, and the message it makes of it             *)
(* (chains/solana/relay/order.ts and validator.ts,                         *)
(* server/cross-chain/service.ts, sponsorship.ts and lifecycle.ts).        *)
(*                                                                         *)
(* Relay's solver pays on the destination chain what the ORDER says, to    *)
(* whom the order says; the deposit on Solana names the order by its       *)
(* digest only.  The input is a token, the first account of the wallet;    *)
(* a deposit of SOL differs from it in its list of accounts.               *)
(***************************************************************************)
EXTENDS Messages

\* What the user asks for: an amount, and a least output that Relay quotes.
Ask(amount, minimum) == [amount |-> amount, minimum |-> minimum, recipient |-> "me", asset |-> "asset"]

RelayOrder(ask) ==
    [solver |-> "relay", input |-> "mint", amount |-> ask.amount,
     originRefund |-> "wallet", destinationRefund |-> ask.recipient,
     recipient |-> ask.recipient, output |-> ask.asset,
     minimum |-> ask.minimum, expected |-> ask.minimum + 1, calls |-> 0, fees |-> 0]

\* The EIP-712 digest covers every field, each of them under its name, and
\* addresses as bytes: two orders share it only if they agree in all of them.
RelayOrderId(o) == <<"order id", o>>

Deposit(program, destination, amount, orderId) ==
    [program |-> program, op |-> "deposit", account |-> destination, amount |-> amount,
     order |-> orderId]

Quoting(ask, order) ==
    [sender |-> "wallet", recipient |-> ask.recipient, amount |-> ask.amount, input |-> "mint",
     output |-> ask.asset, minimum |-> order.minimum, expected |-> order.expected,
     order |-> order, orderId |-> RelayOrderId(order),
     payment |-> [depository |-> "depository", currency |-> "mint", amount |-> ask.amount],
     deposit |-> Deposit("depository", "vault", ask.amount, RelayOrderId(order))]

\* Relay may answer anything.  These answers differ from the right one in
\* one field, some of them in one field of an order that everything else in
\* the quote is consistent with.
RelayAnswers(ask) ==
    LET right == Quoting(ask, RelayOrder(ask))
        orders == {[right.order EXCEPT !.recipient = "stranger"],
                   [right.order EXCEPT !.originRefund = "stranger"],
                   [right.order EXCEPT !.destinationRefund = "stranger"],
                   [right.order EXCEPT !.output = "other"],
                   [right.order EXCEPT !.input = "other"],
                   [right.order EXCEPT !.amount = @ + 1],
                   [right.order EXCEPT !.minimum = 0],
                   [right.order EXCEPT !.expected = 0],
                   [right.order EXCEPT !.solver = "stranger"],
                   [right.order EXCEPT !.calls = 1],
                   [right.order EXCEPT !.fees = 1]}
    IN  {right}
          \cup {Quoting(ask, o) : o \in orders}
          \cup {[right EXCEPT !.order = o] : o \in orders}
          \cup {[right EXCEPT !.recipient = "stranger"],
                [right EXCEPT !.amount = @ + 1],
                [right EXCEPT !.minimum = @ + 1],
                [right EXCEPT !.payment.amount = @ + 1],
                [right EXCEPT !.deposit.program = "stranger"],
                [right EXCEPT !.deposit.account = "stranger"],
                [right EXCEPT !.deposit.account = "payer"],
                [right EXCEPT !.deposit.amount = @ + 1],
                [right EXCEPT !.deposit.order = RelayOrderId([right.order EXCEPT !.minimum = 0])]}
          \cup {[right EXCEPT !.orderId = RelayOrderId(o), !.deposit.order = RelayOrderId(o)] : o \in orders}

(***************************************************************************)
(* When the quote is made: is it about what was asked for?                 *)
(***************************************************************************)
ValidateProviderQuote(q, ask) ==
    /\ q.sender = "wallet" /\ q.recipient = ask.recipient
    /\ q.amount = ask.amount /\ q.input = "mint" /\ q.output = ask.asset

(***************************************************************************)
(* When it is to be signed: does the order say so too?                     *)
(***************************************************************************)
InputBinding(q, ask) == q.order.input = "mint" /\ q.order.amount = ask.amount

RecipientBinding(q, ask) ==
    /\ q.order.recipient = ask.recipient /\ q.order.output = ask.asset
    /\ q.order.minimum > 0 /\ q.order.expected >= q.order.minimum
    /\ q.expected = q.order.expected /\ q.minimum = q.order.minimum

PaymentBinding(q, ask) ==
    q.payment = [depository |-> "depository", currency |-> "mint", amount |-> ask.amount]

RefundBinding(q, ask) ==
    q.order.originRefund = "wallet" /\ q.order.destinationRefund = ask.recipient

AssertProtocol(q, ask) ==
    /\ q.orderId = RelayOrderId(q.order)
    /\ q.order.solver = "relay" /\ q.order.calls = 0 /\ q.order.fees = 0
    /\ InputBinding(q, ask) /\ RecipientBinding(q, ask)
    /\ PaymentBinding(q, ask) /\ RefundBinding(q, ask)

AssertInstruction(i, ask, orderId) ==
    i = Deposit("depository", "vault", ask.amount, orderId)

\* One instruction and nothing around it: no compute budget, no transfer.
BuildDeposit(i) == Compile(<<i>>, "sr", "relay")

\* The payer pays for the message and is no account of the instruction.
AssertResolvedMessage(m, i) ==
    /\ m.signers = <<"payer", "wallet">>
    /\ m.instructions = <<i>>
    /\ m.lookups = "relay"
    /\ i.account # "payer"

ValidateRelayTransaction(q, ask) ==
    /\ ValidateProviderQuote(q, ask)
    /\ AssertProtocol(q, ask)
    /\ AssertInstruction(q.deposit, ask, q.orderId)
    /\ AssertResolvedMessage(BuildDeposit(q.deposit), q.deposit)

(***************************************************************************)
(* The payer signs first, and only the same message comes back.            *)
(***************************************************************************)
SponsorSigned(m) == [m EXCEPT !.payerSigned = TRUE]

ValidateUserSigned(sponsored, returned) ==
    /\ Body(sponsored) = Body(returned)
    /\ returned.payerSigned /\ returned.walletSigned
=============================================================================
