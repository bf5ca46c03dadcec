------------------------------- MODULE Ledger -------------------------------
(***************************************************************************)
(* What Solana does with a message: the effect of a transaction on the     *)
(* accounts it names, as the engines rely on it.  A transaction is atomic: *)
(* it does everything it says or charges nothing but the network fee.      *)
(*                                                                         *)
(* A chain is a record: accounts, the wallet's token accounts in the order *)
(* of their addresses; receiving, the state of the account that the value  *)
(* goes to (the recipient's of a Send, the output account of a Swap, the   *)
(* wrapped SOL account of a Recover); fee, what the network charges for a  *)
(* sponsored message; market, whether the route still gives what it        *)
(* guarantees.                                                             *)
(***************************************************************************)
EXTENDS RelayDeposit, FiniteSetsExt

CONSTANTS Address,          \* the addresses of the wallet's token accounts, in order
          ATA_RENT,         \* the rent of a token account
          WALLET_LAMPORTS,  \* what the wallet itself holds
          BASE_FEE          \* a fee without its priority part

ASSUME LedgerAssumption ==
    /\ Address \in Seq(STRING)
    /\ \A j, k \in DOMAIN Address : Address[j] = Address[k] => j = k
    /\ ATA_RENT \in Nat /\ WALLET_LAMPORTS \in Nat /\ BASE_FEE \in Nat

\* The sum of f over a set.
Total(f, S) == MapThenSumSet(LAMBDA x : f[x], S)

IndexOf(address) == CHOOSE k \in DOMAIN Address : Address[k] = address

Ops(m, op) == {i \in Range(m.instructions) : i.op = op}

Amount(instructions) == Total([i \in instructions |-> i.amount], instructions)

Lamports(accounts) == [k \in DOMAIN accounts |-> accounts[k].lamports]

AmountTo(m, op, account) == Amount({i \in Ops(m, op) : i.account = account})

Creates(m, chain) == Ops(m, "create") # {} /\ chain.receiving = "absent"

\* What leaves a token account of the wallet.  A payment is made from the
\* first one, the canonical account of the token that is sent or swapped.
Debit(m, k) ==
    AmountTo(m, "burn", Address[k]) + AmountTo(m, "swap", Address[k])
        + (IF k = 1 THEN Amount(Ops(m, "pay") \cup Ops(m, "deposit")) ELSE 0)

Closed(m) == {IndexOf(i.account) : i \in Ops(m, "close")}

\* The wrapped SOL account is closed to the wallet with what the swap paid.
Unwrapped(m, output) == IF Ops(m, "unwrap") = {} THEN 0 ELSE output + ATA_RENT

\* A message without a price pays no priority.
NetworkFee(m, chain) == IF Ops(m, "price") = {} THEN BASE_FEE ELSE chain.fee

PayerDelta(m, chain) ==
    -(IF m.signers[1] = "payer" THEN NetworkFee(m, chain) ELSE 0)
        - (IF Creates(m, chain) THEN ATA_RENT ELSE 0)

WalletDelta(m, chain, output) ==
    Total(Lamports(chain.accounts), Closed(m))
        + Unwrapped(m, output) - Amount(Ops(m, "transfer"))
        - (IF m.signers[1] = "wallet" THEN NetworkFee(m, chain) ELSE 0)

\* The token program's rules for an account that is emptied or closed.
MayDebit(a, amount) == amount = 0 \/ (a.state = "initialized" /\ amount <= a.amount)

MayClose(a, amount) ==
    a.program = "legacy" /\ ~a.closeAuthority /\ (a.native \/ a.amount = amount)

\* A message that pays into, or swaps to, the receiving account.
Receives(m) ==
    Ops(m, "swap") # {} \/ \E i \in Ops(m, "pay") : i.account = "recipient"

Succeeds(m, chain, output) ==
    /\ \A k \in DOMAIN chain.accounts : MayDebit(chain.accounts[k], Debit(m, k))
    /\ \A k \in Closed(m) : MayClose(chain.accounts[k], Debit(m, k))
    /\ Receives(m) => (chain.receiving = "present" \/ Creates(m, chain))
    /\ Ops(m, "swap") # {} => chain.market = "good"
    /\ WALLET_LAMPORTS + WalletDelta(m, chain, output) >= 0

\* The balance changes that a confirmed transaction reports.
Receipt(m, chain, output) ==
    [ok |-> Succeeds(m, chain, output), fee |-> NetworkFee(m, chain),
     payer |-> PayerDelta(m, chain), wallet |-> WalletDelta(m, chain, output),
     destination |-> AmountTo(m, "transfer", "feeDestination"),
     source |-> -Debit(m, 1), recipient |-> AmountTo(m, "pay", "recipient"),
     reimbursement |-> AmountTo(m, "pay", "reimbursement"),
     serviceFee |-> AmountTo(m, "pay", "serviceFee"),
     vault |-> AmountTo(m, "deposit", "vault"),
     orders |-> {i.order : i \in Ops(m, "deposit")},
     output |-> IF Ops(m, "swap") = {} THEN 0 ELSE output]

\* A token account after a message that takes from it, or closes it.
Used(a, debit, closed) ==
    [a EXCEPT !.amount = @ - debit, !.lamports = IF closed THEN 0 ELSE @]

\* The chain after a message that succeeds.  A wrapped SOL account is gone.
After(m, chain) ==
    [chain EXCEPT
        !.accounts = [k \in DOMAIN @ |-> Used(@[k], Debit(m, k), k \in Closed(m))],
        !.receiving = IF Ops(m, "unwrap") # {} THEN "absent"
                      ELSE IF Ops(m, "create") # {} THEN "present" ELSE @]
=============================================================================
