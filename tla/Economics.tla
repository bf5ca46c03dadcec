----------------------------- MODULE Economics -----------------------------
(***************************************************************************)
(* The arithmetic of a sponsored transaction: what GASLESS charges, what   *)
(* the sponsor gets back and what is left to the wallet                    *)
(* (chains/solana/transactions/*.ts).  Amounts are whole lamports or whole *)
(* raw token units, as the code's bigints are, so every division rounds    *)
(* and the direction of each rounding is part of what is modelled.         *)
(*                                                                         *)
(* A policy value that the code takes as an argument is a constant here.   *)
(* Prices are in micro-dollars, Unit is 10^decimals of the token.          *)
(***************************************************************************)
EXTENDS Integers, FiniteSetsExt

CONSTANTS
    BPS_DENOMINATOR,      \* 10_000 in the code; smaller in the runs
    LAMPORTS_PER_SOL,     \* 10^9 in the code; smaller in the runs
    FEE_BPS,              \* the service fee of the action
    BUFFER_BPS,           \* reimbursementBufferBps of the token
    CAP_USD_MICROS,       \* serviceFeeCapUsdMicros
    UNIT,                 \* 10^decimals
    TOKEN_PRICE,          \* tokenUsdPriceMicros
    SOL_PRICE,            \* solUsdPriceMicros
    PRIORITY_FEE,         \* the priority part of the network fee
    MINIMUM_PAYOUT,       \* minimumUserPayoutLamports
    MAXIMUM_NETWORK_FEE,  \* maximumNetworkFeeLamports
    MAXIMUM_SPONSORED_COST

ASSUME EconomicsAssumption ==
    /\ BPS_DENOMINATOR \in Nat \ {0}
    /\ LAMPORTS_PER_SOL \in Nat \ {0}
    /\ FEE_BPS \in 0 .. BPS_DENOMINATOR
    /\ BUFFER_BPS \in 0 .. BPS_DENOMINATOR
    /\ CAP_USD_MICROS \in Nat
    /\ UNIT \in Nat \ {0}
    /\ TOKEN_PRICE \in Nat \ {0}
    /\ SOL_PRICE \in Nat \ {0}
    /\ PRIORITY_FEE \in Nat
    /\ MINIMUM_PAYOUT \in Nat
    /\ MAXIMUM_NETWORK_FEE \in Nat
    /\ MAXIMUM_SPONSORED_COST \in Nat

\* Fault: bigint division, which rounds down.
FloorDiv(value, divisor) == value \div divisor

CeilDiv(value, divisor) ==
    IF value = 0 THEN 0 ELSE (value + divisor - 1) \div divisor

CalculateClaimFee(gross) == (gross * FEE_BPS) \div BPS_DENOMINATOR

CalculateBurnFee(rent) == (rent * FEE_BPS) \div BPS_DENOMINATOR

\* The fee on the swap and the fee on the rent, each rounded on its own.
CalculateRecoverFees(minimumOutput, rent) ==
    ((minimumOutput * FEE_BPS) \div BPS_DENOMINATOR)
        + ((rent * FEE_BPS) \div BPS_DENOMINATOR)

CalculateSwapServiceFee(total) == (total * FEE_BPS) \div BPS_DENOMINATOR

\* A percentage, but never more than the cap in dollars.
CalculateSendServiceFee(amount) ==
    LET percentage == (amount * FEE_BPS) \div BPS_DENOMINATOR
        cap == (CAP_USD_MICROS * UNIT) \div TOKEN_PRICE
    IN  IF percentage < cap THEN percentage ELSE cap

\* Both divisions round up: in tokens, the sponsor gets back no less than
\* the lamports it spends are worth.
CalculateSponsorReimbursement(sponsored) ==
    LET raw == CeilDiv(sponsored * SOL_PRICE * UNIT,
                       LAMPORTS_PER_SOL * TOKEN_PRICE)
    IN  CeilDiv(raw * (BPS_DENOMINATOR + BUFFER_BPS), BPS_DENOMINATOR)

\* What a Send of this amount takes from the source account.
SendDebit(amount, reimbursement) ==
    amount + reimbursement + CalculateSendServiceFee(amount)
=============================================================================
