------------------------------ MODULE Accounts ------------------------------
(***************************************************************************)
(* Which token accounts an action may touch                                *)
(* (chains/solana/*/accounts.ts).  An account is a record of the fields of *)
(* the SPL layout that the code reads, with the lamports it holds; mint    *)
(* says what the accounts of its mint are, and listed whether the token    *)
(* registry lists it for Recover Value.                                    *)
(***************************************************************************)
EXTENDS Naturals, Sequences

Account ==
    [program : STRING, owner : STRING, state : STRING, delegated : BOOLEAN, native : BOOLEAN,
     closeAuthority : BOOLEAN, amount : Nat, lamports : Nat, mint : STRING,
     canonical : BOOLEAN, listed : BOOLEAN]

\* Fault: the close authority is not looked at.
PlainIgnoringCloser(a) == ~a.delegated /\ ~a.native

\* Only the wallet itself decides about the account: nothing is delegated,
\* it is not wrapped SOL and nobody else may close it.
Plain(a) == ~a.delegated /\ ~a.native /\ ~a.closeAuthority

Ordinary(a) ==
    /\ a.program = "legacy"
    /\ a.owner = "wallet"
    /\ a.state = "initialized"
    /\ Plain(a)

InspectClaimAccount(a) == Ordinary(a) /\ a.amount = 0 /\ a.lamports > 0

InspectBurnAccount(a) ==
    /\ Ordinary(a)
    /\ a.mint = "fungible"
    /\ a.amount > 0
    /\ a.lamports > 0

InspectRecoverAccount(a) == InspectBurnAccount(a) /\ a.canonical /\ a.listed

\* The canonical account of a token that is listed for Send and Swap; an
\* empty one is a balance of zero.  Only tokens of the legacy program are
\* modelled, not the Token-2022 ones (xStocks) that are listed for Send too.
InspectSendTokenAccount(a) == Ordinary(a)

Inspect(action, a) ==
    \/ action = "claim" /\ InspectClaimAccount(a)
    \/ action = "burn" /\ InspectBurnAccount(a)
    \/ action = "recover" /\ InspectRecoverAccount(a)

\* The positions of the eligible accounts, in the order of their addresses.
Discover(action, accounts) ==
    LET found[n \in 0 .. Len(accounts)] ==
            IF n = 0 THEN << >>
            ELSE IF Inspect(action, accounts[n]) THEN Append(found[n - 1], n)
            ELSE found[n - 1]
    IN  found[Len(accounts)]

\* The first transaction's worth of them.
BatchClaimAccounts(found, maximum) ==
    SubSeq(found, 1, IF Len(found) < maximum THEN Len(found) ELSE maximum)
=============================================================================
