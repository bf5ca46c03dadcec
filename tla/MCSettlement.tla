---------------------------- MODULE MCSettlement ----------------------------
(***************************************************************************)
(* Settlement on small numbers: amounts up to twenty, fees and prices      *)
(* whose divisions all leave remainders, and token accounts that differ    *)
(* from an eligible one in one field each.                                 *)
(***************************************************************************)
EXTENDS Settlement

Empty ==
    [program |-> "legacy", owner |-> "wallet", state |-> "initialized",
     delegated |-> FALSE, native |-> FALSE, closeAuthority |-> FALSE, amount |-> 0,
     lamports |-> 11, mint |-> "fungible", canonical |-> TRUE, listed |-> TRUE]

Holding(amount) == [Empty EXCEPT !.amount = amount]

Deviations(a) ==
    {a, [a EXCEPT !.program = "token2022"], [a EXCEPT !.state = "frozen"],
     [a EXCEPT !.native = TRUE], [a EXCEPT !.closeAuthority = TRUE],
     [a EXCEPT !.delegated = TRUE], [a EXCEPT !.lamports = 9],
     [a EXCEPT !.mint = "nft"], [a EXCEPT !.listed = FALSE],
     [a EXCEPT !.canonical = FALSE]}

\* Two accounts vary, a third is always there to exceed a batch.
MCAccounts ==
    {<<Empty, d, Empty>> : d \in Deviations(Empty)}
      \cup {<<d, Empty>> : d \in Deviations(Holding(2))}
      \cup {<<Holding(amount)>> : amount \in {5, 12, 20}}

MCChains ==
    [accounts : MCAccounts, receiving : {"absent", "present", "frozen"},
     fee : {4, 6}, market : {"good"}]

MCAddress == <<"a1", "a2", "a3">>

Asking(action, amount, max, threshold) ==
    [action |-> action, amount |-> amount, max |-> max, threshold |-> threshold]

MCOrders ==
    {Asking("claim", 0, FALSE, 0), Asking("burn", 0, FALSE, 0),
     Asking("recover", 0, FALSE, 3), Asking("recover", 0, FALSE, 9),
     Asking("send", 3, FALSE, 0), Asking("send", 0, TRUE, 0),
     Asking("swap", 12, FALSE, 2), Asking("swap", 19, FALSE, 2),
     Asking("deposit", 5, FALSE, 3)}
=============================================================================
