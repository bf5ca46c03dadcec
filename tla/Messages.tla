------------------------------ MODULE Messages ------------------------------
(***************************************************************************)
(* Transaction messages: how each action builds one, what a wallet may     *)
(* hand back, and which of that the server accepts                         *)
(* (chains/solana/transactions/*.ts).                                      *)
(*                                                                         *)
(* A message is a record.  signers is the prefix of static keys that must  *)
(* sign, its first one pays the network fee; privilege gives every static  *)
(* key the four-way privilege its position and the header encode; an       *)
(* instruction names its program, what it does, the account it does it to  *)
(* and an amount.  Indexes into the key list are resolved to names, as the *)
(* code's accountIdentity resolves them.                                   *)
(***************************************************************************)
EXTENDS Integers, Sequences, FiniteSets, SequencesExt

MAX_LIGHTHOUSE_ASSERTIONS == 4

Instruction(program, op, account, amount) ==
    [program |-> program, op |-> op, account |-> account, amount |-> amount]

(***************************************************************************)
(* Building a message.                                                     *)
(***************************************************************************)
\* The price comes before the limit; amount 0 stands for the policy's value.
CleanComputeBudget ==
    << Instruction("compute", "price", "none", 0),
       Instruction("compute", "limit", "none", 0) >>

CloseAccount(account) == Instruction("token", "close", account, 0)

\* compileToV0Message: the payer first, then the other signer, then the
\* accounts and the programs.  walletPrivilege says whether the wallet itself
\* is written to, i.e. whether lamports go to it.
Compile(instructions, walletPrivilege, lookups) ==
    LET programs == {i.program : i \in Range(instructions)}
        accounts == {i.account : i \in Range(instructions)} \ {"none"}
    IN  [signers |-> <<"payer", "wallet">>,
         privilege |-> [key \in {"payer", "wallet"} \cup programs \cup accounts |->
                           IF key = "payer" THEN "sw"
                           ELSE IF key = "wallet" THEN walletPrivilege
                           ELSE IF key \in programs THEN "-r" ELSE "-w"],
         blockhash |-> "prepared", lookups |-> lookups,
         instructions |-> instructions, payerSigned |-> FALSE, walletSigned |-> FALSE]

BuildClaimTransaction(accounts, settlement) ==
    Compile(CleanComputeBudget
              \o [k \in 1 .. Len(accounts) |-> CloseAccount(accounts[k])]
              \o << Instruction("system", "transfer", "feeDestination", settlement) >>,
            "sw", "none")

BuildBurnTransaction(account, amount, settlement) ==
    Compile(CleanComputeBudget
              \o << Instruction("token", "burn", account, amount),
                    CloseAccount(account),
                    Instruction("system", "transfer", "feeDestination", settlement) >>,
            "sw", "none")

\* The setup instruction creates the wrapped SOL account at the sponsor's
\* expense; the cleanup closes it to the wallet, in lamports.
BuildRecoverTransaction(account, amount, settlement, includeSetup) ==
    Compile(CleanComputeBudget
              \o (IF includeSetup
                    THEN << Instruction("ata", "create", "wrapped", 0) >> ELSE << >>)
              \o << Instruction("jupiter", "swap", account, amount),
                    CloseAccount(account),
                    Instruction("token", "unwrap", "wrapped", 0),
                    Instruction("system", "transfer", "feeDestination", settlement) >>,
            "sw", "route")

BuildSendTransaction(amount, reimbursement, serviceFee, recipientAtaExists) ==
    Compile(CleanComputeBudget
              \o (IF recipientAtaExists
                    THEN << >> ELSE << Instruction("ata", "create", "recipient", 0) >>)
              \o << Instruction("token", "pay", "recipient", amount),
                    Instruction("token", "pay", "reimbursement", reimbursement),
                    Instruction("token", "pay", "serviceFee", serviceFee) >>,
            "sr", "none")

\* The limit comes first; the price is whatever Jupiter supplied.
BuildSwapTransaction(source, routed, reimbursement, serviceFee, outputAtaExists) ==
    Compile(<< Instruction("compute", "limit", "none", 0),
               Instruction("compute", "price", "none", 0) >>
              \o (IF outputAtaExists
                    THEN << >> ELSE << Instruction("ata", "create", "output", 0) >>)
              \o << Instruction("jupiter", "swap", source, routed),
                    Instruction("token", "pay", "reimbursement", reimbursement),
                    Instruction("token", "pay", "serviceFee", serviceFee) >>,
            "sw", "route")

(***************************************************************************)
(* What comes back.  Phantom reorders the compute instructions and appends *)
(* Lighthouse assertions; any wallet may hand back something else.         *)
(***************************************************************************)
LimitFirst(m) ==
    IF m.instructions[1].op = "price"
      THEN [m EXCEPT !.instructions = <<@[2], @[1]>> \o SubSeq(@, 3, Len(@))]
      ELSE m

WithKey(m, key, privilege) ==
    [m EXCEPT !.privilege = [k \in DOMAIN @ \cup {key} |->
                                IF k = key THEN privilege ELSE @[k]]]

Assertions(op, count) ==
    [k \in 1 .. count |-> Instruction("lighthouse", op, "wallet", 0)]

Guarded(m, op, count) ==
    [WithKey(LimitFirst(m), "lighthouse", "-r")
        EXCEPT !.instructions = @ \o Assertions(op, count)]

Normalised(m) ==
    {m, LimitFirst(m), Guarded(m, "assert", 1),
     Guarded(m, "assert", MAX_LIGHTHOUSE_ASSERTIONS + 1), Guarded(m, "write", 1),
     WithKey(Guarded(m, "assert", 1), "lighthouse", "-w")}

Tampered(m) ==
    LET last == Len(m.instructions)
        amounts == {k \in 1 .. last : m.instructions[k].op \in {"transfer", "pay", "deposit"}}
    IN  {[m EXCEPT !.blockhash = "other"],
         [m EXCEPT !.lookups = "other"],
         [m EXCEPT !.signers = <<"wallet", "payer">>],
         [m EXCEPT !.privilege["wallet"] = "-w"],
         WithKey(m, "stranger", "-w"),
         [m EXCEPT !.instructions[1].amount = @ + 1],
         [m EXCEPT !.instructions = RemoveAt(@, 1)],
         [m EXCEPT !.instructions = RemoveAt(@, last)],
         [m EXCEPT !.instructions =
             Append(@, Instruction("token", "pay", "stranger", 1))],
         [m EXCEPT !.walletSigned = FALSE],
         [m EXCEPT !.payerSigned = TRUE]}
          \cup {[m EXCEPT !.instructions[k].amount = @ - 1] : k \in amounts}
          \cup {[m EXCEPT !.instructions[k].account = "wallet"] : k \in amounts}

WalletReturns(m) ==
    LET signed == [m EXCEPT !.walletSigned = TRUE]
    IN  UNION {{n} \cup Tampered(n) : n \in Normalised(signed)}

(***************************************************************************)
(* validatePhantomCompatibleTransaction: the same bytes, or one narrow     *)
(* normalisation of them.                                                  *)
(***************************************************************************)
\* The message without its signatures: what is hashed and signed.
Body(m) == [m EXCEPT !.payerSigned = FALSE, !.walletSigned = FALSE]

ComputeKind(i) ==
    IF i.program # "compute" THEN "none"
    ELSE IF i.op \in {"limit", "price"} THEN i.op ELSE "unsupported"

ComputeInstructions(m) == SelectSeq(m.instructions, LAMBDA i : ComputeKind(i) # "none")

SameKeys(prepared, returned, hasLighthouse) ==
    DOMAIN returned.privilege =
        DOMAIN prepared.privilege \cup (IF hasLighthouse THEN {"lighthouse"} ELSE {})

SamePrivileges(prepared, returned) ==
    \A key \in DOMAIN prepared.privilege :
        returned.privilege[key] = prepared.privilege[key]

LighthousePrivilege(returned, hasLighthouse) ==
    hasLighthouse => returned.privilege["lighthouse"] = "-r"

\* Exactly a limit and a price, in front, with the prepared values; the
\* returned message must have them in that order.
SameCompute(prepared, returned) ==
    LET before == ComputeInstructions(prepared)
        after  == ComputeInstructions(returned)
    IN  /\ Len(before) = 2 /\ Len(after) = 2
        /\ \A k \in 1 .. 2 : ComputeKind(before[k]) # "unsupported"
        /\ before = SubSeq(prepared.instructions, 1, 2)
        /\ after = SubSeq(returned.instructions, 1, 2)
        /\ Range(before) = Range(after)
        /\ ComputeKind(after[1]) = "limit" /\ ComputeKind(after[2]) = "price"

EconomicInstructions(m) == SubSeq(m.instructions, 3, Len(m.instructions))

LighthouseAssertionIsSupported(i, preparedKeys) ==
    /\ i.program = "lighthouse"
    /\ i.op = "assert"
    /\ i.account \in preparedKeys

\* After the prepared instructions, only assertions, and not too many.
SameEconomics(prepared, returned, hasLighthouse) ==
    LET expected == EconomicInstructions(prepared)
        tail     == EconomicInstructions(returned)
        extra    == SubSeq(tail, Len(expected) + 1, Len(tail))
    IN  /\ IsPrefix(expected, tail)
        /\ IF hasLighthouse
             THEN /\ Len(extra) \in 1 .. MAX_LIGHTHOUSE_ASSERTIONS
                  /\ \A k \in DOMAIN extra :
                        LighthouseAssertionIsSupported(extra[k], DOMAIN prepared.privilege)
             ELSE extra = << >>

ValidatePhantomCompatibleTransaction(prepared, returned) ==
    LET hasLighthouse ==
            DOMAIN returned.privilege \ DOMAIN prepared.privilege = {"lighthouse"}
    IN  \/ Body(prepared) = Body(returned)
        \/ /\ returned.blockhash = prepared.blockhash
           /\ returned.lookups = prepared.lookups
           /\ SameKeys(prepared, returned, hasLighthouse)
           /\ SamePrivileges(prepared, returned)
           /\ LighthousePrivilege(returned, hasLighthouse)
           /\ SameCompute(prepared, returned)
           /\ SameEconomics(prepared, returned, hasLighthouse)

(***************************************************************************)
(* What the server takes.                                                  *)
(***************************************************************************)
Programs(m) == {i.program : i \in Range(m.instructions)}

SignedBySender(m) == m.walletSigned /\ ~m.payerSigned

ValidateSignedClean(prepared, returned, allowLookupTables) ==
    /\ ValidatePhantomCompatibleTransaction(prepared, returned)
    /\ ~allowLookupTables => returned.lookups = "none"
    /\ returned.blockhash = prepared.blockhash
    /\ returned.signers = <<"payer", "wallet">>
    /\ Programs(returned) \subseteq Programs(prepared) \cup {"lighthouse"}
    /\ SignedBySender(returned)

ValidateSignedSend(prepared, returned) ==
    /\ ValidatePhantomCompatibleTransaction(prepared, returned)
    /\ returned.lookups = "none"
    /\ returned.blockhash = prepared.blockhash
    /\ returned.signers = <<"payer", "wallet">>
    /\ Programs(returned) \subseteq Programs(prepared) \cup {"lighthouse"}
    /\ SignedBySender(returned)

\* No list of programs, no count of signers, and a payer's signature that
\* is already there is not looked at.
ValidateSignedSwap(prepared, returned) ==
    /\ ValidatePhantomCompatibleTransaction(prepared, returned)
    /\ returned.signers[1] = "payer"
    /\ returned.blockhash = prepared.blockhash
    /\ "wallet" \in Range(returned.signers)
    /\ returned.walletSigned
=============================================================================
