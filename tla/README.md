# GASLESS: a TLA+ model of the sponsored transactions

GASLESS lets a wallet without SOL close accounts, burn, send, swap or bridge:
a relayer (Kora) signs as fee payer, the user signs, and the server broadcasts
the bytes and settles what became of them. This directory holds TLA+ modules
translated from the source, the TLC configurations that check them on small
instances, and theorems about them that TLAPS proves for every instance. Paths
below are relative to the repository's root.

## 1. Inventory

| component | state it keeps | operations | modules |
|---|---|---|---|
| Sponsorship budget (`server/storage/temporary.ts`, `server/risk/operational.ts`) | three counters per transaction (network, wallet, wallet and action), one reservation per transaction, each with an expiry | reserve, release, expire | SponsorshipExposure |
| Clean submission (`server/clean/submission.ts`, `server/solana/rpc.ts`) | none of its own: round, answers of the providers | broadcast rounds, observe a signature, confirm | CleanSubmission |
| Burn engine (`server/burn/engine.ts`) | the stored quote, the durable record, replay locks, accounting | createQuote, prepare, activateSigningWindow, aborts, submit, reconcileStatus | BurnEngine |
| Claim, Recover, Send, Swap engines (`server/*/engine.ts`) | the same, of their own kind | the same, Swap without aborts and status requests | Attempt, ClaimEngine, RecoverEngine, SendEngine, SwapEngine, Engines |
| Devnet proof engine (`server/transactions/engine.ts`) | quote, record | createQuote, prepare, submit, confirm, reconcile | ProofEngine, Engines |
| Cross-chain sponsorship (`server/cross-chain/*.ts`) | record, attempt, locks, reservation | prepareSignOnly, submitSigned, abortSignOnly, expire, reconcile | CrossChainLifecycle |
| Messages, fees, accounts (`chains/solana/**`) | none | build a message, validate what the wallet returns, compute fees, inspect accounts | Economics, Accounts, Messages, RelayDeposit |
| The amounts of an action, from its quote to its reconciliation (`server/*/engine.ts`) | quote, message, receipt | quote, prepare, approve, submit, reconcile | Ledger, Settlement |
| Wallet session, browser verification, routing (`server/session/service.ts`, `server/abuse/browser-verification.ts`, `BrowserVerificationGate.tsx`, `server/index.ts`) | sessions, one-time tokens, rate windows | challenge, verify, create, expire, check a request | Access |
| Consoles (`src/features/**`) | the panel's state, its requests in flight, its submission, what it remembers in local storage | scan, preview, approve, sign, submit, poll, cancel | Console |
| Durable store, temporary store | records and accounting; quotes, locks, sessions, counters | as the components above use them | inside those |
| Emergency controls, prices, Jupiter, token registry, HTTP wiring, configuration | caches at most | remote calls | none (section 5) |

What is hard here is never in one function. No request holds a transaction over
the quote, the record and the reservation: they live in two stores, each handler
works on a copy of the quote it loaded, every write is an `await`, nothing
retries in the background, and a serverless process may die anywhere. The
consoles have the same trouble on a smaller scale: answers arrive after the
wallet, the form or the panel's state have changed. What makes the system
correct, by component:

- Budget: counters stay within their caps; they show what live reservations add
  up to and no more, and all of what the reservations charged to them add up to.
- Clean submission: each verdict (success, chain error, expired) means what the
  engines take it for; bytes are not sent late; a verdict is reached.
- Engines: the payer signs at most once per quote; nothing is broadcast that is
  not on record; the reservation is given back only when nothing can land; a
  failed attempt never lands; what is called reconciled is in the books; a
  submitted attempt is settled in the end.
- Cross-chain: as for the engines, with Relay's word for the destination.
- Amounts: the sponsor gets back what it spends, the wallet at least what it was
  shown; what landed as approved reconciles; nothing that is offered is refused.
- Access: one solved challenge buys one session; whoever keeps trying gets in.
- Consoles: what is offered fits the form; nothing is left prepared when an
  approval is broken off; an approval ends; what is submitted is what the user
  acknowledged.

`PROJECT.json` lists the hazards line by line, with the properties that cover
each or the reason why none does.

## 2. Modules

    SponsorshipExposure          CleanSubmission         CrossChainLifecycle
                                                         BurnEngine
    Attempt <- ClaimEngine, SendEngine, RecoverEngine, SwapEngine, ProofEngine
            <- Engines (an INSTANCE of each) --refines--> SponsoredAttempt
    Economics, Accounts, Messages <- RelayDeposit <- Ledger <- Settlement
    Access                       Console

Each has an `MC` module with the small sets its configurations use; `...Proofs`
modules hold the theorems. What one module takes for granted of another is
named where it does: the engines' verdict `Observable` is what
`CleanSubmission` shows of a verdict; the order of requests (`Disciplined`) is
the order in which the panels of `Console` send theirs; the match of a landed
transaction with its quote (`Matches`) is `Reconcile` of `Settlement`.

### SponsorshipExposure (and its proofs)

| in the model | in the code |
|---|---|
| `counter[k]`, `reservation[t]`, `now` | `gasless:sponsor:<key>`, `gasless:sponsor-reservation:<id>`, the store's clock |
| `Reserve(t)` | `reserveTransactionExposure` over the script of `reserveSponsorshipExposure` |
| `Release(t)` | `releaseTransactionExposure` over the script of `releaseSponsorshipExposure` |

Each action is one script, which Redis runs atomically (the in-memory store is
synchronous). A refusal, a retry of a live reservation and a release without a
reservation change nothing and are not steps. The two clocks matter: a counter
keeps the expiry of the reservation that created it (`Charged`), a reservation
lives a whole window from its own start. So a reservation may outlive the counter
it was charged to (`Older`), and when it is given back a newer counter under the
same key may pay: `strayed` is a history variable that remembers which did.

### CleanSubmission (and its proofs)

One observer and a cluster seen through several providers. `StartRound`,
`Broadcast`, `ReadStatus`, `AskHeights`, `ReadHeight`, `ConcludeFromStatuses`,
`ConcludeFromHeights` and `Conclude` are `broadcastAndConfirmClean` and
`observeCleanSignature`; `ObserveAgain` is a turn of `confirmCleanSignature` or
a client's status request. The answers of one `Promise.all` arrive one by one,
and blocks are produced in between. The cluster (external) confirms blocks or
drops their fork; a provider lags by any amount and may answer what it has only
processed. The `at` of an absent status is the context slot of the RPC answer:
the code does not look at it and neither does the model, it is there for the
property `ExpiredOnlyByRace`.

### BurnEngine (and its proofs)

| in the model | in the code |
|---|---|
| `quote`, `record` | `gasless:quote:<id>`; the `transactions` row (status, signature) |
| `lock` | the replay lock `burn-submission:<quote>` (its time to live of a day outlasts the prepared message by far; the keys of the message and the request come after it and decide nothing more) |
| `exposure` | this transaction's reservation |
| `accounted` | the rows of `recordBurnAccounting` |
| `copy[h]`, `pc[h]` | the quote a request holds, the `await` it is at |
| `payer`, `wire`, `landed`, `height` | ghosts of the outside world: how often Kora signed, whether bytes went out, the chain's answer |
| `Prepare*` | route `/api/burn/prepare`: `prepare`, the reservation, `activateSigningWindow` |
| `AbortLoad`, `Fail*` | `currentWalletGateBlockHeight` failing, `abortWalletGate`, `abortWalletApproval`, `failAfterWallet` |
| `Submit*`, `Catch*` | `submit` and its catch clause |
| `SubmitObserve` .. `SubmitThank`, `End*` | `reconcile`, `expireSubmittedBurn`, `releaseSuccessfulExposure`, `failDurableSubmission` |
| `Poll*` | `reconcileStatus`, `reconcileDurableSubmission` |
| `Stop` | a process that dies, or a call that throws outside a catch clause |

One action is what a handler does between two writes that others can see. The
verdict of an observation is a choice (`Observable`): with `SoundObservation`
it is what the chain says, without it the choice includes what
`CleanSubmission` shows an observation can get wrong. `AccountLag` lets the
token account be read from a provider that is behind. `Disciplined` restricts
the requests to the order `BurnConsole` sends them in: one prepare, then an
abort or a submission (which may be repeated once it has ended), status
requests at any time. The model starts with a saved quote: `createQuote`
validates, takes its request lock and saves it. The intent's status and the
audit events are written by this code and never read by it.

### Attempt, the other engines and Engines

`Attempt` holds what the engines share: `db` (quote, record, lock, reservation,
accounting), `chain` (Kora's signatures, the wire, the chain's answer, the
height), `at` and `copy` (where each handler is and the quote it holds), the
forms a step takes (`Do`, `Go`, `Write`, `Take`, `Throw`, `Chain`) and what is
around the handlers (`Stop`, `NextBlock`, `Land`, `Forget`). Each engine module
then says which steps there are, in the names of its methods: `Prepare*`,
`Abort*`, `Submit*`, `Catch*`, `Poll*`, `Settle*`. A quote has two statuses, its
own and that of the operation in it (`batch`, `sends`, ...), because the code
writes them separately. Where the engines differ is the point:

- Claim takes four locks in a row, saves its batch before the status of the
  quote, and can settle from the durable record alone.
- Send's status request needs the stored quote, which expires; its failures
  record first and release second.
- Recover cleans up a submission that fails before the crossing too, after its
  locks have been released, and asks the durable record first. For a record that
  is not submitted its status request then awaits the heights and decides from
  the record it had read: `PollLoad` and `PollHeights` are two steps, between
  which anything may happen.
- Swap has neither status requests nor aborts: what a dead submission left
  behind only a repeated one settles.
- The Devnet proof broadcasts before it records, and reserves nothing.

`Engines` instantiates all five; a behaviour is an attempt of one of them, so
that one run asks a question of every engine. `SponsoredAttempt` is what all of
them promise the operator of the budget: a reservation taken once and given
back once, a payer that signs once, and bytes that are on their way only while
the reservation is held. `Promise` instantiates it with the reservation, whether
Kora has signed, and the fate of the bytes as the mapping; `KeepsPromise`
(`Promise!Spec`) is the refinement.

### CrossChainLifecycle (and its proofs)

| in the model | in the code |
|---|---|
| `intent` | the build whose row of `transaction_intents` has the quote, whose unique key decides between racing builds |
| `record` | the `transactions` row of that build: status, `crossChainStatus`, and whether signature, `failedAt` and `errorCode` are set |
| `attempt` | whether the payer-signed bytes were saved for a submission |
| `exposure[b]` | the reservation of each build, which has a transaction identity of its own |
| `lock` | the replay lock `cross-chain-submit:<transaction>`, which nothing releases |
| `pc[h]`, `held[h]` | the `await` a handler is at; the two statuses it has read or is about to write |
| `payer`, `wire`, `landed`, `relay`, `height` | the outside world: Kora's signatures, broadcasts, the chain's answer, what Relay answers, the block height |
| `Build*` | `prepareSignOnly`, with `sponsorSignValidatedRelayTransaction` |
| `Submit*` | `submitSigned`, with `assertFinalSimulation` and `confirmSource` |
| `FailRelease`, `FailRecord`, `CatchSent` | the catch clauses of both |
| `Poll*` | `reconcile` |
| `Close*` | `abortSignOnly` and `expire`, which only tests call |

Unlike in the engines Kora signs first, and the user is handed the payer-signed
bytes. From then on (`Answered`) they may land until their last valid block, with
or without a submission, because the user can sign and broadcast them himself:
`Land` does not ask who did. The server can refuse a submission before it has
sent anything (a failed simulation, too few blocks left, no heights) and then
gives the reservation back and records a failure at once, while the bytes are
still good in the user's hands. `LeftToUser` names that state; the properties
about reservations and failures are stated around it and nothing else (weakness
14). A write that fails changes nothing; a handler that dies is one that takes
no further step, as nothing but the client's fairness is assumed. The lock of a
build is for one quote and message, so it excludes another build only if both
messages have the same recent blockhash: `BuildLock` may let both pass. With
`SoundProviders` every provider is of the right network and an error status is
final; without it the broadcast may throw after some provider took the bytes,
and confirmation may see what `CleanSubmission` shows can be seen.
Relay is external: it says `waiting` until the deposit has landed, then any of
the words in `Underway`, in any order and any number of times, until it says how
it ended; an answer that is unknown, or none, is possible at any time.

### Economics, Accounts, Messages, RelayDeposit, Ledger and Settlement (and its proofs)

| in the model | in the code |
|---|---|
| `Economics` | the `calculate*` functions of `chains/solana/transactions/*.ts`, with their roundings |
| `Accounts` | `inspect*Account`, `discover*Accounts`, `batchClaimAccounts`; an account is the record of the fields they read |
| `Messages` | the `build*Transaction` functions, `validateSigned*` with the Lighthouse instructions a wallet may add, and `WalletReturns`, the things a wallet may hand back |
| `RelayDeposit` | `relay/order.ts`, `relay/validator.ts`: Relay's answer, the order and its id, what the validator binds, the deposit message |
| `Ledger` (external) | what Solana does with a message: `Succeeds`, `After`, `Receipt` |
| `Settlement` | one attempt of one action: `Quote*`, `Prepare*`, `Approve`, `Submit*`, `Land`, `Reconcile`; `SearchMax` is one turn of the bisection of `calculateSendMax`, `RouteSwap` one turn of `stabilizeSwap` |
| `Change` | what anybody else does to the chain, once, at any moment: the receiving account is created, frozen or closed, a stranger sends lamports or tokens, the wallet spends elsewhere, the market moves |

An instruction is a record of program, operation, account and amount; a message
keeps the privileges of its accounts, because the validators compare them. A
swap's amounts are in the token, a Claim's in lamports; both are small integers
whose divisions leave remainders. `DepositMoves` is the simulation of a
cross-chain deposit, which must move exactly the amount from the wallet to the
vault.

### Access

The page's gate (`page`, `post`, `token`) and the requests behind it (`wallet`,
`server`, `request`) share nothing but a living browser session, so a behaviour
is about one `half` of them. `Limited`, `Siteverify`, `Lock`, `Answered` and
`Refuse` are the steps of `POST /verify`; `Startup`, `Browser`, `Wallet`,
`Controls`, `Rate`, `Route` and `Done` are the checks of `server/index.ts` in
their order. Times to live count down with `Tick`, so nothing is bounded by a
clock. Turnstile is external: it confirms a token again under the request id it
was confirmed under, and `AnswerLost` loses an answer.

### Console

The six panels in one module, because they differ in a few named habits only:
`Remembers` (local storage), `ChecksLive` (the live wallet address), `Guarded`
(numbered quote requests), `Timed` (quotes on a timer), `GivesBack` (aborts what
it does not submit), `Confirms` (a checkbox). `view` is React state, `lock` and
`gen` are refs, `scans`, `asks` and `job` are the continuations in flight, each
with the wallet, session and input it captured. The user's, the answers' and
the network's steps interleave freely; the server is what a panel can see of it.
The wallet may change at any moment, also during an approval. In Swap that resets
the form's requests but not the submission, which goes on under what it captured
(`moved`), and the quote it asks for when it is broken off is numbered as the
newest though it is of the old form and wallet (`stray`, weakness 16).

## 3. Runs

| run | instance | question | result |
|---|---|---|---|
| `sponsorship` | 3 transactions, 2 wallets, 2 actions, caps that two of them fill, window 3, clock to 8 | caps; do counters show what is reserved, no more and no less? | pass, 20,312 states |
| `clean_submission` | 2 providers, 2 rounds, floor 2, last valid block 3, 4 blocks, 1 failed request | what verdicts mean; is one reached? | pass, 522,426 states |
| `burn_contention` | a prepare, an abort, 2 submissions, a poller, in any order; unreliable verdicts and account reads | payer signs once, broadcast is on record, books are true | pass, 1.7 million states |
| `burn_console` | a prepare, an abort, a submission, a poller in the console's order; 2 faults | reservations, failed burns, final records; is a submitted burn settled? | pass, 3,074 states |
| `cc_contention` | 2 builds, 2 submissions, a status request, an abort or expiry, in any order; unsound providers | payer signs once, one broadcast, on record | pass, 2.4 million states |
| `cc_settle` | a build, a submission, a client that keeps asking beside a delayed request; 1 fault; sound providers; a user who may broadcast himself | reservations and failures; does a failure last, is a completed transfer reconciled? | pass, 474,250 states |
| `engines_contention` | each of the five engines: a prepare, 2 submissions, a poller, in any order; a provider that lags | payer signs once, broadcast is on record, books are true | pass, 1.5 million states |
| `engines_console` | each of the five engines: a prepare, an abort, a submission, a poller in the console's order; 2 faults | the refinement of `SponsoredAttempt`; failures; is a submission settled? | pass, 22,702 states |
| `settlement` | amounts to 20, two fees, every deviation of an account by one field, every kind of wallet tampering, one change of the chain | does everybody get what they were promised, does what landed reconcile, is the maximum maximal? | pass, 82,879 states |
| `access` | 2 tokens, 2 deliveries, 1 request, windows of 1 or 2 ticks | one session per token; does the gate open? | pass, 40,508 states |
| `console` | all six panels, 2 wallets, 2 inputs, 2 quotes, 3 moves of the user, 1 lost message | offers fit, nothing left prepared; does an approval end? | pass, 631,693 states |
| `console_acknowledged` | Burn and its checkbox | is what is burned what was on screen when the box was ticked? | violated |

The violated run: the preview request of Burn is not numbered and its answer is
taken whatever was selected in between. The user selects a token, asks for a
preview, selects another while the request is under way (the selector is not
disabled), and gets the preview of the other; or ticks the box and has the quote
replaced under it. `BurnConsole.tsx:184` has the user declare "I understand that
my entire {burnedAmount} TOKEN {shortMint(view.burn!.account.mint)} balance in
this account will be permanently destroyed and cannot be recovered.", with the
account of whatever quote is on screen, and the tick outlives that quote.

### Bounds

The last valid block is small because only three zones of height are
distinguished: with margin, valid without margin, expired; each is reached (in
`engines_console`, block 0, block 1 and block 2). The window of 3 and the clock
of 8 let a counter be created, expire, be created again and expire under a
reservation. Two submissions suffice for every race over the lock: they are the
only requests that take it, and a third would meet what the second meets. The
contention runs have no faults, because their failures are choices of the
handlers already (every check may fail, Kora may refuse) and their handlers may
each be left where they are for ever, which is what a crash is; the stores'
failures inside the catch clauses are in the console runs, and the theorems
cover any number of faults. In `engines_contention` the first block is the last
valid one: what the margins decide is a choice of refusing there, and the run is
about the locks. States that differ only in a copy nobody reads again are
identified (`View`), and the two submissions are interchangeable. In
the cross-chain runs the last valid block is 0 with no margin: a submission may
be refused at the heights for any of several reasons anyway, and what matters is
whether the bytes can still land. Of the words Relay says on the way each run has
one, `depositing` in `cc_settle` (which an unknown answer leaves as it is) and
`refund` in `cc_contention`; the theorems are for all of them. Two status
requests are one that is delayed and one that goes on; each may start anew
after its answer, so there are arbitrarily many.

In `settlement` a basis of 10 with a fee of 3 and a buffer of 1, a token price
of 5, a SOL price of 7 and units of 4 and 10 make every division leave a
remainder for some amount to 20, the cap on Send's fee is reached within the
range, and two accounts vary while a third overfills a batch of two. One change
of the chain is enough for each equation of reconciliation to break when a check
is dropped, which is how the checks' mutants are found. In `access` two tokens
let one be in a session while the other is bought, two deliveries are a request
and its repetition; a lock's and a token's life are equal, as in the code, where
both are 300 seconds. In `console` three moves are: connect, change the wallet, and
change the form or leave; filling in an empty form is not counted, so that three
moves reach a change of wallet and of form under an approval. Two quotes are a
stale and a fresh one.

Deadlock is not checked where a run ends when its clock, its blocks, its moves
or its requests do; `access` never ends, and there it is checked.

### Fairness

- `CleanSubmission`: requests end (each has a time limit), blocks are produced,
  providers follow; that a transaction executes is not assumed.
- `PollSpec` of `BurnEngine` and of `Engines`: the client keeps asking for the
  status (the consoles do while a submission is pending), blocks are produced,
  and an observation repeated for ever decides, which is `EventuallyDecided` of
  `CleanSubmission`. No submission is assumed to make progress.
- `ClientAsks` of `CrossChainLifecycle`: one client whose status requests get on
  and now and then meet a Relay that answers; the others may stop anywhere.
  `CrossChainPanel` asks every five seconds for twenty minutes or until its first
  terminal answer, so the liveness properties hold of a client that does not
  stop there, or that comes back.
- `PatientSpec` of `Access`: the user tries again when the gate fails, time
  passes, and each step that can fail succeeds if it is tried often enough; the
  rate window is not assumed to be kind.
- `FairSpec` of `Console`: requests are answered or fail, and block heights
  grow. The wallet and the user owe nothing, which is what `ApprovalEnds` is
  about.

Every property has a mutant, a plausible bug in the code that violates it; the
mutants stand beside the definitions they change, marked "Fault".

### Known weaknesses

Behaviour of the code that the models have and that some property had to be
stated around; each is visible in the module named.

1. A reservation made while an older one's counter is live outlives that
   counter. Releasing it afterwards throws and gives nothing back
   (`server/storage/temporary.ts:108`, and `Release` of `SponsorshipExposure`
   is then impossible); a release after expiry is tested for a reservation
   that is gone, not for a counter that is. When another counter has been made
   under the same key, the release takes its cost from that one (line 110), which
   never counted it: it then shows less than its reservations hold, and the
   caps let through more than they should until it expires. `CountsItsOwn` holds
   of every counter this has not happened to.
2. An error status counts at any confirmation level, also on a fork that is
   dropped: the attempt fails, and the transaction may still land
   (`server/clean/submission.ts:23`).
3. Statuses are read before heights, so a transaction landing in between is
   declared expired: `ExpiredOnlyByRace` holds, "expired means it never
   landed" does not.
4. A second submission that loses the replay lock writes
   `awaiting_user_signature` from its stale copy over a submitted record
   (`server/burn/engine.ts:233`; Claim, Send and Swap do the same); a status
   request then answers `not_submitted`, and a console forgets the quote.
5. `reconciled` is written before the accounting; a process that dies in
   between leaves it unaccounted, as a status request trusts `reconciled`
   (`server/burn/engine.ts:259`).
6. The transaction comes from any provider, the token account from the first
   that answers; if that one is behind, a burn that landed is recorded failed
   (`server/burn/engine.ts:251`).
7. After the 35 seconds of `confirmSource` nobody looks at Solana again: a
   source transaction that fails or expires later leaves a record that awaits
   a signature for ever, and a reservation nobody gives back
   (`server/cross-chain/lifecycle.ts:160`).
8. A delayed status request writes an older word of Relay over a reconciled
   record: `CompletedIsReconciled` holds of a client that asks again, "a
   reconciled record stays reconciled" does not.
9. A Send that landed with an error is answered as failed and written nowhere:
   its record stays submitted (`server/send/engine.ts:269`). A Send's status
   request needs the quote and fails once that has expired
   (`server/send/engine.ts:71`).
10. The Devnet proof broadcasts before it records the signature
    (`server/transactions/engine.ts:98`).
11. A Swap whose receiving account somebody else creates after the last check,
    or whose network fee is not the one the node had estimated, lands and is
    recorded failed: the payer's debit is compared exactly
    (`server/swap/engine.ts:137`, `chains/solana/transactions/swap.ts:101`).
12. A Recover submission that fails frees its locks before it cleans up, so a
    second one may go through while the first gives the reservation back and
    writes `failed` (`server/recover/engine.ts:179`).
13. An abort in a second tab, while a submission is under way in the first,
    gives the reservation back under it (`server/burn/engine.ts:165`).
14. A cross-chain submission that is refused before its broadcast
    (`server/cross-chain/lifecycle.ts:87`, 93, 95) gives the reservation back and
    records a failure (126 to 128), although the user holds payer-signed bytes
    (54 to 59) that he may broadcast himself for as long as their blockhash
    lives: the sponsor then pays for what is no longer reserved, and a transfer
    on record as failed completes. `ReleasedIsSettled`, `FailedNeverLeaves` and
    `CompletedIsReconciled` except it by name (`LeftToUser`).
15. A status request of Recover that finds the record unsubmitted awaits the
    heights and writes `failed` over whatever the record says by then, a
    submission that landed and was reconciled included
    (`server/recover/engine.ts:89` to 97). It does so only after the last valid
    block, so what it fails can no longer land, and the reservation was due
    anyway; but it may have landed.
16. A Swap submission that is broken off asks for a new quote through the
    `requestQuote` it captured. If the wallet has changed meanwhile, the answer
    stands as an offer under the new wallet and form, for the old ones
    (`SwapConsole.tsx:142`, 187 to 200).

## 4. Theorems

All are proved for any value of the constants, under the named assumptions of
the modules (`ConstantsAssumption`: costs positive, caps and bounds natural
numbers, the kinds of requests disjoint; `EconomicsAssumption`,
`LedgerAssumption`, `SettlementAssumption`, `AccessAssumption`, and `KindsAssumption`: a console is
one of the six panels), which TLC evaluates in every run.

- **SponsorshipExposureProofs.** `TypeCorrect`, `CapsHold`,
  `NothingIsCountedTwice`, `OwnSharesAreCounted`.
  `CapRespected` is inductive as it stands: time only takes counters away, a
  reservation checks all three limits, a release only lowers. `NoPhantomExposure`
  compares a counter with the sum of its live reservations, from above, and
  `CountsItsOwn` with the sum of those charged to it, from below. For both the
  invariant is about `Covering(k)`, the reservations that end no sooner than the
  counter does. From above (`Covered`) that is enough. From below (`Counted`) a
  counter must not have paid back for an older one (`strayed`), and one that is
  gone must leave nothing behind that a counter made at the same instant would
  seem to have charged (`Exact`). The sums are over
  arbitrary finite sets, and the library's induction over sets takes an operator
  as a parameter, which the provers cannot instantiate; so the facts about sums
  (`TableExists`, `TablesAgree`, and what adding, removing or changing one cost
  does) are proved by contradiction from a smallest set they would fail for,
  which the well-foundedness of strict inclusion provides.
- **CleanSubmissionProofs.** `TypeCorrect`, `StaysInformed`, `SuccessesAreSound`,
  `ExpiryIsFinal`, `ExpiryIsNoOversight`. The invariant `Informed` says what an answer on the table
  means: a confirmed status is of a transaction that landed, a height is one the
  cluster had reached, and an expired verdict was given above the last valid
  block. Landing needs a lower height, so an expired verdict is final. That an
  expired verdict overlooks nothing needs the age of each absent answer as well.
- **BurnEngineProofs.** `TypeCorrect`; `SignsOnce`, from `SignInv`: until a
  submission has asked Kora it is the only one past the lock, and once Kora has
  signed the lock is never free again; `PersistsFirst`, from `PersistInv`: from
  `persist` on the record is signed, and no write clears a signature;
  `BooksAreTrue`, from `BooksInv`: a handler past its reconciliation has seen
  the transaction succeed, and a copy that says reconciled is held only by one
  that accounted for it or loaded it. Three theorems depend on the order of the
  requests besides. Under `Orderly` (they come in a console's order, and a verdict
  on a signature is not overtaken by the chain) `ReleasesAreSettled` holds for any
  number of submissions, aborts and polls; with providers that know the accounts
  (`~AccountLag`, as in the run) so does `FailuresAreFinal`. Their invariant
  `ConsoleInv` says where handlers may be (`InTurn`), who has sent what (`SentInv`)
  and what a handler knows when it gives back or records a failure (`ToldInv`).
  `SettlementsAreFinal` is for one submission (`OneSubmission`): a second one that
  loses the replay lock writes `awaiting_user_signature` over the record
  (`server/burn/engine.ts:233`, listed under `hazards`), and TLC finds the
  property violated with two.
- **CrossChainLifecycleProofs.** `TypeCorrect`; `SignsOnce`, from
  `OneBuildSigns`: only the build that owns the intent gets to Kora, once;
  `BroadcastsOnce`, from `LockHolderBroadcasts`: the lock is never given up, so
  whoever has broadcast holds it; `BroadcastRecorded`, from `SignedFirst` and
  the lemma that no handler takes the signature away. For sound providers and a
  quote nobody closes (`Sound`), `ReleasesSettled` and `FailuresStayHome`, both
  around the submission that was refused before any broadcast (`LeftToUser`). Their
  argument: `InOrder` says who may be where (no submission before an answered
  build, nobody but the holder past the lock), `WellInformed` what the handlers
  know of chain and Relay (the catch clause for everything unsent is reached
  only with nothing on the wire, or after a chain error). From both follows
  that what the server did not send when it gave up it never will
  (`NeverSentStays`), which makes `SettledForGood` inductive: what is failed is
  hopeless, what is released is over, and neither changes back. What was never
  sent has been handed out or not (`HandedOut`: only what was answered can land);
  if it has, it is the user's to send (`NeverSentIsTheUsers`), and that is the
  exception.
- **EnginesProofs.** `SignsOnce`, `BroadcastPersisted` and `BooksAreTrue` for
  Claim, Send, Recover, Swap and the Devnet proof at once, with any number of
  prepares, submissions, aborts and pollers and any number of faults. The
  invariant `EnginesInv` speaks of no engine: `Shape` (types), `SignInv`
  (whoever is past the lock and not at Kora yet holds the lock, and Kora has not
  signed), `RecordInv` (from `broadcast` on the record is signed; not claimed of
  the Devnet proof, which broadcasts first), `BooksInv` (a copy, a quote or a
  record that says reconciled belongs to a transaction that succeeded). What a
  handler may write (`Fine`) and where a step may lead it (`Leads`) are stated
  once; `StoreStep`, `LockStep`, `UnlockStep`, `KoraStep`, `WireStep` and
  `SurroundingsStep` prove that such steps keep the invariant; and for each
  engine three lemmas (`ClaimMoves`, `ClaimWrites`, `ClaimStep`, ...) show that
  every action of its module is such a step.
  The second half is about what depends on the order of requests as well as on
  the handlers, under `OneConsole`: the requests come in the order of a console
  (`Disciplined`), which submits once. `PromiseKept` is the refinement of
  `SponsoredAttempt`; `FailuresAreFinal` is `FailedNeverLands`, which needs
  providers that know the accounts besides (`~AccountLag`, as in the run). The
  invariant `PromiseInv` has four parts: `InTurn` (one prepare, then aborts or a
  submission), `OnItsWay` (until its broadcast a submission has sent nothing and
  is covered by the reservation, or the transaction's last block is over),
  `HandedOn` (the prepare takes the reservation and hands it to the submission),
  `GivesBack` (whoever gives it back has seen the end, or nothing was sent).
  `FailInv` says that whoever may come to write a failure knows it to be
  hopeless: it landed with an error, its last block is over, or nothing was sent
  and nobody will send (`Closed`); a status request of Recover knows only that
  the last block is over (`Lost`), which is why `FailedNeverLands` lets it fail
  what landed before. What a step may do is said once (`May`,
  `Says`, and `DoesKeeps` that it keeps both), and one lemma per engine
  (`ClaimPromise`, ...) shows that its actions do no more. Why one submission: a
  Recover submission that fails before it reaches Kora gives back its locks and
  its reservation first and marks record and quote as failed afterwards; when
  its handler dies in between, a second submission runs to its broadcast without
  a reservation (TLC shows it with two submissions, and it is listed under
  `hazards`). `engines_console` has one submission as well.
- **ConsoleProofs.** `TypeCorrect`, from `Shape`, which says besides the types how
  panel, request, submission and store belong together: the lock is held exactly
  as long as a submission is active, which names a wallet, a session and a quote.
  `OffersFit`, from `OfferInv`: the newest request asks about the form as it is
  (`AsksForm`), older ones are not accepted, and where an answer is accepted
  unasked nothing else is under way (`SendAsksNothing`, `SwapStands`). The last is
  so while the wallet stays under a submission (`Sticks`); the quote that a Swap
  submission asks for after its wallet has changed is marked `stray` and excepted.
  `NothingIsLeftPrepared`, from `HeldInv`: a preparation that is held and was not
  sent belongs to the submission under way, at a place from which it still sends
  or aborts it (`Owed`), or its answer was lost.
- **SettlementProofs.** `ReimbursementCovers`: the tokens charged for a
  sponsored cost, after both roundings up, are worth at least that cost.
  `DebitGrows`: what a Send takes from the wallet grows with the amount sent,
  whatever the fees and their cap, which is what entitles `calculateSendMax` to
  bisect. Both rest on three lemmas about division. `MaximumFound`: the maximum
  the bisection returns is affordable, and one unit more is not, for every
  balance and price. The invariant keeps the two ends of the search on either
  side of the answer (`Narrowing`); that this suffices is `DebitGrows`.
  `WalletIsPaid`, `SponsorIsPaid`, `LandingsReconcile` and `OffersAreAccepted`
  are the run's other four properties, for any number of accounts of any kind
  and any amounts, fees, prices, rents and routes. Their argument follows the
  money. (1) A quote is the arithmetic of what it saw (`Terms`, and `Offer` on
  the way to it). (2) A message does what its quote says: of a message only the
  instructions with an effect count (`SameOps`), the builders' messages have
  those of `ClaimOps`, `BurnOps`, ... and so has whatever a wallet hands back
  and a validator accepts. (3) What such a message moves is what the quote names
  (`Moves`, `Bears`). (4) The receipt of the ledger is therefore the arithmetic
  of the quote (`Amounts`). From it follow `Kept` (the wallet), `Whole` (the
  sponsor), `Agrees` (reconciliation), and that the ledger takes the message as
  long as the chain is untouched. The properties speak of the end of an attempt,
  so none is inductive; `Inv` says what holds on the way: `SeenInv` (the chain
  is the one the quote saw until somebody changes it, and never has fewer
  lamports), `OfferInv` (1), `MessageInv` (2), `SubmittedInv` (what the last
  checks found is still so if nothing changed after them), `LandedInv` and
  `MatchesInv` (4). The sums over accounts and instructions and the loop of
  `discover*Accounts`, which call for inductions the provers cannot instantiate,
  are proved by contradiction from a smallest set, or a shortest prefix, they
  would fail for.
  `SettlementAssumption` says that a fee without its priority part is below the
  priority part (two signatures cost 10,000 lamports, the priority part is at
  least 37,500), that orders and chains are of their types and that routes are
  good at the start; `LedgerAssumption` that addresses are distinct and rent,
  balance and base fee are natural numbers. A chain has any number of accounts up
  to that of the addresses, which is any number.
- **AccessProofs.** `OneSessionPerToken`, from: what has been confirmed and not
  locked yet is alive (`ConfirmedAlive`), a token that was locked dies before
  its lock does (`LockOutlives`), so at most one POST gets past the lock and
  none after a session was bought (`OneBuys`). It needs the lock to live at
  least as long as the token, which `AccessAssumption` states of the two
  constants of the code.

Only model-checked:

- every liveness property (`EventuallyDecided`, `SubmittedIsSettled`,
  `FailureOutlastsPolls`, `CompletedIsReconciled`, `GateOpens`,
  `ApprovalEnds`): liveness under fairness and ENABLED are out of the prover's
  reach;
- `SubmitsWhatWasAcknowledged`, which is violated.

## 5. Not modelled

- **Emergency controls** (`server/controls`): switches an operator sets, read
  before an action; a request they refuse changes nothing, and between two reads
  the models let it fail anyway.
- **Prices, Jupiter, token registry**: caches of external data. Their answers
  are inputs of `Settlement`; a route is the record of what the validators bind.
- **HTTP application, configuration, observability, reports**: routing, parsing,
  logging. The order of the checks before a route is in `Access`.
- **Token-2022 accounts** of Send and Swap: for the listed xStocks the code also
  takes accounts of the Token-2022 program, of their size and with their
  extensions (`chains/solana/send/accounts.ts:19` to 26, 37 to 41), and converts
  scaled amounts and prices (`server/send/engine.ts:93` to 99, 126). `Accounts`
  and `Settlement` are of the legacy program; an account of another program is
  one that is refused.
- **Swap's balances after a success** (`SwapConsole.tsx:113` to 128, 195): they
  are read again to show them and to check the next amount.
- **Database migrations** and SQL: a durable write is atomic, as each statement
  is; transactions of several statements are one step.
- **Kora's and Relay's HTTP clients**: timeouts and parsing; an answer may fail
  or be lost wherever one is awaited. The authorization tokens that Claim and
  Recover hand to Kora are part of asking it, which may fail.
- **Claims of several batches**: a quote selects no more accounts than fit one
  batch (`server/claim/engine.ts:101`), so the loops over batches run once.
- **SOL deposits** of a cross-chain transfer: their validator is the token
  deposit's with a system transfer for the token transfer.
- **The version of the authoritative swap quote** (`server/storage/temporary.ts`):
  superseded quotes are requests that are refused.
- **The wallet connection dialog**, and a console that is unmounted during a
  submission.
- **Requests refused before they change anything** (controls, rate limits,
  ownership, expired quotes) are requests that never start.

## 6. Further work

1. A proof of `PromiseKept` with repeated submissions for every engine but
   Recover.
2. An engine composed with `SponsorshipExposure`: `exposure` is one attempt's
   reservation in the engines, and the counters' windows are in the other module.
3. The swap's authoritative quote with its two stores, and several Claim batches.
