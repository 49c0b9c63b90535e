# A formal model of the Pendulum program

Pendulum (`src/programs/pendulum`) is an Anchor program for Solana with a TypeScript
client (`src/packages/sdk`). An *offering* sells shares for payment tokens; each purchase
leaves a *buy-in* account and an NFT that proves it. When the sale is over, a *distribution*
is set up: a Squads multisig receives earnings, a Clockwork thread opens one *round* per
period, each round proposes to the multisig's members to pay the vault out, and an approved
proposal moves the vault's tokens to the distribution.

This directory holds TLA+ modules translated from the source, TLC configurations that check
them on small instances, and proofs, checked by TLAPS, of their safety properties for every
value of the constants. Rust file and line numbers below refer to
`src/programs/pendulum/src`, TypeScript ones to `src/packages/sdk/src`; "kickoff" and
"calculate" are the files `cw_kickoff_…` and `cw_calculate_multisig_vault_transaction.rs`.

## 1. Inventory

| part | state | operations | modelled in |
|---|---|---|---|
| share sale | `Offering`, `BuyIn` accounts, payment tokens, NFTs | `init_new_offering`, `update_offering`, `purchase_shares` | `Offering` |
| token and NFT helpers (`utils.rs`) | none | six CPI wrappers | `Offering` (their effect inside a purchase) |
| distribution set-up | `Distribution`, lamports | `init_distribution` | `Distribution`, `Automation` |
| rounds | `DistributionRound`, Squads transaction and proposal, `round_index` | `kickoff_multisig_vault_transaction` | `Distribution`, `Automation` |
| payout | `round_index`, proposal status, two token accounts | `multisig_vault_transfer` inside `multisig_transaction_execute` | `Distribution`, `Automation` |
| life cycle | `Offering.state`, shared by the two halves | all of the above | `Pendulum` |
| Clockwork calculate | what the thread holds | `calculate_multisig_vault_transaction` | `Automation` |
| hand-overs of a distribution | account lists, the stored message, threads of rounds | the accounts structs, `transaction_message`, `remaining_accounts` | `Automation` |
| client (`packages/sdk`) | none of its own; a stale copy of `buyIns` | fetch, build, send, confirm | `PendulumClient` |
| generated IDL | none | order and rights of accounts, order of fields | `Idl` |
| seeds and addresses | none | address derivation in program and client | `Addresses` |
| proposal status update | none | empty response; panics in `lib.rs` | not modelled |
| claim of earnings | none | the file is empty | not modelled |
| tests, migrations, build files | | reference for the client's flow; templates | not modelled |

How the parts interact. All communication is through accounts: the sale and the distribution
share `Offering.state`; kickoff and payout share `Distribution.round_index`; kickoff compiles
the round's account into a Squads message that is executed later, by another transaction,
against whatever `round_index` is then; kickoff proposes in whichever multisig it is handed, while a payout
is for the one in `Distribution.multisig`; Clockwork threads call `calculate`, whose result is a
kickoff that the thread runs in a later transaction; clients read `buyIns` in one request
and submit `buyIns + 1` in another. An instruction reaches a handler as a row of keys: what an
account *is* depends on its position alone, on the IDL's side and on the struct's.

What is hard. Transactions are atomic, so there is no crash between two steps of a handler;
the difficulty is in the *order of whole transactions* by actors that do not know of each
other (buyers, the authority, threads, anyone who runs a kickoff or an execution, the members of
the multisig), in values read in one transaction and used in a later one, in lists that two files
must keep in one order, in two handlers that advance one counter, one of them inside a third that has an
older copy of it, in transactions and
confirmations that get lost, in the schedule (late threads, missed windows, odd frequencies) and
in integer boundaries. The list, line by line, is under `hazards` in `PROJECT.json`.

What makes each part correct:

- *sale*: the counter that limits the sale equals the shares of the buy-ins, payments equal
  price times shares, buy-ins are numbered without a gap and own exactly one NFT each, tokens
  are conserved, and no purchase is ever changed;
- *client*: what a call's promise says agrees with the accounts, one call buys at most once,
  nothing but somebody else's purchase, or texts without room for a number, gets in the way of one, and what
  is fetched is what is there;
- *rounds and payouts*: rounds and the members' proposals name each other, `round_index` counts the rounds,
  rounds respect their windows, a payout needs approval and is never that of an overtaken round, the vault is only
  swept by a payout, lamports are conserved;
- *hand-overs*: what is queued by one side is what the other side takes it for, a thread runs
  what was computed for it or nothing, rounds that are due are opened or skipped, and the whole still is a
  distribution as above;
- *life cycle*: states follow their order and entitlements are settled when purchases close.

## 2. Modules

| module | role |
|---|---|
| `Offering.tla` | the sale, with its properties |
| `MCOffering.tla` | instance for TLC; a comment's claim about the sale |
| `OfferingProofs.tla` | TLAPS proofs of the properties of `Offering` |
| `OfferingTokenProofs.tla` | TLAPS proof that tokens are conserved, with the lemmas on sums it needs |
| `Distribution.tla` | rounds, proposals, payouts, schedule and lamports, with their properties |
| `MCDistribution.tla` | instance for TLC; claims of comments about rounds |
| `DistributionProofs.tla` | TLAPS proofs of every safety property of `Distribution` |
| `Pendulum.tla`, `MCPendulum.tla` | composition of the two halves over one offering, its instance |
| `PendulumProofs.tla` | TLAPS proofs of the safety properties of the composition, and of what it inherits from the halves |
| `Idl.tla` | the instructions and account types as `idl/pendulum.ts` lists them |
| `Addresses.tla` | the addresses `utils.ts` derives and those the program's seeds give |
| `PendulumClient.tla`, `MCPendulumClient.tla` | calls of the SDK over `Offering`, its instance |
| `PendulumClientProofs.tla` | TLAPS proofs: clients implement the sale, and what a call does |
| `PendulumClientViewProofs.tla` | TLAPS proofs: what a client shows and finds, and that accounts fit |
| `PendulumClientPurchaseProofs.tla` | TLAPS proofs: addresses, and what can stop a purchase |
| `Automation.tla`, `MCAutomation.tla` | threads, account lists and messages over `Distribution`, its instances |
| `AutomationProofs.tla` | TLAPS proofs: they implement `Distribution`, and what they hand over |

`Offering` and `Distribution` are the abstract specifications, of what the accounts go through;
`PendulumClient` and `Automation` are the detailed ones, of how the accounts are reached, and are
shown to implement them.

### How state and actions correspond to the code

One offering is modelled: accounts of different offerings are derived from different keys and
no instruction takes two. A Solana transaction is atomic, so each instruction is one action,
and everything that aborts it (an `Err`, a constraint, a failed CPI, a panic of
`checked_*().unwrap()`) is a guard. Calls to other programs are granted what the handler asks
for; a refusal by them undoes the transaction and is a stuttering step.

`Offering`: `offering` is the account without `state`, which is a variable of its own because
the other half shares it; `buy_in` maps the index in a buy-in's address to the account; `nft`
maps a mint to whom the NFT was minted and which buy-in is its update authority and creator;
`tokens` and `payments` are the token accounts a purchase moves payment between. A purchase
names the index its transaction was built for, which may be an old one; it names a mint, which
may have been used. Texts are represented by their length, the only thing the code looks at.
`PurchaseShares` takes the checks in the handler's order (state, address and `init` of the
buy-in, available shares, u64 product, balance, new mint, metadata limits) and applies every
effect at once. Only `purchase_shares` moves payment tokens, so no other transfers are modelled.

`Distribution`: `round` maps an index to the content of its `DistributionRound` account, `None`
for a skipped round; `proposal` maps a Squads transaction index to the round compiled into the
message and the proposal's status, for the multisig in `Distribution.multisig`; `vault` and `distribution_tokens` are the two token accounts
of a payout. `Frequency` is the cast `u64 as i64`, `RoundStart` and `RoundEnd` are the window
arithmetic, and `IsI64` its overflow checks. `KickoffMultisigVaultTransaction` either skips or
opens a round; both advance `round_index`.

A round is opened with a proposal in the distribution's multisig (`ProposeToMembers`) or in another one
(`ProposeElsewhere`): kickoff's `multisig` is an `UncheckedAccount` (kickoff:54-55), anybody may call kickoff, and
Squads is content with any multisig that lets the distribution initiate transactions. The round is the same and its
thread is paid the same; only its `proposal` field holds a key, `Elsewhere`, that the members have no proposal at.
What such a proposal executes is no payout: the vault in its message is the one of the other
multisig, which `multisig_vault_transfer` refuses.

`ExecuteMultisigVaultTransaction` is the outer handler with `MultisigVaultTransfer`, which Squads runs in the same
transaction. What becomes of the two accounts both handlers hold is decided by Anchor, which stores an account
when the handler that has it as `mut` returns. The transfer assigns a status to its copy of the round,
which is not `mut`: `round` stays as it was. It increments `round_index` in its copy of the distribution
(`Transferred`, multisig_vault_transfer.rs:65), which is stored; but the outer handler read its own `mut` copy
(multisig_transaction_execute.rs:17-22) before the call, never reloads it, and stores it at the end:
`WrittenBack`. So a payout leaves `round_index` where the kickoff put it. The increment still matters
once: it is checked, so the round with the last `u16` index can never be paid.

Two steps do not exist in the program as committed, and each is switched by a constant so that
both worlds can be checked: `CloseWired` says whether some actor sets `BuyInEnded` (no
instruction does), `ExecuteWired` whether `lib.rs` dispatches to the execute handler (`lib.rs:113`
is an `unimplemented!` panic). Runs of rounds and payouts set both to TRUE, since otherwise
nothing happens; the theorems hold for either value.

The steps no code of the repository takes are marked external: the votes of the members
(`DecideProposal`), arriving earnings (`ReceiveRevenue`), the clock (`Tick`), the closing of the
sale (`EndBuyIn`).

`Pendulum` instantiates both modules over shared `state`, `now` and adds what needs both: the
signature of the offering's authority on `init_distribution`. The clock starts at 1, as in `Offering`. Its actions are
those of the two modules, so that it implements each of them says little by itself and is no property here; it is
a pair of lemmas, by which the promises of the halves are carried over (section 4).

`PendulumClient`: a member of `call` is one call of `initializeOffering`, `updateOffering` or
`purchaseShares`: its request, the instruction built for it, the signers, what it returns, the
`buyIns` it read, where its transaction is (`chain`: unsent, refused by the simulation, sent,
landed, failed, dropped) and what became of its `promise`. The call's action reads the offering
through the IDL and builds the instruction by name; `Send`, `Land`, `Fail`, `Drop` are what the
provider and the cluster do with it; `Confirm` and `Timeout` settle the promise, the latter without
knowing whether the transaction landed. Keys are in a row in the IDL's order and are bound to the
struct's names by position (`Bound`); then every constraint of the struct is checked on them, and
the handler is the action of `Offering`. The token account that pays is an `UncheckedAccount`
(purchase_shares.rs:12-14): `PaysFrom` takes that of any wallet whose tokens the buyer may spend, as owner or as delegate
(`MaySpend`; an approval is for all the owner has, and given for good). A retry is a new call, since the client never repeats one.
`fetchOffering` and `fetchBuyIns` decode fields by position and filter by byte offset, as the
program's accounts are laid out.

`Automation`: `vault_transaction` holds the messages stored at the offering's multisig (keys in a row, the header's
counts of signers and writable keys, the position of the program and of the accounts), `status` their proposals'
status, `thread` the proposing thread (idle, or holding the instruction `calculate` returned),
`watcher` the account that each round's thread watches. Distribution's `proposal` is computed from the
first two: the round of a proposal is the one whose address is at the message's `RoundPosition`. Kickoffs
come from the thread, with what it holds, or from anybody, with the addresses the SDK derives now and the multisig
of their choice: `OtherMultisig` stands for all multisigs that are not the offering's, with `OtherTransactions` the indices
they may be at. A thread keeps its instruction until it succeeds, as Clockwork does. Executions come from anybody.
`init_distribution`, kickoff and execute can be submitted with the rights the IDL declares or with all accounts
writable, and a handler is reached only when the struct's constraints hold of the keys at their positions.

As committed, these hand-overs do not fit. `Repairs` names which of them are taken to be
repaired, so that each can be studied with the others out of the way:

| repair | as committed |
|---|---|
| `schedule` | the proposing thread is created with the empty cron schedule and never runs |
| `metas` | `calculate` returns 13 accounts, `distribution_token_account` in the fourth place, where kickoff has `distribution_round` (calculate:71) |
| `seeds` | `utils.ts:41` derives a round's address from 8 bytes of the index, the program from 2 |
| `message` | positions count from 1, and the header's counts are all 0: nobody may be written and nobody signs (kickoff:174-194) |
| `remaining` | execute passes 9 of the 10 accounts that the message names (multisig_transaction_execute.rs:92) |
| `thread_id` | the proposing thread's id, with the offering's key in base58, is about 71 bytes long and is one seed, where a seed holds 32 (init_distribution.rs:186-191, "Todo: Shorten ID"): `thread_create` fails, and `init_distribution` with it |

A message's rights cannot be given key by key: Squads takes the first `num_signers` keys as signers, the first
of these as writable, and then a number of the others. So the repair of `message` has to put the keys in another
order, the vault first, then the keys that are written, then the rest, with the counts 1, 1 and 4 and the positions that
follow from it; the repair of `remaining` passes the accounts in that order. The repair of `thread_id` leaves the
offering out of the id, since the thread's address has the distribution's key as a seed of its own.

The proofs of refinement hold for every set of repairs, the empty one included.

`Addresses` makes an address a tuple of program and seeds, an integer one element per byte; that
the hash behind it has no collisions is what the system relies on too.

## 3. What is checked

| run | configuration | distinct states | shows |
|---|---|---|---|
| `sale` | `MCOffering.cfg` | 7 thousand | the sale's invariants, `PurchasesAreFinal` |
| `rounds` | `MCDistribution.cfg` | 174 thousand | invariants and action properties of the distribution |
| `lifecycle` | `MCPendulum.cfg` | 33 thousand | `EntitlementsFixed`, `StatesInOrder`, agreement of the halves |
| `client` | `MCPendulumClient.cfg` | 461 thousand | promises, purchases and views agree with the accounts; what can stop a purchase |
| `threads` | `MCAutomation.cfg` | 17 thousand | with all repairs: refinement of `Distribution`, hand-overs, `DueRoundsHappen` |

Each finishes within a minute.

Bounds and why they are enough.

- `sale`: shares are limited to 3 (`U16Max`), and so are purchases and mints, so every mix of one to
  three purchases is reached, including a sold-out offering, a used-up index, zero shares, a
  price of zero, a payment that overflows `U64Max = 5` and one a wallet cannot afford. The mints
  are symmetric: nothing in the module or its properties tells two of them apart.
- `rounds`: five indices, six instants, i64 scaled to 7 and u64 to 15. Frequencies are 0, 1, 2,
  4 (whose products overflow) and 15 (which is -1 as an i64). Skipped rounds, several opened rounds,
  rounds proposed elsewhere, payouts before and after later kickoffs, late approvals, an exhausted `round_index` and a
  distribution out of lamports all occur. `ThreadLamports` is the constant 10 of
  kickoff:268, scaled to 1 with the deposits.
- `lifecycle`: two shares, two wallets, two texts, two rounds; large enough for a purchase or a
  text update to be attempted in every later state.
- `client`: four calls (`MaxCalls`), one of which is the offering's creation, so that three
  purchases or edits overlap in every way: two built for one index, an edit between a read and its
  purchase, a lost confirmation with a retry that buys again, a purchase from another's token
  account with and without that owner's approval, an edit by somebody else, a title that leaves no room for the suffix. The offering is asked for again
  only when the earlier attempts are over, since there is one.
- `threads`: four indices, five instants, frequencies 1 and 2, deposits 0 and 2: an instruction the
  thread holds becomes stale through a direct kickoff, with the offering's multisig or another, rounds are missed,
  lamports run out, indices are used up.

Deadlock is not checked: sold out, out of lamports, at the last instant or with no call left to make, the
bounded system may stop.

Every property of a passing run has a mutant in `PROJECT.json`: the definition it would take a
plausible slip to write differently (the sold shares left out of the remaining ones, a mint reused by a
retry, two accounts swapped in the IDL, a count that a payout moves on, a seeds check that is
dropped), which TLC finds to violate it. The mutated forms stand next to the definitions they replace.

Fairness.

- `DueRoundsHappen` needs weak fairness of `Thread`: Clockwork's workers run the thread when it has something to run that
  can succeed. Nothing is assumed of kickoffs by others, votes, executions or the clock. What the fairness does not
  give is that the instruction computed in one step can succeed in the other: that rests on what `calculate` puts into
  it, and an address of the wrong round or transaction jams the thread. The property excepts the thread that has been
  `Overtaken`, whose instruction names a round that somebody else has kicked off.
- `ThreadGoesOn`, the same without the exception, is checked under the same fairness, and fails.

No liveness is claimed of payouts and of the client's calls. Nobody in the repository submits an execution, and whether
a call settles is up to the RPC library and the cluster: a property would restate what is assumed of them.

### Disagreements with comments

Each of these runs checks what a comment says and ends with a counterexample.

| run | the comment | the code |
|---|---|---|
| `nft_fits` | state.rs:35, room for the suffix | title limit is 31, not 29: a 31-byte title makes every purchase abort |
| `first_window` | state.rs:86, start time | stores 0: windows are counted from 1970, and every round is skipped until `round_index` has caught up, one kickoff at a time; a `u16` of them does not reach the present if the period is below about seven hours |
| `late_approval` | kickoff:78, executed once approved | only while its round is the current one |
| `members_left_out` | state.rs:126, the proposal the round depends on; kickoff:54, "Correct multisig for round" | any multisig is taken: the members may have no proposal for a round |
| `kickoff_accounts` | kickoff:82, run periodically by a thread | with the other repairs made, the instruction the thread holds is still not a kickoff |
| `overtaken_thread` | kickoff:82, run periodically by a thread | with every repair made, one kickoff by anybody else between the thread's two instructions stops it for good |
| `queued_message` | multisig_vault_transfer.rs:62, queued for execution in Squads | with the other repairs made, what is queued is not a call of it |

Five more disagreements are plain in the code and have no run: no instruction assigns `BuyInEnded`, so nothing
ever is "closed to purchases" (state.rs:72; `CommittedNeverDistributes` proves what follows from it); the status of a
paid round is assigned to an account that is not written back (multisig_vault_transfer.rs:21-29, state.rs:135); a
buy-in's `timestamp` is `Clock::default()`'s 0 (purchase_shares.rs:164, state.rs:166); nothing compares a payout's time
with the round's end (kickoff:228); the dispatch of execute is missing (`lib.rs:113`).

## 4. What is proved

The eight modules of proofs establish, for all values of the constants under the named assumptions, every
invariant, every action property and every refinement that the passing runs check; only liveness is left to
TLC. The assumptions say that the widths are naturals with `U64Max = 2 * I64Max + 1`, that inputs are of the
argument's type, that there are finitely many wallets, that the sentinels are not accounts, that a fresh keypair is
fresh, that programs are not accounts a kickoff writes, and, for the client, that a `u16` has two bytes
(`U16Max \div 256 <= 255`), as many as the seeds of a buy-in's address. TLC evaluates them in every run.

*Sale.* `SaleInv` is the conjunction of the type invariant and the three books. They must be
proved together: that the running sum of shares can be continued needs the buy-ins to be
numbered without a gap (`BuyInsOwnTheirNfts`), that the product for the payments can be
distributed needs the counter's type, and that an old NFT keeps its owner needs the mint of a new one to be
new. `IsSumOfShares` says that a total is the sum of a sequence of accounts by the existence of
running sums, so that the step adds one value to a function and no induction over data is needed.

*Tokens.* `TokensConserved` is a sum over the wallets, which the community modules define by a function that
is recursive on subsets. The library's induction theorems cannot be used for it, but the existence of a minimal element
can: `SmallestSubset` picks, among the subsets of a finite set for which a statement about sums fails, a
smallest one, and taking one more element from it gives the contradiction. So are proved that sums exist
(`SumExists`), that there is one way to add up (`AddsUpOnce`), and that taking an amount from one wallet takes
it from the total (`TotalAfterDebit`), which is what a purchase does.

*Texts.* `TextsValid` (what `validate()` accepts holds of the stored texts in every state) is inductive.
`ShortTextsAlwaysFit` is the positive side of the run `nft_fits`: 26 bytes of title and 4 of symbol leave room for
every number, where `validate()` allows 31 and 7.

*Rounds.* `TypeOK`, `ProposalsMatchRounds`, `RoundIndexCountsRounds` and `ThreadFundsAccounted`
are inductive relative to `TypeOK`. `ScheduleRespected` is not: it needs `RoundIndexCountsRounds` (there is no
round before there is a distribution) and `StartsAtZero`, the strengthening that says windows
are counted from the zero clock; without it a frequency of zero could open a
round at the instant the distribution starts. `NoStalePayout` follows from `RoundIndexCountsRounds`, since
every round account lies at or behind `round_index`. That a round may be proposed elsewhere costs
`ProposalsMatchRounds` nothing but the condition in it: such a round takes no index of the members'
transactions, so the ones there are stay paired.

*Life cycle.* The purchase keeps the types by `PurchaseStepTypes`, a lemma of `OfferingProofs` about
the action alone, so that it also holds inside the composition, where other steps change `state`.
`StatesInOrder` and `EntitlementsFixed` then are case analyses over the steps of both halves, the second
from the type invariant. The lemmas `SaleUndisturbed` and `RoundsUndisturbed` map the composition to each half alone: to
the sale, which knows no step that closes an offering, the state stays `BuyInActive` (`SaleState`); to the distribution,
whose offering is there from the start, an offering that does not exist yet is one that is open (`RoundState`).
They hold by the shape of the actions; what they are for is that `SalePromisesHold` and `DistributionPromisesHold` carry
the properties of the halves over to the whole program.

*As committed.* With `CloseWired` FALSE no distribution is ever set up (`CommittedNeverDistributes`), and with
`ExecuteWired` FALSE no proposal is executed and no earnings leave the vault (`CommittedNeverPays`): what is proved of
rounds and payouts is about the program once these two steps exist.

*Client.* `ClientInv` says of each call that its instruction is the one built from its request (`Built`), that its
two states go together (`StatusOK`), and of the accounts what a reader may rely on. From it, a transaction
that lands does to the sale what its caller asked for (`Lands`): each account list is followed through the two
orders by position, and each address through both derivations. Hence `ImplementsSale`, and by the theorems about
`Offering`, `SalePromisesHold`. `WorkInv` adds that the work of a landed transaction stays done, and that each
buy-in comes from one, by the mint its call generated; with it follow `OneBuyInPerCall` and
`ResolvedMeansDone`. It is stated for a call's transaction and not for its promise, because a promise that is
rejected for want of a confirmation says nothing about the transaction.

*Views and sizes.* An offering has eleven fields and a buy-in six, listed in the struct, in the IDL and in the
client's constructor. `DecodedByPosition` says that decoding pairs fields by position, whatever their names;
with the two concrete rows it gives `ViewsFaithful`. Offsets are recursive functions on the fields before
one; `OffsetsAddUp` unfolds them for any number of fields, `Widths` and `BuyInOffsets` evaluate them for these, and
`HoldingsComplete` (the filter's 52 is the beneficiary's offset) and `AccountsFit` (with `TextsValid`) follow.

*Contention.* `PurchasesPrepared` says of every pending purchase that what its instruction holds is right for the
index it read: the addresses derived by the client are those of the program's seeds
(`BuyInAddressesAgree`, `MetadataAddressesAgree`, byte by byte for the index), the fifteen accounts are in their places,
and the signers are those the struct asks for. It does not depend on what others do, except through
`offering_address`, which the one listing that lands sets before any purchase is prepared. If `buy_ins` still is what the call read,
and the texts have room for the number, such an instruction is well formed and accepted (`PreparedIsWellFormed`,
`PreparedIsAccepted`), so that a refused or failed one implies that one of the two is not so: `OnlyContentionFails`. An
edit of the texts between the reading and the purchase can be what stops it, as `nft_fits` shows.

*Threads.* `Numbered` says that transactions and proposals are numbered without a gap and that there are at most
as many as rounds. With it kickoff finds the number of the proposal it is handed (`RecordedOwn`), or that it is none of
the offering's (`RecordedForeign`), the message it stores names the round it opens (`MessageNamesItsRound`, from the
injectivity of the bytes of an index), and each step is a step of `Distribution` or leaves its variables alone:
`Implements`. `DistributionPromisesHold` transfers the seven safety properties of `Distribution`. `ThreadInv` adds the
watchers, for `RoundsWired`: a round's thread watches the proposal of its own multisig or one that no own
proposal has the address of. `HeldInv` says that what a thread holds is what `calculate` returned for some
round, for `ThreadRunsWhatItCalculated`; with the metas in their places it is a kickoff for the offering's own multisig
(`HeldOpensInOwn`), with the account too many it is none at all (`MetasCommitted`). All of these hold for any set of
repairs: as committed, the system does less, and nothing wrong. `RepairedMetasFit` shows that leaving out one account is
enough for the property which the run `kickoff_accounts` refutes without it.

Only model-checked: liveness (`DueRoundsHappen`), which is out of the prover's reach. The recursive operators that remain are unfolded for the lists at hand or
reasoned about by a minimal counterexample; nothing is proved of what they compute for every list.

## 5. What is left out

- `process_proposal_status_update` returns an empty response for every status and panics in `lib.rs`, and
  `claim_earnings.rs` is empty: there is no state change to model.
- The thread that kickoff creates for a round is given the execute instruction without its accounts (kickoff:250),
  which fails before any handler; executions are submitted by anybody.
- The permission masks of the members (init_distribution.rs:118), written in decimal, are read by Squads only.
- Squads, Clockwork, SPL Token, the associated token and token metadata programs are modelled as far as the
  handlers rely on them. Of multisigs other than the offering's, only their transaction index and the address
  of their proposals are modelled; that the message queued there pays nothing is argued above, not modelled.
- Of the IDL: the account types that no code decodes, and the instructions that are built by the program
  and not by a client.
- Of the client: `pretty()`, the choice of a program id, and the wallet's own signing. `deploy.ts` and
  `tsup.config.ts` are unfilled templates.
- Rules of the Solana runtime that would stop some of these instructions altogether:
  `init_distribution` debits the lamports of a payer the program does not own
  (init_distribution.rs:147), Squads calling back into Pendulum during `execute` is reentrancy,
  and a thread is paid by a system transfer from an account that carries data. The model
  describes what the handlers intend, beyond these points.
- Rent, transaction fees, and compute limits.
- The fields `paid_out`, `multisig_vault_index` and the keys stored in accounts, which no
  handler reads to decide anything that is modelled.
- Token transfers of payments after the sale: no instruction makes any.

## 6. What could follow

1. Several offerings at once, to state that no account of one is ever taken for one of another; the seeds
   make it so, and `Addresses` has what the statement needs.
2. A clock that all of `Pendulum`, `PendulumClient` and `Automation` share, that is, one composition of the client's
   half and the threads' half; each is now shown to implement its half of
   `Pendulum`.
3. When the program gains them: the closing of a sale, the dispatch of execute, the reaction to a proposal's
   status and the claims of beneficiaries, each an action of the module that has its state.
