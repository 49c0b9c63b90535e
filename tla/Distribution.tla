----------------------------- MODULE Distribution -----------------------------
(***************************************************************************)
(* The distribution half of the Pendulum program: the `Distribution` and   *)
(* `DistributionRound` accounts and the handlers that write them,          *)
(* init_distribution, kickoff_multisig_vault_transaction,                  *)
(* multisig_vault_transfer and multisig_transaction_execute, over the part *)
(* of the Squads multisig, the token vaults and the clock they rely on.    *)
(*                                                                         *)
(* As in Offering, a transaction is atomic and every way a handler aborts  *)
(* is a guard.  A call to another program (Squads, Clockwork, SPL Token)   *)
(* is granted what the handler asks it for; that program may also refuse,  *)
(* which undoes the transaction and is a stuttering step here.             *)
(*                                                                         *)
(* Two steps are missing from the program as committed and are switched by *)
(* constants: nothing closes the purchase round (CloseWired), and lib.rs   *)
(* panics instead of calling multisig_transaction_execute (ExecuteWired).  *)
(***************************************************************************)
EXTENDS Integers

CONSTANTS
  U16Max, U64Max, I64Max,   \* largest values of u16, u64 and i64
  Frequencies,              \* values of `frequency_in_seconds` tried
  Deposits,                 \* values of `distribution_deposit_lamports` tried
  PayerLamports,            \* lamports the payer of init_distribution has
  ThreadLamports,           \* lamports a kickoff moves to its new thread
  Revenues,                 \* token amounts that arrive at the vault at once
  MaxRevenue,               \* bound on the revenue of a behaviour
  GenesisTime, MaxClock,    \* first and last value of the clock
  CloseWired,               \* is there an actor that closes the purchase round?
  ExecuteWired,             \* does lib.rs dispatch to the execute handler?
  Elsewhere,                \* a proposal of a multisig other than the offering's
  NoAccount,                \* an account that does not exist
  None                      \* Option::None in DistributionRound.inner

ASSUME WidthsAssumption ==
  /\ U16Max \in Nat
  /\ I64Max \in Nat
  /\ U64Max = 2 * I64Max + 1

ASSUME InputsAssumption ==
  /\ Frequencies \subseteq 0..U64Max
  /\ Deposits \subseteq Nat
  /\ PayerLamports \in Nat
  /\ ThreadLamports \in Nat
  /\ Revenues \subseteq Nat
  /\ MaxRevenue \in Nat
  /\ GenesisTime \in Nat \ {0}
  /\ MaxClock \in Nat
  /\ CloseWired \in BOOLEAN
  /\ ExecuteWired \in BOOLEAN

VARIABLES
  state,               \* Offering.state
  distribution,        \* the Distribution account, or NoAccount
  round,               \* the DistributionRound accounts' `inner`, by index
  transaction_index,   \* the multisig's count of vault transactions
  proposal,            \* Squads proposals, by transaction index
  vault,               \* tokens in the multisig vault's token account
  distribution_tokens, \* tokens in distribution_token_account
  lamports,            \* lamports of the payer, the distribution, the threads
  now                  \* the cluster's unix timestamp

vars == <<state, distribution, round, transaction_index, proposal, vault,
          distribution_tokens, lamports, now>>

OfferingStates == {"BuyInActive", "BuyInEnded", "DistributionActive"}

DistributionAccount ==
  [start_timestamp : Nat, frequency_in_seconds : 0..U64Max, round_index : 0..U16Max]

RoundInner ==
  [index : 1..U16Max, end_timestamp : Int, proposal : (Nat \ {0}) \cup {Elsewhere},
   status : {"WaitingForProposal", "ProposalExecuted"}]

\* A vault transaction of distribution.multisig with its proposal: the round whose account is
\* compiled into the transaction's message, and the proposal's status.
Proposal ==
  [round : 1..U16Max,
   status : {"Active", "Approved", "Rejected", "Cancelled", "Executed"}]

ASSUME NoAccountAssumption ==
  /\ NoAccount \notin DistributionAccount
  /\ None \notin RoundInner
  /\ Elsewhere \notin Nat

WithAccount(f, key, account) ==
  [k \in DOMAIN f \cup {key} |-> IF k = key THEN account ELSE f[k]]

Init ==
  /\ state = "BuyInActive"
  /\ distribution = NoAccount
  /\ round = [i \in {} |-> None]
  /\ transaction_index = 0
  /\ proposal = [t \in {} |-> NoAccount]
  /\ vault = 0
  /\ distribution_tokens = 0
  /\ lamports = [payer |-> PayerLamports, distribution |-> 0, threads |-> 0]
  /\ now = GenesisTime

-----------------------------------------------------------------------------
(* init_distribution *)

\* Clock::default() is the zero clock, not the cluster's.
DefaultTimestamp == 0

NotYetDistributing == state # "DistributionActive"
PurchaseRoundEnded == state = "BuyInEnded"

FundWithoutDebit(deposit, thread_deposit) ==
  [lamports EXCEPT !.distribution = @ + deposit, !.threads = @ + thread_deposit]
Fund(deposit, thread_deposit) ==
  [payer |-> lamports.payer - deposit - thread_deposit,
   distribution |-> lamports.distribution + deposit,
   threads |-> lamports.threads + thread_deposit]

\* The offering is closed, the Squads multisig and the distribution are
\* created, the distribution is funded and the thread that proposes payouts is
\* created with a deposit of its own.
InitDistribution(frequency, deposit, thread_deposit) ==
  /\ PurchaseRoundEnded
  /\ distribution = NoAccount
  /\ deposit + thread_deposit <= lamports.payer
  /\ state' = "DistributionActive"
  /\ distribution' =
       [start_timestamp |-> DefaultTimestamp,
        frequency_in_seconds |-> frequency, round_index |-> 0]
  /\ lamports' = Fund(deposit, thread_deposit)
  /\ UNCHANGED <<round, transaction_index, proposal, vault,
                 distribution_tokens, now>>

-----------------------------------------------------------------------------
(* kickoff_multisig_vault_transaction *)

\* `frequency_in_seconds as i64`
Frequency ==
  IF distribution.frequency_in_seconds <= I64Max
  THEN distribution.frequency_in_seconds
  ELSE distribution.frequency_in_seconds - (U64Max + 1)

IsI64(n) == -I64Max - 1 <= n /\ n <= I64Max

\* new_round_start_time and new_round_end_time of the round with index i
RoundStart(i) == distribution.start_timestamp + (i - 1) * Frequency
RoundEnd(i) == RoundStart(i) + Frequency

NextRound == distribution.round_index + 1

\* The constraints and checks common to a round that is opened and one that is
\* skipped; the checked_* arithmetic panics outside i64 and u16.
KickoffAnyTime(i) ==
  /\ state = "DistributionActive"
  /\ distribution # NoAccount
  /\ i <= U16Max
  /\ i \notin DOMAIN round
CanKickoff(i) ==
  /\ state = "DistributionActive"
  /\ distribution # NoAccount
  /\ i <= U16Max
  /\ i \notin DOMAIN round
  /\ IsI64((i - 1) * Frequency)
  /\ IsI64(RoundStart(i))
  /\ now >= RoundStart(i)
  /\ IsI64(RoundEnd(i))

\* The window of the round is over: an account without content is left behind.
SkipRound(i) ==
  /\ now > RoundEnd(i)
  /\ round' = WithAccount(round, i, None)
  /\ UNCHANGED <<transaction_index, proposal, lamports>>

\* The index Squads gives the next vault transaction of the multisig.
NextTransaction == transaction_index + 1

CanFundThreadUnchecked == TRUE
CanFundThread == lamports.distribution >= ThreadLamports

Opened(i, created) ==
  [index |-> i, end_timestamp |-> RoundEnd(i), proposal |-> created,
   status |-> "WaitingForProposal"]

ProposedRoundStale(i) == distribution.round_index
ProposedRound(i) == i

\* The round is opened with a proposal, active at once, in the multisig whose
\* accounts the kickoff was given.
ProposeToMembers(i) ==
  /\ round' = WithAccount(round, i, Opened(i, NextTransaction))
  /\ transaction_index' = NextTransaction
  /\ proposal' = WithAccount(proposal, NextTransaction,
       [round |-> ProposedRound(i), status |-> "Active"])

\* `multisig` is an UncheckedAccount: any that lets the distribution initiate
\* transactions will do.  The members of distribution.multisig get no proposal.
ProposeElsewhere(i) ==
  /\ round' = WithAccount(round, i, Opened(i, Elsewhere))
  /\ UNCHANGED <<transaction_index, proposal>>

\* The round's proposal is created, and a thread that the distribution pays.
OpenRound(i) ==
  /\ now <= RoundEnd(i)
  /\ CanFundThread
  /\ ProposeToMembers(i) \/ ProposeElsewhere(i)
  /\ lamports' = [lamports EXCEPT !.distribution = @ - ThreadLamports,
                                  !.threads = @ + ThreadLamports]

KickoffMultisigVaultTransaction ==
  LET i == NextRound IN
    /\ CanKickoff(i)
    /\ SkipRound(i) \/ OpenRound(i)
    /\ distribution' = [distribution EXCEPT !.round_index = i]
    /\ UNCHANGED <<state, vault, distribution_tokens, now>>

-----------------------------------------------------------------------------
(* multisig_vault_transfer, run by Squads inside execute *)

\* The round account in the message must be the one derived from round_index.
IsCurrentRoundUnchecked(i) == i <= distribution.round_index
IsCurrentRound(i) == i = distribution.round_index

\* The distribution as this handler leaves it.
Transferred == [distribution EXCEPT !.round_index = @ + 1]

SweptPartly == IF vault > 1 THEN 1 ELSE vault
Swept == vault

\* All of the vault moves to the distribution's token account.  The handler
\* assigns ProposalExecuted to its copy of the round, but `distribution_round`
\* is not declared `mut`, so Anchor does not write the account back.
MultisigVaultTransfer(i) ==
  /\ state = "DistributionActive"
  /\ IsCurrentRound(i)
  /\ i \in DOMAIN round
  /\ round[i] # None
  /\ Transferred.round_index <= U16Max
  /\ vault' = vault - Swept
  /\ distribution_tokens' = distribution_tokens + Swept
  /\ UNCHANGED round

MayExecute(t) == proposal[t].status = "Approved"

\* multisig_transaction_execute holds a `mut` copy of the distribution read before
\* Squads runs the transfer, and Anchor stores that copy when the handler
\* returns: round_index is again what it was before the transfer.
WrittenBackReloaded(held, transferred) == transferred
WrittenBack(held, transferred) == held

\* multisig_transaction_execute: Squads executes an approved vault transaction
\* for the distribution, which is the member with the Execute permission.
ExecuteMultisigVaultTransaction(t) ==
  /\ ExecuteWired
  /\ distribution # NoAccount
  /\ distribution.round_index \in DOMAIN round
  /\ MayExecute(t)
  /\ MultisigVaultTransfer(proposal[t].round)
  /\ distribution' = WrittenBack(distribution, Transferred)
  /\ proposal' = [proposal EXCEPT ![t].status = "Executed"]
  /\ UNCHANGED <<state, transaction_index, lamports, now>>

-----------------------------------------------------------------------------
(* The environment: no code under programs/ takes these steps *)

\* Nothing in the program assigns BuyInEnded.
EndBuyIn ==
  /\ CloseWired
  /\ state = "BuyInActive"
  /\ state' = "BuyInEnded"
  /\ UNCHANGED <<distribution, round, transaction_index, proposal, vault,
                 distribution_tokens, lamports, now>>

\* The members of the multisig approve, reject or cancel a proposal.
DecideProposal(t, status) ==
  /\ \/ proposal[t].status = "Active" /\ status \in {"Approved", "Rejected"}
     \/ proposal[t].status = "Approved" /\ status = "Cancelled"
  /\ proposal' = [proposal EXCEPT ![t].status = status]
  /\ UNCHANGED <<state, distribution, round, transaction_index, vault,
                 distribution_tokens, lamports, now>>

\* Earnings arrive at the multisig vault.
ReceiveRevenue(amount) ==
  /\ distribution # NoAccount
  /\ vault + distribution_tokens + amount <= MaxRevenue
  /\ vault' = vault + amount
  /\ UNCHANGED <<state, distribution, round, transaction_index, proposal,
                 distribution_tokens, lamports, now>>

Tick ==
  /\ now < MaxClock
  /\ now' = now + 1
  /\ UNCHANGED <<state, distribution, round, transaction_index, proposal,
                 vault, distribution_tokens, lamports>>

-----------------------------------------------------------------------------

DistributionStep ==
  \/ \E frequency \in Frequencies, deposit \in Deposits, thread_deposit \in Deposits :
        InitDistribution(frequency, deposit, thread_deposit)
  \/ KickoffMultisigVaultTransaction
  \/ \E t \in DOMAIN proposal : ExecuteMultisigVaultTransaction(t)

SquadsStep ==
  \/ \E t \in DOMAIN proposal, status \in {"Approved", "Rejected", "Cancelled"} :
        DecideProposal(t, status)
  \/ \E amount \in Revenues : ReceiveRevenue(amount)

Next == DistributionStep \/ SquadsStep \/ EndBuyIn \/ Tick

Spec == Init /\ [][Next]_vars

-----------------------------------------------------------------------------
(* Properties *)

\* Every account holds values of the widths state.rs declares, and the
\* distribution exists exactly when the offering is in DistributionActive.
TypeOK ==
  /\ state \in OfferingStates
  /\ distribution \in DistributionAccount \cup {NoAccount}
  /\ distribution = NoAccount <=> state # "DistributionActive"
  /\ DOMAIN round \subseteq 1..U16Max
  /\ round \in [DOMAIN round -> RoundInner \cup {None}]
  /\ transaction_index \in Nat
  /\ proposal \in [1..transaction_index -> Proposal]
  /\ vault \in Nat
  /\ distribution_tokens \in Nat
  /\ lamports \in [payer : Nat, distribution : Nat, threads : Nat]
  /\ now \in Nat \ {0}

RoundIndex == IF distribution = NoAccount THEN 0 ELSE distribution.round_index

IsLive(i) == i \in DOMAIN round /\ round[i] # None

\* A round whose kickoff was given the offering's multisig has a proposal that
\* names it, and each proposal a round that names it ("Make sure transaction
\* index matches", kickoff:240): what the members vote on and what Squads
\* executes is one round's payout, and a round proposed elsewhere has none.
ProposalsMatchRounds ==
  /\ \A i \in DOMAIN round : round[i] # None =>
       /\ round[i].index = i
       /\ round[i].proposal # Elsewhere =>
            /\ round[i].proposal \in DOMAIN proposal
            /\ proposal[round[i].proposal].round = i
  /\ \A t \in DOMAIN proposal :
       /\ IsLive(proposal[t].round)
       /\ round[proposal[t].round].proposal = t

\* round_index is "the index of the most recent distribution round" and "an
\* indicator of how many rounds have taken place" (state.rs:100), although the
\* vault transfer increments it as kickoff does: every index up to it has an
\* account and none beyond it does, so that a payout costs no later round its
\* account, its window or its place in the count.
RoundIndexCountsRounds == DOMAIN round = 1..RoundIndex

\* No round is opened or skipped before its window starts, none is skipped
\* before its window is over, and rounds are opened only if time moves them
\* forward (a frequency of zero, or one that is negative as an i64, opens none).
ScheduleRespected ==
  \A i \in DOMAIN round :
    /\ RoundStart(i) <= now
    /\ round[i] = None => RoundEnd(i) < now
    /\ round[i] # None => Frequency > 0 /\ round[i].end_timestamp = RoundEnd(i)

\* Lamports only move between the payer, the distribution and its threads, and
\* every proposal's thread got its share.
ThreadFundsAccounted ==
  /\ lamports.payer + lamports.distribution + lamports.threads = PayerLamports
  /\ ThreadLamports * transaction_index <= lamports.threads

\* A payout executes only after the members approved it and only while its
\* round is the last one opened or skipped: a late approval of an older round
\* cannot sweep what a later round is to pay.
NoStalePayout ==
  [][\A t \in DOMAIN proposal :
       proposal[t].status # "Executed" /\ proposal'[t].status = "Executed" =>
         /\ proposal[t].status = "Approved"
         /\ \A i \in DOMAIN round : i <= proposal[t].round]_vars

\* Tokens leave the vault only in the step that executes a proposal, all of them
\* at once, and all of them to the distribution's token account.
VaultSweptByPayout ==
  [][vault' < vault =>
       /\ vault' = 0
       /\ distribution_tokens' = distribution_tokens + vault
       /\ \E t \in DOMAIN proposal :
            proposal[t].status # "Executed" /\ proposal'[t].status = "Executed"]_vars
=============================================================================
