------------------------------- MODULE Pendulum -------------------------------
(***************************************************************************)
(* The whole program: the share sale of Offering and the rounds of         *)
(* Distribution over one offering.  They share the Offering account's      *)
(* `state` field and the clock; a transaction of one half leaves the       *)
(* accounts of the other alone.                                            *)
(***************************************************************************)
EXTENDS Integers, FiniteSets

CONSTANTS
  Wallets, Mints, Funds, Prices, Titles, Symbols, Uris,
  U16Max, U64Max, I64Max, Frequencies, Deposits, PayerLamports,
  ThreadLamports, Revenues, MaxRevenue, MaxClock,
  CloseWired, ExecuteWired, Elsewhere, NoAccount, None

\* What the two halves ask of their constants.
ASSUME ConstantsAssumption ==
  /\ IsFiniteSet(Wallets)
  /\ U16Max \in Nat /\ I64Max \in Nat /\ U64Max = 2 * I64Max + 1
  /\ Funds \in [Wallets -> Nat] /\ Prices \subseteq 0..U64Max
  /\ Titles \subseteq Nat /\ Symbols \subseteq Nat /\ Uris \subseteq Nat
  /\ Frequencies \subseteq 0..U64Max /\ Deposits \subseteq Nat
  /\ PayerLamports \in Nat /\ ThreadLamports \in Nat
  /\ Revenues \subseteq Nat /\ MaxRevenue \in Nat /\ MaxClock \in Nat
  /\ CloseWired \in BOOLEAN /\ ExecuteWired \in BOOLEAN

VARIABLES
  state, offering, buy_in, nft, tokens, payments,
  distribution, round, transaction_index, proposal, vault,
  distribution_tokens, lamports, now

Sale == INSTANCE Offering
Dist == INSTANCE Distribution WITH GenesisTime <- 1

ASSUME NoAccountAssumption ==
  /\ NoAccount \notin Sale!OfferingAccount
  /\ NoAccount \notin Dist!DistributionAccount
  /\ None \notin Dist!RoundInner
  /\ Elsewhere \notin Nat

saleVars == <<offering, buy_in, nft, tokens, payments>>
distVars == <<distribution, round, transaction_index, proposal, vault,
              distribution_tokens, lamports>>
vars == <<state, saleVars, distVars, now>>

Init ==
  /\ Sale!Init
  /\ distribution = NoAccount
  /\ round = [i \in {} |-> None]
  /\ transaction_index = 0
  /\ proposal = [t \in {} |-> NoAccount]
  /\ vault = 0
  /\ distribution_tokens = 0
  /\ lamports = [payer |-> PayerLamports, distribution |-> 0, threads |-> 0]

SaleStep == Sale!SaleStep /\ UNCHANGED distVars

\* init_distribution is signed by the authority of the offering.
InitDistribution ==
  \E signer \in Wallets, frequency \in Frequencies,
     deposit \in Deposits, thread_deposit \in Deposits :
    /\ offering # NoAccount
    /\ signer = offering.authority
    /\ Dist!InitDistribution(frequency, deposit, thread_deposit)
    /\ UNCHANGED saleVars

RoundStep ==
  /\ \/ Dist!KickoffMultisigVaultTransaction
     \/ \E t \in DOMAIN proposal : Dist!ExecuteMultisigVaultTransaction(t)
  /\ UNCHANGED saleVars

Environment ==
  /\ Dist!SquadsStep \/ Dist!EndBuyIn \/ Dist!Tick
  /\ UNCHANGED saleVars

Next == SaleStep \/ InitDistribution \/ RoundStep \/ Environment

Spec == Init /\ [][Next]_vars

-----------------------------------------------------------------------------
(* Properties *)

\* The two halves agree on the life of the offering: what exists is what the
\* shared state says exists, and each half keeps its own types.
TypeOK ==
  /\ Sale!TypeOK
  /\ distribution \in Dist!DistributionAccount \cup {NoAccount}
  /\ distribution = NoAccount <=> state # "DistributionActive"

\* Once purchases are closed, who is entitled to earnings and in what
\* proportion is settled: no share is sold and no payment or NFT moves; once
\* the distribution exists, not even the texts of the offering change.
EntitlementsFixed ==
  [][ /\ state \in {"BuyInEnded", "DistributionActive"} =>
           /\ offering'.bought_shares = offering.bought_shares
           /\ UNCHANGED <<buy_in, nft, tokens, payments>>
      /\ state = "DistributionActive" => UNCHANGED <<offering, state>> ]_vars

\* An offering passes through its states in order and skips none: rounds and
\* payouts never exist for an offering that was not closed first.
StatesInOrder ==
  [][ state' # state =>
        <<state, state'>> \in {<<"Uninitialized", "BuyInActive">>,
                               <<"BuyInActive", "BuyInEnded">>,
                               <<"BuyInEnded", "DistributionActive">>} ]_vars
=============================================================================
