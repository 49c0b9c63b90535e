-------------------------- MODULE DistributionProofs --------------------------
(* Proofs of the properties of Distribution, for every value of its constants, *)
(* with and without the two unwired steps.                                     *)
EXTENDS Distribution, TLAPS

USE WidthsAssumption, InputsAssumption, NoAccountAssumption
    DEF WidthsAssumption, InputsAssumption, NoAccountAssumption

-----------------------------------------------------------------------------
(* The operators and actions the model is built from *)

\* The schedule of a distribution is made of integers.
LEMMA ScheduleTypes ==
  ASSUME distribution \in DistributionAccount, NEW i \in Int
  PROVE  /\ Frequency \in Int
         /\ RoundStart(i) \in Int
         /\ RoundEnd(i) \in Int
         /\ RoundEnd(i) = RoundStart(i) + Frequency
<1>1. Frequency \in Int
  BY DEF DistributionAccount, Frequency
<1>2. (i - 1) * Frequency \in Int
  <2> DEFINE f == Frequency
  <2> HIDE DEF f
  <2>1. \A m, n \in Int : (m - 1) * n \in Int
    OBVIOUS
  <2> QED
    BY <1>1, <2>1
<1>3. distribution.start_timestamp \in Int
  BY DEF DistributionAccount
<1>4. RoundStart(i) \in Int
  BY <1>2, <1>3 DEF RoundStart
<1> QED
  BY <1>1, <1>4 DEF RoundEnd

\* What a kickoff is accepted on, and what it leaves alone.
LEMMA KickoffTypes ==
  ASSUME TypeOK, KickoffMultisigVaultTransaction
  PROVE  /\ distribution \in DistributionAccount
         /\ NextRound = distribution.round_index + 1
         /\ NextRound \in 1..U16Max
         /\ NextRound \notin DOMAIN round
         /\ RoundStart(NextRound) <= now
         /\ distribution' = [distribution EXCEPT !.round_index = NextRound]
         /\ distribution' \in DistributionAccount
         /\ distribution'.round_index = NextRound
         /\ SkipRound(NextRound) \/ OpenRound(NextRound)
         /\ UNCHANGED <<state, vault, distribution_tokens, now>>
<1>1. /\ CanKickoff(NextRound)
      /\ SkipRound(NextRound) \/ OpenRound(NextRound)
      /\ distribution' = [distribution EXCEPT !.round_index = NextRound]
      /\ UNCHANGED <<state, vault, distribution_tokens, now>>
  BY DEF KickoffMultisigVaultTransaction
<1>2. /\ distribution \in DistributionAccount
      /\ NextRound <= U16Max
      /\ NextRound \notin DOMAIN round
      /\ RoundStart(NextRound) <= now
  BY <1>1 DEF CanKickoff, TypeOK
<1>3. NextRound = distribution.round_index + 1 /\ NextRound \in 1..U16Max
  BY <1>2 DEF NextRound, DistributionAccount
<1>4. /\ distribution' \in DistributionAccount
      /\ distribution'.round_index = NextRound
  BY <1>1, <1>2, <1>3 DEF DistributionAccount
<1> QED
  BY <1>1, <1>2, <1>3, <1>4

\* What the execution of a proposal changes: the proposal and the tokens.
LEMMA ExecuteTypes ==
  ASSUME TypeOK, NEW t \in DOMAIN proposal, ExecuteMultisigVaultTransaction(t)
  PROVE  /\ distribution \in DistributionAccount
         /\ proposal[t] \in Proposal
         /\ proposal[t].status = "Approved"
         /\ proposal[t].round = distribution.round_index
         /\ distribution.round_index \in 0..U16Max
         /\ proposal' = [proposal EXCEPT ![t].status = "Executed"]
         /\ DOMAIN proposal' = DOMAIN proposal
         /\ proposal'[t].status = "Executed"
         /\ \A s \in DOMAIN proposal : proposal'[s].round = proposal[s].round
         /\ \A s \in DOMAIN proposal \ {t} : proposal'[s] = proposal[s]
         /\ vault' = 0
         /\ distribution_tokens' = distribution_tokens + vault
         /\ UNCHANGED <<state, distribution, round, transaction_index, lamports, now>>
<1>1. /\ distribution # NoAccount
      /\ MayExecute(t)
      /\ MultisigVaultTransfer(proposal[t].round)
      /\ distribution' = WrittenBack(distribution, Transferred)
      /\ proposal' = [proposal EXCEPT ![t].status = "Executed"]
      /\ UNCHANGED <<state, transaction_index, lamports, now>>
  BY DEF ExecuteMultisigVaultTransaction
<1>2. distribution \in DistributionAccount
  BY <1>1 DEF TypeOK
<1>3. /\ proposal[t].round = distribution.round_index
      /\ UNCHANGED <<distribution, round>>
  BY <1>1 DEF MultisigVaultTransfer, IsCurrentRound, WrittenBack
<1>4. distribution.round_index \in 0..U16Max
  BY <1>2 DEF DistributionAccount
<1>6. vault' = 0 /\ distribution_tokens' = distribution_tokens + vault
  BY <1>1 DEF MultisigVaultTransfer, Swept, TypeOK
<1>7. /\ proposal \in [1..transaction_index -> Proposal]
      /\ proposal[t] \in Proposal
      /\ proposal[t].status = "Approved"
  BY <1>1 DEF MayExecute, TypeOK
<1>8. /\ DOMAIN proposal' = DOMAIN proposal
      /\ proposal'[t].status = "Executed"
      /\ \A s \in DOMAIN proposal : proposal'[s].round = proposal[s].round
      /\ \A s \in DOMAIN proposal \ {t} : proposal'[s] = proposal[s]
  BY <1>1, <1>7 DEF Proposal
<1> QED
  BY <1>1, <1>2, <1>3, <1>4, <1>6, <1>7, <1>8

\* A round that is opened gets an account; no other account of a round changes.
LEMMA OpenRoundTypes ==
  ASSUME TypeOK, NEW i \in 1..U16Max, i \notin DOMAIN round, RoundEnd(i) \in Int,
         OpenRound(i)
  PROVE  /\ ProposeToMembers(i) \/ ProposeElsewhere(i)
         /\ DOMAIN round' = DOMAIN round \cup {i}
         /\ round'[i] # None
         /\ round'[i].index = i
         /\ round'[i].end_timestamp = RoundEnd(i)
         /\ round'[i].proposal =
              IF ProposeToMembers(i) THEN transaction_index + 1 ELSE Elsewhere
         /\ \A j \in DOMAIN round : round'[j] = round[j]
         /\ round' \in [DOMAIN round' -> RoundInner \cup {None}]
<1>1. /\ ProposeToMembers(i) \/ ProposeElsewhere(i)
      /\ transaction_index + 1 \in Nat \ {0}
      /\ round \in [DOMAIN round -> RoundInner \cup {None}]
  BY DEF OpenRound, TypeOK
<1> DEFINE created == IF ProposeToMembers(i) THEN transaction_index + 1 ELSE Elsewhere
<1>2. round' = WithAccount(round, i, Opened(i, created))
  BY <1>1 DEF ProposeToMembers, ProposeElsewhere, NextTransaction
<1>3. created \in (Nat \ {0}) \cup {Elsewhere}
  BY <1>1
<1> HIDE DEF created
<1>4. /\ Opened(i, created) \in RoundInner
      /\ Opened(i, created).index = i
      /\ Opened(i, created).end_timestamp = RoundEnd(i)
      /\ Opened(i, created).proposal = created
  BY <1>3 DEF Opened, RoundInner
<1>5. /\ DOMAIN round' = DOMAIN round \cup {i}
      /\ round'[i] = Opened(i, created)
      /\ \A j \in DOMAIN round : round'[j] = round[j]
      /\ round' \in [DOMAIN round' -> RoundInner \cup {None}]
  BY <1>1, <1>2, <1>4 DEF WithAccount
<1> QED
  BY <1>1, <1>4, <1>5 DEF created

\* Given the offering's multisig, the round gets its next vault transaction.
LEMMA ProposeTypes ==
  ASSUME TypeOK, NEW i \in 1..U16Max, ProposeToMembers(i)
  PROVE  /\ transaction_index' = transaction_index + 1
         /\ DOMAIN proposal' = DOMAIN proposal \cup {transaction_index + 1}
         /\ transaction_index + 1 \notin DOMAIN proposal
         /\ proposal'[transaction_index + 1] = [round |-> i, status |-> "Active"]
         /\ \A t \in DOMAIN proposal : proposal'[t] = proposal[t]
         /\ proposal' \in [1..transaction_index' -> Proposal]
<1> DEFINE created == [round |-> i, status |-> "Active"]
<1>1. /\ transaction_index' = transaction_index + 1
      /\ transaction_index \in Nat
      /\ proposal' = WithAccount(proposal, transaction_index + 1, created)
      /\ proposal \in [1..transaction_index -> Proposal]
  BY DEF ProposeToMembers, NextTransaction, ProposedRound, TypeOK
<1>2. created \in Proposal
  BY DEF Proposal
<1> HIDE DEF created
<1>3. /\ DOMAIN proposal' = DOMAIN proposal \cup {transaction_index + 1}
      /\ transaction_index + 1 \notin DOMAIN proposal
      /\ proposal'[transaction_index + 1] = created
      /\ \A t \in DOMAIN proposal : proposal'[t] = proposal[t]
  BY <1>1 DEF WithAccount
<1>4. 1..transaction_index' = DOMAIN proposal \cup {transaction_index + 1}
  BY <1>1
<1>5. proposal' \in [1..transaction_index' -> Proposal]
  BY <1>1, <1>2, <1>4 DEF WithAccount
<1> QED
  BY <1>1, <1>3, <1>5 DEF created

\* A round whose window was missed leaves an account without content.
LEMMA SkipRoundTypes ==
  ASSUME TypeOK, NEW i \in 1..U16Max, i \notin DOMAIN round, SkipRound(i)
  PROVE  /\ DOMAIN round' = DOMAIN round \cup {i}
         /\ round'[i] = None
         /\ \A j \in DOMAIN round : round'[j] = round[j]
         /\ round' \in [DOMAIN round' -> RoundInner \cup {None}]
         /\ UNCHANGED <<transaction_index, proposal, lamports>>
<1>1. round \in [DOMAIN round -> RoundInner \cup {None}]
  BY DEF TypeOK
<1> QED
  BY <1>1 DEF SkipRound, WithAccount

\* The members' decision changes the status of one proposal, and never to or
\* from "Executed".
LEMMA DecideTypes ==
  ASSUME TypeOK, NEW t \in DOMAIN proposal,
         NEW status \in {"Approved", "Rejected", "Cancelled"},
         DecideProposal(t, status)
  PROVE  /\ proposal' \in [1..transaction_index -> Proposal]
         /\ DOMAIN proposal' = DOMAIN proposal
         /\ \A s \in DOMAIN proposal :
              /\ proposal'[s].round = proposal[s].round
              /\ proposal'[s].status = "Executed" <=> proposal[s].status = "Executed"
         /\ UNCHANGED <<state, distribution, round, transaction_index, vault,
                        distribution_tokens, lamports, now>>
<1>1. /\ proposal' = [proposal EXCEPT ![t].status = status]
      /\ proposal[t].status \in {"Active", "Approved"}
      /\ UNCHANGED <<state, distribution, round, transaction_index, vault,
                     distribution_tokens, lamports, now>>
  BY DEF DecideProposal
<1>2. proposal \in [1..transaction_index -> Proposal] /\ t \in 1..transaction_index
  BY DEF TypeOK
<1>3. [proposal[t] EXCEPT !.status = status] \in Proposal
  BY <1>2 DEF Proposal
<1>4. proposal' \in [1..transaction_index -> Proposal]
  BY <1>1, <1>2, <1>3
<1>5. ASSUME NEW s \in DOMAIN proposal
      PROVE  /\ proposal'[s].round = proposal[s].round
             /\ proposal'[s].status = "Executed" <=> proposal[s].status = "Executed"
  BY <1>1, <1>2 DEF Proposal
<1> QED
  BY <1>1, <1>2, <1>4, <1>5

-----------------------------------------------------------------------------
(* Type correctness *)

\* Every account of the distribution keeps the widths state.rs declares, and
\* the distribution exists exactly when the offering is in DistributionActive.
THEOREM TypeCorrect == Spec => []TypeOK
<1>1. Init => TypeOK
  BY DEF Init, TypeOK, OfferingStates
<1>2. ASSUME TypeOK, [Next]_vars PROVE TypeOK'
  <2>1. ASSUME NEW frequency \in Frequencies, NEW deposit \in Deposits,
               NEW thread_deposit \in Deposits,
               InitDistribution(frequency, deposit, thread_deposit)
        PROVE  TypeOK'
    <3>1. distribution' \in DistributionAccount
      BY <2>1 DEF InitDistribution, DistributionAccount, DefaultTimestamp
    <3>2. lamports' \in [payer : Nat, distribution : Nat, threads : Nat]
      <4>1. /\ lamports \in [payer : Nat, distribution : Nat, threads : Nat]
            /\ deposit \in Nat /\ thread_deposit \in Nat
            /\ deposit + thread_deposit <= lamports.payer
            /\ lamports' = Fund(deposit, thread_deposit)
        BY <1>2, <2>1 DEF TypeOK, InitDistribution
      <4> QED
        BY <4>1 DEF Fund
    <3>3. /\ state' = "DistributionActive"
          /\ UNCHANGED <<round, transaction_index, proposal, vault,
                         distribution_tokens, now>>
      BY <2>1 DEF InitDistribution
    <3> QED
      BY <1>2, <3>1, <3>2, <3>3 DEF TypeOK, OfferingStates
  <2>2. ASSUME KickoffMultisigVaultTransaction PROVE TypeOK'
    <3> DEFINE i == NextRound
    <3>1. /\ distribution \in DistributionAccount
          /\ i \in 1..U16Max
          /\ i \notin DOMAIN round
          /\ distribution' \in DistributionAccount
          /\ SkipRound(i) \/ OpenRound(i)
          /\ UNCHANGED <<state, vault, distribution_tokens, now>>
      BY <1>2, <2>2, KickoffTypes
    <3>2. RoundEnd(i) \in Int
      BY <3>1, ScheduleTypes
    <3> HIDE DEF i
    <3>3. /\ DOMAIN round' \subseteq 1..U16Max
          /\ round' \in [DOMAIN round' -> RoundInner \cup {None}]
          /\ transaction_index' \in Nat
          /\ proposal' \in [1..transaction_index' -> Proposal]
      <4>1. /\ DOMAIN round \subseteq 1..U16Max
            /\ transaction_index \in Nat
            /\ proposal \in [1..transaction_index -> Proposal]
        BY <1>2 DEF TypeOK
      <4>2. CASE OpenRound(i)
        <5>1. /\ ProposeToMembers(i) \/ ProposeElsewhere(i)
              /\ DOMAIN round' = DOMAIN round \cup {i}
              /\ round' \in [DOMAIN round' -> RoundInner \cup {None}]
          BY <1>2, <3>1, <3>2, <4>2, OpenRoundTypes
        <5>2. CASE ProposeToMembers(i)
          <6>1. /\ transaction_index' = transaction_index + 1
                /\ proposal' \in [1..transaction_index' -> Proposal]
            BY <1>2, <3>1, <5>2, ProposeTypes
          <6> QED
            BY <3>1, <4>1, <5>1, <6>1
        <5>3. CASE ProposeElsewhere(i)
          BY <3>1, <4>1, <5>1, <5>3 DEF ProposeElsewhere
        <5> QED
          BY <5>1, <5>2, <5>3
      <4>3. CASE SkipRound(i)
        <5>1. /\ DOMAIN round' = DOMAIN round \cup {i}
              /\ round' \in [DOMAIN round' -> RoundInner \cup {None}]
              /\ UNCHANGED <<transaction_index, proposal>>
          BY <1>2, <3>1, <4>3, SkipRoundTypes
        <5> QED
          BY <3>1, <4>1, <5>1
      <4> QED
        BY <3>1, <4>2, <4>3
    <3>4. lamports' \in [payer : Nat, distribution : Nat, threads : Nat]
      <4>1. lamports \in [payer : Nat, distribution : Nat, threads : Nat]
        BY <1>2 DEF TypeOK
      <4>2. \/ UNCHANGED lamports
            \/ /\ lamports.distribution >= ThreadLamports
               /\ lamports' =
                    [lamports EXCEPT !.distribution = lamports.distribution - ThreadLamports,
                                     !.threads = lamports.threads + ThreadLamports]
        BY <3>1 DEF OpenRound, SkipRound, CanFundThread
      <4>3. CASE UNCHANGED lamports
        BY <4>1, <4>3
      <4>4. CASE lamports.distribution >= ThreadLamports
        <5>1. /\ lamports.distribution - ThreadLamports \in Nat
              /\ lamports.threads + ThreadLamports \in Nat
          BY <4>1, <4>4
        <5> QED
          BY <4>1, <4>2, <5>1
      <4> QED
        BY <4>2, <4>3, <4>4
    <3>5. /\ state' \in OfferingStates
          /\ state' = "DistributionActive"
          /\ distribution' # NoAccount
      BY <1>2, <3>1 DEF TypeOK
    <3> QED
      BY <1>2, <3>1, <3>3, <3>4, <3>5 DEF TypeOK
  <2>3. ASSUME NEW t \in DOMAIN proposal, ExecuteMultisigVaultTransaction(t)
        PROVE  TypeOK'
    <3>1. /\ vault' = 0
          /\ distribution_tokens' = distribution_tokens + vault
          /\ UNCHANGED <<state, distribution, round, transaction_index, lamports, now>>
      BY <1>2, <2>3, ExecuteTypes
    <3>2. proposal' \in [1..transaction_index -> Proposal]
      <4>1. /\ proposal[t] \in Proposal
            /\ proposal' = [proposal EXCEPT ![t].status = "Executed"]
        BY <1>2, <2>3, ExecuteTypes
      <4>2. [proposal[t] EXCEPT !.status = "Executed"] \in Proposal
        BY <4>1 DEF Proposal
      <4>3. proposal \in [1..transaction_index -> Proposal]
        BY <1>2 DEF TypeOK
      <4> QED
        BY <4>1, <4>2, <4>3
    <3>3. vault' \in Nat /\ distribution_tokens' \in Nat
      BY <1>2, <3>1 DEF TypeOK
    <3> QED
      BY <1>2, <3>1, <3>2, <3>3 DEF TypeOK
  <2>4. ASSUME NEW t \in DOMAIN proposal,
               NEW status \in {"Approved", "Rejected", "Cancelled"},
               DecideProposal(t, status)
        PROVE  TypeOK'
    <3>1. /\ proposal' \in [1..transaction_index -> Proposal]
          /\ UNCHANGED <<state, distribution, round, transaction_index, vault,
                         distribution_tokens, lamports, now>>
      BY <1>2, <2>4, DecideTypes
    <3> QED
      BY <1>2, <3>1 DEF TypeOK
  <2>5. ASSUME NEW amount \in Revenues, ReceiveRevenue(amount) PROVE TypeOK'
    <3>1. /\ vault' = vault + amount
          /\ UNCHANGED <<state, distribution, round, transaction_index, proposal,
                         distribution_tokens, lamports, now>>
      BY <2>5 DEF ReceiveRevenue
    <3>2. vault' \in Nat
      BY <1>2, <3>1 DEF TypeOK
    <3> QED
      BY <1>2, <3>1, <3>2 DEF TypeOK
  <2>6. ASSUME EndBuyIn PROVE TypeOK'
    BY <1>2, <2>6 DEF EndBuyIn, TypeOK, OfferingStates
  <2>7. ASSUME Tick PROVE TypeOK'
    BY <1>2, <2>7 DEF Tick, TypeOK
  <2>8. ASSUME UNCHANGED vars PROVE TypeOK'
    BY <1>2, <2>8 DEF vars, TypeOK
  <2> QED
    BY <1>2, <2>1, <2>2, <2>3, <2>4, <2>5, <2>6, <2>7, <2>8
       DEF Next, DistributionStep, SquadsStep
<1> QED
  BY <1>1, <1>2, PTL DEF Spec

-----------------------------------------------------------------------------
(* Proposals and rounds *)

\* The kinds of steps, as the accounts of the distribution see them.
LEMMA StepKinds ==
  ASSUME [Next]_vars
  PROVE  \/ \E frequency \in Frequencies, deposit \in Deposits, thread_deposit \in Deposits :
               InitDistribution(frequency, deposit, thread_deposit)
         \/ KickoffMultisigVaultTransaction
         \/ \E t \in DOMAIN proposal : ExecuteMultisigVaultTransaction(t)
         \/ \E t \in DOMAIN proposal, status \in {"Approved", "Rejected", "Cancelled"} :
               DecideProposal(t, status)
         \/ /\ UNCHANGED <<distribution, round, transaction_index, proposal, lamports>>
            /\ now' = now \/ now' = now + 1
BY DEF Next, DistributionStep, SquadsStep, ReceiveRevenue, EndBuyIn, Tick, vars

\* Every round that is opened keeps a proposal of its own, and every proposal its
\* round, whatever is skipped, executed or cancelled in between.
LEMMA ProposalsKept ==
  ASSUME TypeOK, ProposalsMatchRounds, [Next]_vars
  PROVE  ProposalsMatchRounds'
<1>1. ASSUME UNCHANGED <<round, proposal>> PROVE ProposalsMatchRounds'
  BY <1>1 DEF ProposalsMatchRounds, IsLive
<1>2. ASSUME UNCHANGED round, DOMAIN proposal' = DOMAIN proposal,
             \A s \in DOMAIN proposal : proposal'[s].round = proposal[s].round
      PROVE  ProposalsMatchRounds'
  BY <1>2 DEF ProposalsMatchRounds, IsLive
<1>3. ASSUME KickoffMultisigVaultTransaction PROVE ProposalsMatchRounds'
  <2> DEFINE i == NextRound
  <2>1. /\ i \in 1..U16Max
        /\ i \notin DOMAIN round
        /\ SkipRound(i) \/ OpenRound(i)
        /\ RoundEnd(i) \in Int
    BY <1>3, KickoffTypes, ScheduleTypes
  <2> HIDE DEF i
  <2>2. CASE SkipRound(i)
    <3>1. /\ DOMAIN round' = DOMAIN round \cup {i}
          /\ round'[i] = None
          /\ \A j \in DOMAIN round : round'[j] = round[j]
          /\ UNCHANGED proposal
      BY <2>1, <2>2, SkipRoundTypes
    <3> QED
      BY <3>1 DEF ProposalsMatchRounds, IsLive
  <2>3. CASE OpenRound(i)
    <3> DEFINE n == transaction_index + 1
    <3>1. /\ ProposeToMembers(i) \/ ProposeElsewhere(i)
          /\ DOMAIN round' = DOMAIN round \cup {i}
          /\ round'[i].index = i
          /\ round'[i].proposal = IF ProposeToMembers(i) THEN n ELSE Elsewhere
          /\ round'[i] # None
          /\ \A j \in DOMAIN round : round'[j] = round[j]
      BY <2>1, <2>3, OpenRoundTypes
    <3> HIDE DEF n
    <3>2. /\ \A t \in DOMAIN proposal : t \in DOMAIN proposal' /\ proposal'[t] = proposal[t]
          /\ ProposeToMembers(i) => n \in DOMAIN proposal' /\ proposal'[n].round = i
          /\ \A t \in DOMAIN proposal' \ DOMAIN proposal : ProposeToMembers(i) /\ t = n
      <4>1. CASE ProposeToMembers(i)
        <5>1. /\ DOMAIN proposal' = DOMAIN proposal \cup {n}
              /\ proposal'[n] = [round |-> i, status |-> "Active"]
              /\ \A t \in DOMAIN proposal : proposal'[t] = proposal[t]
          BY <2>1, <4>1, ProposeTypes DEF n
        <5> QED
          BY <4>1, <5>1
      <4>2. CASE ~ProposeToMembers(i)
        BY <3>1, <4>2 DEF ProposeElsewhere
      <4> QED
        BY <4>1, <4>2
    <3>3. ASSUME NEW j \in DOMAIN round', round'[j] # None
          PROVE  /\ round'[j].index = j
                 /\ round'[j].proposal # Elsewhere =>
                      /\ round'[j].proposal \in DOMAIN proposal'
                      /\ proposal'[round'[j].proposal].round = j
      <4>1. CASE j = i
        BY <3>1, <3>2, <4>1
      <4>2. CASE j \in DOMAIN round
        BY <3>1, <3>2, <3>3, <4>2 DEF ProposalsMatchRounds
      <4> QED
        BY <3>1, <4>1, <4>2
    <3>4. ASSUME NEW t \in DOMAIN proposal'
          PROVE  /\ proposal'[t].round \in DOMAIN round'
                 /\ round'[proposal'[t].round] # None
                 /\ round'[proposal'[t].round].proposal = t
      <4>1. CASE t \in DOMAIN proposal
        BY <3>1, <3>2, <4>1 DEF ProposalsMatchRounds, IsLive
      <4>2. CASE t \notin DOMAIN proposal
        BY <3>1, <3>2, <4>2
      <4> QED
        BY <4>1, <4>2
    <3> QED
      BY <3>3, <3>4 DEF ProposalsMatchRounds, IsLive
  <2> QED
    BY <2>1, <2>2, <2>3
<1>4. ASSUME NEW t \in DOMAIN proposal, ExecuteMultisigVaultTransaction(t)
      PROVE  ProposalsMatchRounds'
  BY <1>2, <1>4, ExecuteTypes
<1>5. ASSUME NEW t \in DOMAIN proposal,
             NEW status \in {"Approved", "Rejected", "Cancelled"},
             DecideProposal(t, status)
      PROVE  ProposalsMatchRounds'
  BY <1>2, <1>5, DecideTypes
<1> QED
  BY <1>1, <1>3, <1>4, <1>5, StepKinds DEF InitDistribution

\* Each opened round has its own proposal, and each proposal its round: what is
\* voted on and executed is that round's payout.
THEOREM ProposalsAlwaysMatchRounds == Spec => []ProposalsMatchRounds
<1>1. Init => ProposalsMatchRounds
  BY DEF Init, ProposalsMatchRounds
<1> QED
  BY <1>1, ProposalsKept, TypeCorrect, PTL DEF Spec

-----------------------------------------------------------------------------
(* round_index, moved by kickoffs alone *)

\* A kickoff executes nothing, and uses the index after round_index.
LEMMA KickoffIndex ==
  ASSUME TypeOK, KickoffMultisigVaultTransaction
  PROVE  /\ RoundIndex \in Nat
         /\ RoundIndex' = RoundIndex + 1
         /\ DOMAIN round' = DOMAIN round \cup {RoundIndex + 1}
         /\ \A t \in DOMAIN proposal : t \in DOMAIN proposal' /\ proposal'[t] = proposal[t]
<1> DEFINE i == NextRound
<1>1. /\ distribution \in DistributionAccount
      /\ distribution' \in DistributionAccount
      /\ distribution'.round_index = i
      /\ i = distribution.round_index + 1
      /\ i \in 1..U16Max
      /\ i \notin DOMAIN round
      /\ SkipRound(i) \/ OpenRound(i)
      /\ RoundEnd(i) \in Int
  BY KickoffTypes, ScheduleTypes
<1>2. /\ RoundIndex \in Nat
      /\ i = RoundIndex + 1
      /\ RoundIndex' = i
  BY <1>1 DEF RoundIndex, DistributionAccount
<1> HIDE DEF i
<1>3. CASE SkipRound(i)
  BY <1>1, <1>2, <1>3, SkipRoundTypes
<1>4. CASE OpenRound(i)
  <2>1. /\ DOMAIN round' = DOMAIN round \cup {i}
        /\ ProposeToMembers(i) \/ ProposeElsewhere(i)
    BY <1>1, <1>4, OpenRoundTypes
  <2>2. \A t \in DOMAIN proposal : t \in DOMAIN proposal' /\ proposal'[t] = proposal[t]
    <3>1. CASE ProposeToMembers(i)
      BY <1>1, <3>1, ProposeTypes
    <3>2. CASE ProposeElsewhere(i)
      BY <3>2 DEF ProposeElsewhere
    <3> QED
      BY <2>1, <3>1, <3>2
  <2> QED
    BY <1>2, <2>1, <2>2
<1> QED
  BY <1>1, <1>3, <1>4

\* A payout leaves round_index and the accounts of the rounds as they are: the
\* increment of the transfer is overwritten when the execute handler returns.
LEMMA CountKept ==
  ASSUME TypeOK, RoundIndexCountsRounds, [Next]_vars
  PROVE  RoundIndexCountsRounds'
<1> USE DEF RoundIndexCountsRounds
<1>1. ASSUME UNCHANGED <<round, distribution>> PROVE RoundIndexCountsRounds'
  BY <1>1 DEF RoundIndex
<1>2. ASSUME NEW frequency \in Frequencies, NEW deposit \in Deposits,
             NEW thread_deposit \in Deposits,
             InitDistribution(frequency, deposit, thread_deposit)
      PROVE  RoundIndexCountsRounds'
  <2>1. /\ distribution = NoAccount
        /\ distribution' =
             [start_timestamp |-> DefaultTimestamp,
              frequency_in_seconds |-> frequency, round_index |-> 0]
        /\ distribution' \in DistributionAccount
        /\ UNCHANGED round
    BY <1>2 DEF InitDistribution, DistributionAccount, DefaultTimestamp
  <2>2. RoundIndex = 0 /\ RoundIndex' = 0
    BY <2>1 DEF RoundIndex
  <2> QED
    BY <2>1, <2>2
<1>3. ASSUME KickoffMultisigVaultTransaction PROVE RoundIndexCountsRounds'
  <2>1. /\ RoundIndex \in Nat
        /\ RoundIndex' = RoundIndex + 1
        /\ DOMAIN round' = DOMAIN round \cup {RoundIndex + 1}
    BY <1>3, KickoffIndex
  <2> QED
    BY <2>1
<1>4. ASSUME NEW t \in DOMAIN proposal, ExecuteMultisigVaultTransaction(t)
      PROVE  RoundIndexCountsRounds'
  BY <1>1, <1>4, ExecuteTypes
<1>5. ASSUME NEW t \in DOMAIN proposal,
             NEW status \in {"Approved", "Rejected", "Cancelled"},
             DecideProposal(t, status)
      PROVE  RoundIndexCountsRounds'
  BY <1>1, <1>5, DecideTypes
<1> QED
  BY <1>1, <1>2, <1>3, <1>4, <1>5, StepKinds

\* round_index is the index of the latest round and the number of rounds so far,
\* whatever is skipped, paid or left unpaid.
THEOREM RoundIndexAlwaysCountsRounds == Spec => []RoundIndexCountsRounds
<1>1. Init => RoundIndexCountsRounds
  BY DEF Init, RoundIndexCountsRounds, RoundIndex
<1> QED
  BY <1>1, CountKept, TypeCorrect, PTL DEF Spec

-----------------------------------------------------------------------------
(* What a payout may do *)

\* Only an execution makes a proposal executed or takes tokens from the vault.
LEMMA OnlyExecuteSpends ==
  ASSUME TypeOK, [Next]_vars
  PROVE  \/ \E t \in DOMAIN proposal : ExecuteMultisigVaultTransaction(t)
         \/ /\ ~(vault' < vault)
            /\ \A t \in DOMAIN proposal :
                 proposal'[t].status = "Executed" => proposal[t].status = "Executed"
<1> USE DEF TypeOK
<1>1. ASSUME UNCHANGED <<vault, proposal>>
      PROVE  /\ ~(vault' < vault)
             /\ \A t \in DOMAIN proposal :
                  proposal'[t].status = "Executed" => proposal[t].status = "Executed"
  BY <1>1
<1>2. ASSUME KickoffMultisigVaultTransaction
      PROVE  /\ ~(vault' < vault)
             /\ \A t \in DOMAIN proposal :
                  proposal'[t].status = "Executed" => proposal[t].status = "Executed"
  <2>1. UNCHANGED vault
    BY <1>2 DEF KickoffMultisigVaultTransaction
  <2>2. \A t \in DOMAIN proposal : t \in DOMAIN proposal' /\ proposal'[t] = proposal[t]
    BY ONLY TypeOK, <1>2, KickoffIndex
  <2> QED
    BY <2>1, <2>2
<1>3. ASSUME NEW t \in DOMAIN proposal,
             NEW status \in {"Approved", "Rejected", "Cancelled"},
             DecideProposal(t, status)
      PROVE  /\ ~(vault' < vault)
             /\ \A s \in DOMAIN proposal :
                  proposal'[s].status = "Executed" => proposal[s].status = "Executed"
  <2>1. /\ UNCHANGED vault
        /\ \A s \in DOMAIN proposal :
             proposal'[s].status = "Executed" <=> proposal[s].status = "Executed"
    BY ONLY TypeOK, <1>3, DecideTypes
  <2> QED
    BY <2>1
<1>4. ASSUME NEW amount \in Revenues, ReceiveRevenue(amount)
      PROVE  /\ ~(vault' < vault)
             /\ \A s \in DOMAIN proposal :
                  proposal'[s].status = "Executed" => proposal[s].status = "Executed"
  BY <1>4 DEF ReceiveRevenue
<1> QED
  BY <1>1, <1>2, <1>3, <1>4
     DEF Next, DistributionStep, SquadsStep, InitDistribution, EndBuyIn, Tick, vars

\* A payout executes only what the members approved, and never the proposal of a
\* round that a later round has overtaken.
THEOREM NeverStalePayout == Spec => NoStalePayout
<1> DEFINE NoStale ==
      \A t \in DOMAIN proposal :
        proposal[t].status # "Executed" /\ proposal'[t].status = "Executed" =>
          /\ proposal[t].status = "Approved"
          /\ \A i \in DOMAIN round : i <= proposal[t].round
<1>1. ASSUME TypeOK, RoundIndexCountsRounds, [Next]_vars PROVE [NoStale]_vars
  <2>1. ASSUME NEW t \in DOMAIN proposal, ExecuteMultisigVaultTransaction(t)
        PROVE  NoStale
    <3>1. /\ proposal[t].status = "Approved"
          /\ \A s \in DOMAIN proposal \ {t} : proposal'[s] = proposal[s]
          /\ distribution \in DistributionAccount
          /\ proposal[t].round = distribution.round_index
          /\ distribution.round_index \in 0..U16Max
      BY <1>1, <2>1, ExecuteTypes
    <3>2. RoundIndex \in Nat /\ proposal[t].round = RoundIndex
      BY <3>1 DEF RoundIndex
    <3>3. \A i \in DOMAIN round : i <= proposal[t].round
      BY <1>1, <3>2 DEF RoundIndexCountsRounds
    <3> QED
      BY <3>1, <3>3
  <2> QED
    BY <1>1, <2>1, OnlyExecuteSpends
<1> QED
  BY <1>1, TypeCorrect, RoundIndexAlwaysCountsRounds, PTL DEF Spec, NoStalePayout

\* Tokens leave the vault only by executing a proposal, all of them at once, to
\* the distribution's token account.
THEOREM VaultAlwaysSwept == Spec => VaultSweptByPayout
<1> DEFINE SweptByPayout ==
      vault' < vault =>
        /\ vault' = 0
        /\ distribution_tokens' = distribution_tokens + vault
        /\ \E t \in DOMAIN proposal :
             proposal[t].status # "Executed" /\ proposal'[t].status = "Executed"
<1>1. ASSUME TypeOK, [Next]_vars PROVE [SweptByPayout]_vars
  <2>1. ASSUME NEW t \in DOMAIN proposal, ExecuteMultisigVaultTransaction(t)
        PROVE  SweptByPayout
    <3>1. /\ proposal[t].status = "Approved"
          /\ proposal'[t].status = "Executed"
          /\ vault' = 0
          /\ distribution_tokens' = distribution_tokens + vault
      BY <1>1, <2>1, ExecuteTypes
    <3> QED
      BY <3>1
  <2> QED
    BY <1>1, <2>1, OnlyExecuteSpends
<1> QED
  BY <1>1, TypeCorrect, PTL DEF Spec, VaultSweptByPayout

-----------------------------------------------------------------------------
(* The schedule *)

\* ScheduleRespected is not inductive by itself: that no round is opened when
\* time does not move the windows rests on their starting at the zero clock.
StartsAtZero ==
  distribution # NoAccount => distribution.start_timestamp = DefaultTimestamp

\* Two distributions of the same start and frequency have the same windows.
LEMMA ScheduleFixed ==
  ASSUME distribution'.start_timestamp = distribution.start_timestamp,
         distribution'.frequency_in_seconds = distribution.frequency_in_seconds
  PROVE  /\ Frequency' = Frequency
         /\ \A i : RoundStart(i)' = RoundStart(i) /\ RoundEnd(i)' = RoundEnd(i)
<1>1. Frequency' = Frequency
  BY DEF Frequency
<1> QED
  BY <1>1 DEF RoundStart, RoundEnd

\* Every round that is opened or skipped is so inside or after its own window.
LEMMA ScheduleKept ==
  ASSUME TypeOK, RoundIndexCountsRounds, StartsAtZero, ScheduleRespected, [Next]_vars
  PROVE  StartsAtZero' /\ ScheduleRespected'
<1>1. ASSUME UNCHANGED <<distribution, round>>, now' = now \/ now' = now + 1
      PROVE  StartsAtZero' /\ ScheduleRespected'
  <2>1. now \in Int /\ now' >= now
    BY <1>1 DEF TypeOK
  <2>2. CASE distribution = NoAccount
    <3>1. DOMAIN round = {}
      <4>1. DOMAIN round = 1..0
        BY <2>2 DEF RoundIndexCountsRounds, RoundIndex
      <4>2. 1..0 = {}
        OBVIOUS
      <4> QED
        BY <4>1, <4>2
    <3> QED
      BY <1>1, <2>2, <3>1 DEF StartsAtZero, ScheduleRespected
  <2>3. CASE distribution # NoAccount
    <3>1. distribution \in DistributionAccount /\ DOMAIN round \subseteq Int
      BY <2>3 DEF TypeOK
    <3>2. \A i \in DOMAIN round : RoundStart(i) \in Int /\ RoundEnd(i) \in Int
      BY <3>1, ScheduleTypes
    <3>3. /\ Frequency' = Frequency
          /\ \A i : RoundStart(i)' = RoundStart(i) /\ RoundEnd(i)' = RoundEnd(i)
      BY <1>1, ScheduleFixed
    <3> QED
      BY <1>1, <2>1, <3>2, <3>3 DEF StartsAtZero, ScheduleRespected
  <2> QED
    BY <2>2, <2>3
<1>2. ASSUME NEW frequency \in Frequencies, NEW deposit \in Deposits,
             NEW thread_deposit \in Deposits,
             InitDistribution(frequency, deposit, thread_deposit)
      PROVE  StartsAtZero' /\ ScheduleRespected'
  <2>1. /\ distribution = NoAccount
        /\ distribution'.start_timestamp = DefaultTimestamp
        /\ UNCHANGED round
    BY <1>2 DEF InitDistribution
  <2>2. DOMAIN round = {}
    BY <2>1 DEF RoundIndexCountsRounds, RoundIndex
  <2> QED
    BY <2>1, <2>2 DEF StartsAtZero, ScheduleRespected
<1>3. ASSUME KickoffMultisigVaultTransaction
      PROVE  StartsAtZero' /\ ScheduleRespected'
  <2> DEFINE i == NextRound
  <2>1. /\ distribution \in DistributionAccount
        /\ distribution' \in DistributionAccount
        /\ distribution' = [distribution EXCEPT !.round_index = i]
        /\ i \in 1..U16Max
        /\ i \notin DOMAIN round
        /\ RoundStart(i) <= now
        /\ SkipRound(i) \/ OpenRound(i)
        /\ UNCHANGED now
    BY <1>3, KickoffTypes
  <2>2. /\ Frequency \in Int
        /\ RoundStart(i) \in Int
        /\ RoundEnd(i) \in Int
        /\ RoundEnd(i) = RoundStart(i) + Frequency
    BY <2>1, ScheduleTypes
  <2> HIDE DEF i
  <2>3. /\ distribution'.start_timestamp = distribution.start_timestamp
        /\ distribution'.frequency_in_seconds = distribution.frequency_in_seconds
    BY <2>1 DEF DistributionAccount
  <2>4. /\ Frequency' = Frequency
        /\ \A j : RoundStart(j)' = RoundStart(j) /\ RoundEnd(j)' = RoundEnd(j)
    BY <2>3, ScheduleFixed
  <2>5. StartsAtZero'
    BY <2>1, <2>3 DEF StartsAtZero
  <2>6. now \in Nat \ {0}
    BY DEF TypeOK
  <2>7. /\ DOMAIN round' = DOMAIN round \cup {i}
        /\ \A j \in DOMAIN round : round'[j] = round[j]
        /\ round'[i] = None => RoundEnd(i) < now
        /\ round'[i] # None => Frequency > 0 /\ round'[i].end_timestamp = RoundEnd(i)
    <3>1. CASE SkipRound(i)
      <4>1. /\ DOMAIN round' = DOMAIN round \cup {i}
            /\ round'[i] = None
            /\ \A j \in DOMAIN round : round'[j] = round[j]
        BY <2>1, <3>1, SkipRoundTypes
      <4>2. now > RoundEnd(i)
        BY <3>1 DEF SkipRound
      <4> QED
        BY <2>2, <2>6, <4>1, <4>2
    <3>2. CASE OpenRound(i)
      <4>1. /\ DOMAIN round' = DOMAIN round \cup {i}
            /\ round'[i].end_timestamp = RoundEnd(i)
            /\ round'[i] # None
            /\ \A j \in DOMAIN round : round'[j] = round[j]
        BY <2>1, <2>2, <3>2, OpenRoundTypes
      <4>3. now <= RoundEnd(i)
        BY <3>2 DEF OpenRound
      <4>4. Frequency # 0
        <5>1. SUFFICES ASSUME Frequency = 0 PROVE FALSE
          OBVIOUS
        <5>2. RoundStart(i) = 0
          <6>1. distribution.start_timestamp = 0
            BY <2>1 DEF StartsAtZero, DefaultTimestamp
          <6>2. (i - 1) * 0 = 0
            BY <2>1
          <6> QED
            BY <5>1, <6>1, <6>2 DEF RoundStart
        <5> QED
          BY <2>2, <2>6, <4>3, <5>1, <5>2
      <4>5. Frequency > 0
        BY <2>1, <2>2, <2>6, <4>3, <4>4
      <4> QED
        BY <4>1, <4>5
    <3> QED
      BY <2>1, <3>1, <3>2
  <2>8. ScheduleRespected'
    BY <2>1, <2>4, <2>7 DEF ScheduleRespected
  <2> QED
    BY <2>5, <2>8
<1>4. ASSUME NEW t \in DOMAIN proposal, ExecuteMultisigVaultTransaction(t)
      PROVE  StartsAtZero' /\ ScheduleRespected'
  <2>1. UNCHANGED <<distribution, round, now>>
    BY <1>4, ExecuteTypes
  <2> QED
    BY <1>1, <2>1
<1>5. ASSUME NEW t \in DOMAIN proposal,
             NEW status \in {"Approved", "Rejected", "Cancelled"},
             DecideProposal(t, status)
      PROVE  UNCHANGED <<distribution, round, now>>
  BY <1>5, DecideTypes
<1> QED
  BY <1>1, <1>2, <1>3, <1>4, <1>5, StepKinds

\* No round is opened or skipped before its window starts, none is skipped before
\* its window ends, and none is opened unless the frequency is positive as i64.
THEOREM ScheduleAlwaysRespected == Spec => []ScheduleRespected
<1>1. Init => StartsAtZero /\ ScheduleRespected
  BY DEF Init, StartsAtZero, ScheduleRespected
<1> QED
  BY <1>1, ScheduleKept, TypeCorrect, RoundIndexAlwaysCountsRounds, PTL DEF Spec

-----------------------------------------------------------------------------
(* Lamports *)

\* The lamports of the payer, the distribution and the threads keep their sum, and
\* each vault transaction has put its share into a thread.
LEMMA ThreadFundsKept ==
  ASSUME TypeOK, ThreadFundsAccounted, [Next]_vars
  PROVE  ThreadFundsAccounted'
<1> USE DEF ThreadFundsAccounted
<1>1. /\ lamports \in [payer : Nat, distribution : Nat, threads : Nat]
      /\ transaction_index \in Nat
  BY DEF TypeOK
<1>2. ASSUME UNCHANGED <<transaction_index, lamports>> PROVE ThreadFundsAccounted'
  BY <1>2
<1>3. ASSUME NEW frequency \in Frequencies, NEW deposit \in Deposits,
             NEW thread_deposit \in Deposits,
             InitDistribution(frequency, deposit, thread_deposit)
      PROVE  ThreadFundsAccounted'
  <2>1. /\ lamports'.payer = lamports.payer - deposit - thread_deposit
        /\ lamports'.distribution = lamports.distribution + deposit
        /\ lamports'.threads = lamports.threads + thread_deposit
        /\ UNCHANGED transaction_index
    BY <1>3 DEF InitDistribution, Fund
  <2>2. deposit \in Nat /\ thread_deposit \in Nat
    OBVIOUS
  <2> DEFINE share == ThreadLamports * transaction_index
  <2>3. share \in Int /\ share' = share
    BY <1>1, <2>1
  <2>4. share <= lamports.threads
    OBVIOUS
  <2> HIDE DEF share
  <2>5. share' <= lamports'.threads
    BY <1>1, <2>1, <2>2, <2>3, <2>4
  <2>6. lamports'.payer + lamports'.distribution + lamports'.threads = PayerLamports
    BY <1>1, <2>1, <2>2
  <2> QED
    BY <2>5, <2>6 DEF share
<1>4. ASSUME KickoffMultisigVaultTransaction PROVE ThreadFundsAccounted'
  <2>1. SkipRound(NextRound) \/ OpenRound(NextRound)
    BY <1>4, KickoffTypes
  <2>2. CASE SkipRound(NextRound)
    BY <1>2, <2>2 DEF SkipRound
  <2>3. CASE OpenRound(NextRound)
    <3>1. lamports' =
            [lamports EXCEPT !.distribution = lamports.distribution - ThreadLamports,
                             !.threads = lamports.threads + ThreadLamports]
      BY <2>3 DEF OpenRound
    <3>2. /\ lamports'.payer = lamports.payer
          /\ lamports'.distribution = lamports.distribution - ThreadLamports
          /\ lamports'.threads = lamports.threads + ThreadLamports
      BY <1>1, <3>1
    <3>3. transaction_index' \in {transaction_index, transaction_index + 1}
      BY <2>3 DEF OpenRound, ProposeToMembers, ProposeElsewhere, NextTransaction
    <3>4. ThreadLamports * (transaction_index + 1) =
            ThreadLamports * transaction_index + ThreadLamports
      <4>1. \A m, n \in Nat : m * (n + 1) = m * n + m
        OBVIOUS
      <4> QED
        BY <1>1, <4>1
    <3> DEFINE share == ThreadLamports * transaction_index
    <3>5. share \in Int /\ share <= lamports.threads
      BY <1>1
    <3>6. ThreadLamports * transaction_index' \in {share, share + ThreadLamports}
      BY <3>3, <3>4
    <3> HIDE DEF share
    <3>7. ThreadLamports * transaction_index' <= lamports'.threads
      BY <1>1, <3>2, <3>5, <3>6
    <3>8. lamports'.payer + lamports'.distribution + lamports'.threads = PayerLamports
      BY <1>1, <3>2
    <3> QED
      BY <3>7, <3>8
  <2> QED
    BY <2>1, <2>2, <2>3
<1>5. ASSUME NEW t \in DOMAIN proposal, ExecuteMultisigVaultTransaction(t)
      PROVE  UNCHANGED <<transaction_index, lamports>>
  BY <1>5, ExecuteTypes
<1>6. ASSUME NEW t \in DOMAIN proposal,
             NEW status \in {"Approved", "Rejected", "Cancelled"},
             DecideProposal(t, status)
      PROVE  UNCHANGED <<transaction_index, lamports>>
  BY <1>6, DecideTypes
<1> QED
  BY <1>2, <1>3, <1>4, <1>5, <1>6, StepKinds

\* Funding the distribution and its threads creates and destroys no lamports, and
\* no proposal is left without the thread that is to execute it.
THEOREM ThreadFundsAlwaysAccounted == Spec => []ThreadFundsAccounted
<1>1. Init => ThreadFundsAccounted
  BY DEF Init, ThreadFundsAccounted
<1> QED
  BY <1>1, ThreadFundsKept, TypeCorrect, PTL DEF Spec

-----------------------------------------------------------------------------
(* The program as committed *)

\* As committed, where lib.rs does not dispatch to the execute handler, earnings
\* never leave the vault, however many rounds are opened and approved, and no
\* proposal is ever executed.
THEOREM CommittedNeverPays ==
  ~ExecuteWired => (Spec => [](/\ distribution_tokens = 0
                               /\ \A t \in DOMAIN proposal :
                                    proposal[t].status # "Executed"))
<1> DEFINE Unpaid == /\ distribution_tokens = 0
                     /\ \A t \in DOMAIN proposal : proposal[t].status # "Executed"
<1>1. Init => Unpaid
  BY DEF Init
<1>2. ASSUME ~ExecuteWired, TypeOK, Unpaid, [Next]_vars PROVE Unpaid'
  <2>1. CASE UNCHANGED <<distribution_tokens, proposal>>
    BY <1>2, <2>1
  <2>2. CASE KickoffMultisigVaultTransaction
    BY <1>2, <2>2 DEF KickoffMultisigVaultTransaction, SkipRound, OpenRound,
       ProposeToMembers, ProposeElsewhere, WithAccount
  <2>3. ASSUME NEW t \in DOMAIN proposal,
               NEW status \in {"Approved", "Rejected", "Cancelled"},
               DecideProposal(t, status)
        PROVE  Unpaid'
    BY <1>2, <2>3 DEF DecideProposal, TypeOK, Proposal
  <2> QED
    BY <1>2, <2>1, <2>2, <2>3 DEF Next, DistributionStep, SquadsStep, InitDistribution,
       ExecuteMultisigVaultTransaction, ReceiveRevenue, EndBuyIn, Tick, vars
<1>3. CASE ExecuteWired
  BY <1>3
<1>4. CASE ~ExecuteWired
  <2>1. TypeOK /\ Unpaid /\ [Next]_vars => Unpaid'
    BY <1>2, <1>4
  <2>2. Spec => []Unpaid
    BY <1>1, <2>1, TypeCorrect, PTL DEF Spec
  <2> QED
    BY <2>2
<1> QED
  BY <1>3, <1>4
=============================================================================
