-------------------------- MODULE AutomationProofs --------------------------
(* Proofs about the automated distribution, for every value of its          *)
(* constants and for every set of repairs, the empty one included: whatever *)
(* is handed over by thread, message or caller, the accounts go through a   *)
(* behaviour of Distribution, and what that promises holds.                 *)
EXTENDS Automation, SequenceTheorems, TLAPS

\* Distribution once more, with what is proved of it.
Rounds == INSTANCE DistributionProofs WITH proposal <- Proposals

-----------------------------------------------------------------------------
(* Addresses name what they were derived from *)

LEMMA BytesDetermine ==
  ASSUME NEW i \in Nat, NEW j \in Nat, i % 256 = j % 256, i \div 256 = j \div 256
  PROVE  i = j
OBVIOUS

LEMMA RoundsDiffer ==
  ASSUME NEW i \in Nat, NEW j \in Nat, Round(i) = Round(j)
  PROVE  i = j
<1>1. /\ Round(i)[4] = i % 256 /\ Round(i)[5] = i \div 256
      /\ Round(j)[4] = j % 256 /\ Round(j)[5] = j \div 256
  BY DEF Round, RoundAddress, FindProgramAddress
<1> QED
  BY <1>1, BytesDetermine

LEMMA ProposalsDiffer ==
  ASSUME NEW m, NEW s, NEW n, NEW t, ProposalAddress(m, s) = ProposalAddress(n, t)
  PROVE  m = n /\ s = t
<1>1. /\ ProposalAddress(m, s)[3] = m /\ ProposalAddress(m, s)[5] = s
      /\ ProposalAddress(n, t)[3] = n /\ ProposalAddress(n, t)[5] = t
  BY DEF ProposalAddress, SquadsAddress, FindProgramAddress
<1> QED
  BY <1>1

\* A proposal of the offering's multisig is recorded by its index, one of
\* another's as no index at all.
LEMMA RecordedOwn ==
  ASSUME NEW t \in 1..(U16Max + 1)
  PROVE  Recorded(ProposalAddress(Multisig, t)) = t
BY ProposalsDiffer DEF Recorded

LEMMA RecordedForeign ==
  ASSUME NEW t
  PROVE  Recorded(ProposalAddress(OtherMultisig, t)) = Elsewhere
BY ProposalsDiffer, OtherMultisigAssumption DEF Recorded, OtherMultisigAssumption

LEMMA MessageNamesItsRound ==
  ASSUME NEW i \in 1..U16Max, NEW m
  PROVE  RoundNamed(VaultMessage(i, m)) = i
<1>1. VaultMessage(i, m).keys[RoundPosition] = Round(i)
  BY DEF VaultMessage, MessageRepaired, MessageCommitted, Message, RoundPosition
<1> QED
  BY <1>1, RoundsDiffer, DistributionAssumption DEF RoundNamed, DistributionAssumption

-----------------------------------------------------------------------------
(* What the addresses in play are limited to *)

\* Transactions are numbered without a gap, each with its proposal, and there
\* is at most one for each index a round can have: hence kickoff finds the
\* number of the proposal it is handed.
Numbered ==
  /\ distribution \in D!DistributionAccount \cup {NoAccount}
  /\ state = "DistributionActive" => distribution # NoAccount
  /\ transaction_index \in 0..D!RoundIndex
  /\ DOMAIN vault_transaction = 1..transaction_index
  /\ DOMAIN status = 1..transaction_index

LEMMA RoundIndexInWidth ==
  ASSUME Numbered
  PROVE  D!RoundIndex \in 0..U16Max
BY DistributionAssumption DEF Numbered, D!RoundIndex, D!DistributionAccount,
   DistributionAssumption

\* What an accepted kickoff does, in terms of the round and the transaction.
LEMMA KickoffEffect ==
  ASSUME Numbered, NEW x, KickoffMultisigVaultTransaction(x)
  PROVE  LET i == D!NextRound  a == KickoffKeys(x) IN
    /\ i \in 1..U16Max
    /\ i = D!RoundIndex + 1
    /\ distribution # NoAccount /\ D!CanKickoff(i)
    /\ a.distribution_round = Round(i)
    /\ i \notin DOMAIN round
    /\ distribution' = [distribution EXCEPT !.round_index = i]
    /\ distribution' \in D!DistributionAccount
    /\ distribution'.round_index = i
    /\ UNCHANGED <<state, vault, distribution_tokens, now>>
    /\ \/ /\ D!SkipRound(i)
          /\ round' = D!WithAccount(round, i, None)
          /\ UNCHANGED <<transaction_index, vault_transaction, status, lamports,
                         watcher>>
       \/ /\ D!OpenRound(i)
          /\ NextOf(a, Multisig, D!NextTransaction)
          /\ round' = D!WithAccount(round, i, D!Opened(i, D!NextTransaction))
          /\ StoreMessage(i)
          /\ watcher' = D!WithAccount(watcher, i, a.proposal)
       \/ /\ D!OpenRound(i)
          /\ \E t \in OtherTransactions : NextOf(a, OtherMultisig, t)
          /\ round' = D!WithAccount(round, i, D!Opened(i, Elsewhere))
          /\ UNCHANGED <<transaction_index, vault_transaction, status>>
          /\ watcher' = D!WithAccount(watcher, i, a.proposal)
<1> USE DistributionAssumption DEF DistributionAssumption
<1> DEFINE i == D!NextRound
           n == D!NextTransaction
           a == KickoffKeys(x)
<1>1. /\ distribution # NoAccount /\ D!CanKickoff(i) /\ i \notin DOMAIN round
      /\ i <= U16Max
      /\ a.distribution_round = Round(i)
      /\ distribution' = [distribution EXCEPT !.round_index = i]
      /\ UNCHANGED <<state, vault, distribution_tokens, now>>
  BY DEF KickoffMultisigVaultTransaction, KickoffAccepted, RoundGiven, D!CanKickoff
<1>2. /\ distribution \in D!DistributionAccount
      /\ i = D!RoundIndex + 1 /\ i \in 1..U16Max
  BY <1>1 DEF Numbered, D!RoundIndex, D!DistributionAccount, D!NextRound
<1>3. /\ distribution' \in D!DistributionAccount
      /\ distribution'.round_index = i
  BY <1>1, <1>2 DEF D!DistributionAccount
<1>4. CASE SkipRound(i)
  <2>1. Proposals' = Proposals
    BY <1>4 DEF SkipRound, Proposals
  <2> QED
    BY <1>1, <1>2, <1>3, <1>4, <2>1 DEF SkipRound, CanSkip, D!SkipRound
<1>5. CASE OpenRound(x, i)
  <2>1. n \in 1..(U16Max + 1) /\ n \notin DOMAIN vault_transaction
    BY <1>2, RoundIndexInWidth DEF D!NextTransaction, Numbered
  <2>2. /\ round' = D!WithAccount(round, i, D!Opened(i, Recorded(a.proposal)))
        /\ watcher' = D!WithAccount(watcher, i, a.proposal)
        /\ lamports' = [lamports EXCEPT !.distribution = @ - ThreadLamports,
                                        !.threads = @ + ThreadLamports]
        /\ now <= D!RoundEnd(i) /\ D!CanFundThread
        /\ a.multisig = Multisig => StoreMessage(i)
        /\ a.multisig # Multisig =>
             UNCHANGED <<transaction_index, vault_transaction, status>>
        /\ \/ NextOf(a, Multisig, n)
           \/ \E t \in OtherTransactions : NextOf(a, OtherMultisig, t)
    BY <1>5 DEF OpenRound, CanOpen, SquadsCreates
  <2>3. CASE NextOf(a, Multisig, n)
    <3>1. /\ round' = D!WithAccount(round, i, D!Opened(i, n))
          /\ StoreMessage(i)
      BY <2>1, <2>2, <2>3, RecordedOwn DEF NextOf
    <3>2. Proposals' = D!WithAccount(Proposals, n, [round |-> i, status |-> "Active"])
      <4>1. DOMAIN vault_transaction' = DOMAIN vault_transaction \cup {n}
        BY <3>1 DEF D!WithAccount, StoreMessage
      <4>2. ASSUME NEW t \in DOMAIN vault_transaction
            PROVE  /\ vault_transaction'[t] = vault_transaction[t]
                   /\ status'[t] = status[t]
                   /\ t # n
        BY <2>1, <3>1 DEF D!WithAccount, Numbered, StoreMessage
      <4>3. RoundNamed(vault_transaction'[n]) = i /\ status'[n] = "Active"
        BY <1>2, <3>1, MessageNamesItsRound DEF D!WithAccount, StoreMessage
      <4> QED
        BY <2>1, <4>1, <4>2, <4>3 DEF Proposals, D!WithAccount
    <3>3. D!ProposeToMembers(i)
      BY <3>1, <3>2 DEF D!ProposeToMembers, D!ProposedRound, StoreMessage
    <3>4. D!OpenRound(i)
      BY <2>2, <3>3 DEF D!OpenRound
    <3> QED
      BY <1>1, <1>2, <1>3, <2>2, <2>3, <3>1, <3>4
  <2>4. ASSUME NEW t \in OtherTransactions, NextOf(a, OtherMultisig, t)
        PROVE  /\ D!OpenRound(i)
               /\ round' = D!WithAccount(round, i, D!Opened(i, Elsewhere))
               /\ UNCHANGED <<transaction_index, vault_transaction, status>>
    <3>1. /\ round' = D!WithAccount(round, i, D!Opened(i, Elsewhere))
          /\ UNCHANGED <<transaction_index, vault_transaction, status>>
      BY <2>2, <2>4, RecordedForeign, OtherMultisigAssumption
         DEF NextOf, OtherMultisigAssumption
    <3>2. Proposals' = Proposals
      BY <3>1 DEF Proposals
    <3> QED
      BY <2>2, <3>1, <3>2 DEF D!ProposeElsewhere, D!OpenRound
  <2> QED
    BY <1>1, <1>2, <1>3, <2>2, <2>3, <2>4
<1> QED
  BY <1>4, <1>5 DEF KickoffMultisigVaultTransaction

\* A kickoff, by whomever, is a kickoff of Distribution.
LEMMA KickoffImplements ==
  ASSUME Numbered, NEW x, KickoffMultisigVaultTransaction(x)
  PROVE  D!KickoffMultisigVaultTransaction /\ Numbered'
<1>1. D!KickoffMultisigVaultTransaction
  BY KickoffEffect DEF D!KickoffMultisigVaultTransaction
<1>2. /\ transaction_index' \in 0..D!RoundIndex'
      /\ DOMAIN vault_transaction' = 1..transaction_index'
      /\ DOMAIN status' = 1..transaction_index'
  <2>1. D!RoundIndex' = D!RoundIndex + 1 /\ D!RoundIndex \in Nat
    BY KickoffEffect, RoundIndexInWidth, NoAccountAssumption
       DEF D!RoundIndex, NoAccountAssumption
  <2>2. CASE UNCHANGED <<transaction_index, vault_transaction, status>>
    BY <2>1, <2>2 DEF Numbered
  <2>3. CASE StoreMessage(D!NextRound)
    <3>1. 1..(transaction_index + 1) = 1..transaction_index \cup {transaction_index + 1}
      BY <2>1 DEF Numbered
    <3> QED
      BY <2>1, <2>3, <3>1 DEF Numbered, D!NextTransaction, D!WithAccount, StoreMessage
  <2> QED
    BY <2>2, <2>3, KickoffEffect
<1> QED
  BY <1>1, <1>2, KickoffEffect, NoAccountAssumption DEF Numbered, NoAccountAssumption

\* The steps that touch neither messages nor rounds keep the numbering.
LEMMA OthersKeepNumbers ==
  ASSUME Numbered,
         UNCHANGED <<transaction_index, vault_transaction>>,
         DOMAIN status' = DOMAIN status,
         \/ UNCHANGED <<state, distribution>>
         \/ D!EndBuyIn
         \/ \E f \in Frequencies, d \in Deposits, e \in Deposits :
               D!InitDistribution(f, d, e)
  PROVE  Numbered'
<1>1. CASE UNCHANGED <<state, distribution>>
  BY <1>1 DEF Numbered, D!RoundIndex
<1>2. CASE D!EndBuyIn
  BY <1>2 DEF D!EndBuyIn, Numbered, D!RoundIndex
<1>3. ASSUME NEW f \in Frequencies, NEW d \in Deposits, NEW e \in Deposits,
             D!InitDistribution(f, d, e)
      PROVE  Numbered'
  <2>1. /\ distribution = NoAccount
        /\ distribution' = [start_timestamp |-> 0, frequency_in_seconds |-> f,
                            round_index |-> 0]
    BY <1>3 DEF D!InitDistribution, D!DefaultTimestamp
  <2>2. distribution' \in D!DistributionAccount /\ distribution'.round_index = 0
    BY <2>1, DistributionAssumption DEF D!DistributionAccount, DistributionAssumption
  <2>3. distribution' # NoAccount
    BY <2>2, NoAccountAssumption DEF NoAccountAssumption
  <2>4. transaction_index = 0 /\ D!RoundIndex' = 0
    BY <2>1, <2>2, <2>3 DEF Numbered, D!RoundIndex
  <2> QED
    BY <2>2, <2>3, <2>4 DEF Numbered
<1> QED
  BY <1>1, <1>2, <1>3

\* A payout through the stored message is the payout of the round it names.
LEMMA ExecutionImplements ==
  ASSUME Numbered, NEW t \in DOMAIN status, NEW x,
         ExecuteMultisigVaultTransaction(t, x)
  PROVE  /\ D!ExecuteMultisigVaultTransaction(t)
         /\ Numbered'
         /\ UNCHANGED <<round, vault_transaction, transaction_index, thread, watcher>>
<1>1. /\ ExecuteWired /\ status[t] = "Approved"
      /\ status' = [status EXCEPT ![t] = "Executed"]
      /\ distribution.round_index \in DOMAIN round
      /\ D!MultisigVaultTransfer(RoundNamed(vault_transaction[t]))
      /\ distribution' = D!WrittenBack(distribution, D!Transferred)
      /\ UNCHANGED <<state, transaction_index, vault_transaction, lamports, now,
                     thread, watcher>>
  BY DEF ExecuteMultisigVaultTransaction
<1>2. /\ state = "DistributionActive" /\ distribution # NoAccount
      /\ UNCHANGED <<distribution, round>>
  BY <1>1 DEF D!MultisigVaultTransfer, D!WrittenBack, Numbered
<1>3. t \in DOMAIN vault_transaction
  BY DEF Numbered
<1>4. Proposals' = [Proposals EXCEPT ![t].status = "Executed"]
  BY <1>1, <1>3 DEF Proposals, Numbered
<1>5. D!MayExecute(t) /\ Proposals[t].round = RoundNamed(vault_transaction[t])
  BY <1>1, <1>3 DEF D!MayExecute, Proposals
<1>6. D!ExecuteMultisigVaultTransaction(t)
  BY <1>1, <1>2, <1>4, <1>5 DEF D!ExecuteMultisigVaultTransaction
<1>7. Numbered'
  BY <1>1, <1>2, OthersKeepNumbers
<1> QED
  BY <1>1, <1>2, <1>6, <1>7

\* Each step is a step of Distribution or leaves its variables alone.
LEMMA StepImplements ==
  ASSUME Numbered, [Next]_vars
  PROVE  [D!Next]_(D!vars) /\ Numbered'
<1>1. ASSUME UNCHANGED <<state, distribution, round, transaction_index, vault,
                         distribution_tokens, lamports, now, vault_transaction,
                         status>>
      PROVE  UNCHANGED D!vars /\ Numbered'
  BY <1>1, OthersKeepNumbers DEF D!vars, Proposals
<1>2. CASE Begin
  <2>1. PICK f \in Frequencies, d \in Deposits, e \in Deposits :
             \E x : InitDistribution(x, f, d, e)
    BY <1>2 DEF Begin
  <2>2. D!InitDistribution(f, d, e) /\ UNCHANGED <<vault_transaction, status>>
    BY <2>1 DEF InitDistribution
  <2> QED
    BY <2>2, OthersKeepNumbers DEF D!Next, D!DistributionStep, D!InitDistribution
<1>3. CASE Thread
  <2>1. CASE Calculate
    BY <1>1, <2>1 DEF Calculate
  <2>2. CASE ThreadKickoff
    BY <2>2, KickoffImplements DEF ThreadKickoff, D!Next, D!DistributionStep
  <2> QED
    BY <1>3, <2>1, <2>2 DEF Thread
<1>4. CASE DirectKickoff
  BY <1>4, KickoffImplements DEF DirectKickoff, D!Next, D!DistributionStep
<1>5. CASE Execution
  <2>1. PICK t \in DOMAIN status : \E x : ExecuteMultisigVaultTransaction(t, x)
    BY <1>5 DEF Execution
  <2>2. t \in DOMAIN Proposals
    BY DEF Proposals, Numbered
  <2> QED
    BY <2>1, <2>2, ExecutionImplements DEF D!Next, D!DistributionStep
<1>6. CASE Decision
  <2>1. PICK t \in DOMAIN status, decision \in {"Approved", "Rejected", "Cancelled"} :
             DecideProposal(t, decision)
    BY <1>6 DEF Decision
  <2>2. t \in DOMAIN vault_transaction /\ t \in DOMAIN Proposals
    BY DEF Proposals, Numbered
  <2>3. /\ Proposals[t].status = status[t]
        /\ Proposals' = [Proposals EXCEPT ![t].status = decision]
    BY <2>1, <2>2 DEF DecideProposal, Proposals, Numbered
  <2>4. D!DecideProposal(t, decision)
    BY <2>1, <2>3 DEF DecideProposal, D!DecideProposal
  <2>5. Numbered'
    BY <2>1, OthersKeepNumbers DEF DecideProposal
  <2> QED
    BY <2>2, <2>4, <2>5 DEF D!Next, D!SquadsStep
<1>7. CASE Outside
  <2>1. Numbered'
    BY <1>7, OthersKeepNumbers DEF Outside, D!EndBuyIn, D!ReceiveRevenue, D!Tick
  <2> QED
    BY <1>7, <2>1 DEF Outside, D!Next, D!SquadsStep
<1>8. CASE UNCHANGED vars
  BY <1>1, <1>8 DEF vars
<1> QED
  BY <1>2, <1>3, <1>4, <1>5, <1>6, <1>7, <1>8 DEF Next

LEMMA AlwaysNumbered == Spec => []Numbered
<1>1. Init => Numbered
  BY DEF Init, D!Init, Numbered, D!RoundIndex
<1>2. Numbered /\ [Next]_vars => Numbered'
  BY StepImplements
<1> QED
  BY <1>1, <1>2, PTL DEF Spec

-----------------------------------------------------------------------------
(* Refinement *)

\* Through thread, keys and messages (calculate, kickoff, execute), repaired or
\* as committed, the accounts go through a behaviour of Distribution.
THEOREM Implements == Spec => ImplementsDistribution
<1>1. Init => D!Init
  BY DEF Init
<1>2. Numbered /\ [Next]_vars => [D!Next]_(D!vars)
  BY StepImplements
<1> QED
  BY <1>1, <1>2, AlwaysNumbered, PTL DEF Spec, ImplementsDistribution, D!Spec

\* The copy of Distribution that its proofs are about is the one refined here.
LEMMA SameDistribution ==
  /\ D!Init => Rounds!Init
  /\ [D!Next]_(D!vars) => [Rounds!Next]_(Rounds!vars)
<1>1. D!Init => Rounds!Init
  BY DEF D!Init, Rounds!Init
<1>2. /\ D!NextRound = Rounds!NextRound
      /\ D!NextTransaction = Rounds!NextTransaction
      /\ D!CanFundThread <=> Rounds!CanFundThread
      /\ \A i : /\ D!RoundEnd(i) = Rounds!RoundEnd(i)
                /\ D!CanKickoff(i) <=> Rounds!CanKickoff(i)
  BY DEF D!NextRound, Rounds!NextRound, D!NextTransaction, Rounds!NextTransaction,
     D!CanFundThread, Rounds!CanFundThread, D!RoundEnd, Rounds!RoundEnd,
     D!RoundStart, Rounds!RoundStart, D!Frequency, Rounds!Frequency,
     D!CanKickoff, Rounds!CanKickoff, D!IsI64, Rounds!IsI64
<1>3. D!KickoffMultisigVaultTransaction => Rounds!KickoffMultisigVaultTransaction
  BY <1>2 DEF D!KickoffMultisigVaultTransaction, Rounds!KickoffMultisigVaultTransaction,
     D!SkipRound, Rounds!SkipRound, D!OpenRound, Rounds!OpenRound,
     D!WithAccount, Rounds!WithAccount, D!ProposedRound, Rounds!ProposedRound,
     D!Opened, Rounds!Opened, D!ProposeToMembers, Rounds!ProposeToMembers,
     D!ProposeElsewhere, Rounds!ProposeElsewhere
<1>4. \A t : D!ExecuteMultisigVaultTransaction(t)
               => Rounds!ExecuteMultisigVaultTransaction(t)
  BY DEF D!ExecuteMultisigVaultTransaction, Rounds!ExecuteMultisigVaultTransaction,
     D!MultisigVaultTransfer, Rounds!MultisigVaultTransfer,
     D!IsCurrentRound, Rounds!IsCurrentRound, D!MayExecute, Rounds!MayExecute,
     D!Transferred, Rounds!Transferred, D!WrittenBack, Rounds!WrittenBack,
     D!Swept, Rounds!Swept
<1>5. \A f, d, e : D!InitDistribution(f, d, e) => Rounds!InitDistribution(f, d, e)
  BY DEF D!InitDistribution, Rounds!InitDistribution, D!PurchaseRoundEnded,
     Rounds!PurchaseRoundEnded, D!Fund, Rounds!Fund, D!DefaultTimestamp,
     Rounds!DefaultTimestamp
<1>6. /\ D!SquadsStep => Rounds!SquadsStep
      /\ D!EndBuyIn => Rounds!EndBuyIn
      /\ D!Tick => Rounds!Tick
      /\ UNCHANGED D!vars => UNCHANGED Rounds!vars
  BY DEF D!SquadsStep, Rounds!SquadsStep, D!DecideProposal, Rounds!DecideProposal,
     D!ReceiveRevenue, Rounds!ReceiveRevenue, D!EndBuyIn, Rounds!EndBuyIn,
     D!Tick, Rounds!Tick, D!vars, Rounds!vars
<1> QED
  BY <1>1, <1>3, <1>4, <1>5, <1>6 DEF D!Next, Rounds!Next, D!DistributionStep,
     Rounds!DistributionStep

LEMMA ImplementsRounds == Spec => Rounds!Spec
BY Implements, SameDistribution, PTL DEF ImplementsDistribution, D!Spec, Rounds!Spec

-----------------------------------------------------------------------------
(* What Distribution promises *)

LEMMA RoundsAssumptions ==
  /\ Rounds!WidthsAssumption /\ Rounds!InputsAssumption
  /\ Rounds!NoAccountAssumption
<1>1. Rounds!DistributionAccount = D!DistributionAccount
      /\ Rounds!RoundInner = D!RoundInner
  BY DEF Rounds!DistributionAccount, D!DistributionAccount, Rounds!RoundInner,
     D!RoundInner
<1> QED
  BY <1>1, DistributionAssumption, NoAccountAssumption
     DEF DistributionAssumption, NoAccountAssumption, Rounds!WidthsAssumption,
     Rounds!InputsAssumption, Rounds!NoAccountAssumption

\* Rounds and proposals name each other, windows are respected, lamports are
\* conserved, payouts are approved, current and complete, although rounds are
\* opened by threads that hold what they computed earlier, and payouts run from
\* messages that were stored when the round was opened.
THEOREM DistributionPromisesHold ==
  Spec => /\ [](/\ Rounds!TypeOK
                /\ Rounds!ProposalsMatchRounds
                /\ Rounds!RoundIndexCountsRounds
                /\ Rounds!ScheduleRespected
                /\ Rounds!ThreadFundsAccounted)
          /\ Rounds!NoStalePayout
          /\ Rounds!VaultSweptByPayout
<1> USE RoundsAssumptions DEF Rounds!WidthsAssumption, Rounds!InputsAssumption,
        Rounds!NoAccountAssumption
<1>1. Rounds!Spec => []Rounds!TypeOK
  BY Rounds!TypeCorrect
<1>2. Rounds!Spec => []Rounds!ProposalsMatchRounds
  BY Rounds!ProposalsAlwaysMatchRounds
<1>3. Rounds!Spec => []Rounds!RoundIndexCountsRounds
  BY Rounds!RoundIndexAlwaysCountsRounds
<1>4. Rounds!Spec => []Rounds!ScheduleRespected
  BY Rounds!ScheduleAlwaysRespected
<1>5. Rounds!Spec => []Rounds!ThreadFundsAccounted
  BY Rounds!ThreadFundsAlwaysAccounted
<1>6. Rounds!Spec => Rounds!NoStalePayout
  BY Rounds!NeverStalePayout
<1>7. Rounds!Spec => Rounds!VaultSweptByPayout
  BY Rounds!VaultAlwaysSwept
<1> QED
  BY <1>1, <1>2, <1>3, <1>4, <1>5, <1>6, <1>7, ImplementsRounds, PTL

-----------------------------------------------------------------------------
(* The thread, and the watchers of the rounds *)

\* The proposing thread exists once the distribution does, and each round that
\* was opened has a thread that watches the round's proposal, or one of the other
\* multisig.
Watches(account, proposal) ==
  IF proposal = Elsewhere
  THEN \E t \in Nat : account = ProposalAddress(OtherMultisig, t)
  ELSE account = ProposalAddress(Multisig, proposal)

ThreadInv ==
  /\ thread.mode \in {"none", "idle", "dynamic"}
  /\ thread.mode = "none" <=> distribution = NoAccount
  /\ DOMAIN watcher \subseteq DOMAIN round
  /\ \A i \in DOMAIN round : round[i] # None =>
       /\ i \in DOMAIN watcher
       /\ Watches(watcher[i], round[i].proposal)

LEMMA KickoffKeepsWatchers ==
  ASSUME Numbered, ThreadInv, NEW x, KickoffMultisigVaultTransaction(x),
         thread' \in {thread, Idle}
  PROVE  ThreadInv'
<1> DEFINE i == D!NextRound
<1>1. /\ distribution # NoAccount /\ distribution' # NoAccount
      /\ thread.mode \in {"idle", "dynamic"}
      /\ thread'.mode \in {"idle", "dynamic"}
  BY KickoffEffect, NoAccountAssumption DEF ThreadInv, Idle, NoAccountAssumption
<1>2. i \notin DOMAIN round
  BY KickoffEffect
<1>3. CASE round' = D!WithAccount(round, i, None) /\ watcher' = watcher
  BY <1>1, <1>2, <1>3 DEF ThreadInv, D!WithAccount
<1>4. ASSUME NEW created, round' = D!WithAccount(round, i, D!Opened(i, created)),
             NEW account, watcher' = D!WithAccount(watcher, i, account),
             Watches(account, created)
      PROVE  ThreadInv'
  <2>1. DOMAIN watcher' \subseteq DOMAIN round'
    BY <1>4 DEF ThreadInv, D!WithAccount
  <2>2. ASSUME NEW k \in DOMAIN round', round'[k] # None
        PROVE  /\ k \in DOMAIN watcher'
               /\ Watches(watcher'[k], round'[k].proposal)
    <3>1. CASE k = i
      BY <1>4, <3>1 DEF D!WithAccount, D!Opened
    <3>2. CASE k # i
      BY <1>4, <2>2, <3>2 DEF ThreadInv, D!WithAccount
    <3> QED
      BY <3>1, <3>2
  <2> QED
    BY <1>1, <2>1, <2>2 DEF ThreadInv, Watches, ProposalAddress, SquadsAddress,
       FindProgramAddress
<1>5. Watches(ProposalAddress(Multisig, D!NextTransaction), D!NextTransaction)
  BY RoundIndexInWidth, NoAccountAssumption
     DEF Watches, Numbered, D!NextTransaction, NoAccountAssumption
<1>6. ASSUME NEW t \in OtherTransactions
      PROVE  Watches(ProposalAddress(OtherMultisig, t), Elsewhere)
  BY OtherMultisigAssumption DEF Watches, OtherMultisigAssumption
<1> QED
  BY <1>3, <1>4, <1>5, <1>6, KickoffEffect DEF NextOf

LEMMA AlwaysThreadInv == Spec => []ThreadInv
<1>1. Init => ThreadInv
  BY DEF Init, D!Init, NoThread, ThreadInv
<1>2. ASSUME Numbered, ThreadInv, [Next]_vars PROVE ThreadInv'
  <2> USE <1>2
  <2>1. ASSUME UNCHANGED <<round, watcher>>, thread'.mode \in {"idle", "dynamic"},
               thread.mode # "none", distribution' = distribution
        PROVE  ThreadInv'
    BY <2>1 DEF ThreadInv, Watches, ProposalAddress, SquadsAddress,
       FindProgramAddress
  <2>2. ASSUME UNCHANGED <<round, watcher, thread>>,
               distribution' = NoAccount <=> distribution = NoAccount
        PROVE  ThreadInv'
    BY <2>2 DEF ThreadInv, Watches, ProposalAddress, SquadsAddress,
       FindProgramAddress
  <2>3. CASE Begin
    <3>1. PICK f \in Frequencies, d \in Deposits, e \in Deposits :
               \E x : InitDistribution(x, f, d, e)
      BY <2>3 DEF Begin
    <3>2. /\ UNCHANGED <<round, watcher>> /\ thread' = Idle
          /\ distribution' = [start_timestamp |-> 0, frequency_in_seconds |-> f,
                              round_index |-> 0]
      BY <3>1 DEF InitDistribution, D!InitDistribution, D!DefaultTimestamp
    <3>3. distribution' \in D!DistributionAccount
      BY <3>2, DistributionAssumption DEF D!DistributionAccount, DistributionAssumption
    <3>4. distribution' # NoAccount /\ thread'.mode = "idle"
      BY <3>2, <3>3, NoAccountAssumption DEF NoAccountAssumption, Idle
    <3> QED
      BY <3>2, <3>4 DEF ThreadInv, Watches, ProposalAddress, SquadsAddress,
       FindProgramAddress
  <2>4. CASE Thread
    <3>1. CASE Calculate
      BY <2>1, <3>1 DEF Calculate, Idle
    <3>2. CASE ThreadKickoff
      BY <3>2, KickoffKeepsWatchers DEF ThreadKickoff
    <3> QED
      BY <2>4, <3>1, <3>2 DEF Thread
  <2>5. CASE DirectKickoff
    BY <2>5, KickoffKeepsWatchers DEF DirectKickoff
  <2>6. CASE Execution
    <3>1. PICK t \in DOMAIN status : \E x : ExecuteMultisigVaultTransaction(t, x)
      BY <2>6 DEF Execution
    <3>2. /\ UNCHANGED <<round, thread, watcher>>
          /\ Numbered' /\ state = "DistributionActive" /\ state' = state
      BY <3>1, ExecutionImplements
         DEF ExecuteMultisigVaultTransaction, D!MultisigVaultTransfer
    <3> QED
      BY <2>2, <3>2 DEF Numbered
  <2>7. CASE Decision
    BY <2>2, <2>7 DEF Decision, DecideProposal
  <2>8. CASE Outside
    BY <2>2, <2>8 DEF Outside, D!EndBuyIn, D!ReceiveRevenue, D!Tick
  <2>9. CASE UNCHANGED vars
    BY <2>2, <2>9 DEF vars
  <2> QED
    BY <2>3, <2>4, <2>5, <2>6, <2>7, <2>8, <2>9 DEF Next
<1> QED
  BY <1>1, <1>2, AlwaysNumbered, PTL DEF Spec

\* TypeOK of the run of the threads, in particular that the proposing thread
\* exists exactly as long as there is a distribution (init_distribution).
THEOREM TypeCorrect == Spec => []TypeOK
<1>1. Numbered /\ ThreadInv /\ Rounds!TypeOK => TypeOK
  <2>1. Rounds!TypeOK => D!TypeOK
    BY DEF Rounds!TypeOK, D!TypeOK, Rounds!OfferingStates, D!OfferingStates,
       Rounds!DistributionAccount, D!DistributionAccount, Rounds!RoundInner,
       D!RoundInner, Rounds!Proposal, D!Proposal
  <2> QED
    BY <2>1 DEF Numbered, ThreadInv, TypeOK
<1> QED
  BY <1>1, AlwaysNumbered, AlwaysThreadInv, DistributionPromisesHold, PTL

\* The thread of a round watches the proposal its record names, and the message
\* behind that pays the round; or the record names none of the offering's, and no
\* proposal that pays a round wakes the thread
\* (cw_kickoff_multisig_vault_transaction.rs:54, :128).
THEOREM AlwaysRoundsWired == Spec => []RoundsWired
<1>1. Numbered /\ ThreadInv /\ Rounds!TypeOK /\ Rounds!ProposalsMatchRounds
        => RoundsWired
  <2> SUFFICES ASSUME Numbered, ThreadInv, Rounds!TypeOK, Rounds!ProposalsMatchRounds
               PROVE  RoundsWired
    OBVIOUS
  <2>1. /\ DOMAIN Proposals = DOMAIN vault_transaction
        /\ \A t \in DOMAIN vault_transaction :
             Proposals[t].round = RoundNamed(vault_transaction[t])
    BY DEF Proposals
  <2>2. ASSUME NEW i \in DOMAIN round, round[i] # None, round[i].proposal = Elsewhere,
               NEW t \in DOMAIN vault_transaction
        PROVE  watcher[i] # ProposalAddress(Multisig, t)
    BY <2>2, ProposalsDiffer, OtherMultisigAssumption
       DEF ThreadInv, Watches, OtherMultisigAssumption
  <2>3. ASSUME NEW i \in DOMAIN round, round[i] # None, round[i].proposal # Elsewhere
        PROVE  /\ watcher[i] = ProposalAddress(Multisig, round[i].proposal)
               /\ round[i].proposal \in DOMAIN vault_transaction
               /\ RoundNamed(vault_transaction[round[i].proposal]) = i
    BY <2>1, <2>3 DEF ThreadInv, Watches, Rounds!ProposalsMatchRounds
  <2> QED
    BY <2>1, <2>2, <2>3 DEF ThreadInv, Rounds!ProposalsMatchRounds, RoundsWired
<1> QED
  BY <1>1, AlwaysNumbered, AlwaysThreadInv, DistributionPromisesHold, PTL

-----------------------------------------------------------------------------
(* What is held, and run later *)

\* An account by name is one of the keys of the instruction.
LEMMA BoundIsPassed ==
  ASSUME NEW keys, Binds(KickoffAccounts.accounts, keys), NEW k \in 1..12,
         DOMAIN keys = 1..Len(keys), Len(keys) \in Nat
  PROVE  LET name == KickoffAccounts.accounts[k] IN
           Bound(KickoffAccounts.accounts, keys)[name] \in {keys[j] : j \in DOMAIN keys}
<1> DEFINE declared == KickoffAccounts.accounts
           name == declared[k]
           pos == CHOOSE j \in 1..Len(declared) : declared[j] = name
<1>1. Len(declared) = 12
  BY DEF KickoffAccounts
<1>2. pos \in 1..12
  BY <1>1
<1>3. name \in {declared[j] : j \in 1..Len(declared)}
  BY <1>1
<1>4. Bound(declared, keys)[name] = keys[pos]
  BY <1>3 DEF Bound
<1>5. pos \in DOMAIN keys
  BY <1>1, <1>2 DEF Binds
<1> QED
  BY <1>4, <1>5

\* What the thread holds is the kickoff that calculate returned for some round.
HeldInv ==
  thread.mode = "dynamic" =>
    \E i \in 1..U16Max, t \in 1..(transaction_index + 1) :
       thread.keys = KickoffMetas(i, t)

LEMMA MetasAreKeys ==
  ASSUME NEW i, NEW t
  PROVE  /\ DOMAIN KickoffMetas(i, t) = 1..Len(KickoffMetas(i, t))
         /\ Len(KickoffMetas(i, t)) \in {12, 13}
BY DEF KickoffMetas

LEMMA Widen ==
  ASSUME NEW m \in Nat, NEW n \in Nat, m <= n, NEW t \in 1..(m + 1)
  PROVE  t \in 1..(n + 1)
OBVIOUS

LEMMA AlwaysHeldInv == Spec => []HeldInv
<1>1. Init => HeldInv
  BY DEF Init, NoThread, HeldInv
<1>2. ASSUME Numbered, ThreadInv, HeldInv, [Next]_vars PROVE HeldInv'
  <2> USE <1>2
  <2>1. ASSUME thread'.mode # "dynamic" PROVE HeldInv'
    BY <2>1 DEF HeldInv
  <2>2. ASSUME thread' = thread, transaction_index' \in {transaction_index, transaction_index + 1}
        PROVE  HeldInv'
    <3>1. transaction_index \in Nat
      BY RoundIndexInWidth DEF Numbered
    <3>2. transaction_index' \in Nat /\ transaction_index <= transaction_index'
      BY <2>2, <3>1
    <3>3. SUFFICES ASSUME thread.mode = "dynamic" PROVE HeldInv'
      BY <2>1, <2>2
    <3>4. PICK i \in 1..U16Max, t \in 1..(transaction_index + 1) :
               thread.keys = KickoffMetas(i, t)
      BY <3>3 DEF HeldInv
    <3>5. t \in 1..(transaction_index' + 1)
      BY <3>1, <3>2, <3>4, Widen
    <3>6. thread'.keys = KickoffMetas(i, t)'
      BY <2>2, <3>4 DEF KickoffMetas, DistributionAddress, Round, RoundAddress,
         deriveDistributionAddress, FindProgramAddress, ProposalAddress,
         TransactionAddress, SquadsAddress, ExecutionThread, ThreadAddress
    <3> QED
      BY <3>5, <3>6 DEF HeldInv
  <2>3. CASE Begin
    BY <2>1, <2>3 DEF Begin, InitDistribution, Idle
  <2>4. CASE Calculate
    <3>1. /\ D!NextRound <= U16Max /\ state' = state
          /\ thread' = [mode |-> "dynamic",
                        keys |-> KickoffMetas(D!NextRound, D!NextTransaction)]
          /\ UNCHANGED <<distribution, transaction_index>>
      BY <2>4 DEF Calculate
    <3>2. D!NextRound \in 1..U16Max
      <4>1. distribution # NoAccount
        BY <2>4 DEF Calculate, ThreadInv
      <4> QED
        BY <3>1, <4>1, RoundIndexInWidth, DistributionAssumption
           DEF D!NextRound, D!RoundIndex, DistributionAssumption
    <3>3. D!NextTransaction \in 1..(transaction_index' + 1)
      BY <3>1, RoundIndexInWidth DEF Numbered, D!NextTransaction
    <3>4. thread'.keys = KickoffMetas(D!NextRound, D!NextTransaction)'
      BY <3>1 DEF KickoffMetas, DistributionAddress, Round, RoundAddress,
         deriveDistributionAddress, FindProgramAddress, ProposalAddress,
         TransactionAddress, SquadsAddress, ExecutionThread, ThreadAddress,
         D!NextRound, D!NextTransaction
    <3>5. /\ D!NextRound' \in 1..U16Max
          /\ D!NextTransaction' \in 1..(transaction_index' + 1)
      BY <3>1, <3>2, <3>3 DEF D!NextRound, D!NextTransaction
    <3> QED
      BY <3>4, <3>5 DEF HeldInv
  <2>5. CASE ThreadKickoff
    BY <2>1, <2>5 DEF ThreadKickoff, Idle
  <2>6. CASE DirectKickoff
    <3>1. PICK x : KickoffMultisigVaultTransaction(x)
      BY <2>6 DEF DirectKickoff
    <3>2. transaction_index' \in {transaction_index, transaction_index + 1}
      BY <3>1, KickoffEffect DEF StoreMessage, D!NextTransaction
    <3> QED
      BY <2>2, <2>6, <3>2 DEF DirectKickoff
  <2>7. CASE Execution
    BY <2>2, <2>7, ExecutionImplements DEF Execution
  <2>8. CASE Decision \/ Outside \/ UNCHANGED vars
    BY <2>2, <2>8 DEF Decision, DecideProposal, Outside, D!EndBuyIn,
       D!ReceiveRevenue, D!Tick, vars
  <2> QED
    BY <2>3, <2>4, <2>5, <2>6, <2>7, <2>8 DEF Next, Thread
<1> QED
  BY <1>1, <1>2, AlwaysNumbered, AlwaysThreadInv, PTL DEF Spec

\* An account by name is the key at the place the struct has the name.
LEMMA BoundInPlace ==
  ASSUME NEW keys, NEW k \in 1..12
  PROVE  Bound(KickoffAccounts.accounts, keys)[KickoffAccounts.accounts[k]] = keys[k]
<1> DEFINE declared == KickoffAccounts.accounts
<1>1. Len(declared) = 12
  BY DEF KickoffAccounts
<1>2. \A j \in 1..12 : declared[j] = declared[k] => j = k
  BY DEF KickoffAccounts
<1>3. (CHOOSE j \in 1..Len(declared) : declared[j] = declared[k]) = k
  BY <1>1, <1>2
<1> QED
  BY <1>1, <1>3 DEF Bound

\* A list put together from its first three and its last nine entries.
LEMMA Joined ==
  ASSUME NEW S, NEW s \in Seq(S), NEW t \in Seq(S), NEW u \in Seq(S),
         Len(s) = 3, Len(t) = 9, Len(u) = 12,
         \A k \in 1..12 : u[k] = IF k <= 3 THEN s[k] ELSE t[k - 3]
  PROVE  s \o t = u
<1>1. /\ s \o t \in Seq(S) /\ Len(s \o t) = Len(s) + Len(t)
      /\ \A k \in 1..Len(s) + Len(t) :
           (s \o t)[k] = IF k <= Len(s) THEN s[k] ELSE t[k - Len(s)]
  BY ConcatProperties
<1>2. Len(s \o t) = 12
  BY <1>1
<1>3. ASSUME NEW k \in 1..12 PROVE u[k] = (s \o t)[k]
  <2>1. k \in 1..Len(s) + Len(t)
    OBVIOUS
  <2>2. (s \o t)[k] = IF k <= Len(s) THEN s[k] ELSE t[k - Len(s)]
    BY <1>1, <2>1
  <2> QED
    BY <2>2
<1> QED
  BY <1>1, <1>2, <1>3, SeqEqual

\* With the superfluous account left out, the metas are kickoff's accounts.
LEMMA MetasRepaired ==
  ASSUME NEW i, NEW t, "metas" \in Repairs
  PROVE  KickoffMetas(i, t) =
           <<Offering, Payer, DistributionAddress, Round(i), Multisig,
             ProposalAddress(Multisig, t), TransactionAddress(Multisig, t),
             SQUADS_ID, ExecutionThread(i), CLOCKWORK_ID, SystemProgram,
             TokenProgram>>
<1> DEFINE first == <<Offering, Payer, DistributionAddress>>
           last == <<Round(i), Multisig, ProposalAddress(Multisig, t),
                     TransactionAddress(Multisig, t), SQUADS_ID, ExecutionThread(i),
                     CLOCKWORK_ID, SystemProgram, TokenProgram>>
           whole == <<Offering, Payer, DistributionAddress, Round(i), Multisig,
                      ProposalAddress(Multisig, t), TransactionAddress(Multisig, t),
                      SQUADS_ID, ExecutionThread(i), CLOCKWORK_ID, SystemProgram,
                      TokenProgram>>
           S == {whole[k] : k \in 1..12}
<1>1. KickoffMetas(i, t) = (first \o <<>>) \o last
  BY DEF KickoffMetas
<1>2. first \o <<>> = first
  OBVIOUS
<1>3. KickoffMetas(i, t) = first \o last
  BY <1>1, <1>2
<1>4. first \in Seq(S) /\ last \in Seq(S) /\ whole \in Seq(S)
  OBVIOUS
<1>5. Len(first) = 3 /\ Len(last) = 9 /\ Len(whole) = 12
  OBVIOUS
<1>6. \A k \in 1..12 : whole[k] = IF k <= 3 THEN first[k] ELSE last[k - 3]
  OBVIOUS
<1>7. first \o last = whole
  <2> HIDE DEF first, last, whole, S
  <2> QED
    BY <1>4, <1>5, <1>6, Joined
<1> QED
  BY <1>3, <1>7, Zenon

\* As committed, the proposal stands where kickoff looks for the transaction.
LEMMA MetasCommitted ==
  ASSUME NEW i, NEW t, "metas" \notin Repairs
  PROVE  KickoffMetas(i, t)[7] = ProposalAddress(Multisig, t)
<1> DEFINE first == <<Offering, Payer, DistributionAddress>> \o <<TokenAccount>>
           last == <<Round(i), Multisig, ProposalAddress(Multisig, t),
                     TransactionAddress(Multisig, t), SQUADS_ID, ExecutionThread(i),
                     CLOCKWORK_ID, SystemProgram, TokenProgram>>
<1>1. KickoffMetas(i, t) = first \o last
  BY DEF KickoffMetas
<1>2. (first \o last)[7] = last[3]
  OBVIOUS
<1> QED
  BY <1>1, <1>2

LEMMA ProposalIsNoTransaction ==
  ASSUME NEW m, NEW s, NEW n, NEW t
  PROVE  ProposalAddress(m, s) # TransactionAddress(n, t)
<1>1. Len(ProposalAddress(m, s)) = 6 /\ Len(TransactionAddress(n, t)) = 5
  BY DEF ProposalAddress, TransactionAddress, SquadsAddress, FindProgramAddress
<1> QED
  BY <1>1

\* The instruction the thread holds opens a round in the offering's multisig or
\* in none: it holds no other, and as committed no transaction at its place.
LEMMA HeldOpensInOwn ==
  ASSUME HeldInv, thread.mode = "dynamic", NEW m, NEW t,
         NextOf(KickoffKeys(Dynamic), m, t)
  PROVE  m = Multisig
<1> DEFINE a == KickoffKeys(Dynamic)
<1>1. PICK i \in 1..U16Max, s \in 1..(transaction_index + 1) :
           thread.keys = KickoffMetas(i, s)
  BY DEF HeldInv
<1>2. \A k \in 1..12 : a[KickoffAccounts.accounts[k]] = thread.keys[k]
  BY BoundInPlace DEF KickoffKeys, Dynamic
<1>3. /\ KickoffAccounts.accounts[5] = "multisig"
      /\ KickoffAccounts.accounts[7] = "vault_transaction"
  BY DEF KickoffAccounts
<1>4. a["multisig"] = thread.keys[5] /\ a["vault_transaction"] = thread.keys[7]
  BY <1>2, <1>3
<1>5. m = thread.keys[5] /\ TransactionAddress(m, t) = thread.keys[7]
  BY <1>4 DEF NextOf
<1>6. CASE "metas" \in Repairs
  <2>1. KickoffMetas(i, s)[5] = Multisig
    BY <1>6, MetasRepaired
  <2> QED
    BY <1>1, <1>5, <2>1
<1>7. CASE "metas" \notin Repairs
  BY <1>1, <1>5, <1>7, MetasCommitted, ProposalIsNoTransaction
<1> QED
  BY <1>6, <1>7

\* However stale what it holds is, the thread opens and skips no round but the
\* one calculate named, and creates no transaction but the one calculate named
\* (cw_calculate_multisig_vault_transaction.rs:38).
THEOREM AlwaysRunsWhatItCalculated == Spec => ThreadRunsWhatItCalculated
<1> DEFINE Named == {thread.keys[k] : k \in DOMAIN thread.keys}
           AsNamed ==
             /\ \A i \in DOMAIN round' \ DOMAIN round :
                  /\ Round(i) \in Named
                  /\ round'[i] # None => ProposalAddress(Multisig, round'[i].proposal) \in Named
             /\ \A t \in DOMAIN vault_transaction' \ DOMAIN vault_transaction :
                  TransactionAddress(Multisig, t) \in Named
           Runs == thread.mode = "dynamic" /\ thread'.mode = "idle" => AsNamed
<1>1. Numbered /\ ThreadInv /\ HeldInv /\ [Next]_vars => [Runs]_vars
  <2> SUFFICES ASSUME Numbered, ThreadInv, HeldInv, Next,
                      thread.mode = "dynamic", thread'.mode = "idle"
               PROVE  AsNamed
    OBVIOUS
  <2>1. ASSUME UNCHANGED <<round, vault_transaction>> PROVE AsNamed
    BY <2>1
  <2>2. CASE Begin
    BY <2>1, <2>2 DEF Begin, InitDistribution, D!InitDistribution
  <2>3. CASE Calculate
    BY <2>1, <2>3 DEF Calculate
  <2>4. CASE ThreadKickoff
    <3> DEFINE i == D!NextRound
               a == KickoffKeys(Dynamic)
    <3>1. KickoffMultisigVaultTransaction(Dynamic)
      BY <2>4 DEF ThreadKickoff
    <3>2. /\ a.distribution_round \in Named
          /\ a.proposal \in Named
          /\ a.vault_transaction \in Named
      <4>1. Dynamic.keys = thread.keys
        BY DEF Dynamic
      <4>2. DOMAIN thread.keys = 1..Len(thread.keys) /\ Len(thread.keys) \in Nat
        BY MetasAreKeys DEF HeldInv
      <4>3. Binds(KickoffAccounts.accounts, thread.keys)
        BY <3>1, <4>1 DEF KickoffMultisigVaultTransaction, KickoffAccepted, WellFormed
      <4>4. /\ KickoffAccounts.accounts[4] = "distribution_round"
            /\ KickoffAccounts.accounts[6] = "proposal"
            /\ KickoffAccounts.accounts[7] = "vault_transaction"
        BY DEF KickoffAccounts
      <4>5. a = Bound(KickoffAccounts.accounts, thread.keys)
        BY <4>1 DEF KickoffKeys
      <4>6. \A k \in 1..12 :
              Bound(KickoffAccounts.accounts, thread.keys)[KickoffAccounts.accounts[k]]
                \in Named
        BY <4>2, <4>3, BoundIsPassed
      <4> QED
        BY <4>4, <4>5, <4>6
    <3>3. a.distribution_round = Round(i)
      BY <3>1, KickoffEffect
    <3>4. CASE /\ round' = D!WithAccount(round, i, None)
               /\ UNCHANGED vault_transaction
      BY <3>2, <3>3, <3>4 DEF D!WithAccount
    <3>5. CASE /\ NextOf(a, Multisig, D!NextTransaction)
               /\ round' = D!WithAccount(round, i, D!Opened(i, D!NextTransaction))
               /\ StoreMessage(i)
      <4>1. ASSUME NEW k \in DOMAIN round' \ DOMAIN round
            PROVE  /\ Round(k) \in Named
                   /\ ProposalAddress(Multisig, round'[k].proposal) \in Named
        BY <3>2, <3>3, <3>5, <4>1 DEF D!WithAccount, D!Opened, NextOf
      <4>2. ASSUME NEW t \in DOMAIN vault_transaction' \ DOMAIN vault_transaction
            PROVE  TransactionAddress(Multisig, t) \in Named
        BY <3>2, <3>5, <4>2 DEF D!WithAccount, NextOf, StoreMessage
      <4> QED
        BY <4>1, <4>2
    <3>6. ~ \E t \in OtherTransactions : NextOf(a, OtherMultisig, t)
      BY HeldOpensInOwn, OtherMultisigAssumption DEF OtherMultisigAssumption
    <3> QED
      BY <3>1, <3>4, <3>5, <3>6, KickoffEffect
  <2>5. CASE DirectKickoff \/ Execution \/ Decision \/ Outside
    <3>1. thread' = thread
      BY <2>5 DEF DirectKickoff, Execution, ExecuteMultisigVaultTransaction, Decision,
         DecideProposal, Outside
    <3> QED
      BY <3>1
  <2> QED
    BY <2>2, <2>3, <2>4, <2>5 DEF Next, Thread
<1> QED
  BY <1>1, AlwaysNumbered, AlwaysThreadInv, AlwaysHeldInv, PTL
     DEF Spec, ThreadRunsWhatItCalculated

-----------------------------------------------------------------------------
(* What repairs the hand-overs *)

\* Leaving out the account too many is enough for whatever calculate returns to
\* be read by kickoff as it was meant, at any later time.
THEOREM RepairedMetasFit ==
  ASSUME "metas" \in Repairs
  PROVE  Spec => []CalculatedKickoffFits
<1>1. HeldInv => CalculatedKickoffFits
  <2> SUFFICES ASSUME HeldInv, thread.mode = "dynamic"
               PROVE  CalculatedKickoffFits
    BY DEF CalculatedKickoffFits
  <2>1. PICK i \in 1..U16Max, t \in 1..(transaction_index + 1) :
             thread.keys = KickoffMetas(i, t)
    BY DEF HeldInv
  <2> DEFINE keys == thread.keys
             a == KickoffKeys(Dynamic)
  <2>2. keys = <<Offering, Payer, DistributionAddress, Round(i), Multisig,
                 ProposalAddress(Multisig, t), TransactionAddress(Multisig, t),
                 SQUADS_ID, ExecutionThread(i), CLOCKWORK_ID, SystemProgram,
                 TokenProgram>>
    BY <2>1, MetasRepaired
  <2>3. Len(keys) = 12 /\ DOMAIN keys = 1..12
    BY <2>2
  <2>4. /\ Dynamic.keys = keys
        /\ Dynamic.writable = {keys[k] : k \in 1..12} \ Programs
    BY <2>3 DEF Dynamic
  <2>5. a = Bound(KickoffAccounts.accounts, keys)
    BY <2>4 DEF KickoffKeys
  <2>6. /\ a.distribution_round = Round(i)
        /\ a.multisig = Multisig
        /\ a.proposal = ProposalAddress(Multisig, t)
        /\ a.vault_transaction = TransactionAddress(Multisig, t)
        /\ a.squads_program = SQUADS_ID
        /\ a.clockwork_thread = ExecutionThread(i)
    <3>1. /\ KickoffAccounts.accounts[4] = "distribution_round"
          /\ KickoffAccounts.accounts[5] = "multisig"
          /\ KickoffAccounts.accounts[6] = "proposal"
          /\ KickoffAccounts.accounts[7] = "vault_transaction"
          /\ KickoffAccounts.accounts[8] = "squads_program"
          /\ KickoffAccounts.accounts[9] = "clockwork_thread"
      BY DEF KickoffAccounts
    <3>2. \A k \in 1..12 : a[KickoffAccounts.accounts[k]] = keys[k]
      BY <2>5, BoundInPlace
    <3>3. /\ a["distribution_round"] = keys[4] /\ a["multisig"] = keys[5]
          /\ a["proposal"] = keys[6] /\ a["vault_transaction"] = keys[7]
          /\ a["squads_program"] = keys[8] /\ a["clockwork_thread"] = keys[9]
      BY <3>1, <3>2
    <3> QED
      BY <2>2, <3>3
  <2>7. WellFormed(Dynamic, KickoffAccounts)
    <3>1. Len(KickoffAccounts.accounts) = 12
      BY DEF KickoffAccounts
    <3>2. ASSUME NEW k \in 1..12, KickoffAccounts.accounts[k] \in KickoffAccounts.mut
          PROVE  keys[k] \notin Programs
      <4>1. k \in {1, 2, 3, 4, 9}
        BY <3>2 DEF KickoffAccounts
      <4>2. keys[k] \in {Offering, Payer, DistributionAddress, Round(i),
                         ExecutionThread(i)}
        BY <2>2, <4>1
      <4> QED
        BY <4>2, ProgramsAssumption DEF ProgramsAssumption
    <3> QED
      <4>1. Binds(KickoffAccounts.accounts, Dynamic.keys)
        <5>1. Len(Dynamic.keys) = 12
          BY <2>3, <2>4, Zenon
        <5> QED
          BY <3>1, <5>1 DEF Binds
      <4>2. ASSUME NEW k \in 1..12,
                   KickoffAccounts.accounts[k] \in KickoffAccounts.mut
            PROVE  Dynamic.keys[k] \in Dynamic.writable
        BY <2>4, <3>2, <4>2
      <4> QED
        BY <2>3, <2>4, <4>1, <4>2 DEF WellFormed
  <2> QED
    BY <2>6, <2>7 DEF CalculatedKickoffFits
<1> QED
  BY <1>1, AlwaysHeldInv, PTL
============================================================================
