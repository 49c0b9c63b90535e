------------------------------ MODULE Automation ------------------------------
(***************************************************************************)
(* The distribution of module Distribution as it is reached: by            *)
(* instructions that carry account keys in a row, computed in one          *)
(* transaction and run in another.  A Clockwork thread runs                *)
(* calculate_multisig_vault_transaction, keeps the kickoff instruction     *)
(* that it returns, and runs that later; a kickoff stores a message at     *)
(* Squads that is executed once the members approve.  Others submit the    *)
(* same instructions in between, so that what was computed may be stale.   *)
(*                                                                         *)
(* As committed, several of these hand-overs do not fit what the receiving *)
(* side declares.  Repairs names the ones taken to be repaired.            *)
(***************************************************************************)
EXTENDS Integers, Sequences, Idl

CONSTANTS
  PROGRAM_ID, SQUADS_ID, CLOCKWORK_ID, ASSOCIATED_TOKEN_PROGRAM_ID,
  SystemProgram, TokenProgram,
  Offering, Multisig, Mint, TokenAccount, Payer, Authority, PaymentsAccount,
  DisburseThread, CreateKey,    \* accounts a caller of init_distribution brings
  OtherMultisig,                \* a multisig of somebody else's
  OtherTransactions,            \* indexes its next transaction may have
  Repairs,
  U16Max, U64Max, I64Max, Frequencies, Deposits, PayerLamports, ThreadLamports,
  Revenues, MaxRevenue, GenesisTime, MaxClock, CloseWired, ExecuteWired,
  Elsewhere, NoAccount, None

\* "schedule": the thread has a cron schedule (init_distribution passes "").
\* "metas": calculate lists the accounts of kickoff, and no others.
\* "seeds": the SDK derives round addresses from two bytes of the index.
\* "message": the message's keys are in the order in which Squads grants rights,
\*   its header counts them and its indexes count from 0.
\* "remaining": execute passes every account the message names, in its order.
\* "thread_id": the id of the proposing thread fits into the 32 bytes of a seed.
Repairable == {"schedule", "metas", "seeds", "message", "remaining", "thread_id"}
ASSUME RepairsAssumption == Repairs \subseteq Repairable
ASSUME OtherMultisigAssumption ==
  OtherMultisig # Multisig /\ OtherTransactions \subseteq Nat \ {0}

\* What Distribution asks of its constants.
ASSUME DistributionAssumption ==
  /\ U16Max \in Nat /\ I64Max \in Nat /\ U64Max = 2 * I64Max + 1
  /\ Frequencies \subseteq 0..U64Max /\ Deposits \subseteq Nat
  /\ PayerLamports \in Nat /\ ThreadLamports \in Nat
  /\ Revenues \subseteq Nat /\ MaxRevenue \in Nat
  /\ GenesisTime \in Nat \ {0} /\ MaxClock \in Nat
  /\ CloseWired \in BOOLEAN /\ ExecuteWired \in BOOLEAN

VARIABLES
  state, distribution, round, transaction_index, vault, distribution_tokens,
  lamports, now,         \* as in Distribution
  vault_transaction,     \* the messages stored at Squads, by transaction index
  status,                \* the status of their proposals
  thread,                \* the Clockwork thread that proposes payouts
  watcher                \* the threads of the rounds: the account each watches

vars == <<state, distribution, round, transaction_index, vault,
          distribution_tokens, lamports, now, vault_transaction, status,
          thread, watcher>>

INSTANCE Addresses WITH TOKEN_METADATA_PROGRAM_ID <- None

-----------------------------------------------------------------------------
(* Addresses *)

DistributionAddress == deriveDistributionAddress(Offering, PROGRAM_ID)
Round(i) == RoundAddress(DistributionAddress, i)

SquadsAddress(multisig, seeds) ==
  FindProgramAddress(<<"multisig", multisig>> \o seeds, SQUADS_ID)
TransactionAddress(multisig, t) == SquadsAddress(multisig, <<"transaction", t>>)
ProposalAddress(multisig, t) == SquadsAddress(multisig, <<"transaction", t, "proposal">>)
VaultAddress(multisig) == SquadsAddress(multisig, <<"vault", 1>>)
VaultTokenAccount(multisig) == AssociatedAddress(Mint, VaultAddress(multisig))

ThreadAddress(name) ==
  FindProgramAddress(<<"thread", DistributionAddress>> \o name, CLOCKWORK_ID)
ExecutionThread(i) == ThreadAddress(<<"proposal-execution", i>>)

\* As committed the id goes on with the offering's key in base58 and is longer
\* than a seed may be; the distribution in the address tells offerings apart.
ProposingThread == ThreadAddress(<<"propose-multisig-spending">>)

Programs == {SQUADS_ID, CLOCKWORK_ID, SystemProgram, TokenProgram}

\* A program is not one of the accounts that a kickoff writes.
ASSUME ProgramsAssumption ==
  /\ Programs \cap {Offering, Payer, DistributionAddress} = {}
  /\ \A i \in 1..U16Max : Programs \cap {Round(i), ExecutionThread(i)} = {}

-----------------------------------------------------------------------------
(* What is stored at Squads refines Distribution's proposals *)

\* A message names the round it pays out, in the same place always.
RoundPosition == IF "message" \in Repairs THEN 6 ELSE 4
RoundNamed(message) ==
  CHOOSE i \in 1..U16Max : Round(i) = message.keys[RoundPosition]

Proposals ==
  [t \in DOMAIN vault_transaction |->
     [round |-> RoundNamed(vault_transaction[t]), status |-> status[t]]]

D == INSTANCE Distribution WITH proposal <- Proposals

ASSUME NoAccountAssumption ==
  /\ NoAccount \notin D!DistributionAccount
  /\ None \notin D!RoundInner
  /\ Elsewhere \notin Nat

NoThread == [mode |-> "none", keys |-> <<>>]
Idle == [mode |-> "idle", keys |-> <<>>]

Init ==
  /\ vault_transaction = [t \in {} |-> None]
  /\ status = [t \in {} |-> None]
  /\ thread = NoThread
  /\ watcher = [i \in {} |-> None]
  /\ D!Init

-----------------------------------------------------------------------------
(* Instructions *)

\* The instructions built from the IDL with an account given for each name:
\* accounts have the rights the IDL declares, or all of them are writable, as in
\* the instructions the program builds.
Submitted(idl, given) ==
  {[keys |-> [k \in 1..Len(idl.accounts) |-> given[idl.accounts[k]]],
    writable |-> {given[name] : name \in writable}] :
      writable \in {idl.mut, DOMAIN given}}

\* The checks before any handler runs.
WellFormed(x, declared) ==
  /\ Binds(declared.accounts, x.keys)
  /\ \A k \in DOMAIN x.keys :
       declared.accounts[k] \in declared.mut => x.keys[k] \in x.writable

-----------------------------------------------------------------------------
(* init_distribution *)

InitDistributionAccounts ==
  [accounts |-> <<"offering", "payments_token_account", "payer", "authority",
                  "distribution", "distribution_token_account",
                  "distribution_mint", "multisig", "multisig_vault",
                  "multisig_vault_token_account", "proposal",
                  "vault_transaction", "ephemeral_create_key",
                  "system_program", "squads_program",
                  "clockwork_multisig_thread", "clockwork_disburse_thread",
                  "clockwork_thread_program", "token_program">>,
   mut |-> {"offering", "payer", "distribution", "distribution_token_account",
            "clockwork_multisig_thread", "clockwork_disburse_thread"}]

InitGiven ==
  [offering |-> Offering, paymentsTokenAccount |-> PaymentsAccount,
   payer |-> Payer, authority |-> Authority,
   distribution |-> DistributionAddress, distributionTokenAccount |-> TokenAccount,
   distributionMint |-> Mint, multisig |-> Multisig,
   multisigVault |-> VaultAddress(Multisig),
   multisigVaultTokenAccount |-> VaultTokenAccount(Multisig),
   proposal |-> ProposalAddress(Multisig, 1),
   vaultTransaction |-> TransactionAddress(Multisig, 1),
   ephemeralCreateKey |-> CreateKey, systemProgram |-> SystemProgram,
   squadsProgram |-> SQUADS_ID, clockworkMultisigThread |-> ProposingThread,
   clockworkDisburseThread |-> DisburseThread,
   clockworkThreadProgram |-> CLOCKWORK_ID, tokenProgram |-> TokenProgram]

\* Squads creates the multisig, which must be writable for that, and Clockwork
\* the thread, whose id must be fit to be a seed.
InitAccepted(x) ==
  LET a == Bound(InitDistributionAccounts.accounts, x.keys) IN
    /\ WellFormed(x, InitDistributionAccounts)
    /\ a.offering = Offering
    /\ a.payments_token_account = PaymentsAccount /\ a.authority = Authority
    /\ a.distribution = DistributionAddress
    /\ a.multisig = Multisig /\ a.multisig \in x.writable
    /\ a.squads_program = SQUADS_ID /\ a.system_program = SystemProgram
    /\ "thread_id" \in Repairs
    /\ a.clockwork_multisig_thread = ProposingThread
    /\ a.clockwork_thread_program = CLOCKWORK_ID
    /\ a.token_program = TokenProgram

InitDistribution(x, frequency, deposit, thread_deposit) ==
  /\ InitAccepted(x)
  /\ thread' = Idle
  /\ UNCHANGED <<vault_transaction, status, watcher>>
  /\ D!InitDistribution(frequency, deposit, thread_deposit)

-----------------------------------------------------------------------------
(* calculate_multisig_vault_transaction, run by the proposing thread *)

\* The accounts of the instruction returned, in the order of its metas; as
\* committed there is one more than kickoff declares, in the fourth place.
KickoffMetasCurrentRound(i, t) ==
  <<Offering, Payer, DistributionAddress, Round(i - 1), Multisig,
    ProposalAddress(Multisig, t), TransactionAddress(Multisig, t), SQUADS_ID,
    ExecutionThread(i - 1), CLOCKWORK_ID, SystemProgram, TokenProgram>>
KickoffMetasLastTransaction(i, t) ==
  <<Offering, Payer, DistributionAddress, Round(i), Multisig,
    ProposalAddress(Multisig, t - 1), TransactionAddress(Multisig, t - 1), SQUADS_ID,
    ExecutionThread(i), CLOCKWORK_ID, SystemProgram, TokenProgram>>
KickoffMetas(i, t) ==
  <<Offering, Payer, DistributionAddress>>
    \o (IF "metas" \in Repairs THEN <<>> ELSE <<TokenAccount>>)
    \o <<Round(i), Multisig, ProposalAddress(Multisig, t),
         TransactionAddress(Multisig, t), SQUADS_ID, ExecutionThread(i),
         CLOCKWORK_ID, SystemProgram, TokenProgram>>

Calculate ==
  /\ "schedule" \in Repairs
  /\ thread.mode = "idle"
  /\ D!NextRound <= U16Max
  /\ thread' = [mode |-> "dynamic",
                keys |-> KickoffMetas(D!NextRound, D!NextTransaction)]
  /\ UNCHANGED <<state, distribution, round, transaction_index, vault,
                 distribution_tokens, lamports, now, vault_transaction, status,
                 watcher>>

\* The instruction the thread holds.
Dynamic ==
  [keys |-> thread.keys,
   writable |-> {thread.keys[k] : k \in DOMAIN thread.keys} \ Programs]

-----------------------------------------------------------------------------
(* kickoff_multisig_vault_transaction *)

KickoffAccounts ==
  [accounts |-> <<"offering", "payer", "distribution", "distribution_round",
                  "multisig", "proposal", "vault_transaction", "squads_program",
                  "clockwork_thread", "clockwork_thread_program",
                  "system_program", "token_program">>,
   mut |-> {"offering", "payer", "distribution", "distribution_round",
            "clockwork_thread"}]

KickoffKeys(x) == Bound(KickoffAccounts.accounts, x.keys)

\* The round account is the one of the next index, which init creates.
RoundGivenInitIfNeeded(a) == \E i \in 1..D!NextRound : a.distribution_round = Round(i)
RoundGiven(a) == a.distribution_round = Round(D!NextRound)

KickoffAccepted(x) ==
  LET a == KickoffKeys(x) IN
    /\ WellFormed(x, KickoffAccounts)
    /\ D!CanKickoff(D!NextRound)
    /\ a.offering = Offering
    /\ a.distribution = DistributionAddress
    /\ RoundGiven(a)
    /\ a.squads_program = SQUADS_ID
    /\ a.clockwork_thread \notin {ExecutionThread(i) : i \in DOMAIN watcher}
    /\ a.clockwork_thread_program = CLOCKWORK_ID
    /\ a.system_program = SystemProgram /\ a.token_program = TokenProgram

\* The message of the vault transfer for a round: its keys, and by position among
\* them, counted from 0, the program it calls and the accounts it passes.  Its
\* header says how many keys sign, how many of those are writable, and how many of
\* the keys after them are.
Message(keys, signers, writable_signers, writable_non_signers, program, accounts) ==
  [keys |-> keys, num_signers |-> signers, num_writable_signers |-> writable_signers,
   num_writable_non_signers |-> writable_non_signers,
   program |-> program, accounts |-> accounts]

\* The vault is the one of the multisig that kickoff was given, the multisig
\* among the keys the one of the distribution.
MessageRepaired(i, multisig) ==
  Message(<<VaultAddress(multisig), Offering, DistributionAddress, TokenAccount,
            VaultTokenAccount(multisig), Round(i), Multisig, PROGRAM_ID,
            SystemProgram, TokenProgram>>,
          1, 1, 4, 7, <<1, 2, 5, 3, 6, 0, 4, 8, 9>>)
MessageCommitted(i, multisig) ==
  Message(<<PROGRAM_ID, Offering, DistributionAddress, Round(i), TokenAccount, Multisig,
            VaultAddress(multisig), VaultTokenAccount(multisig), SystemProgram,
            TokenProgram>>,
          0, 0, 0, 1, [k \in 1..9 |-> k + 1])

VaultMessageOfPreviousRound(i, multisig) ==
  MessageRepaired(IF i = 1 THEN 1 ELSE i - 1, multisig)
VaultMessage(i, multisig) ==
  IF "message" \in Repairs THEN MessageRepaired(i, multisig)
  ELSE MessageCommitted(i, multisig)

\* What the header grants the key at position k, counted from 1.
IsSigner(message, k) == k <= message.num_signers
IsWritable(message, k) ==
  IF IsSigner(message, k) THEN k <= message.num_writable_signers
  ELSE k <= message.num_signers + message.num_writable_non_signers

\* Squads refuses a message with a position that is not one of its keys.
MessageAccepted(message) ==
  /\ message.program < Len(message.keys)
  /\ \A k \in DOMAIN message.accounts : message.accounts[k] < Len(message.keys)

\* Squads creates the transaction and the proposal of the next index of the
\* multisig it is given, writing the accounts passed to it.
NextOf(a, multisig, t) ==
  /\ a.multisig = multisig
  /\ a.vault_transaction = TransactionAddress(multisig, t)
  /\ a.proposal = ProposalAddress(multisig, t)
SquadsCreates(a, x) ==
  /\ {a.multisig, a.vault_transaction, a.proposal} \subseteq x.writable
  /\ \/ NextOf(a, Multisig, D!NextTransaction)
     \/ /\ \E t \in OtherTransactions : NextOf(a, OtherMultisig, t)
        /\ a.proposal \notin {watcher[i] : i \in DOMAIN watcher}

CanSkip == now > D!RoundEnd(D!NextRound)
CanOpen(x) ==
  /\ now <= D!RoundEnd(D!NextRound)
  /\ SquadsCreates(KickoffKeys(x), x)
  /\ MessageAccepted(VaultMessage(D!NextRound, KickoffKeys(x).multisig))
  /\ KickoffKeys(x).clockwork_thread = ExecutionThread(D!NextRound)
  /\ D!CanFundThread

SkipRound(i) ==
  /\ CanSkip
  /\ round' = D!WithAccount(round, i, None)
  /\ UNCHANGED <<transaction_index, vault_transaction, status, lamports, watcher>>

\* The proposal's key goes into the round's record, whichever multisig it is of.
Recorded(key) ==
  IF \E t \in 1..(U16Max + 1) : ProposalAddress(Multisig, t) = key
  THEN CHOOSE t \in 1..(U16Max + 1) : ProposalAddress(Multisig, t) = key
  ELSE Elsewhere

StoreMessage(i) ==
  /\ transaction_index' = D!NextTransaction
  /\ vault_transaction' =
       D!WithAccount(vault_transaction, D!NextTransaction, VaultMessage(i, Multisig))
  /\ status' = D!WithAccount(status, D!NextTransaction, "Active")

\* What another multisig stores is none of the model's accounts.
OpenRound(x, i) ==
  LET a == KickoffKeys(x) IN
    /\ CanOpen(x)
    /\ round' = D!WithAccount(round, i, D!Opened(i, Recorded(a.proposal)))
    /\ IF a.multisig = Multisig THEN StoreMessage(i)
       ELSE UNCHANGED <<transaction_index, vault_transaction, status>>
    /\ watcher' = D!WithAccount(watcher, i, a.proposal)
    /\ lamports' = [lamports EXCEPT !.distribution = @ - ThreadLamports,
                                    !.threads = @ + ThreadLamports]

KickoffMultisigVaultTransaction(x) ==
  LET i == D!NextRound IN
    /\ KickoffAccepted(x)
    /\ SkipRound(i) \/ OpenRound(x, i)
    /\ distribution' = [distribution EXCEPT !.round_index = i]
    /\ UNCHANGED <<state, vault, distribution_tokens, now>>

\* The thread runs what it holds, and holds nothing then.  An instruction that
\* fails is kept and tried again.
ThreadKickoff ==
  /\ thread.mode = "dynamic"
  /\ KickoffMultisigVaultTransaction(Dynamic)
  /\ thread' = Idle

\* Anybody may submit a kickoff, with the addresses the SDK derives and the
\* multisig of their choice.
KickoffGiven(multisig, t) ==
  [offering |-> Offering, payer |-> Payer, distribution |-> DistributionAddress,
   distributionRound |->
     IF "seeds" \in Repairs THEN Round(D!NextRound)
     ELSE deriveDistributionRoundAddress(DistributionAddress, D!NextRound, PROGRAM_ID),
   multisig |-> multisig, proposal |-> ProposalAddress(multisig, t),
   vaultTransaction |-> TransactionAddress(multisig, t),
   squadsProgram |-> SQUADS_ID, clockworkThread |-> ExecutionThread(D!NextRound),
   clockworkThreadProgram |-> CLOCKWORK_ID, systemProgram |-> SystemProgram,
   tokenProgram |-> TokenProgram]

DirectKickoff ==
  /\ distribution # NoAccount
  /\ \E multisig \in {Multisig, OtherMultisig},
        t \in {D!NextTransaction} \cup OtherTransactions :
       \E x \in Submitted(kickoffMultisigVaultTransaction, KickoffGiven(multisig, t)) :
          KickoffMultisigVaultTransaction(x)
  /\ UNCHANGED thread

-----------------------------------------------------------------------------
(* multisig_transaction_execute, and multisig_vault_transfer inside it *)

ExecuteAccounts ==
  [accounts |-> <<"offering", "distribution", "distribution_round",
                  "distribution_token_account", "multisig", "multisig_vault",
                  "multisig_vault_token_account", "squads_v4_program",
                  "proposal", "vault_transaction", "system_program",
                  "token_program", "this_program">>,
   mut |-> {"offering", "distribution", "distribution_token_account",
            "multisig_vault", "multisig_vault_token_account"}]

TransferAccounts ==
  [accounts |-> <<"offering", "distribution", "distribution_round",
                  "distribution_token_account", "multisig", "multisig_vault",
                  "multisig_vault_token_account", "system_program",
                  "token_program">>,
   mut |-> {"offering", "distribution", "distribution_token_account",
            "multisig_vault", "multisig_vault_token_account"}]

\* The constraints that both accounts structs put on the accounts they share.
PayoutAccountsOK(a) ==
  /\ a.offering = Offering
  /\ a.distribution = DistributionAddress
  /\ a.distribution_round = Round(distribution.round_index)
  /\ a.distribution_token_account = TokenAccount
  /\ a.multisig = Multisig
  /\ a.multisig_vault = VaultAddress(Multisig)
  /\ a.multisig_vault_token_account = VaultTokenAccount(Multisig)
  /\ a.system_program = SystemProgram /\ a.token_program = TokenProgram

\* What Squads calls for a message, and whether it is a transfer the program
\* accepts.
MessageInstruction(message) ==
  [keys |-> [k \in DOMAIN message.accounts |-> message.keys[message.accounts[k] + 1]],
   writable |-> {message.keys[k] : k \in {n \in DOMAIN message.keys : IsWritable(message, n)}}]

MessageIsTransfer(message) ==
  /\ MessageAccepted(message)
  /\ message.keys[message.program + 1] = PROGRAM_ID
  /\ WellFormed(MessageInstruction(message), TransferAccounts)
  /\ \E k \in DOMAIN message.keys :
       /\ IsSigner(message, k)
       /\ message.keys[k] = Bound(TransferAccounts.accounts,
                                  MessageInstruction(message).keys).multisig_vault

TransferAccepted(message) ==
  /\ MessageIsTransfer(message)
  /\ PayoutAccountsOK(Bound(TransferAccounts.accounts, MessageInstruction(message).keys))

\* The accounts that execute passes on; Squads wants the message's keys first,
\* and those writable that the message's header says are.
RemainingAccounts(a) ==
  IF "remaining" \in Repairs
  THEN <<a.multisig_vault, a.offering, a.distribution, a.distribution_token_account,
         a.multisig_vault_token_account, a.distribution_round, a.multisig,
         a.this_program, a.system_program, a.token_program>>
  ELSE <<a.this_program, a.offering, a.distribution, a.distribution_round,
         a.multisig, a.multisig_vault, a.multisig_vault_token_account,
         a.system_program, a.token_program>>

SquadsExecutes(a, x, t) ==
  LET message == vault_transaction[t]  passed == RemainingAccounts(a) IN
    /\ a.vault_transaction = TransactionAddress(a.multisig, t)
    /\ a.proposal = ProposalAddress(a.multisig, t) /\ a.proposal \in x.writable
    /\ Len(passed) >= Len(message.keys)
    /\ SubSeq(passed, 1, Len(message.keys)) = message.keys
    /\ MessageInstruction(message).writable \subseteq x.writable
    /\ TransferAccepted(message)

ExecuteGiven(t) ==
  [offering |-> Offering, distribution |-> DistributionAddress,
   distributionRound |-> Round(distribution.round_index),
   distributionTokenAccount |-> TokenAccount, multisig |-> Multisig,
   multisigVault |-> VaultAddress(Multisig),
   multisigVaultTokenAccount |-> VaultTokenAccount(Multisig),
   squadsV4Program |-> SQUADS_ID, proposal |-> ProposalAddress(Multisig, t),
   vaultTransaction |-> TransactionAddress(Multisig, t), systemProgram |-> SystemProgram,
   tokenProgram |-> TokenProgram, thisProgram |-> PROGRAM_ID]

ExecuteMultisigVaultTransaction(t, x) ==
  LET a == Bound(ExecuteAccounts.accounts, x.keys) IN
    /\ ExecuteWired
    /\ status[t] = "Approved"
    /\ status' = [status EXCEPT ![t] = "Executed"]
    /\ WellFormed(x, ExecuteAccounts)
    /\ PayoutAccountsOK(a)
    /\ a.squads_v4_program = SQUADS_ID /\ a.this_program = PROGRAM_ID
    /\ distribution.round_index \in DOMAIN round
    /\ SquadsExecutes(a, x, t)
    /\ D!MultisigVaultTransfer(RoundNamed(vault_transaction[t]))
    /\ distribution' = D!WrittenBack(distribution, D!Transferred)
    /\ UNCHANGED <<state, transaction_index, vault_transaction, lamports, now,
                   thread, watcher>>

-----------------------------------------------------------------------------
(* The environment *)

DecideProposal(t, decision) ==
  /\ \/ status[t] = "Active" /\ decision \in {"Approved", "Rejected"}
     \/ status[t] = "Approved" /\ decision = "Cancelled"
  /\ status' = [status EXCEPT ![t] = decision]
  /\ UNCHANGED <<state, distribution, round, transaction_index, vault,
                 distribution_tokens, lamports, now, vault_transaction, thread,
                 watcher>>

Outside ==
  /\ UNCHANGED <<vault_transaction, status, thread, watcher>>
  /\ \/ D!EndBuyIn
     \/ \E amount \in Revenues : D!ReceiveRevenue(amount)
     \/ D!Tick

-----------------------------------------------------------------------------

Begin ==
  \E x \in Submitted(initDistribution, InitGiven), frequency \in Frequencies,
     deposit \in Deposits, thread_deposit \in Deposits :
     InitDistribution(x, frequency, deposit, thread_deposit)

Thread == Calculate \/ ThreadKickoff

Execution ==
  \E t \in DOMAIN status :
    \E x \in Submitted(executeMultisigVaultTransaction, ExecuteGiven(t)) :
       ExecuteMultisigVaultTransaction(t, x)

Decision ==
  \E t \in DOMAIN status, decision \in {"Approved", "Rejected", "Cancelled"} :
     DecideProposal(t, decision)

Next ==
  Begin \/ Thread \/ DirectKickoff \/ Execution \/ Decision \/ Outside

Spec == Init /\ [][Next]_vars

\* Clockwork's workers go on with a thread that has something to do.  Nobody else
\* has to submit anything.
FairSpec == Spec /\ WF_vars(Thread)

-----------------------------------------------------------------------------
(* Properties *)

\* The accounts of Distribution have their types; threads and proposals exist
\* for the rounds and transactions they belong to, and the proposing thread
\* exists once the distribution does.
TypeOK ==
  /\ D!TypeOK
  /\ thread.mode \in {"none", "idle", "dynamic"}
  /\ thread.mode = "none" <=> distribution = NoAccount
  /\ DOMAIN status = DOMAIN vault_transaction
  /\ DOMAIN watcher \subseteq DOMAIN round

\* The instruction calculate returns is one that kickoff reads as it was meant:
\* each account of its struct is bound to the account of that name, whatever
\* round and transaction they are of.
CalculatedKickoffFits ==
  thread.mode = "dynamic" =>
    LET a == KickoffKeys(Dynamic) IN
      /\ WellFormed(Dynamic, KickoffAccounts)
      /\ \E i \in 1..U16Max : /\ a.distribution_round = Round(i)
                              /\ a.clockwork_thread = ExecutionThread(i)
      /\ \E t \in 1..(transaction_index + 1) :
           /\ a.proposal = ProposalAddress(Multisig, t)
           /\ a.vault_transaction = TransactionAddress(Multisig, t)
      /\ a.multisig = Multisig /\ a.squads_program = SQUADS_ID

\* The thread spun up for a round watches the proposal that the round's record
\* names.  If that is one of the offering's multisig, the message behind it pays
\* that round; if not, no decision that could pay a round wakes the thread.
\* Three accounts, named by three programs, that kickoff was handed by whoever
\* computed them.
RoundsWired ==
  /\ \A i \in DOMAIN round : round[i] # None =>
       /\ i \in DOMAIN watcher
       /\ IF round[i].proposal = Elsewhere
          THEN \A t \in DOMAIN vault_transaction :
                 watcher[i] # ProposalAddress(Multisig, t)
          ELSE /\ watcher[i] = ProposalAddress(Multisig, round[i].proposal)
               /\ round[i].proposal \in DOMAIN vault_transaction
               /\ RoundNamed(vault_transaction[round[i].proposal]) = i
  /\ \A t \in DOMAIN vault_transaction :
       round[RoundNamed(vault_transaction[t])].proposal = t

\* What the thread runs is what calculate computed, however much has happened
\* since: it opens no other round than the one it named, under the transaction
\* and the proposal it named, or nothing.
ThreadRunsWhatItCalculated ==
  [][ thread.mode = "dynamic" /\ thread'.mode = "idle" =>
        LET named == {thread.keys[k] : k \in DOMAIN thread.keys} IN
          /\ \A i \in DOMAIN round' \ DOMAIN round :
               /\ Round(i) \in named
               /\ round'[i] # None => ProposalAddress(Multisig, round'[i].proposal) \in named
          /\ \A t \in DOMAIN vault_transaction' \ DOMAIN vault_transaction :
               TransactionAddress(Multisig, t) \in named ]_vars

Due(i) ==
  /\ distribution # NoAccount
  /\ D!NextRound = i
  /\ D!CanKickoff(i)
  /\ CanSkip \/ D!CanFundThread

\* The thread holds a kickoff of a round that somebody else has kicked off.
Overtaken ==
  /\ thread.mode = "dynamic"
  /\ Round(D!NextRound) \notin {thread.keys[k] : k \in DOMAIN thread.keys}

\* What calculate hands on is enough to get a round that can be opened or skipped
\* opened or skipped: the thread alone sees to it, whatever the clock, payouts
\* and votes do between its two instructions.  Only a kickoff by others in
\* between can stop it.
DueRoundsHappen == \A i \in 1..U16Max : Due(i) ~> ~ Due(i) \/ Overtaken

\* Through keys, threads and messages, the accounts go through a behaviour of
\* Distribution.
ImplementsDistribution == D!Spec
=============================================================================
