--------------------------- MODULE PendulumProofs ---------------------------
(* Proofs about the composition of the sale and the distribution, for every  *)
(* value of its constants: the two halves agree on the state they share,     *)
(* states follow their order, what was sold stays sold, and each half keeps  *)
(* in the whole program the promises it makes alone.                         *)
EXTENDS Pendulum, TLAPS

\* Offering once more, with what is proved of its operations.
Books == INSTANCE OfferingProofs

\* The constants are as Offering asks.
LEMMA BooksConstants ==
  /\ Books!WidthsAssumption /\ Books!InputsAssumption
  /\ Books!WalletsAssumption /\ Books!NoAccountAssumption
<1>1. NoAccount \notin Books!OfferingAccount
  BY NoAccountAssumption
     DEF NoAccountAssumption, Sale!OfferingAccount, Books!OfferingAccount
<1>2. IsFiniteSet(Wallets) => Books!IsFiniteSet(Wallets)
  BY DEF IsFiniteSet, Books!IsFiniteSet
<1>3. U64Max \in Nat
  BY ConstantsAssumption DEF ConstantsAssumption
<1> QED
  BY <1>1, <1>2, <1>3, ConstantsAssumption
     DEF ConstantsAssumption, Books!WidthsAssumption, Books!InputsAssumption,
     Books!WalletsAssumption, Books!NoAccountAssumption

LEMMA SaleTypes ==
  /\ Sale!TypeOK <=> Books!TypeOK
  /\ Sale!TypeOK' <=> Books!TypeOK'
BY DEF Sale!TypeOK, Books!TypeOK, Sale!OfferingStates, Books!OfferingStates,
   Sale!OfferingAccount, Books!OfferingAccount, Sale!BuyIn, Books!BuyIn,
   Sale!Nft, Books!Nft

\* An update of the texts keeps every other field of the offering.
LEMMA UpdateFields ==
  ASSUME Sale!TypeOK, NEW signer \in Wallets,
         NEW title \in Titles, NEW symbol \in Symbols, NEW uri \in Uris,
         Sale!UpdateOffering(signer, title, symbol, uri)
  PROVE  /\ offering' \in Sale!OfferingAccount
         /\ offering'.bought_shares = offering.bought_shares
         /\ state \in {"BuyInActive", "BuyInEnded"}
         /\ UNCHANGED <<state, buy_in, nft, tokens, payments, now>>
<1> USE ConstantsAssumption DEF ConstantsAssumption
<1>1. /\ state \in {"BuyInActive", "BuyInEnded"}
      /\ offering' = [offering EXCEPT !.title = title, !.symbol = symbol,
                                      !.nft_uri = uri]
      /\ UNCHANGED <<state, buy_in, nft, tokens, payments, now>>
  BY DEF Sale!UpdateOffering, Sale!TextsEditable
<1>2. offering \in Sale!OfferingAccount
  BY <1>1 DEF Sale!TypeOK
<1>3. /\ offering' \in Sale!OfferingAccount
      /\ offering'.bought_shares = offering.bought_shares
  BY <1>1, <1>2 DEF Sale!OfferingAccount
<1> QED
  BY <1>1, <1>3

\* A purchase keeps the types of everything it writes.
LEMMA PurchaseKeepsTypes ==
  ASSUME Sale!TypeOK,
         NEW buyer \in Wallets, NEW beneficiary \in Wallets, NEW mint \in Mints,
         NEW shares \in 0..U16Max, NEW index \in 1..U16Max,
         Sale!PurchaseShares(buyer, shares, beneficiary, mint, index)
  PROVE  Sale!TypeOK' /\ state = "BuyInActive" /\ UNCHANGED <<state, now>>
<1>1. Books!TypeOK
  BY SaleTypes
<1>2. /\ Sale!MintNft(mint, beneficiary, index) => Books!MintNft(mint, beneficiary, index)
      /\ Sale!BuyInRecord(index, shares, beneficiary, mint)
           = Books!BuyInRecord(index, shares, beneficiary, mint)
  <2>1. Sale!SuffixLen(index) = Books!SuffixLen(index)
    BY DEF Sale!SuffixLen, Books!SuffixLen, Sale!Cardinality, Books!Cardinality
  <2> QED
    BY <2>1 DEF Sale!MintNft, Books!MintNft, Sale!MetadataAccepted,
       Books!MetadataAccepted, Sale!WithAccount, Books!WithAccount,
       Sale!BuyInRecord, Books!BuyInRecord, Sale!DefaultTimestamp, Books!DefaultTimestamp
<1>3. Books!PurchaseShares(buyer, shares, beneficiary, mint, index)
  BY <1>2 DEF Books!PurchaseShares, Sale!PurchaseShares, Books!Open, Sale!Open,
     Books!IsNewBuyIn, Sale!IsNewBuyIn, Books!AvailableShares, Sale!AvailableShares,
     Books!Payment, Sale!Payment, Books!Debit, Sale!Debit,
     Sale!WithAccount, Books!WithAccount
<1>4. Books!TypeOK'
  BY <1>1, <1>3, BooksConstants, Books!PurchaseStepTypes DEF Books!WidthsAssumption,
     Books!InputsAssumption, Books!WalletsAssumption, Books!NoAccountAssumption
<1>5. Books!TypeOK' => Sale!TypeOK'
  BY SaleTypes
<1> QED
  BY <1>4, <1>5 DEF Sale!PurchaseShares, Sale!Open

-----------------------------------------------------------------------------
(* Type correctness *)

\* The halves agree: the offering's accounts keep their types under the
\* instructions of both, and the distribution exists exactly in the state
\* that init_distribution gives the offering.
THEOREM TypeCorrect == Spec => []TypeOK
<1> USE ConstantsAssumption, NoAccountAssumption
        DEF ConstantsAssumption, NoAccountAssumption
<1>1. Init => TypeOK
  BY DEF Init, Sale!Init, TypeOK, Sale!TypeOK, Sale!OfferingStates
<1>2. ASSUME TypeOK, [Next]_vars PROVE TypeOK'
  <2> USE <1>2
  <2>1. CASE SaleStep
    <3>1. distribution' = distribution
      BY <2>1 DEF SaleStep, distVars
    <3>2. ASSUME NEW authority \in Wallets, NEW n \in 0..U16Max, NEW price \in Prices,
                 NEW title \in Titles, NEW symbol \in Symbols, NEW uri \in Uris,
                 Sale!InitNewOffering(authority, n, price, title, symbol, uri)
          PROVE  TypeOK'
      <4>1. offering' \in Sale!OfferingAccount
        BY <3>2 DEF Sale!InitNewOffering, Sale!OfferingAccount
      <4> QED
        BY <3>1, <3>2, <4>1 DEF Sale!InitNewOffering, TypeOK, Sale!TypeOK,
           Sale!OfferingStates
    <3>3. ASSUME NEW signer \in Wallets,
                 NEW title \in Titles, NEW symbol \in Symbols, NEW uri \in Uris,
                 Sale!UpdateOffering(signer, title, symbol, uri)
          PROVE  TypeOK'
      <4>1. /\ offering' \in Sale!OfferingAccount
            /\ state \in {"BuyInActive", "BuyInEnded"}
            /\ UNCHANGED <<state, buy_in, nft, tokens, payments, now>>
        BY <3>3, UpdateFields DEF TypeOK
      <4> QED
        BY <3>1, <4>1 DEF TypeOK, Sale!TypeOK
    <3>4. ASSUME NEW buyer \in Wallets, NEW beneficiary \in Wallets,
                 NEW mint \in Mints, NEW shares \in 0..U16Max, NEW index \in 1..U16Max,
                 Sale!PurchaseShares(buyer, shares, beneficiary, mint, index)
          PROVE  TypeOK'
      BY <3>1, <3>4, PurchaseKeepsTypes DEF TypeOK
    <3> QED
      BY <2>1, <3>2, <3>3, <3>4 DEF SaleStep, Sale!SaleStep
  <2>2. CASE InitDistribution
    <3>1. PICK frequency \in Frequencies, deposit \in Deposits,
               thread_deposit \in Deposits :
               Dist!InitDistribution(frequency, deposit, thread_deposit)
      BY <2>2 DEF InitDistribution
    <3>2. /\ distribution' \in Dist!DistributionAccount
          /\ state' = "DistributionActive" /\ state # "Uninitialized"
          /\ now' = now
      BY <3>1 DEF Dist!InitDistribution, Dist!DistributionAccount,
         Dist!DefaultTimestamp, Dist!PurchaseRoundEnded
    <3> QED
      BY <2>2, <3>2 DEF InitDistribution, saleVars, TypeOK, Sale!TypeOK,
         Sale!OfferingStates
  <2>3. CASE RoundStep
    <3>1. /\ distribution \in Dist!DistributionAccount
          /\ \E i \in 0..U16Max :
               distribution' = [distribution EXCEPT !.round_index = i]
          /\ UNCHANGED <<state, now>>
      <4>1. CASE Dist!KickoffMultisigVaultTransaction
        <5>1. /\ distribution \in Dist!DistributionAccount
              /\ distribution.round_index + 1 <= U16Max
              /\ distribution' = [distribution EXCEPT !.round_index =
                                                  distribution.round_index + 1]
              /\ UNCHANGED <<state, now>>
          BY <4>1 DEF Dist!KickoffMultisigVaultTransaction, Dist!CanKickoff,
             Dist!NextRound, TypeOK
        <5> QED
          BY <5>1 DEF Dist!DistributionAccount
      <4>2. CASE \E t \in DOMAIN proposal : Dist!ExecuteMultisigVaultTransaction(t)
        <5>1. /\ distribution \in Dist!DistributionAccount
              /\ UNCHANGED <<distribution, state, now>>
          BY <4>2 DEF Dist!ExecuteMultisigVaultTransaction, Dist!WrittenBack, TypeOK
        <5> QED
          BY <5>1 DEF Dist!DistributionAccount
      <4> QED
        BY <2>3, <4>1, <4>2 DEF RoundStep
    <3>2. distribution' \in Dist!DistributionAccount
      BY <3>1 DEF Dist!DistributionAccount
    <3> QED
      BY <2>3, <3>1, <3>2 DEF RoundStep, saleVars, TypeOK, Sale!TypeOK
  <2>4. CASE Environment
    <3>1. /\ distribution' = distribution /\ UNCHANGED saleVars
          /\ \/ state' = state
             \/ state = "BuyInActive" /\ state' = "BuyInEnded"
          /\ now' \in {now, now + 1}
      BY <2>4 DEF Environment, Dist!SquadsStep, Dist!DecideProposal,
         Dist!ReceiveRevenue, Dist!EndBuyIn, Dist!Tick
    <3> QED
      BY <3>1 DEF saleVars, TypeOK, Sale!TypeOK, Sale!OfferingStates
  <2>5. CASE UNCHANGED vars
    BY <2>5 DEF vars, saleVars, distVars, TypeOK, Sale!TypeOK
  <2> QED
    BY <2>1, <2>2, <2>3, <2>4, <2>5 DEF Next
<1> QED
  BY <1>1, <1>2, PTL DEF Spec

-----------------------------------------------------------------------------
(* The life cycle *)

\* No instruction of either half, and nobody outside, takes an offering back or
\* past a state: a distribution starts from a closed sale only.
THEOREM AlwaysStatesInOrder == Spec => StatesInOrder
<1>1. [Next]_vars => [ state' # state =>
        <<state, state'>> \in {<<"Uninitialized", "BuyInActive">>,
                               <<"BuyInActive", "BuyInEnded">>,
                               <<"BuyInEnded", "DistributionActive">>} ]_vars
  <2> SUFFICES ASSUME [Next]_vars, state' # state
               PROVE  \/ state = "Uninitialized" /\ state' = "BuyInActive"
                      \/ state = "BuyInActive" /\ state' = "BuyInEnded"
                      \/ state = "BuyInEnded" /\ state' = "DistributionActive"
    OBVIOUS
  <2>1. CASE SaleStep
    BY <2>1 DEF SaleStep, Sale!SaleStep, Sale!InitNewOffering, Sale!UpdateOffering,
       Sale!PurchaseShares
  <2>2. CASE InitDistribution
    BY <2>2 DEF InitDistribution, Dist!InitDistribution, Dist!PurchaseRoundEnded
  <2>3. CASE RoundStep
    BY <2>3 DEF RoundStep, Dist!KickoffMultisigVaultTransaction,
       Dist!ExecuteMultisigVaultTransaction
  <2>4. CASE Environment
    BY <2>4 DEF Environment, Dist!SquadsStep, Dist!DecideProposal,
       Dist!ReceiveRevenue, Dist!EndBuyIn, Dist!Tick
  <2> QED
    BY <2>1, <2>2, <2>3, <2>4 DEF Next, vars
<1> QED
  BY <1>1, PTL DEF Spec, StatesInOrder

\* From the end of the sale on nothing is sold, paid or minted, and from the
\* start of the distribution on the offering does not change at all: what a
\* stale purchase or edit could still try is refused.
THEOREM EntitlementsAlwaysFixed == Spec => EntitlementsFixed
<1> DEFINE Fixed ==
      /\ state \in {"BuyInEnded", "DistributionActive"} =>
           /\ offering'.bought_shares = offering.bought_shares
           /\ UNCHANGED <<buy_in, nft, tokens, payments>>
      /\ state = "DistributionActive" => UNCHANGED <<offering, state>>
<1>1. TypeOK /\ [Next]_vars => [Fixed]_vars
  <2> SUFFICES ASSUME TypeOK, [Next]_vars PROVE Fixed \/ UNCHANGED vars
    OBVIOUS
  <2>1. CASE SaleStep
    <3>1. ASSUME NEW authority \in Wallets, NEW n \in 0..U16Max, NEW price \in Prices,
                 NEW title \in Titles, NEW symbol \in Symbols, NEW uri \in Uris,
                 Sale!InitNewOffering(authority, n, price, title, symbol, uri)
          PROVE  Fixed
      BY <3>1 DEF Sale!InitNewOffering
    <3>2. ASSUME NEW signer \in Wallets,
                 NEW title \in Titles, NEW symbol \in Symbols, NEW uri \in Uris,
                 Sale!UpdateOffering(signer, title, symbol, uri)
          PROVE  Fixed
      <4>1. /\ offering'.bought_shares = offering.bought_shares
            /\ state \in {"BuyInActive", "BuyInEnded"}
            /\ UNCHANGED <<state, buy_in, nft, tokens, payments, now>>
        BY <3>2, UpdateFields DEF TypeOK
      <4> QED
        BY <4>1
    <3>3. ASSUME NEW buyer \in Wallets, NEW beneficiary \in Wallets,
                 NEW mint \in Mints, NEW shares \in 0..U16Max, NEW index \in 1..U16Max,
                 Sale!PurchaseShares(buyer, shares, beneficiary, mint, index)
          PROVE  Fixed
      BY <3>3 DEF Sale!PurchaseShares, Sale!Open
    <3> QED
      BY <2>1, <3>1, <3>2, <3>3 DEF SaleStep, Sale!SaleStep
  <2>2. CASE InitDistribution
    BY <2>2 DEF InitDistribution, Dist!InitDistribution, Dist!PurchaseRoundEnded,
       saleVars
  <2>3. CASE RoundStep
    BY <2>3 DEF RoundStep, Dist!KickoffMultisigVaultTransaction,
       Dist!ExecuteMultisigVaultTransaction, saleVars
  <2>4. CASE Environment
    BY <2>4 DEF Environment, Dist!SquadsStep, Dist!DecideProposal,
       Dist!ReceiveRevenue, Dist!EndBuyIn, Dist!Tick, saleVars
  <2> QED
    BY <2>1, <2>2, <2>3, <2>4 DEF Next
<1> QED
  BY <1>1, TypeCorrect, PTL DEF Spec, EntitlementsFixed

\* As committed, where no instruction sets BuyInEnded, an offering stays open for
\* purchases: no distribution is ever set up for it and no earnings are paid out.
THEOREM CommittedNeverDistributes ==
  ~CloseWired => (Spec => [](/\ state \in {"Uninitialized", "BuyInActive"}
                             /\ distribution = NoAccount
                             /\ distribution_tokens = 0))
<1> DEFINE Early == /\ state \in {"Uninitialized", "BuyInActive"}
                    /\ distribution = NoAccount
                    /\ distribution_tokens = 0
<1>1. Init => Early
  BY DEF Init, Sale!Init
<1>2. ASSUME ~CloseWired, Early, [Next]_vars PROVE Early'
  <2>1. CASE SaleStep
    BY <1>2, <2>1 DEF SaleStep, distVars, Sale!SaleStep, Sale!InitNewOffering,
       Sale!UpdateOffering, Sale!PurchaseShares
  <2>2. CASE InitDistribution
    BY <1>2, <2>2 DEF InitDistribution, Dist!InitDistribution, Dist!PurchaseRoundEnded
  <2>3. CASE RoundStep
    BY <1>2, <2>3 DEF RoundStep, Dist!KickoffMultisigVaultTransaction, Dist!CanKickoff,
       Dist!ExecuteMultisigVaultTransaction
  <2>4. CASE Environment
    BY <1>2, <2>4 DEF Environment, Dist!SquadsStep, Dist!DecideProposal,
       Dist!ReceiveRevenue, Dist!EndBuyIn, Dist!Tick
  <2>5. CASE UNCHANGED vars
    BY <1>2, <2>5 DEF vars, distVars
  <2> QED
    BY <1>2, <2>1, <2>2, <2>3, <2>4, <2>5 DEF Next
<1>3. CASE CloseWired
  BY <1>3
<1>4. CASE ~CloseWired
  <2>1. Early /\ [Next]_vars => Early'
    BY <1>2, <1>4
  <2>2. Spec => []Early
    BY <1>1, <2>1, PTL DEF Spec
  <2> QED
    BY <2>2
<1> QED
  BY <1>3, <1>4

-----------------------------------------------------------------------------
(* Each half behaves as it does alone *)

\* The state of the offering as the sale alone would have it, where nothing
\* closes an offering, and as the distribution alone would, whose offering is
\* there from the start.
SaleState == IF state = "Uninitialized" THEN state ELSE "BuyInActive"
RoundState == IF state = "Uninitialized" THEN "BuyInActive" ELSE state

\* The sale and the distribution alone, with what is proved of them.
Ledger == INSTANCE OfferingTokenProofs WITH state <- SaleState
Rounds == INSTANCE DistributionProofs WITH state <- RoundState, GenesisTime <- 1

\* An instruction of the sale is one of the sale alone.
LEMMA SaleStepAlone == Sale!SaleStep => Ledger!SaleStep
<1>1. ASSUME NEW authority, NEW n, NEW price, NEW title, NEW symbol, NEW uri,
             Sale!InitNewOffering(authority, n, price, title, symbol, uri)
      PROVE  Ledger!InitNewOffering(authority, n, price, title, symbol, uri)
  BY <1>1 DEF Sale!InitNewOffering, Ledger!InitNewOffering, SaleState,
     Sale!Valid, Ledger!Valid, Sale!MAX_TITLE_LEN, Ledger!MAX_TITLE_LEN,
     Sale!MAX_SYMBOL_LEN, Ledger!MAX_SYMBOL_LEN, Sale!MAX_URI_LEN,
     Ledger!MAX_URI_LEN
<1>2. ASSUME NEW signer, NEW title, NEW symbol, NEW uri,
             Sale!UpdateOffering(signer, title, symbol, uri)
      PROVE  Ledger!UpdateOffering(signer, title, symbol, uri)
  BY <1>2 DEF Sale!UpdateOffering, Ledger!UpdateOffering, SaleState,
     Sale!TextsEditable, Ledger!TextsEditable,
     Sale!Valid, Ledger!Valid, Sale!MAX_TITLE_LEN, Ledger!MAX_TITLE_LEN,
     Sale!MAX_SYMBOL_LEN, Ledger!MAX_SYMBOL_LEN, Sale!MAX_URI_LEN,
     Ledger!MAX_URI_LEN
<1>3. ASSUME NEW buyer, NEW beneficiary, NEW mint, NEW shares, NEW index,
             Sale!PurchaseShares(buyer, shares, beneficiary, mint, index)
      PROVE  Ledger!PurchaseShares(buyer, shares, beneficiary, mint, index)
  <2>1. Sale!SuffixLen(index) = Ledger!SuffixLen(index)
    BY DEF Sale!SuffixLen, Ledger!SuffixLen, Sale!Cardinality, Ledger!Cardinality
  <2>2. Sale!MintNft(mint, beneficiary, index) => Ledger!MintNft(mint, beneficiary, index)
    BY <2>1 DEF Sale!MintNft, Ledger!MintNft, Sale!MetadataAccepted,
       Ledger!MetadataAccepted, Sale!WithAccount, Ledger!WithAccount
  <2>3. Sale!BuyInRecord(index, shares, beneficiary, mint)
          = Ledger!BuyInRecord(index, shares, beneficiary, mint)
    BY DEF Sale!BuyInRecord, Ledger!BuyInRecord, Sale!DefaultTimestamp,
       Ledger!DefaultTimestamp
  <2> QED
    BY <1>3, <2>2, <2>3 DEF Sale!PurchaseShares, Ledger!PurchaseShares, SaleState,
       Sale!Open, Ledger!Open, Sale!IsNewBuyIn, Ledger!IsNewBuyIn,
       Sale!AvailableShares, Ledger!AvailableShares, Sale!Payment, Ledger!Payment,
       Sale!Debit, Ledger!Debit, Sale!WithAccount, Ledger!WithAccount
<1> QED
  BY <1>1, <1>2, <1>3 DEF Sale!SaleStep, Ledger!SaleStep

\* The accounts of the sale cannot tell the whole program from the sale alone:
\* closing the sale, starting the distribution and its rounds change none of them.
LEMMA SaleUndisturbed == Spec => Ledger!Spec
<1>1. Init => Ledger!Init
  BY DEF Init, Sale!Init, Ledger!Init, SaleState
<1>2. [Next]_vars => [Ledger!Next]_(Ledger!vars)
  <2> SUFFICES ASSUME [Next]_vars PROVE Ledger!Next \/ UNCHANGED Ledger!vars
    OBVIOUS
  <2> USE DEF Ledger!vars, saleVars
  <2>1. CASE SaleStep
    BY <2>1, SaleStepAlone DEF SaleStep, Ledger!Next
  <2>2. CASE InitDistribution
    BY <2>2 DEF InitDistribution, Dist!InitDistribution, Dist!PurchaseRoundEnded,
       SaleState
  <2>3. CASE RoundStep
    BY <2>3 DEF RoundStep, Dist!KickoffMultisigVaultTransaction,
       Dist!ExecuteMultisigVaultTransaction, SaleState
  <2>4. CASE Environment
    BY <2>4 DEF Environment, Dist!SquadsStep, Dist!DecideProposal,
       Dist!ReceiveRevenue, Dist!EndBuyIn, Dist!Tick, Ledger!Next,
       Ledger!Tick, SaleState
  <2>5. CASE UNCHANGED vars
    BY <2>5 DEF vars, SaleState
  <2> QED
    BY <2>1, <2>2, <2>3, <2>4, <2>5 DEF Next
<1> QED
  BY <1>1, <1>2, PTL DEF Spec, Ledger!Spec

\* The accounts of the distribution cannot tell the whole program from the
\* distribution alone: the sale changes none of them, and an offering that does
\* not exist yet is, to the distribution, one that is not closed.
LEMMA RoundsUndisturbed == Spec => Rounds!Spec
<1>1. Init => Rounds!Init
  BY DEF Init, Sale!Init, Rounds!Init, RoundState
<1>2. Dist!KickoffMultisigVaultTransaction => Rounds!KickoffMultisigVaultTransaction
  <2>1. /\ Dist!NextRound = Rounds!NextRound
        /\ Dist!NextTransaction = Rounds!NextTransaction
        /\ Dist!CanFundThread <=> Rounds!CanFundThread
        /\ \A i : /\ Dist!RoundEnd(i) = Rounds!RoundEnd(i)
                  /\ Dist!CanKickoff(i) => Rounds!CanKickoff(i)
    BY DEF Dist!NextRound, Rounds!NextRound, Dist!NextTransaction,
       Rounds!NextTransaction, Dist!CanFundThread, Rounds!CanFundThread,
       Dist!RoundEnd, Rounds!RoundEnd, Dist!RoundStart, Rounds!RoundStart,
       Dist!Frequency, Rounds!Frequency, Dist!CanKickoff, Rounds!CanKickoff,
       Dist!IsI64, Rounds!IsI64, RoundState
  <2>2. \A i, created : Dist!Opened(i, created) = Rounds!Opened(i, created)
    BY <2>1 DEF Dist!Opened, Rounds!Opened
  <2>3. \A i : Dist!OpenRound(i) => Rounds!OpenRound(i)
    BY <2>1, <2>2 DEF Dist!OpenRound, Rounds!OpenRound, Dist!ProposeToMembers,
       Rounds!ProposeToMembers, Dist!ProposeElsewhere, Rounds!ProposeElsewhere,
       Dist!WithAccount, Rounds!WithAccount, Dist!ProposedRound, Rounds!ProposedRound
  <2> QED
    BY <2>1, <2>3 DEF Dist!KickoffMultisigVaultTransaction,
       Rounds!KickoffMultisigVaultTransaction, Dist!SkipRound, Rounds!SkipRound,
       Dist!WithAccount, Rounds!WithAccount, RoundState
<1>3. ASSUME NEW t, Dist!ExecuteMultisigVaultTransaction(t)
      PROVE  Rounds!ExecuteMultisigVaultTransaction(t)
  BY <1>3 DEF Dist!ExecuteMultisigVaultTransaction,
     Rounds!ExecuteMultisigVaultTransaction, Dist!MultisigVaultTransfer,
     Rounds!MultisigVaultTransfer, Dist!IsCurrentRound, Rounds!IsCurrentRound,
     Dist!MayExecute, Rounds!MayExecute, Dist!Transferred, Rounds!Transferred,
     Dist!WrittenBack, Rounds!WrittenBack, Dist!Swept, Rounds!Swept, RoundState
<1>4. ASSUME NEW frequency, NEW deposit, NEW thread_deposit,
             Dist!InitDistribution(frequency, deposit, thread_deposit)
      PROVE  Rounds!InitDistribution(frequency, deposit, thread_deposit)
  BY <1>4 DEF Dist!InitDistribution, Rounds!InitDistribution,
     Dist!PurchaseRoundEnded, Rounds!PurchaseRoundEnded, Dist!Fund, Rounds!Fund,
     Dist!DefaultTimestamp, Rounds!DefaultTimestamp, RoundState
<1>5. /\ Dist!SquadsStep => Rounds!SquadsStep
      /\ Dist!EndBuyIn => Rounds!EndBuyIn
      /\ Dist!Tick => Rounds!Tick
  BY DEF Dist!SquadsStep, Rounds!SquadsStep, Dist!DecideProposal,
     Rounds!DecideProposal, Dist!ReceiveRevenue, Rounds!ReceiveRevenue,
     Dist!EndBuyIn, Rounds!EndBuyIn, Dist!Tick, Rounds!Tick, RoundState
<1>6. SaleStep => UNCHANGED Rounds!vars
  <2>1. SaleStep => UNCHANGED <<distVars, now>>
    BY DEF SaleStep, Sale!SaleStep, Sale!InitNewOffering, Sale!UpdateOffering,
       Sale!PurchaseShares
  <2>2. SaleStep => RoundState' = RoundState
    BY DEF SaleStep, Sale!SaleStep, Sale!InitNewOffering, Sale!UpdateOffering,
       Sale!PurchaseShares, RoundState
  <2> QED
    BY <2>1, <2>2 DEF distVars, Rounds!vars
<1>7. [Next]_vars => [Rounds!Next]_(Rounds!vars)
  <2> SUFFICES ASSUME [Next]_vars PROVE Rounds!Next \/ UNCHANGED Rounds!vars
    OBVIOUS
  <2>1. CASE SaleStep
    BY <2>1, <1>6
  <2>2. CASE InitDistribution
    BY <2>2, <1>4 DEF InitDistribution, Rounds!Next, Rounds!DistributionStep
  <2>3. CASE RoundStep
    BY <2>3, <1>2, <1>3 DEF RoundStep, Rounds!Next, Rounds!DistributionStep
  <2>4. CASE Environment
    BY <2>4, <1>5 DEF Environment, Rounds!Next
  <2>5. CASE UNCHANGED vars
    BY <2>5 DEF vars, distVars, Rounds!vars, RoundState
  <2> QED
    BY <2>1, <2>2, <2>3, <2>4, <2>5 DEF Next
<1> QED
  BY <1>1, <1>7, PTL DEF Spec, Rounds!Spec

-----------------------------------------------------------------------------
(* What the halves promise holds of the whole *)

LEMMA HalvesConstants ==
  /\ Ledger!WidthsAssumption /\ Ledger!InputsAssumption
  /\ Ledger!WalletsAssumption /\ Ledger!NoAccountAssumption
  /\ Rounds!WidthsAssumption /\ Rounds!InputsAssumption
  /\ Rounds!NoAccountAssumption
<1>1. NoAccount \notin Ledger!OfferingAccount
  BY NoAccountAssumption DEF NoAccountAssumption, Sale!OfferingAccount,
     Ledger!OfferingAccount
<1>2. /\ NoAccount \notin Rounds!DistributionAccount
      /\ None \notin Rounds!RoundInner
      /\ Elsewhere \notin Nat
  BY NoAccountAssumption DEF NoAccountAssumption, Dist!DistributionAccount,
     Rounds!DistributionAccount, Dist!RoundInner, Rounds!RoundInner
<1>3. IsFiniteSet(Wallets) => Ledger!IsFiniteSet(Wallets)
  BY DEF IsFiniteSet, Ledger!IsFiniteSet
<1>4. U64Max \in Nat
  BY ConstantsAssumption DEF ConstantsAssumption
<1> QED
  BY <1>1, <1>2, <1>3, <1>4, ConstantsAssumption DEF ConstantsAssumption,
     Ledger!WidthsAssumption, Ledger!InputsAssumption, Ledger!WalletsAssumption,
     Ledger!NoAccountAssumption, Rounds!WidthsAssumption, Rounds!InputsAssumption,
     Rounds!NoAccountAssumption

\* The books of the sale still balance when its offering goes through a
\* distribution: shares, payments, tokens and NFTs agree in every state of it.
THEOREM SalePromisesHold ==
  Spec => [](/\ Sale!SharesAccounted
             /\ Sale!PaymentsMatchShares
             /\ Sale!TokensConserved
             /\ Sale!BuyInsOwnTheirNfts)
<1> USE HalvesConstants DEF Ledger!WidthsAssumption, Ledger!InputsAssumption,
        Ledger!WalletsAssumption, Ledger!NoAccountAssumption
<1>1. Ledger!Spec => []Ledger!SharesAccounted
  BY Ledger!SharesAlwaysAccounted
<1>2. Ledger!Spec => []Ledger!PaymentsMatchShares
  BY Ledger!PaymentsAlwaysMatchShares
<1>3. Ledger!Spec => []Ledger!TokensConserved
  BY Ledger!TokensAlwaysConserved
<1>4. Ledger!Spec => []Ledger!BuyInsOwnTheirNfts
  BY Ledger!BuyInsAlwaysOwnTheirNfts
<1>5. /\ Ledger!SharesAccounted => Sale!SharesAccounted
      /\ Ledger!PaymentsMatchShares => Sale!PaymentsMatchShares
      /\ Ledger!BuyInsOwnTheirNfts => Sale!BuyInsOwnTheirNfts
  BY DEF Ledger!SharesAccounted, Sale!SharesAccounted, Ledger!IsSumOfShares,
     Sale!IsSumOfShares, Ledger!PaymentsMatchShares, Sale!PaymentsMatchShares,
     Ledger!BuyInsOwnTheirNfts, Sale!BuyInsOwnTheirNfts, SaleState
<1>6. Ledger!TokensConserved <=> Sale!TokensConserved
  BY DEF Ledger!TokensConserved, Sale!TokensConserved, Ledger!MapThenSumSet,
     Sale!MapThenSumSet, Ledger!MapThenFoldSet, Sale!MapThenFoldSet
<1> QED
  BY <1>1, <1>2, <1>3, <1>4, <1>5, <1>6, SaleUndisturbed, PTL

\* Rounds, payouts and lamports keep to what the distribution promises alone,
\* although purchases and edits of the offering go on around it.
THEOREM DistributionPromisesHold ==
  Spec => /\ [](/\ Rounds!TypeOK
                /\ Rounds!ProposalsMatchRounds
                /\ Rounds!RoundIndexCountsRounds
                /\ Rounds!ScheduleRespected
                /\ Rounds!ThreadFundsAccounted)
          /\ Rounds!NoStalePayout
          /\ Rounds!VaultSweptByPayout
<1> USE HalvesConstants DEF Rounds!WidthsAssumption, Rounds!InputsAssumption,
        Rounds!NoAccountAssumption
<1>1. Rounds!Spec => []Rounds!TypeOK
  BY Rounds!TypeCorrect
<1>2. Rounds!Spec => []Rounds!ProposalsMatchRounds
  BY Rounds!ProposalsAlwaysMatchRounds
<1>3. Rounds!Spec => []Rounds!RoundIndexCountsRounds
  BY Rounds!RoundIndexAlwaysCountsRounds
<1>4. Rounds!Spec => []Rounds!ScheduleRespected
  BY Rounds!ScheduleAlwaysRespected
<1>5. Rounds!Spec => []Rounds!ThreadFundsAccounted
  BY Rounds!ThreadFundsAlwaysAccounted
<1>6. Rounds!Spec => Rounds!NoStalePayout
  BY Rounds!NeverStalePayout
<1>7. Rounds!Spec => Rounds!VaultSweptByPayout
  BY Rounds!VaultAlwaysSwept
<1> QED
  BY <1>1, <1>2, <1>3, <1>4, <1>5, <1>6, <1>7, RoundsUndisturbed, PTL
=============================================================================
