---------------------------- MODULE OfferingProofs ----------------------------
(* Proofs of the properties of Offering, for every value of its constants. *)
EXTENDS Offering, FiniteSetTheorems, TLAPS

-----------------------------------------------------------------------------
(* The operators the model is built from *)

\* The product computed for a payment does not leave the naturals, and it is
\* what the total of a sale grows by.
LEMMA Products ==
  ASSUME NEW m \in Nat, NEW n \in Nat, NEW p \in Nat
  PROVE  /\ n * p \in Nat
         /\ (m + n) * p = m * p + n * p
OBVIOUS

\* What a purchase that is accepted says of the accounts it changes.
LEMMA PurchaseTypes ==
  ASSUME TypeOK,
         NEW buyer \in Wallets, NEW beneficiary \in Wallets, NEW mint \in Mints,
         NEW shares \in 0..U16Max, NEW index \in 1..U16Max,
         PurchaseShares(buyer, shares, beneficiary, mint, index)
  PROVE  /\ offering \in OfferingAccount
         /\ offering' \in OfferingAccount
         /\ index = offering.buy_ins + 1
         /\ index \notin DOMAIN buy_in
         /\ offering'.buy_ins = index
         /\ offering'.bought_shares = offering.bought_shares + shares
         /\ offering'.bought_shares <= offering.initial_shares
         /\ offering'.initial_shares = offering.initial_shares
         /\ offering'.price_per_share = offering.price_per_share
         /\ Payment(shares) \in Nat
<1> USE WidthsAssumption DEF WidthsAssumption
<1>1. offering \in OfferingAccount
  BY DEF TypeOK, PurchaseShares, Open
<1>2. /\ index = offering.buy_ins + 1
      /\ index \notin DOMAIN buy_in
      /\ shares <= offering.initial_shares - offering.bought_shares
  BY DEF PurchaseShares, IsNewBuyIn, AvailableShares
<1>3. offering' = [offering EXCEPT !.bought_shares = @ + shares, !.buy_ins = @ + 1]
  BY DEF PurchaseShares
<1>4. offering.bought_shares + shares \in 0..U16Max
  BY <1>1, <1>2 DEF OfferingAccount
<1>5. offering' \in OfferingAccount
  <2>1. offering.buy_ins + 1 \in 0..U16Max
    BY <1>1, <1>2 DEF OfferingAccount
  <2> QED
    BY <1>1, <1>3, <1>4, <2>1 DEF OfferingAccount
<1>6. Payment(shares) \in Nat
  BY <1>1, Products DEF Payment, OfferingAccount
<1>7. /\ offering'.buy_ins = index
      /\ offering'.bought_shares = offering.bought_shares + shares
      /\ offering'.initial_shares = offering.initial_shares
      /\ offering'.price_per_share = offering.price_per_share
  BY <1>1, <1>2, <1>3 DEF OfferingAccount
<1>8. offering'.bought_shares <= offering.initial_shares
  BY <1>1, <1>2, <1>7 DEF OfferingAccount
<1> QED
  BY <1>1, <1>2, <1>5, <1>6, <1>7, <1>8

\* A purchase adds one buy-in and one NFT and leaves the others alone.
LEMMA PurchaseRecords ==
  ASSUME TypeOK,
         NEW buyer \in Wallets, NEW beneficiary \in Wallets, NEW mint \in Mints,
         NEW shares \in 0..U16Max, NEW index \in 1..U16Max,
         PurchaseShares(buyer, shares, beneficiary, mint, index)
  PROVE  /\ DOMAIN buy_in' = DOMAIN buy_in \cup {index}
         /\ buy_in' \in [DOMAIN buy_in' -> BuyIn]
         /\ buy_in'[index] = BuyInRecord(index, shares, beneficiary, mint)
         /\ \A i \in DOMAIN buy_in : buy_in'[i] = buy_in[i]
         /\ mint \notin DOMAIN nft
         /\ DOMAIN nft' = DOMAIN nft \cup {mint}
         /\ nft' \in [DOMAIN nft' -> Nft]
         /\ nft'[mint] = [minted_to |-> beneficiary, update_authority |-> index]
         /\ \A m \in DOMAIN nft : nft'[m] = nft[m]
<1> USE WidthsAssumption DEF WidthsAssumption
<1>1. /\ BuyInRecord(index, shares, beneficiary, mint) \in BuyIn
      /\ [minted_to |-> beneficiary, update_authority |-> index] \in Nft
  BY DEF BuyInRecord, BuyIn, DefaultTimestamp, Nft
<1>2. /\ buy_in \in [DOMAIN buy_in -> BuyIn]
      /\ nft \in [DOMAIN nft -> Nft]
  BY DEF TypeOK
<1>3. /\ index \notin DOMAIN buy_in
      /\ buy_in' = WithAccount(buy_in, index,
                     BuyInRecord(index, shares, beneficiary, mint))
  BY DEF PurchaseShares, IsNewBuyIn
<1>4. /\ mint \notin DOMAIN nft
      /\ nft' = WithAccount(nft, mint,
                  [minted_to |-> beneficiary, update_authority |-> index])
  BY DEF PurchaseShares, MintNft
<1>5. /\ DOMAIN buy_in' = DOMAIN buy_in \cup {index}
      /\ buy_in' \in [DOMAIN buy_in' -> BuyIn]
      /\ buy_in'[index] = BuyInRecord(index, shares, beneficiary, mint)
      /\ \A i \in DOMAIN buy_in : buy_in'[i] = buy_in[i]
  BY <1>1, <1>2, <1>3 DEF WithAccount
<1>6. /\ DOMAIN nft' = DOMAIN nft \cup {mint}
      /\ nft' \in [DOMAIN nft' -> Nft]
      /\ nft'[mint] = [minted_to |-> beneficiary, update_authority |-> index]
      /\ \A m \in DOMAIN nft : nft'[m] = nft[m]
  BY <1>1, <1>2, <1>4 DEF WithAccount
<1> QED
  BY <1>4, <1>5, <1>6

-----------------------------------------------------------------------------
(* Type correctness *)

\* A purchase keeps the type of every account it writes.
LEMMA PurchaseStepTypes ==
  ASSUME TypeOK,
         NEW buyer \in Wallets, NEW beneficiary \in Wallets, NEW mint \in Mints,
         NEW shares \in 0..U16Max, NEW index \in 1..U16Max,
         PurchaseShares(buyer, shares, beneficiary, mint, index)
  PROVE  TypeOK'
<1>1. /\ offering \in OfferingAccount
      /\ offering' \in OfferingAccount
      /\ Payment(shares) \in Nat
  BY PurchaseTypes
<1>2. /\ DOMAIN buy_in' \subseteq 1..U16Max
      /\ buy_in' \in [DOMAIN buy_in' -> BuyIn]
      /\ DOMAIN nft' \subseteq Mints
      /\ nft' \in [DOMAIN nft' -> Nft]
  <2>1. /\ DOMAIN buy_in' = DOMAIN buy_in \cup {index}
        /\ buy_in' \in [DOMAIN buy_in' -> BuyIn]
        /\ DOMAIN nft' = DOMAIN nft \cup {mint}
        /\ nft' \in [DOMAIN nft' -> Nft]
    BY PurchaseRecords
  <2>2. DOMAIN buy_in \subseteq 1..U16Max /\ DOMAIN nft \subseteq Mints
    BY DEF TypeOK
  <2> QED
    BY <2>1, <2>2
<1>3. tokens' \in [Wallets -> Nat] /\ payments' \in Nat
  <2>1. tokens[buyer] - Payment(shares) \in Nat
    BY <1>1 DEF TypeOK, PurchaseShares
  <2>2. tokens' = [tokens EXCEPT ![buyer] = tokens[buyer] - Payment(shares)]
    BY DEF PurchaseShares, Debit
  <2>3. payments' = payments + Payment(shares)
    BY DEF PurchaseShares
  <2> QED
    BY <1>1, <2>1, <2>2, <2>3 DEF TypeOK
<1> QED
  BY <1>1, <1>2, <1>3, NoAccountAssumption
     DEF PurchaseShares, Open, TypeOK, NoAccountAssumption

\* Every account of the sale keeps the widths state.rs declares, and the
\* offering exists exactly when it has left "Uninitialized".
THEOREM TypeCorrect == Spec => []TypeOK
<1> USE WidthsAssumption, InputsAssumption, NoAccountAssumption
        DEF WidthsAssumption, InputsAssumption, NoAccountAssumption
<1>1. Init => TypeOK
  BY DEF Init, TypeOK, OfferingStates
<1>2. ASSUME TypeOK, [Next]_vars PROVE TypeOK'
  <2>1. ASSUME NEW authority \in Wallets, NEW n \in 0..U16Max, NEW price \in Prices,
               NEW title \in Titles, NEW symbol \in Symbols, NEW uri \in Uris,
               InitNewOffering(authority, n, price, title, symbol, uri)
        PROVE  TypeOK'
    <3>1. offering' \in OfferingAccount
      BY <2>1 DEF InitNewOffering, OfferingAccount
    <3> QED
      BY <1>2, <2>1, <3>1 DEF InitNewOffering, TypeOK, OfferingStates
  <2>2. ASSUME NEW signer \in Wallets,
               NEW title \in Titles, NEW symbol \in Symbols, NEW uri \in Uris,
               UpdateOffering(signer, title, symbol, uri)
        PROVE  TypeOK'
    <3>1. offering \in OfferingAccount
      BY <1>2, <2>2 DEF TypeOK, UpdateOffering, TextsEditable
    <3>2. offering' \in OfferingAccount
      BY <2>2, <3>1 DEF UpdateOffering, OfferingAccount
    <3> QED
      BY <1>2, <2>2, <3>1, <3>2 DEF UpdateOffering, TypeOK, OfferingStates
  <2>3. ASSUME NEW buyer \in Wallets, NEW beneficiary \in Wallets, NEW mint \in Mints,
               NEW shares \in 0..U16Max, NEW index \in 1..U16Max,
               PurchaseShares(buyer, shares, beneficiary, mint, index)
        PROVE  TypeOK'
    BY <1>2, <2>3, PurchaseStepTypes
  <2>4. ASSUME Tick PROVE TypeOK'
    BY <1>2, <2>4 DEF Tick, TypeOK
  <2>5. ASSUME UNCHANGED vars PROVE TypeOK'
    BY <1>2, <2>5 DEF vars, TypeOK
  <2> QED
    BY <1>2, <2>1, <2>2, <2>3, <2>4, <2>5 DEF Next, SaleStep
<1> QED
  BY <1>1, <1>2, PTL DEF Spec

-----------------------------------------------------------------------------
(* The books of the sale *)

\* The inductive invariant: each part of the books needs the others.  The
\* running sum needs the buy-ins to be numbered without a gap, the payments
\* need the counter of sold shares, and the NFTs need their mints to be new.
SaleInv ==
  /\ TypeOK
  /\ SharesAccounted
  /\ PaymentsMatchShares
  /\ BuyInsOwnTheirNfts

\* Before the offering exists the books are empty, and balance.
LEMMA SaleInvInit == Init => SaleInv
<1> USE WidthsAssumption, InputsAssumption, NoAccountAssumption
        DEF WidthsAssumption, InputsAssumption, NoAccountAssumption
<1> SUFFICES ASSUME Init PROVE SaleInv
  OBVIOUS
<1>1. TypeOK
  BY DEF Init, TypeOK, OfferingStates
<1>2. SharesAccounted /\ PaymentsMatchShares
  BY DEF Init, SharesAccounted, PaymentsMatchShares
<1>3. BuyInsOwnTheirNfts
  BY DEF Init, BuyInsOwnTheirNfts
<1> QED
  BY <1>1, <1>2, <1>3 DEF SaleInv

\* Setting up the offering creates its accounts without a share sold or paid.
LEMMA InitNewOfferingKeepsBooks ==
  ASSUME SaleInv, TypeOK', NEW authority \in Wallets, NEW n \in 0..U16Max,
         NEW price \in Prices, NEW title \in Titles, NEW symbol \in Symbols,
         NEW uri \in Uris,
         InitNewOffering(authority, n, price, title, symbol, uri)
  PROVE  SaleInv'
<1> USE WidthsAssumption, InputsAssumption DEF WidthsAssumption, InputsAssumption
<1>1. /\ offering'.bought_shares = 0
      /\ offering'.buy_ins = 0
      /\ offering'.initial_shares = n
      /\ offering'.price_per_share \in Nat
      /\ state' = "BuyInActive"
      /\ state = "Uninitialized"
      /\ UNCHANGED <<buy_in, nft, payments>>
  BY DEF InitNewOffering
<1>2. IsSumOfShares(0, 0)'
  <2> DEFINE empty == [i \in 0..0 |-> 0]
  <2>1. empty \in [0..0 -> 0..0] /\ empty[0] = 0
    OBVIOUS
  <2> HIDE DEF empty
  <2>2. \A i \in 1..0 : empty[i] = empty[i - 1] + buy_in'[i].shares
    OBVIOUS
  <2> QED
    BY <2>1, <2>2 DEF IsSumOfShares
<1>3. SharesAccounted'
  BY <1>1, <1>2 DEF SharesAccounted
<1>4. PaymentsMatchShares'
  BY <1>1 DEF SaleInv, PaymentsMatchShares
<1>5. BuyInsOwnTheirNfts'
  <2>1. DOMAIN buy_in = {} /\ DOMAIN nft = {}
    BY <1>1 DEF SaleInv, BuyInsOwnTheirNfts
  <2> QED
    BY <1>1, <2>1 DEF BuyInsOwnTheirNfts
<1> QED
  BY <1>3, <1>4, <1>5 DEF SaleInv

\* Only the texts of the offering change.
LEMMA UpdateOfferingKeepsBooks ==
  ASSUME SaleInv, TypeOK', NEW signer \in Wallets,
         NEW title \in Titles, NEW symbol \in Symbols, NEW uri \in Uris,
         UpdateOffering(signer, title, symbol, uri)
  PROVE  SaleInv'
<1>1. offering \in OfferingAccount
  BY DEF SaleInv, TypeOK, UpdateOffering, TextsEditable
<1>2. /\ offering'.bought_shares = offering.bought_shares
      /\ offering'.buy_ins = offering.buy_ins
      /\ offering'.initial_shares = offering.initial_shares
      /\ offering'.price_per_share = offering.price_per_share
      /\ UNCHANGED <<state, buy_in, nft, payments>>
  BY <1>1 DEF UpdateOffering, OfferingAccount
<1>3. SharesAccounted'
  BY <1>2 DEF SaleInv, SharesAccounted, IsSumOfShares
<1>4. PaymentsMatchShares'
  BY <1>2 DEF SaleInv, PaymentsMatchShares
<1>5. BuyInsOwnTheirNfts'
  BY <1>2 DEF SaleInv, BuyInsOwnTheirNfts
<1> QED
  BY <1>3, <1>4, <1>5 DEF SaleInv

\* A purchase adds the same shares to the counter, the buy-ins and the payments.
LEMMA PurchaseSharesKeepsBooks ==
  ASSUME SaleInv, TypeOK',
         NEW buyer \in Wallets, NEW beneficiary \in Wallets, NEW mint \in Mints,
         NEW shares \in 0..U16Max, NEW index \in 1..U16Max,
         PurchaseShares(buyer, shares, beneficiary, mint, index)
  PROVE  SaleInv'
<1> USE WidthsAssumption DEF WidthsAssumption
<1>1. /\ offering \in OfferingAccount
      /\ index = offering.buy_ins + 1
      /\ index \notin DOMAIN buy_in
      /\ offering'.buy_ins = index
      /\ offering'.bought_shares = offering.bought_shares + shares
      /\ offering'.bought_shares <= offering.initial_shares
      /\ offering'.initial_shares = offering.initial_shares
      /\ offering'.price_per_share = offering.price_per_share
  BY PurchaseTypes DEF SaleInv
<1>2. /\ DOMAIN buy_in' = DOMAIN buy_in \cup {index}
      /\ buy_in'[index] = BuyInRecord(index, shares, beneficiary, mint)
      /\ \A i \in DOMAIN buy_in : buy_in'[i] = buy_in[i]
      /\ mint \notin DOMAIN nft
      /\ DOMAIN nft' = DOMAIN nft \cup {mint}
      /\ nft'[mint] = [minted_to |-> beneficiary, update_authority |-> index]
      /\ \A m \in DOMAIN nft : nft'[m] = nft[m]
  BY PurchaseRecords DEF SaleInv
<1>3. state = "BuyInActive" /\ state' = state
  BY DEF PurchaseShares, Open
<1>4. DOMAIN buy_in = 1..offering.buy_ins
  BY <1>3 DEF SaleInv, BuyInsOwnTheirNfts
<1>5. SharesAccounted'
  <2> DEFINE n == offering.buy_ins
             total == offering.bought_shares
  <2>1. PICK sum \in [0..n -> 0..total] :
          /\ sum[0] = 0
          /\ \A i \in 1..n : sum[i] = sum[i - 1] + buy_in[i].shares
          /\ sum[n] = total
    BY <1>3 DEF SaleInv, SharesAccounted, IsSumOfShares
  <2>2. buy_in'[n + 1].shares = shares
    BY <1>1, <1>2 DEF BuyInRecord
  <2>3. \A i \in 1..n : sum[i] = sum[i - 1] + buy_in'[i].shares
    BY <1>2, <1>4, <2>1
  <2>4. total \in Nat /\ n \in Nat /\ shares \in Nat
    BY <1>1 DEF OfferingAccount
  <2> DEFINE longer ==
        [i \in 0..(n + 1) |-> IF i = n + 1 THEN total + shares ELSE sum[i]]
  <2>5. longer \in [0..(n + 1) -> 0..(total + shares)]
    BY <2>4
  <2>6. longer[0] = 0 /\ longer[n + 1] = total + shares
    BY <2>1, <2>4
  <2>7. ASSUME NEW i \in 1..(n + 1)
        PROVE  longer[i] = longer[i - 1] + buy_in'[i].shares
    <3>1. CASE i = n + 1
      <4>1. longer[n] = sum[n] /\ longer[n + 1] = total + shares
        BY <2>4
      <4> HIDE DEF longer
      <4> QED
        BY <2>1, <2>2, <2>4, <3>1, <4>1
    <3>2. CASE i \in 1..n
      <4>1. longer[i] = sum[i] /\ longer[i - 1] = sum[i - 1]
        BY <2>4, <3>2
      <4> HIDE DEF longer
      <4> QED
        BY <2>3, <3>2, <4>1
    <3> QED
      BY <2>4, <3>1, <3>2
  <2>8. offering'.buy_ins = n + 1 /\ offering'.bought_shares = total + shares
    BY <1>1
  <2> HIDE DEF n, total, longer
  <2>9. IsSumOfShares(offering.bought_shares, offering.buy_ins)'
    BY <2>5, <2>6, <2>7, <2>8 DEF IsSumOfShares
  <2> QED
    BY <1>1, <2>9 DEF SharesAccounted
<1>6. PaymentsMatchShares'
  <2>1. payments = offering.bought_shares * offering.price_per_share
    BY <1>3 DEF SaleInv, PaymentsMatchShares
  <2>2. payments' = payments + shares * offering.price_per_share
    BY DEF PurchaseShares, Payment
  <2>3. /\ offering.bought_shares \in Nat
        /\ offering.price_per_share \in Nat
        /\ shares \in Nat
    BY <1>1 DEF OfferingAccount
  <2>4. payments' = (offering.bought_shares + shares) * offering.price_per_share
    BY <2>1, <2>2, <2>3, Products
  <2> QED
    BY <1>1, <1>3, <2>4 DEF PaymentsMatchShares
<1>7. BuyInsOwnTheirNfts'
  <2>1. DOMAIN buy_in' = 1..offering'.buy_ins
    BY <1>1, <1>2, <1>4 DEF OfferingAccount
  <2>2. ASSUME NEW i \in DOMAIN buy_in'
        PROVE  /\ buy_in'[i].index = i
               /\ buy_in'[i].token_mint \in DOMAIN nft'
               /\ nft'[buy_in'[i].token_mint] =
                    [minted_to |-> buy_in'[i].beneficiary, update_authority |-> i]
    <3>1. CASE i = index
      BY <1>2, <3>1 DEF BuyInRecord
    <3>2. CASE i \in DOMAIN buy_in
      <4>1. /\ buy_in[i].index = i
            /\ buy_in[i].token_mint \in DOMAIN nft
            /\ nft[buy_in[i].token_mint] =
                 [minted_to |-> buy_in[i].beneficiary, update_authority |-> i]
        BY <3>2 DEF SaleInv, BuyInsOwnTheirNfts
      <4> QED
        BY <1>2, <3>2, <4>1
    <3> QED
      BY <1>2, <3>1, <3>2
  <2>3. ASSUME NEW m \in DOMAIN nft'
        PROVE  \E i \in DOMAIN buy_in' : buy_in'[i].token_mint = m
    <3>1. CASE m = mint
      BY <1>2, <3>1 DEF BuyInRecord
    <3>2. CASE m \in DOMAIN nft
      <4>1. \E i \in DOMAIN buy_in : buy_in[i].token_mint = m
        BY <3>2 DEF SaleInv, BuyInsOwnTheirNfts
      <4> QED
        BY <1>2, <4>1
    <3> QED
      BY <1>2, <3>1, <3>2
  <2> QED
    BY <1>3, <2>1, <2>2, <2>3 DEF BuyInsOwnTheirNfts
<1> QED
  BY <1>5, <1>6, <1>7 DEF SaleInv

\* The books balance in every state of the sale.
LEMMA SaleInvariant == Spec => []SaleInv
<1>1. ASSUME SaleInv, TypeOK', [Next]_vars PROVE SaleInv'
  <2>1. ASSUME Tick \/ UNCHANGED vars PROVE SaleInv'
    <3>1. UNCHANGED <<state, offering, buy_in, nft, payments>>
      BY <2>1 DEF Tick, vars
    <3> QED
      BY <1>1, <3>1 DEF SaleInv, SharesAccounted, IsSumOfShares,
                        PaymentsMatchShares, BuyInsOwnTheirNfts
  <2> QED
    BY <1>1, <2>1, InitNewOfferingKeepsBooks, UpdateOfferingKeepsBooks,
       PurchaseSharesKeepsBooks DEF Next, SaleStep
<1> QED
  BY <1>1, SaleInvInit, TypeCorrect, PTL DEF Spec

\* The counter the sale is limited by is the sum of the shares in the BuyIn
\* accounts and stays within what was offered, for any number of purchases.
THEOREM SharesAlwaysAccounted == Spec => []SharesAccounted
BY SaleInvariant, PTL DEF SaleInv

\* The payments account holds the price of every share ever sold.
THEOREM PaymentsAlwaysMatchShares == Spec => []PaymentsMatchShares
BY SaleInvariant, PTL DEF SaleInv

\* Buy-ins are numbered without a gap and are in one-to-one correspondence with
\* the NFTs, whatever mints and beneficiaries buyers bring.
THEOREM BuyInsAlwaysOwnTheirNfts == Spec => []BuyInsOwnTheirNfts
BY SaleInvariant, PTL DEF SaleInv

-----------------------------------------------------------------------------
(* The texts *)

\* The texts of the offering are within the limits that validate() sets.
TextsValid ==
  state # "Uninitialized" => Valid(offering.title, offering.symbol, offering.nft_uri)

LEMMA TextsAlwaysValid == Spec => []TextsValid
<1>1. Init => TextsValid
  BY DEF Init, TextsValid
<1>2. ASSUME TypeOK, TextsValid, [Next]_vars PROVE TextsValid'
  <2> USE DEF TextsValid, Valid
  <2>1. ASSUME NEW authority, NEW n, NEW price, NEW title, NEW symbol, NEW uri,
               InitNewOffering(authority, n, price, title, symbol, uri)
        PROVE  TextsValid'
    BY <2>1 DEF InitNewOffering
  <2>2. ASSUME NEW signer, NEW title, NEW symbol, NEW uri,
               UpdateOffering(signer, title, symbol, uri)
        PROVE  TextsValid'
    BY <1>2, <2>2 DEF UpdateOffering, TypeOK, TextsEditable, OfferingAccount
  <2>3. ASSUME NEW buyer, NEW beneficiary, NEW mint, NEW shares, NEW index,
               PurchaseShares(buyer, shares, beneficiary, mint, index)
        PROVE  TextsValid'
    BY <1>2, <2>3 DEF PurchaseShares, TypeOK, Open, OfferingAccount
  <2>4. CASE Tick \/ UNCHANGED vars
    BY <1>2, <2>4 DEF Tick, vars
  <2> QED
    BY <1>2, <2>1, <2>2, <2>3, <2>4 DEF Next, SaleStep
<1> QED
  BY <1>1, <1>2, TypeCorrect, PTL DEF Spec

\* "-{n}" has at most six characters: what counts are the four powers of ten.
LEMMA SuffixLength ==
  ASSUME NEW n
  PROVE  SuffixLen(n) \in 2..6
<1> DEFINE longer == {d \in 1..4 : 10^d <= n}
<1>1. IsFiniteSet(1..4) /\ Cardinality(1..4) = 4
  <2>1. ASSUME NEW a \in Int, NEW b \in Int, b >= a
        PROVE  IsFiniteSet(a..b) /\ Cardinality(a..b) = b - a + 1
    BY <2>1, FS_Interval
  <2>2. 1 \in Int /\ 4 \in Int /\ 4 >= 1 /\ 4 - 1 + 1 = 4
    OBVIOUS
  <2>3. IsFiniteSet(1..4) /\ Cardinality(1..4) = 4 - 1 + 1
    BY <2>1, <2>2, Zenon
  <2> QED
    BY <2>2, <2>3
<1>2. longer \subseteq 1..4
  OBVIOUS
<1> HIDE DEF longer
<1>3. Cardinality(longer) \in Nat /\ Cardinality(longer) <= 4
  BY <1>1, <1>2, FS_Subset, FS_CardinalityType
<1>4. 2 + Cardinality(longer) \in 2..6
  BY <1>3
<1> QED
  BY <1>4 DEF SuffixLen, longer

\* An offering whose title has at most 26 bytes and whose symbol at most 4
\* leaves room for "-{n}" with any number of a buy-in: the token metadata
\* program refuses none of its NFTs.  (validate() lets 31 and 7 through, too
\* many for long numbers: the violated NextNftFits.)
THEOREM ShortTextsAlwaysFit ==
  Spec => [](state = "BuyInActive" /\ offering.title <= 26 /\ offering.symbol <= 4
               => MetadataAccepted(offering.buy_ins + 1))
<1> DEFINE Fit == state = "BuyInActive" /\ offering.title <= 26 /\ offering.symbol <= 4
                    => MetadataAccepted(offering.buy_ins + 1)
<1>1. TypeOK /\ TextsValid => Fit
  <2> SUFFICES ASSUME TypeOK, TextsValid, state = "BuyInActive",
                      offering.title <= 26, offering.symbol <= 4
               PROVE  MetadataAccepted(offering.buy_ins + 1)
    OBVIOUS
  <2>1. /\ offering.title \in Nat /\ offering.symbol \in Nat
        /\ offering.nft_uri <= 200
    BY DEF TypeOK, TextsValid, OfferingAccount, Valid, MAX_URI_LEN
  <2>2. SuffixLen(offering.buy_ins + 1) \in 2..6
    BY SuffixLength
  <2> QED
    BY <2>1, <2>2 DEF MetadataAccepted
<1> QED
  BY <1>1, TypeCorrect, TextsAlwaysValid, PTL

-----------------------------------------------------------------------------
(* Steps *)

\* No step changes or removes a buy-in or an NFT that exists.
THEOREM PurchasesStayFinal == Spec => PurchasesAreFinal
<1> DEFINE Final ==
      /\ \A i \in DOMAIN buy_in : i \in DOMAIN buy_in' /\ buy_in'[i] = buy_in[i]
      /\ \A m \in DOMAIN nft : m \in DOMAIN nft' /\ nft'[m] = nft[m]
<1>1. ASSUME TypeOK, [Next]_vars PROVE [Final]_vars
  <2>1. ASSUME NEW buyer \in Wallets, NEW beneficiary \in Wallets, NEW mint \in Mints,
               NEW shares \in 0..U16Max, NEW index \in 1..U16Max,
               PurchaseShares(buyer, shares, beneficiary, mint, index)
        PROVE  Final
    BY <1>1, <2>1, PurchaseRecords
  <2>2. ASSUME UNCHANGED <<buy_in, nft>> PROVE Final
    BY <2>2
  <2> QED
    BY <1>1, <2>1, <2>2 DEF Next, SaleStep, InitNewOffering, UpdateOffering, Tick, vars
<1> QED
  BY <1>1, TypeCorrect, PTL DEF Spec, PurchasesAreFinal
=============================================================================
