----------------------- MODULE PendulumClientViewProofs -----------------------
(* Proofs about what the client of PendulumClient shows: an account's fields   *)
(* reach their names by three copies by position, and a filter finds an        *)
(* account by the byte a field starts at.  Each copy is looked at place by     *)
(* place, for whatever the accounts hold.                                      *)
EXTENDS PendulumClientProofs

-----------------------------------------------------------------------------
(* What the client reads *)

\* A field of the IDL holds what the program wrote at its place.
LEMMA DecodedByPosition ==
  ASSUME NEW fields, NEW values, NEW k \in 1..Len(fields),
         \A j \in 1..Len(fields) : fields[j][1] = fields[k][1] => j = k
  PROVE  Decoded(fields, values)[fields[k][1]] = values[k]
<1>1. (CHOOSE j \in 1..Len(fields) : fields[j][1] = fields[k][1]) = k
  OBVIOUS
<1> QED
  BY <1>1 DEF Decoded

\* The offering as fetch() decodes it, field by field.
LEMMA OfferingDecoded ==
  LET account == fetchOffering IN
    /\ account.authority = offering.authority
    /\ account.initialShares = offering.initial_shares
    /\ account.boughtShares = offering.bought_shares
    /\ account.buyIns = offering.buy_ins
    /\ account.paymentMint = PaymentMint
    /\ account.paymentsTokenAccount = AssociatedAddress(PaymentMint, offering_address)
    /\ account.pricePerShare = offering.price_per_share
    /\ account.state = state /\ account.title = offering.title
    /\ account.symbol = offering.symbol /\ account.nftUri = offering.nft_uri
<1> DEFINE name(k) == OfferingIdl[k][1]
           account == fetchOffering
           data == OfferingData
<1>1. /\ Len(OfferingIdl) = 11
      /\ name(1) = "authority" /\ name(2) = "initialShares"
      /\ name(3) = "boughtShares" /\ name(4) = "buyIns"
      /\ name(5) = "paymentMint" /\ name(6) = "paymentsTokenAccount"
      /\ name(7) = "pricePerShare" /\ name(8) = "state" /\ name(9) = "title"
      /\ name(10) = "symbol" /\ name(11) = "nftUri"
  BY DEF OfferingIdl
<1>2. /\ data[1] = offering.authority /\ data[2] = offering.initial_shares
      /\ data[3] = offering.bought_shares /\ data[4] = offering.buy_ins
      /\ data[5] = PaymentMint
      /\ data[6] = AssociatedAddress(PaymentMint, offering_address)
      /\ data[7] = offering.price_per_share /\ data[8] = state
      /\ data[9] = offering.title /\ data[10] = offering.symbol
      /\ data[11] = offering.nft_uri
  BY DEF OfferingData
<1>3. ASSUME NEW k \in 1..11 PROVE account[name(k)] = data[k]
  <2>1. k \in 1..Len(OfferingIdl)
    BY <1>1
  <2>2. \A j \in 1..Len(OfferingIdl) : OfferingIdl[j][1] = OfferingIdl[k][1] => j = k
    <3>1. \A j \in 1..Len(OfferingIdl) : name(j) = name(k) => j = k
      <4> HIDE DEF name
      <4> QED
        BY <1>1
    <3> QED
      BY <3>1
  <2>3. Decoded(OfferingIdl, OfferingData)[OfferingIdl[k][1]] = OfferingData[k]
    BY <2>1, <2>2, DecodedByPosition
  <2> QED
    BY <2>3 DEF fetchOffering
<1> HIDE DEF name, account, data
<1>4. /\ account["authority"] = data[1] /\ account["initialShares"] = data[2]
      /\ account["boughtShares"] = data[3] /\ account["buyIns"] = data[4]
      /\ account["paymentMint"] = data[5]
      /\ account["paymentsTokenAccount"] = data[6]
  BY <1>1, <1>3
<1>5. /\ account["pricePerShare"] = data[7] /\ account["state"] = data[8]
      /\ account["title"] = data[9] /\ account["symbol"] = data[10]
      /\ account["nftUri"] = data[11]
  BY <1>1, <1>3
<1> QED
  BY <1>2, <1>4, <1>5 DEF account

-----------------------------------------------------------------------------
(* Where the fields are *)

LEMMA Widths ==
  /\ Width("publicKey") = 32 /\ Width("u64") = 8 /\ Width("i64") = 8
  /\ Width("u16") = 2 /\ Width("OfferingState") = 1 /\ Width("string") = 4
BY DEF Width

\* The offsets add up, if there are numbers that do.
LEMMA OffsetsAddUp ==
  ASSUME NEW types, NEW k \in Nat \ {0}, NEW w \in [1..k -> Int],
         \A i \in 1..k : w[i] = IF i = 1 THEN 8 ELSE w[i - 1] + Width(types[i - 1])
  PROVE  \E start :
           /\ OffsetOf(types, k) = start[k]
           /\ \A i \in 1..k :
                start[i] = IF i = 1 THEN 8 ELSE start[i - 1] + Width(types[i - 1])
<1> DEFINE Sums(s) ==
      s = [i \in 1..k |-> IF i = 1 THEN DISCRIMINATOR
                          ELSE s[i - 1] + Width(types[i - 1])]
           start == CHOOSE s : Sums(s)
<1>1. Sums(w)
  BY DEF DISCRIMINATOR
<1>2. OffsetOf(types, k) = start[k]
  BY DEF OffsetOf
<1>3. Sums(start)
  <2> HIDE DEF Sums
  <2> QED
    BY <1>1
<1> HIDE DEF start
<1>4. ASSUME NEW i \in 1..k
      PROVE  start[i] = IF i = 1 THEN 8 ELSE start[i - 1] + Width(types[i - 1])
  BY <1>3 DEF DISCRIMINATOR
<1> HIDE DEF Sums
<1> QED
  BY <1>2, <1>4

\* The fields of a BuyIn account: only the beneficiary starts at byte 52.
LEMMA BuyInOffsets ==
  ASSUME NEW k \in 1..6
  PROVE  OffsetOf(BuyInTypes, k)
           = <<8, 40, 42, 44, 52, 84>>[k]
<1> DEFINE types == BuyInTypes
           offset == <<8, 40, 42, 44, 52, 84>>
           w == [i \in 1..k |-> offset[i]]
<1>1. /\ Width(types[1]) = 32 /\ Width(types[2]) = 2 /\ Width(types[3]) = 2
      /\ Width(types[4]) = 8 /\ Width(types[5]) = 32
  BY Widths DEF BuyInTypes
<1>2. /\ offset[1] = 8 /\ offset[2] = 40 /\ offset[3] = 42 /\ offset[4] = 44
      /\ offset[5] = 52 /\ offset[6] = 84
  OBVIOUS
<1> HIDE DEF types, offset
<1>3. w \in [1..k -> Int]
  BY <1>2
<1>4. ASSUME NEW i \in 1..k
      PROVE  w[i] = IF i = 1 THEN 8 ELSE w[i - 1] + Width(types[i - 1])
  BY <1>1, <1>2
<1>5. k \in Nat \ {0}
  OBVIOUS
<1> HIDE DEF w
<1>6. PICK start :
        /\ OffsetOf(types, k) = start[k]
        /\ \A i \in 1..k :
             start[i] = IF i = 1 THEN 8 ELSE start[i - 1] + Width(types[i - 1])
  BY <1>3, <1>4, <1>5, OffsetsAddUp
<1>7. /\ start[1] = 8
      /\ k >= 2 => start[2] = 40
      /\ k >= 3 => start[3] = 42
      /\ k >= 4 => start[4] = 44
      /\ k >= 5 => start[5] = 52
      /\ k >= 6 => start[6] = 84
  <2>1. start[1] = 8
    BY <1>6
  <2>2. k >= 2 => start[2] = 40
    BY <1>1, <1>6, <2>1
  <2>3. k >= 3 => start[3] = 42
    BY <1>1, <1>6, <2>2
  <2>4. k >= 4 => start[4] = 44
    BY <1>1, <1>6, <2>3
  <2>5. k >= 5 => start[5] = 52
    BY <1>1, <1>6, <2>4
  <2>6. k >= 6 => start[6] = 84
    BY <1>1, <1>6, <2>5
  <2> QED
    BY <2>1, <2>2, <2>3, <2>4, <2>5, <2>6
<1> QED
  BY <1>2, <1>6, <1>7 DEF types, offset

\* An Offering account without its texts takes 131 bytes.
LEMMA OfferingSize == OffsetOf(OfferingTypes, Len(OfferingTypes) + 1) = 131
<1> DEFINE types == OfferingTypes
           offset == <<8, 40, 42, 44, 46, 78, 110, 118, 119, 123, 127, 131>>
           w == [i \in 1..12 |-> offset[i]]
<1>1. /\ Width(types[1]) = 32 /\ Width(types[2]) = 2 /\ Width(types[3]) = 2
      /\ Width(types[4]) = 2 /\ Width(types[5]) = 32 /\ Width(types[6]) = 32
      /\ Width(types[7]) = 8 /\ Width(types[8]) = 1 /\ Width(types[9]) = 4
      /\ Width(types[10]) = 4 /\ Width(types[11]) = 4
  BY Widths DEF OfferingTypes
<1>2. /\ offset[1] = 8 /\ offset[2] = 40 /\ offset[3] = 42 /\ offset[4] = 44
      /\ offset[5] = 46 /\ offset[6] = 78 /\ offset[7] = 110 /\ offset[8] = 118
      /\ offset[9] = 119 /\ offset[10] = 123 /\ offset[11] = 127
      /\ offset[12] = 131
  OBVIOUS
<1>3. Len(types) + 1 = 12
  BY DEF OfferingTypes
<1> HIDE DEF types, offset
<1>4. w \in [1..12 -> Int]
  BY <1>2
<1>5. ASSUME NEW i \in 1..12
      PROVE  w[i] = IF i = 1 THEN 8 ELSE w[i - 1] + Width(types[i - 1])
  BY <1>1, <1>2
<1> DEFINE k == 12
<1>6. k \in Nat \ {0} /\ k = 12
  OBVIOUS
<1> HIDE DEF w, k
<1>7. PICK start :
        /\ OffsetOf(types, k) = start[k]
        /\ \A i \in 1..k :
             start[i] = IF i = 1 THEN 8 ELSE start[i - 1] + Width(types[i - 1])
  BY <1>4, <1>5, <1>6, OffsetsAddUp
<1>8. /\ start[1] = 8 /\ start[2] = 8 + 32 /\ start[3] = 8 + 32 + 2
      /\ start[4] = 8 + 32 + 2 + 2
  BY <1>1, <1>6, <1>7
<1>9. start[5] = 46 /\ start[6] = 78 /\ start[7] = 110 /\ start[8] = 118
  BY <1>1, <1>6, <1>7, <1>8
<1>10. start[9] = 119 /\ start[10] = 123 /\ start[11] = 127 /\ start[12] = 131
  BY <1>1, <1>6, <1>7, <1>9
<1> QED
  BY <1>3, <1>6, <1>7, <1>10 DEF types

-----------------------------------------------------------------------------
(* Views *)

\* The client shows the offering as the program keeps it (offering.ts,
\* fromIdlAccount), for every content of the account.
THEOREM ViewsAlwaysFaithful == Spec => []ViewsFaithful
<1> DEFINE name == OfferingConstructor
           view == OfferingAccount
           shown == OfferingFromIdl(fetchOffering)
<1>1. /\ Len(name) = 11
      /\ name[1] = "authority" /\ name[2] = "initialShares"
      /\ name[3] = "boughtShares" /\ name[4] = "buyIns"
      /\ name[5] = "paymentMint" /\ name[6] = "paymentsTokenAccount"
      /\ name[7] = "pricePerShare" /\ name[8] = "state" /\ name[9] = "title"
      /\ name[10] = "symbol" /\ name[11] = "nftUri"
  BY DEF OfferingConstructor
<1>2. /\ shown[1] = offering.authority /\ shown[2] = offering.initial_shares
      /\ shown[3] = offering.bought_shares /\ shown[4] = offering.buy_ins
      /\ shown[7] = offering.price_per_share /\ shown[8] = state
      /\ shown[9] = offering.title /\ shown[10] = offering.symbol
      /\ shown[11] = offering.nft_uri
  BY OfferingDecoded DEF OfferingFromIdl
<1>3. view = Bound(name, shown)
  BY DEF OfferingAccount
<1> HIDE DEF name, view, shown
<1>4. \A j, k \in 1..Len(name) : name[j] = name[k] => j = k
  BY <1>1
<1>5. ASSUME NEW k \in 1..11 PROVE view[name[k]] = shown[k]
  <2>1. k \in 1..Len(name)
    BY <1>1
  <2>2. \A j \in 1..Len(name) : name[j] = name[k] => j = k
    BY <1>4, <2>1
  <2> QED
    BY <1>3, <2>1, <2>2, BoundByPosition
<1>6. /\ view["authority"] = shown[1] /\ view["initialShares"] = shown[2]
      /\ view["boughtShares"] = shown[3] /\ view["buyIns"] = shown[4]
      /\ view["pricePerShare"] = shown[7] /\ view["state"] = shown[8]
      /\ view["title"] = shown[9] /\ view["symbol"] = shown[10]
      /\ view["nftUri"] = shown[11]
  BY <1>1, <1>5
<1>7. ViewsFaithful
  BY <1>2, <1>6 DEF ViewsFaithful, Sale!AvailableShares, view
<1> QED
  BY <1>7, PTL

\* The fields of a buy-in as the client shows them.
LEMMA BuyInShown ==
  ASSUME NEW i
  PROVE  /\ BuyInAccount(i).index = buy_in[i].index
         /\ BuyInAccount(i).shares = buy_in[i].shares
         /\ BuyInAccount(i).tokenMint = buy_in[i].token_mint
<1> DEFINE field(k) == BuyInIdl[k][1]
           data == BuyInData(i)
           account == Decoded(BuyInIdl, data)
           name == BuyInConstructor
           shown == BuyInFromIdl(account)
           view == BuyInAccount(i)
<1>1. /\ Len(BuyInIdl) = 6
      /\ field(1) = "offering" /\ field(2) = "index" /\ field(3) = "shares"
      /\ field(4) = "timestamp" /\ field(5) = "beneficiary"
      /\ field(6) = "tokenMint"
  BY DEF BuyInIdl
<1>2. /\ Len(name) = 6
      /\ name[1] = "offering" /\ name[2] = "index" /\ name[3] = "shares"
      /\ name[4] = "timestamp" /\ name[5] = "beneficiary"
      /\ name[6] = "tokenMint"
  BY DEF BuyInConstructor
<1>3. /\ data[2] = buy_in[i].index /\ data[3] = buy_in[i].shares
      /\ data[6] = buy_in[i].token_mint
  BY DEF BuyInData
<1>4. /\ shown[2] = account["index"] /\ shown[3] = account["shares"]
      /\ shown[6] = account["tokenMint"]
  BY DEF BuyInFromIdl
<1>5. view = Bound(name, shown)
  BY DEF BuyInAccount
<1> HIDE DEF data, shown, name, view
<1>6. ASSUME NEW k \in 1..6 PROVE account[field(k)] = data[k]
  <2>1. k \in 1..Len(BuyInIdl)
    BY <1>1
  <2>2. \A j \in 1..Len(BuyInIdl) : BuyInIdl[j][1] = BuyInIdl[k][1] => j = k
    <3>1. \A j \in 1..Len(BuyInIdl) : field(j) = field(k) => j = k
      <4> HIDE DEF field
      <4> QED
        BY <1>1
    <3> QED
      BY <3>1
  <2> QED
    BY <2>1, <2>2, DecodedByPosition
<1> HIDE DEF account
<1>7. ASSUME NEW k \in 1..6 PROVE view[name[k]] = shown[k]
  <2>1. k \in 1..Len(name)
    BY <1>2
  <2>2. \A j \in 1..Len(name) : name[j] = name[k] => j = k
    BY <1>2
  <2> QED
    BY <1>5, <2>1, <2>2, BoundByPosition
<1> HIDE DEF field
<1>8. /\ account["index"] = data[2] /\ account["shares"] = data[3]
      /\ account["tokenMint"] = data[6]
  BY <1>1, <1>6
<1>9. /\ view["index"] = shown[2] /\ view["shares"] = shown[3]
      /\ view["tokenMint"] = shown[6]
  BY <1>2, <1>7
<1> QED
  BY <1>3, <1>4, <1>8, <1>9 DEF view

\* What the filters of fetchBuyIns find.
LEMMA Found ==
  ASSUME NEW bytes
  PROVE  /\ fetchBuyIns(52, bytes) =
              {BuyInAccount(i) :
                 i \in {j \in DOMAIN buy_in : buy_in[j].beneficiary = bytes}}
         /\ fetchBuyIns(8, bytes) =
              {BuyInAccount(i) : i \in {j \in DOMAIN buy_in : offering_address = bytes}}
<1>1. Len(BuyInTypes) = 6
  BY DEF BuyInTypes
<1>2. ASSUME NEW k \in 1..6
      PROVE  /\ OffsetOf(BuyInTypes, k) = 52 <=> k = 5
             /\ OffsetOf(BuyInTypes, k) = 8 <=> k = 1
  <2>1. OffsetOf(BuyInTypes, k) = <<8, 40, 42, 44, 52, 84>>[k]
    BY BuyInOffsets
  <2> QED
    BY <2>1
<1>3. ASSUME NEW j
      PROVE  BuyInData(j)[1] = offering_address /\ BuyInData(j)[5] = buy_in[j].beneficiary
  BY DEF BuyInData
<1>4. ASSUME NEW j
      PROVE  /\ (\E k \in 1..Len(BuyInTypes) :
                   OffsetOf(BuyInTypes, k) = 52 /\ BuyInData(j)[k] = bytes)
                  <=> buy_in[j].beneficiary = bytes
             /\ (\E k \in 1..Len(BuyInTypes) :
                   OffsetOf(BuyInTypes, k) = 8 /\ BuyInData(j)[k] = bytes)
                  <=> offering_address = bytes
  BY <1>1, <1>2, <1>3
<1>5. fetchBuyIns(52, bytes) =
        {BuyInAccount(i) : i \in {j \in DOMAIN buy_in : buy_in[j].beneficiary = bytes}}
  BY <1>4 DEF fetchBuyIns
<1>6. fetchBuyIns(8, bytes) =
        {BuyInAccount(i) : i \in {j \in DOMAIN buy_in : offering_address = bytes}}
  BY <1>4 DEF fetchBuyIns
<1> QED
  BY <1>5, <1>6

\* The filters of buyIn.ts find the buy-ins of a wallet, and those of the
\* offering, all of them and no others.
THEOREM HoldingsAlwaysComplete == Spec => []HoldingsComplete
<1>1. Books!BuyInsOwnTheirNfts => HoldingsComplete
  <2> SUFFICES ASSUME Books!BuyInsOwnTheirNfts PROVE HoldingsComplete
    OBVIOUS
  <2>1. \A i \in DOMAIN buy_in : buy_in[i].index = i
    BY DEF Books!BuyInsOwnTheirNfts
  <2>2. ASSUME NEW w \in Wallets
        PROVE  {<<b.index, b.shares, b.tokenMint>> : b \in fetchBuyInsForBeneficiary(w)}
                 = {<<i, buy_in[i].shares, buy_in[i].token_mint>> :
                      i \in {j \in DOMAIN buy_in : buy_in[j].beneficiary = w}}
    <3> DEFINE mine == {j \in DOMAIN buy_in : buy_in[j].beneficiary = w}
    <3>1. fetchBuyInsForBeneficiary(w) = {BuyInAccount(i) : i \in mine}
      BY Found DEF fetchBuyInsForBeneficiary, BeneficiaryOffset
    <3>2. ASSUME NEW i \in mine
          PROVE  /\ BuyInAccount(i).index = i
                 /\ BuyInAccount(i).shares = buy_in[i].shares
                 /\ BuyInAccount(i).tokenMint = buy_in[i].token_mint
      BY <2>1, BuyInShown
    <3> HIDE DEF mine
    <3>3. {<<b.index, b.shares, b.tokenMint>> : b \in {BuyInAccount(i) : i \in mine}}
            = {<<i, buy_in[i].shares, buy_in[i].token_mint>> : i \in mine}
      BY <3>2
    <3> QED
      BY <3>1, <3>3 DEF mine
  <2>3. {b.index : b \in fetchBuyInsForOffering(offering_address)} = DOMAIN buy_in
    <3>1. fetchBuyInsForOffering(offering_address)
            = {BuyInAccount(i) : i \in DOMAIN buy_in}
      BY Found DEF fetchBuyInsForOffering
    <3>2. \A i \in DOMAIN buy_in : BuyInAccount(i).index = i
      BY <2>1, BuyInShown
    <3>3. {b.index : b \in {BuyInAccount(i) : i \in DOMAIN buy_in}} = DOMAIN buy_in
      <4> DEFINE shown == {BuyInAccount(i) : i \in DOMAIN buy_in}
      <4>1. ASSUME NEW b \in shown PROVE b.index \in DOMAIN buy_in
        BY ONLY <3>2, <4>1
      <4>2. ASSUME NEW i \in DOMAIN buy_in PROVE \E b \in shown : b.index = i
        <5>1. BuyInAccount(i) \in shown
          OBVIOUS
        <5> QED
          BY ONLY <3>2, <4>2, <5>1
      <4> HIDE DEF shown
      <4>3. {b.index : b \in shown} = DOMAIN buy_in
        BY ONLY <4>1, <4>2
      <4> QED
        BY ONLY <4>3 DEF shown
    <3> QED
      BY ONLY <3>1, <3>3
  <2> QED
    BY <2>2, <2>3 DEF HoldingsComplete
<1> QED
  BY <1>1, SalePromisesHold, PTL

\* Every text an edit may store fits into the account as it was allocated
\* (state.rs, Offering::SPACE).
THEOREM AccountsAlwaysFit == Spec => []AccountsFit
<1>1. Books!TypeOK /\ Books!TextsValid => AccountsFit
  <2> SUFFICES ASSUME Books!TypeOK, Books!TextsValid, state # "Uninitialized"
               PROVE  131 + offering.title + offering.symbol + offering.nft_uri
                        <= OFFERING_SPACE
    BY OfferingSize DEF AccountsFit
  <2>1. /\ offering.title \in Nat /\ offering.symbol \in Nat /\ offering.nft_uri \in Nat
    BY DEF Books!TypeOK, Books!OfferingAccount
  <2>2. /\ offering.title <= 31 /\ offering.symbol <= 7 /\ offering.nft_uri <= 200
    BY DEF Books!TextsValid, Books!Valid, Books!MAX_TITLE_LEN,
           Books!MAX_SYMBOL_LEN, Books!MAX_URI_LEN
  <2>3. OFFERING_SPACE = 369
    BY DEF OFFERING_SPACE
  <2> QED
    BY <2>1, <2>2, <2>3
<1>2. Books!Spec => []Books!TextsValid
  BY BooksConstants, Books!TextsAlwaysValid DEF Books!WidthsAssumption,
     Books!InputsAssumption, Books!WalletsAssumption, Books!NoAccountAssumption
<1> QED
  BY <1>1, <1>2, ImplementsSale, SalePromisesHold, PTL
=============================================================================
