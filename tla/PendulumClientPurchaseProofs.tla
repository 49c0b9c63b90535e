--------------------- MODULE PendulumClientPurchaseProofs ---------------------
(* Proof that a purchase prepared by the client of PendulumClient is stopped   *)
(* by the sale or by another purchase only: the client derives the addresses   *)
(* the program derives, hands over its accounts in the program's order, with   *)
(* the rights and signatures it asks for, and none of that gets stale.         *)
EXTENDS PendulumClientViewProofs

-----------------------------------------------------------------------------
(* The addresses of both sides *)

\* The high byte of a u16 is a byte, with nothing above it.
LEMMA HighByte ==
  ASSUME NEW n \in Nat, n \div 256 <= 255
  PROVE  /\ n \div 256 \in Nat /\ n \div 256 <= 255
         /\ (n \div 256) \div 256 = 0
         /\ (n \div 256) % 256 = n \div 256
<1>1. n \div 256 \in Nat /\ n \div 256 <= 255
  OBVIOUS
<1>2. \A q \in 0..255 : q \div 256 = 0 /\ q % 256 = q
  OBVIOUS
<1> QED
  BY <1>1, <1>2

LEMMA ZeroByte == 0 \div 256 = 0 /\ 0 % 256 = 0
OBVIOUS

\* How a function with a recursive definition unfolds.
LEMMA DigitsUnfold ==
  ASSUME NEW n, NEW rest,
         rest = [k \in 1..8 |-> IF k = 1 THEN n ELSE rest[k - 1] \div 256],
         NEW k \in 1..8
  PROVE  rest[k] = IF k = 1 THEN n ELSE rest[k - 1] \div 256
OBVIOUS

\* A sequence that begins like s and goes on like t.
LEMMA Concatenated ==
  ASSUME NEW S, NEW s \in Seq(S), NEW t \in Seq(S), NEW u \in Seq(S),
         Len(u) = Len(s) + Len(t),
         \A k \in 1..Len(u) : u[k] = IF k <= Len(s) THEN s[k] ELSE t[k - Len(s)]
  PROVE  s \o t = u
<1>1. /\ s \o t \in Seq(S) /\ Len(s \o t) = Len(s) + Len(t)
      /\ \A k \in 1..Len(s) + Len(t) :
           (s \o t)[k] = IF k <= Len(s) THEN s[k] ELSE t[k - Len(s)]
  BY ConcatProperties
<1>2. ASSUME NEW k \in 1..Len(u) PROVE u[k] = (s \o t)[k]
  BY <1>1
<1> QED
  BY <1>1, <1>2, SeqEqual

\* BN.toBuffer("le", 8) of a u16: two low bytes and six zeros.
LEMMA ToBufferOfU16 ==
  ASSUME NEW n \in Nat, n \div 256 <= 255
  PROVE  ToBuffer(n, 8) = [k \in 1..8 |-> IF k = 1 THEN n % 256
                                          ELSE IF k = 2 THEN n \div 256 ELSE 0]
<1> DEFINE Digits(r) == r = [k \in 1..8 |-> IF k = 1 THEN n ELSE r[k - 1] \div 256]
           w == [k \in 1..8 |-> IF k = 1 THEN n ELSE IF k = 2 THEN n \div 256 ELSE 0]
           rest == CHOOSE r : Digits(r)
<1>1. n \in Nat /\ n \div 256 \in Nat /\ (n \div 256) \div 256 = 0 /\ 0 \div 256 = 0
  BY HighByte, ZeroByte
<1>2. (n \div 256) % 256 = n \div 256 /\ 0 % 256 = 0
  BY HighByte, ZeroByte
<1>3. \E r : Digits(r)
  <2>1. ASSUME NEW k \in 1..8
        PROVE  w[k] = IF k = 1 THEN n ELSE w[k - 1] \div 256
    BY <1>1
  <2>2. w \in [1..8 -> Int]
    BY <1>1
  <2> HIDE DEF w
  <2>3. Digits(w)
    BY <2>1, <2>2
  <2> HIDE DEF Digits
  <2> QED
    BY <2>3
<1> HIDE DEF w
<1>4. Digits(rest)
  <2> HIDE DEF Digits
  <2> QED
    BY <1>3
<1>5. ToBuffer(n, 8) = [k \in 1..8 |-> rest[k] % 256]
  BY DEF ToBuffer
<1> HIDE DEF rest
<1>6. ASSUME NEW k \in 1..8
      PROVE  rest[k] = IF k = 1 THEN n ELSE rest[k - 1] \div 256
  <2>1. rest = [i \in 1..8 |-> IF i = 1 THEN n ELSE rest[i - 1] \div 256]
    BY <1>4
  <2> QED
    BY <2>1, DigitsUnfold
<1>7. /\ rest[1] = n /\ rest[2] = n \div 256 /\ rest[3] = 0 /\ rest[4] = 0
      /\ rest[5] = 0 /\ rest[6] = 0 /\ rest[7] = 0 /\ rest[8] = 0
  <2>1. rest[1] = n
    BY <1>6
  <2>2. rest[2] = n \div 256
    BY <1>6, <2>1
  <2>3. rest[3] = 0
    BY <1>1, <1>6, <2>2
  <2>4. rest[4] = 0 /\ rest[5] = 0 /\ rest[6] = 0
    BY <1>1, <1>6, <2>3
  <2>5. rest[7] = 0 /\ rest[8] = 0
    BY <1>1, <1>6, <2>4
  <2> QED
    BY <2>1, <2>2, <2>3, <2>4, <2>5
<1>8. ASSUME NEW k \in 1..8
      PROVE  rest[k] % 256 = IF k = 1 THEN n % 256
                             ELSE IF k = 2 THEN n \div 256 ELSE 0
  BY <1>2, <1>7
<1>9. [k \in 1..8 |-> rest[k] % 256]
        = [k \in 1..8 |-> IF k = 1 THEN n % 256 ELSE IF k = 2 THEN n \div 256 ELSE 0]
  BY <1>8
<1> HIDE DEF Digits
<1> QED
  BY <1>5, <1>9

\* The client (utils.ts, deriveBuyInAddress) and the program (the seeds in
\* purchase_shares.rs) give the buy-in of an index the same address.
LEMMA BuyInAddressesAgree ==
  ASSUME NEW address, NEW n \in Nat, n \div 256 <= 255
  PROVE  deriveBuyInAddress(address, n, PROGRAM_ID) = BuyInAddress(address, n)
<1> DEFINE low == <<n % 256, n \div 256>>
           zeros == [k \in 1..6 |-> 0]
           bytes == [k \in 1..8 |-> IF k = 1 THEN n % 256
                                    ELSE IF k = 2 THEN n \div 256 ELSE 0]
<1>1. /\ low \in Seq(Int) /\ Len(low) = 2
      /\ zeros \in Seq(Int) /\ Len(zeros) = 6
      /\ low[1] = n % 256 /\ low[2] = n \div 256
      /\ \A k \in 1..6 : zeros[k] = 0
  OBVIOUS
<1>2. U64LeBytes(n) = low \o zeros
  BY DEF U64LeBytes
<1>3. /\ bytes \in Seq(Int) /\ Len(bytes) = 8
      /\ \A k \in 1..8 : bytes[k] = IF k <= 2 THEN low[k] ELSE zeros[k - 2]
  <2>1. n % 256 \in Int /\ n \div 256 \in Int
    OBVIOUS
  <2>2. bytes \in [1..8 -> Int]
    BY <2>1
  <2> QED
    BY <2>2
<1> DEFINE S == Int
<1>4. low \in Seq(S) /\ zeros \in Seq(S) /\ bytes \in Seq(S)
  BY <1>1, <1>3
<1> HIDE DEF low, zeros, bytes, S
<1>5. low \o zeros = bytes
  <2>1. Len(bytes) = Len(low) + Len(zeros)
    BY <1>1, <1>3
  <2>2. ASSUME NEW k \in 1..Len(bytes)
        PROVE  bytes[k] = IF k <= Len(low) THEN low[k] ELSE zeros[k - Len(low)]
    BY <1>1, <1>3
  <2> QED
    BY <1>4, <2>1, <2>2, Concatenated
<1>6. U64LeBytes(n) = ToBuffer(n, 8)
  <2>1. ToBuffer(n, 8) = bytes
    BY ToBufferOfU16 DEF bytes
  <2> QED
    BY <1>2, <1>5, <2>1
<1> QED
  BY <1>6 DEF deriveBuyInAddress, BuyInAddress, FindProgramAddress

\* Likewise the accounts of an NFT's metadata (deriveMplMetadataAddress,
\* deriveMplMasterEditionAddress and the token metadata program).
LEMMA MetadataAddressesAgree ==
  ASSUME NEW mint
  PROVE  /\ deriveMplMetadataAddress(mint) = MetadataAddress(mint)
         /\ deriveMplMasterEditionAddress(mint) = MasterEditionAddress(mint)
<1> DEFINE T == {TOKEN_METADATA_PROGRAM_ID, "metadata", mint, "edition"}
           seeds == <<"metadata", TOKEN_METADATA_PROGRAM_ID, mint>>
           more == <<"metadata", TOKEN_METADATA_PROGRAM_ID, mint, "edition">>
           p == <<TOKEN_METADATA_PROGRAM_ID>>
           m == MetadataAddress(mint)
<1>1. /\ p \in Seq(T) /\ Len(p) = 1 /\ p[1] = TOKEN_METADATA_PROGRAM_ID
      /\ seeds \in Seq(T) /\ Len(seeds) = 3
      /\ more \in Seq(T) /\ Len(more) = 4
      /\ m \in Seq(T) /\ Len(m) = 4
  BY DEF MetadataAddress
<1>2. /\ m[1] = TOKEN_METADATA_PROGRAM_ID /\ m[2] = "metadata"
      /\ m[3] = TOKEN_METADATA_PROGRAM_ID /\ m[4] = mint
      /\ seeds[1] = "metadata" /\ seeds[2] = TOKEN_METADATA_PROGRAM_ID
      /\ seeds[3] = mint
      /\ more[1] = "metadata" /\ more[2] = TOKEN_METADATA_PROGRAM_ID
      /\ more[3] = mint /\ more[4] = "edition"
  BY DEF MetadataAddress
<1>3. /\ deriveMplMetadataAddress(mint) = p \o seeds
      /\ deriveMplMasterEditionAddress(mint) = p \o more
      /\ MasterEditionAddress(mint) = Append(m, "edition")
  BY DEF deriveMplMetadataAddress, deriveMplMasterEditionAddress,
         MasterEditionAddress, FindProgramAddress
<1>4. "edition" \in T
  OBVIOUS
<1> HIDE DEF p, seeds, more, m, T
<1>5. p \o seeds = m
  <2>1. Len(m) = Len(p) + Len(seeds)
    BY <1>1
  <2>2. ASSUME NEW k \in 1..Len(m)
        PROVE  m[k] = IF k <= Len(p) THEN p[k] ELSE seeds[k - Len(p)]
    BY <1>1, <1>2
  <2> QED
    BY <1>1, <2>1, <2>2, Concatenated
<1>6. /\ Append(m, "edition") \in Seq(T) /\ Len(Append(m, "edition")) = 5
      /\ \A k \in 1..Len(m) : Append(m, "edition")[k] = m[k]
      /\ Append(m, "edition")[Len(m) + 1] = "edition"
  <2>1. m \in Seq(T)
    BY <1>1
  <2>2. /\ Append(m, "edition") \in Seq(T)
        /\ Len(Append(m, "edition")) = Len(m) + 1
        /\ \A i \in 1..Len(m) : Append(m, "edition")[i] = m[i]
        /\ Append(m, "edition")[Len(m) + 1] = "edition"
    BY <2>1, <1>4, AppendProperties
  <2> QED
    BY <1>1, <2>2
<1>7. p \o more = Append(m, "edition")
  <2>1. Len(Append(m, "edition")) = Len(p) + Len(more)
    BY <1>1, <1>6
  <2>2. ASSUME NEW k \in 1..Len(Append(m, "edition"))
        PROVE  Append(m, "edition")[k] = IF k <= Len(p) THEN p[k] ELSE more[k - Len(p)]
    BY <1>1, <1>2, <1>6
  <2> QED
    BY <1>1, <1>6, <2>1, <2>2, Concatenated
<1> QED
  BY <1>3, <1>5, <1>7 DEF m

\* What fits a width, so does everything below it.
LEMMA SmallerHighByte ==
  ASSUME NEW n \in Nat, NEW m \in Nat, n <= m, m \div 256 <= 255
  PROVE  n \div 256 <= 255
OBVIOUS

-----------------------------------------------------------------------------
(* Nothing but contention stops a purchase *)

\* The token account a purchase is paid from.
PaidFrom(order) == AssociatedAddress(PaymentMint, Payer(order))

\* The transaction of a purchase, prepared when `seen` purchases had been made:
\* every account is the one the program will ask for, the buy-in's address as
\* long as no other purchase takes its number.
Prepared(t, key, address) ==
  LET keys == t.instruction.keys  r == t.request IN
    /\ r \in Orders /\ t.seen \in Nat
    /\ t.instruction.signer \subseteq t.signers
    /\ t.instruction.signer = {r.wallet, key}
    /\ t.instruction.data[1] = r.shares /\ t.instruction.data[2] = r.beneficiary
    /\ Len(keys) = 15
    /\ keys[1] = r.wallet /\ keys[2] = PaidFrom(r) /\ keys[3] = address
    /\ t.seen + 1 <= U16Max => keys[4] = BuyInAddress(address, t.seen + 1)
    /\ keys[5] = AssociatedAddress(PaymentMint, address)
    /\ keys[6] = key /\ keys[7] = MetadataAddress(key)
    /\ keys[8] = MasterEditionAddress(key) /\ keys[9] = r.beneficiary
    /\ keys[10] = AssociatedAddress(key, r.beneficiary)
    /\ keys[11] = TOKEN_METADATA_PROGRAM_ID
    /\ keys[12] = ASSOCIATED_TOKEN_PROGRAM_ID
    /\ keys[13] = SystemProgram /\ keys[14] = TokenProgram /\ keys[15] = Rent
    /\ \A k \in {1, 2, 3, 4, 5, 6, 7, 8, 10} : keys[k] \in t.instruction.writable

PurchasesPrepared ==
  \A n \in DOMAIN call : IsPurchase(n) =>
    offering_address # None /\ Prepared(call[n], Keypair[n], offering_address)

LEMMA OrderPrepared ==
  ASSUME NEW t, NEW key, NEW order \in Orders, offering.buy_ins \in Nat,
         t.request = order, t.seen = offering.buy_ins,
         t.signers = {order.wallet} \cup {key},
         t.instruction =
           buyShares(order, TokenAccount(order, fetchOffering), key,
                     NextIndex(fetchOffering), fetchOffering.paymentsTokenAccount)
  PROVE  Prepared(t, key, offering_address)
<1> DEFINE seen == offering.buy_ins
           from == TokenAccount(order, fetchOffering)
           to == fetchOffering.paymentsTokenAccount
           index == NextIndex(fetchOffering)
           built == buyShares(order, from, key, index, to)
<1>1. index = seen + 1 /\ to = AssociatedAddress(PaymentMint, offering_address)
  BY OfferingDecoded DEF NextIndex
<1>2. from = PaidFrom(order)
  BY OfferingDecoded DEF TokenAccount, PaidFrom
<1>3. ASSUME seen + 1 <= U16Max
      PROVE  deriveBuyInAddress(offering_address, index, PROGRAM_ID)
               = BuyInAddress(offering_address, seen + 1)
  <2>1. index \in Nat /\ index \div 256 <= 255
    BY <1>1, <1>3, SmallerHighByte, SaleAssumption DEF SaleAssumption
  <2> QED
    BY <1>1, <2>1, BuyInAddressesAgree
<1>4. t.instruction = built
  OBVIOUS
<1> HIDE DEF from, to, index, built
<1>5. /\ built.data[1] = order.shares /\ built.data[2] = order.beneficiary
      /\ Len(built.keys) = 15
      /\ built.keys[1] = order.wallet /\ built.keys[2] = from
      /\ built.keys[3] = offering_address
      /\ built.keys[4] = deriveBuyInAddress(offering_address, index, PROGRAM_ID)
      /\ built.keys[5] = to /\ built.keys[6] = key
      /\ built.keys[7] = deriveMplMetadataAddress(key)
      /\ built.keys[8] = deriveMplMasterEditionAddress(key)
      /\ built.keys[9] = order.beneficiary
      /\ built.keys[10] = AssociatedAddress(key, order.beneficiary)
      /\ built.keys[11] = TOKEN_METADATA_PROGRAM_ID
      /\ built.keys[12] = ASSOCIATED_TOKEN_PROGRAM_ID
      /\ built.keys[13] = SystemProgram /\ built.keys[14] = TokenProgram
      /\ built.keys[15] = Rent
      /\ \A k \in {1, 2, 3, 4, 5, 6, 7, 8, 10} : built.keys[k] \in built.writable
      /\ built.signer = {order.wallet, key}
  BY OrderBuilt DEF built
<1>6. /\ built.keys[2] = PaidFrom(order)
      /\ seen + 1 <= U16Max => built.keys[4] = BuyInAddress(offering_address, seen + 1)
      /\ built.keys[5] = AssociatedAddress(PaymentMint, offering_address)
      /\ built.keys[7] = MetadataAddress(key)
      /\ built.keys[8] = MasterEditionAddress(key)
  BY <1>1, <1>2, <1>3, <1>5, MetadataAddressesAgree
<1>7. built.signer \subseteq t.signers
  BY <1>5
<1> QED
  BY <1>4, <1>5, <1>6, <1>7, Zenon DEF Prepared

\* Nothing else of a call matters to what it prepared.
LEMMA PreparedSame ==
  ASSUME NEW s, NEW t, NEW key, NEW address, Prepared(s, key, address),
         t.instruction = s.instruction, t.request = s.request,
         t.seen = s.seen, t.signers = s.signers
  PROVE  Prepared(t, key, address)
BY Zenon DEF Prepared

\* A step that keeps the address of the offering and prepares what it adds.
LEMMA PreparedUnlessListed ==
  ASSUME \A n \in DOMAIN call' : call'[n].method = "purchaseShares" =>
           offering_address' # None /\ Prepared(call'[n], Keypair[n], offering_address')
  PROVE  PurchasesPrepared'
BY Zenon DEF PurchasesPrepared, IsPurchase, Prepared, PaidFrom, Payer, AssociatedAddress,
       BuyInAddress, MetadataAddress, MasterEditionAddress, FindProgramAddress,
       U64LeBytes

\* The call n at least is as it was, or prepared now.
SameOrPrepared(n) ==
  \/ /\ n \in DOMAIN call
     /\ call'[n].method = call[n].method /\ call'[n].request = call[n].request
     /\ call'[n].instruction = call[n].instruction
     /\ call'[n].signers = call[n].signers /\ call'[n].seen = call[n].seen
  \/ call'[n].method # "purchaseShares"
  \/ offering_address # None /\ Prepared(call'[n], Keypair[n], offering_address)

LEMMA PreparedUnlessListing ==
  ASSUME PurchasesPrepared, offering_address' = offering_address,
         \A n \in DOMAIN call' : SameOrPrepared(n)
  PROVE  PurchasesPrepared'
<1> SUFFICES ASSUME NEW n \in DOMAIN call', call'[n].method = "purchaseShares"
             PROVE  /\ offering_address' # None
                    /\ Prepared(call'[n], Keypair[n], offering_address')
  BY PreparedUnlessListed
<1>1. offering_address # None /\ Prepared(call'[n], Keypair[n], offering_address)
  <2>1. CASE /\ n \in DOMAIN call
             /\ call'[n].method = call[n].method /\ call'[n].request = call[n].request
             /\ call'[n].instruction = call[n].instruction
             /\ call'[n].signers = call[n].signers /\ call'[n].seen = call[n].seen
    <3>1. offering_address # None /\ Prepared(call[n], Keypair[n], offering_address)
      BY <2>1 DEF PurchasesPrepared, IsPurchase
    <3> QED
      BY <2>1, <3>1, PreparedSame
  <2> QED
    BY <2>1 DEF SameOrPrepared
<1> QED
  BY <1>1

LEMMA CallsKeepPrepared ==
  ASSUME ClientInv, PurchasesPrepared, Calls
  PROVE  PurchasesPrepared'
<1>1. PICK n : n = Len(call) + 1
  OBVIOUS
<1>2. CallsTyped
  BY DEF ClientInv
<1>3. ASSUME NEW method, NEW request, NEW instruction, NEW signers, NEW returns,
             NEW seen, Begin(method, request, instruction, signers, returns, seen),
             method = "purchaseShares" =>
               /\ offering_address # None
               /\ \A t : /\ t.request = request /\ t.instruction = instruction
                         /\ t.signers = {request.wallet} \cup signers
                         /\ t.seen = seen
                         => Prepared(t, Keypair[n], offering_address)
      PROVE  PurchasesPrepared'
  <2>1. /\ DOMAIN call' = DOMAIN call \cup {n}
        /\ \A k \in DOMAIN call : call'[k] = call[k]
        /\ call'[n].method = method /\ call'[n].request = request
        /\ call'[n].instruction = instruction
        /\ call'[n].signers = {request.wallet} \cup signers
        /\ call'[n].seen = seen
    BY <1>1, <1>2, <1>3, BeginStep, ZenonT(60)
  <2>2. offering_address' = offering_address
    BY <1>3 DEF Begin
  <2>3. call'[n].method = "purchaseShares" =>
          offering_address # None /\ Prepared(call'[n], Keypair[n], offering_address)
    BY <1>3, <2>1
  <2>4. \A k \in DOMAIN call' : SameOrPrepared(k)
    BY <2>1, <2>3 DEF SameOrPrepared
  <2> QED
    BY <2>2, <2>4, PreparedUnlessListing
<1>4. ASSUME NEW order \in Orders, PurchaseShares(order) PROVE PurchasesPrepared'
  <2> DEFINE built == buyShares(order, TokenAccount(order, fetchOffering), Keypair[n],
                        NextIndex(fetchOffering), fetchOffering.paymentsTokenAccount)
             returns ==
               [nftMint |-> Keypair[n],
                buyIn |-> deriveBuyInAddress(offering_address,
                            NextIndex(fetchOffering), PROGRAM_ID),
                mintedNftTo |-> AssociatedAddress(Keypair[n], order.beneficiary)]
  <2>1. /\ Begin("purchaseShares", order, built, {Keypair[n]}, returns, offering.buy_ins)
        /\ offering_address # None
    BY <1>1, <1>4 DEF PurchaseShares, FreshKeypair
  <2>2. offering.buy_ins \in Nat
    BY <2>1 DEF ClientInv, Listing
  <2>3. ASSUME NEW t, t.request = order, t.instruction = built,
               t.signers = {order.wallet} \cup {Keypair[n]}, t.seen = offering.buy_ins
        PROVE  Prepared(t, Keypair[n], offering_address)
    BY <2>2, <2>3, OrderPrepared
  <2> HIDE DEF built, returns
  <2> QED
    BY <1>3, <2>1, <2>3
<1>5. ASSUME NEW offer \in Offers, InitializeOffering(offer) PROVE PurchasesPrepared'
  BY <1>3, <1>5 DEF InitializeOffering
<1>6. ASSUME NEW edit \in Edits, UpdateOffering(edit) PROVE PurchasesPrepared'
  BY <1>3, <1>6 DEF UpdateOffering
<1> QED
  BY <1>4, <1>5, <1>6 DEF Calls

LEMMA StatusKeepsPrepared ==
  ASSUME ClientInv, PurchasesPrepared, NEW n \in DOMAIN call, NEW chain, NEW promise,
         Becomes(n, chain, promise), offering_address' = offering_address
  PROVE  PurchasesPrepared'
<1>1. CallsTyped
  BY DEF ClientInv
<1>2. /\ DOMAIN call' = DOMAIN call
      /\ \A k \in DOMAIN call :
           /\ call'[k].method = call[k].method
           /\ call'[k].request = call[k].request
           /\ call'[k].instruction = call[k].instruction
           /\ call'[k].signers = call[k].signers
           /\ call'[k].seen = call[k].seen
  BY <1>1, BecomesStep, Zenon
<1>3. \A k \in DOMAIN call' : SameOrPrepared(k)
  BY <1>2 DEF SameOrPrepared
<1> QED
  BY <1>3, PreparedUnlessListing

LEMMA PreparedStep == ClientInv /\ PurchasesPrepared /\ [Next]_vars => PurchasesPrepared'
<1> SUFFICES ASSUME ClientInv, PurchasesPrepared, [Next]_vars PROVE PurchasesPrepared'
  OBVIOUS
<1>1. ASSUME NEW n \in DOMAIN call, Land(n) PROVE PurchasesPrepared'
  <2>1. Lands(n) /\ Becomes(n, "landed", call[n].promise)
    BY <1>1, LandStep DEF Land
  <2>2. CASE offering_address' = offering_address
    BY <2>1, <2>2, StatusKeepsPrepared
  <2>3. CASE state = "Uninitialized"
    <3>1. offering_address = None
      BY <2>3 DEF ClientInv
    <3>2. \A k \in DOMAIN call : call[k].method # "purchaseShares"
      BY <3>1 DEF PurchasesPrepared, IsPurchase
    <3>3. CallsTyped
      BY DEF ClientInv
    <3>4. /\ DOMAIN call' = DOMAIN call
          /\ \A k \in DOMAIN call : call'[k].method = call[k].method
      BY <2>1, <3>3, BecomesStep, Zenon
    <3> QED
      BY <3>2, <3>4, PreparedUnlessListed
  <2> QED
    BY <2>1, <2>2, <2>3 DEF Lands, Sale!InitNewOffering
<1>2. ASSUME NEW n \in DOMAIN call,
             Send(n) \/ Fail(n) \/ Drop(n) \/ Confirm(n) \/ Timeout(n)
      PROVE  PurchasesPrepared'
  <2>1. \E chain, promise : Becomes(n, chain, promise)
    BY <1>2 DEF Send, Fail, Drop, Confirm, Timeout
  <2>2. offering_address' = offering_address
    BY <1>2 DEF Send, Fail, Drop, Confirm, Timeout
  <2> QED
    BY <2>1, <2>2, StatusKeepsPrepared
<1>3. CASE UNCHANGED vars
  BY <1>3, PreparedUnlessListed DEF vars, PurchasesPrepared, IsPurchase
<1> QED
  BY <1>1, <1>2, <1>3, CallsKeepPrepared DEF Next, Cluster, Provider

LEMMA PreparedInvariant == Spec => []PurchasesPrepared
<1>1. Init => PurchasesPrepared
  BY DEF Init, PurchasesPrepared
<1> QED
  BY <1>1, PreparedStep, ClientInvariant, PTL DEF Spec

\* The mint of a purchase that has not landed is new to the cluster.
LEMMA MintStillNew ==
  ASSUME ClientInv, WorkInv, Books!BuyInsOwnTheirNfts,
         NEW n \in DOMAIN call, call[n].chain # "landed"
  PROVE  Keypair[n] \notin DOMAIN nft
<1> SUFFICES ASSUME Keypair[n] \in DOMAIN nft PROVE FALSE
  OBVIOUS
<1>1. PICK i \in DOMAIN buy_in : buy_in[i].token_mint = Keypair[n]
  BY DEF Books!BuyInsOwnTheirNfts
<1>2. PICK k \in DOMAIN call : call[k].chain = "landed" /\ Keypair[k] = Keypair[n]
  BY <1>1 DEF WorkInv
<1>3. k \in 1..MaxCalls /\ n \in 1..MaxCalls
  BY CallsAssumption DEF ClientInv, CallsTyped, CallsAssumption
<1>4. k = n
  BY <1>2, <1>3, CallsAssumption DEF CallsAssumption
<1> QED
  BY <1>2, <1>4

\* The accounts of a prepared purchase are the ones the program asks for.
LEMMA PreparedIsWellFormed ==
  ASSUME NEW t, NEW key, NEW address, Prepared(t, key, address)
  PROVE  WellFormed(t, PurchaseSharesAccounts)
<1> DEFINE declared == PurchaseSharesAccounts.accounts
           keys == t.instruction.keys
           a == Bound(declared, keys)
<1>1. /\ a.buyer = keys[1] /\ a.buyer_token_account = keys[2]
      /\ a.offering = keys[3] /\ a.buy_in = keys[4]
      /\ a.payments_token_account = keys[5] /\ a.nft_mint = keys[6]
      /\ a.nft_metadata = keys[7] /\ a.nft_master_edition = keys[8]
      /\ a.beneficiary_token_account = keys[10]
  BY PurchaseAccountsInPlace
<1>2. /\ a["buyer"] = keys[1] /\ a["buyer_token_account"] = keys[2]
      /\ a["offering"] = keys[3] /\ a["buy_in"] = keys[4]
      /\ a["payments_token_account"] = keys[5] /\ a["nft_mint"] = keys[6]
      /\ a["nft_metadata"] = keys[7] /\ a["nft_master_edition"] = keys[8]
      /\ a["beneficiary_token_account"] = keys[10]
  BY <1>1
<1>3. Len(declared) = 15
  BY DEF PurchaseSharesAccounts
<1>4. /\ PurchaseSharesAccounts.mut =
           {"buyer", "buyer_token_account", "offering", "buy_in",
            "payments_token_account", "nft_mint", "nft_metadata",
            "nft_master_edition", "beneficiary_token_account"}
      /\ PurchaseSharesAccounts.signer = {"buyer", "nft_mint"}
  BY DEF PurchaseSharesAccounts
<1> HIDE DEF a, declared, keys
<1>5. /\ t.instruction.signer \subseteq t.signers
      /\ keys[1] \in t.instruction.signer /\ keys[6] \in t.instruction.signer
      /\ Len(keys) = 15
      /\ \A k \in {1, 2, 3, 4, 5, 6, 7, 8, 10} : keys[k] \in t.instruction.writable
  BY DEF Prepared, keys
<1>6. Binds(declared, keys)
  BY <1>3, <1>5 DEF Binds
<1>7. \A name \in PurchaseSharesAccounts.mut : a[name] \in t.instruction.writable
  BY <1>2, <1>4, <1>5
<1>8. \A name \in PurchaseSharesAccounts.signer : a[name] \in t.instruction.signer
  BY <1>2, <1>4, <1>5
<1> QED
  BY <1>5, <1>6, <1>7, <1>8 DEF WellFormed, a, declared, keys

\* What stops a prepared purchase is the sale, or another purchase.
LEMMA PreparedIsAccepted ==
  ASSUME ClientInv, NEW t, NEW key, Prepared(t, key, offering_address),
         key \notin DOMAIN nft,
         Payer(t.request) \in MaySpend[t.request.wallet],
         Purchasable(Payer(t.request), t.request.shares),
         offering.buy_ins = t.seen, Sale!MetadataAccepted(offering.buy_ins + 1)
  PROVE  PurchaseAccepted(t)
<1> DEFINE keys == t.instruction.keys
           a == Bound(PurchaseSharesAccounts.accounts, keys)
           args == PurchaseArguments(t)
           r == t.request
<1>1. /\ a.buyer = keys[1] /\ a.buyer_token_account = keys[2]
      /\ a.offering = keys[3] /\ a.buy_in = keys[4]
      /\ a.payments_token_account = keys[5] /\ a.nft_mint = keys[6]
      /\ a.nft_metadata = keys[7] /\ a.nft_master_edition = keys[8]
      /\ a.beneficiary_account = keys[9] /\ a.beneficiary_token_account = keys[10]
      /\ a.token_metadata_program = keys[11]
      /\ a.associated_token_program = keys[12]
      /\ a.system_program = keys[13] /\ a.token_program = keys[14]
      /\ a.rent = keys[15]
  BY PurchaseAccountsInPlace
<1>2. WellFormed(t, PurchaseSharesAccounts)
  BY PreparedIsWellFormed
<1>3. /\ keys[1] = r.wallet /\ keys[2] = PaidFrom(r) /\ keys[3] = offering_address
      /\ offering.buy_ins + 1 <= U16Max =>
           keys[4] = BuyInAddress(offering_address, offering.buy_ins + 1)
      /\ keys[5] = AssociatedAddress(PaymentMint, offering_address)
      /\ keys[6] = key /\ keys[7] = MetadataAddress(key)
      /\ keys[8] = MasterEditionAddress(key) /\ keys[9] = r.beneficiary
      /\ keys[10] = AssociatedAddress(key, r.beneficiary)
      /\ keys[11] = TOKEN_METADATA_PROGRAM_ID
      /\ keys[12] = ASSOCIATED_TOKEN_PROGRAM_ID
      /\ keys[13] = SystemProgram /\ keys[14] = TokenProgram /\ keys[15] = Rent
      /\ t.instruction.data[1] = r.shares /\ t.instruction.data[2] = r.beneficiary
  BY Zenon DEF Prepared
<1>4. /\ PaidFrom(r) = AssociatedAddress(PaymentMint, Payer(r))
      /\ Payer(r) \in Wallets
  <2>1. r.wallet \in Wallets
    BY CallsAssumption DEF Prepared, CallsAssumption, Order
  <2> QED
    BY <2>1, CallsAssumption DEF PaidFrom, CallsAssumption
<1>5. offering.buy_ins + 1 <= U16Max
  BY DEF Purchasable, Sale!IsNewBuyIn
<1>6. args.shares = r.shares /\ args.beneficiary = r.beneficiary
  BY <1>3, PurchaseBinds
<1> HIDE DEF a, keys, args, r
<1>7. /\ a.offering = offering_address
      /\ a.buy_in = BuyInAddress(a.offering, offering.buy_ins + 1)
      /\ a.payments_token_account = AssociatedAddress(PaymentMint, a.offering)
      /\ a.nft_mint \notin DOMAIN nft
      /\ a.nft_metadata = MetadataAddress(a.nft_mint)
      /\ a.nft_master_edition = MasterEditionAddress(a.nft_mint)
      /\ a.beneficiary_account = args.beneficiary
      /\ a.beneficiary_token_account =
           AssociatedAddress(a.nft_mint, a.beneficiary_account)
      /\ a.token_metadata_program = TOKEN_METADATA_PROGRAM_ID
      /\ a.rent = Rent
  BY <1>1, <1>3, <1>4, <1>5, <1>6
<1>8. ProgramsPassed(a)
  BY <1>1, <1>3 DEF ProgramsPassed
<1>9. PaysFrom(a, Payer(r)) /\ Purchasable(Payer(r), args.shares)
  BY <1>1, <1>3, <1>4, <1>6 DEF r, PaysFrom
<1> QED
  BY <1>2, <1>4, <1>7, <1>8, <1>9 DEF PurchaseAccepted, a, keys, args

\* Whatever a client prepares is right (instructions.ts, purchaseShares): a
\* purchase that the sale would take is refused or fails only if another one
\* landed after its index was read, or the texts have no room for a number.
THEOREM OnlyContentionEverFails == Spec => OnlyContentionFails
<1> DEFINE Stopped(n) ==
      /\ IsPurchase(n)
      /\ call[n].chain # call'[n].chain
      /\ call'[n].chain \in {"refused", "failed"}
      /\ Payer(call[n].request) \in MaySpend[call[n].request.wallet]
      /\ Purchasable(Payer(call[n].request), call[n].request.shares)
           Contended ==
             \A n \in DOMAIN call : Stopped(n) =>
               \/ offering.buy_ins # call[n].seen
               \/ ~ Sale!MetadataAccepted(offering.buy_ins + 1)
<1>1. ClientInv /\ WorkInv /\ PurchasesPrepared /\ Books!BuyInsOwnTheirNfts
        /\ [Next]_vars => [Contended]_vars
  <2> SUFFICES ASSUME ClientInv, WorkInv, PurchasesPrepared, Books!BuyInsOwnTheirNfts,
                      Next, NEW n \in DOMAIN call, Stopped(n),
                      offering.buy_ins = call[n].seen,
                      Sale!MetadataAccepted(offering.buy_ins + 1)
               PROVE  FALSE
    OBVIOUS
  <2>1. CallsTyped
    BY DEF ClientInv
  <2>2. ASSUME call[n].chain # "landed" PROVE Accepted(call[n])
    <3>1. Keypair[n] \notin DOMAIN nft
      BY <2>2, MintStillNew
    <3>2. Prepared(call[n], Keypair[n], offering_address)
      BY DEF PurchasesPrepared
    <3>3. PurchaseAccepted(call[n])
      BY <3>1, <3>2, PreparedIsAccepted
    <3> QED
      BY <3>3 DEF Accepted, IsPurchase
  <2>3. ASSUME NEW k \in DOMAIN call, NEW chain, NEW promise, Becomes(k, chain, promise),
               k = n => chain \notin {"refused", "failed"} \/ chain = call[n].chain
        PROVE  FALSE
    <3>1. /\ \A j \in DOMAIN call : j # k => call'[j] = call[j]
          /\ call'[k].chain = chain
      BY <2>1, <2>3, BecomesStep, Zenon
    <3> QED
      BY <2>3, <3>1
  <2>4. ASSUME NEW k \in DOMAIN call, Send(k) PROVE FALSE
    <3>1. k = n => Becomes(k, "sent", "pending")
      BY <2>2, <2>4 DEF Send
    <3>2. k # n => \E chain, promise : Becomes(k, chain, promise)
      BY <2>4 DEF Send
    <3> QED
      BY <2>3, <3>1, <3>2
  <2>5. ASSUME NEW k \in DOMAIN call, Fail(k) PROVE FALSE
    <3>1. k # n
      BY <2>2, <2>5 DEF Fail
    <3> QED
      BY <2>3, <2>5, <3>1 DEF Fail
  <2>6. ASSUME NEW k \in DOMAIN call, Land(k) \/ Drop(k) PROVE FALSE
    BY <2>3, <2>6 DEF Land, Drop
  <2>7. ASSUME NEW k \in DOMAIN call, Confirm(k) \/ Timeout(k) PROVE FALSE
    BY <2>3, <2>7 DEF Confirm, Timeout
  <2>8. CASE Calls
    <3>1. ASSUME NEW method, NEW request, NEW instruction, NEW signers,
                 NEW returns, NEW seen,
                 Begin(method, request, instruction, signers, returns, seen)
          PROVE  FALSE
      <4>1. PICK k : k = Len(call) + 1
        OBVIOUS
      <4>2. call'[n] = call[n]
        BY <2>1, <3>1, <4>1, BeginStep, ZenonT(60)
      <4> QED
        BY <4>2
    <3> QED
      BY <2>8, <3>1 DEF Calls, InitializeOffering, UpdateOffering, PurchaseShares
  <2> QED
    BY <2>4, <2>5, <2>6, <2>7, <2>8 DEF Next, Cluster, Provider
<1> QED
  BY <1>1, ClientInvariant, WorkInvariant, PreparedInvariant, SalePromisesHold, PTL
     DEF Spec, OnlyContentionFails
=============================================================================
