------------------------- MODULE PendulumClientProofs -------------------------
(* Proofs about PendulumClient, for every value of its constants: whatever the *)
(* clients ask for, and however their transactions race, fail or get lost, the *)
(* program's accounts go through a behaviour of Offering, so that everything   *)
(* proved of Offering holds behind the client, and each call buys once.        *)
EXTENDS PendulumClient, SequenceTheorems, TLAPS

\* Offering once more, with what is proved of it.
Books == INSTANCE OfferingTokenProofs

\* The constants are as Offering asks.
LEMMA BooksConstants ==
  /\ Books!WidthsAssumption /\ Books!InputsAssumption
  /\ Books!WalletsAssumption /\ Books!NoAccountAssumption
<1>1. NoAccount \notin Books!OfferingAccount
  BY SaleAssumption DEF SaleAssumption, Sale!OfferingAccount, Books!OfferingAccount
<1>2. IsFiniteSet(Wallets) => Books!IsFiniteSet(Wallets)
  BY DEF IsFiniteSet, Books!IsFiniteSet
<1>3. U64Max \in Nat
  BY SaleAssumption DEF SaleAssumption
<1> QED
  BY <1>1, <1>2, <1>3, SaleAssumption DEF SaleAssumption, Books!WidthsAssumption,
     Books!InputsAssumption, Books!WalletsAssumption, Books!NoAccountAssumption

-----------------------------------------------------------------------------
(* Helpers of the model *)

\* The arguments and accounts of the handlers that the proofs follow: a name is
\* bound to what was passed at its place in the declaration.
LEMMA InitBinds ==
  ASSUME NEW t
  PROVE  /\ InitArguments(t).authority = t.instruction.data[1]
         /\ InitArguments(t).initial_shares = t.instruction.data[2]
         /\ InitArguments(t).price_per_share = t.instruction.data[3]
         /\ InitArguments(t).title = t.instruction.data[4]
         /\ InitArguments(t).symbol = t.instruction.data[5]
         /\ InitArguments(t).nft_uri = t.instruction.data[6]
         /\ Bound(InitOfferingAccounts.accounts, t.instruction.keys).offering
              = t.instruction.keys[2]
<1>1. /\ InitArguments(t).authority = t.instruction.data[1]
      /\ InitArguments(t).initial_shares = t.instruction.data[2]
      /\ InitArguments(t).price_per_share = t.instruction.data[3]
  BY DEF InitArguments, InitParameters, Bound
<1>2. /\ InitArguments(t).title = t.instruction.data[4]
      /\ InitArguments(t).symbol = t.instruction.data[5]
      /\ InitArguments(t).nft_uri = t.instruction.data[6]
  BY DEF InitArguments, InitParameters, Bound
<1>3. Bound(InitOfferingAccounts.accounts, t.instruction.keys).offering
        = t.instruction.keys[2]
  BY DEF InitOfferingAccounts, Bound
<1> QED
  BY <1>1, <1>2, <1>3

LEMMA UpdateBinds ==
  ASSUME NEW t
  PROVE  /\ UpdateArguments(t).new_title = t.instruction.data[1]
         /\ UpdateArguments(t).new_symbol = t.instruction.data[2]
         /\ UpdateArguments(t).new_nft_uri = t.instruction.data[3]
         /\ Bound(UpdateOfferingAccounts.accounts, t.instruction.keys).authority
              = t.instruction.keys[1]
<1>1. /\ UpdateArguments(t).new_title = t.instruction.data[1]
      /\ UpdateArguments(t).new_symbol = t.instruction.data[2]
      /\ UpdateArguments(t).new_nft_uri = t.instruction.data[3]
  BY DEF UpdateArguments, UpdateParameters, Bound
<1>2. Bound(UpdateOfferingAccounts.accounts, t.instruction.keys).authority
        = t.instruction.keys[1]
  BY DEF UpdateOfferingAccounts, Bound
<1> QED
  BY <1>1, <1>2

\* A name is bound to what was passed at its place, if it has one place only.
LEMMA BoundByPosition ==
  ASSUME NEW declared, NEW keys, NEW k \in 1..Len(declared),
         \A j \in 1..Len(declared) : declared[j] = declared[k] => j = k
  PROVE  Bound(declared, keys)[declared[k]] = keys[k]
<1>1. (CHOOSE j \in 1..Len(declared) : declared[j] = declared[k]) = k
  OBVIOUS
<1> QED
  BY <1>1 DEF Bound

\* Every account of a purchase has its name at one place of the declaration.
LEMMA PurchaseAccountsInPlace ==
  ASSUME NEW keys
  PROVE  LET a == Bound(PurchaseSharesAccounts.accounts, keys) IN
         /\ a.buyer = keys[1] /\ a.buyer_token_account = keys[2]
         /\ a.offering = keys[3] /\ a.buy_in = keys[4]
         /\ a.payments_token_account = keys[5] /\ a.nft_mint = keys[6]
         /\ a.nft_metadata = keys[7] /\ a.nft_master_edition = keys[8]
         /\ a.beneficiary_account = keys[9] /\ a.beneficiary_token_account = keys[10]
         /\ a.token_metadata_program = keys[11]
         /\ a.associated_token_program = keys[12]
         /\ a.system_program = keys[13] /\ a.token_program = keys[14]
         /\ a.rent = keys[15]
<1> DEFINE declared == PurchaseSharesAccounts.accounts
           a == Bound(declared, keys)
<1>1. /\ Len(declared) = 15
      /\ declared[1] = "buyer" /\ declared[2] = "buyer_token_account"
      /\ declared[3] = "offering" /\ declared[4] = "buy_in"
      /\ declared[5] = "payments_token_account" /\ declared[6] = "nft_mint"
      /\ declared[7] = "nft_metadata" /\ declared[8] = "nft_master_edition"
      /\ declared[9] = "beneficiary_account"
      /\ declared[10] = "beneficiary_token_account"
      /\ declared[11] = "token_metadata_program"
      /\ declared[12] = "associated_token_program"
      /\ declared[13] = "system_program" /\ declared[14] = "token_program"
      /\ declared[15] = "rent"
  BY DEF PurchaseSharesAccounts
<1> HIDE DEF declared
<1>2. \A j, k \in 1..Len(declared) : declared[j] = declared[k] => j = k
  BY <1>1
<1>3. ASSUME NEW k \in 1..15 PROVE a[declared[k]] = keys[k]
  <2>1. k \in 1..Len(declared)
    BY <1>1
  <2>2. \A j \in 1..Len(declared) : declared[j] = declared[k] => j = k
    BY <1>2, <2>1
  <2> QED
    BY <2>1, <2>2, BoundByPosition
<1> HIDE DEF a
<1>4. /\ a["buyer"] = keys[1] /\ a["buyer_token_account"] = keys[2]
      /\ a["offering"] = keys[3] /\ a["buy_in"] = keys[4]
      /\ a["payments_token_account"] = keys[5] /\ a["nft_mint"] = keys[6]
      /\ a["nft_metadata"] = keys[7] /\ a["nft_master_edition"] = keys[8]
  BY <1>1, <1>3
<1>5. /\ a["beneficiary_account"] = keys[9]
      /\ a["beneficiary_token_account"] = keys[10]
      /\ a["token_metadata_program"] = keys[11]
      /\ a["associated_token_program"] = keys[12]
      /\ a["system_program"] = keys[13] /\ a["token_program"] = keys[14]
      /\ a["rent"] = keys[15]
  BY <1>1, <1>3
<1> QED
  BY <1>4, <1>5 DEF a, declared

LEMMA PurchaseBinds ==
  ASSUME NEW t
  PROVE  LET a == Bound(PurchaseSharesAccounts.accounts, t.instruction.keys) IN
         /\ PurchaseArguments(t).shares = t.instruction.data[1]
         /\ PurchaseArguments(t).beneficiary = t.instruction.data[2]
         /\ a.buyer = t.instruction.keys[1]
         /\ a.buy_in = t.instruction.keys[4]
         /\ a.nft_mint = t.instruction.keys[6]
<1>1. /\ PurchaseArguments(t).shares = t.instruction.data[1]
      /\ PurchaseArguments(t).beneficiary = t.instruction.data[2]
  BY DEF PurchaseArguments, PurchaseParameters, Bound
<1> QED
  BY <1>1, PurchaseAccountsInPlace

\* What the builders put at the places the program reads.
LEMMA OfferBuilt ==
  ASSUME NEW offer, NEW newOffering
  PROVE  LET built == initializeOffering(offer, newOffering) IN
         /\ built.data[1] = offer.authority
         /\ built.data[2] = offer.initial_shares
         /\ built.data[3] = offer.price
         /\ built.data[4] = offer.title
         /\ built.data[5] = offer.symbol
         /\ built.data[6] = offer.uri
         /\ built.keys[2] = newOffering
BY DEF initializeOffering, Instruction, initNewOffering

LEMMA EditBuilt ==
  ASSUME NEW edit
  PROVE  LET built == editOffering(edit) IN
         /\ built.data[1] = edit.title
         /\ built.data[2] = edit.symbol
         /\ built.data[3] = edit.uri
         /\ built.keys[1] = edit.wallet
BY DEF editOffering, Instruction, updateOffering

\* Everything buyShares hands over, in the program's order; what the program
\* wants to write to is writable, and the ones to sign are marked.
LEMMA OrderBuilt ==
  ASSUME NEW order, NEW from, NEW mint, NEW index, NEW to
  PROVE  LET built == buyShares(order, from, mint, index, to)
             keys == built.keys IN
         /\ built.data[1] = order.shares /\ built.data[2] = order.beneficiary
         /\ Len(keys) = 15
         /\ keys[1] = order.wallet /\ keys[2] = from /\ keys[3] = offering_address
         /\ keys[4] = deriveBuyInAddress(offering_address, index, PROGRAM_ID)
         /\ keys[5] = to /\ keys[6] = mint
         /\ keys[7] = deriveMplMetadataAddress(mint)
         /\ keys[8] = deriveMplMasterEditionAddress(mint)
         /\ keys[9] = order.beneficiary
         /\ keys[10] = AssociatedAddress(mint, order.beneficiary)
         /\ keys[11] = TOKEN_METADATA_PROGRAM_ID
         /\ keys[12] = ASSOCIATED_TOKEN_PROGRAM_ID
         /\ keys[13] = SystemProgram /\ keys[14] = TokenProgram /\ keys[15] = Rent
         /\ \A k \in {1, 2, 3, 4, 5, 6, 7, 8, 10} : keys[k] \in built.writable
         /\ built.signer = {order.wallet, mint}
<1> DEFINE given ==
      [buyer |-> order.wallet, buyerTokenAccount |-> from,
       offering |-> offering_address,
       buyIn |-> deriveBuyInAddress(offering_address, index, PROGRAM_ID),
       paymentsTokenAccount |-> to, nftMint |-> mint,
       nftMetadata |-> deriveMplMetadataAddress(mint),
       nftMasterEdition |-> deriveMplMasterEditionAddress(mint),
       beneficiaryAccount |-> order.beneficiary,
       beneficiaryTokenAccount |-> AssociatedAddress(mint, order.beneficiary),
       tokenMetadataProgram |-> TOKEN_METADATA_PROGRAM_ID]
           key(name) == IF name \in DOMAIN given THEN given[name] ELSE Resolved[name]
           idl == purchaseShares
           built == buyShares(order, from, mint, index, to)
<1>1. built = [data |-> <<order.shares, order.beneficiary>>,
               keys |-> [k \in 1..Len(idl.accounts) |-> key(idl.accounts[k])],
               writable |-> {key(name) : name \in idl.mut},
               signer |-> {key(name) : name \in idl.signer}]
  BY DEF buyShares, Instruction
<1>2. /\ Len(idl.accounts) = 15
      /\ idl.accounts[1] = "buyer" /\ idl.accounts[2] = "buyerTokenAccount"
      /\ idl.accounts[3] = "offering" /\ idl.accounts[4] = "buyIn"
      /\ idl.accounts[5] = "paymentsTokenAccount" /\ idl.accounts[6] = "nftMint"
      /\ idl.accounts[7] = "nftMetadata" /\ idl.accounts[8] = "nftMasterEdition"
      /\ idl.accounts[9] = "beneficiaryAccount"
      /\ idl.accounts[10] = "beneficiaryTokenAccount"
      /\ idl.accounts[11] = "tokenMetadataProgram"
      /\ idl.accounts[12] = "associatedTokenProgram"
      /\ idl.accounts[13] = "systemProgram" /\ idl.accounts[14] = "tokenProgram"
      /\ idl.accounts[15] = "rent"
  BY DEF purchaseShares
<1>3. /\ idl.signer = {"buyer", "nftMint"}
      /\ \A k \in {1, 2, 3, 4, 5, 6, 7, 8, 10} : idl.accounts[k] \in idl.mut
  BY DEF purchaseShares
<1>4. /\ key("buyer") = order.wallet /\ key("buyerTokenAccount") = from
      /\ key("offering") = offering_address
      /\ key("buyIn") = deriveBuyInAddress(offering_address, index, PROGRAM_ID)
      /\ key("paymentsTokenAccount") = to /\ key("nftMint") = mint
      /\ key("nftMetadata") = deriveMplMetadataAddress(mint)
      /\ key("nftMasterEdition") = deriveMplMasterEditionAddress(mint)
      /\ key("beneficiaryAccount") = order.beneficiary
      /\ key("beneficiaryTokenAccount") = AssociatedAddress(mint, order.beneficiary)
      /\ key("tokenMetadataProgram") = TOKEN_METADATA_PROGRAM_ID
  OBVIOUS
<1>5. /\ key("associatedTokenProgram") = ASSOCIATED_TOKEN_PROGRAM_ID
      /\ key("systemProgram") = SystemProgram
      /\ key("tokenProgram") = TokenProgram /\ key("rent") = Rent
  BY DEF Resolved
<1> HIDE DEF built, idl, key, given
<1>6. /\ built.data = <<order.shares, order.beneficiary>>
      /\ built.keys = [k \in 1..Len(idl.accounts) |-> key(idl.accounts[k])]
      /\ built.writable = {key(name) : name \in idl.mut}
      /\ built.signer = {key(name) : name \in idl.signer}
  BY <1>1
<1>7. Len(built.keys) = 15 /\ \A k \in 1..15 : built.keys[k] = key(idl.accounts[k])
  BY <1>2, <1>6
<1>8. /\ built.keys[1] = order.wallet /\ built.keys[2] = from
      /\ built.keys[3] = offering_address
      /\ built.keys[4] = deriveBuyInAddress(offering_address, index, PROGRAM_ID)
      /\ built.keys[5] = to /\ built.keys[6] = mint
      /\ built.keys[7] = deriveMplMetadataAddress(mint)
      /\ built.keys[8] = deriveMplMasterEditionAddress(mint)
  BY <1>2, <1>4, <1>7
<1>9. /\ built.keys[9] = order.beneficiary
      /\ built.keys[10] = AssociatedAddress(mint, order.beneficiary)
      /\ built.keys[11] = TOKEN_METADATA_PROGRAM_ID
      /\ built.keys[12] = ASSOCIATED_TOKEN_PROGRAM_ID
      /\ built.keys[13] = SystemProgram /\ built.keys[14] = TokenProgram
      /\ built.keys[15] = Rent
  BY <1>2, <1>4, <1>5, <1>7
<1>10. ASSUME NEW k \in {1, 2, 3, 4, 5, 6, 7, 8, 10}
       PROVE  built.keys[k] \in built.writable
  <2>1. k \in 1..15
    OBVIOUS
  <2>2. built.keys[k] = key(idl.accounts[k]) /\ idl.accounts[k] \in idl.mut
    BY <1>3, <1>7, <2>1
  <2> QED
    BY <1>6, <2>2
<1>11. built.signer = {order.wallet, mint}
  BY <1>3, <1>4, <1>6
<1>12. built.data[1] = order.shares /\ built.data[2] = order.beneficiary
  BY <1>6
<1> QED
  BY <1>7, <1>8, <1>9, <1>10, <1>11, <1>12 DEF built

-----------------------------------------------------------------------------
(* The record of the calls *)

\* A call has the fields that Begin gives it, whatever they hold.
CallRecord(S) ==
  [method : S, request : S, instruction : S, signers : S, returns : S, seen : S,
   chain : S, promise : S]

CallsTyped ==
  /\ \E S : call \in Seq(CallRecord(S))
  /\ Len(call) <= MaxCalls

\* A new call is added behind the others.
LEMMA BeginStep ==
  ASSUME CallsTyped, NEW n, n = Len(call) + 1,
         NEW method, NEW request, NEW instruction, NEW signers,
         NEW returns, NEW seen,
         Begin(method, request, instruction, signers, returns, seen)
  PROVE  /\ CallsTyped'
         /\ n \in 1..MaxCalls
         /\ DOMAIN call' = DOMAIN call \cup {n} /\ n \notin DOMAIN call
         /\ \A k \in DOMAIN call : call'[k] = call[k]
         /\ call'[n].method = method /\ call'[n].request = request
         /\ call'[n].instruction = instruction /\ call'[n].returns = returns
         /\ call'[n].signers = {request.wallet} \cup signers
         /\ call'[n].seen = seen
         /\ call'[n].chain = "unsent" /\ call'[n].promise = "pending"
<1> DEFINE new ==
      [method |-> method, request |-> request, instruction |-> instruction,
       signers |-> {request.wallet} \cup signers, returns |-> returns,
       seen |-> seen, chain |-> "unsent", promise |-> "pending"]
<1>1. PICK S : call \in Seq(CallRecord(S))
  BY DEF CallsTyped
<1> DEFINE T == S \cup {method, request, instruction, {request.wallet} \cup signers,
                        returns, seen, "unsent", "pending"}
<1>2. new \in CallRecord(T)
  BY DEF CallRecord
<1>3. CallRecord(S) \subseteq CallRecord(T)
  BY DEF CallRecord
<1>4. call' = Append(call, new) /\ Len(call) < MaxCalls
  BY DEF Begin
<1> HIDE DEF new, T
<1>5. call \in Seq(CallRecord(T))
  BY <1>1, <1>3
<1>6. /\ call' \in Seq(CallRecord(T))
      /\ Len(call') = Len(call) + 1
      /\ \A k \in 1..Len(call) : call'[k] = call[k]
      /\ call'[Len(call) + 1] = new
  BY <1>2, <1>4, <1>5, AppendProperties
<1>7. DOMAIN call = 1..Len(call) /\ DOMAIN call' = 1..Len(call') /\ Len(call) \in Nat
  BY <1>5, <1>6
<1>8. CallsTyped'
  BY <1>4, <1>6, <1>7, CallsAssumption DEF CallsTyped, CallsAssumption
<1>9. n \in 1..MaxCalls
  BY <1>4, <1>7, CallsAssumption DEF CallsAssumption
<1> QED
  BY <1>6, <1>7, <1>8, <1>9 DEF new

\* A step of the provider or the cluster moves one call's status and nothing
\* else of any call.
LEMMA BecomesStep ==
  ASSUME CallsTyped, NEW n \in DOMAIN call, NEW chain, NEW promise,
         Becomes(n, chain, promise)
  PROVE  /\ CallsTyped'
         /\ DOMAIN call' = DOMAIN call
         /\ \A k \in DOMAIN call : k # n => call'[k] = call[k]
         /\ call'[n].chain = chain /\ call'[n].promise = promise
         /\ \A k \in DOMAIN call :
              /\ call'[k].method = call[k].method
              /\ call'[k].request = call[k].request
              /\ call'[k].instruction = call[k].instruction
              /\ call'[k].signers = call[k].signers
              /\ call'[k].returns = call[k].returns
              /\ call'[k].seen = call[k].seen
<1>1. PICK S : call \in Seq(CallRecord(S))
  BY DEF CallsTyped
<1> DEFINE T == S \cup {chain, promise}
           sent == [call[n] EXCEPT !.chain = chain]
           new == [sent EXCEPT !.promise = promise]
<1>2. DOMAIN call = 1..Len(call) /\ Len(call) \in Nat
  BY <1>1
<1>3. CallRecord(S) \subseteq CallRecord(T) /\ chain \in T /\ promise \in T
  BY DEF CallRecord
<1> HIDE DEF T
<1>4. call \in Seq(CallRecord(T)) /\ call[n] \in CallRecord(T)
  BY <1>1, <1>2, <1>3
<1>5. /\ sent \in CallRecord(T) /\ sent.chain = chain
      /\ sent.method = call[n].method /\ sent.request = call[n].request
      /\ sent.instruction = call[n].instruction /\ sent.signers = call[n].signers
      /\ sent.returns = call[n].returns /\ sent.seen = call[n].seen
  BY <1>3, <1>4 DEF CallRecord
<1>6. call' = [call EXCEPT ![n] = new]
  BY <1>2, <1>4 DEF Becomes
<1> HIDE DEF sent
<1>7. /\ new \in CallRecord(T) /\ new.chain = chain /\ new.promise = promise
      /\ new.method = call[n].method /\ new.request = call[n].request
      /\ new.instruction = call[n].instruction /\ new.signers = call[n].signers
      /\ new.returns = call[n].returns /\ new.seen = call[n].seen
  BY <1>3, <1>5 DEF CallRecord
<1> HIDE DEF new
<1>8. /\ call' \in Seq(CallRecord(T)) /\ Len(call') = Len(call)
      /\ DOMAIN call' = DOMAIN call /\ call'[n] = new
      /\ \A k \in DOMAIN call : k # n => call'[k] = call[k]
  BY <1>2, <1>4, <1>6, <1>7
<1>9. CallsTyped'
  BY <1>8 DEF CallsTyped
<1> QED
  BY <1>7, <1>8, <1>9

-----------------------------------------------------------------------------
(* The inductive invariant of the client *)

\* The instruction of a call carries what its caller asked for, and its own
\* keypair; the call returns the addresses that are in it.
Built(n) ==
  LET t == call[n]  r == t.request  data == t.instruction.data
      keys == t.instruction.keys IN
    \/ /\ t.method = "initNewOffering"
       /\ r \in Offers
       /\ data[1] = r.authority /\ data[2] = r.initial_shares /\ data[3] = r.price
       /\ data[4] = r.title /\ data[5] = r.symbol /\ data[6] = r.uri
       /\ keys[2] = Keypair[n] /\ t.returns.newOffering = Keypair[n]
    \/ /\ t.method = "updateOffering"
       /\ r \in Edits
       /\ data[1] = r.title /\ data[2] = r.symbol /\ data[3] = r.uri
       /\ keys[1] = r.wallet
    \/ /\ t.method = "purchaseShares"
       /\ r \in Orders
       /\ data[1] = r.shares /\ data[2] = r.beneficiary
       /\ keys[1] = r.wallet /\ keys[6] = Keypair[n]
       /\ keys[4] = t.returns.buyIn /\ t.returns.nftMint = Keypair[n]
       /\ t.returns.mintedNftTo = AssociatedAddress(Keypair[n], r.beneficiary)

StatusOK(n) ==
  /\ call[n].chain \in ChainStatus /\ call[n].promise \in PromiseStatus
  /\ call[n].chain = "unsent" => call[n].promise = "pending"
  /\ call[n].chain = "refused" => call[n].promise = "rejected"
  /\ call[n].promise = "resolved" => call[n].chain = "landed"

\* The offering holds values that some client asked for.
Listing ==
  [authority : Wallets, initial_shares : 0..U16Max, price_per_share : Prices,
   bought_shares : Nat, buy_ins : Nat,
   title : Titles, symbol : Symbols, nft_uri : Uris]

ClientInv ==
  /\ CallsTyped
  /\ \A n \in DOMAIN call : Built(n) /\ StatusOK(n)
  /\ offering_address \in Mints \cup {None}
  /\ offering_address = None <=> state = "Uninitialized"
  /\ state # "Uninitialized" => offering \in Listing
  /\ DOMAIN buy_in \subseteq 1..U16Max

\* What a landing transaction does to the sale, in terms of its caller's
\* request.
Lands(n) ==
  LET t == call[n]  r == t.request IN
    \/ /\ t.method = "initNewOffering" /\ r \in Offers
       /\ Sale!InitNewOffering(r.authority, r.initial_shares, r.price,
                               r.title, r.symbol, r.uri)
       /\ offering_address' = Keypair[n]
    \/ /\ t.method = "updateOffering" /\ r \in Edits
       /\ Sale!UpdateOffering(r.wallet, Given(r.title, offering.title),
            Given(r.symbol, offering.symbol), Given(r.uri, offering.nft_uri))
       /\ UNCHANGED offering_address
    \/ /\ t.method = "purchaseShares" /\ r \in Orders
       /\ \E payer \in Wallets :
            Sale!PurchaseShares(payer, r.shares, r.beneficiary, Keypair[n],
                                offering.buy_ins + 1)
       /\ t.returns.buyIn = BuyInAddress(offering_address, offering.buy_ins + 1)
       /\ UNCHANGED offering_address

LEMMA LandStep ==
  ASSUME ClientInv, NEW n \in DOMAIN call, Land(n)
  PROVE  Lands(n)
<1> DEFINE t == call[n]
<1>1. Built(n) /\ Accepted(t) /\ Execute(t)
  BY DEF ClientInv, Land
<1>2. CASE t.method = "initNewOffering"
  <2>1. ExecuteInit(t)
    BY <1>1, <1>2 DEF Execute
  <2>2. /\ t.request \in Offers
        /\ t.instruction.data[1] = t.request.authority
        /\ t.instruction.data[2] = t.request.initial_shares
        /\ t.instruction.data[3] = t.request.price
        /\ t.instruction.data[4] = t.request.title
        /\ t.instruction.data[5] = t.request.symbol
        /\ t.instruction.data[6] = t.request.uri
        /\ t.instruction.keys[2] = Keypair[n]
    BY <1>1, <1>2 DEF Built
  <2>3. /\ InitArguments(t).authority = t.request.authority
        /\ InitArguments(t).initial_shares = t.request.initial_shares
        /\ InitArguments(t).price_per_share = t.request.price
        /\ InitArguments(t).title = t.request.title
        /\ InitArguments(t).symbol = t.request.symbol
        /\ InitArguments(t).nft_uri = t.request.uri
    BY <2>2, InitBinds, Zenon
  <2>4. offering_address' = Keypair[n]
    BY <2>1, <2>2, InitBinds DEF ExecuteInit
  <2>5. Sale!InitNewOffering(t.request.authority, t.request.initial_shares,
          t.request.price, t.request.title, t.request.symbol, t.request.uri)
    BY <2>1, <2>3 DEF ExecuteInit
  <2> QED
    BY <1>2, <2>2, <2>4, <2>5 DEF Lands
<1>3. CASE t.method = "updateOffering"
  <2>1. ExecuteUpdate(t)
    BY <1>1, <1>3 DEF Execute
  <2>2. /\ t.request \in Edits
        /\ t.instruction.data[1] = t.request.title
        /\ t.instruction.data[2] = t.request.symbol
        /\ t.instruction.data[3] = t.request.uri
        /\ t.instruction.keys[1] = t.request.wallet
    BY <1>1, <1>3 DEF Built
  <2>3. /\ Edited(t).title = Given(t.request.title, offering.title)
        /\ Edited(t).symbol = Given(t.request.symbol, offering.symbol)
        /\ Edited(t).nft_uri = Given(t.request.uri, offering.nft_uri)
    BY <2>2, UpdateBinds DEF Edited
  <2>4. /\ Sale!UpdateOffering(t.request.wallet, Given(t.request.title, offering.title),
             Given(t.request.symbol, offering.symbol),
             Given(t.request.uri, offering.nft_uri))
        /\ UNCHANGED offering_address
    BY <2>1, <2>2, <2>3, UpdateBinds DEF ExecuteUpdate
  <2> QED
    BY <1>3, <2>2, <2>4 DEF Lands
<1>4. CASE t.method = "purchaseShares"
  <2>1. ExecutePurchase(t) /\ PurchaseAccepted(t)
    BY <1>1, <1>4 DEF Execute, Accepted
  <2>2. /\ t.request \in Orders
        /\ t.instruction.data[1] = t.request.shares
        /\ t.instruction.data[2] = t.request.beneficiary
        /\ t.instruction.keys[1] = t.request.wallet
        /\ t.instruction.keys[4] = t.returns.buyIn
        /\ t.instruction.keys[6] = Keypair[n]
    BY <1>1, <1>4 DEF Built
  <2>3. /\ PurchaseArguments(t).shares = t.request.shares
        /\ PurchaseArguments(t).beneficiary = t.request.beneficiary
    BY <2>2, PurchaseBinds
  <2>4. /\ \E payer \in Wallets :
             Sale!PurchaseShares(payer, t.request.shares,
               t.request.beneficiary, Keypair[n], offering.buy_ins + 1)
        /\ UNCHANGED offering_address
    BY <2>1, <2>2, <2>3, PurchaseBinds DEF ExecutePurchase
  <2>5. t.returns.buyIn = BuyInAddress(offering_address, offering.buy_ins + 1)
    BY <2>1, <2>2, PurchaseBinds DEF PurchaseAccepted
  <2> QED
    BY <1>4, <2>2, <2>4, <2>5 DEF Lands
<1> QED
  BY <1>1, <1>2, <1>3, <1>4 DEF Execute

LEMMA ClientInvInit == Init => ClientInv
<1> SUFFICES ASSUME Init PROVE ClientInv
  OBVIOUS
<1>1. /\ call = <<>> /\ offering_address = None /\ state = "Uninitialized"
      /\ DOMAIN buy_in = {}
  BY DEF Init, Sale!Init
<1>2. call \in Seq(CallRecord({})) /\ Len(call) <= MaxCalls /\ DOMAIN call = {}
  BY <1>1, CallsAssumption DEF CallsAssumption
<1>3. CallsTyped
  BY <1>2 DEF CallsTyped
<1> QED
  BY <1>1, <1>2, <1>3 DEF ClientInv

\* The calls leave the sale and the earlier calls alone, and build what Built
\* says.
LEMMA NewCallKeepsInv ==
  ASSUME ClientInv, NEW n, n = Len(call) + 1,
         NEW method, NEW request, NEW instruction, NEW signers, NEW returns,
         NEW seen, Begin(method, request, instruction, signers, returns, seen),
         \/ /\ method = "initNewOffering" /\ request \in Offers
            /\ instruction = initializeOffering(request, Keypair[n])
            /\ returns.newOffering = Keypair[n]
         \/ /\ method = "updateOffering" /\ request \in Edits
            /\ instruction = editOffering(request)
         \/ /\ method = "purchaseShares" /\ request \in Orders
            /\ \E from, index, to :
                 /\ instruction = buyShares(request, from, Keypair[n], index, to)
                 /\ returns.buyIn =
                      deriveBuyInAddress(offering_address, index, PROGRAM_ID)
            /\ returns.nftMint = Keypair[n]
            /\ returns.mintedNftTo =
                 AssociatedAddress(Keypair[n], request.beneficiary)
  PROVE  ClientInv'
<1>1. /\ CallsTyped'
      /\ DOMAIN call' = DOMAIN call \cup {n}
      /\ \A k \in DOMAIN call : call'[k] = call[k]
      /\ call'[n].method = method /\ call'[n].request = request
      /\ call'[n].instruction = instruction /\ call'[n].returns = returns
      /\ call'[n].chain = "unsent" /\ call'[n].promise = "pending"
  <2>1. CallsTyped
    BY DEF ClientInv
  <2> QED
    BY <2>1, BeginStep, ZenonT(60)
<1>3. UNCHANGED <<offering_address, saleVars>>
  BY DEF Begin
<1>4. \A k \in DOMAIN call : Built(k)' /\ StatusOK(k)'
  BY <1>1 DEF ClientInv, Built, StatusOK
<1>5. StatusOK(n)'
  BY <1>1 DEF StatusOK, ChainStatus, PromiseStatus
<1>6. Built(n)'
  <2>1. CASE method = "initNewOffering"
    <3>1. /\ instruction = initializeOffering(request, Keypair[n])
          /\ returns.newOffering = Keypair[n] /\ request \in Offers
      BY <2>1
    <3> QED
      BY <1>1, <2>1, <3>1, OfferBuilt DEF Built
  <2>2. CASE method = "updateOffering"
    BY <1>1, <2>2, EditBuilt DEF Built
  <2>3. CASE method = "purchaseShares"
    <3>1. PICK from, index, to :
            /\ instruction = buyShares(request, from, Keypair[n], index, to)
            /\ returns.buyIn =
                 deriveBuyInAddress(offering_address, index, PROGRAM_ID)
      BY <2>3
    <3>2. /\ instruction.data[1] = request.shares
          /\ instruction.data[2] = request.beneficiary
          /\ instruction.keys[1] = request.wallet
          /\ instruction.keys[4] = returns.buyIn
          /\ instruction.keys[6] = Keypair[n]
      BY <3>1, OrderBuilt
    <3>3. /\ request \in Orders /\ returns.nftMint = Keypair[n]
          /\ returns.mintedNftTo = AssociatedAddress(Keypair[n], request.beneficiary)
      BY <2>3
    <3> QED
      BY <1>1, <2>3, <3>2, <3>3 DEF Built
  <2> QED
    BY <2>1, <2>2, <2>3
<1>7. \A k \in DOMAIN call' : Built(k)' /\ StatusOK(k)'
  BY <1>1, <1>4, <1>5, <1>6
<1>8. /\ offering_address' = offering_address /\ state' = state
      /\ offering' = offering /\ buy_in' = buy_in
  BY <1>3 DEF saleVars
<1> QED
  BY <1>1, <1>7, <1>8 DEF ClientInv

LEMMA CallsKeepInv ==
  ASSUME ClientInv, Calls
  PROVE  ClientInv'
<1>0. PICK n : n = Len(call) + 1
  OBVIOUS
<1>1. ASSUME NEW offer \in Offers, InitializeOffering(offer) PROVE ClientInv'
  <2> DEFINE returns == [newOffering |-> Keypair[n]]
  <2>1. Begin("initNewOffering", offer, initializeOffering(offer, Keypair[n]),
              {Keypair[n]}, returns, None)
    BY <1>0, <1>1 DEF InitializeOffering, FreshKeypair
  <2>2. returns.newOffering = Keypair[n]
    OBVIOUS
  <2> HIDE DEF returns
  <2> QED
    BY <1>0, <2>1, <2>2, NewCallKeepsInv
<1>2. ASSUME NEW edit \in Edits, UpdateOffering(edit) PROVE ClientInv'
  BY <1>0, <1>2, NewCallKeepsInv DEF UpdateOffering
<1>3. ASSUME NEW order \in Orders, PurchaseShares(order) PROVE ClientInv'
  <2> DEFINE from == TokenAccount(order, fetchOffering)
             index == NextIndex(fetchOffering)
             to == fetchOffering.paymentsTokenAccount
             returns ==
               [nftMint |-> Keypair[n],
                buyIn |-> deriveBuyInAddress(offering_address, index, PROGRAM_ID),
                mintedNftTo |-> AssociatedAddress(Keypair[n], order.beneficiary)]
  <2>1. Begin("purchaseShares", order, buyShares(order, from, Keypair[n], index, to),
              {Keypair[n]}, returns, offering.buy_ins)
    BY <1>0, <1>3 DEF PurchaseShares, FreshKeypair
  <2>2. /\ returns.nftMint = Keypair[n]
        /\ returns.buyIn = deriveBuyInAddress(offering_address, index, PROGRAM_ID)
        /\ returns.mintedNftTo = AssociatedAddress(Keypair[n], order.beneficiary)
    OBVIOUS
  <2> HIDE DEF from, index, to, returns
  <2> QED
    BY <1>0, <2>1, <2>2, NewCallKeepsInv
<1> QED
  BY <1>1, <1>2, <1>3 DEF Calls

\* The steps of the provider, and those of the cluster that do not land a
\* transaction, move the status of one call along.
LEMMA StatusKeepsCalls ==
  ASSUME ClientInv, NEW n \in DOMAIN call,
         NEW chain \in ChainStatus, NEW promise \in PromiseStatus,
         Becomes(n, chain, promise),
         chain = "unsent" => promise = "pending",
         chain = "refused" => promise = "rejected",
         promise = "resolved" => chain = "landed"
  PROVE  CallsTyped' /\ \A k \in DOMAIN call' : Built(k)' /\ StatusOK(k)'
<1>1. CallsTyped
  BY DEF ClientInv
<1>2. /\ CallsTyped'
      /\ DOMAIN call' = DOMAIN call
      /\ \A k \in DOMAIN call : k # n => call'[k] = call[k]
      /\ call'[n].chain = chain /\ call'[n].promise = promise
      /\ \A k \in DOMAIN call :
           /\ call'[k].method = call[k].method
           /\ call'[k].request = call[k].request
           /\ call'[k].instruction = call[k].instruction
           /\ call'[k].returns = call[k].returns
  BY <1>1, BecomesStep, Zenon
<1>3. ASSUME NEW k \in DOMAIN call PROVE Built(k)'
  BY <1>2, <1>3 DEF ClientInv, Built
<1>4. ASSUME NEW k \in DOMAIN call PROVE StatusOK(k)'
  <2>1. CASE k = n
    BY <1>2, <2>1 DEF StatusOK
  <2>2. CASE k # n
    BY <1>2, <2>2 DEF ClientInv, StatusOK
  <2> QED
    BY <2>1, <2>2
<1> QED
  BY <1>2, <1>3, <1>4

LEMMA WaitingKeepsInv ==
  ASSUME ClientInv, NEW n \in DOMAIN call,
         Send(n) \/ Fail(n) \/ Drop(n) \/ Confirm(n) \/ Timeout(n)
  PROVE  ClientInv' /\ UNCHANGED <<offering_address, saleVars>>
<1>1. StatusOK(n)
  BY DEF ClientInv
<1>2. UNCHANGED <<offering_address, saleVars>>
  BY DEF Send, Fail, Drop, Confirm, Timeout
<1>3. CallsTyped' /\ \A k \in DOMAIN call' : Built(k)' /\ StatusOK(k)'
  <2>1. CASE Send(n)
    <3>1. Becomes(n, "sent", "pending") \/ Becomes(n, "refused", "rejected")
      BY <2>1 DEF Send, OnError
    <3> QED
      BY <3>1, StatusKeepsCalls DEF ChainStatus, PromiseStatus
  <2>2. CASE Fail(n)
    <3>1. Becomes(n, "failed", call[n].promise) /\ call[n].chain = "sent"
      BY <2>2 DEF Fail
    <3> QED
      BY <1>1, <3>1, StatusKeepsCalls DEF ChainStatus, StatusOK
  <2>3. CASE Drop(n)
    <3>1. Becomes(n, "dropped", call[n].promise) /\ call[n].chain = "sent"
      BY <2>3 DEF Drop
    <3> QED
      BY <1>1, <3>1, StatusKeepsCalls DEF ChainStatus, StatusOK
  <2>4. CASE Confirm(n)
    <3>1. \/ call[n].chain = "landed" /\ Becomes(n, "landed", "resolved")
          \/ /\ call[n].chain \in {"failed", "dropped"}
             /\ Becomes(n, call[n].chain, "rejected")
      BY <1>1, <2>4 DEF Confirm, Report, OnError, StatusOK, ChainStatus
    <3> QED
      BY <1>1, <3>1, StatusKeepsCalls DEF ChainStatus, PromiseStatus
  <2>5. CASE Timeout(n)
    <3>1. /\ Becomes(n, call[n].chain, "rejected")
          /\ call[n].chain \in {"sent", "landed"}
      BY <2>5 DEF Timeout, OnError
    <3> QED
      BY <3>1, StatusKeepsCalls DEF ChainStatus, PromiseStatus
  <2> QED
    BY <2>1, <2>2, <2>3, <2>4, <2>5
<1>4. /\ offering_address' = offering_address /\ state' = state
      /\ offering' = offering /\ buy_in' = buy_in
  BY <1>2 DEF saleVars
<1> QED
  BY <1>2, <1>3, <1>4 DEF ClientInv

\* A landing transaction changes the sale by values that were asked for.
LEMMA LandKeepsInv ==
  ASSUME ClientInv, NEW n \in DOMAIN call, Land(n)
  PROVE  ClientInv'
<1> DEFINE r == call[n].request
<1>1. Lands(n)
  BY LandStep
<1>2. /\ call[n].chain = "sent" /\ Becomes(n, "landed", call[n].promise)
      /\ StatusOK(n)
  BY DEF Land, ClientInv
<1>3. CallsTyped' /\ \A k \in DOMAIN call' : Built(k)' /\ StatusOK(k)'
  BY <1>2, StatusKeepsCalls DEF ChainStatus, StatusOK
<1>4. n \in 1..MaxCalls
  BY CallsAssumption DEF ClientInv, CallsTyped, CallsAssumption
<1>5. Keypair[n] \in Mints /\ Keypair[n] # None
  BY <1>4, CallsAssumption, SaleAssumption DEF CallsAssumption, SaleAssumption
<1>6. CASE /\ r \in Offers
           /\ Sale!InitNewOffering(r.authority, r.initial_shares, r.price,
                                   r.title, r.symbol, r.uri)
           /\ offering_address' = Keypair[n]
  <2>1. r \in Offer
    BY <1>6, CallsAssumption DEF CallsAssumption
  <2>2. offering' \in Listing /\ state' = "BuyInActive" /\ buy_in' = buy_in
    BY <1>6, <2>1 DEF Sale!InitNewOffering, Listing, Offer
  <2> QED
    BY <1>3, <1>5, <1>6, <2>2 DEF ClientInv
<1>7. CASE /\ r \in Edits
           /\ Sale!UpdateOffering(r.wallet, Given(r.title, offering.title),
                Given(r.symbol, offering.symbol), Given(r.uri, offering.nft_uri))
           /\ UNCHANGED offering_address
  <2>1. r \in Edit
    BY <1>7, CallsAssumption DEF CallsAssumption
  <2>2. /\ offering \in Listing /\ state' = state /\ buy_in' = buy_in
        /\ offering' = [offering EXCEPT !.title = Given(r.title, offering.title),
             !.symbol = Given(r.symbol, offering.symbol),
             !.nft_uri = Given(r.uri, offering.nft_uri)]
    BY <1>7 DEF ClientInv, Sale!UpdateOffering, Sale!TextsEditable
  <2>3. /\ Given(r.title, offering.title) \in Titles
        /\ Given(r.symbol, offering.symbol) \in Symbols
        /\ Given(r.uri, offering.nft_uri) \in Uris
    BY <2>1, <2>2 DEF Given, Edit, Listing
  <2>4. offering' \in Listing
    BY <2>2, <2>3 DEF Listing
  <2> QED
    BY <1>3, <1>7, <2>2, <2>4 DEF ClientInv
<1>8. ASSUME r \in Orders, UNCHANGED offering_address, NEW payer \in Wallets,
             Sale!PurchaseShares(payer, r.shares, r.beneficiary, Keypair[n],
                                 offering.buy_ins + 1)
      PROVE  ClientInv'
  <2>1. r \in Order
    BY <1>8, CallsAssumption DEF CallsAssumption
  <2>2. /\ offering \in Listing /\ state' = state
        /\ offering' = [offering EXCEPT !.bought_shares = @ + r.shares,
                                        !.buy_ins = @ + 1]
        /\ DOMAIN buy_in' = DOMAIN buy_in \cup {offering.buy_ins + 1}
        /\ offering.buy_ins + 1 <= U16Max
    BY <1>8 DEF ClientInv, Sale!PurchaseShares, Sale!Open, Sale!IsNewBuyIn,
                Sale!WithAccount
  <2>3. offering' \in Listing
    <3>1. /\ r.shares \in Nat /\ offering.bought_shares \in Nat
          /\ offering.buy_ins \in Nat
      BY <2>1, <2>2, SaleAssumption DEF Listing, Order, SaleAssumption
    <3>2. /\ offering.bought_shares + r.shares \in Nat
          /\ offering.buy_ins + 1 \in Nat
      BY <3>1
    <3> QED
      BY <2>2, <3>2 DEF Listing
  <2>4. offering.buy_ins + 1 \in 1..U16Max
    BY <2>2, SaleAssumption DEF Listing, SaleAssumption
  <2> QED
    BY <1>3, <1>8, <2>2, <2>3, <2>4 DEF ClientInv
<1> QED
  BY <1>1, <1>6, <1>7, <1>8 DEF Lands

LEMMA ClientInvStep == ClientInv /\ [Next]_vars => ClientInv'
<1> SUFFICES ASSUME ClientInv, [Next]_vars PROVE ClientInv'
  OBVIOUS
<1>1. CASE Calls
  BY <1>1, CallsKeepInv
<1>2. CASE Cluster
  BY <1>2, LandKeepsInv, WaitingKeepsInv DEF Cluster
<1>3. CASE Provider
  BY <1>3, WaitingKeepsInv DEF Provider
<1>4. CASE UNCHANGED vars
  BY <1>4 DEF vars, saleVars, ClientInv, CallsTyped, Built, StatusOK
<1> QED
  BY <1>1, <1>2, <1>3, <1>4 DEF Next

LEMMA ClientInvariant == Spec => []ClientInv
BY ClientInvInit, ClientInvStep, PTL DEF Spec

-----------------------------------------------------------------------------
(* The client implements the sale *)

\* Every step of the client's world is a step of Offering, or leaves the sale
\* alone.
LEMMA SaleStepOrStutter ==
  ASSUME ClientInv, [Next]_vars
  PROVE  [Books!Next]_(Books!vars)
<1>1. ASSUME NEW n \in DOMAIN call, Land(n) PROVE Books!Next
  <2> DEFINE r == call[n].request
  <2>1. Lands(n)
    BY <1>1, LandStep
  <2>2. Keypair[n] \in Mints
    BY CallsAssumption DEF ClientInv, CallsTyped, CallsAssumption
  <2>3. CASE /\ r \in Offers
             /\ Sale!InitNewOffering(r.authority, r.initial_shares, r.price,
                                     r.title, r.symbol, r.uri)
    <3>1. r \in Offer
      BY <2>3, CallsAssumption DEF CallsAssumption
    <3>2. Books!InitNewOffering(r.authority, r.initial_shares, r.price,
                                r.title, r.symbol, r.uri)
      BY <2>3 DEF Sale!InitNewOffering, Books!InitNewOffering, Sale!Valid,
           Books!Valid, Sale!MAX_TITLE_LEN, Books!MAX_TITLE_LEN,
           Sale!MAX_SYMBOL_LEN, Books!MAX_SYMBOL_LEN, Sale!MAX_URI_LEN,
           Books!MAX_URI_LEN
    <3>3. /\ r.authority \in Wallets /\ r.initial_shares \in 0..U16Max
          /\ r.price \in Prices /\ r.title \in Titles /\ r.symbol \in Symbols
          /\ r.uri \in Uris
      BY <3>1 DEF Offer
    <3> HIDE DEF r
    <3> QED
      BY <3>2, <3>3 DEF Books!Next, Books!SaleStep
  <2>4. CASE /\ r \in Edits
             /\ Sale!UpdateOffering(r.wallet, Given(r.title, offering.title),
                  Given(r.symbol, offering.symbol), Given(r.uri, offering.nft_uri))
    <3>1. r \in Edit
      BY <2>4, CallsAssumption DEF CallsAssumption
    <3>2. offering \in Listing
      BY <2>4 DEF ClientInv, Sale!UpdateOffering, Sale!TextsEditable
    <3>3. /\ r.wallet \in Wallets
          /\ Given(r.title, offering.title) \in Titles
          /\ Given(r.symbol, offering.symbol) \in Symbols
          /\ Given(r.uri, offering.nft_uri) \in Uris
      BY <3>1, <3>2 DEF Given, Edit, Listing
    <3>4. Books!UpdateOffering(r.wallet, Given(r.title, offering.title),
            Given(r.symbol, offering.symbol), Given(r.uri, offering.nft_uri))
      BY <2>4 DEF Sale!UpdateOffering, Books!UpdateOffering, Sale!Valid,
           Books!Valid, Sale!MAX_TITLE_LEN, Books!MAX_TITLE_LEN,
           Sale!MAX_SYMBOL_LEN, Books!MAX_SYMBOL_LEN, Sale!MAX_URI_LEN,
           Books!MAX_URI_LEN, Sale!TextsEditable, Books!TextsEditable
    <3> QED
      BY <3>3, <3>4 DEF Books!Next, Books!SaleStep
  <2>5. ASSUME r \in Orders, NEW payer \in Wallets,
               Sale!PurchaseShares(payer, r.shares, r.beneficiary, Keypair[n],
                                   offering.buy_ins + 1)
        PROVE  Books!Next
    <3>1. r \in Order
      BY <2>5, CallsAssumption DEF CallsAssumption
    <3>2. offering \in Listing /\ offering.buy_ins + 1 <= U16Max
      BY <2>5 DEF ClientInv, Sale!PurchaseShares, Sale!Open, Sale!IsNewBuyIn
    <3>3. offering.buy_ins + 1 \in 1..U16Max
      BY <3>2, SaleAssumption DEF Listing, SaleAssumption
    <3>4. r.beneficiary \in Wallets /\ r.shares \in 0..U16Max
      BY <3>1 DEF Order
    <3>5. Books!PurchaseShares(payer, r.shares, r.beneficiary, Keypair[n],
                               offering.buy_ins + 1)
      <4>1. Sale!SuffixLen(offering.buy_ins + 1) = Books!SuffixLen(offering.buy_ins + 1)
        BY DEF Sale!SuffixLen, Books!SuffixLen, Sale!Cardinality, Books!Cardinality
      <4>2. Sale!MintNft(Keypair[n], r.beneficiary, offering.buy_ins + 1)
              => Books!MintNft(Keypair[n], r.beneficiary, offering.buy_ins + 1)
        BY <4>1 DEF Sale!MintNft, Books!MintNft, Sale!MetadataAccepted,
             Books!MetadataAccepted, Sale!WithAccount, Books!WithAccount
      <4>3. /\ Sale!Open => Books!Open
            /\ Sale!IsNewBuyIn(offering.buy_ins + 1)
                 => Books!IsNewBuyIn(offering.buy_ins + 1)
            /\ Sale!AvailableShares = Books!AvailableShares
            /\ Sale!Payment(r.shares) = Books!Payment(r.shares)
        BY DEF Sale!Open, Books!Open, Sale!IsNewBuyIn, Books!IsNewBuyIn,
             Sale!AvailableShares, Books!AvailableShares, Sale!Payment, Books!Payment
      <4>4. Sale!Debit(payer, Sale!Payment(r.shares))
              = Books!Debit(payer, Books!Payment(r.shares))
        BY <4>3 DEF Sale!Debit, Books!Debit
      <4>5. Sale!WithAccount(buy_in, offering.buy_ins + 1,
              Sale!BuyInRecord(offering.buy_ins + 1, r.shares, r.beneficiary, Keypair[n]))
            = Books!WithAccount(buy_in, offering.buy_ins + 1,
              Books!BuyInRecord(offering.buy_ins + 1, r.shares, r.beneficiary,
                                Keypair[n]))
        BY DEF Sale!WithAccount, Books!WithAccount, Sale!BuyInRecord,
             Books!BuyInRecord, Sale!DefaultTimestamp, Books!DefaultTimestamp
      <4> HIDE DEF r
      <4> QED
        BY <2>5, <4>2, <4>3, <4>4, <4>5, Zenon
           DEF Sale!PurchaseShares, Books!PurchaseShares
    <3> HIDE DEF r
    <3> QED
      BY <2>2, <3>3, <3>4, <3>5 DEF Books!Next, Books!SaleStep
  <2> QED
    BY <2>1, <2>3, <2>4, <2>5 DEF Lands
<1>2. CASE Calls
  <2>1. UNCHANGED saleVars
    BY <1>2 DEF Calls, InitializeOffering, UpdateOffering, PurchaseShares, Begin
  <2> QED
    BY <2>1 DEF saleVars, Books!vars
<1>3. CASE Cluster
  <2>1. ASSUME NEW n \in DOMAIN call, Fail(n) \/ Drop(n) PROVE UNCHANGED saleVars
    BY <2>1 DEF Fail, Drop
  <2> QED
    BY <1>1, <1>3, <2>1 DEF Cluster, saleVars, Books!vars
<1>4. CASE Provider
  <2>1. UNCHANGED saleVars
    BY <1>4 DEF Provider, Send, Confirm, Timeout
  <2> QED
    BY <2>1 DEF saleVars, Books!vars
<1>5. CASE UNCHANGED vars
  BY <1>5 DEF vars, saleVars, Books!vars
<1> QED
  BY <1>2, <1>3, <1>4, <1>5 DEF Next

\* Whatever the clients of the SDK submit, and whatever becomes of it on its
\* way (instructions.ts, index.ts), the accounts of the program go through a
\* behaviour of the sale.
THEOREM ImplementsSale == Spec => Books!Spec
<1>1. Init => Books!Init
  BY DEF Init, Sale!Init, Books!Init
<1> QED
  BY <1>1, ClientInvariant, SaleStepOrStutter, PTL DEF Spec, Books!Spec

\* What Offering promises therefore holds of the accounts that clients of the
\* SDK write: the shares sold are the sum of the buy-ins and never exceed the
\* offer, the payments account holds their price, no token is lost, each buy-in
\* has its NFT and stays as it was bought.
THEOREM SalePromisesHold ==
  Spec => /\ [](/\ Books!TypeOK
                /\ Books!SharesAccounted
                /\ Books!PaymentsMatchShares
                /\ Books!TokensConserved
                /\ Books!BuyInsOwnTheirNfts)
          /\ Books!PurchasesAreFinal
<1> USE BooksConstants DEF Books!WidthsAssumption, Books!InputsAssumption,
        Books!WalletsAssumption, Books!NoAccountAssumption
<1>1. Books!Spec => []Books!TypeOK
  BY Books!TypeCorrect
<1>2. Books!Spec => []Books!SharesAccounted
  BY Books!SharesAlwaysAccounted
<1>3. Books!Spec => []Books!PaymentsMatchShares
  BY Books!PaymentsAlwaysMatchShares
<1>4. Books!Spec => []Books!TokensConserved
  BY Books!TokensAlwaysConserved
<1>5. Books!Spec => []Books!BuyInsOwnTheirNfts
  BY Books!BuyInsAlwaysOwnTheirNfts
<1>6. Books!Spec => Books!PurchasesAreFinal
  BY Books!PurchasesStayFinal
<1> QED
  BY <1>1, <1>2, <1>3, <1>4, <1>5, <1>6, ImplementsSale, PTL

\* TypeOK of the run of the client: in particular no promise resolves whose
\* transaction has not landed (index.ts, sendAndConfirmTransaction).
THEOREM TypeCorrect == Spec => []TypeOK
<1>1. ClientInv /\ Books!TypeOK => TypeOK
  <2> SUFFICES ASSUME ClientInv, Books!TypeOK PROVE TypeOK
    OBVIOUS
  <2>1. Sale!TypeOK
    BY DEF Books!TypeOK, Sale!TypeOK, Books!OfferingStates, Sale!OfferingStates,
       Books!OfferingAccount, Sale!OfferingAccount, Books!BuyIn, Sale!BuyIn,
       Books!Nft, Sale!Nft
  <2>2. DOMAIN call = 1..Len(call) /\ Len(call) <= MaxCalls
    BY DEF ClientInv, CallsTyped
  <2> QED
    BY <2>1, <2>2 DEF TypeOK, ClientInv, StatusOK
<1> QED
  BY <1>1, ClientInvariant, SalePromisesHold, PTL

-----------------------------------------------------------------------------
(* Every call does its work once *)

\* What a landed transaction has brought about.
Done(n) ==
  LET t == call[n] IN
    /\ t.method = "initNewOffering" => offering_address = Keypair[n]
    /\ t.method = "purchaseShares" => \E i \in DOMAIN buy_in :
         /\ t.returns.buyIn = BuyInAddress(offering_address, i)
         /\ buy_in[i].shares = t.request.shares
         /\ buy_in[i].beneficiary = t.request.beneficiary
         /\ buy_in[i].token_mint = Keypair[n]
         /\ Keypair[n] \in DOMAIN nft
         /\ nft[Keypair[n]].minted_to = t.request.beneficiary

\* Every buy-in comes from a landed purchase, by the mint that call generated.
WorkInv ==
  /\ \A n \in DOMAIN call : call[n].chain = "landed" => Done(n)
  /\ \A i \in DOMAIN buy_in : \E n \in DOMAIN call :
       /\ IsPurchase(n) /\ call[n].chain = "landed"
       /\ buy_in[i].token_mint = Keypair[n]
  /\ state = "Uninitialized" => DOMAIN buy_in = {}

\* A step that lands nothing leaves the work done as it was.
LEMMA WorkUnlessLanding ==
  ASSUME WorkInv, UNCHANGED <<offering_address, saleVars>>,
         DOMAIN call \subseteq DOMAIN call',
         \A n \in DOMAIN call : /\ call'[n].method = call[n].method
                                /\ call'[n].request = call[n].request
                                /\ call'[n].returns = call[n].returns,
         \A n \in DOMAIN call' : call'[n].chain = "landed" <=>
                                   n \in DOMAIN call /\ call[n].chain = "landed"
  PROVE  WorkInv'
<1>1. /\ offering_address' = offering_address /\ state' = state
      /\ buy_in' = buy_in /\ nft' = nft
  BY DEF saleVars
<1>2. ASSUME NEW n \in DOMAIN call', call'[n].chain = "landed" PROVE Done(n)'
  <2>1. n \in DOMAIN call /\ Done(n)
    BY <1>2 DEF WorkInv
  <2>2. /\ call'[n].method = call[n].method
        /\ call'[n].request = call[n].request
        /\ call'[n].returns = call[n].returns
    BY <2>1
  <2>3. (call[n].method = "initNewOffering" => offering_address = Keypair[n])'
    BY <1>1, <2>1, <2>2 DEF Done
  <2>4. ASSUME call[n].method = "purchaseShares"
        PROVE  (\E i \in DOMAIN buy_in :
                  /\ call[n].returns.buyIn = BuyInAddress(offering_address, i)
                  /\ buy_in[i].shares = call[n].request.shares
                  /\ buy_in[i].beneficiary = call[n].request.beneficiary
                  /\ buy_in[i].token_mint = Keypair[n]
                  /\ Keypair[n] \in DOMAIN nft
                  /\ nft[Keypair[n]].minted_to = call[n].request.beneficiary)'
    <3>1. PICK i \in DOMAIN buy_in :
             /\ call[n].returns.buyIn = BuyInAddress(offering_address, i)
             /\ buy_in[i].shares = call[n].request.shares
             /\ buy_in[i].beneficiary = call[n].request.beneficiary
             /\ buy_in[i].token_mint = Keypair[n]
             /\ Keypair[n] \in DOMAIN nft
             /\ nft[Keypair[n]].minted_to = call[n].request.beneficiary
      BY <2>1, <2>4 DEF Done
    <3>2. call'[n].returns.buyIn = BuyInAddress(offering_address, i)'
      BY <1>1, <2>2, <3>1 DEF BuyInAddress, FindProgramAddress, U64LeBytes
    <3> QED
      BY <1>1, <2>2, <3>1, <3>2
  <2> QED
    BY <2>2, <2>3, <2>4 DEF Done
<1>3. ASSUME NEW i \in DOMAIN buy_in'
      PROVE  \E n \in DOMAIN call' : /\ IsPurchase(n)' /\ call'[n].chain = "landed"
                                     /\ buy_in'[i].token_mint = Keypair[n]
  BY <1>1, <1>3 DEF WorkInv, IsPurchase
<1>4. state' = "Uninitialized" => DOMAIN buy_in' = {}
  BY <1>1 DEF WorkInv
<1> QED
  BY <1>2, <1>3, <1>4 DEF WorkInv

LEMMA WorkWhenLanding ==
  ASSUME ClientInv, WorkInv, NEW n \in DOMAIN call, Land(n)
  PROVE  WorkInv'
<1> DEFINE r == call[n].request
           i == offering.buy_ins + 1
<1>1. Lands(n)
  BY LandStep
<1>2. /\ DOMAIN call' = DOMAIN call
      /\ \A k \in DOMAIN call : k # n => call'[k] = call[k]
      /\ call'[n].chain = "landed"
      /\ \A k \in DOMAIN call :
           /\ call'[k].method = call[k].method
           /\ call'[k].request = call[k].request
           /\ call'[k].instruction = call[k].instruction
           /\ call'[k].returns = call[k].returns
  <2>1. CallsTyped /\ Becomes(n, "landed", call[n].promise)
    BY DEF Land, ClientInv
  <2> QED
    BY <2>1, BecomesStep, Zenon
<1>3. CASE /\ call[n].method = "initNewOffering"
           /\ Sale!InitNewOffering(r.authority, r.initial_shares, r.price,
                                   r.title, r.symbol, r.uri)
           /\ offering_address' = Keypair[n]
  <2>1. /\ state = "Uninitialized" /\ state' = "BuyInActive"
        /\ buy_in' = buy_in /\ offering_address = None /\ DOMAIN buy_in = {}
    BY <1>3 DEF Sale!InitNewOffering, ClientInv, WorkInv
  <2>2. ASSUME NEW k \in DOMAIN call, call'[k].chain = "landed" PROVE Done(k)'
    <3>1. CASE k = n
      BY <1>2, <1>3, <3>1 DEF Done
    <3>2. CASE k # n
      <4>1. Done(k) /\ Built(k) /\ call'[k] = call[k]
        BY <1>2, <2>2, <3>2 DEF WorkInv, ClientInv
      <4>2. Keypair[k] # None
        BY CallsAssumption, SaleAssumption
           DEF ClientInv, CallsTyped, CallsAssumption, SaleAssumption
      <4>3. call[k].method = "updateOffering"
        BY <2>1, <4>1, <4>2 DEF Done, Built
      <4> QED
        BY <4>1, <4>3 DEF Done
    <3> QED
      BY <3>1, <3>2
  <2> QED
    BY <1>2, <2>1, <2>2 DEF WorkInv
<1>4. CASE /\ call[n].method = "updateOffering"
           /\ Sale!UpdateOffering(r.wallet, Given(r.title, offering.title),
                Given(r.symbol, offering.symbol), Given(r.uri, offering.nft_uri))
           /\ UNCHANGED offering_address
  <2>1. /\ state' = state /\ buy_in' = buy_in /\ nft' = nft
        /\ offering_address' = offering_address
    BY <1>4 DEF Sale!UpdateOffering
  <2>2. ASSUME NEW k \in DOMAIN call, call'[k].chain = "landed" PROVE Done(k)'
    <3>1. CASE k = n
      BY <1>2, <1>4, <3>1 DEF Done
    <3>2. CASE k # n
      BY <1>2, <2>1, <2>2, <3>2
         DEF WorkInv, Done, BuyInAddress, FindProgramAddress, U64LeBytes
    <3> QED
      BY <3>1, <3>2
  <2>3. ASSUME NEW j \in DOMAIN buy_in
        PROVE  \E k \in DOMAIN call' : /\ IsPurchase(k)' /\ call'[k].chain = "landed"
                                       /\ buy_in'[j].token_mint = Keypair[k]
    BY <1>2, <1>4, <2>1, <2>3 DEF WorkInv, IsPurchase
  <2> QED
    BY <1>2, <2>1, <2>2, <2>3 DEF WorkInv
<1>5. ASSUME call[n].method = "purchaseShares", NEW payer \in Wallets,
             Sale!PurchaseShares(payer, r.shares, r.beneficiary, Keypair[n], i),
             call[n].returns.buyIn = BuyInAddress(offering_address, i),
             UNCHANGED offering_address
      PROVE  WorkInv'
  <2>1. /\ state' = state /\ state = "BuyInActive"
        /\ offering_address' = offering_address
        /\ i \notin DOMAIN buy_in /\ Keypair[n] \notin DOMAIN nft
        /\ buy_in' = Sale!WithAccount(buy_in, i,
             Sale!BuyInRecord(i, r.shares, r.beneficiary, Keypair[n]))
        /\ nft' = Sale!WithAccount(nft, Keypair[n],
             [minted_to |-> r.beneficiary, update_authority |-> i])
    BY <1>5 DEF Sale!PurchaseShares, Sale!Open, Sale!IsNewBuyIn, Sale!MintNft
  <2> HIDE DEF i
  <2>2. /\ DOMAIN buy_in' = DOMAIN buy_in \cup {i}
        /\ \A j \in DOMAIN buy_in : buy_in'[j] = buy_in[j]
        /\ buy_in'[i].shares = r.shares /\ buy_in'[i].beneficiary = r.beneficiary
        /\ buy_in'[i].token_mint = Keypair[n]
    BY <2>1 DEF Sale!WithAccount, Sale!BuyInRecord
  <2>3. /\ DOMAIN nft' = DOMAIN nft \cup {Keypair[n]}
        /\ \A m \in DOMAIN nft : nft'[m] = nft[m]
        /\ nft'[Keypair[n]].minted_to = r.beneficiary
    BY <2>1 DEF Sale!WithAccount
  <2>4. ASSUME NEW k \in DOMAIN call, call'[k].chain = "landed" PROVE Done(k)'
    <3>1. CASE k = n
      <4>1. call'[n].returns.buyIn = BuyInAddress(offering_address', i)
        BY <1>2, <1>5, <2>1
      <4>2. call'[n].method = "purchaseShares" /\ call'[n].request = r
        BY <1>2, <1>5
      <4> HIDE DEF r
      <4>3. \E j \in DOMAIN buy_in' :
              /\ call'[n].returns.buyIn = BuyInAddress(offering_address', j)
              /\ buy_in'[j].shares = call'[n].request.shares
              /\ buy_in'[j].beneficiary = call'[n].request.beneficiary
              /\ buy_in'[j].token_mint = Keypair[n]
              /\ Keypair[n] \in DOMAIN nft'
              /\ nft'[Keypair[n]].minted_to = call'[n].request.beneficiary
        BY <2>2, <2>3, <4>1, <4>2
      <4> QED
        BY <3>1, <4>2, <4>3
           DEF Done, BuyInAddress, FindProgramAddress, U64LeBytes
    <3>2. CASE k # n
      <4>1. call'[k] = call[k] /\ Done(k) /\ Built(k)
        BY <1>2, <2>4, <3>2 DEF WorkInv, ClientInv
      <4>2. CASE call[k].method = "purchaseShares"
        <5>1. PICK j \in DOMAIN buy_in :
                /\ call[k].returns.buyIn = BuyInAddress(offering_address, j)
                /\ buy_in[j].shares = call[k].request.shares
                /\ buy_in[j].beneficiary = call[k].request.beneficiary
                /\ buy_in[j].token_mint = Keypair[k]
                /\ Keypair[k] \in DOMAIN nft
                /\ nft[Keypair[k]].minted_to = call[k].request.beneficiary
          BY <4>1, <4>2 DEF Done
        <5>2. /\ j \in DOMAIN buy_in' /\ buy_in'[j] = buy_in[j]
              /\ Keypair[k] \in DOMAIN nft' /\ nft'[Keypair[k]] = nft[Keypair[k]]
          BY <2>2, <2>3, <5>1
        <5> QED
          BY <2>1, <4>1, <4>2, <5>1, <5>2
             DEF Done, BuyInAddress, FindProgramAddress, U64LeBytes
      <4>3. CASE call[k].method # "purchaseShares"
        BY <2>1, <4>1, <4>3 DEF Done
      <4> QED
        BY <4>2, <4>3
    <3> QED
      BY <3>1, <3>2
  <2>5. ASSUME NEW j \in DOMAIN buy_in'
        PROVE  \E k \in DOMAIN call' : /\ IsPurchase(k)' /\ call'[k].chain = "landed"
                                       /\ buy_in'[j].token_mint = Keypair[k]
    <3>1. CASE j = i
      BY <1>2, <1>5, <2>2, <3>1 DEF IsPurchase
    <3>2. CASE j # i
      <4>1. j \in DOMAIN buy_in /\ buy_in'[j] = buy_in[j]
        BY <2>2, <2>5, <3>2
      <4>2. PICK k \in DOMAIN call : /\ IsPurchase(k) /\ call[k].chain = "landed"
                                     /\ buy_in[j].token_mint = Keypair[k]
        BY <4>1 DEF WorkInv
      <4>3. call'[k].method = call[k].method /\ call'[k].chain = "landed"
        BY <1>2, <4>2
      <4> QED
        BY <1>2, <4>1, <4>2, <4>3 DEF IsPurchase
    <3> QED
      BY <3>1, <3>2
  <2> QED
    BY <1>2, <2>1, <2>4, <2>5 DEF WorkInv
<1> QED
  BY <1>1, <1>3, <1>4, <1>5 DEF Lands

LEMMA WorkInvariant == Spec => []WorkInv
<1>1. Init => WorkInv
  BY DEF Init, Sale!Init, WorkInv
<1>2. ClientInv /\ WorkInv /\ [Next]_vars => WorkInv'
  <2> SUFFICES ASSUME ClientInv, WorkInv, [Next]_vars PROVE WorkInv'
    OBVIOUS
  <2>1. ASSUME NEW method, NEW request, NEW instruction, NEW signers, NEW returns,
               NEW seen, Begin(method, request, instruction, signers, returns, seen)
        PROVE  WorkInv'
    <3>1. PICK n : n = Len(call) + 1
      OBVIOUS
    <3>2. CallsTyped
      BY DEF ClientInv
    <3>3. /\ DOMAIN call' = DOMAIN call \cup {n} /\ n \notin DOMAIN call
          /\ \A k \in DOMAIN call : call'[k] = call[k]
          /\ call'[n].chain = "unsent"
      BY <2>1, <3>1, <3>2, BeginStep, Zenon
    <3>4. UNCHANGED <<offering_address, saleVars>>
      BY <2>1 DEF Begin
    <3> QED
      BY <3>3, <3>4, WorkUnlessLanding
  <2>2. ASSUME NEW n \in DOMAIN call, NEW chain, NEW promise,
               Becomes(n, chain, promise), UNCHANGED <<offering_address, saleVars>>,
               chain = "landed" <=> call[n].chain = "landed"
        PROVE  WorkInv'
    <3>1. CallsTyped
      BY DEF ClientInv
    <3>2. /\ DOMAIN call' = DOMAIN call
          /\ \A k \in DOMAIN call : k # n => call'[k] = call[k]
          /\ call'[n].chain = chain
          /\ \A k \in DOMAIN call : /\ call'[k].method = call[k].method
                                    /\ call'[k].request = call[k].request
                                    /\ call'[k].returns = call[k].returns
      BY <2>2, <3>1, BecomesStep, Zenon
    <3>3. \A k \in DOMAIN call' : call'[k].chain = "landed" <=>
                                    k \in DOMAIN call /\ call[k].chain = "landed"
      BY <2>2, <3>2
    <3> QED
      BY <2>2, <3>2, <3>3, WorkUnlessLanding
  <2>3. CASE Calls
    <3>1. ASSUME NEW offer \in Offers, InitializeOffering(offer) PROVE WorkInv'
      BY <2>1, <3>1 DEF InitializeOffering
    <3>2. ASSUME NEW edit \in Edits, UpdateOffering(edit) PROVE WorkInv'
      BY <2>1, <3>2 DEF UpdateOffering
    <3>3. ASSUME NEW order \in Orders, PurchaseShares(order) PROVE WorkInv'
      BY <2>1, <3>3 DEF PurchaseShares
    <3> QED
      BY <2>3, <3>1, <3>2, <3>3 DEF Calls
  <2>4. ASSUME NEW n \in DOMAIN call,
               Send(n) \/ Fail(n) \/ Drop(n) \/ Confirm(n) \/ Timeout(n)
        PROVE  WorkInv'
    <3>1. CASE Send(n)
      BY <2>2, <3>1 DEF Send
    <3>2. CASE Fail(n) \/ Drop(n)
      BY <2>2, <3>2 DEF Fail, Drop
    <3>3. CASE Confirm(n) \/ Timeout(n)
      BY <2>2, <3>3 DEF Confirm, Timeout
    <3> QED
      BY <2>4, <3>1, <3>2, <3>3
  <2>5. CASE Cluster
    BY <2>4, <2>5, WorkWhenLanding DEF Cluster
  <2>6. CASE Provider
    BY <2>4, <2>6 DEF Provider
  <2>7. CASE UNCHANGED vars
    BY <2>7, WorkUnlessLanding DEF vars
  <2> QED
    BY <2>3, <2>5, <2>6, <2>7 DEF Next
<1> QED
  BY <1>1, <1>2, ClientInvariant, PTL DEF Spec

\* What WorkInv says of a landed purchase, with the keypair of its call known.
LEMMA LandedPurchase ==
  ASSUME ClientInv, WorkInv, NEW n \in DOMAIN call, IsPurchase(n)
  PROVE  /\ n \in 1..MaxCalls
         /\ call[n].returns.nftMint = Keypair[n]
         /\ call[n].returns.mintedNftTo =
              AssociatedAddress(Keypair[n], call[n].request.beneficiary)
         /\ call[n].chain = "landed" => Done(n)
<1>1. n \in 1..MaxCalls
  BY CallsAssumption DEF ClientInv, CallsTyped, CallsAssumption
<1>2. Built(n) /\ call[n].method = "purchaseShares"
  BY DEF ClientInv, IsPurchase
<1>3. /\ call[n].returns.nftMint = Keypair[n]
      /\ call[n].returns.mintedNftTo =
           AssociatedAddress(Keypair[n], call[n].request.beneficiary)
  BY <1>2 DEF Built
<1> QED
  BY <1>1, <1>3 DEF WorkInv

\* One call buys at most once, and nothing is bought but by a call whose
\* transaction landed: retries with a new keypair (index.ts, purchaseShares)
\* never share a buy-in.
THEOREM AlwaysOneBuyInPerCall == Spec => []OneBuyInPerCall
<1>1. ClientInv /\ WorkInv => OneBuyInPerCall
  <2> SUFFICES ASSUME ClientInv, WorkInv PROVE OneBuyInPerCall
    OBVIOUS
  <2>1. ASSUME NEW m \in 1..MaxCalls, NEW n \in 1..MaxCalls, Keypair[m] = Keypair[n]
        PROVE  m = n
    BY <2>1, CallsAssumption DEF CallsAssumption
  <2>2. ASSUME NEW n \in DOMAIN call, IsPurchase(n), call[n].chain = "landed"
        PROVE  \E i \in DOMAIN buy_in : buy_in[i].token_mint = call[n].returns.nftMint
    BY <2>2, LandedPurchase DEF Done, IsPurchase
  <2>3. ASSUME NEW n \in DOMAIN call, IsPurchase(n), NEW i \in DOMAIN buy_in,
               buy_in[i].token_mint = call[n].returns.nftMint
        PROVE  call[n].chain = "landed"
    <3>1. PICK k \in DOMAIN call : /\ IsPurchase(k) /\ call[k].chain = "landed"
                                   /\ buy_in[i].token_mint = Keypair[k]
      BY DEF WorkInv
    <3>2. Keypair[k] = Keypair[n] /\ k \in 1..MaxCalls /\ n \in 1..MaxCalls
      BY <2>3, <3>1, LandedPurchase
    <3> QED
      BY <2>1, <3>1, <3>2
  <2>4. ASSUME NEW i \in DOMAIN buy_in
        PROVE  \E n \in DOMAIN call :
                 /\ IsPurchase(n) /\ call[n].chain = "landed"
                 /\ \A m \in DOMAIN call : IsPurchase(m) =>
                      (call[m].returns.nftMint = buy_in[i].token_mint <=> m = n)
    <3>1. PICK k \in DOMAIN call : /\ IsPurchase(k) /\ call[k].chain = "landed"
                                   /\ buy_in[i].token_mint = Keypair[k]
      BY DEF WorkInv
    <3>2. ASSUME NEW m \in DOMAIN call, IsPurchase(m)
          PROVE  call[m].returns.nftMint = buy_in[i].token_mint <=> m = k
      BY <2>1, <3>1, <3>2, LandedPurchase
    <3> QED
      BY <3>1, <3>2
  <2> QED
    BY <2>2, <2>3, <2>4 DEF OneBuyInPerCall
<1> QED
  BY <1>1, ClientInvariant, WorkInvariant, PTL

\* A promise of the client that resolves tells the truth: the buy-in, the NFT
\* and the addresses it returns are there.
THEOREM ResolvedAlwaysDone == Spec => []ResolvedMeansDone
<1>1. ClientInv /\ WorkInv => ResolvedMeansDone
  <2> SUFFICES ASSUME ClientInv, WorkInv, NEW n \in DOMAIN call,
                      call[n].promise = "resolved"
               PROVE  /\ call[n].method = "initNewOffering" =>
                           call[n].returns.newOffering = offering_address
                      /\ IsPurchase(n) => \E i \in DOMAIN buy_in :
                           /\ call[n].returns.buyIn = BuyInAddress(offering_address, i)
                           /\ buy_in[i].shares = call[n].request.shares
                           /\ buy_in[i].beneficiary = call[n].request.beneficiary
                           /\ buy_in[i].token_mint = call[n].returns.nftMint
                           /\ call[n].returns.mintedNftTo =
                                AssociatedAddress(call[n].returns.nftMint,
                                  nft[call[n].returns.nftMint].minted_to)
    BY DEF ResolvedMeansDone
  <2>1. call[n].chain = "landed" /\ Done(n)
    BY DEF ClientInv, StatusOK, WorkInv
  <2>2. ASSUME call[n].method = "initNewOffering"
        PROVE  call[n].returns.newOffering = offering_address
    BY <2>1, <2>2 DEF Done, ClientInv, Built
  <2>3. ASSUME IsPurchase(n)
        PROVE  \E i \in DOMAIN buy_in :
                 /\ call[n].returns.buyIn = BuyInAddress(offering_address, i)
                 /\ buy_in[i].shares = call[n].request.shares
                 /\ buy_in[i].beneficiary = call[n].request.beneficiary
                 /\ buy_in[i].token_mint = call[n].returns.nftMint
                 /\ call[n].returns.mintedNftTo =
                      AssociatedAddress(call[n].returns.nftMint,
                        nft[call[n].returns.nftMint].minted_to)
    <3>1. /\ call[n].returns.nftMint = Keypair[n]
          /\ call[n].returns.mintedNftTo =
               AssociatedAddress(Keypair[n], call[n].request.beneficiary)
      BY <2>3, LandedPurchase
    <3> QED
      BY <2>1, <2>3, <3>1 DEF Done, IsPurchase
  <2> QED
    BY <2>2, <2>3
<1> QED
  BY <1>1, ClientInvariant, WorkInvariant, PTL

\* A null sent to update_offering never overwrites a text, however the edits of
\* several clients interleave.
THEOREM EditsAlwaysTouchWhatTheyName == Spec => EditsTouchWhatTheyName
<1> DEFINE Fields == <<offering.title, offering.symbol, offering.nft_uri>>
<1>1. ClientInv /\ Books!TypeOK /\ [Next]_vars => [TextsChangeByEditOnly]_vars
  <2> SUFFICES ASSUME ClientInv, Books!TypeOK, Next, offering # NoAccount
               PROVE  UNCHANGED Fields \/ \E n \in DOMAIN call : EditLands(n)
    BY DEF TextsChangeByEditOnly
  <2>1. ASSUME offering' = offering PROVE UNCHANGED Fields
    BY <2>1
  <2>2. ASSUME NEW n \in DOMAIN call, Land(n)
        PROVE  UNCHANGED Fields \/ \E k \in DOMAIN call : EditLands(k)
    <3> DEFINE r == call[n].request
    <3>1. Lands(n) /\ state # "Uninitialized" /\ call[n].chain = "sent"
      BY <2>2, LandStep DEF Land, Books!TypeOK
    <3>2. call'[n].chain = "landed"
      <4>1. CallsTyped /\ Becomes(n, "landed", call[n].promise)
        BY <2>2 DEF Land, ClientInv
      <4> QED
        BY <4>1, BecomesStep, Zenon
    <3>3. offering \in Listing
      BY <3>1 DEF ClientInv
    <3>4. CASE /\ call[n].method = "updateOffering"
               /\ Sale!UpdateOffering(r.wallet, Given(r.title, offering.title),
                    Given(r.symbol, offering.symbol), Given(r.uri, offering.nft_uri))
      <4>1. /\ r.wallet = offering.authority
            /\ offering' = [offering EXCEPT !.title = Given(r.title, offering.title),
                 !.symbol = Given(r.symbol, offering.symbol),
                 !.nft_uri = Given(r.uri, offering.nft_uri)]
        BY <3>4 DEF Sale!UpdateOffering
      <4>2. /\ offering'.title = Given(r.title, offering.title)
            /\ offering'.symbol = Given(r.symbol, offering.symbol)
            /\ offering'.nft_uri = Given(r.uri, offering.nft_uri)
        BY <3>3, <4>1 DEF Listing
      <4> QED
        BY <3>1, <3>2, <3>4, <4>1, <4>2 DEF Given, EditLands
    <3>5. ASSUME NEW payer \in Wallets,
                 Sale!PurchaseShares(payer, r.shares, r.beneficiary, Keypair[n],
                                     offering.buy_ins + 1)
          PROVE  UNCHANGED Fields
      <4>1. offering' = [offering EXCEPT !.bought_shares = @ + r.shares,
                                         !.buy_ins = @ + 1]
        BY <3>5 DEF Sale!PurchaseShares
      <4> QED
        BY <3>3, <4>1 DEF Listing
    <3> QED
      BY <3>1, <3>4, <3>5 DEF Lands, Sale!InitNewOffering
  <2>3. CASE Calls
    BY <2>1, <2>3 DEF Calls, InitializeOffering, UpdateOffering, PurchaseShares,
                      Begin, saleVars
  <2>4. ASSUME NEW n \in DOMAIN call,
               Send(n) \/ Fail(n) \/ Drop(n) \/ Confirm(n) \/ Timeout(n)
        PROVE  UNCHANGED Fields
    BY <2>1, <2>4, WaitingKeepsInv DEF saleVars
  <2> QED
    BY <2>2, <2>3, <2>4 DEF Next, Cluster, Provider
<1> QED
  BY <1>1, ClientInvariant, SalePromisesHold, PTL DEF Spec, EditsTouchWhatTheyName
=============================================================================
