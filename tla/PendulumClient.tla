---------------------------- MODULE PendulumClient ----------------------------
(***************************************************************************)
(* The TypeScript client of packages/sdk and the way of its transactions   *)
(* to the program.  A call of PendulumClient reads what it needs, builds   *)
(* one transaction, hands it to the provider and awaits its confirmation;  *)
(* between any two of these steps other calls' transactions land.  The     *)
(* cluster may refuse a transaction, fail it, or lose it; the confirmation *)
(* may get lost while the transaction lands.  A retry is a new call: the   *)
(* client itself never repeats one.                                        *)
(*                                                                         *)
(* The program is the sale of module Offering, reached the way the runtime *)
(* reaches it: by account keys in a row, each bound to the name that the   *)
(* handler's accounts struct has at its position.                          *)
(***************************************************************************)
EXTENDS Integers, Sequences, FiniteSets, Idl

CONSTANTS
  PROGRAM_ID, TOKEN_METADATA_PROGRAM_ID, ASSOCIATED_TOKEN_PROGRAM_ID,
  SystemProgram, TokenProgram, Rent,
  PaymentMint,   \* the mint the offering is paid in
  Keypair,       \* what Keypair.generate() returns, call after call
  Offers,        \* arguments of initializeOffering tried
  Edits,         \* arguments of updateOffering tried, null as None
  Orders,        \* arguments of purchaseShares tried, null as None
  MaxCalls,      \* bound on the calls made by all the clients together
  MaySpend,      \* whose tokens a wallet may transfer: its own, and those of
                 \*   the owners who approved it for all they have
  Wallets, Mints, Funds, Prices, Titles, Symbols, Uris,
  U16Max, U64Max, MaxClock, NoAccount,
  None

VARIABLES
  call,              \* the calls made so far and their transactions
  offering_address,  \* the address of the offering, once it exists
  state, offering, buy_in, nft, tokens, payments, now

saleVars == <<state, offering, buy_in, nft, tokens, payments, now>>
vars == <<call, offering_address, saleVars>>

Sale == INSTANCE Offering
INSTANCE Addresses

\* Who is asked for what.
Offer ==
  [wallet : Wallets, authority : Wallets, initial_shares : 0..U16Max,
   price : Prices, title : Titles, symbol : Symbols, uri : Uris]
Edit ==
  [wallet : Wallets, title : Titles \cup {None}, symbol : Symbols \cup {None},
   uri : Uris \cup {None}]
Order ==
  [wallet : Wallets, beneficiary : Wallets, shares : 0..U16Max,
   fromTokenAccount : Wallets \cup {None}]

ASSUME CallsAssumption ==
  /\ MaxCalls \in Nat
  /\ Offers \subseteq Offer /\ Edits \subseteq Edit /\ Orders \subseteq Order
  /\ Keypair \in [1..MaxCalls -> Mints]
  /\ \A m, n \in 1..MaxCalls : Keypair[m] = Keypair[n] => m = n
  /\ MaySpend \in [Wallets -> SUBSET Wallets]
  /\ \A w \in Wallets : w \in MaySpend[w]

\* What Offering asks of its constants, and that a u16 has two bytes, as many
\* as the seeds of a buy-in's address can tell apart.
ASSUME SaleAssumption ==
  /\ U16Max \in Nat /\ U16Max \div 256 <= 255
  /\ U64Max \in Nat /\ MaxClock \in Nat
  /\ IsFiniteSet(Wallets) /\ Funds \in [Wallets -> Nat]
  /\ Prices \subseteq 0..U64Max
  /\ Titles \subseteq Nat /\ Symbols \subseteq Nat /\ Uris \subseteq Nat
  /\ NoAccount \notin Sale!OfferingAccount
  /\ None \notin Mints

\* A transaction is unsent until the provider simulates it.
ChainStatus == {"unsent", "refused", "sent", "landed", "failed", "dropped"}
PromiseStatus == {"pending", "resolved", "rejected"}

Init ==
  /\ call = <<>>
  /\ offering_address = None
  /\ Sale!Init

-----------------------------------------------------------------------------
(* The accounts' data, and what the client makes of it *)

\* The data as the program writes it: the fields of the structs in order.
OfferingTypes ==
  <<"publicKey", "u16", "u16", "u16", "publicKey", "publicKey", "u64",
    "OfferingState", "string", "string", "string">>
OfferingData ==
  <<offering.authority, offering.initial_shares, offering.bought_shares,
    offering.buy_ins, PaymentMint, AssociatedAddress(PaymentMint, offering_address),
    offering.price_per_share, state, offering.title, offering.symbol,
    offering.nft_uri>>

BuyInTypes == <<"publicKey", "u16", "u16", "i64", "publicKey", "publicKey">>
BuyInData(i) ==
  <<offering_address, buy_in[i].index, buy_in[i].shares, buy_in[i].timestamp,
    buy_in[i].beneficiary, buy_in[i].token_mint>>

\* program.account.offering.fetch(), which knows the fields from the IDL only.
fetchOffering == Decoded(OfferingIdl, OfferingData)

\* fromIdlAccount hands the decoded fields to the constructor by position.
OfferingConstructor ==
  <<"authority", "initialShares", "boughtShares", "buyIns", "paymentMint",
    "paymentsTokenAccount", "pricePerShare", "state", "title", "symbol", "nftUri">>

OfferingFromIdlSwapped(account) ==
  <<account.authority, account.initialShares, account.buyIns,
    account.boughtShares, account.paymentMint, account.paymentsTokenAccount,
    account.pricePerShare, account.state, account.title, account.symbol,
    account.nftUri>>
OfferingFromIdl(account) ==
  <<account.authority, account.initialShares, account.boughtShares,
    account.buyIns, account.paymentMint, account.paymentsTokenAccount,
    account.pricePerShare, account.state, account.title, account.symbol,
    account.nftUri>>

OfferingAccount == Bound(OfferingConstructor, OfferingFromIdl(fetchOffering))

BuyInConstructor ==
  <<"offering", "index", "shares", "timestamp", "beneficiary", "tokenMint">>

BuyInFromIdl(account) ==
  <<account.offering, account.index, account.shares, account.timestamp,
    account.beneficiary, account.tokenMint>>

BuyInAccount(i) ==
  Bound(BuyInConstructor, BuyInFromIdl(Decoded(BuyInIdl, BuyInData(i))))

\* A memcmp filter lets an account pass whose data holds `bytes` at `offset`.
fetchBuyIns(offset, bytes) ==
  {BuyInAccount(i) : i \in
     {j \in DOMAIN buy_in : \E k \in 1..Len(BuyInTypes) :
        OffsetOf(BuyInTypes, k) = offset /\ BuyInData(j)[k] = bytes}}

fetchBuyInsForOffering(address) == fetchBuyIns(8, address)

BeneficiaryOffsetNoDiscriminator == 32 + 2 + 2 + 8
BeneficiaryOffset == 8 + 32 + 2 + 2 + 8
fetchBuyInsForBeneficiary(wallet) == fetchBuyIns(BeneficiaryOffset, wallet)

-----------------------------------------------------------------------------
(* instructions.ts: building an instruction *)

\* The accounts that Anchor fills in by name.
Resolved ==
  [systemProgram |-> SystemProgram, tokenProgram |-> TokenProgram,
   associatedTokenProgram |-> ASSOCIATED_TOKEN_PROGRAM_ID, rent |-> Rent]

\* What program.methods.<idl>(arguments).accounts(given).instruction() returns.
Instruction(idl, arguments, given) ==
  LET key(name) == IF name \in DOMAIN given THEN given[name] ELSE Resolved[name]
  IN [data |-> arguments,
      keys |-> [k \in 1..Len(idl.accounts) |-> key(idl.accounts[k])],
      writable |-> {key(name) : name \in idl.mut},
      signer |-> {key(name) : name \in idl.signer}]

initializeOffering(offer, newOffering) ==
  Instruction(initNewOffering,
    <<offer.authority, offer.initial_shares, offer.price,
      offer.title, offer.symbol, offer.uri>>,
    [initiator |-> offer.wallet, offering |-> newOffering,
     paymentsTokenAccount |-> AssociatedAddress(PaymentMint, newOffering),
     paymentMint |-> PaymentMint])

editOffering(edit) ==
  Instruction(updateOffering, <<edit.title, edit.symbol, edit.uri>>,
    [authority |-> edit.wallet, offering |-> offering_address])

buyShares(order, buyerTokenAccount, nftMint, nextBuyInIndex, paymentsTokenAccount) ==
  Instruction(purchaseShares, <<order.shares, order.beneficiary>>,
    [buyer |-> order.wallet, buyerTokenAccount |-> buyerTokenAccount,
     offering |-> offering_address,
     buyIn |-> deriveBuyInAddress(offering_address, nextBuyInIndex, PROGRAM_ID),
     paymentsTokenAccount |-> paymentsTokenAccount,
     nftMint |-> nftMint,
     nftMetadata |-> deriveMplMetadataAddress(nftMint),
     nftMasterEdition |-> deriveMplMasterEditionAddress(nftMint),
     beneficiaryAccount |-> order.beneficiary,
     beneficiaryTokenAccount |-> AssociatedAddress(nftMint, order.beneficiary),
     tokenMetadataProgram |-> TOKEN_METADATA_PROGRAM_ID])

-----------------------------------------------------------------------------
(* index.ts: the calls *)

\* The keypair a call generates, which a retry must not share with it.
FreshKeypairOnce(n) == Keypair[1 + (IF n > 1 THEN 1 ELSE 0)]
FreshKeypair(n) == Keypair[n]

\* One more call: its transaction waits to be sent, its promise to be settled.
Begin(method, request, instruction, signers, returns, seen) ==
  /\ Len(call) < MaxCalls
  /\ call' = Append(call,
       [method |-> method, request |-> request, instruction |-> instruction,
        signers |-> {request.wallet} \cup signers, returns |-> returns,
        seen |-> seen, chain |-> "unsent", promise |-> "pending"])
  /\ UNCHANGED <<offering_address, saleVars>>

\* One offering: it is asked for again only after the earlier attempts are over.
InitializeOffering(offer) ==
  LET newOffering == FreshKeypair(Len(call) + 1) IN
    /\ \A n \in DOMAIN call : call[n].chain \in {"refused", "failed", "dropped"}
    /\ Begin("initNewOffering", offer,
             initializeOffering(offer, newOffering), {newOffering},
             [newOffering |-> newOffering], None)

UpdateOffering(edit) ==
  /\ offering_address # None
  /\ Begin("updateOffering", edit, editOffering(edit), {}, None, None)

\* fromTokenAccount ?? the wallet's associated token account; a token account
\* given explicitly is named by the wallet it belongs to.
Payer(order) ==
  IF order.fromTokenAccount = None THEN order.wallet ELSE order.fromTokenAccount
TokenAccount(order, offeringAccount) ==
  AssociatedAddress(offeringAccount.paymentMint, Payer(order))

NextIndex(offeringAccount) == offeringAccount.buyIns + 1

PurchaseShares(order) ==
  LET newMint == FreshKeypair(Len(call) + 1)
      offeringAccount == fetchOffering
      index == NextIndex(offeringAccount)
  IN
    /\ offering_address # None
    /\ Begin("purchaseShares", order,
             buyShares(order, TokenAccount(order, offeringAccount), newMint,
                       index, offeringAccount.paymentsTokenAccount), {newMint},
             [nftMint |-> newMint,
              buyIn |-> deriveBuyInAddress(offering_address, index, PROGRAM_ID),
              mintedNftTo |-> AssociatedAddress(newMint, order.beneficiary)],
             offering.buy_ins)

-----------------------------------------------------------------------------
(* The program: the accounts structs, and what their constraints demand *)

InitOfferingAccounts ==
  [accounts |-> <<"initiator", "offering", "payments_token_account",
                  "payment_mint", "system_program", "token_program",
                  "associated_token_program">>,
   mut |-> {"initiator", "offering", "payments_token_account"},
   signer |-> {"initiator", "offering"}]

UpdateOfferingAccounts ==
  [accounts |-> <<"authority", "offering">>,
   mut |-> {"authority", "offering"}, signer |-> {"authority"}]

PurchaseSharesAccounts ==
  [accounts |-> <<"buyer", "buyer_token_account", "offering", "buy_in",
                  "payments_token_account", "nft_mint", "nft_metadata",
                  "nft_master_edition", "beneficiary_account",
                  "beneficiary_token_account", "token_metadata_program",
                  "associated_token_program", "system_program",
                  "token_program", "rent">>,
   mut |-> {"buyer", "buyer_token_account", "offering", "buy_in",
            "payments_token_account", "nft_mint", "nft_metadata",
            "nft_master_edition", "beneficiary_token_account"},
   signer |-> {"buyer", "nft_mint"}]

\* Signed by everyone the message names as signer, and the accounts passed are
\* the ones the struct declares, with the rights it asks for.
WellFormed(t, declared) ==
  LET a == Bound(declared.accounts, t.instruction.keys) IN
    /\ t.instruction.signer \subseteq t.signers
    /\ Binds(declared.accounts, t.instruction.keys)
    /\ \A name \in declared.mut : a[name] \in t.instruction.writable
    /\ \A name \in declared.signer : a[name] \in t.instruction.signer

ProgramsPassed(a) ==
  /\ a.system_program = SystemProgram
  /\ a.token_program = TokenProgram
  /\ a.associated_token_program = ASSOCIATED_TOKEN_PROGRAM_ID

\* The arguments the handlers take.
InitParameters ==
  <<"authority", "initial_shares", "price_per_share", "title", "symbol", "nft_uri">>
UpdateParameters == <<"new_title", "new_symbol", "new_nft_uri">>
PurchaseParameters == <<"shares", "beneficiary">>

InitArguments(t) == Bound(InitParameters, t.instruction.data)
UpdateArguments(t) == Bound(UpdateParameters, t.instruction.data)
PurchaseArguments(t) == Bound(PurchaseParameters, t.instruction.data)

\* There is one offering: `init` on its address succeeds once.
InitAccepted(t) ==
  LET a == Bound(InitOfferingAccounts.accounts, t.instruction.keys)
      args == InitArguments(t)
  IN
    /\ WellFormed(t, InitOfferingAccounts)
    /\ a.payments_token_account = AssociatedAddress(a.payment_mint, a.offering)
    /\ a.payment_mint = PaymentMint
    /\ ProgramsPassed(a)
    /\ state = "Uninitialized"
    /\ Sale!Valid(args.title, args.symbol, args.nft_uri)

\* Some(text) replaces a field, None leaves it.
GivenEmpty(text, present) == IF text = None THEN 0 ELSE text
Given(text, present) == IF text = None THEN present ELSE text

Edited(t) ==
  LET args == UpdateArguments(t) IN
    [title |-> Given(args.new_title, offering.title),
     symbol |-> Given(args.new_symbol, offering.symbol),
     nft_uri |-> Given(args.new_nft_uri, offering.nft_uri)]

UpdateAccepted(t) ==
  LET a == Bound(UpdateOfferingAccounts.accounts, t.instruction.keys) IN
    /\ WellFormed(t, UpdateOfferingAccounts)
    /\ a.offering = offering_address
    /\ Sale!TextsEditable
    /\ a.authority = offering.authority
    /\ LET texts == Edited(t)
       IN Sale!Valid(texts.title, texts.symbol, texts.nft_uri)

\* What the sale asks of a purchase, whatever transaction it comes in.
Purchasable(payer, shares) ==
  /\ Sale!Open
  /\ Sale!IsNewBuyIn(offering.buy_ins + 1)
  /\ shares <= Sale!AvailableShares
  /\ Sale!Payment(shares) <= U64Max
  /\ Sale!Payment(shares) <= tokens[payer]

\* buyer_token_account is unchecked but by the transfer: the token program takes
\* the account of any owner whose tokens the buyer may spend.
PaysFrom(a, payer) ==
  /\ payer \in MaySpend[a.buyer]
  /\ a.buyer_token_account = AssociatedAddress(PaymentMint, payer)

PurchaseAccepted(t) ==
  LET a == Bound(PurchaseSharesAccounts.accounts, t.instruction.keys)
      args == PurchaseArguments(t)
  IN
    /\ WellFormed(t, PurchaseSharesAccounts)
    /\ a.offering = offering_address
    /\ a.buy_in = BuyInAddress(a.offering, offering.buy_ins + 1)
    /\ a.payments_token_account = AssociatedAddress(PaymentMint, a.offering)
    /\ a.nft_mint \notin DOMAIN nft
    /\ a.nft_metadata = MetadataAddress(a.nft_mint)
    /\ a.nft_master_edition = MasterEditionAddress(a.nft_mint)
    /\ a.beneficiary_account = args.beneficiary
    /\ a.beneficiary_token_account =
         AssociatedAddress(a.nft_mint, a.beneficiary_account)
    /\ a.token_metadata_program = TOKEN_METADATA_PROGRAM_ID
    /\ a.rent = Rent
    /\ ProgramsPassed(a)
    /\ \E payer \in Wallets : PaysFrom(a, payer) /\ Purchasable(payer, args.shares)
    /\ Sale!MetadataAccepted(offering.buy_ins + 1)

Accepted(t) ==
  CASE t.method = "initNewOffering" -> InitAccepted(t)
    [] t.method = "updateOffering" -> UpdateAccepted(t)
    [] t.method = "purchaseShares" -> PurchaseAccepted(t)

\* The effect of an accepted transaction.
ExecuteInit(t) ==
  LET args == InitArguments(t) IN
    /\ Sale!InitNewOffering(args.authority, args.initial_shares,
         args.price_per_share, args.title, args.symbol, args.nft_uri)
    /\ offering_address' =
         Bound(InitOfferingAccounts.accounts, t.instruction.keys).offering

ExecuteUpdate(t) ==
  LET a == Bound(UpdateOfferingAccounts.accounts, t.instruction.keys)
      texts == Edited(t)
  IN
    /\ Sale!UpdateOffering(a.authority, texts.title, texts.symbol, texts.nft_uri)
    /\ UNCHANGED offering_address

ExecutePurchase(t) ==
  LET a == Bound(PurchaseSharesAccounts.accounts, t.instruction.keys)
      args == PurchaseArguments(t)
  IN
    /\ \E payer \in Wallets :
         /\ PaysFrom(a, payer)
         /\ Sale!PurchaseShares(payer, args.shares, args.beneficiary, a.nft_mint,
                                offering.buy_ins + 1)
    /\ UNCHANGED offering_address

Execute(t) ==
  \/ t.method = "initNewOffering" /\ ExecuteInit(t)
  \/ t.method = "updateOffering" /\ ExecuteUpdate(t)
  \/ t.method = "purchaseShares" /\ ExecutePurchase(t)

-----------------------------------------------------------------------------
(* provider.sendAndConfirm and the cluster *)

Becomes(n, chain, promise) ==
  call' = [call EXCEPT ![n].chain = chain, ![n].promise = promise]

\* `.catch((e) => { throw e; })`: an error of the provider is the call's.
OnErrorSwallowed == "resolved"
OnError == "rejected"

\* The provider simulates a transaction before it sends it.
Send(n) ==
  /\ call[n].chain = "unsent"
  /\ IF Accepted(call[n]) THEN Becomes(n, "sent", "pending")
                          ELSE Becomes(n, "refused", OnError)
  /\ UNCHANGED <<offering_address, saleVars>>

\* The runtime executes a transaction at most once.
Land(n) ==
  /\ call[n].chain = "sent"
  /\ Accepted(call[n])
  /\ Execute(call[n])
  /\ Becomes(n, "landed", call[n].promise)

Fail(n) ==
  /\ call[n].chain = "sent"
  /\ ~ Accepted(call[n])
  /\ Becomes(n, "failed", call[n].promise)
  /\ UNCHANGED <<offering_address, saleVars>>

\* Lost on its way, or its blockhash expired.
Drop(n) ==
  /\ call[n].chain = "sent"
  /\ Becomes(n, "dropped", call[n].promise)
  /\ UNCHANGED <<offering_address, saleVars>>

\* What the provider reports once the transaction is over.
ReportOnceSent(chain) ==
  CASE chain \in {"sent", "landed"} -> "resolved"
    [] chain \in {"failed", "dropped"} -> OnError
    [] OTHER -> "pending"
Report(chain) ==
  CASE chain = "landed" -> "resolved"
    [] chain \in {"failed", "dropped"} -> OnError
    [] OTHER -> "pending"

Confirm(n) ==
  /\ call[n].promise = "pending"
  /\ Report(call[n].chain) # "pending"
  /\ Becomes(n, call[n].chain, Report(call[n].chain))
  /\ UNCHANGED <<offering_address, saleVars>>

\* The confirmation does not arrive in time, whether the transaction landed or
\* not, and whether it still will or not.
Timeout(n) ==
  /\ call[n].promise = "pending"
  /\ call[n].chain \in {"sent", "landed"}
  /\ Becomes(n, call[n].chain, OnError)
  /\ UNCHANGED <<offering_address, saleVars>>

-----------------------------------------------------------------------------

Calls ==
  \/ \E offer \in Offers : InitializeOffering(offer)
  \/ \E edit \in Edits : UpdateOffering(edit)
  \/ \E order \in Orders : PurchaseShares(order)

Cluster == \E n \in DOMAIN call : Land(n) \/ Fail(n) \/ Drop(n)

Provider == \E n \in DOMAIN call : Send(n) \/ Confirm(n) \/ Timeout(n)

Next == Calls \/ Cluster \/ Provider

Spec == Init /\ [][Next]_vars

-----------------------------------------------------------------------------
(* Properties *)

IsPurchase(n) == call[n].method = "purchaseShares"

\* Calls keep their shape; a transaction the provider refused never leaves its
\* promise open, a promise resolves only with a landed transaction, and the
\* offering has an address exactly when it exists.
TypeOK ==
  /\ Sale!TypeOK
  /\ offering_address \in Mints \cup {None}
  /\ offering_address = None <=> state = "Uninitialized"
  /\ DOMAIN call = 1..Len(call) /\ Len(call) <= MaxCalls
  /\ \A n \in DOMAIN call :
       /\ call[n].chain \in ChainStatus /\ call[n].promise \in PromiseStatus
       /\ call[n].chain = "unsent" => call[n].promise = "pending"
       /\ call[n].chain = "refused" => call[n].promise = "rejected"
       /\ call[n].promise = "resolved" => call[n].chain = "landed"

\* A caller whose purchaseShares() resolves has bought what it asked for: at
\* the address the call returned there is a buy-in with its shares and its
\* beneficiary, and the NFT it returned was minted to that beneficiary's token
\* account.  initializeOffering() returns the address of the offering.
ResolvedMeansDone ==
  \A n \in DOMAIN call : call[n].promise = "resolved" =>
    LET returned == call[n].returns  asked == call[n].request IN
      /\ call[n].method = "initNewOffering" =>
           returned.newOffering = offering_address
      /\ IsPurchase(n) => \E i \in DOMAIN buy_in :
           /\ returned.buyIn = BuyInAddress(offering_address, i)
           /\ buy_in[i].shares = asked.shares
           /\ buy_in[i].beneficiary = asked.beneficiary
           /\ buy_in[i].token_mint = returned.nftMint
           /\ returned.mintedNftTo =
                AssociatedAddress(returned.nftMint, nft[returned.nftMint].minted_to)

\* One call buys at most once, and only by the transaction that landed: a call
\* that was refused, failed or expired has bought nothing, whatever its caller
\* retried since, and every buy-in is the work of exactly one call.
OneBuyInPerCall ==
  /\ \A n \in DOMAIN call : IsPurchase(n) =>
       (call[n].chain = "landed"
          <=> \E i \in DOMAIN buy_in : buy_in[i].token_mint = call[n].returns.nftMint)
  /\ \A i \in DOMAIN buy_in : \E n \in DOMAIN call :
       /\ IsPurchase(n) /\ call[n].chain = "landed"
       /\ \A m \in DOMAIN call : IsPurchase(m) =>
            (call[m].returns.nftMint = buy_in[i].token_mint <=> m = n)

\* A purchase of shares that are to be had, from a token account that can and may
\* pay for them, is refused or fails only for what others did after the client
\* read buyIns or before: a purchase of theirs landed since, or an edit left a
\* title, a symbol or a URI without room for the number of the next buy-in (as
\* the offer's own texts may, see NextNftFits).  Nothing a client prepares (the
\* addresses, their order, the signatures, the index) is ever what stops it.
OnlyContentionFails ==
  [][ \A n \in DOMAIN call :
        /\ IsPurchase(n)
        /\ call[n].chain # call'[n].chain
        /\ call'[n].chain \in {"refused", "failed"}
        /\ Payer(call[n].request) \in MaySpend[call[n].request.wallet]
        /\ Purchasable(Payer(call[n].request), call[n].request.shares)
        => \/ offering.buy_ins # call[n].seen
           \/ ~ Sale!MetadataAccepted(offering.buy_ins + 1) ]_vars

\* The transaction of call n lands, an edit by the offering's authority, and the
\* texts become the ones it gave, where it gave one.
EditLands(n) ==
  LET edit == call[n].request IN
    /\ call[n].method = "updateOffering"
    /\ call[n].chain = "sent" /\ call'[n].chain = "landed"
    /\ edit.wallet = offering.authority
    /\ offering'.title = IF edit.title = None THEN offering.title ELSE edit.title
    /\ offering'.symbol = IF edit.symbol = None THEN offering.symbol ELSE edit.symbol
    /\ offering'.nft_uri = IF edit.uri = None THEN offering.nft_uri ELSE edit.uri

\* The texts of an offering change only by a landed edit of its authority, and
\* in the fields that edit gave a text for: a null never takes back what
\* another edit, sent from an older reading, has written.
TextsChangeByEditOnly ==
  offering # NoAccount =>
    \/ UNCHANGED <<offering.title, offering.symbol, offering.nft_uri>>
    \/ \E n \in DOMAIN call : EditLands(n)
EditsTouchWhatTheyName == [][TextsChangeByEditOnly]_vars

\* fetchBuyInsForBeneficiary() finds every buy-in of a wallet and no other, and
\* fetchBuyInsForOffering() all of them, each with its own index and shares:
\* the filters look where the program keeps the field.
HoldingsComplete ==
  state # "Uninitialized" =>
    /\ \A w \in Wallets :
         {<<b.index, b.shares, b.tokenMint>> : b \in fetchBuyInsForBeneficiary(w)}
           = {<<i, buy_in[i].shares, buy_in[i].token_mint>> :
                i \in {j \in DOMAIN buy_in : buy_in[j].beneficiary = w}}
    /\ {b.index : b \in fetchBuyInsForOffering(offering_address)} = DOMAIN buy_in

\* The offering the client shows is the one the program keeps, field by field,
\* after three copies by position: struct to IDL, IDL to constructor.
ViewsFaithful ==
  state # "Uninitialized" =>
    LET view == OfferingAccount IN
      /\ view.authority = offering.authority
      /\ view.initialShares - view.boughtShares = Sale!AvailableShares
      /\ view.buyIns = offering.buy_ins
      /\ view.pricePerShare = offering.price_per_share
      /\ <<view.title, view.symbol, view.nftUri>>
           = <<offering.title, offering.symbol, offering.nft_uri>>
      /\ view.state = state

\* Offering::SPACE, allocated once: the longest texts validate() lets an edit
\* store still fit, so no accepted edit fails for want of room.
OFFERING_SPACE == 8 + 32 + 2 + 2 + 2 + 32 + 32 + 8 + 1
                    + (4 + 31) + (4 + 7) + (4 + 200)
AccountsFit ==
  state # "Uninitialized" =>
    OffsetOf(OfferingTypes, Len(OfferingTypes) + 1)
      + offering.title + offering.symbol + offering.nft_uri <= OFFERING_SPACE
=============================================================================
