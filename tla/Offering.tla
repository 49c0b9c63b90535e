------------------------------- MODULE Offering -------------------------------
(***************************************************************************)
(* The share sale of the Pendulum program: the `Offering` account and the  *)
(* three instructions that touch it before a distribution exists,          *)
(* init_new_offering, update_offering and purchase_shares, together with   *)
(* the token, NFT and buy-in accounts a purchase writes.                   *)
(*                                                                         *)
(* A Solana transaction is atomic: an Err, a failed constraint, a failed   *)
(* CPI or a panic (checked_*().unwrap()) undoes all of it.  Every way a    *)
(* handler can abort is therefore a guard of its action.                   *)
(*                                                                         *)
(* Texts are represented by their byte length, the only thing the code     *)
(* looks at.  Integer widths are kept: U16Max and U64Max are the largest   *)
(* values of u16 and u64, scaled down in the model-checking runs.          *)
(***************************************************************************)
EXTENDS Integers, FiniteSetsExt

CONSTANTS
  Wallets,     \* keys that administer, buy and receive
  Mints,       \* fresh keypairs a buyer can bring as `nft_mint`
  Funds,       \* payment tokens each wallet starts with
  Prices,      \* values of `price_per_share` tried
  Titles,      \* byte lengths of titles tried
  Symbols,     \* byte lengths of symbols tried
  Uris,        \* byte lengths of NFT uris tried
  U16Max,      \* u16::MAX
  U64Max,      \* u64::MAX
  MaxClock,    \* bound on the clock
  NoAccount    \* an account that does not exist

ASSUME WidthsAssumption ==
  /\ U16Max \in Nat
  /\ U64Max \in Nat
  /\ MaxClock \in Nat

ASSUME InputsAssumption ==
  /\ Funds \in [Wallets -> Nat]
  /\ Prices \subseteq 0..U64Max
  /\ Titles \subseteq Nat
  /\ Symbols \subseteq Nat
  /\ Uris \subseteq Nat

\* At any time there are finitely many token accounts.
ASSUME WalletsAssumption == IsFiniteSet(Wallets)

VARIABLES
  state,       \* Offering.state, or "Uninitialized" before the account exists
  offering,    \* the other fields of the Offering account, or NoAccount
  buy_in,      \* the BuyIn accounts, by the index in their address
  nft,         \* the NFTs minted so far, by mint
  tokens,      \* payment tokens in each wallet's token account
  payments,    \* payment tokens in the offering's payments_token_account
  now          \* the cluster's unix timestamp

vars == <<state, offering, buy_in, nft, tokens, payments, now>>

OfferingStates ==
  {"Uninitialized", "BuyInActive", "BuyInEnded", "DistributionActive"}

OfferingAccount ==
  [authority : Wallets, initial_shares : 0..U16Max, price_per_share : 0..U64Max,
   bought_shares : 0..U16Max, buy_ins : 0..U16Max,
   title : Nat, symbol : Nat, nft_uri : Nat]

BuyIn ==
  [index : 0..U16Max, shares : 0..U16Max, timestamp : Nat,
   beneficiary : Wallets, token_mint : Mints]

\* An NFT: who it was minted to, and the buy-in that is its update authority
\* and creator.
Nft == [minted_to : Wallets, update_authority : 0..U16Max]

ASSUME NoAccountAssumption == NoAccount \notin OfferingAccount

\* The accounts of `f` and one more.
WithAccount(f, key, account) ==
  [k \in DOMAIN f \cup {key} |-> IF k = key THEN account ELSE f[k]]

Init ==
  /\ state = "Uninitialized"
  /\ offering = NoAccount
  /\ buy_in = [i \in {} |-> NoAccount]
  /\ nft = [m \in {} |-> NoAccount]
  /\ tokens = Funds
  /\ payments = 0
  /\ now = 1

-----------------------------------------------------------------------------
(* init_new_offering and update_offering *)

MAX_TITLE_LEN == 32 - 1
MAX_SYMBOL_LEN == 10 - 3
MAX_URI_LEN == 200

ValidNames(title, symbol, uri) ==
  title <= MAX_TITLE_LEN /\ symbol <= MAX_SYMBOL_LEN
Valid(title, symbol, uri) ==
  /\ title <= MAX_TITLE_LEN
  /\ symbol <= MAX_SYMBOL_LEN
  /\ uri <= MAX_URI_LEN

\* Creates the payments token account and the offering; no payment has been
\* made to an account that did not exist.
InitNewOffering(authority, initial_shares, price, title, symbol, uri) ==
  /\ state = "Uninitialized"
  /\ Valid(title, symbol, uri)
  /\ state' = "BuyInActive"
  /\ offering' =
       [authority |-> authority, initial_shares |-> initial_shares,
        price_per_share |-> price, bought_shares |-> 0, buy_ins |-> 0,
        title |-> title, symbol |-> symbol, nft_uri |-> uri]
  /\ UNCHANGED <<buy_in, nft, tokens, payments, now>>

TextsEditable == state \in {"BuyInActive", "BuyInEnded"}

\* An argument that is None leaves its field: the caller passes the present
\* value for it here.
UpdateOffering(signer, new_title, new_symbol, new_uri) ==
  /\ TextsEditable
  /\ signer = offering.authority
  /\ Valid(new_title, new_symbol, new_uri)
  /\ offering' = [offering EXCEPT !.title = new_title,
                                  !.symbol = new_symbol, !.nft_uri = new_uri]
  /\ UNCHANGED <<state, buy_in, nft, tokens, payments, now>>

-----------------------------------------------------------------------------
(* purchase_shares *)

OpenAnyTime == state # "Uninitialized"
Open == state = "BuyInActive"

AvailableSharesIgnoresSold == offering.initial_shares
AvailableShares == offering.initial_shares - offering.bought_shares

PaymentPerPurchase(shares) == offering.price_per_share
Payment(shares) == shares * offering.price_per_share

\* The buy_in account passed in must be the address derived from buy_ins + 1
\* and must not exist yet (`init`).
IsNewBuyInReusable(index) == index \in 1..(offering.buy_ins + 1)
IsNewBuyIn(index) ==
  /\ index = offering.buy_ins + 1
  /\ index <= U16Max
  /\ index \notin DOMAIN buy_in

\* Clock::default() is the zero clock, not the cluster's.
DefaultTimestamp == 0

BuyInRecordSwapped(index, shares, beneficiary, mint) ==
  [index |-> index, shares |-> index, timestamp |-> DefaultTimestamp,
   beneficiary |-> beneficiary, token_mint |-> mint]
BuyInRecord(index, shares, beneficiary, mint) ==
  [index |-> index, shares |-> shares, timestamp |-> DefaultTimestamp,
   beneficiary |-> beneficiary, token_mint |-> mint]

\* Length of "-{n}", n in decimal with at most the five digits of a u16.
SuffixLen(n) == 2 + Cardinality({d \in 1..4 : 10^d <= n})

\* The length limits of the token metadata program on the minted NFT.
MetadataAccepted(index) ==
  /\ offering.title + SuffixLen(index) <= 32
  /\ offering.symbol + SuffixLen(index) <= 10
  /\ offering.nft_uri <= 200

DebitNothing(buyer, amount) == tokens
Debit(buyer, amount) == [tokens EXCEPT ![buyer] = @ - amount]

\* Mint, beneficiary's token account, metadata and master edition: all of a
\* mint that must be new.
MintNftTwice(mint, beneficiary, index) ==
  /\ MetadataAccepted(index)
  /\ nft' = WithAccount(nft, mint,
              [minted_to |-> beneficiary, update_authority |-> index])
MintNft(mint, beneficiary, index) ==
  /\ mint \notin DOMAIN nft
  /\ MetadataAccepted(index)
  /\ nft' = WithAccount(nft, mint,
              [minted_to |-> beneficiary, update_authority |-> index])

\* `buyer` is the owner of the tokens that pay: who signs, or somebody who lets
\* the signer spend them.
PurchaseShares(buyer, shares, beneficiary, mint, index) ==
  /\ Open
  /\ IsNewBuyIn(index)
  /\ shares <= AvailableShares
  /\ Payment(shares) <= U64Max
  /\ Payment(shares) <= tokens[buyer]
  /\ tokens' = Debit(buyer, Payment(shares))
  /\ payments' = payments + Payment(shares)
  /\ MintNft(mint, beneficiary, index)
  /\ offering' = [offering EXCEPT !.bought_shares = @ + shares,
                                  !.buy_ins = @ + 1]
  /\ buy_in' = WithAccount(buy_in, index,
                 BuyInRecord(index, shares, beneficiary, mint))
  /\ UNCHANGED <<state, now>>

Tick ==
  /\ now < MaxClock
  /\ now' = now + 1
  /\ UNCHANGED <<state, offering, buy_in, nft, tokens, payments>>

-----------------------------------------------------------------------------

\* The instructions anybody may submit, with every argument.
SaleStep ==
  \/ \E authority \in Wallets, n \in 0..U16Max, price \in Prices,
        title \in Titles, symbol \in Symbols, uri \in Uris :
        InitNewOffering(authority, n, price, title, symbol, uri)
  \/ \E signer \in Wallets, title \in Titles, symbol \in Symbols, uri \in Uris :
        UpdateOffering(signer, title, symbol, uri)
  \/ \E buyer \in Wallets, beneficiary \in Wallets, mint \in Mints,
        shares \in 0..U16Max, index \in 1..U16Max :
        PurchaseShares(buyer, shares, beneficiary, mint, index)

Next == SaleStep \/ Tick

Spec == Init /\ [][Next]_vars

-----------------------------------------------------------------------------
(* Properties *)

\* Every account holds values of the widths state.rs declares, and the
\* offering exists exactly when it has left "Uninitialized".
TypeOK ==
  /\ state \in OfferingStates
  /\ offering \in OfferingAccount \cup {NoAccount}
  /\ offering = NoAccount <=> state = "Uninitialized"
  /\ DOMAIN buy_in \subseteq 1..U16Max
  /\ buy_in \in [DOMAIN buy_in -> BuyIn]
  /\ DOMAIN nft \subseteq Mints
  /\ nft \in [DOMAIN nft -> Nft]
  /\ tokens \in [Wallets -> Nat]
  /\ payments \in Nat
  /\ now \in Nat

\* `total` is the sum of the shares of buy-ins 1..n: there are running sums
\* from 0 up to it.
IsSumOfShares(total, n) ==
  \E sum \in [0..n -> 0..total] :
    /\ sum[0] = 0
    /\ \A i \in 1..n : sum[i] = sum[i - 1] + buy_in[i].shares
    /\ sum[n] = total

\* The counter the sale is limited by (Offering.bought_shares) is exactly what
\* the BuyIn accounts, which earnings are paid on, add up to, and never more
\* than was offered.
SharesAccounted ==
  state # "Uninitialized" =>
    /\ IsSumOfShares(offering.bought_shares, offering.buy_ins)
    /\ offering.bought_shares <= offering.initial_shares

\* The payments account holds the price of every share ever sold.
PaymentsMatchShares ==
  payments = IF state = "Uninitialized" THEN 0
             ELSE offering.bought_shares * offering.price_per_share

\* purchase_shares neither creates nor destroys payment tokens: what left the
\* buyers' token accounts is in the offering's.
TokensConserved ==
  payments + MapThenSumSet(LAMBDA w : tokens[w], Wallets)
    = MapThenSumSet(LAMBDA w : Funds[w], Wallets)

\* Buy-ins are numbered 1..buy_ins without a gap, and each owns one NFT, minted
\* to its beneficiary, whose update authority is that buy-in and no other; no
\* NFT exists beside them.
BuyInsOwnTheirNfts ==
  /\ DOMAIN buy_in = IF state = "Uninitialized" THEN {} ELSE 1..offering.buy_ins
  /\ \A i \in DOMAIN buy_in :
       LET mint == buy_in[i].token_mint IN
         /\ buy_in[i].index = i
         /\ mint \in DOMAIN nft
         /\ nft[mint] = [minted_to |-> buy_in[i].beneficiary, update_authority |-> i]
  /\ \A m \in DOMAIN nft :
       \E i \in DOMAIN buy_in : buy_in[i].token_mint = m

\* No later instruction, stale client or re-used address changes a purchase
\* that was made: buy-ins and NFTs are only ever added.
PurchasesAreFinal ==
  [][ /\ \A i \in DOMAIN buy_in : i \in DOMAIN buy_in' /\ buy_in'[i] = buy_in[i]
      /\ \A m \in DOMAIN nft : m \in DOMAIN nft' /\ nft'[m] = nft[m] ]_vars
=============================================================================
