---------------------------------- MODULE Idl ----------------------------------
(***************************************************************************)
(* The interface of the Pendulum program as packages/sdk/src/idl/pendulum  *)
(* describes it: for each instruction the accounts it takes, in order, and *)
(* for each account type its fields, in order.  The position of an account *)
(* or a field is all that reaches the program or the client: names exist   *)
(* on both sides only.                                                     *)
(***************************************************************************)
EXTENDS Integers, Sequences

-----------------------------------------------------------------------------
(* Instructions: `accounts` in order, the ones that are isMut, isSigner *)

initNewOffering ==
  [accounts |-> <<"initiator", "offering", "paymentsTokenAccount", "paymentMint",
                  "systemProgram", "tokenProgram", "associatedTokenProgram">>,
   mut |-> {"initiator", "offering", "paymentsTokenAccount"},
   signer |-> {"initiator", "offering"}]

updateOffering ==
  [accounts |-> <<"authority", "offering">>,
   mut |-> {"authority", "offering"},
   signer |-> {"authority"}]

purchaseSharesStale ==
  [accounts |-> <<"buyer", "buyerTokenAccount", "offering", "buyIn",
                  "paymentsTokenAccount", "nftMint", "nftMetadata",
                  "nftMasterEdition", "beneficiaryTokenAccount",
                  "beneficiaryAccount", "tokenMetadataProgram",
                  "associatedTokenProgram", "systemProgram", "tokenProgram", "rent">>,
   mut |-> {"buyer", "buyerTokenAccount", "offering", "buyIn",
            "paymentsTokenAccount", "nftMint", "nftMetadata",
            "nftMasterEdition", "beneficiaryTokenAccount"},
   signer |-> {"buyer", "nftMint"}]
purchaseShares ==
  [accounts |-> <<"buyer", "buyerTokenAccount", "offering", "buyIn",
                  "paymentsTokenAccount", "nftMint", "nftMetadata",
                  "nftMasterEdition", "beneficiaryAccount",
                  "beneficiaryTokenAccount", "tokenMetadataProgram",
                  "associatedTokenProgram", "systemProgram", "tokenProgram", "rent">>,
   mut |-> {"buyer", "buyerTokenAccount", "offering", "buyIn",
            "paymentsTokenAccount", "nftMint", "nftMetadata",
            "nftMasterEdition", "beneficiaryTokenAccount"},
   signer |-> {"buyer", "nftMint"}]

initDistribution ==
  [accounts |-> <<"offering", "paymentsTokenAccount", "payer", "authority",
                  "distribution", "distributionTokenAccount", "distributionMint",
                  "multisig", "multisigVault", "multisigVaultTokenAccount",
                  "proposal", "vaultTransaction", "ephemeralCreateKey",
                  "systemProgram", "squadsProgram", "clockworkMultisigThread",
                  "clockworkDisburseThread", "clockworkThreadProgram",
                  "tokenProgram">>,
   mut |-> {"offering", "payer", "distribution", "distributionTokenAccount",
            "clockworkMultisigThread", "clockworkDisburseThread"},
   signer |-> {"payer", "authority", "distributionTokenAccount",
               "ephemeralCreateKey"}]

kickoffMultisigVaultTransaction ==
  [accounts |-> <<"offering", "payer", "distribution", "distributionRound",
                  "multisig", "proposal", "vaultTransaction", "squadsProgram",
                  "clockworkThread", "clockworkThreadProgram", "systemProgram",
                  "tokenProgram">>,
   mut |-> {"offering", "payer", "distribution", "distributionRound",
            "clockworkThread"},
   signer |-> {"payer"}]

executeMultisigVaultTransaction ==
  [accounts |-> <<"offering", "distribution", "distributionRound",
                  "distributionTokenAccount", "multisig", "multisigVault",
                  "multisigVaultTokenAccount", "squadsV4Program", "proposal",
                  "vaultTransaction", "systemProgram", "tokenProgram",
                  "thisProgram">>,
   mut |-> {"offering", "distribution", "distributionTokenAccount",
            "multisigVault", "multisigVaultTokenAccount"},
   signer |-> {}]

\* What an instruction's handler sees: the key passed at the position where
\* `declared` has each name.  An instruction with fewer keys than names is
\* refused; keys beyond the names are ignored.
Binds(declared, keys) == Len(keys) >= Len(declared)
Bound(declared, keys) ==
  [name \in {declared[k] : k \in 1..Len(declared)} |->
     keys[CHOOSE k \in 1..Len(declared) : declared[k] = name]]

-----------------------------------------------------------------------------
(* Account types: <<field, type>> in order *)

OfferingIdl ==
  << <<"authority", "publicKey">>, <<"initialShares", "u16">>,
     <<"boughtShares", "u16">>, <<"buyIns", "u16">>,
     <<"paymentMint", "publicKey">>, <<"paymentsTokenAccount", "publicKey">>,
     <<"pricePerShare", "u64">>, <<"state", "OfferingState">>,
     <<"title", "string">>, <<"symbol", "string">>, <<"nftUri", "string">> >>

BuyInIdl ==
  << <<"offering", "publicKey">>, <<"index", "u16">>, <<"shares", "u16">>,
     <<"timestamp", "i64">>, <<"beneficiary", "publicKey">>,
     <<"tokenMint", "publicKey">> >>

\* Bytes of a value of each type that has a fixed size; of a string, its length
\* prefix.
Width(type) ==
  CASE type = "publicKey" -> 32
    [] type \in {"u64", "i64"} -> 8
    [] type = "u16" -> 2
    [] type = "OfferingState" -> 1
    [] type = "string" -> 4

DISCRIMINATOR == 8

\* Where the k-th field starts in an account's data, after the eight bytes of
\* the discriminator; for k one past the last field, the size of the data.
OffsetOf(types, k) ==
  LET start[i \in 1..k] ==
        IF i = 1 THEN DISCRIMINATOR ELSE start[i - 1] + Width(types[i - 1])
  IN start[k]

\* What the client decodes from the values the program wrote in order.
Decoded(fields, values) ==
  [name \in {fields[k][1] : k \in 1..Len(fields)} |->
     values[CHOOSE k \in 1..Len(fields) : fields[k][1] = name]]
=============================================================================
