------------------------------ MODULE Addresses ------------------------------
(***************************************************************************)
(* The addresses both sides derive: the client with the functions of       *)
(* packages/sdk/src/utils.ts, the program with the seeds of its account    *)
(* constraints.  A derived address is an injective function of the program *)
(* and the concatenated seeds (that it is injective is what the hash is    *)
(* for); a key or a text is one seed element, an integer one per byte.     *)
(***************************************************************************)
EXTENDS Integers, Sequences

CONSTANTS
  PROGRAM_ID,                 \* the Pendulum program the client was given
  TOKEN_METADATA_PROGRAM_ID,
  ASSOCIATED_TOKEN_PROGRAM_ID

FindProgramAddress(seeds, program) == <<program>> \o seeds

\* The token account of `owner` for `mint`, as utils.token.associatedAddress
\* and the associated token program derive it.
AssociatedAddress(mint, owner) ==
  FindProgramAddress(<<owner, mint>>, ASSOCIATED_TOKEN_PROGRAM_ID)

\* BN.toBuffer("le", width)
ToBuffer(n, width) ==
  LET rest[k \in 1..width] == IF k = 1 THEN n ELSE rest[k - 1] \div 256
  IN [k \in 1..width |-> rest[k] % 256]

-----------------------------------------------------------------------------
(* utils.ts *)

deriveBuyInAddress(offering, index, program) ==
  FindProgramAddress(<<"buy-in", offering>> \o ToBuffer(index, 8), program)

deriveDistributionAddress(offering, program) ==
  FindProgramAddress(<<"distribution", offering>>, program)

deriveDistributionRoundAddress(distribution, index, program) ==
  FindProgramAddress(<<"round", distribution>> \o ToBuffer(index, 8), program)

deriveMplMetadataAddress(mint) ==
  FindProgramAddress(<<"metadata", TOKEN_METADATA_PROGRAM_ID, mint>>,
                     TOKEN_METADATA_PROGRAM_ID)

deriveMplMasterEditionAddress(mint) ==
  FindProgramAddress(<<"metadata", TOKEN_METADATA_PROGRAM_ID, mint, "edition">>,
                     TOKEN_METADATA_PROGRAM_ID)

-----------------------------------------------------------------------------
(* The program and the token metadata program *)

\* u16 as u64, to_le_bytes(): only the two low bytes can be other than zero.
U64LeBytes(n) ==
  <<n % 256, n \div 256>> \o [k \in 1..6 |-> 0]

BuyInAddress(offering, index) ==
  FindProgramAddress(<<"buy-in", offering>> \o U64LeBytes(index), PROGRAM_ID)

\* u16, to_le_bytes()
RoundAddress(distribution, index) ==
  FindProgramAddress(<<"round", distribution, index % 256, index \div 256>>,
                     PROGRAM_ID)

MetadataAddress(mint) ==
  <<TOKEN_METADATA_PROGRAM_ID, "metadata", TOKEN_METADATA_PROGRAM_ID, mint>>

MasterEditionAddress(mint) == Append(MetadataAddress(mint), "edition")
=============================================================================
