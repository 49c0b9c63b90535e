------------------------------ MODULE MCOffering ------------------------------
(* Instance of Offering for TLC, and what comments of the repository say of  *)
(* the sale.                                                                 *)
EXTENDS Offering, TLC

CONSTANTS alice, bob, m1, m2, m3

MCFunds == alice :> 5 @@ bob :> 2
MCSymmetry == Permutations(Mints)

-----------------------------------------------------------------------------
(* Claims of the repository's comments *)

\* state.rs:35, the title limit leaves "space left to append `-{buy-in index}`":
\* the texts of an open offering never make the token metadata program refuse
\* the next NFT.
NextNftFits ==
  state = "BuyInActive" => MetadataAccepted(offering.buy_ins + 1)
=============================================================================
