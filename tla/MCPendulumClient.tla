--------------------------- MODULE MCPendulumClient ---------------------------
(* Instance of PendulumClient for TLC: an offering of alice's, bought from by  *)
(* both, with one token short of what bob would like to spend.  bob may spend  *)
(* alice's tokens, but not the other way round.                                *)
EXTENDS PendulumClient, TLC

CONSTANTS alice, bob, k1, k2, k3, k4

MCKeypair == SubSeq(<<k1, k2, k3, k4>>, 1, MaxCalls)
MCFunds == alice :> 5 @@ bob :> 2
MCMaySpend == alice :> {alice} @@ bob :> {alice, bob}

MCOffers ==
  {[wallet |-> bob, authority |-> alice, initial_shares |-> 3, price |-> 1,
    title |-> 29, symbol |-> 7, uri |-> 200]}
MCEdits ==
  {[wallet |-> alice, title |-> 31, symbol |-> None, uri |-> None],
   [wallet |-> alice, title |-> None, symbol |-> 4, uri |-> None],
   [wallet |-> alice, title |-> None, symbol |-> None, uri |-> 201],
   [wallet |-> bob, title |-> 5, symbol |-> None, uri |-> None]}
MCOrders ==
  {[wallet |-> alice, beneficiary |-> alice, shares |-> 1, fromTokenAccount |-> None],
   [wallet |-> bob, beneficiary |-> alice, shares |-> 2, fromTokenAccount |-> bob],
   [wallet |-> bob, beneficiary |-> bob, shares |-> 1, fromTokenAccount |-> alice],
   [wallet |-> alice, beneficiary |-> alice, shares |-> 1, fromTokenAccount |-> bob]}
=============================================================================
