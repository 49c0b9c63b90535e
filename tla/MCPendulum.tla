------------------------------ MODULE MCPendulum ------------------------------
(* Instance of Pendulum for TLC. *)
EXTENDS Pendulum, TLC

CONSTANTS alice, bob, m1, m2

MCFunds == alice :> 2 @@ bob :> 1
=============================================================================
