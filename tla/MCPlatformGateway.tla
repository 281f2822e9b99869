-------------------------- MODULE MCPlatformGateway --------------------------
(* PlatformGateway on one template that is requested twice.  Of the two    *)
(* payments that were made one has the wrong amount and of the other the   *)
(* gateway reports none; the third reference is of no payment.             *)
EXTENDS PlatformGateway, TLC

CONSTANTS wrong, silent, forged

MCItem == [r \in Requests |-> CHOOSE k \in Items : TRUE]
MCPrice == [k \in Items |-> 2]
MCReported == (wrong :> 1) @@ (silent :> None) @@ (forged :> None)
=============================================================================
