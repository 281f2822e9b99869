------------------------------ MODULE MCWallet ------------------------------
(* Wallet on one seller: everything is worth one unit.                     *)
EXTENDS Wallet, TLC

MCOwner == [r \in Rows |-> CHOOSE s \in Sellers : TRUE]
MCPrice == [r \in TopUps \cup Payouts |-> 1]
MCPostAmounts == {1}
MCSymmetry == Permutations(Actors) \cup Permutations(PlanFees) \cup Permutations(Payouts)
(* Bound: at most one row is overtaken.                                    *)
MCBound == Cardinality(overtaken) <= 1
=============================================================================
