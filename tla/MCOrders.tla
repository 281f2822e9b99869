------------------------------ MODULE MCOrders ------------------------------
(* Orders with an own and a supplied item of one unit each.                *)
EXTENDS Orders, TLC

MCSymmetry == Permutations(Callers) \cup Permutations(Requests)

(* The payment model is looked at while the order is pending, and no order *)
(* becomes pending again: states that differ in it are the same from there.*)
MCView == <<IF status = "pending" THEN model ELSE None, status, total, lines, returns, books, call,
            overwrote>>

(* Every step that overwrites is checked; what follows it, when only a     *)
(* refund wrote the status unseen, which most properties put up with.      *)
MCOverwritten == overwrote \in {{}, {"refund"}}
=============================================================================
