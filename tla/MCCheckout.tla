----------------------------- MODULE MCCheckout -----------------------------
(* Small instances of Checkout for TLC.                                    *)
EXTENDS Checkout, TLC

CONSTANTS k1, k2, c1, pSup, pOwn, pAny

MCQty == (pSup :> 1) @@ (pOwn :> 2)
MCStock == (pSup :> 1) @@ (pOwn :> 3)
MCLists == {{pSup, pOwn}, {pOwn, pAny}}
MCSymmetry == Permutations(Calls)
=============================================================================
