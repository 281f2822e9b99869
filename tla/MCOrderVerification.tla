------------------------ MODULE MCOrderVerification ------------------------
(* OrderVerification with three requests at a time.                        *)
EXTENDS OrderVerification, TLC

MCSymmetry == Permutations(Callers)
=============================================================================
