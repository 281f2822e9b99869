-------------------------- MODULE MCStoreRetention --------------------------
(* StoreRetention with a window of two days and warnings on both.          *)
EXTENDS StoreRetention, TLC

MCLevels == {"below", "ok"}
MCSolventLevels == {"low", "ok"}
MCMilestones == {0, 1}
MCSymmetry == Permutations(Stores)
=============================================================================
