----------------------------- MODULE MCCleanByWWN -----------------------------
(* One FC volume with two paths, disconnected by its WWN over and over.        *)
EXTENDS CleanByWWN, TLC

WWNSymmetry == Permutations(Path) \cup Permutations(Map)
================================================================================
