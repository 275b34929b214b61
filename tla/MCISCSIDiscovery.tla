--------------------------- MODULE MCISCSIDiscovery ---------------------------
(* Two or three sessions that race their connect function.                   *)
EXTENDS ISCSIDiscovery, TLC

SessionSymmetry == Permutations(Session)
===============================================================================
