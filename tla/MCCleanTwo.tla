------------------------------ MODULE MCCleanTwo ------------------------------
(* Two calls on one volume, on a host where nothing else happens: what they   *)
(* do to each other.  One call each, no blocked path, host event, hang or      *)
(* timeout.                                                                   *)
EXTENDS CleanDevices, TLC

CallsOnly == /\ \E c \in Caller : (res[c] = "none" /\ Start(c)) \/ Step(c)
             /\ Remember

QuietInit == Init /\ multipathd = "down" /\ blocked = {} /\ members \in {{}, attached}

TwoSpec == QuietInit /\ [][CallsOnly]_vars

TwoSymmetry == Permutations(Path) \cup Permutations(Caller)
================================================================================
