---------------------------- MODULE MCCleanDevices ----------------------------
(* One volume with two paths, cleaned over and over.  OneCallSpec looks at a   *)
(* single call that begins in any state of the host: the host moves while the *)
(* call runs, which is all its safety depends on.                             *)
EXTENDS CleanDevices, TLC

OneCall == /\ \/ /\ \E c \in Caller : pc[c] # "idle"
                 /\ HostNext
                 /\ UNCHANGED call
              \/ \E c \in Caller : \/ res[c] = "none" /\ Start(c)
                                   \/ Step(c) \/ Hang(c) \/ FlushTimeout(c) \/ CtxDone(c)
           /\ Remember

OneCallSpec == Init /\ [][OneCall]_vars

HostSymmetry == Permutations(Path) \cup Permutations(Map)
================================================================================
