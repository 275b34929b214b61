------------------------------- MODULE Throttle -------------------------------
(***************************************************************************)
(* What a rate limiter promises, with no cache, ticker or mutex: a key is  *)
(* granted only when more than Ttl time units have passed since its last   *)
(* grant.  RateLock is shown to implement it.                              *)
(***************************************************************************)
EXTENDS Integers

CONSTANTS Key,  \* the names that are limited
          Ttl   \* how long a grant closes its key

VARIABLES now,        \* the clock
          closedUntil \* per key, the last instant at which it is closed

vars == <<now, closedUntil>>

Init == /\ now = 0
        /\ closedUntil = [k \in Key |-> -1]

Grant(k) == /\ now > closedUntil[k]
            /\ closedUntil' = [closedUntil EXCEPT ![k] = now + Ttl]
            /\ UNCHANGED now

Advance == /\ now' = now + 1
           /\ UNCHANGED closedUntil

Next == Advance \/ \E k \in Key : Grant(k)

Spec == Init /\ [][Next]_vars

================================================================================
