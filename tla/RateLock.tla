------------------------------- MODULE RateLock -------------------------------
(***************************************************************************)
(* sync_tools.go: ttlCache (a map of expiring entries that a background    *)
(* goroutine purges on every tick) and rateLock, whose RateCheck tells the *)
(* iSCSI login loop whether it may try a target again.                     *)
(*                                                                         *)
(* Get never looks at expireTime, so only purge reopens a key; RateCheck   *)
(* is a read followed by a write under r.m, and the purge goroutine, which *)
(* does not take r.m, runs between the two.                                *)
(***************************************************************************)
EXTENDS Integers

CONSTANTS Caller,     \* goroutines that call RateCheck
          Key,        \* portal:target strings used as rate keys
          Ttl,        \* failedSessionMinimumLoginRetryInterval, clock units
          TickEvery,  \* period of the cache's ticker, clock units
          MaxTime,    \* bound of the clock
          NoOne       \* r.m is free

ASSUME RateAssumption == /\ Ttl \in Nat
                         /\ TickEvery \in Nat \ {0}
                         /\ MaxTime \in Nat
                         /\ NoOne \notin Caller

NoEntry == -1  \* the key is not in the cache's map
Never   == -1  \* the key was never granted

VARIABLES now,       \* time.Now()
          entries,   \* ttlCache.entries: key -> expireTime
          tickC,     \* a tick waits in ticker.C (capacity 1)
          stopped,   \* ticker.Stop() was called
          m,         \* holder of rateLock.m
          pc, key,   \* per caller: where it is, the key it asks for
          lastGrant  \* history: when each key was last granted

vars == <<now, entries, tickC, stopped, m, pc, key, lastGrant>>

Init == /\ now = 0
        /\ entries = [k \in Key |-> NoEntry]
        /\ tickC = FALSE
        /\ stopped = FALSE
        /\ m = NoOne
        /\ pc = [c \in Caller |-> "idle"]
        /\ key \in [Caller -> Key]
        /\ lastGrant = [k \in Key |-> Never]

-------------------------------------------------------------------------------
(* The cache's goroutine and its clock.                                    *)

\* Time passes; every TickEvery units the ticker offers a tick, which is
\* dropped when the last one is still waiting.
Clock == /\ now < MaxTime
         /\ now' = now + 1
         /\ tickC' = (tickC \/ (~stopped /\ now' % TickEvery = 0))
         /\ UNCHANGED <<entries, stopped, m, pc, key, lastGrant>>

\* Mutant of Expired: an entry goes in the instant it expires.
ExpiredEarly(k) == entries[k] <= now

\* Mutant of Expired: the comparison is turned round.
ExpiredInverted(k) == now < entries[k]

Expired(k) == entries[k] < now

\* for range ticker.C { purge() }, atomic under the cache's mutex.
Purge == /\ tickC
         /\ tickC' = FALSE
         /\ entries' = [k \in Key |-> IF Expired(k) THEN NoEntry ELSE entries[k]]
         /\ UNCHANGED <<now, stopped, m, pc, key, lastGrant>>

\* Nothing in the connectors calls Stop; the tests do.
Stop == /\ ~stopped
        /\ stopped' = TRUE
        /\ UNCHANGED <<now, entries, tickC, m, pc, key, lastGrant>>

-------------------------------------------------------------------------------
(* RateCheck.                                                              *)

Call(c, k) == /\ pc[c] = "idle"
              /\ pc' = [pc EXCEPT ![c] = "lock"]
              /\ key' = [key EXCEPT ![c] = k]
              /\ UNCHANGED <<now, entries, tickC, stopped, m, lastGrant>>

Lock(c) == /\ pc[c] = "lock"
           /\ m = NoOne
           /\ m' = c
           /\ pc' = [pc EXCEPT ![c] = "get"]
           /\ UNCHANGED <<now, entries, tickC, stopped, key, lastGrant>>

\* Mutant of the next definition: no deferred Unlock, none before this return.
RefuseLocked(c) == /\ pc[c] = "get"
                   /\ entries[key[c]] # NoEntry
                   /\ pc' = [pc EXCEPT ![c] = "idle"]
                   /\ UNCHANGED <<now, entries, tickC, stopped, m, key, lastGrant>>

\* Found: return false, the deferred Unlock runs.
Refuse(c) == /\ pc[c] = "get"
             /\ entries[key[c]] # NoEntry
             /\ m' = NoOne
             /\ pc' = [pc EXCEPT ![c] = "idle"]
             /\ UNCHANGED <<now, entries, tickC, stopped, key, lastGrant>>

NotFound(c) == /\ pc[c] = "get"
               /\ entries[key[c]] = NoEntry
               /\ pc' = [pc EXCEPT ![c] = "set"]
               /\ UNCHANGED <<now, entries, tickC, stopped, m, key, lastGrant>>

\* Mutant of the next definition: the ttl, a Duration, is taken for seconds.
ExpireTimeScaled == now + 1000 * Ttl

ExpireTime == now + Ttl

\* SetWithTTL stamps the entry with the time of the write, not of the read.
SetEntry(c) == /\ pc[c] = "set"
               /\ entries' = [entries EXCEPT ![key[c]] = ExpireTime]
               /\ lastGrant' = [lastGrant EXCEPT ![key[c]] = now]
               /\ m' = NoOne
               /\ pc' = [pc EXCEPT ![c] = "idle"]
               /\ UNCHANGED <<now, tickC, stopped, key>>

RateCheck(c) == Lock(c) \/ Refuse(c) \/ NotFound(c) \/ SetEntry(c)

Next == \/ Clock \/ Purge \/ Stop
        \/ \E c \in Caller : RateCheck(c)
        \/ \E c \in Caller, k \in Key : Call(c, k)

Spec == Init /\ [][Next]_vars

\* The ticker goroutine runs, time passes, a caller inside RateCheck goes on,
\* and sync.Mutex hands itself to a waiter that starves (its starvation mode):
\* strong fairness of Lock.
Fairness == /\ WF_vars(Clock) /\ WF_vars(Purge)
            /\ \A c \in Caller : /\ SF_vars(Lock(c))
                                 /\ WF_vars(Refuse(c) \/ NotFound(c) \/ SetEntry(c))

FairSpec == Spec /\ Fairness

-------------------------------------------------------------------------------
TypeOK == /\ now \in 0..MaxTime
          /\ entries \in [Key -> 0..(MaxTime + Ttl) \cup {NoEntry}]
          /\ tickC \in BOOLEAN
          /\ stopped \in BOOLEAN
          /\ m \in Caller \cup {NoOne}
          /\ pc \in [Caller -> {"idle", "lock", "get", "set"}]
          /\ key \in [Caller -> Key]
          /\ lastGrant \in [Key -> Nat \cup {Never}]

\* The throttle a caller sees: the last grant of a key closes it for Ttl.
ClosedUntil == [k \in Key |-> IF lastGrant[k] = Never THEN -1 ELSE lastGrant[k] + Ttl]

T == INSTANCE Throttle WITH closedUntil <- ClosedUntil

\* However callers, purge and clock interleave, two logins that RateCheck lets
\* through on one key are more than Ttl apart (sync_tools.go RateCheck).
ImplementsThrottle == T!Spec

\* How long a key may stay closed beyond its Ttl: with the ticker running and no
\* tick waiting, the cache holds no entry that had expired before the last tick
\* (sync_tools.go: tick and purge are all that removes one).
NothingOverdue == ~stopped /\ ~tickC =>
                    \A k \in Key, t \in 0..now :
                       t % TickEvery = 0 /\ entries[k] # NoEntry => entries[k] >= t

\* A key does not stay closed: while the ticker runs, an entry whose expiry
\* leaves room for one more tick before the clock's bound is purged
\* (sync_tools.go tick and purge; Get alone would keep it closed for ever).
KeyReopens == \A k \in Key : \A e \in 0..MaxTime :
                 (entries[k] = e /\ e + TickEvery < MaxTime)
                    ~> (entries[k] # e \/ stopped)

\* Every RateCheck returns: no caller is left waiting for r.m.
CallReturns == \A c \in Caller : pc[c] = "lock" ~> pc[c] = "idle"
================================================================================
