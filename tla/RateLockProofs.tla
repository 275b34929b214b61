---------------------------- MODULE RateLockProofs ----------------------------
(***************************************************************************)
(* RateLock implements Throttle, for every set of callers and keys, every  *)
(* Ttl, every tick period and every bound of the clock.                    *)
(***************************************************************************)
EXTENDS RateLock, TLAPS

\* r.m is held exactly by the caller between the read and the write.
MutexOwner == \A c \in Caller : pc[c] \in {"get", "set"} <=> m = c

\* The map remembers the last grant, or forgot it after it expired.
EntryIsGrant == \A k \in Key :
                  /\ entries[k] # NoEntry => /\ lastGrant[k] # Never
                                             /\ entries[k] = lastGrant[k] + Ttl
                  /\ entries[k] = NoEntry => \/ lastGrant[k] = Never
                                             \/ lastGrant[k] + Ttl < now

\* What the read saw is still true when the write comes: only the holder of
\* r.m adds entries.
NotFoundHolds == \A c \in Caller : pc[c] = "set" => entries[key[c]] = NoEntry

IInv == TypeOK /\ MutexOwner /\ EntryIsGrant /\ NotFoundHolds

\* The initial states satisfy the invariant.
LEMMA InitIInv == Init => IInv
<1> SUFFICES ASSUME Init PROVE IInv
  OBVIOUS
<1>1. TypeOK
  <2>1. now \in 0..MaxTime
    BY RateAssumption DEF Init
  <2>2. m \in Caller \cup {NoOne} /\ tickC \in BOOLEAN /\ stopped \in BOOLEAN
    BY DEF Init
  <2>3. /\ entries \in [Key -> 0..(MaxTime + Ttl) \cup {NoEntry}]
        /\ lastGrant \in [Key -> Nat \cup {Never}]
    BY DEF Init
  <2>4. pc \in [Caller -> {"idle", "lock", "get", "set"}] /\ key \in [Caller -> Key]
    BY DEF Init
  <2> QED BY <2>1, <2>2, <2>3, <2>4 DEF TypeOK
<1>2. MutexOwner
  BY RateAssumption DEF Init, MutexOwner
<1>3. EntryIsGrant /\ NotFoundHolds
  BY DEF Init, EntryIsGrant, NotFoundHolds
<1> QED BY <1>1, <1>2, <1>3 DEF IInv

\* Every step preserves it.
LEMMA StepIInv == IInv /\ [Next]_vars => IInv'
<1> SUFFICES ASSUME IInv, [Next]_vars PROVE IInv'
  OBVIOUS
<1> USE RateAssumption DEF NoEntry, Never
<1>1. CASE Clock
  BY <1>1 DEF Clock, IInv, TypeOK, MutexOwner, EntryIsGrant, NotFoundHolds
<1>2. CASE Purge
  <2>1. TypeOK'
    BY <1>2 DEF Purge, IInv, TypeOK
  <2>2. MutexOwner'
    BY <1>2 DEF Purge, IInv, MutexOwner
  <2>3. EntryIsGrant'
    <3> SUFFICES ASSUME NEW k \in Key
                 PROVE  /\ entries'[k] # NoEntry => /\ lastGrant'[k] # Never
                                                    /\ entries'[k] = lastGrant'[k] + Ttl
                        /\ entries'[k] = NoEntry => \/ lastGrant'[k] = Never
                                                    \/ lastGrant'[k] + Ttl < now'
      BY DEF EntryIsGrant
    <3>1. CASE Expired(k)
      BY <1>2, <3>1 DEF Purge, Expired, IInv, TypeOK, EntryIsGrant
    <3>2. CASE ~Expired(k)
      BY <1>2, <3>2 DEF Purge, Expired, IInv, TypeOK, EntryIsGrant
    <3> QED BY <3>1, <3>2
  <2>4. NotFoundHolds'
    BY <1>2 DEF Purge, IInv, TypeOK, NotFoundHolds
  <2> QED BY <2>1, <2>2, <2>3, <2>4 DEF IInv
<1>3. CASE Stop
  BY <1>3 DEF Stop, IInv, TypeOK, MutexOwner, EntryIsGrant, NotFoundHolds
<1>4. ASSUME NEW c \in Caller, NEW k \in Key, Call(c, k)
      PROVE  IInv'
  BY <1>4 DEF Call, IInv, TypeOK, MutexOwner, EntryIsGrant, NotFoundHolds
<1>5. ASSUME NEW c \in Caller, Lock(c)
      PROVE  IInv'
  BY <1>5 DEF Lock, IInv, TypeOK, MutexOwner, EntryIsGrant, NotFoundHolds
<1>6. ASSUME NEW c \in Caller, Refuse(c)
      PROVE  IInv'
  BY <1>6 DEF Refuse, IInv, TypeOK, MutexOwner, EntryIsGrant, NotFoundHolds
<1>7. ASSUME NEW c \in Caller, NotFound(c)
      PROVE  IInv'
  BY <1>7 DEF NotFound, IInv, TypeOK, MutexOwner, EntryIsGrant, NotFoundHolds
<1>8. ASSUME NEW c \in Caller, SetEntry(c)
      PROVE  IInv'
  <2>1. TypeOK'
    BY <1>8 DEF SetEntry, ExpireTime, IInv, TypeOK
  <2>2. MutexOwner'
    BY <1>8 DEF SetEntry, ExpireTime, IInv, TypeOK, MutexOwner
  <2>3. EntryIsGrant'
    BY <1>8 DEF SetEntry, ExpireTime, IInv, TypeOK, EntryIsGrant
  <2>4. NotFoundHolds'
    BY <1>8 DEF SetEntry, ExpireTime, IInv, TypeOK, MutexOwner, NotFoundHolds
  <2> QED BY <2>1, <2>2, <2>3, <2>4 DEF IInv
<1>9. CASE UNCHANGED vars
  BY <1>9 DEF vars, IInv, TypeOK, MutexOwner, EntryIsGrant, NotFoundHolds
<1> QED
  BY <1>1, <1>2, <1>3, <1>4, <1>5, <1>6, <1>7, <1>8, <1>9 DEF Next, RateCheck

\* The inductive invariant holds for ever (sync_tools.go: ttlCache, rateLock).
THEOREM RateLockInvariant == Spec => []IInv
<1>1. Init => IInv
  BY InitIInv
<1>2. IInv /\ [Next]_vars => IInv'
  BY StepIInv
<1> QED
  BY <1>1, <1>2, PTL DEF Spec

\* The cache never holds an expiry beyond the clock's bound plus one Ttl.
THEOREM RateLockTypeOK == Spec => []TypeOK
<1>1. IInv => TypeOK
  BY DEF IInv
<1> QED
  BY <1>1, RateLockInvariant, PTL

\* Two grants of one key are more than Ttl apart whatever callers, purge and
\* clock do (sync_tools.go RateCheck): every step of RateLock is a step of
\* Throttle or leaves its variables alone.
THEOREM RateLockRefinesThrottle == Spec => ImplementsThrottle
<1>1. Init => T!Init
  BY DEF Init, T!Init, ClosedUntil, Never
<1>2. IInv /\ [Next]_vars => [T!Next]_(T!vars)
  <2> SUFFICES ASSUME IInv, [Next]_vars PROVE [T!Next]_(T!vars)
    OBVIOUS
  <2> USE RateAssumption DEF T!vars, ClosedUntil, NoEntry, Never
  <2>1. CASE Clock
    BY <2>1 DEF Clock, T!Next, T!Advance
  <2>2. CASE Purge
    BY <2>2 DEF Purge
  <2>3. CASE Stop
    BY <2>3 DEF Stop
  <2>4. ASSUME NEW c \in Caller, NEW k \in Key, Call(c, k)
        PROVE  UNCHANGED T!vars
    BY <2>4 DEF Call
  <2>5. ASSUME NEW c \in Caller, Lock(c) \/ Refuse(c) \/ NotFound(c)
        PROVE  UNCHANGED T!vars
    BY <2>5 DEF Lock, Refuse, NotFound
  <2>6. ASSUME NEW c \in Caller, SetEntry(c)
        PROVE  T!Next
    <3>1. PICK k \in Key : key[c] = k /\ pc[c] = "set" /\ entries[k] = NoEntry
      BY <2>6 DEF SetEntry, IInv, TypeOK, NotFoundHolds
    <3>2. now > ClosedUntil[k]
      BY <3>1 DEF IInv, TypeOK, EntryIsGrant
    <3>3. ClosedUntil' = [ClosedUntil EXCEPT ![k] = now + Ttl]
      <4>1. lastGrant' = [lastGrant EXCEPT ![k] = now]
        BY <2>6, <3>1 DEF SetEntry
      <4>2. /\ now \in Nat
            /\ lastGrant \in [Key -> Nat \cup {-1}]
        BY DEF IInv, TypeOK
      <4>3. \A j \in Key : ClosedUntil'[j] = [ClosedUntil EXCEPT ![k] = now + Ttl][j]
        BY <4>1, <4>2
      <4> QED BY <4>3
    <3>4. now' = now
      BY <2>6 DEF SetEntry
    <3>5. T!Grant(k)
      BY <3>2, <3>3, <3>4 DEF T!Grant
    <3> QED BY <3>5 DEF T!Next
  <2>7. CASE UNCHANGED vars
    BY <2>7 DEF vars
  <2> QED
    BY <2>1, <2>2, <2>3, <2>4, <2>5, <2>6, <2>7 DEF Next, RateCheck
<1> QED
  BY <1>1, <1>2, RateLockInvariant, PTL DEF Spec, ImplementsThrottle, T!Spec

\* Every step keeps the cache free of entries that a tick should have purged.
LEMMA StepNothingOverdue == IInv /\ NothingOverdue /\ [Next]_vars => NothingOverdue'
<1> SUFFICES ASSUME IInv, NothingOverdue, [Next]_vars,
                    ~stopped', ~tickC', NEW k \in Key, NEW t \in 0..now',
                    t % TickEvery = 0, entries'[k] # NoEntry
             PROVE  entries'[k] >= t
  BY DEF NothingOverdue, NoEntry
<1> USE RateAssumption DEF NoEntry
<1>1. now \in Nat /\ entries \in [Key -> 0..(MaxTime + Ttl) \cup {-1}]
  BY DEF IInv, TypeOK
<1>2. CASE Clock
  <2>1. ~tickC /\ ~stopped /\ now' % TickEvery # 0 /\ now' = now + 1 /\ entries' = entries
    BY <1>2 DEF Clock
  <2>2. t # now'
    BY <2>1
  <2>3. t \in 0..now
    BY <1>1, <2>1, <2>2
  <2> QED BY <2>1, <2>3 DEF NothingOverdue
<1>3. CASE Purge
  <2>1. now' = now /\ ~(entries[k] < now) /\ entries'[k] = entries[k]
    BY <1>1, <1>3 DEF Purge, Expired
  <2> QED BY <1>1, <2>1
<1>4. ASSUME NEW c \in Caller, SetEntry(c) PROVE entries'[k] >= t
  <2>1. UNCHANGED <<now, tickC, stopped>>
    BY <1>4 DEF SetEntry
  <2>2. CASE k = key[c]
    <3>1. entries'[k] = now + Ttl
      BY <1>1, <1>4, <2>2 DEF SetEntry, ExpireTime
    <3> QED BY <1>1, <2>1, <3>1
  <2>3. CASE k # key[c]
    <3>1. entries'[k] = entries[k]
      BY <1>1, <1>4, <2>3 DEF SetEntry
    <3> QED BY <2>1, <3>1 DEF NothingOverdue
  <2> QED BY <2>2, <2>3
<1>5. CASE Stop
  BY <1>5 DEF Stop
<1>6. ASSUME UNCHANGED <<now, entries, tickC, stopped>> PROVE entries'[k] >= t
  BY <1>6 DEF NothingOverdue
<1>7. ASSUME NEW c \in Caller, Lock(c) \/ Refuse(c) \/ NotFound(c)
      PROVE  entries'[k] >= t
  BY <1>6, <1>7 DEF Lock, Refuse, NotFound
<1>8. ASSUME NEW c \in Caller, NEW j \in Key, Call(c, j) PROVE entries'[k] >= t
  BY <1>6, <1>8 DEF Call
<1>9. CASE UNCHANGED vars
  BY <1>6, <1>9 DEF vars
<1> QED BY <1>2, <1>3, <1>4, <1>5, <1>7, <1>8, <1>9 DEF Next, RateCheck

\* A key is refused too long by less than one period of the ticker: whatever
\* callers write between the ticks, what had expired at a tick is purged by it.
THEOREM RateLockNothingOverdue == Spec => []NothingOverdue
<1>1. Init => NothingOverdue
  BY DEF Init, NothingOverdue
<1>2. IInv /\ NothingOverdue /\ [Next]_vars => NothingOverdue'
  BY StepNothingOverdue
<1> QED BY <1>1, <1>2, RateLockInvariant, PTL DEF Spec
================================================================================
