--------------------------- MODULE ISCSIConnectProofs ---------------------------
(***************************************************************************)
(* The safety of ISCSIConnect for every finite number of calls, any        *)
(* targets, requests and limits.  The parts of the invariant are about the *)
(* flights (FlightInv), the sessions that stay (StayInv), the rate keys    *)
(* (KeyInv), the daemons (ModeInv) and the permits (PermitInv).            *)
(***************************************************************************)
EXTENDS ISCSIConnect, FiniteSetTheorems, TLAPS

\* A call that waits in a flight waits for one with the same question, which runs
\* the function; a call that checks sessions runs it itself.
FlightInv ==
  /\ \A e \in Call : flight[e] # None =>
        /\ Leads(flight[e]) /\ Asks(e) /\ pc[flight[e]] = pc[e]
  /\ \A c \in Call : phase[c] # "idle" => flight[c] = c /\ pc[c] = "sessions"

\* Who logs in has a target to log in to, and has asked for all of them.
LoginInv ==
  \A c \in Call : phase[c] \in {"perform", "read"} => toLogin[c] # <<>>

\* A session that stays is still to be asked for, or known.
StayInv ==
  \A c \in Call : phase[c] # "idle" =>
     \A t \in steady[c] : session[t] = "active" /\ (t \in active[c] \/ t \in ToSet(left[c]))

\* Whatever was tried has its rate key closed.
KeyInv == tried \subseteq closed

\* Who believes in a daemon that does not run was misled by a call whose context ended.
ModeInv ==
  \A c \in Call : daemons[c] \subseteq running \/ \E d \in Call : ctx[d] = "done" /\ Checked(d)

Holders == {c \in Call : pc[c] \notin {"acquire", "queued", "returned"}}

PermitInv == /\ free \in Nat /\ limit \in Nat
             /\ free + Cardinality(Holders) = limit

\* TypeOK without the permits and the sequences.
Types ==
  /\ session \in [Target -> {"none", "failed", "active"}]
  /\ closed \in SUBSET Target /\ tried \in SUBSET Target
  /\ running \in Hosts
  /\ limit \in Limits
  /\ pc \in [Call -> {"acquire", "queued", "validate", "sessions", "powerpath",
                      "multipath", "connect", "clean", "returned"}]
  /\ out \in [Call -> {"none", "busy", "invalid", "nosession", "device", "failed"}]
  /\ ctx \in [Call -> {"live", "done"}] /\ req \in Requests
  /\ flight \in [Call -> Call \cup {None}]
  /\ phase \in [Call -> {"idle", "targets", "perform", "read"}]
  /\ active \in [Call -> SUBSET Target] /\ fresh \in [Call -> SUBSET Target]
  /\ daemons \in [Call -> SUBSET Daemon]
  /\ steady \in [Call -> SUBSET Target]

Lists == [Call -> Seq(Target)]

SeqTypes == waiters \in Seq(Call) /\ left \in Lists /\ toLogin \in Lists

-------------------------------------------------------------------------------
(* Sequences and sets.                                                     *)

\* One element less.
LEMMA RemovedType ==
  ASSUME NEW S, NEW s \in Seq(S), NEW i \in DOMAIN s PROVE RemoveAt(s, i) \in Seq(S)
<1>1. Len(s) \in Nat /\ i \in 1..Len(s)
  OBVIOUS
<1>2. SubSeq(s, 1, i - 1) \in Seq(S) /\ SubSeq(s, i + 1, Len(s)) \in Seq(S)
  BY <1>1
<1> QED BY <1>2 DEF RemoveAt

\* The elements of a sequence are its head and those of its tail.
LEMMA HeadAndTail ==
  ASSUME NEW S, NEW s \in Seq(S), s # <<>>
  PROVE  /\ Head(s) \in S /\ Tail(s) \in Seq(S)
         /\ ToSet(s) \subseteq {Head(s)} \cup ToSet(Tail(s))
<1>1. Head(s) \in S /\ Tail(s) \in Seq(S)
  OBVIOUS
<1>2. ASSUME NEW i \in DOMAIN s, i # 1 PROVE s[i] \in ToSet(Tail(s))
  <2>1. i - 1 \in 1..Len(Tail(s)) /\ Tail(s)[i - 1] = s[i]
    BY <1>2
  <2> QED BY <1>1, <2>1 DEF ToSet
<1>3. s[1] = Head(s)
  OBVIOUS
<1> QED BY <1>1, <1>2, <1>3 DEF ToSet

\* The lists of targets of the calls, one of them changed.
LEMMA ListsChange ==
  ASSUME NEW f \in Lists, NEW c \in Call
  PROVE  /\ f[c] \in Seq(Target)
         /\ \A s \in Seq(Target) : [f EXCEPT ![c] = s] \in Lists
         /\ \A t \in Target : [f EXCEPT ![c] = Append(@, t)] \in Lists
         /\ f[c] # <<>> => /\ Head(f[c]) \in Target
                           /\ [f EXCEPT ![c] = Tail(@)] \in Lists
<1>1. f[c] \in Seq(Target)
  BY DEF Lists
<1>2. \A t \in Target : Append(f[c], t) \in Seq(Target)
  BY <1>1
<1>3. f[c] # <<>> => Head(f[c]) \in Target /\ Tail(f[c]) \in Seq(Target)
  BY <1>1
<1> QED BY <1>1, <1>2, <1>3 DEF Lists

\* What is asked for are targets.
LEMMA RequestType ==
  ASSUME req \in Requests, NEW c \in Call
  PROVE  req[c] \in Seq(Target) /\ ToSet(req[c]) \subseteq Target
<1>1. req[c] \in Seq(Target)
  BY ConnectAssumption
<1> QED BY <1>1 DEF ToSet

\* The permits of some calls that end are given back.
LEMMA GiveBack ==
  ASSUME NEW S, NEW E, IsFiniteSet(S), E \subseteq S, NEW n \in Nat, NEW k \in Nat,
         n + Cardinality(S) = k
  PROVE  /\ n + Cardinality(E) \in Nat
         /\ n + Cardinality(E) + Cardinality(S \ E) = k
<1>1. IsFiniteSet(E) /\ S \cap E = E
  BY FS_Subset
<1>2. Cardinality(S) \in Nat /\ Cardinality(E) \in Nat
  BY <1>1, FS_CardinalityType
<1>3. Cardinality(S \ E) = Cardinality(S) - Cardinality(E)
  BY <1>1, FS_Difference
<1> QED BY <1>2, <1>3

\* The permit of one call that ends, or of one that begins.
LEMMA OnePermit ==
  ASSUME NEW S, IsFiniteSet(S), NEW c, NEW n \in Nat, NEW k \in Nat, n + Cardinality(S) = k
  PROVE  /\ c \in S => n + 1 + Cardinality(S \ {c}) = k
         /\ c \notin S => n - 1 + Cardinality(S \cup {c}) = k
<1>1. Cardinality(S) \in Nat
  BY FS_CardinalityType
<1>2. c \in S => Cardinality(S \ {c}) = Cardinality(S) - 1
  BY FS_RemoveElement
<1>3. c \notin S => Cardinality(S \cup {c}) = Cardinality(S) + 1
  BY FS_AddElement
<1> QED BY <1>1, <1>2, <1>3

\* Calls are finitely many.
LEMMA HoldersFinite == IsFiniteSet(Holders) /\ IsFiniteSet(Holders')
<1>1. Holders \in SUBSET Call /\ Holders' \in SUBSET Call
  BY DEF Holders
<1> QED BY <1>1, ConnectAssumption, FS_Subset

-------------------------------------------------------------------------------
(* The types.                                                              *)

\* The steps of a call by itself.
LEMMA AloneTypes ==
  ASSUME Types, NEW c \in Call,
         Acquire(c) \/ Queued(c) \/ Validate(c) \/ ConnectDevice(c) \/ Clean(c)
  PROVE  Types'
<1> USE DEF Types, shared, check, inputs, From, Returns, Refused
<1>1. CASE Acquire(c)
  BY <1>1 DEF Acquire
<1>2. CASE Queued(c)
  BY <1>2 DEF Queued
<1>3. CASE Validate(c)
  BY <1>3 DEF Validate
<1>4. CASE ConnectDevice(c)
  BY <1>4 DEF ConnectDevice
<1>5. CASE Clean(c)
  BY <1>5 DEF Clean
<1> QED BY <1>1, <1>2, <1>3, <1>4, <1>5

\* The target that a check is at.
LEMMA AtTarget ==
  ASSUME SeqTypes, LoginInv, NEW c \in Call
  PROVE  /\ CheckTarget(c) => Head(left[c]) \in Target /\ left[c] # <<>>
         /\ RateCheck(c) \/ PerformLogin(c) \/ ReadBack(c)
              => Head(toLogin[c]) \in Target /\ toLogin[c] # <<>>
<1>1. left[c] # <<>> => Head(left[c]) \in Target
  BY ListsChange DEF SeqTypes
<1>2. toLogin[c] # <<>> => Head(toLogin[c]) \in Target
  BY ListsChange DEF SeqTypes
<1>3. PerformLogin(c) \/ ReadBack(c) => toLogin[c] # <<>>
  BY DEF PerformLogin, ReadBack, In, LoginInv
<1> QED BY <1>1, <1>2, <1>3 DEF CheckTarget, RateCheck

\* The steps in a flight.
LEMMA FlightTypes ==
  ASSUME Types, SeqTypes, LoginInv, NEW c \in Call,
         \/ Join(c) \/ CheckTarget(c) \/ RateCheck(c) \/ PerformLogin(c) \/ ReadBack(c)
         \/ EndCheck(c) \/ \E d \in Daemon : CheckDaemon(c, d)
  PROVE  Types'
<1> USE DEF Types, shared, inputs, In, Goes, Unsteady
<1>1. CASE Join(c)
  <2>1. ToSet(req[c]) \subseteq Target
    BY RequestType
  <2>2. flight' \in [Call -> Call \cup {None}]
    BY <1>1 DEF Join
  <2>3. phase' \in [Call -> {"idle", "targets", "perform", "read"}]
    BY <1>1 DEF Join, check
  <2>4. steady' \in [Call -> SUBSET Target]
    BY <1>1, <2>1 DEF Join
  <2>5. UNCHANGED <<active, fresh>>
    BY <1>1 DEF Join, check
  <2> QED BY <1>1, <2>2, <2>3, <2>4, <2>5 DEF Join
<1>2. CASE CheckTarget(c)
  <2>1. Head(left[c]) \in Target
    BY <1>2, AtTarget
  <2>2. active' \in [Call -> SUBSET Target] /\ steady' \in [Call -> SUBSET Target]
    BY <1>2, <2>1 DEF CheckTarget
  <2> QED BY <1>2, <2>2 DEF CheckTarget
<1>3. CASE RateCheck(c)
  <2>1. Head(toLogin[c]) \in Target
    BY <1>3, AtTarget
  <2>2. closed' \in SUBSET Target /\ tried' \in SUBSET Target
    BY <1>3, <2>1 DEF RateCheck, Closes
  <2>3. phase' \in [Call -> {"idle", "targets", "perform", "read"}]
    BY <1>3 DEF RateCheck
  <2> QED BY <1>3, <2>2, <2>3 DEF RateCheck
<1>4. CASE PerformLogin(c)
  <2>1. Head(toLogin[c]) \in Target
    BY <1>4, AtTarget
  <2>2. session' \in [Target -> {"none", "failed", "active"}]
    BY <1>4, <2>1 DEF PerformLogin
  <2>3. /\ phase' \in [Call -> {"idle", "targets", "perform", "read"}]
        /\ steady' \in [Call -> SUBSET Target]
    BY <1>4 DEF PerformLogin
  <2> QED BY <1>4, <2>2, <2>3 DEF PerformLogin
<1>5. CASE ReadBack(c)
  <2>1. Head(toLogin[c]) \in Target
    BY <1>5, AtTarget
  <2>2. /\ fresh' \in [Call -> SUBSET Target] /\ steady' \in [Call -> SUBSET Target]
        /\ phase' \in [Call -> {"idle", "targets", "perform", "read"}]
    BY <1>5, <2>1 DEF ReadBack
  <2> QED BY <1>5, <2>2 DEF ReadBack
<1>6. CASE EndCheck(c)
  <2>1. /\ pc' \in [Call -> {"acquire", "queued", "validate", "sessions", "powerpath",
                             "multipath", "connect", "clean", "returned"}]
        /\ flight' \in [Call -> Call \cup {None}]
    BY <1>6 DEF EndCheck, Land
  <2>2. out' \in [Call -> {"none", "busy", "invalid", "nosession", "device", "failed"}]
    BY <1>6 DEF EndCheck
  <2> QED BY <1>6, <2>1, <2>2 DEF EndCheck
<1>7. ASSUME NEW d \in Daemon, CheckDaemon(c, d) PROVE Types'
  <2>1. daemons' \in [Call -> SUBSET Daemon]
    <3>1. PICK yes \in SaysRunning(c, d) :
             daemons' = [e \in Call |-> IF e \in Aboard(c) /\ yes THEN daemons[e] \cup {d}
                                                                 ELSE daemons[e]]
      BY <1>7 DEF CheckDaemon
    <3>2. \A e \in Call : daemons[e] \in SUBSET Daemon /\ daemons[e] \cup {d} \in SUBSET Daemon
      OBVIOUS
    <3> QED BY <3>1, <3>2
  <2>2. /\ pc' \in [Call -> {"acquire", "queued", "validate", "sessions", "powerpath",
                             "multipath", "connect", "clean", "returned"}]
        /\ flight' \in [Call -> Call \cup {None}]
    BY <1>7 DEF CheckDaemon, Land
  <2> QED BY <1>7, <2>1, <2>2 DEF CheckDaemon, check
<1> QED BY <1>1, <1>2, <1>3, <1>4, <1>5, <1>6, <1>7

\* The queue and the lists.
LEMMA StepSeqs ==
  ASSUME Types, SeqTypes, LoginInv, NEW c \in Call, Step(c) PROVE SeqTypes'
<1>1. CASE Acquire(c) \/ Queued(c)
  <2>1. UNCHANGED <<left, toLogin>>
    BY <1>1 DEF Acquire, Queued, check
  <2>2. \/ waiters' = waiters \/ waiters' = Append(waiters, c)
        \/ \E i \in DOMAIN waiters : waiters' = RemoveAt(waiters, i)
        \/ waiters # <<>> /\ waiters' = Tail(waiters)
    BY <1>1 DEF Acquire, Queued, limiter
  <2>3. waiters # <<>> => Tail(waiters) \in Seq(Call)
    BY DEF SeqTypes
  <2>4. waiters' \in Seq(Call)
    <3>1. Append(waiters, c) \in Seq(Call)
      BY DEF SeqTypes
    <3>2. \A i \in DOMAIN waiters : RemoveAt(waiters, i) \in Seq(Call)
      BY RemovedType DEF SeqTypes
    <3> QED BY <2>2, <2>3, <3>1, <3>2 DEF SeqTypes
  <2> QED BY <2>1, <2>4 DEF SeqTypes
<1>2. CASE \/ Validate(c) \/ ConnectDevice(c) \/ Clean(c) \/ EndCheck(c)
           \/ \E d \in Daemon : CheckDaemon(c, d)
  <2>1. UNCHANGED <<waiters, left, toLogin>>
    BY <1>2 DEF Validate, ConnectDevice, Clean, Returns, EndCheck, CheckDaemon, check, limiter
  <2> QED BY <2>1 DEF SeqTypes
<1>3. CASE Join(c)
  <2>1. UNCHANGED <<waiters, toLogin>> /\ (left' = left \/ left' = [left EXCEPT ![c] = req[c]])
    BY <1>3 DEF Join, check, limiter
  <2>2. req[c] \in Seq(Target)
    BY RequestType DEF Types
  <2>3. left \in Lists
    BY DEF SeqTypes
  <2>4. [left EXCEPT ![c] = req[c]] \in Lists
    BY <2>2, <2>3, ListsChange
  <2> QED BY <2>1, <2>3, <2>4 DEF SeqTypes
<1>4. CASE CheckTarget(c)
  <2>1. /\ UNCHANGED waiters /\ left' = [left EXCEPT ![c] = Tail(@)]
        /\ toLogin' = toLogin \/ toLogin' = [toLogin EXCEPT ![c] = Append(@, Head(left[c]))]
    BY <1>4 DEF CheckTarget, limiter
  <2> QED BY <1>4, <2>1, AtTarget, ListsChange DEF SeqTypes
<1>5. CASE RateCheck(c) \/ PerformLogin(c) \/ ReadBack(c)
  <2>1. /\ UNCHANGED <<waiters, left>>
        /\ toLogin' = toLogin \/ toLogin' = [toLogin EXCEPT ![c] = Tail(@)]
    BY <1>5 DEF RateCheck, PerformLogin, ReadBack, limiter
  <2> QED BY <1>5, <2>1, AtTarget, ListsChange DEF SeqTypes
<1> QED BY <1>1, <1>2, <1>3, <1>4, <1>5 DEF Step

\* The steps around the calls.
LEMMA AroundTypes ==
  ASSUME Types, SeqTypes, \/ \E c \in Call : Cancel(c)
                          \/ \E t \in Target : SessionChanges(t) \/ Reopen(t)
  PROVE  Types' /\ SeqTypes'
<1>1. Types'
  <2> USE DEF Types, shared, check, inputs
  <2>1. ASSUME NEW c \in Call, Cancel(c) PROVE Types'
    BY <2>1 DEF Cancel
  <2>2. ASSUME NEW t \in Target, SessionChanges(t) PROVE Types'
    <3>1. session' \in [Target -> {"none", "failed", "active"}]
      BY <2>2 DEF SessionChanges
    <3> QED BY <2>2, <3>1 DEF SessionChanges
  <2>3. ASSUME NEW t \in Target, Reopen(t) PROVE Types'
    BY <2>3 DEF Reopen
  <2> QED BY <2>1, <2>2, <2>3
<1>2. UNCHANGED <<waiters, left, toLogin>>
  BY DEF Cancel, SessionChanges, Reopen, limiter, check
<1> QED BY <1>1, <1>2 DEF SeqTypes

-------------------------------------------------------------------------------
(* The flights.                                                            *)

\* A step of a call that asks nothing disturbs no flight.
LEMMA FlightStays ==
  ASSUME FlightInv, Types, NEW c \in Call, ~Asks(c), UNCHANGED <<flight, phase>>,
         \A e \in Call : e # c => pc'[e] = pc[e]
  PROVE  FlightInv'
<1>1. flight[c] = None /\ phase[c] = "idle"
  BY DEF FlightInv, Asks, Types
<1>2. \A e \in Call : flight[e] # c
  BY ConnectAssumption DEF FlightInv, Asks
<1>3. \A e \in Call : flight[e] # None => flight[e] \in Call
  BY DEF Types
<1> QED BY <1>1, <1>2, <1>3 DEF FlightInv, Leads, Asks, Types

\* A flight that has landed is gone.
LEMMA LandFlight ==
  ASSUME FlightInv, Types, NEW c \in Call, Leads(c), NEW b, Land(c, b),
         \A e \in Call : phase'[e] = phase[e] \/ phase'[e] = "idle",
         phase'[c] = "idle"
  PROVE  FlightInv'
<1> USE DEF Land, Aboard, Leads, Types
<1>1. ASSUME NEW e \in Call, flight'[e] # None
      PROVE  /\ flight'[e] = flight[e] /\ pc'[e] = pc[e]
             /\ flight[e] \in Call /\ flight[e] # c /\ flight[flight[e]] = flight[e]
             /\ pc'[flight[e]] = pc[flight[e]] /\ flight'[flight[e]] = flight[flight[e]]
             /\ Asks(e) /\ pc[flight[e]] = pc[e]
  <2>1. e \notin Aboard(c) /\ flight'[e] = flight[e] /\ pc'[e] = pc[e] /\ flight[e] # c
    BY <1>1
  <2>2. flight[e] \in Call /\ flight[flight[e]] = flight[e] /\ Asks(e) /\ pc[flight[e]] = pc[e]
    BY <1>1, <2>1 DEF FlightInv
  <2> QED BY <2>1, <2>2
<1>2. ASSUME NEW e \in Call, phase'[e] # "idle"
      PROVE  flight'[e] = e /\ pc'[e] = "sessions"
  BY <1>2 DEF FlightInv
<1> QED BY <1>1, <1>2 DEF FlightInv, Asks

\* Every step of a call keeps the flights.
LEMMA StepFlight ==
  ASSUME FlightInv, Types, NEW c \in Call, Step(c) PROVE FlightInv'
<1> USE DEF check
<1>1. CASE Acquire(c) \/ Queued(c) \/ Validate(c) \/ ConnectDevice(c) \/ Clean(c)
  <2>1. ~Asks(c) /\ UNCHANGED <<flight, phase>>
    BY <1>1 DEF Acquire, Queued, Validate, ConnectDevice, Clean, From, Asks, Daemon
  <2>2. \A e \in Call : e # c => pc'[e] = pc[e]
    BY <1>1 DEF Acquire, Queued, Validate, ConnectDevice, Clean, From, Returns, Refused, Types
  <2> QED BY <2>1, <2>2, FlightStays
<1>2. CASE Join(c)
  <2>1. UNCHANGED pc /\ Asks(c) /\ flight[c] = None
    BY <1>2 DEF Join
  <2>2. CASE \E d \in Call : /\ Leads(d) /\ FlightKey(d) = FlightKey(c)
                             /\ flight' = [flight EXCEPT ![c] = d]
    <3>1. PICK d \in Call : /\ Leads(d) /\ FlightKey(d) = FlightKey(c)
                            /\ flight' = [flight EXCEPT ![c] = d]
      BY <2>2
    <3>2. d # c /\ pc[d] = pc[c]
      BY <2>1, <3>1, ConnectAssumption DEF Leads, FlightKey
    <3>3. UNCHANGED phase
      BY <1>2, <3>1, <3>2 DEF Join, Leads, Types
    <3>4. \A e \in Call : flight[e] # c
      BY <2>1, ConnectAssumption DEF FlightInv, Leads
    <3>5. \A e \in Call : e # c => flight'[e] = flight[e]
      BY <3>1 DEF Types
    <3>6. flight'[c] = d /\ flight'[d] = d /\ phase[c] = "idle"
      BY <2>1, <3>1, <3>2, ConnectAssumption DEF FlightInv, Leads, Types
    <3> QED BY <2>1, <3>2, <3>3, <3>4, <3>5, <3>6 DEF FlightInv, Leads, Asks, Types
  <2>3. CASE /\ flight' = [flight EXCEPT ![c] = c]
             /\ IF pc[c] = "sessions" THEN phase' = [phase EXCEPT ![c] = "targets"]
                                      ELSE UNCHANGED phase
    <3>1. \A e \in Call : flight[e] # c
      BY <2>1, ConnectAssumption DEF FlightInv, Leads
    <3> QED BY <2>1, <2>3, <3>1 DEF FlightInv, Leads, Asks, Types
  <2> QED BY <1>2, <2>2, <2>3 DEF Join
<1>3. CASE CheckTarget(c) \/ RateCheck(c) \/ PerformLogin(c) \/ ReadBack(c)
  <2>1. /\ UNCHANGED <<pc, flight>>
        /\ phase[c] # "idle"
        /\ \A e \in Call : e # c => phase'[e] = phase[e]
    BY <1>3 DEF CheckTarget, RateCheck, PerformLogin, ReadBack, In, Goes, Types
  <2> QED BY <2>1 DEF FlightInv, Leads, Asks
<1>4. CASE EndCheck(c)
  <2>1. phase[c] = "targets" /\ phase' = [phase EXCEPT ![c] = "idle"]
    BY <1>4 DEF EndCheck, In, Goes
  <2>2. \E b \in {"returned", "powerpath"} : Land(c, b)
    BY <1>4 DEF EndCheck
  <2>3. Leads(c)
    BY <2>1 DEF FlightInv, Leads
  <2> QED BY <2>1, <2>2, <2>3, LandFlight DEF Types
<1>5. ASSUME NEW d \in Daemon, CheckDaemon(c, d) PROVE FlightInv'
  <2>1. pc[c] = d /\ Leads(c) /\ UNCHANGED phase /\ d # "sessions"
    BY <1>5 DEF CheckDaemon, Daemon
  <2>2. \E b \in {"multipath", "connect"} : Land(c, b)
    BY <1>5 DEF CheckDaemon
  <2>3. phase'[c] = "idle"
    BY <2>1 DEF FlightInv, Types
  <2> QED BY <2>1, <2>2, <2>3, LandFlight
<1> QED BY <1>1, <1>2, <1>3, <1>4, <1>5 DEF Step

-------------------------------------------------------------------------------
(* The logins, the sessions that stay and the rate keys.                   *)

\* Who logs in has a target to log in to.
LEMMA StepLogin ==
  ASSUME LoginInv, Types, SeqTypes, NEW c \in Call, Step(c) PROVE LoginInv'
<1> USE DEF LoginInv, Types, check
<1>1. CASE RateCheck(c)
  <2>1. /\ toLogin[c] # <<>>
        /\ \A e \in Call : e # c => phase'[e] = phase[e] /\ toLogin'[e] = toLogin[e]
        /\ phase'[c] = "targets" \/ toLogin'[c] = toLogin[c]
    BY <1>1 DEF RateCheck, In, Goes, SeqTypes, Lists
  <2> QED BY <2>1
<1>2. CASE PerformLogin(c)
  <2>1. /\ toLogin[c] # <<>>
        /\ \A e \in Call : e # c => phase'[e] = phase[e] /\ toLogin'[e] = toLogin[e]
        /\ phase'[c] = "targets" \/ toLogin'[c] = toLogin[c]
    BY <1>2 DEF PerformLogin, In, Goes, SeqTypes, Lists
  <2> QED BY <2>1
<1>3. CASE ReadBack(c) \/ CheckTarget(c)
  <2>1. /\ \A e \in Call : e # c => phase'[e] = phase[e] /\ toLogin'[e] = toLogin[e]
        /\ phase'[c] = "targets"
    BY <1>3 DEF ReadBack, CheckTarget, In, Goes, SeqTypes, Lists
  <2> QED BY <2>1
<1>4. CASE Join(c) \/ EndCheck(c)
  <2>1. /\ UNCHANGED toLogin
        /\ \A e \in Call : phase'[e] = phase[e] \/ phase'[e] \in {"idle", "targets"}
    BY <1>4 DEF Join, EndCheck, In, Goes
  <2> QED BY <2>1
<1>5. CASE \/ Acquire(c) \/ Queued(c) \/ Validate(c) \/ ConnectDevice(c) \/ Clean(c)
           \/ \E d \in Daemon : CheckDaemon(c, d)
  <2>1. UNCHANGED <<toLogin, phase>>
    BY <1>5 DEF Acquire, Queued, Validate, ConnectDevice, Clean, CheckDaemon
  <2> QED BY <2>1
<1> QED BY <1>1, <1>2, <1>3, <1>4, <1>5 DEF Step

\* A session that stays is asked for before the check is over.
LEMMA StepStay ==
  ASSUME StayInv, LoginInv, Types, SeqTypes, NEW c \in Call, Step(c) PROVE StayInv'
<1> USE DEF StayInv, Types, check, shared
<1>1. CASE \/ Acquire(c) \/ Queued(c) \/ Validate(c) \/ ConnectDevice(c) \/ Clean(c)
           \/ \E d \in Daemon : CheckDaemon(c, d)
  <2>1. UNCHANGED <<phase, steady, session, active, left>>
    BY <1>1 DEF Acquire, Queued, Validate, ConnectDevice, Clean, CheckDaemon
  <2> QED BY <2>1
<1>2. CASE Join(c)
  <2>1. UNCHANGED <<session, active>>
    BY <1>2 DEF Join
  <2>2. CASE UNCHANGED <<phase, steady, left>>
    BY <2>1, <2>2
  <2>3. CASE /\ phase' = [phase EXCEPT ![c] = "targets"]
             /\ left' = [left EXCEPT ![c] = req[c]]
             /\ steady' = [steady EXCEPT ![c] = {t \in ToSet(req[c]) : session[t] = "active"}]
    <3>1. \A e \in Call : e # c => /\ phase'[e] = phase[e] /\ steady'[e] = steady[e]
                                   /\ left'[e] = left[e]
      BY <2>3 DEF SeqTypes, Lists
    <3>2. /\ left'[c] = req[c]
          /\ steady'[c] = {t \in ToSet(req[c]) : session[t] = "active"}
      BY <2>3 DEF SeqTypes, Lists
    <3> QED BY <2>1, <3>1, <3>2
  <2> QED BY <1>2, <2>2, <2>3 DEF Join
<1>3. CASE CheckTarget(c)
  <2> DEFINE h == Head(left[c])
  <2>1. /\ phase[c] = "targets" /\ left[c] # <<>>
        /\ UNCHANGED <<phase, session>>
        /\ left' = [left EXCEPT ![c] = Tail(@)]
        /\ \/ steady' = [steady EXCEPT ![c] = @ \ {h}] /\ UNCHANGED active
           \/ /\ UNCHANGED steady
              /\ active' = IF session[h] = "active" THEN [active EXCEPT ![c] = @ \cup {h}]
                                                    ELSE active
    BY <1>3 DEF CheckTarget, In, Unsteady
  <2>2. /\ \A e \in Call : e # c => left'[e] = left[e]
        /\ left'[c] = Tail(left[c])
    BY <2>1 DEF SeqTypes, Lists
  <2>3. ToSet(left[c]) \subseteq {h} \cup ToSet(Tail(left[c]))
    <3>1. left[c] \in Seq(Target)
      BY ListsChange DEF SeqTypes
    <3> QED BY <2>1, <3>1, HeadAndTail
  <2> HIDE DEF h
  <2>4. \A e \in Call : e # c => steady'[e] = steady[e] /\ active'[e] = active[e]
    BY <2>1
  <2>5. ASSUME NEW t \in steady'[c]
        PROVE  session[t] = "active" /\ (t \in active'[c] \/ t \in ToSet(left'[c]))
    <3>1. t \in steady[c] /\ session[t] = "active"
      BY <2>1, <2>5
    <3>2. t \in active[c] \/ t = h \/ t \in ToSet(Tail(left[c]))
      BY <2>1, <2>3, <3>1
    <3>3. active[c] \subseteq active'[c]
      BY <2>1
    <3>4. CASE t = h
      BY <2>1, <2>5, <3>1, <3>4
    <3> QED BY <2>2, <3>1, <3>2, <3>3, <3>4
  <2> QED BY <2>1, <2>2, <2>4, <2>5
<1>4. CASE RateCheck(c) \/ PerformLogin(c) \/ ReadBack(c)
  <2>1. PICK t \in Target :
           /\ steady' = steady \/ steady' = [steady EXCEPT ![c] = @ \ {t}]
           /\ session' = session \/ (session[t] = "none" /\ session' = [session EXCEPT ![t] = "active"])
    BY <1>4, AtTarget DEF RateCheck, PerformLogin, ReadBack, Unsteady
  <2>2. /\ UNCHANGED <<active, left>>
        /\ phase[c] # "idle" /\ \A e \in Call : e # c => phase'[e] = phase[e]
    BY <1>4 DEF RateCheck, PerformLogin, ReadBack, In, Goes
  <2>3. \A e \in Call : steady'[e] \subseteq steady[e]
    BY <2>1
  <2>4. \A u \in Target : session[u] = "active" => session'[u] = "active"
    BY <2>1
  <2> QED BY <2>2, <2>3, <2>4
<1>5. CASE EndCheck(c)
  <2>1. /\ UNCHANGED <<session, left>>
        /\ phase' = [phase EXCEPT ![c] = "idle"]
        /\ active' = [active EXCEPT ![c] = {}]
        /\ steady' = [steady EXCEPT ![c] = {}]
    BY <1>5 DEF EndCheck, Goes
  <2> QED BY <2>1
<1> QED BY <1>1, <1>2, <1>3, <1>4, <1>5 DEF Step

\* A target is tried when its key has been closed.
LEMMA StepKey == ASSUME KeyInv, NEW c \in Call, Step(c) PROVE KeyInv'
<1>1. CASE RateCheck(c)
  BY <1>1 DEF RateCheck, Closes, KeyInv
<1>2. CASE ~RateCheck(c)
  <2>1. UNCHANGED <<closed, tried>>
    BY <1>2 DEF Step, Acquire, Queued, Validate, Join, CheckTarget, PerformLogin, ReadBack,
       EndCheck, CheckDaemon, ConnectDevice, Clean, shared
  <2> QED BY <2>1 DEF KeyInv
<1> QED BY <1>1, <1>2

-------------------------------------------------------------------------------
(* The daemons.                                                            *)

\* A call that has had an answer has had it for ever.
LEMMA CheckedStays ==
  ASSUME Types, FlightInv, NEW c \in Call, Step(c), NEW d \in Call, Checked(d)
  PROVE  Checked(d)'
<1> USE DEF Types, Checked
<1>1. CASE EndCheck(c)
  <2>1. pc[c] = "sessions"
    BY <1>1 DEF EndCheck, In, FlightInv
  <2>2. d \notin Aboard(c)
    <3>1. pc[d] # pc[c]
      BY <2>1
    <3> QED BY <3>1, ConnectAssumption DEF Aboard, FlightInv
  <2> QED BY <1>1, <2>2 DEF EndCheck, Land
<1>2. ASSUME NEW a \in Daemon, CheckDaemon(c, a) PROVE Checked(d)'
  <2>1. pc'[d] = pc[d] \/ pc'[d] \in {"multipath", "connect"}
    BY <1>2 DEF CheckDaemon, Land
  <2>2. out' = out
    BY <1>2 DEF CheckDaemon
  <2> QED BY <2>1, <2>2
<1>3. CASE ConnectDevice(c) \/ Clean(c)
  BY <1>3 DEF ConnectDevice, Clean, From, Returns
<1>4. CASE \/ Acquire(c) \/ Queued(c) \/ Validate(c) \/ Join(c) \/ CheckTarget(c) \/ RateCheck(c)
           \/ PerformLogin(c) \/ ReadBack(c)
  <2>1. /\ \/ pc' = pc
           \/ pc[c] \in {"acquire", "queued", "validate"} /\ \E b : pc' = [pc EXCEPT ![c] = b]
        /\ \/ out' = out
           \/ pc[c] \in {"acquire", "queued", "validate"} /\ \E b : out' = [out EXCEPT ![c] = b]
    BY <1>4 DEF Acquire, Queued, Validate, Join, CheckTarget, RateCheck, PerformLogin,
       ReadBack, From, Returns, Refused
  <2> QED BY <2>1
<1> QED BY <1>1, <1>2, <1>3, <1>4 DEF Step

\* A false yes comes from a call whose context has ended, and which has had the answer.
LEMMA StepMode ==
  ASSUME ModeInv, FlightInv, Types, NEW c \in Call, Step(c) PROVE ModeInv'
<1>1. UNCHANGED <<ctx, running>>
  BY DEF Step, Acquire, Queued, Validate, Join, CheckTarget, RateCheck, PerformLogin,
     ReadBack, EndCheck, CheckDaemon, ConnectDevice, Clean, inputs
<1>2. (\E d \in Call : ctx[d] = "done" /\ Checked(d)) => ModeInv'
  BY <1>1, CheckedStays DEF ModeInv
<1>3. CASE UNCHANGED daemons
  BY <1>1, <1>2, <1>3 DEF ModeInv
<1>4. ASSUME NEW d \in Daemon, CheckDaemon(c, d), \A e \in Call : daemons[e] \subseteq running
      PROVE  ModeInv'
  <2>1. PICK yes \in SaysRunning(c, d) :
           daemons' = [e \in Call |-> IF e \in Aboard(c) /\ yes THEN daemons[e] \cup {d}
                                                               ELSE daemons[e]]
    BY <1>4 DEF CheckDaemon
  <2>2. CASE ~yes \/ d \in running
    <3>1. \A e \in Call : daemons'[e] \subseteq running
      BY <1>4, <2>1, <2>2
    <3> QED BY <1>1, <3>1 DEF ModeInv
  <2>3. CASE yes /\ d \notin running
    <3>1. ctx[c] = "done"
      BY <2>3 DEF SaysRunning
    <3>2. pc'[c] \in {"multipath", "connect"}
      BY <1>4, <2>3 DEF CheckDaemon, Land, Aboard, Leads
    <3> QED BY <1>1, <3>1, <3>2 DEF ModeInv, Checked
  <2> QED BY <2>2, <2>3
<1>5. CASE ~ \E d \in Daemon : CheckDaemon(c, d)
  <2>1. UNCHANGED daemons
    BY <1>5 DEF Step, Acquire, Queued, Validate, Join, CheckTarget, RateCheck, PerformLogin,
       ReadBack, EndCheck, ConnectDevice, Clean
  <2> QED BY <1>3, <2>1
<1> QED BY <1>2, <1>4, <1>5 DEF ModeInv

-------------------------------------------------------------------------------
(* The permits.                                                            *)

\* A step that leaves the permits and who holds one.
LEMMA PermitStays ==
  ASSUME PermitInv, UNCHANGED <<free, limit, Holders>> PROVE PermitInv'
  BY DEF PermitInv

\* A call that ends gives its permit back.
LEMMA PermitReturned ==
  ASSUME PermitInv, Types, NEW c \in Holders, NEW why, Returns(c, why), UNCHANGED limit
  PROVE  PermitInv'
<1>1. Holders' = Holders \ {c}
  BY DEF Holders, Returns, Types
<1>2. free' = free + 1
  BY DEF Returns
<1>3. free + Cardinality(Holders) = limit /\ free \in Nat /\ limit \in Nat
  BY DEF PermitInv
<1>4. free + 1 + Cardinality(Holders \ {c}) = limit
  BY <1>3, HoldersFinite, OnePermit
<1> QED BY <1>1, <1>2, <1>3, <1>4 DEF PermitInv

\* A call that begins takes one.
LEMMA PermitTaken ==
  ASSUME PermitInv, Types, NEW c \in Call \ Holders, free > 0, free' = free - 1,
         pc' = [pc EXCEPT ![c] = "validate"], UNCHANGED limit
  PROVE  PermitInv'
<1>1. Holders' = Holders \cup {c}
  BY DEF Holders, Types
<1>2. free + Cardinality(Holders) = limit /\ free \in Nat /\ limit \in Nat
  BY DEF PermitInv
<1>3. free - 1 + Cardinality(Holders \cup {c}) = limit
  BY <1>2, HoldersFinite, OnePermit
<1>4. free - 1 \in Nat
  BY <1>2
<1> QED BY <1>1, <1>2, <1>3, <1>4 DEF PermitInv

\* Every step of a call keeps the account of the permits.
LEMMA StepPermit ==
  ASSUME PermitInv, FlightInv, Types, NEW c \in Call, Step(c) PROVE PermitInv'
<1> USE DEF limiter, inputs
<1>1. CASE Acquire(c) \/ Queued(c)
  <2>1. pc[c] \in {"acquire", "queued"} /\ UNCHANGED limit /\ c \in Call \ Holders
    BY <1>1 DEF Acquire, Queued, Holders
  <2>2. CASE free > 0 /\ free' = free - 1 /\ pc' = [pc EXCEPT ![c] = "validate"]
    BY <2>1, <2>2, PermitTaken
  <2>3. CASE /\ UNCHANGED free
             /\ pc' = [pc EXCEPT ![c] = "returned"] \/ pc' = [pc EXCEPT ![c] = "queued"]
    <3>1. Holders' = Holders
      BY <2>1, <2>3 DEF Holders, Types
    <3> QED BY <2>1, <2>3, <3>1, PermitStays
  <2> QED BY <1>1, <2>2, <2>3 DEF Acquire, Queued, From, Refused
<1>2. CASE Validate(c) \/ ConnectDevice(c) \/ Clean(c)
  <2>1. pc[c] \in {"validate", "connect", "clean"} /\ UNCHANGED limit /\ c \in Holders
    BY <1>2 DEF Validate, ConnectDevice, Clean, From, Holders
  <2>2. CASE \E why \in {"invalid", "device", "failed"} : Returns(c, why)
    BY <2>1, <2>2, PermitReturned
  <2>3. CASE UNCHANGED free /\ \E b \in {"sessions", "clean"} : pc' = [pc EXCEPT ![c] = b]
    <3>1. Holders' = Holders
      BY <2>1, <2>3 DEF Holders, Types
    <3> QED BY <2>1, <2>3, <3>1, PermitStays
  <2> QED BY <1>2, <2>2, <2>3 DEF Validate, ConnectDevice, Clean, From
<1>3. CASE Join(c) \/ CheckTarget(c) \/ RateCheck(c) \/ PerformLogin(c) \/ ReadBack(c)
  <2>1. UNCHANGED <<pc, free, limit>>
    BY <1>3 DEF Join, CheckTarget, RateCheck, PerformLogin, ReadBack
  <2> QED BY <2>1, PermitStays DEF Holders
<1>4. CASE (\E d \in Daemon : CheckDaemon(c, d)) \/ EndCheck(c)
  <2>1. \A e \in Aboard(c) : e \in Holders
    BY ConnectAssumption DEF Aboard, FlightInv, Asks, Daemon, Holders
  <2>2. UNCHANGED limit
    BY <1>4 DEF CheckDaemon, EndCheck
  <2>3. CASE UNCHANGED free /\ \E b \in {"powerpath", "multipath", "connect"} : Land(c, b)
    <3>1. Holders' = Holders
      BY <2>1, <2>3 DEF Land, Holders, Aboard
    <3> QED BY <2>2, <2>3, <3>1, PermitStays
  <2>4. CASE Land(c, "returned") /\ free' = free + Cardinality(Aboard(c))
    <3>1. Holders' = Holders \ Aboard(c)
      BY <2>1, <2>4 DEF Land, Holders, Aboard
    <3>2. free + Cardinality(Holders) = limit /\ free \in Nat /\ limit \in Nat
      BY DEF PermitInv
    <3>3. /\ free + Cardinality(Aboard(c)) \in Nat
          /\ free + Cardinality(Aboard(c)) + Cardinality(Holders \ Aboard(c)) = limit
      BY <2>1, <3>2, HoldersFinite, GiveBack
    <3> QED BY <2>2, <2>4, <3>1, <3>2, <3>3 DEF PermitInv
  <2> QED BY <1>4, <2>3, <2>4 DEF CheckDaemon, EndCheck, Releases
<1> QED BY <1>1, <1>2, <1>3, <1>4 DEF Step

-------------------------------------------------------------------------------
(* The theorems.                                                           *)

Inv == /\ Types /\ SeqTypes /\ FlightInv /\ LoginInv
       /\ StayInv /\ KeyInv /\ ModeInv /\ PermitInv

\* The initial states satisfy the invariant.
LEMMA InitInv == Init => Inv
<1> SUFFICES ASSUME Init PROVE Inv
  OBVIOUS
<1> USE DEF Init, PerCall
<1>1. Types
  BY DEF Types
<1>2. SeqTypes
  <2>1. <<>> \in Seq(Call) /\ <<>> \in Seq(Target)
    OBVIOUS
  <2> QED BY <2>1 DEF SeqTypes, Lists
<1>3. FlightInv /\ LoginInv /\ StayInv /\ KeyInv
  BY DEF FlightInv, LoginInv, StayInv, KeyInv
<1>4. ModeInv
  BY DEF ModeInv
<1>5. PermitInv
  <2>1. Holders = {}
    BY DEF Holders
  <2>2. limit \in Nat /\ free = limit
    BY ConnectAssumption
  <2> QED BY <2>1, <2>2, FS_EmptySet DEF PermitInv
<1> QED BY <1>1, <1>2, <1>3, <1>4, <1>5 DEF Inv

\* The steps around the calls.
LEMMA AroundInv ==
  ASSUME Inv, \/ \E c \in Call : Cancel(c)
              \/ \E t \in Target : SessionChanges(t) \/ Reopen(t)
  PROVE  Inv'
<1> USE DEF Inv
<1>1. Types' /\ SeqTypes'
  BY AroundTypes
<1>2. UNCHANGED <<limiter, pc, flight, check, daemons, running, limit>>
  BY DEF Cancel, SessionChanges, Reopen, inputs
<1>3. FlightInv' /\ LoginInv'
  BY <1>2 DEF FlightInv, Leads, Asks, LoginInv, check
<1>4. StayInv'
  <2>1. CASE UNCHANGED <<session, steady>>
    BY <1>2, <2>1 DEF StayInv, check
  <2>2. ASSUME NEW t \in Target, SessionChanges(t) PROVE StayInv'
    <3>1. PICK s \in {"none", "failed", "active"} : session' = [session EXCEPT ![t] = s]
      BY <2>2 DEF SessionChanges
    <3>2. \A e \in Call : steady'[e] = steady[e] \ {t}
      BY <2>2 DEF SessionChanges
    <3>3. \A u \in Target \ {t} : session'[u] = session[u]
      BY <3>1 DEF Types
    <3>4. \A e \in Call : steady[e] \subseteq Target
      BY DEF Types
    <3> QED BY <1>2, <3>2, <3>3, <3>4 DEF StayInv, check
  <2> QED BY <2>1, <2>2 DEF Cancel, Reopen, shared
<1>5. KeyInv'
  BY DEF KeyInv, Cancel, SessionChanges, Reopen, shared
<1>6. ModeInv'
  <2>1. \A d \in Call : ctx[d] = "done" => ctx'[d] = "done"
    BY DEF Cancel, SessionChanges, Reopen, inputs, Types
  <2>2. UNCHANGED <<pc, out, daemons, running>>
    BY <1>2 DEF Cancel, SessionChanges, Reopen
  <2> QED BY <2>1, <2>2 DEF ModeInv, Checked
<1>7. PermitInv'
  BY <1>2, PermitStays DEF Holders, limiter
<1> QED BY <1>1, <1>3, <1>4, <1>5, <1>6, <1>7

\* Every step preserves the invariant.
LEMMA NextInv == Inv /\ [Next]_vars => Inv'
<1> SUFFICES ASSUME Inv, [Next]_vars PROVE Inv'
  OBVIOUS
<1>1. ASSUME NEW c \in Call, Step(c) PROVE Inv'
  <2>1. Types'
    BY <1>1, AloneTypes, FlightTypes DEF Step, Inv
  <2>2. SeqTypes' /\ FlightInv' /\ LoginInv' /\ StayInv'
    BY <1>1, StepSeqs, StepFlight, StepLogin, StepStay DEF Inv
  <2>3. KeyInv' /\ ModeInv' /\ PermitInv'
    BY <1>1, StepKey, StepMode, StepPermit DEF Inv
  <2> QED BY <2>1, <2>2, <2>3 DEF Inv
<1>2. CASE \/ \E c \in Call : Cancel(c)
           \/ \E t \in Target : SessionChanges(t) \/ Reopen(t)
  BY <1>2, AroundInv
<1>3. CASE UNCHANGED vars
  <2> USE <1>3 DEF vars, shared, limiter, check, inputs, Inv
  <2>1. Types' /\ SeqTypes'
    BY DEF Types, SeqTypes
  <2>2. FlightInv' /\ LoginInv' /\ StayInv'
    BY DEF FlightInv, Leads, Asks, LoginInv, StayInv
  <2>3. KeyInv' /\ ModeInv'
    BY DEF KeyInv, ModeInv, Checked
  <2>4. PermitInv'
    BY PermitStays DEF Holders
  <2> QED BY <2>1, <2>2, <2>3, <2>4
<1> QED BY <1>1, <1>2, <1>3 DEF Next

\* All that holds of ISCSIConnect together, for any finite number of calls and any
\* targets (iscsi.go ConnectVolume, checkISCSISessions, tryISCSILogin).
THEOREM ConnectInv == Spec => []Inv
  BY InitInv, NextInv, PTL DEF Spec

\* Every variable keeps its type: the permits stay within the limit (iscsi.go
\* ConnectVolume).
THEOREM ConnectTypeOK == Spec => []TypeOK
<1>1. Inv => free \in 0..limit
  <2> SUFFICES ASSUME Inv PROVE free \in 0..limit
    OBVIOUS
  <2>1. free \in Nat /\ limit \in Nat /\ free + Cardinality(Holders) = limit
    BY DEF Inv, PermitInv
  <2>2. Cardinality(Holders) \in Nat
    BY HoldersFinite, FS_CardinalityType
  <2> QED BY <2>1, <2>2
<1>2. Inv => TypeOK
  BY <1>1 DEF Inv, Types, SeqTypes, Lists, TypeOK
<1> QED BY <1>2, ConnectInv, PTL

\* A session that stays, and whose commands succeed, is among those the call goes
\* on with (iscsi.go checkISCSISessions).
THEOREM ConnectActiveFound == Spec => []ActiveFound
<1>1. Inv => ActiveFound
  <2> SUFFICES ASSUME Inv, NEW c \in Call, phase[c] = "targets", left[c] = <<>>,
                      NEW t \in steady[c]
               PROVE  t \in Usable(c)
    BY DEF ActiveFound
  <2>1. ToSet(left[c]) = {}
    BY DEF ToSet
  <2>2. t \in active[c]
    BY <2>1 DEF Inv, StayInv
  <2> QED BY <2>2 DEF Usable
<1> QED BY <1>1, ConnectInv, PTL

\* Who connects through a daemon that does not run had its answer from a call whose
\* context ended when it went to the daemons, its own or another's (iscsi.go
\* ConnectVolume, multipath.go and powerpath.go IsDaemonRunning).
THEOREM ConnectModeRuns == Spec => []ModeRuns
<1>1. Inv => ModeRuns
  <2>1. \A c \in Call : Mode(c) \in daemons[c] \cup {"single"}
    BY DEF Mode
  <2> QED BY <2>1 DEF Inv, ModeInv, ModeRuns
<1> QED BY <1>1, ConnectInv, PTL

\* No permit is lost or doubled (iscsi.go ConnectVolume, the deferred Release).
THEOREM ConnectPermitsAccounted == Spec => []PermitsAccounted
<1>1. Inv => PermitsAccounted
  BY DEF Inv, PermitInv, Holders, PermitsAccounted
<1> QED BY <1>1, ConnectInv, PTL

\* A target that was tried is not tried again without force before its rate key is
\* purged (iscsi.go tryISCSILogin).
THEOREM ConnectThrottled == Spec => Throttled
<1> DEFINE Waits == \A c \in Call : phase[c] # "perform" /\ phase'[c] = "perform" /\ ~Forced(c)
                                      => Head(toLogin[c]) \notin tried
<1>1. ASSUME Inv, [Next]_vars PROVE [Waits]_vars
  <2> SUFFICES ASSUME Next, NEW c \in Call, phase[c] # "perform", phase'[c] = "perform",
                      ~Forced(c)
               PROVE  Head(toLogin[c]) \notin tried
    BY <1>1
  <2>1. RateCheck(c)
    <3>1. PICK e \in Call : Step(e)
      BY DEF Next, Cancel, SessionChanges, Reopen, check
    <3>2. phase' # phase
      OBVIOUS
    <3>3. Join(e) \/ RateCheck(e) \/ PerformLogin(e) \/ ReadBack(e) \/ EndCheck(e)
      BY <3>1, <3>2 DEF Step, Acquire, Queued, Validate, CheckTarget, CheckDaemon,
         ConnectDevice, Clean, check
    <3>4. \A p : phase' = [phase EXCEPT ![e] = p] => e = c /\ phase'[c] = p
      BY <1>1 DEF Inv, Types
    <3>5. \/ RateCheck(e) /\ phase' = [phase EXCEPT ![e] = "perform"]
          \/ \E p \in {"targets", "read", "idle"} : phase' = [phase EXCEPT ![e] = p]
      BY <3>2, <3>3 DEF Join, RateCheck, PerformLogin, ReadBack, EndCheck, Goes, check
    <3> QED BY <3>4, <3>5
  <2>2. Head(toLogin[c]) \notin closed
    BY <2>1 DEF RateCheck
  <2> QED BY <1>1, <2>2 DEF Inv, KeyInv
<1> QED BY ConnectInv, <1>1, PTL DEF Spec, Throttled

-------------------------------------------------------------------------------
(* The limiter.                                                            *)

\* The calls inside hold the permits; there is room while one is free.
LEMMA InsideIsHolders ==
  ASSUME Types, PermitInv
  PROVE  /\ L!Inside = Holders
         /\ L!Room <=> free > 0
<1>1. L!Inside = Holders
  BY DEF L!Inside, Stage, Holders, Types
<1>2. Cardinality(Holders) \in Nat /\ free \in Nat /\ limit \in Nat
      /\ free + Cardinality(Holders) = limit
  BY HoldersFinite, FS_CardinalityType DEF PermitInv
<1>3. Cardinality(Holders) < limit <=> free > 0
  BY <1>2
<1>4. L!Cardinality(Holders) = Cardinality(Holders)
  BY DEF Cardinality, L!Cardinality, IsFiniteSet, L!IsFiniteSet
<1> QED BY <1>1, <1>3, <1>4 DEF L!Room

\* A call that stays on the same side of the limiter.
LEMMA SameStage ==
  ASSUME UNCHANGED <<limit, waiters, ctx>>, \A e \in Call : Stage(e)' = Stage(e)
  PROVE  UNCHANGED L!vars
  BY DEF L!vars

\* One call moves.
LEMMA OneMoves ==
  ASSUME Types, NEW c \in Call, NEW to, pc' = [pc EXCEPT ![c] = to]
  PROVE  [e \in Call |-> Stage(e)]' = [[e \in Call |-> Stage(e)] EXCEPT ![c] = Stage(c)']
<1>1. \A e \in Call \ {c} : Stage(e)' = Stage(e)
  BY DEF Types, Stage
<1> QED BY <1>1

\* The steps by which a call comes to the limiter and enters.
LEMMA ComesIn ==
  ASSUME Inv, NEW c \in Call, Acquire(c) \/ Queued(c) PROVE L!Next
<1>0. Types /\ PermitInv /\ UNCHANGED <<limit, ctx>>
  BY DEF Inv, Acquire, Queued, inputs
<1>1. /\ L!Inside = Holders
      /\ L!Room <=> free > 0
      /\ free \in Nat
  BY <1>0, InsideIsHolders DEF PermitInv
<1>2. UNCHANGED {e \in Call : ctx[e] = "done"}
  BY <1>0
<1>3. \A to : pc' = [pc EXCEPT ![c] = to] =>
         /\ pc'[c] = to
         /\ [e \in Call |-> Stage(e)]' = [[e \in Call |-> Stage(e)] EXCEPT ![c] = Stage(c)']
  BY <1>0, OneMoves DEF Types
<1>4. /\ pc[c] = "acquire" => Stage(c) = "outside"
      /\ pc[c] = "queued" => Stage(c) = "waiting"
      /\ pc'[c] = "queued" => Stage(c)' = "waiting"
      /\ pc'[c] = "validate" => Stage(c)' = "inside"
      /\ pc'[c] = "returned" => Stage(c)' = "gone"
  BY DEF Stage
<1>5. CASE Acquire(c)
  <2>1. pc[c] = "acquire"
    BY <1>5 DEF Acquire
  <2>2. CASE ctx[c] = "done" /\ Refused(c) /\ UNCHANGED limiter
    <3>1. L!Moves(c, "outside", "gone")
      BY <1>3, <1>4, <2>1, <2>2 DEF Refused, L!Moves
    <3>2. L!Refuse(c)
      BY <2>2, <3>1 DEF L!Refuse, limiter
    <3> QED BY <1>0, <1>2, <1>4, <2>1, <2>2, <3>1, <3>2 DEF L!Next, L!Moves
  <2>3. CASE /\ ctx[c] = "live" /\ free > 0 /\ waiters = <<>>
             /\ From(c, "acquire", "validate") /\ UNCHANGED waiters
    <3>1. L!Moves(c, "outside", "inside")
      BY <1>3, <1>4, <2>1, <2>3 DEF From, L!Moves
    <3>2. L!Enter(c)
      BY <1>1, <2>3, <3>1 DEF L!Enter
    <3> QED BY <1>0, <1>2, <1>4, <2>1, <3>1, <3>2 DEF L!Next, L!Moves
  <2>4. CASE /\ ctx[c] = "live" /\ (free = 0 \/ waiters # <<>>)
             /\ waiters' = Append(waiters, c) /\ From(c, "acquire", "queued")
    <3>1. L!Moves(c, "outside", "waiting")
      BY <1>3, <1>4, <2>1, <2>4 DEF From, L!Moves
    <3>2. L!Wait(c)
      BY <1>1, <2>4, <3>1 DEF L!Wait
    <3> QED BY <1>0, <1>2, <1>4, <2>1, <3>1, <3>2 DEF L!Next, L!Moves
  <2> QED BY <1>5, <2>2, <2>3, <2>4 DEF Acquire
<1>6. CASE Queued(c)
  <2>1. pc[c] = "queued"
    BY <1>6 DEF Queued
  <2>2. CASE /\ ctx[c] = "done" /\ Refused(c)
             /\ \E i \in DOMAIN waiters : waiters[i] = c /\ waiters' = RemoveAt(waiters, i)
    <3>1. L!Moves(c, "waiting", "gone")
      BY <1>3, <1>4, <2>1, <2>2 DEF Refused, L!Moves
    <3>2. L!Refuse(c)
      BY <2>2, <3>1 DEF L!Refuse, RemoveAt, L!RemoveAt
    <3> QED BY <1>0, <1>2, <1>4, <2>1, <3>1, <3>2 DEF L!Next, L!Moves
  <2>3. CASE /\ free > 0 /\ waiters # <<>> /\ Head(waiters) = c
             /\ waiters' = Tail(waiters) /\ From(c, "queued", "validate")
    <3>1. L!Moves(c, "waiting", "inside")
      BY <1>3, <1>4, <2>1, <2>3 DEF From, L!Moves
    <3>2. L!EnterFirst
      BY <1>1, <2>3, <3>1 DEF L!EnterFirst
    <3> QED BY <1>0, <1>2, <1>4, <2>1, <3>1, <3>2 DEF L!Next, L!Moves
  <2> QED BY <1>6, <2>2, <2>3 DEF Queued
<1> QED BY <1>5, <1>6

\* Calls that hold a permit and return together.
LEMMA LeaveTogether ==
  ASSUME Types, PermitInv, NEW S \in SUBSET Holders, S # {},
         pc' = [e \in Call |-> IF e \in S THEN "returned" ELSE pc[e]],
         UNCHANGED <<waiters, limit, ctx>>
  PROVE  L!Next
<1>1. S \in SUBSET L!Inside
  BY InsideIsHolders
<1>2. \A e \in Call : Stage(e)' = IF e \in S THEN "gone" ELSE Stage(e)
  BY DEF Stage
<1>3. [e \in Call |-> Stage(e)]' =
        [e \in Call |-> IF e \in S THEN "gone" ELSE [d \in Call |-> Stage(d)][e]]
  BY <1>2
<1>4. L!Leave
  BY <1>1, <1>3 DEF L!Leave
<1>5. [e \in Call |-> Stage(e)]' # [e \in Call |-> Stage(e)]
  <2>1. PICK e \in S : e \in Call /\ Stage(e) = "inside" /\ Stage(e)' = "gone"
    BY <1>2 DEF Holders, Stage
  <2> QED BY <2>1
<1>6. UNCHANGED <<limit, {e \in Call : ctx[e] = "done"}>>
  OBVIOUS
<1> QED BY <1>4, <1>5, <1>6 DEF L!Next

\* The steps of a call that is inside.
LEMMA InsideMoves ==
  ASSUME Inv, NEW c \in Call, Step(c), ~Acquire(c), ~Queued(c) PROVE [L!Next]_(L!vars)
<1>0. Types /\ PermitInv /\ FlightInv
  BY DEF Inv
<1>1. UNCHANGED <<waiters, limit, ctx>>
  BY DEF Step, Validate, Join, CheckTarget, RateCheck, PerformLogin, ReadBack, EndCheck,
     CheckDaemon, ConnectDevice, Clean, Returns, limiter, inputs
<1>2. CASE \/ Validate(c) \/ ConnectDevice(c) \/ Clean(c)
  <2>1. c \in Holders
    BY <1>2 DEF Validate, ConnectDevice, Clean, From, Holders
  <2>2. CASE \E why \in {"invalid", "device", "failed"} : Returns(c, why)
    <3>1. pc' = [e \in Call |-> IF e \in {c} THEN "returned" ELSE pc[e]]
      BY <1>0, <2>2 DEF Returns, Types
    <3> QED BY <1>0, <1>1, <2>1, <3>1, LeaveTogether
  <2>3. CASE \E b \in {"sessions", "clean"} : pc' = [pc EXCEPT ![c] = b]
    <3>1. \A e \in Call : Stage(e)' = Stage(e)
      BY <1>0, <2>1, <2>3 DEF Stage, Holders, Types
    <3> QED BY <1>1, <3>1, SameStage
  <2> QED BY <1>2, <2>2, <2>3 DEF Validate, ConnectDevice, Clean, From
<1>3. CASE Join(c) \/ CheckTarget(c) \/ RateCheck(c) \/ PerformLogin(c) \/ ReadBack(c)
  <2>1. UNCHANGED pc
    BY <1>3 DEF Join, CheckTarget, RateCheck, PerformLogin, ReadBack
  <2>2. \A e \in Call : Stage(e)' = Stage(e)
    BY <2>1 DEF Stage
  <2> QED BY <1>1, <2>2, SameStage
<1>4. CASE (\E d \in Daemon : CheckDaemon(c, d)) \/ EndCheck(c)
  <2>1. Aboard(c) \in SUBSET Holders /\ Aboard(c) # {}
    <3>1. \A e \in Aboard(c) : e \in Holders
      BY <1>0, ConnectAssumption DEF Aboard, FlightInv, Asks, Daemon, Holders
    <3>2. flight[c] = c
      BY <1>0, <1>4 DEF CheckDaemon, EndCheck, Leads, In, FlightInv
    <3> QED BY <3>1, <3>2 DEF Aboard
  <2>2. CASE Land(c, "returned")
    BY <1>0, <1>1, <2>1, <2>2, LeaveTogether DEF Land
  <2>3. CASE \E b \in {"powerpath", "multipath", "connect"} : Land(c, b)
    <3>1. \A e \in Call : Stage(e)' = Stage(e)
      BY <2>1, <2>3 DEF Land, Stage, Holders
    <3> QED BY <1>1, <3>1, SameStage
  <2> QED BY <1>4, <2>2, <2>3 DEF CheckDaemon, EndCheck
<1> QED BY <1>2, <1>3, <1>4 DEF Step

\* The connector admits its calls as a limiter should, for any finite number of calls
\* and any limits (iscsi.go ConnectVolume): every step of ISCSIConnect is a step of
\* Limiter or leaves its variables alone.
THEOREM ConnectRefinesLimiter == Spec => ImplementsLimiter
<1>1. Init => L!Init
  BY DEF Init, L!Init, Stage, PerCall
<1>2. Inv /\ [Next]_vars => [L!Next]_(L!vars)
  <2> SUFFICES ASSUME Inv, [Next]_vars PROVE [L!Next]_(L!vars)
    OBVIOUS
  <2>1. ASSUME NEW c \in Call, Step(c) PROVE [L!Next]_(L!vars)
    BY <2>1, ComesIn, InsideMoves
  <2>2. ASSUME NEW c \in Call, Cancel(c) PROVE L!Next
    <3>1. UNCHANGED <<limit, waiters, pc>> /\ ctx[c] = "live" /\ ctx' = [ctx EXCEPT ![c] = "done"]
      BY <2>2 DEF Cancel, limiter
    <3>2. {e \in Call : ctx[e] = "done"}' = {e \in Call : ctx[e] = "done"} \cup {c}
      BY <3>1 DEF Inv, Types
    <3>3. UNCHANGED [e \in Call |-> Stage(e)]
      BY <3>1 DEF Stage
    <3>4. L!Cancel(c)
      BY <3>1, <3>2, <3>3 DEF L!Cancel
    <3> QED BY <3>4 DEF L!Next
  <2>3. CASE UNCHANGED <<limit, waiters, ctx, pc>>
    <3>1. \A e \in Call : Stage(e)' = Stage(e)
      BY <2>3 DEF Stage
    <3> QED BY <2>3, <3>1, SameStage
  <2>4. ASSUME NEW t \in Target, SessionChanges(t) \/ Reopen(t)
        PROVE  UNCHANGED <<limit, waiters, ctx, pc>>
    BY <2>4 DEF SessionChanges, Reopen, limiter, inputs
  <2> QED BY <2>1, <2>2, <2>3, <2>4 DEF Next, vars, limiter, inputs
<1> QED BY <1>1, <1>2, ConnectInv, PTL DEF Spec, ImplementsLimiter, L!Spec

-------------------------------------------------------------------------------
(* Nobody waits in a circle.                                               *)

\* The calls in the queue are those that wait for a permit, each once.
LineInv ==
  /\ \A c \in Call : pc[c] = "queued" => \E i \in DOMAIN waiters : waiters[i] = c
  /\ \A i \in DOMAIN waiters : pc[waiters[i]] = "queued"
  /\ \A i, j \in DOMAIN waiters : waiters[i] = waiters[j] => i = j

\* A call that runs the check of the sessions is somewhere in it.
LeadInv == \A c \in Call : flight[c] = c /\ pc[c] = "sessions" => phase[c] # "idle"

\* A queue without its element at i.
LEMMA WithoutOne ==
  ASSUME NEW S, NEW s \in Seq(S), NEW i \in DOMAIN s
  PROVE  /\ DOMAIN RemoveAt(s, i) = 1..(Len(s) - 1)
         /\ \A k \in 1..(Len(s) - 1) : RemoveAt(s, i)[k] = IF k < i THEN s[k] ELSE s[k + 1]
<1>1. Len(s) \in Nat /\ i \in 1..Len(s)
  OBVIOUS
<1> DEFINE a == SubSeq(s, 1, i - 1)
           b == SubSeq(s, i + 1, Len(s))
<1>2. /\ a \in Seq(S) /\ Len(a) = i - 1 /\ \A k \in 1..(i - 1) : a[k] = s[k]
      /\ b \in Seq(S) /\ Len(b) = Len(s) - i /\ \A k \in 1..(Len(s) - i) : b[k] = s[i + k]
  BY <1>1
<1>3. RemoveAt(s, i) = a \o b
  BY DEF RemoveAt
<1> HIDE DEF a, b
<1>4. /\ DOMAIN (a \o b) = 1..(Len(s) - 1)
      /\ \A k \in 1..(Len(s) - 1) : (a \o b)[k] = IF k < i THEN a[k] ELSE b[k - (i - 1)]
  BY <1>1, <1>2
<1>5. ASSUME NEW k \in 1..(Len(s) - 1)
      PROVE  (a \o b)[k] = IF k < i THEN s[k] ELSE s[k + 1]
  <2>1. CASE k < i
    BY <1>1, <1>2, <1>4, <2>1
  <2>2. CASE ~(k < i)
    <3>1. k - (i - 1) \in 1..(Len(s) - i) /\ i + (k - (i - 1)) = k + 1
      BY <1>1, <2>2
    <3>2. b[k - (i - 1)] = s[k + 1]
      BY <1>2, <3>1
    <3> QED BY <1>4, <2>2, <3>2
  <2> QED BY <2>1, <2>2
<1> QED BY <1>3, <1>4, <1>5

\* The queue that c has left, from its place i.
LEMMA OutOfLine ==
  ASSUME LineInv, waiters \in Seq(Call), NEW i \in DOMAIN waiters,
         DOMAIN waiters' = 1..(Len(waiters) - 1),
         \A k \in 1..(Len(waiters) - 1) : waiters'[k] = IF k < i THEN waiters[k] ELSE waiters[k + 1]
  PROVE  /\ \A e \in Call : pc[e] = "queued" /\ e # waiters[i] => \E k \in DOMAIN waiters' : waiters'[k] = e
         /\ \A k \in DOMAIN waiters' : waiters'[k] # waiters[i] /\ waiters'[k] \in Call /\ pc[waiters'[k]] = "queued"
         /\ \A k, l \in DOMAIN waiters' : waiters'[k] = waiters'[l] => k = l
<1>1. Len(waiters) \in Nat /\ DOMAIN waiters = 1..Len(waiters) /\ i \in 1..Len(waiters)
  OBVIOUS
<1>2. ASSUME NEW e \in Call, pc[e] = "queued", e # waiters[i]
      PROVE  \E k \in DOMAIN waiters' : waiters'[k] = e
  <2>1. PICK j \in DOMAIN waiters : waiters[j] = e
    BY <1>2 DEF LineInv
  <2>2. CASE j < i
    <3>1. j \in 1..(Len(waiters) - 1)
      BY <1>1, <2>2
    <3> QED BY <2>1, <2>2, <3>1
  <2>3. CASE j > i
    <3>1. j - 1 \in 1..(Len(waiters) - 1) /\ ~(j - 1 < i) /\ j - 1 + 1 = j
      BY <1>1, <2>3
    <3>2. waiters'[j - 1] = waiters[j]
      BY <3>1
    <3> QED BY <2>1, <3>1, <3>2
  <2>4. j # i /\ j \in Nat /\ i \in Nat
    BY <1>1, <1>2, <2>1
  <2> QED BY <2>2, <2>3, <2>4
<1>3. ASSUME NEW k \in DOMAIN waiters'
      PROVE  \E j \in DOMAIN waiters :
                waiters'[k] = waiters[j] /\ j # i /\ j = IF k < i THEN k ELSE k + 1
  <2>1. k \in 1..(Len(waiters) - 1)
    OBVIOUS
  <2>2. (IF k < i THEN k ELSE k + 1) \in DOMAIN waiters \ {i}
    BY <1>1, <2>1
  <2> QED BY <2>1, <2>2
<1>4. ASSUME NEW k \in DOMAIN waiters'
      PROVE  waiters'[k] # waiters[i] /\ waiters'[k] \in Call /\ pc[waiters'[k]] = "queued"
  <2>1. PICK j \in DOMAIN waiters : waiters'[k] = waiters[j] /\ j # i
    BY <1>3
  <2>2. waiters[j] \in Call
    OBVIOUS
  <2> QED BY <2>1, <2>2 DEF LineInv
<1>5. ASSUME NEW k \in DOMAIN waiters', NEW l \in DOMAIN waiters', waiters'[k] = waiters'[l] PROVE k = l
  <2>1. PICK j \in DOMAIN waiters : waiters'[k] = waiters[j] /\ j = IF k < i THEN k ELSE k + 1
    BY <1>3
  <2>2. PICK m \in DOMAIN waiters : waiters'[l] = waiters[m] /\ m = IF l < i THEN l ELSE l + 1
    BY <1>3
  <2>3. j = m
    BY <1>5, <2>1, <2>2 DEF LineInv
  <2>4. k \in Nat /\ l \in Nat /\ i \in Nat
    BY <1>1
  <2> QED BY <2>1, <2>2, <2>3, <2>4
<1> QED BY <1>2, <1>4, <1>5

\* A call that comes, waits, or stops waiting keeps the queue.
LEMMA StepLine ==
  ASSUME LineInv, Types, SeqTypes, NEW c \in Call, Acquire(c) \/ Queued(c) PROVE LineInv'
<1>1. waiters \in Seq(Call)
  BY DEF SeqTypes
<1>2. \A to : pc' = [pc EXCEPT ![c] = to] => \A e \in Call : pc'[e] = IF e = c THEN to ELSE pc[e]
  BY DEF Types
<1>3. ASSUME UNCHANGED waiters, pc[c] = "acquire",
             \E to \in {"validate", "returned"} : pc' = [pc EXCEPT ![c] = to]
      PROVE  LineInv'
  <2>1. \A i \in DOMAIN waiters : waiters[i] \in Call /\ waiters[i] # c
    BY <1>1, <1>3 DEF LineInv
  <2> QED BY <1>2, <1>3, <2>1 DEF LineInv
<1>4. ASSUME waiters' = Append(waiters, c), pc[c] = "acquire", pc' = [pc EXCEPT ![c] = "queued"]
      PROVE  LineInv'
  <2>1. /\ Len(waiters) \in Nat /\ DOMAIN waiters = 1..Len(waiters)
        /\ DOMAIN waiters' = 1..(Len(waiters) + 1)
        /\ \A k \in 1..Len(waiters) : waiters'[k] = waiters[k]
        /\ waiters'[Len(waiters) + 1] = c
    BY <1>1, <1>4
  <2>2. \A k \in 1..Len(waiters) : waiters[k] \in Call /\ waiters[k] # c
    BY <1>1, <1>4, <2>1 DEF LineInv
  <2>3. \A k \in 1..(Len(waiters) + 1) : k \in 1..Len(waiters) \/ k = Len(waiters) + 1
    BY <2>1
  <2>4. \A e \in Call : pc'[e] = "queued" => \E k \in DOMAIN waiters' : waiters'[k] = e
    <3>1. SUFFICES ASSUME NEW e \in Call, pc'[e] = "queued"
                   PROVE  \E k \in DOMAIN waiters' : waiters'[k] = e
      OBVIOUS
    <3>2. CASE e = c
      <4>1. Len(waiters) + 1 \in DOMAIN waiters'
        BY <2>1
      <4> QED BY <2>1, <3>2, <4>1
    <3>3. CASE e # c
      <4>1. PICK k \in DOMAIN waiters : waiters[k] = e
        BY <1>2, <1>4, <3>1, <3>3 DEF LineInv
      <4>2. k \in DOMAIN waiters' /\ waiters'[k] = e
        BY <2>1, <4>1
      <4> QED BY <4>2
    <3> QED BY <3>2, <3>3
  <2>5. ASSUME NEW k \in DOMAIN waiters' PROVE pc'[waiters'[k]] = "queued"
    <3>1. CASE k \in 1..Len(waiters)
      <4>1. pc[waiters[k]] = "queued"
        BY <2>1, <3>1 DEF LineInv
      <4> QED BY <1>2, <1>4, <2>1, <2>2, <3>1, <4>1
    <3>2. CASE k = Len(waiters) + 1
      <4>1. waiters'[k] = c
        BY <2>1, <3>2
      <4>2. pc'[c] = "queued"
        BY <1>4 DEF Types
      <4> QED BY <4>1, <4>2
    <3> QED BY <2>1, <2>3, <3>1, <3>2
  <2>6. \A k, l \in DOMAIN waiters' : waiters'[k] = waiters'[l] => k = l
    BY <2>1, <2>2, <2>3 DEF LineInv
  <2> QED BY <2>4, <2>5, <2>6 DEF LineInv
<1>5. ASSUME NEW i \in DOMAIN waiters, waiters[i] = c,
             DOMAIN waiters' = 1..(Len(waiters) - 1),
             \A k \in 1..(Len(waiters) - 1) :
                waiters'[k] = IF k < i THEN waiters[k] ELSE waiters[k + 1],
             \E to \in {"validate", "returned"} : pc' = [pc EXCEPT ![c] = to]
      PROVE  LineInv'
  <2>1. /\ \A e \in Call : pc[e] = "queued" /\ e # c => \E k \in DOMAIN waiters' : waiters'[k] = e
        /\ \A k \in DOMAIN waiters' : waiters'[k] # c /\ waiters'[k] \in Call
                                      /\ pc[waiters'[k]] = "queued"
        /\ \A k, l \in DOMAIN waiters' : waiters'[k] = waiters'[l] => k = l
    BY <1>1, <1>5, OutOfLine
  <2>2. pc'[c] # "queued" /\ \A e \in Call : e # c => pc'[e] = pc[e]
    BY <1>2, <1>5
  <2>3. \A e \in Call : pc'[e] = "queued" => \E k \in DOMAIN waiters' : waiters'[k] = e
    BY <2>1, <2>2
  <2>4. \A k \in DOMAIN waiters' : pc'[waiters'[k]] = "queued"
    BY <2>1, <2>2
  <2> QED BY <2>1, <2>3, <2>4 DEF LineInv
<1>6. CASE Acquire(c)
  BY <1>3, <1>4, <1>6 DEF Acquire, Refused, From, limiter
<1>7. CASE Queued(c)
  <2>1. CASE /\ Refused(c)
             /\ \E i \in DOMAIN waiters : waiters[i] = c /\ waiters' = RemoveAt(waiters, i)
    <3>1. PICK i \in DOMAIN waiters : waiters[i] = c /\ waiters' = RemoveAt(waiters, i)
      BY <2>1
    <3>2. /\ DOMAIN waiters' = 1..(Len(waiters) - 1)
          /\ \A k \in 1..(Len(waiters) - 1) :
                waiters'[k] = IF k < i THEN waiters[k] ELSE waiters[k + 1]
      BY <1>1, <3>1, WithoutOne
    <3> QED BY <1>5, <2>1, <3>1, <3>2 DEF Refused
  <2>2. CASE /\ waiters # <<>> /\ Head(waiters) = c
             /\ waiters' = Tail(waiters) /\ From(c, "queued", "validate")
    <3>1. /\ Len(waiters) \in Nat /\ 1 \in DOMAIN waiters /\ waiters[1] = c
          /\ DOMAIN waiters' = 1..(Len(waiters) - 1)
          /\ \A k \in 1..(Len(waiters) - 1) : waiters'[k] = waiters[k + 1] /\ ~(k < 1)
      BY <1>1, <2>2
    <3> QED BY <1>5, <2>2, <3>1 DEF From
  <2> QED BY <1>7, <2>1, <2>2 DEF Queued
<1> QED BY <1>6, <1>7

\* Other steps leave those who wait where they are.
LEMMA LineStays ==
  ASSUME LineInv, SeqTypes, UNCHANGED waiters,
         \A e \in Call : pc'[e] = pc[e] \/ (pc[e] # "queued" /\ pc'[e] # "queued")
  PROVE  LineInv'
<1>1. \A i \in DOMAIN waiters : waiters[i] \in Call
  BY DEF SeqTypes
<1> QED BY <1>1 DEF LineInv

\* Every step of a call keeps who waits and who leads.
LEMMA StepWaits ==
  ASSUME Inv, LineInv, LeadInv, NEW c \in Call, Step(c) PROVE LineInv' /\ LeadInv'
<1> USE DEF limiter
<1>0. Types /\ SeqTypes /\ FlightInv
  BY DEF Inv
<1>1. CASE Acquire(c) \/ Queued(c)
  <2>1. UNCHANGED <<flight, phase>> /\ \A e \in Call : pc'[e] = "sessions" => pc[e] = "sessions"
    BY <1>0, <1>1 DEF Acquire, Queued, From, Refused, check, Types
  <2> QED BY <1>0, <1>1, <2>1, StepLine DEF LeadInv
<1>2. CASE Validate(c) \/ ConnectDevice(c) \/ Clean(c)
  <2>1. /\ UNCHANGED <<flight, phase, waiters>>
        /\ pc[c] \in {"validate", "connect", "clean"}
        /\ \E to \in {"sessions", "clean", "returned"} : pc' = [pc EXCEPT ![c] = to]
    BY <1>2 DEF Validate, ConnectDevice, Clean, From, Returns, check
  <2>2. flight[c] = None
    BY <1>0, <2>1 DEF FlightInv, Asks, Daemon
  <2>3. \A e \in Call : pc'[e] = pc[e] \/ (e = c /\ pc[e] # "queued" /\ pc'[e] # "queued")
    BY <1>0, <2>1 DEF Types
  <2> QED BY <1>0, <2>1, <2>2, <2>3, ConnectAssumption, LineStays DEF LeadInv
<1>3. CASE Join(c)
  <2>1. UNCHANGED <<waiters, pc>>
    BY <1>3 DEF Join
  <2>2. LineInv'
    BY <1>0, <2>1, LineStays
  <2>3. LeadInv'
    BY <1>0, <1>3, ConnectAssumption DEF Join, LeadInv, Leads, check, Types
  <2> QED BY <2>2, <2>3
<1>4. CASE CheckTarget(c) \/ RateCheck(c) \/ PerformLogin(c) \/ ReadBack(c)
  <2>1. UNCHANGED <<waiters, pc, flight>>
    BY <1>4 DEF CheckTarget, RateCheck, PerformLogin, ReadBack
  <2>2. UNCHANGED phase \/ \E p \in {"targets", "perform", "read"} : phase' = [phase EXCEPT ![c] = p]
    BY <1>4 DEF CheckTarget, RateCheck, PerformLogin, ReadBack, Goes
  <2>3. LineInv'
    BY <1>0, <2>1, LineStays
  <2>4. LeadInv'
    BY <1>0, <2>1, <2>2 DEF LeadInv, Types
  <2> QED BY <2>3, <2>4
<1>5. CASE EndCheck(c) \/ \E d \in Daemon : CheckDaemon(c, d)
  <2>1. /\ UNCHANGED waiters
        /\ \E b \in {"returned", "powerpath", "multipath", "connect"} : Land(c, b)
    BY <1>5 DEF EndCheck, CheckDaemon
  <2>2. \A e \in Aboard(c) : e \in Call /\ pc[e] # "queued"
    BY <1>0, ConnectAssumption DEF FlightInv, Aboard, Asks, Daemon
  <2>3. \A e \in Call :
           IF e \in Aboard(c) THEN pc'[e] \notin {"sessions", "queued"}
                              ELSE pc'[e] = pc[e] /\ flight'[e] = flight[e]
    BY <2>1 DEF Land
  <2>4. LineInv'
    BY <1>0, <2>1, <2>2, <2>3, LineStays
  <2>5. \A e \in Call \ {c} : phase'[e] = phase[e]
    BY <1>0, <1>5 DEF EndCheck, CheckDaemon, Goes, check, Types
  <2>6. flight[c] = c
    BY <1>0, <1>5 DEF EndCheck, In, CheckDaemon, Leads, FlightInv
  <2>7. LeadInv'
    BY <2>3, <2>5, <2>6 DEF LeadInv, Aboard
  <2> QED BY <2>4, <2>7
<1> QED BY <1>1, <1>2, <1>3, <1>4, <1>5 DEF Step

WaitInv == Inv /\ LineInv /\ LeadInv

\* Who waits for whom, in all states.
LEMMA ConnectWaits == Spec => []WaitInv
<1>1. Init => WaitInv
  BY InitInv, ConnectAssumption DEF Init, PerCall, WaitInv, LineInv, LeadInv
<1>2. WaitInv /\ [Next]_vars => WaitInv'
  <2> SUFFICES ASSUME WaitInv, [Next]_vars PROVE LineInv' /\ LeadInv'
    BY NextInv DEF WaitInv
  <2>1. ASSUME NEW c \in Call, Step(c) PROVE LineInv' /\ LeadInv'
    BY <2>1, StepWaits DEF WaitInv
  <2>2. CASE UNCHANGED <<waiters, pc, flight, phase>>
    BY <2>2, LineStays DEF WaitInv, LeadInv, Inv
  <2>3. ASSUME \/ \E c \in Call : Cancel(c)
               \/ \E t \in Target : SessionChanges(t) \/ Reopen(t)
        PROVE  UNCHANGED <<waiters, pc, flight, phase>>
    BY <2>3 DEF Cancel, SessionChanges, Reopen, limiter, check
  <2> QED BY <2>1, <2>2, <2>3 DEF Next, vars, limiter, check
<1> QED BY <1>1, <1>2, PTL DEF Spec

\* Until all calls have returned one of them can take its next step: the permits and
\* the flights make no circle (iscsi.go ConnectVolume, singleCall.Do).
THEOREM ConnectNeverStuck == Spec => []NeverStuck
<1>1. WaitInv => NeverStuck
  <2> SUFFICES ASSUME WaitInv, NEW c \in Call, pc[c] # "returned" PROVE \E d \in Call : Ready(d)
    BY DEF NeverStuck
  <2>0. Types /\ SeqTypes /\ FlightInv /\ PermitInv
    BY DEF WaitInv, Inv
  <2>1. ASSUME NEW e \in Holders PROVE \E d \in Call : Ready(d)
    <3>0. e \in Call
      BY DEF Holders
    <3>1. CASE flight[e] = None
      <4>1. pc[e] \in {"validate", "connect", "clean"} \/ Asks(e)
        BY <2>0 DEF Holders, Types, Asks, Daemon
      <4> QED BY <3>0, <3>1, <4>1 DEF Ready
    <3>2. CASE flight[e] # None
      <4>1. /\ flight[e] \in Call /\ Leads(flight[e]) /\ Asks(e) /\ pc[flight[e]] = pc[e]
        BY <2>0, <3>0, <3>2 DEF Types, FlightInv
      <4>2. pc[flight[e]] \in Daemon \/ phase[flight[e]] # "idle"
        BY <4>1 DEF WaitInv, LeadInv, Leads, Asks
      <4> QED BY <4>1, <4>2 DEF Ready
    <3> QED BY <3>1, <3>2
  <2>2. CASE Holders # {}
    BY <2>1, <2>2
  <2>3. CASE Holders = {} /\ pc[c] = "queued"
    <3>1. free > 0
      <4>1. limit \in Nat \ {0}
        BY <2>0, ConnectAssumption DEF Types
      <4> QED BY <2>0, <2>3, <4>1, FS_EmptySet DEF PermitInv
    <3>2. waiters \in Seq(Call) /\ waiters # <<>>
      BY <2>0, <2>3 DEF SeqTypes, WaitInv, LineInv
    <3>3. Head(waiters) \in Call /\ 1 \in DOMAIN waiters /\ waiters[1] = Head(waiters)
      BY <3>2
    <3>4. pc[Head(waiters)] = "queued"
      BY <3>3 DEF WaitInv, LineInv
    <3> QED BY <3>1, <3>2, <3>3, <3>4 DEF Ready
  <2>4. CASE pc[c] = "acquire"
    BY <2>4 DEF Ready
  <2> QED BY <2>2, <2>3, <2>4 DEF Holders
<1> QED BY <1>1, ConnectWaits, PTL

-------------------------------------------------------------------------------
(* A call ends after a number of steps that its request gives.             *)

\* A call that runs no check has nobody to log in; what is still to be asked for
\* and logged in to is counted in natural numbers.
IdleInv == \A c \in Call : phase[c] = "idle" => toLogin[c] = <<>>

\* What a step that shortens a list leaves of it.
LEMMA Shorter ==
  ASSUME NEW f \in Lists, NEW c \in Call
  PROVE  /\ Len(f[c]) \in Nat
         /\ f[c] = <<>> => Len(f[c]) = 0
         /\ f[c] # <<>> => Len(Tail(f[c])) = Len(f[c]) - 1
         /\ \A t \in Target : Len(Append(f[c], t)) = Len(f[c]) + 1
<1>1. f[c] \in Seq(Target)
  BY DEF Lists
<1> QED BY <1>1

\* Only the end of its check leaves a call idle.
LEMMA StepIdle == ASSUME Types, SeqTypes, IdleInv, NEW c \in Call, Step(c) PROVE IdleInv'
<1>1. CASE Join(c) \/ Acquire(c) \/ Queued(c) \/ Validate(c) \/ ConnectDevice(c) \/ Clean(c)
  <2>1. UNCHANGED toLogin /\ \A e \in Call : phase'[e] = "idle" => phase[e] = "idle"
    BY <1>1 DEF Join, Acquire, Queued, Validate, ConnectDevice, Clean, check, Types
  <2> QED BY <2>1 DEF IdleInv
<1>2. CASE CheckTarget(c) \/ RateCheck(c) \/ PerformLogin(c) \/ ReadBack(c)
  <2>1. phase[c] # "idle" /\ phase'[c] # "idle"
    BY <1>2 DEF CheckTarget, RateCheck, PerformLogin, ReadBack, In, Goes, Types
  <2>2. \A e \in Call \ {c} : phase'[e] = phase[e]
    BY <1>2 DEF CheckTarget, RateCheck, PerformLogin, ReadBack, In, Goes, Types
  <2>3. \A e \in Call \ {c} : toLogin'[e] = toLogin[e]
    BY <1>2 DEF CheckTarget, RateCheck, PerformLogin, ReadBack, SeqTypes, Lists
  <2> QED BY <2>1, <2>2, <2>3 DEF IdleInv
<1>3. CASE EndCheck(c)
  BY <1>3 DEF EndCheck, Goes, IdleInv, Types
<1>4. CASE \E d \in Daemon : CheckDaemon(c, d)
  BY <1>4 DEF CheckDaemon, check, IdleInv
<1> QED BY <1>1, <1>2, <1>3, <1>4 DEF Step

\* What a call has left is a number.
LEMMA CheckNumbers ==
  ASSUME Types, SeqTypes, NEW c \in Call
  PROVE  CheckWork(c) \in Nat /\ MostCheck(c) \in Nat
<1> DEFINE l     == Len(left[c])
           g     == Len(toLogin[c])
           r     == Len(req[c])
           place == CASE phase[c] = "targets" -> 2 [] phase[c] = "perform" -> 1 [] OTHER -> 0
<1>1. l \in Nat /\ g \in Nat
  BY Shorter DEF SeqTypes
<1>2. r \in Nat
  BY RequestType DEF Types
<1>3. place \in Nat
  OBVIOUS
<1>4. CheckWork(c) = 4 * l + 3 * g + place /\ MostCheck(c) = 4 * r + 3
  BY DEF CheckWork, MostCheck
<1> HIDE DEF l, g, r, place
<1>5. 4 * l + 3 * g + place \in Nat /\ 4 * r + 3 \in Nat
  BY <1>1, <1>2, <1>3
<1> QED BY <1>4, <1>5

\* A call that moves by itself.
LEMMA AloneWork ==
  ASSUME Inv, NEW c \in Call,
         Acquire(c) \/ Queued(c) \/ Validate(c) \/ ConnectDevice(c) \/ Clean(c)
  PROVE  \A e \in Call : Local(e)' # Local(e) => Work(e)' >= 0 /\ Work(e)' < Work(e)
<1>0. Types /\ SeqTypes /\ FlightInv
  BY DEF Inv
<1>1. UNCHANGED <<flight, phase, left, toLogin, req>>
  BY DEF Acquire, Queued, Validate, ConnectDevice, Clean, check, inputs
<1>2. \/ pc[c] = "acquire" /\ pc' = [pc EXCEPT ![c] = "returned"]
      \/ pc[c] = "acquire" /\ pc' = [pc EXCEPT ![c] = "validate"]
      \/ pc[c] = "acquire" /\ pc' = [pc EXCEPT ![c] = "queued"]
      \/ pc[c] = "queued" /\ pc' = [pc EXCEPT ![c] = "returned"]
      \/ pc[c] = "queued" /\ pc' = [pc EXCEPT ![c] = "validate"]
      \/ pc[c] = "validate" /\ pc' = [pc EXCEPT ![c] = "returned"]
      \/ pc[c] = "validate" /\ pc' = [pc EXCEPT ![c] = "sessions"]
      \/ pc[c] = "connect" /\ pc' = [pc EXCEPT ![c] = "clean"]
      \/ pc[c] = "connect" /\ pc' = [pc EXCEPT ![c] = "returned"]
      \/ pc[c] = "clean" /\ pc' = [pc EXCEPT ![c] = "returned"]
  BY DEF Acquire, Queued, Validate, ConnectDevice, Clean, From, Refused, Returns
<1>3. \A e \in Call \ {c} : Local(e)' = Local(e)
  BY <1>0, <1>1, <1>2 DEF Types, Local
<1>4. flight[c] = None
  BY <1>0, <1>2 DEF FlightInv, Asks, Daemon
<1>5. MostCheck(c) \in Nat /\ MostCheck(c)' = MostCheck(c)
  BY <1>0, <1>1, CheckNumbers DEF MostCheck
<1>6. /\ pc[c] = "acquire"  => Work(c) = 11 + MostCheck(c)
      /\ pc[c] = "queued"   => Work(c) = 10 + MostCheck(c)
      /\ pc[c] = "validate" => Work(c) = 9 + MostCheck(c)
      /\ pc[c] = "connect"  => Work(c) = 2
      /\ pc[c] = "clean"    => Work(c) = 1
  BY DEF Work
<1>7. /\ pc'[c] = "queued"   => Work(c)' = 10 + MostCheck(c)
      /\ pc'[c] = "validate" => Work(c)' = 9 + MostCheck(c)
      /\ pc'[c] = "sessions" => Work(c)' = 8 + MostCheck(c)
      /\ pc'[c] = "clean"    => Work(c)' = 1
      /\ pc'[c] = "returned" => Work(c)' = 0
  BY <1>1, <1>4, <1>5 DEF Work
<1>8. Work(c)' >= 0 /\ Work(c)' < Work(c)
  BY <1>0, <1>2, <1>5, <1>6, <1>7 DEF Types
<1> QED BY <1>3, <1>8

\* A call that asks begins a flight, or goes aboard one.
LEMMA JoinWork ==
  ASSUME Inv, IdleInv, NEW c \in Call, Join(c)
  PROVE  \A e \in Call : Local(e)' # Local(e) => Work(e)' >= 0 /\ Work(e)' < Work(e)
<1>0. Types /\ SeqTypes /\ FlightInv
  BY DEF Inv
<1>1. /\ UNCHANGED <<pc, req, toLogin>> /\ Asks(c) /\ flight[c] = None
      /\ \E d \in Call : flight' = [flight EXCEPT ![c] = d]
  BY DEF Join, check, inputs
<1>2. \A e \in Call \ {c} : Local(e)' = Local(e)
  BY <1>0, <1>1 DEF Join, check, Types, SeqTypes, Lists, Local
<1>3. flight'[c] \in Call /\ flight'[c] # None
  BY <1>0, <1>1, ConnectAssumption DEF Types
<1>4. CASE pc[c] \in Daemon
  <2>1. Work(c)' = Work(c) - 1 /\ Work(c) \in {4, 6}
    BY <1>1, <1>3, <1>4 DEF Work, Daemon
  <2> QED BY <1>2, <2>1
<1>5. CASE pc[c] = "sessions" /\ ~Leads(c)'
  <2>1. Work(c)' = 7 /\ Work(c) = 8 + MostCheck(c)
    BY <1>1, <1>3, <1>5 DEF Work
  <2> QED BY <1>0, <1>2, <2>1, CheckNumbers
<1>6. CASE pc[c] = "sessions" /\ Leads(c)'
  <2>1. /\ phase' = [phase EXCEPT ![c] = "targets"]
        /\ left' = [left EXCEPT ![c] = req[c]]
    <3>1. ~ \E d \in Call : Leads(d) /\ flight' = [flight EXCEPT ![c] = d]
      <4>1. SUFFICES ASSUME NEW d \in Call, Leads(d), flight' = [flight EXCEPT ![c] = d]
                     PROVE  FALSE
        OBVIOUS
      <4>2. d = c
        BY <1>0, <1>6, <4>1 DEF Leads, Types
      <4> QED BY <1>1, <4>1, <4>2, ConnectAssumption DEF Leads
    <3> QED BY <1>6, <3>1 DEF Join
  <2>2. phase'[c] = "targets" /\ left'[c] = req[c] /\ toLogin'[c] = <<>>
    <3>1. phase[c] = "idle"
      BY <1>0, <1>1, ConnectAssumption DEF FlightInv
    <3> QED BY <1>0, <1>1, <2>1, <3>1 DEF Types, SeqTypes, Lists, IdleInv
  <2>3. Len(req[c]) \in Nat
    BY <1>0, RequestType DEF Types
  <2>4. CheckWork(c)' = 4 * Len(req[c]) + 2
    <3>1. CheckWork(c)' = 4 * Len(req[c]) + 3 * Len(<<>>) + 2
      BY <2>2 DEF CheckWork
    <3> QED BY <2>3, <3>1
  <2>5. Work(c)' = 8 + CheckWork(c)' /\ Work(c) = 8 + MostCheck(c)
    BY <1>1, <1>3, <1>6 DEF Work
  <2>6. Work(c)' >= 0 /\ Work(c)' < Work(c)
    BY <2>3, <2>4, <2>5 DEF MostCheck
  <2> QED BY <1>2, <2>6
<1> QED BY <1>1, <1>4, <1>5, <1>6 DEF Asks, Daemon

\* The leader asks, logs in and reads back.
LEMMA LoopWork ==
  ASSUME Inv, NEW c \in Call, CheckTarget(c) \/ RateCheck(c) \/ PerformLogin(c) \/ ReadBack(c)
  PROVE  \A e \in Call : Local(e)' # Local(e) => Work(e)' >= 0 /\ Work(e)' < Work(e)
<1>0. Types /\ SeqTypes /\ FlightInv /\ LoginInv
  BY DEF Inv
<1>1. /\ UNCHANGED <<pc, req, flight>>
      /\ phase[c] # "idle" /\ phase'[c] # "idle"
  BY <1>0 DEF CheckTarget, RateCheck, PerformLogin, ReadBack, In, Goes, Types, inputs
<1>2. \A e \in Call \ {c} : Local(e)' = Local(e)
  BY <1>0 DEF CheckTarget, RateCheck, PerformLogin, ReadBack, Goes, Types, SeqTypes, Lists, Local
<1>3. Work(c) = 8 + CheckWork(c) /\ Work(c)' = 8 + CheckWork(c)'
  BY <1>0, <1>1, ConnectAssumption DEF FlightInv, Work, Leads
<1> DEFINE l  == Len(left[c])    g  == Len(toLogin[c])
           l1 == Len(left'[c])   g1 == Len(toLogin'[c])
<1>4. l \in Nat /\ g \in Nat
  BY <1>0, Shorter DEF SeqTypes
<1>5. CASE CheckTarget(c)
  <2>1. phase[c] = "targets" /\ phase'[c] = "targets" /\ l1 = l - 1
    <3>1. left[c] # <<>> /\ left'[c] = Tail(left[c])
      BY <1>0, <1>5 DEF CheckTarget, SeqTypes, Lists
    <3>2. phase[c] = "targets" /\ phase'[c] = "targets"
      BY <1>5 DEF CheckTarget, In
    <3> QED BY <1>0, <3>1, <3>2, Shorter DEF SeqTypes
  <2>2. g1 = g \/ g1 = g + 1
    <3>1. Head(left[c]) \in Target
      BY <1>0, <1>5, ListsChange DEF CheckTarget, SeqTypes
    <3>2. toLogin'[c] = toLogin[c] \/ toLogin'[c] = Append(toLogin[c], Head(left[c]))
      BY <1>0, <1>5 DEF CheckTarget, SeqTypes, Lists
    <3> QED BY <1>0, <3>1, <3>2, Shorter DEF SeqTypes
  <2>3. CheckWork(c) = 4 * l + 3 * g + 2 /\ CheckWork(c)' = 4 * l1 + 3 * g1 + 2
    BY <2>1 DEF CheckWork
  <2>4. l - 1 \in Nat
    BY <1>0, <1>4, <1>5, <2>1, Shorter DEF CheckTarget, SeqTypes
  <2> HIDE DEF l, g, l1, g1
  <2> QED BY <1>2, <1>3, <1>4, <2>1, <2>2, <2>3, <2>4
<1>6. CASE RateCheck(c) \/ PerformLogin(c) \/ ReadBack(c)
  <2>1. toLogin[c] # <<>>
    BY <1>0, <1>6 DEF RateCheck, PerformLogin, ReadBack, In, LoginInv
  <2>2. l1 = l
    BY <1>6 DEF RateCheck, PerformLogin, ReadBack
  <2>3. \/ toLogin'[c] = toLogin[c] /\ phase[c] = "targets" /\ phase'[c] = "perform"
        \/ toLogin'[c] = toLogin[c] /\ phase[c] = "perform" /\ phase'[c] = "read"
        \/ toLogin'[c] = Tail(toLogin[c]) /\ phase'[c] = "targets"
    BY <1>0, <1>6 DEF RateCheck, PerformLogin, ReadBack, In, Goes, Types, SeqTypes, Lists
  <2>4. Len(Tail(toLogin[c])) = g - 1 /\ g - 1 \in Nat
    BY <1>0, <1>4, <2>1, Shorter DEF SeqTypes
  <2>5. CASE toLogin'[c] = toLogin[c] /\ phase[c] = "targets" /\ phase'[c] = "perform"
    <3>1. CheckWork(c) = 4 * l + 3 * g + 2 /\ CheckWork(c)' = 4 * l1 + 3 * g + 1
      BY <2>5 DEF CheckWork
    <3> HIDE DEF l, g, l1, g1
    <3> QED BY <1>2, <1>3, <1>4, <2>2, <3>1
  <2>6. CASE toLogin'[c] = toLogin[c] /\ phase[c] = "perform" /\ phase'[c] = "read"
    <3>1. CheckWork(c) = 4 * l + 3 * g + 1 /\ CheckWork(c)' = 4 * l1 + 3 * g + 0
      BY <2>6 DEF CheckWork
    <3> HIDE DEF l, g, l1, g1
    <3> QED BY <1>2, <1>3, <1>4, <2>2, <3>1
  <2>7. CASE toLogin'[c] = Tail(toLogin[c]) /\ phase'[c] = "targets"
    <3> DEFINE place == CASE phase[c] = "targets" -> 2 [] phase[c] = "perform" -> 1 [] OTHER -> 0
    <3>1. CheckWork(c) = 4 * l + 3 * g + place /\ CheckWork(c)' = 4 * l1 + 3 * g1 + 2 /\ g1 = g - 1
      BY <2>4, <2>7 DEF CheckWork
    <3>2. place \in Nat
      OBVIOUS
    <3> HIDE DEF l, g, l1, g1, place
    <3> QED BY <1>2, <1>3, <1>4, <2>2, <2>4, <3>1, <3>2
  <2> QED BY <2>3, <2>5, <2>6, <2>7
<1> QED BY <1>5, <1>6

\* Everyone aboard goes on.
LEMMA LandWork ==
  ASSUME Inv, NEW c \in Call, EndCheck(c) \/ \E d \in Daemon : CheckDaemon(c, d)
  PROVE  \A e \in Call : Local(e)' # Local(e) => Work(e)' >= 0 /\ Work(e)' < Work(e)
<1>0. Types /\ SeqTypes /\ FlightInv
  BY DEF Inv
<1>1. /\ Leads(c) /\ UNCHANGED <<left, toLogin>>
      /\ \/ pc[c] = "sessions" /\ Land(c, "returned")
         \/ pc[c] = "sessions" /\ Land(c, "powerpath")
         \/ pc[c] = "powerpath" /\ Land(c, "multipath")
         \/ pc[c] = "multipath" /\ Land(c, "connect")
      /\ \A e \in Call \ {c} : phase'[e] = phase[e]
  <2>1. CASE EndCheck(c)
    <3>1. phase[c] # "idle"
      BY <2>1 DEF EndCheck, In
    <3> QED BY <1>0, <2>1, <3>1 DEF EndCheck, FlightInv, Leads, Goes, Types
  <2>2. CASE \E d \in Daemon : CheckDaemon(c, d)
    BY <2>2 DEF CheckDaemon, Daemon, check
  <2> QED BY <2>1, <2>2
<1>2. SUFFICES ASSUME NEW e \in Call, Local(e)' # Local(e)
               PROVE  Work(e)' >= 0 /\ Work(e)' < Work(e)
  OBVIOUS
<1>3. e \in Aboard(c)
  <2>1. c \in Aboard(c)
    BY <1>1 DEF Aboard, Leads
  <2>2. e \notin Aboard(c) => pc'[e] = pc[e] /\ flight'[e] = flight[e]
    BY <1>1 DEF Land
  <2> QED BY <1>1, <1>2, <2>1, <2>2 DEF Local
<1>4. pc[e] = pc[c] /\ flight[e] = c /\ flight[e] # None /\ flight'[e] = None
  BY <1>0, <1>1, <1>3, ConnectAssumption DEF Aboard, FlightInv, Land
<1>5. CheckWork(e) \in Nat
  BY <1>0, CheckNumbers
<1>6. /\ pc[e] = "sessions"  => Work(e) = 7 \/ Work(e) = 8 + CheckWork(e)
      /\ pc[e] = "powerpath" => Work(e) = 5
      /\ pc[e] = "multipath" => Work(e) = 3
  BY <1>4 DEF Work
<1>7. /\ pc'[e] = "returned"  => Work(e)' = 0
      /\ pc'[e] = "powerpath" => Work(e)' = 6
      /\ pc'[e] = "multipath" => Work(e)' = 4
      /\ pc'[e] = "connect"   => Work(e)' = 2
  BY <1>4 DEF Work
<1>8. \/ pc[e] = "sessions" /\ pc'[e] \in {"returned", "powerpath"}
      \/ pc[e] = "powerpath" /\ pc'[e] = "multipath"
      \/ pc[e] = "multipath" /\ pc'[e] = "connect"
  BY <1>1, <1>3, <1>4 DEF Land
<1> QED BY <1>5, <1>6, <1>7, <1>8

\* Every call goes through at most 4 * n + 14 places for n targets: with NeverStuck,
\* a set of calls whose goroutines run has returned after finitely many steps of
\* theirs (iscsi.go ConnectVolume, checkISCSISessions, tryISCSILogin).
THEOREM ConnectCallBounded == Spec => CallBounded
<1> DEFINE Bounded == \A c \in Call : Local(c)' # Local(c) => Work(c)' >= 0 /\ Work(c)' < Work(c)
<1>1. Init => IdleInv
  BY DEF Init, PerCall, IdleInv
<1>2. ASSUME UNCHANGED <<pc, flight, phase, left, toLogin>> PROVE Bounded
  BY <1>2 DEF Local
<1>3. Inv /\ IdleInv /\ [Next]_vars => IdleInv' /\ [Bounded]_vars
  <2> SUFFICES ASSUME Inv, IdleInv, [Next]_vars PROVE IdleInv' /\ Bounded
    OBVIOUS
  <2>1. ASSUME NEW c \in Call, Step(c) PROVE IdleInv' /\ Bounded
    <3>1. IdleInv'
      BY <2>1, StepIdle DEF Inv
    <3>2. Bounded
      BY <2>1, AloneWork, JoinWork, LoopWork, LandWork DEF Step
    <3> QED BY <3>1, <3>2
  <2>2. CASE \/ \E c \in Call : Cancel(c)
             \/ \E t \in Target : SessionChanges(t) \/ Reopen(t)
             \/ UNCHANGED vars
    <3>1. UNCHANGED <<pc, flight, phase, left, toLogin>>
      BY <2>2 DEF Cancel, SessionChanges, Reopen, check, vars
    <3> QED BY <1>2, <3>1 DEF IdleInv
  <2> QED BY <2>1, <2>2 DEF Next
<1> HIDE DEF Bounded
<1>4. Spec => [][Bounded]_vars
  BY <1>1, <1>3, ConnectInv, PTL DEF Spec
<1>5. [Bounded]_vars => [\A c \in Call : Local(c)' # Local(c) => Work(c)' >= 0 /\ Work(c)' < Work(c)]_vars
  BY DEF Bounded
<1> QED BY <1>4, <1>5, PTL DEF CallBounded
================================================================================
