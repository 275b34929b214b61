---------------------------- MODULE CleanByWWNProofs ----------------------------
(***************************************************************************)
(* The safety of CleanByWWN for every number of calls, paths, map names    *)
(* and flush retries, whatever the host does.                              *)
(***************************************************************************)
EXTENDS CleanByWWN, HostDevicesProofs, FiniteSetTheorems

\* TypeOK without the host and the histories that Remember keeps.
CallTypeOK ==
  /\ pc \in [Caller -> Finding \cup {"parent", "rescan", "flush", "verify",
                                     "delete", "write"}]
  /\ res \in [Caller -> {"none", "ok", "err"}]
  /\ mpathName \in [Caller -> {"none", "map", "orphan"}]
  /\ sdDisks \in [Caller -> SUBSET Path]
  /\ todo \in [Caller -> SUBSET Path]
  /\ cur \in [Caller -> Path \cup {None}]
  /\ parent \in [Caller -> Map \cup {None}]
  /\ tries \in [Caller -> 0..FlushRetries]
  /\ ctx \in [Caller -> {"live", "flush", "done"}]
  /\ skipped \in [Caller -> SUBSET Path]
  /\ scanned \in [Caller -> SUBSET Path]

\* The device written to is a device.
CurInv == \A c \in Caller : pc[c] = "write" => cur[c] \in Path

HistTypeOK == /\ mapGone \in [Caller -> BOOLEAN]
              /\ away \in [Caller -> SUBSET Path]

\* Only multipathd's list names a map, and then lists a path of it; past a
\* successful flush the map was gone.
VerifyInv ==
  \A c \in Caller :
    /\ pc[c] \in {"daemon", "scan", "show", "rescan"} => mpathName[c] # "map"
    /\ pc[c] = "parent" /\ mpathName[c] = "map" => sdDisks[c] # {}
    /\ pc[c] \in {"delete", "write"} /\ mpathName[c] = "map" => mapGone[c]

\* The loop starts from all devices and drops one only when it was away or was
\* passed over, or is the one being written to.
AccountInv ==
  \A c \in Caller :
    /\ pc[c] \in {"daemon", "scan", "show", "rescan"} => sdDisks[c] = {}
    /\ pc[c] \in {"flush", "verify"} => todo[c] = sdDisks[c]
    /\ pc[c] \in {"delete", "write"} =>
         \A p \in sdDisks[c] : \/ p \in todo[c] \cup away[c] \cup skipped[c]
                               \/ pc[c] = "write" /\ p = cur[c]

\* A step of a call keeps the types, and the host consistent.
LEMMA StepType == ASSUME HostTypeOK, CallTypeOK, CurInv, NEW c \in Caller, Step(c)
                  PROVE  CallTypeOK' /\ HostTypeOK'
<1> USE WWNAssumption, QuietHost DEF CallTypeOK, req, loop, Go, Return, Finding
<1>1. CASE CheckDaemon(c)
  BY <1>1 DEF CheckDaemon
<1>2. CASE Scan(c)
  BY <1>2 DEF Scan, HostTypeOK
<1>3. CASE ShowPaths(c)
  <2>1. UNCHANGED <<host, parent, cur, tries, ctx, skipped, scanned>>
    BY <1>3 DEF ShowPaths
  <2>2. /\ pc' \in [Caller -> Finding \cup {"parent", "rescan", "flush", "verify",
                                            "delete", "write"}]
        /\ res' \in [Caller -> {"none", "ok", "err"}]
    BY <1>3 DEF ShowPaths
  <2>3. mpathName' \in [Caller -> {"none", "map", "orphan"}]
    BY <1>3 DEF ShowPaths, NameOf
  <2>4. sdDisks' \in [Caller -> SUBSET Path] /\ todo' \in [Caller -> SUBSET Path]
    BY <1>3 DEF ShowPaths, HostTypeOK
  <2> QED BY <2>1, <2>2, <2>3, <2>4
<1>4. ASSUME NEW p \in Path, Parent(c, p) PROVE CallTypeOK' /\ HostTypeOK'
  BY <1>4 DEF Parent, Holder, HostTypeOK
<1>5. CASE ParentDone(c)
  BY <1>5 DEF ParentDone
<1>6. CASE Rescan(c)
  BY <1>6 DEF Rescan, HostTypeOK
<1>7. CASE Flush(c)
  <2>1. /\ pc' \in [Caller -> Finding \cup {"parent", "rescan", "flush", "verify",
                                            "delete", "write"}]
        /\ tries' \in [Caller -> 0..FlushRetries]
        /\ UNCHANGED <<res, req, loop, ctx, skipped, scanned>>
    BY <1>7 DEF Flush, RetriesLeft
  <2>2. RemoveMap \/ UNCHANGED host
    BY <1>7 DEF Flush
  <2>3. HostTypeOK'
    BY <2>2, RemoveMapStep
  <2> QED BY <2>1, <2>3
<1>8. CASE GiveUpFlush(c)
  BY <1>8 DEF GiveUpFlush
<1>9. CASE Verify(c)
  BY <1>9 DEF Verify
<1>10. ASSUME NEW p \in Path, ReadState(c, p) PROVE CallTypeOK' /\ HostTypeOK'
  BY <1>10 DEF ReadState
<1>11. CASE WriteDelete(c)
  <2>1. /\ pc[c] = "write" /\ cur[c] \in Path
        /\ UNCHANGED <<req, loop, tries, ctx, scanned>>
    BY <1>11 DEF WriteDelete, CurInv
  <2>2. /\ pc' \in [Caller -> Finding \cup {"parent", "rescan", "flush", "verify",
                                            "delete", "write"}]
        /\ res' \in [Caller -> {"none", "ok", "err"}]
    BY <1>11 DEF WriteDelete
  <2>3. skipped' \in [Caller -> SUBSET Path]
    <3>1. skipped' = skipped \/ skipped' = [skipped EXCEPT ![c] = @ \cup {cur[c]}]
      BY <1>11 DEF WriteDelete
    <3> QED BY <2>1, <3>1
  <2>4. Detach(cur[c]) \/ UNCHANGED host
    BY <1>11 DEF WriteDelete
  <2>5. HostTypeOK'
    BY <2>4, DetachStep
  <2> QED BY <2>1, <2>2, <2>3, <2>5
<1>12. CASE LoopDone(c)
  BY <1>12 DEF LoopDone
<1> QED
  BY <1>1, <1>2, <1>3, <1>4, <1>5, <1>6, <1>7, <1>8, <1>9, <1>10, <1>11, <1>12 DEF Step

\* A device is read before it is written to.
LEMMA StepCur == ASSUME CallTypeOK, CurInv, NEW c \in Caller, Step(c) PROVE CurInv'
<1> USE DEF CallTypeOK, CurInv, req, loop, Go, Return, Finding
<1>1. CASE \/ CheckDaemon(c) \/ Scan(c) \/ ShowPaths(c) \/ ParentDone(c) \/ Rescan(c)
  BY <1>1 DEF CheckDaemon, Scan, ShowPaths, ParentDone, Rescan
<1>2. ASSUME NEW p \in Path, Parent(c, p) PROVE CurInv'
  BY <1>2 DEF Parent
<1>3. ASSUME NEW p \in Path, ReadState(c, p) PROVE CurInv'
  BY <1>3 DEF ReadState
<1>4. CASE \/ Flush(c) \/ GiveUpFlush(c) \/ Verify(c) \/ WriteDelete(c) \/ LoopDone(c)
  BY <1>4 DEF Flush, GiveUpFlush, Verify, WriteDelete, LoopDone
<1> QED BY <1>1, <1>2, <1>3, <1>4 DEF Step

\* What was gone stays remembered until the deletes are over.
LEMMA GoneStays ==
  ASSUME Remember, NEW d \in Caller, pc'[d] \in {"flush", "verify", "delete", "write"}
  PROVE  /\ mapGone[d] => mapGone'[d]
         /\ map' = None => mapGone'[d]
  BY DEF Remember

\* A step reaches the deletes with the name of a map only when the map was gone.
LEMMA StepVerify == ASSUME CallTypeOK, VerifyInv, NEW c \in Caller, Step(c), Remember
                    PROVE  VerifyInv'
<1> USE GoneStays DEF CallTypeOK, VerifyInv, req, loop, Go, Return, Finding
<1>1. CASE CheckDaemon(c)
  BY <1>1 DEF CheckDaemon
<1>2. CASE Scan(c)
  BY <1>2 DEF Scan
<1>3. CASE ShowPaths(c)
  <2>1. \A d \in Caller : d # c => /\ pc'[d] = pc[d] /\ mpathName'[d] = mpathName[d]
                                   /\ sdDisks'[d] = sdDisks[d]
    BY <1>3 DEF ShowPaths
  <2>2. pc[c] = "show" /\ pc'[c] \in {"parent", "idle"}
    BY <1>3 DEF ShowPaths
  <2>3. pc'[c] = "parent" /\ mpathName'[c] = "map" => sdDisks'[c] # {}
    <3>1. CASE pc'[c] = "parent"
      <4>1. PICK paths \in SUBSET attached :
              /\ sdDisks' = [sdDisks EXCEPT ![c] = paths]
              /\ IF paths = {} THEN UNCHANGED mpathName
                 ELSE \E last \in paths : mpathName' = [mpathName EXCEPT ![c] = NameOf(last)]
        BY <1>3, <3>1 DEF ShowPaths
      <4>2. mpathName[c] # "map"
        BY <2>2
      <4> QED BY <4>1, <4>2
    <3> QED BY <3>1
  <2> QED BY <2>1, <2>2, <2>3
<1>4. ASSUME NEW p \in Path, Parent(c, p) PROVE VerifyInv'
  BY <1>4 DEF Parent
<1>5. CASE ParentDone(c)
  BY <1>5 DEF ParentDone
<1>6. CASE Rescan(c)
  BY <1>6 DEF Rescan
<1>7. CASE Flush(c)
  BY <1>7 DEF Flush
<1>8. CASE GiveUpFlush(c)
  BY <1>8 DEF GiveUpFlush
<1>9. CASE Verify(c)
  BY <1>9 DEF Verify, host
<1>10. ASSUME NEW p \in Path, ReadState(c, p) PROVE VerifyInv'
  BY <1>10 DEF ReadState
<1>11. CASE WriteDelete(c)
  BY <1>11 DEF WriteDelete
<1>12. CASE LoopDone(c)
  BY <1>12 DEF LoopDone
<1> QED
  BY <1>1, <1>2, <1>3, <1>4, <1>5, <1>6, <1>7, <1>8, <1>9, <1>10, <1>11, <1>12 DEF Step

\* A device remembered as absent stays remembered while the call deletes.
LEMMA AwayStays ==
  ASSUME Remember, NEW d \in Caller,
         pc[d] \in {"parent", "rescan", "flush", "verify", "delete", "write"}
  PROVE  away'[d] = away[d] \cup (Path \ attached')
  BY DEF Remember, Finding

\* A device leaves the loop only when it was absent or passed over.
LEMMA StepAccount == ASSUME CallTypeOK, AccountInv, NEW c \in Caller, Step(c), Remember
                     PROVE  AccountInv'
<1> USE AwayStays DEF CallTypeOK, AccountInv, req, loop, Go, Return, Finding
<1>1. CASE CheckDaemon(c)
  BY <1>1 DEF CheckDaemon
<1>2. CASE Scan(c)
  BY <1>2 DEF Scan
<1>3. CASE ShowPaths(c)
  BY <1>3 DEF ShowPaths
<1>4. ASSUME NEW p \in Path, Parent(c, p) PROVE AccountInv'
  BY <1>4 DEF Parent
<1>5. CASE ParentDone(c)
  BY <1>5 DEF ParentDone
<1>6. CASE Rescan(c)
  BY <1>6 DEF Rescan
<1>7. CASE Flush(c)
  BY <1>7 DEF Flush
<1>8. CASE GiveUpFlush(c)
  BY <1>8 DEF GiveUpFlush
<1>9. CASE Verify(c)
  BY <1>9 DEF Verify
<1>10. ASSUME NEW p \in Path, ReadState(c, p) PROVE AccountInv'
  BY <1>10 DEF ReadState
<1>11. CASE WriteDelete(c)
  BY <1>11 DEF WriteDelete, Detach
<1>12. CASE LoopDone(c)
  BY <1>12 DEF LoopDone
<1> QED
  BY <1>1, <1>2, <1>3, <1>4, <1>5, <1>6, <1>7, <1>8, <1>9, <1>10, <1>11, <1>12 DEF Step

-------------------------------------------------------------------------------
WWNInv == HostTypeOK /\ CallTypeOK /\ CurInv /\ HistTypeOK /\ VerifyInv /\ AccountInv

\* The initial states satisfy the invariant.
LEMMA InitInv == Init => WWNInv
<1> SUFFICES ASSUME Init PROVE WWNInv
  OBVIOUS
<1>1. HostTypeOK
  BY HostBegins DEF Init
<1>2. CallTypeOK /\ HistTypeOK
  BY WWNAssumption DEF Init, CallTypeOK, HistTypeOK, Finding
<1>3. CurInv /\ VerifyInv /\ AccountInv
  BY DEF Init, CurInv, VerifyInv, AccountInv
<1> QED BY <1>1, <1>2, <1>3 DEF WWNInv

\* A step that leaves the places and the devices of the calls alone.
LEMMA QuietCall ==
  ASSUME WWNInv, UNCHANGED <<pc, req, loop, skipped>>, Remember
  PROVE  CurInv' /\ VerifyInv' /\ AccountInv'
<1>1. CurInv'
  BY DEF WWNInv, CurInv, loop
<1>2. VerifyInv'
  BY GoneStays DEF WWNInv, VerifyInv, req
<1>3. AccountInv'
  BY AwayStays DEF WWNInv, AccountInv, req, loop
<1> QED BY <1>1, <1>2, <1>3

\* Every step preserves the invariant.
LEMMA NextInv == WWNInv /\ [Next]_vars => WWNInv'
<1> SUFFICES ASSUME WWNInv, [Next]_vars PROVE WWNInv'
  OBVIOUS
<1> USE DEF WWNInv
<1>1. ASSUME Remember PROVE HistTypeOK'
  BY <1>1 DEF Remember, HistTypeOK
<1>2. ASSUME HostNext, UNCHANGED call, Remember PROVE WWNInv'
  <2>1. HostTypeOK'
    BY <1>2, HostStep
  <2>2. CallTypeOK'
    BY <1>2 DEF call, req, loop, CallTypeOK
  <2>3. CurInv' /\ VerifyInv' /\ AccountInv'
    BY <1>2, QuietCall DEF call
  <2> QED BY <1>1, <1>2, <2>1, <2>2, <2>3
<1>3. ASSUME NEW c \in Caller, Disconnect(c), Remember PROVE WWNInv'
  <2>1. HostTypeOK'
    BY <1>3, QuietHost DEF Disconnect
  <2>2. CallTypeOK'
    BY <1>3, WWNAssumption DEF Disconnect, Go, loop, CallTypeOK, Finding
  <2>3. CurInv' /\ VerifyInv'
    BY <1>3, GoneStays DEF Disconnect, Go, loop, CallTypeOK, CurInv, VerifyInv
  <2>4. AccountInv'
    BY <1>3, AwayStays DEF Disconnect, Go, loop, CallTypeOK, AccountInv, Finding
  <2> QED BY <1>1, <1>3, <2>1, <2>2, <2>3, <2>4
<1>4. ASSUME NEW c \in Caller, Step(c), Remember PROVE WWNInv'
  BY <1>1, <1>4, StepType, StepCur, StepVerify, StepAccount
<1>5. ASSUME NEW c \in Caller, Expire(c), Remember PROVE WWNInv'
  <2>1. UNCHANGED <<host, pc, res, req, loop, tries, skipped, scanned>>
    BY <1>5 DEF Expire
  <2>2. ctx' \in [Caller -> {"live", "flush", "done"}]
    BY <1>5 DEF Expire, CallTypeOK
  <2>3. CallTypeOK'
    BY <2>1, <2>2 DEF req, loop, CallTypeOK
  <2>4. CurInv' /\ VerifyInv' /\ AccountInv'
    BY <1>5, <2>1, QuietCall
  <2> QED BY <1>1, <1>5, <2>1, <2>3, <2>4, QuietHost
<1>6. CASE UNCHANGED vars
  <2>1. HostTypeOK' /\ HistTypeOK'
    BY <1>6, QuietHost DEF vars, history, HistTypeOK
  <2>2. CallTypeOK'
    BY <1>6 DEF vars, call, req, loop, CallTypeOK
  <2>3. CurInv' /\ VerifyInv'
    BY <1>6 DEF vars, call, req, loop, history, CurInv, VerifyInv
  <2>4. AccountInv'
    BY <1>6 DEF vars, call, req, loop, history, AccountInv
  <2> QED BY <2>1, <2>2, <2>3, <2>4
<1> QED BY <1>2, <1>3, <1>4, <1>5, <1>6 DEF Next

\* All that holds of CleanByWWN together, for any number of calls, paths and flush
\* retries (base.go disconnectDevicesByWWN).
THEOREM WWNSafe == Spec => []WWNInv
  BY InitInv, NextInv, PTL DEF Spec

\* Every variable keeps its type (base.go disconnectDevicesByWWN).
THEOREM WWNTypeOK == Spec => []TypeOK
<1>1. WWNInv => TypeOK
  BY DEF WWNInv, CallTypeOK, HistTypeOK, TypeOK
<1> QED BY <1>1, WWNSafe, PTL

\* A call that has the name of a map deletes paths only after it saw the map gone
\* (base.go cleanDevicesByMpathInfo).
THEOREM WWNVerifiesFirst == Spec => []VerifiedFirst
<1>1. WWNInv => VerifiedFirst
  BY DEF WWNInv, VerifyInv, VerifiedFirst
<1> QED BY <1>1, WWNSafe, PTL

\* No device of the request falls out of the loop (base.go
\* cleanDevicesByMpathInfo).
THEOREM WWNAccounts == Spec => []Accounted
<1>1. WWNInv => Accounted
  BY DEF WWNInv, AccountInv, Accounted
<1> QED BY <1>1, WWNSafe, PTL

-------------------------------------------------------------------------------
(* The bound on the steps of a call.                                       *)

\* The paths, and those a call has yet to do.
LEMMA Counts ==
  ASSUME NEW c \in Caller
  PROVE  /\ Paths \in Nat /\ FlushRetries \in Nat
         /\ CallTypeOK => /\ Cardinality(todo[c]) \in 0..Paths
                          /\ \A p \in todo[c] :
                                Cardinality(todo[c] \ {p}) = Cardinality(todo[c]) - 1
         /\ CallTypeOK' => Cardinality(todo'[c]) \in 0..Paths
<1>1. \A S \in SUBSET Path : IsFiniteSet(S) /\ Cardinality(S) \in 0..Paths
  BY HostAssumption, FS_Subset, FS_CardinalityType DEF Paths
<1>2. CallTypeOK => todo[c] \in SUBSET Path
  BY DEF CallTypeOK
<1>3. CallTypeOK' => todo'[c] \in SUBSET Path
  BY DEF CallTypeOK
<1>4. CallTypeOK => \A p \in todo[c] : Cardinality(todo[c] \ {p}) = Cardinality(todo[c]) - 1
  BY <1>1, <1>2, FS_RemoveElement
<1>5. Paths \in Nat /\ FlushRetries \in Nat
  BY HostAssumption, WWNAssumption, FS_CardinalityType DEF Paths
<1> QED BY <1>1, <1>2, <1>3, <1>4, <1>5

\* What a call has left is a number, before a step and after it.
LEMMA WorkIsNat ==
  ASSUME NEW c \in Caller
  PROVE  /\ CallTypeOK => Place(c) \in Nat /\ Waits(c) \in 0..2
         /\ CallTypeOK' => Place(c)' \in Nat /\ Waits(c)' \in 0..2
<1>1. ASSUME CallTypeOK PROVE Place(c) \in Nat /\ Waits(c) \in 0..2
  BY <1>1, Counts DEF CallTypeOK, Place, Waits, Finding
<1>2. ASSUME CallTypeOK' PROVE Place(c)' \in Nat /\ Waits(c)' \in 0..2
  BY <1>2, Counts DEF CallTypeOK, Place, Waits, Finding
<1> QED BY <1>1, <1>2

\* Every step of a call brings it nearer to its return.
LEMMA StepNearer ==
  ASSUME CallTypeOK, CallTypeOK', NEW c \in Caller, Step(c)
  PROVE  Place(c)' < Place(c) /\ pc[c] # "idle" /\ ctx' = ctx
<1>0. /\ Paths \in Nat /\ FlushRetries \in Nat
      /\ tries[c] \in 0..FlushRetries /\ tries'[c] \in 0..FlushRetries
      /\ Cardinality(todo[c]) \in 0..Paths /\ Cardinality(todo'[c]) \in 0..Paths
      /\ \A p \in todo[c] : Cardinality(todo[c] \ {p}) = Cardinality(todo[c]) - 1
      /\ todo[c] = {} => Cardinality(todo[c]) = 0
  BY Counts, FS_EmptySet DEF CallTypeOK
<1> USE <1>0 DEF CallTypeOK, Place, Go, Return, loop, req
<1>1. CASE CheckDaemon(c)
  BY <1>1 DEF CheckDaemon
<1>2. CASE Scan(c)
  BY <1>2 DEF Scan
<1>3. CASE ShowPaths(c)
  BY <1>3 DEF ShowPaths
<1>4. ASSUME NEW p \in Path, Parent(c, p) PROVE Place(c)' < Place(c) /\ pc[c] # "idle" /\ ctx' = ctx
  BY <1>4 DEF Parent
<1>5. CASE ParentDone(c)
  BY <1>5 DEF ParentDone
<1>6. CASE Rescan(c)
  BY <1>6 DEF Rescan
<1>7. CASE Flush(c)
  BY <1>7 DEF Flush, RetriesLeft
<1>8. CASE GiveUpFlush(c)
  BY <1>8 DEF GiveUpFlush
<1>9. CASE Verify(c)
  BY <1>9 DEF Verify
<1>10. ASSUME NEW p \in Path, ReadState(c, p) PROVE Place(c)' < Place(c) /\ pc[c] # "idle" /\ ctx' = ctx
  BY <1>10 DEF ReadState
<1>11. CASE WriteDelete(c)
  BY <1>11 DEF WriteDelete
<1>12. CASE LoopDone(c)
  BY <1>12 DEF LoopDone
<1> QED
  BY <1>1, <1>2, <1>3, <1>4, <1>5, <1>6, <1>7, <1>8, <1>9, <1>10, <1>11, <1>12 DEF Step

\* A step of one call is none of another's.
LEMMA StepLocal ==
  ASSUME CallTypeOK, NEW c \in Caller, NEW d \in Caller, d # c, Step(d) \/ Disconnect(d) \/ Expire(d)
  PROVE  Local(c)' = Local(c)
<1> USE DEF CallTypeOK, Local, Go, Return, loop, req
<1>1. CASE \/ CheckDaemon(d) \/ Scan(d) \/ ShowPaths(d) \/ ParentDone(d) \/ Rescan(d)
           \/ \E p \in Path : Parent(d, p)
  BY <1>1 DEF CheckDaemon, Scan, ShowPaths, ParentDone, Rescan, Parent
<1>2. CASE Flush(d) \/ GiveUpFlush(d) \/ Verify(d)
  BY <1>2 DEF Flush, GiveUpFlush, Verify
<1>3. CASE (\E p \in Path : ReadState(d, p)) \/ WriteDelete(d) \/ LoopDone(d)
  BY <1>3 DEF ReadState, WriteDelete, LoopDone
<1>4. CASE Disconnect(d) \/ Expire(d)
  BY <1>4 DEF Disconnect, Expire
<1> QED BY <1>1, <1>2, <1>3, <1>4 DEF Step

\* What one step may do to what a call has left.
BoundedStep(c) ==
  Local(c)' # Local(c) => /\ Work(c)' >= 0
                          /\ IF pc[c] = "idle" THEN Work(c)' <= MostWork
                                               ELSE Work(c)' < Work(c)

\* Every step of the system takes from what the call that moves has left.
LEMMA NextBounded ==
  ASSUME CallTypeOK, CallTypeOK', [Next]_vars, NEW c \in Caller PROVE BoundedStep(c)
<1>0. /\ Paths \in Nat /\ FlushRetries \in Nat
      /\ Place(c) \in Nat /\ Waits(c) \in 0..2
      /\ Place(c)' \in Nat /\ Waits(c)' \in 0..2
      /\ Cardinality(todo'[c]) \in 0..Paths
  BY WorkIsNat, Counts
<1>1. ASSUME UNCHANGED call PROVE BoundedStep(c)
  BY <1>1 DEF BoundedStep, Local, call, req, loop
<1>2. ASSUME Disconnect(c) PROVE BoundedStep(c)
  <2>1. pc[c] = "idle" /\ pc'[c] = "daemon"
    BY <1>2 DEF Disconnect, Go, CallTypeOK
  <2>2. Place(c)' = 6 + 3 * Paths + FlushRetries
    BY <2>1 DEF Place
  <2> QED BY <1>0, <2>1, <2>2 DEF BoundedStep, Work, MostWork
<1>3. ASSUME Step(c) PROVE BoundedStep(c)
  <2>1. Place(c)' < Place(c) /\ pc[c] # "idle"
    BY <1>3, StepNearer
  <2> QED BY <1>0, <2>1 DEF BoundedStep, Work
<1>4. ASSUME Expire(c) PROVE BoundedStep(c)
  <2>1. Place(c)' = Place(c) /\ pc[c] # "idle"
    BY <1>4 DEF Expire, Place, loop
  <2>2. Waits(c)' < Waits(c)
    BY <1>4 DEF Expire, Waits, CallTypeOK
  <2> QED BY <1>0, <2>1, <2>2 DEF BoundedStep, Work
<1>5. ASSUME NEW d \in Caller, d # c, Step(d) \/ Disconnect(d) \/ Expire(d) PROVE BoundedStep(c)
  BY <1>5, StepLocal DEF BoundedStep
<1> QED BY <1>1, <1>2, <1>3, <1>4, <1>5 DEF Next, vars

\* A clean-up by WWN makes a bounded number of steps, for any number of paths and
\* flush retries (base.go disconnectDevicesByWWN, cleanDevicesByMpathInfo).
THEOREM WWNCallBounded == Spec => CallBounded
<1> DEFINE Bounded == \A c \in Caller : BoundedStep(c)
<1>1. ASSUME WWNInv, WWNInv', [Next]_vars PROVE [Bounded]_vars
  BY <1>1, NextBounded DEF WWNInv
<1> QED BY WWNSafe, <1>1, PTL DEF Spec, CallBounded, BoundedStep
================================================================================
