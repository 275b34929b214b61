------------------------- MODULE ISCSIDiscoveryProofs -------------------------
(***************************************************************************)
(* The hand-over of devices from the discoverDevice goroutines to the      *)
(* connect function, for every finite set of sessions and every number of  *)
(* rescans.  The invariant follows a device from the goroutine to the      *)
(* channel to devices, and the end of the goroutines from wg to wgCH to    *)
(* discoveryComplete to lastTry.                                           *)
(***************************************************************************)
EXTENDS ISCSIDiscovery, FiniteSetTheorems, TLAPS

\* Only goroutines that have their device send it or have sent it.
FoundAt == \A s \in found : gpc[s] \in {"send", "done", "ended"}

\* Someone sends only what was found.
SendsFound == \A s \in Session : gpc[s] = "send" => s \in found

\* The channel and devices hold what was sent and nothing else.
Sent == ch \cup devices = {s \in found : gpc[s] \in {"done", "ended"}}

\* Each flag is set only after the one before it.
EndsInOrder == /\ wgCH = "closed" => AllEnded
               /\ stage # "discovery" => wgCH = "closed"

\* A pass after the one that set lastTry has emptied the channel for good.
DrainedForGood == stage = "last try" /\ pc \in {"wg", "wwn", "parent", "link"} => ch = {}

\* Another rescan is started only while Rescans allows it.
RescansLeft == \A s \in Session :
                 gpc[s] \in {"find", "rescan", "sleep"} => numRescans[s] <= Rescans

IInv == /\ TypeOK
        /\ FoundAt /\ SendsFound /\ Sent
        /\ EndsInOrder /\ DrainedForGood /\ RescansLeft

\* The wait before the next rescan is a number of seconds.
LEMMA PauseNat == ASSUME NEW n \in Nat PROVE Pause(n) \in Nat
  BY DEF Pause

\* The initial states satisfy the invariant.
LEMMA InitIInv == Init => IInv
<1> SUFFICES ASSUME Init PROVE IInv
  OBVIOUS
<1>1. TypeOK
  BY DiscoveryAssumption DEF Init, TypeOK, Modes
<1>2. FoundAt /\ SendsFound /\ Sent /\ EndsInOrder /\ DrainedForGood
  BY DEF Init, FoundAt, SendsFound, Sent, EndsInOrder, DrainedForGood
<1>3. RescansLeft
  BY DiscoveryAssumption DEF Init, RescansLeft
<1> QED BY <1>1, <1>2, <1>3 DEF IInv

\* The steps of a goroutine preserve it.
LEMMA DiscoverIInv == ASSUME IInv, NEW s \in Session, Discover(s) PROVE IInv'
<1> USE DiscoveryAssumption DEF At, connect, timers
<1>1. ~AllEnded
  BY DEF Discover, AllEnded, FindHCTL, Rescan, FindName, Send, Check, Sleep, Done
<1>2. UNCHANGED <<wgCH, caller, timer, mode, pc, out, devices, known, stage>>
  BY DEF Discover, FindHCTL, Rescan, FindName, Send, Check, Sleep, Done
<1>3. EndsInOrder' /\ DrainedForGood'
  BY <1>1, <1>2 DEF IInv, TypeOK, EndsInOrder, DrainedForGood
<1>4. CASE FindHCTL(s) \/ Check(s) \/ Sleep(s) \/ Done(s)
  <2>1. TypeOK'
    <3>1. UNCHANGED <<numRescans, found, ch>>
      BY <1>4 DEF FindHCTL, Check, Sleep, Done
    <3>2. gpc' \in [Session -> {"find", "rescan", "name", "send", "check", "sleep",
                               "done", "ended"}]
      BY <1>4 DEF FindHCTL, Check, Sleep, Done, IInv, TypeOK
    <3>3. hctl' \in [Session -> {"none", "host", "full"}]
      BY <1>4 DEF FindHCTL, Check, Sleep, Done, IInv, TypeOK
    <3>4. wait' \in [Session -> Nat]
      <4>1. wait \in [Session -> Nat]
        BY DEF IInv, TypeOK
      <4>2. (IF wait[s] = 0 THEN 0 ELSE wait[s] - 1) \in Nat
        BY <4>1
      <4>3. wait' = wait \/ wait' = [wait EXCEPT ![s] = IF @ = 0 THEN 0 ELSE @ - 1]
        BY <1>4 DEF FindHCTL, Check, Sleep, Done
      <4> QED BY <4>1, <4>2, <4>3
    <3> QED BY <1>2, <3>1, <3>2, <3>3, <3>4 DEF IInv, TypeOK
  <2>2. FoundAt' /\ SendsFound' /\ Sent'
    BY <1>2, <1>4 DEF FindHCTL, Check, Sleep, Done, IInv, TypeOK, FoundAt, SendsFound, Sent
  <2>3. RescansLeft'
    BY <1>4 DEF FindHCTL, Check, Sleep, Done, IInv, TypeOK, RescansLeft, ScanOn
  <2> QED BY <1>3, <2>1, <2>2, <2>3 DEF IInv
<1>5. CASE Rescan(s)
  <2>1. numRescans'[s] \in 0..Rescans + 1 /\ numRescans'[s] \in Nat
    <3>1. numRescans[s] \in Nat /\ numRescans[s] <= Rescans
      <4>1. gpc[s] = "rescan"
        BY <1>5 DEF Rescan
      <4>2. numRescans[s] <= Rescans
        BY <4>1 DEF IInv, RescansLeft
      <4>3. numRescans \in [Session -> 0..Rescans + 1]
        BY DEF IInv, TypeOK
      <4> QED BY <4>2, <4>3
    <3>2. numRescans'[s] = numRescans[s] + 1
      BY <1>5 DEF Rescan, IInv, TypeOK
    <3> QED BY <3>1, <3>2
  <2>2. wait' \in [Session -> Nat]
    BY <1>5, <2>1, PauseNat DEF Rescan, IInv, TypeOK
  <2>3. TypeOK'
    BY <1>2, <1>5, <2>1, <2>2 DEF Rescan, IInv, TypeOK
  <2>4. FoundAt' /\ SendsFound' /\ Sent' /\ RescansLeft'
    BY <1>2, <1>5 DEF Rescan, IInv, TypeOK, FoundAt, SendsFound, Sent, RescansLeft
  <2> QED BY <1>3, <2>3, <2>4 DEF IInv
<1>6. CASE FindName(s)
  <2>1. TypeOK'
    <3>1. gpc' \in [Session -> {"find", "rescan", "name", "send", "check", "sleep",
                               "done", "ended"}]
      BY <1>6 DEF FindName, IInv, TypeOK
    <3>2. found' \in SUBSET Session
      BY <1>6 DEF FindName, IInv, TypeOK
    <3>3. UNCHANGED <<hctl, numRescans, wait, ch>>
      BY <1>6 DEF FindName
    <3> QED BY <1>2, <3>1, <3>2, <3>3 DEF IInv, TypeOK
  <2>2. FoundAt' /\ SendsFound' /\ Sent' /\ RescansLeft'
    BY <1>2, <1>6 DEF FindName, IInv, TypeOK, FoundAt, SendsFound, Sent, RescansLeft
  <2> QED BY <1>3, <2>1, <2>2 DEF IInv
<1>7. CASE Send(s)
  <2>1. TypeOK'
    BY <1>2, <1>7 DEF Send, IInv, TypeOK
  <2>2. Sent'
    BY <1>2, <1>7 DEF Send, IInv, TypeOK, SendsFound, Sent
  <2>3. FoundAt' /\ SendsFound' /\ RescansLeft'
    BY <1>7 DEF Send, IInv, TypeOK, FoundAt, SendsFound, RescansLeft
  <2> QED BY <1>3, <2>1, <2>2, <2>3 DEF IInv
<1> QED BY <1>4, <1>5, <1>6, <1>7 DEF Discover

\* The steps of the connect function preserve it.
LEMMA ConnectIInv == ASSUME IInv, Connect PROVE IInv'
<1> USE DiscoveryAssumption DEF From, Returns, search, timers
<1>1. UNCHANGED <<gpc, hctl, numRescans, wait, found, wgCH, caller, timer, mode>>
  BY DEF Connect, CheckCtx, Receive, Drained, CheckComplete, GetWWN, GetParent,
         CheckLink, StartLastTry, CheckLate
<1>2. FoundAt' /\ SendsFound' /\ RescansLeft'
  BY <1>1 DEF IInv, FoundAt, SendsFound, RescansLeft
<1>3. CASE Receive
  <2>1. TypeOK' /\ Sent'
    BY <1>1, <1>3 DEF Receive, Appended, IInv, TypeOK, Sent
  <2>2. EndsInOrder' /\ DrainedForGood'
    BY <1>1, <1>3 DEF Receive, IInv, EndsInOrder, AllEnded, DrainedForGood
  <2> QED BY <1>2, <2>1, <2>2 DEF IInv
<1>4. CASE CheckCtx \/ Drained \/ CheckComplete \/ CheckLink
  <2>1. TypeOK' /\ Sent'
    BY <1>1, <1>4 DEF CheckCtx, Drained, CheckComplete, CheckLink, IInv, TypeOK, Sent
  <2>2. EndsInOrder' /\ DrainedForGood'
    BY <1>1, <1>4 DEF CheckCtx, Drained, CheckComplete, CheckLink, IInv, TypeOK,
                      EndsInOrder, AllEnded, DrainedForGood
  <2> QED BY <1>2, <2>1, <2>2 DEF IInv
<1>5. CASE GetWWN \/ GetParent
  <2>1. TypeOK' /\ Sent'
    BY <1>1, <1>5 DEF GetWWN, GetParent, IInv, TypeOK, Sent
  <2>2. EndsInOrder' /\ DrainedForGood'
    BY <1>1, <1>5 DEF GetWWN, GetParent, IInv, EndsInOrder, AllEnded, DrainedForGood
  <2> QED BY <1>2, <2>1, <2>2 DEF IInv
<1>6. CASE StartLastTry \/ CheckLate
  <2>1. TypeOK' /\ Sent'
    BY <1>1, <1>6 DEF StartLastTry, CheckLate, IInv, TypeOK, Sent
  <2>2. EndsInOrder' /\ DrainedForGood'
    BY <1>1, <1>6 DEF StartLastTry, CheckLate, IInv, EndsInOrder, AllEnded, DrainedForGood
  <2> QED BY <1>2, <2>1, <2>2 DEF IInv
<1> QED BY <1>3, <1>4, <1>5, <1>6 DEF Connect

\* Every step preserves it.
LEMMA StepIInv == IInv /\ [Next]_vars => IInv'
<1> SUFFICES ASSUME IInv, [Next]_vars PROVE IInv'
  OBVIOUS
<1>1. ASSUME NEW s \in Session, Discover(s) PROVE IInv'
  BY <1>1, DiscoverIInv
<1>2. CASE Connect
  BY <1>2, ConnectIInv
<1>3. CASE Close \/ Cancel \/ Expire
  <2>1. UNCHANGED <<search, ch, connect>>
    BY <1>3 DEF Close, Cancel, Expire
  <2>2. TypeOK'
    <3>1. UNCHANGED <<gpc, hctl, numRescans, wait, found, ch>>
      BY <2>1 DEF search
    <3>2. UNCHANGED <<mode, pc, out, devices, known, stage>>
      BY <2>1 DEF connect
    <3>3. wgCH' \in {"open", "closed"} /\ caller' \in {"live", "done"}
      BY <1>3 DEF Close, Cancel, Expire, timers, IInv, TypeOK
    <3>4. timer' \in {"running", "expired"}
      BY <1>3 DEF Close, Cancel, Expire, timers, IInv, TypeOK
    <3> QED BY <3>1, <3>2, <3>3, <3>4 DEF IInv, TypeOK
  <2>3. EndsInOrder'
    BY <1>3, <2>1 DEF Close, Cancel, Expire, search, connect, IInv, EndsInOrder, AllEnded
  <2>4. FoundAt' /\ SendsFound' /\ Sent' /\ DrainedForGood' /\ RescansLeft'
    BY <2>1 DEF search, connect, IInv, FoundAt, SendsFound, Sent, DrainedForGood, RescansLeft
  <2> QED BY <2>2, <2>3, <2>4 DEF IInv
<1>4. CASE UNCHANGED vars
  <2>1. EndsInOrder'
    BY <1>4 DEF vars, search, connect, IInv, EndsInOrder, AllEnded
  <2>2. TypeOK'
    <3>1. UNCHANGED <<gpc, hctl, numRescans, wait, found, ch, wgCH, caller, timer>>
      BY <1>4 DEF vars, search, timers
    <3>2. UNCHANGED <<mode, pc, out, devices, known, stage>>
      BY <1>4 DEF vars, connect
    <3> QED BY <3>1, <3>2 DEF IInv, TypeOK
  <2>3. FoundAt' /\ SendsFound' /\ Sent' /\ DrainedForGood' /\ RescansLeft'
    BY <1>4 DEF vars, search, connect, IInv, FoundAt, SendsFound, Sent, DrainedForGood,
                RescansLeft
  <2> QED BY <2>1, <2>2, <2>3 DEF IInv
<1> QED BY <1>1, <1>2, <1>3, <1>4 DEF Next

\* The invariant holds in every state of the discovery.
THEOREM DiscoveryInvariant == Spec => []IInv
  BY InitIInv, StepIInv, PTL DEF Spec

\* discoverDevice never starts more than Rescans + 1 rescans, and the flags of
\* the connect functions keep their types.
THEOREM DiscoveryTypeOK == Spec => []TypeOK
<1>1. IInv => TypeOK
  BY DEF IInv
<1> QED BY <1>1, DiscoveryInvariant, PTL

\* A device that was found is in devCH or in devices.
THEOREM DiscoveryLosesNothing == Spec => []NothingLost
<1>1. IInv => NothingLost
  BY DEF IInv, Sent, NothingLost
<1> QED BY <1>1, DiscoveryInvariant, PTL

\* Once discoveryComplete was seen, the next pass works on every device found.
THEOREM LaterPassIsComplete == Spec => []LaterPassSeesAll
<1>1. IInv => LaterPassSeesAll
  <2> SUFFICES ASSUME IInv, stage = "last try", pc \in {"wg", "wwn", "parent", "link"}
               PROVE  devices = found
    BY DEF LaterPassSeesAll
  <2>1. ch = {} /\ AllEnded
    BY DEF IInv, DrainedForGood, EndsInOrder
  <2> QED BY <2>1 DEF IInv, TypeOK, Sent, AllEnded
<1> QED BY <1>1, DiscoveryInvariant, PTL

\* A set of sessions that lacks one of them is smaller than devCH.
LEMMA RoomForOneMore ==
  ASSUME NEW s \in Session, NEW S \in SUBSET Session, s \notin S
  PROVE  Cardinality(S) < Capacity
<1>1. IsFiniteSet(Session)
  BY DiscoveryAssumption
<1>2. IsFiniteSet(Session \ {s}) /\ Cardinality(Session \ {s}) = Cardinality(Session) - 1
  BY <1>1, FS_RemoveElement
<1>3. Cardinality(S) <= Cardinality(Session \ {s})
  <2>1. S \in SUBSET (Session \ {s})
    OBVIOUS
  <2> QED BY <1>2, <2>1, FS_Subset
<1>4. /\ IsFiniteSet(S) /\ Cardinality(S) \in Nat
      /\ Cardinality(Session) \in Nat
  BY <1>1, FS_Subset, FS_CardinalityType
<1> QED BY <1>2, <1>3, <1>4 DEF Capacity

\* No goroutine is held up by devCH, read or not: each sends once, and the
\* channel has a place for each.
THEOREM DiscoveryNeverBlocks == Spec => []SendNeverBlocks
<1>1. IInv => SendNeverBlocks
  <2> SUFFICES ASSUME IInv, NEW s \in Session, gpc[s] = "send"
               PROVE  Cardinality(ch) < Capacity
    BY DEF SendNeverBlocks
  <2>1. s \notin ch
    BY DEF IInv, Sent
  <2>2. ch \in SUBSET Session
    BY DEF IInv, TypeOK
  <2> QED BY <2>1, <2>2, RoomForOneMore
<1> QED BY <1>1, DiscoveryInvariant, PTL
===============================================================================
