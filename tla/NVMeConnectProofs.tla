--------------------------- MODULE NVMeConnectProofs ---------------------------
(***************************************************************************)
(* The safety of NVMeConnect for every number of devices and targets.  The *)
(* invariant says of each goroutine what its end means (SearchInv) and of  *)
(* the loop that runs how its devices depend on its goroutine (LoopInv).   *)
(***************************************************************************)
EXTENDS NVMeConnect, FiniteSetTheorems, TLAPS

Before == {"acquire", "validate", "sessions", "daemon"}
InLoop == {"ctx", "read", "wg", "dm", "link", "last", "late"}
HandedOn == {"done", "ended"}

\* A goroutine whose wgCH is closed has ended, one that sends found something or has
\* listed twice, and a connect function that was not cancelled has its result.
SearchInv ==
  \A a \in Attempt :
    /\ wgCH[a] = "closed" => gpc[a] = "ended"
    /\ gpc[a] = "connect" => retryCount[a] = 0
    /\ gpc[a] \in {"send"} \cup HandedOn => result[a] # {} \/ retryCount[a] = 1
    /\ outcome[a] \in {"not found", "unregistered", "device"} => gpc[a] \in HandedOn
    /\ outcome[a] = "not found" => result[a] = {}

\* The loop holds what its goroutine has handed over, and nothing before.
Holding ==
  /\ gpc[attempt] # "idle"
  /\ outcome[attempt] = "none"
  /\ IF gpc[attempt] \in HandedOn THEN devices = result[attempt] ELSE devices = {}
  /\ stage # "discovery" => gpc[attempt] = "ended"
  /\ "mpath" \in known => devices # {}
  /\ pc = "link" => "mpath" \in known
  /\ pc = "read" \/ (attempt = "single" /\ pc # "wg") => devices = {}

LoopInv ==
  /\ pc \in Before => \A a \in Attempt : gpc[a] = "idle" /\ outcome[a] = "none"
  /\ attempt = "multipath" => gpc["single"] = "idle" /\ outcome["single"] = "none"
  /\ pc \in InLoop => Holding
  /\ outcome[attempt] = "device" => devices = result[attempt] /\ devices # {}

Inv == TypeOK /\ SearchInv /\ LoopInv

\* A devicePathResult may be empty.
LEMMA PathsOfDevices == {} \in DevicePaths /\ DevicePaths \subseteq SUBSET Device
<1>1. Cardinality({}) = 0
  BY FS_EmptySet
<1> QED BY <1>1 DEF DevicePaths

\* The initial states satisfy the invariant.
LEMMA InitInv == Init => Inv
<1> SUFFICES ASSUME Init PROVE Inv
  OBVIOUS
<1>1. TypeOK
  BY PathsOfDevices DEF Init, PerAttempt, Attempt, TypeOK
<1>2. SearchInv /\ LoopInv
  BY DEF Init, PerAttempt, Attempt, SearchInv, LoopInv, InLoop, HandedOn
<1> QED BY <1>1, <1>2 DEF Inv

\* A step of a goroutine: it has not handed over its result before it is received.
LEMMA DiscoverInv == ASSUME Inv, NEW a \in Attempt, Discover(a) \/ Close(a) PROVE Inv'
<1> USE DEF Inv, search, timers, loop, call
<1>1. CASE List(a)
  <2>1. PICK D \in DevicePaths :
          /\ result' = [result EXCEPT ![a] = D]
          /\ At(a, "list", IF D # {} \/ retryCount[a] = 1 THEN "send" ELSE "connect")
    BY <1>1 DEF List, Matches
  <2>2. UNCHANGED <<retryCount, wgCH, timers, call, loop>>
    BY <1>1 DEF List
  <2>3. TypeOK'
    BY <2>1, <2>2 DEF At, TypeOK
  <2>4. SearchInv'
    <3>1. retryCount[a] \in {0, 1}
      BY DEF TypeOK
    <3> QED BY <2>1, <2>2, <3>1 DEF At, TypeOK, SearchInv, HandedOn
  <2>5. LoopInv'
    BY <2>1, <2>2 DEF At, TypeOK, SearchInv, LoopInv, Holding, HandedOn, Attempt
  <2> QED BY <2>3, <2>4, <2>5
<1>2. CASE TryConnect(a)
  <2>1. TypeOK'
    <3>1. retryCount[a] = 0
      BY <1>2 DEF TryConnect, At, SearchInv
    <3>2. retryCount' = [retryCount EXCEPT ![a] = 1]
      BY <1>2, <3>1 DEF TryConnect
    <3> QED BY <1>2, <3>2 DEF TryConnect, At, TypeOK
  <2>2. SearchInv'
    BY <1>2 DEF TryConnect, At, TypeOK, SearchInv, HandedOn
  <2>3. LoopInv'
    BY <1>2 DEF TryConnect, At, TypeOK, LoopInv, Holding, HandedOn, Attempt
  <2> QED BY <2>1, <2>2, <2>3
<1>3. CASE Done(a)
  <2>1. TypeOK'
    BY <1>3 DEF Done, At, TypeOK
  <2>2. SearchInv'
    BY <1>3 DEF Done, At, TypeOK, SearchInv, HandedOn
  <2>3. LoopInv'
    <3>1. /\ \A b \in Attempt : gpc'[b] \in HandedOn <=> gpc[b] \in HandedOn
          /\ \A b \in Attempt : gpc'[b] = "idle" <=> gpc[b] = "idle"
          /\ \A b \in Attempt : gpc[b] = "ended" => gpc'[b] = "ended"
      BY <1>3 DEF Done, At, TypeOK, HandedOn
    <3>2. UNCHANGED <<result, loop, call>>
      BY <1>3 DEF Done
    <3>3. attempt \in Attempt /\ "single" \in Attempt
      BY DEF TypeOK, Attempt
    <3>4. Holding => Holding'
      BY <3>1, <3>2, <3>3 DEF Holding
    <3> QED BY <3>1, <3>2, <3>3, <3>4 DEF LoopInv
  <2> QED BY <2>1, <2>2, <2>3
<1>4. CASE Close(a)
  <2>1. /\ gpc[a] = "ended"
        /\ wgCH' = [wgCH EXCEPT ![a] = "closed"]
        /\ UNCHANGED <<search, timers, call, loop>>
    BY <1>4 DEF Close, WaitedFor
  <2>2. TypeOK'
    BY <2>1 DEF TypeOK
  <2>3. SearchInv'
    BY <2>1 DEF TypeOK, SearchInv
  <2>4. LoopInv'
    BY <2>1 DEF LoopInv, Holding
  <2> QED BY <2>2, <2>3, <2>4
<1> QED BY <1>1, <1>2, <1>3, <1>4 DEF Discover

\* A connect function that fails.
LEMMA FailInv ==
  ASSUME Inv, pc \in InLoop, NEW why \in {"cancelled", "not found", "unregistered"},
         Fail(why), UNCHANGED <<retryCount, result, wgCH, timers>>,
         why # "cancelled" => gpc[attempt] \in HandedOn,
         why = "not found" => result[attempt] = {}
  PROVE  Inv'
<1> USE DEF Inv, timers, loop
<1>1. CASE attempt = "multipath"
  <2>1. /\ attempt' = "single" /\ pc' = "ctx" /\ devices' = {} /\ known' = {}
        /\ stage' = "discovery" /\ gpc' = [gpc EXCEPT !["single"] = "list"]
        /\ outcome' = [outcome EXCEPT !["multipath"] = why] /\ UNCHANGED <<op, out>>
    BY <1>1 DEF Fail, Enter
  <2>2. TypeOK'
    BY <2>1 DEF TypeOK, Attempt
  <2>3. SearchInv'
    BY <1>1, <2>1 DEF TypeOK, SearchInv, LoopInv, HandedOn, Attempt
  <2>4. LoopInv'
    BY <1>1, <2>1 DEF TypeOK, LoopInv, Holding, HandedOn, Before, Attempt
  <2> QED BY <2>2, <2>3, <2>4
<1>2. CASE attempt = "single"
  <2>1. /\ pc' = "clean" /\ out' = why
        /\ outcome' = [outcome EXCEPT !["single"] = why] /\ UNCHANGED <<op, attempt, gpc, loop>>
    BY <1>2 DEF Fail
  <2>2. TypeOK'
    BY <2>1 DEF TypeOK, Attempt
  <2>3. SearchInv' /\ LoopInv'
    BY <1>2, <2>1 DEF TypeOK, SearchInv, LoopInv, HandedOn, Before, InLoop, Attempt
  <2> QED BY <2>2, <2>3
<1> QED BY <1>1, <1>2 DEF TypeOK, Attempt

\* A connect function that returns a device.
LEMMA SucceedInv ==
  ASSUME Inv, pc \in InLoop, Succeed, devices # {},
         UNCHANGED <<search, wgCH, timers, devices, known>>, stage' \in {"discovery", "complete", "last try"}
  PROVE  Inv'
<1> USE DEF Inv, timers, search, Succeed
<1>1. gpc[attempt] \in HandedOn /\ devices = result[attempt]
  BY DEF LoopInv, Holding
<1>2. TypeOK'
  BY DEF TypeOK, Attempt
<1>3. SearchInv' /\ LoopInv'
  BY <1>1 DEF TypeOK, SearchInv, LoopInv, HandedOn, Before, InLoop, Attempt
<1> QED BY <1>2, <1>3

\* A step of the connect function that runs.
LEMMA ConnectInv == ASSUME Inv, ConnectDevice PROVE Inv'
<1> USE DEF Inv, search, timers, loop, call
<1>1. CASE CheckCtx
  <2>1. CASE caller = "done"
    BY <1>1, <2>1, FailInv DEF CheckCtx, InLoop
  <2>2. CASE caller # "done"
    <3>1. TypeOK' /\ SearchInv'
      BY <1>1, <2>2 DEF CheckCtx, From, TypeOK, SearchInv
    <3>2. LoopInv'
      BY <1>1, <2>2 DEF CheckCtx, From, Reads, TypeOK, LoopInv, Holding, Before, InLoop, Attempt
    <3> QED BY <3>1, <3>2
  <2> QED BY <2>1, <2>2
<1>2. CASE Receive
  <2>1. TypeOK'
    BY <1>2, PathsOfDevices DEF Receive, From, At, TypeOK
  <2>2. SearchInv'
    BY <1>2 DEF Receive, From, At, TypeOK, SearchInv, HandedOn
  <2>3. LoopInv'
    BY <1>2 DEF Receive, From, At, TypeOK, LoopInv, Holding, HandedOn, Before, InLoop, Attempt
  <2> QED BY <2>1, <2>2, <2>3
<1>3. CASE GiveUpRead
  BY <1>3 DEF GiveUpRead, From, TypeOK, SearchInv, LoopInv, Holding, Before, InLoop
<1>4. CASE CheckComplete
  <2> DEFINE now == IF stage = "discovery" /\ Complete THEN "complete" ELSE stage
  <2>1. /\ pc = "wg" /\ pc \in InLoop /\ now \in {"discovery", "complete", "last try"}
        /\ UNCHANGED <<retryCount, result, wgCH, timers>>
    BY <1>4 DEF CheckComplete, InLoop, TypeOK
  <2>2. now # "discovery" => gpc[attempt] = "ended"
    BY <2>1 DEF Complete, TypeOK, SearchInv, LoopInv, Holding
  <2>3. CASE now # "discovery" /\ devices = {}
    <3>1. Fail("not found")
      BY <1>4, <2>3 DEF CheckComplete
    <3>2. gpc[attempt] \in HandedOn /\ result[attempt] = {}
      BY <2>1, <2>2, <2>3 DEF LoopInv, Holding, HandedOn
    <3> QED BY <2>1, <3>1, <3>2, FailInv
  <2>4. CASE now = "discovery" \/ devices # {}
    <3>1. stage' = now /\ UNCHANGED <<gpc, devices, known>>
      BY <1>4, <2>4 DEF CheckComplete
    <3>2. CASE attempt = "single" /\ devices # {}
      BY <1>4, <2>1, <2>4, <3>1, <3>2, SucceedInv DEF CheckComplete
    <3>3. CASE attempt = "multipath" \/ devices = {}
      <4>1. pc' \in {"dm", "last"} /\ (pc' = "dm" => attempt = "multipath")
            /\ (pc' = "last" => devices = {})
            /\ UNCHANGED <<op, out, attempt, outcome>>
        BY <1>4, <2>4, <3>3 DEF CheckComplete, From
      <4>2. TypeOK' /\ SearchInv'
        BY <2>1, <3>1, <4>1 DEF TypeOK, SearchInv
      <4>3. LoopInv'
        BY <2>1, <2>2, <3>1, <4>1 DEF TypeOK, LoopInv, Holding, Before, InLoop
      <4> QED BY <4>2, <4>3
    <3> QED BY <3>2, <3>3 DEF TypeOK, Attempt
  <2> QED BY <1>4, <2>3, <2>4 DEF CheckComplete
<1>5. CASE GetDM
  <2>1. TypeOK' /\ SearchInv'
    BY <1>5 DEF GetDM, From, TypeOK, SearchInv
  <2>2. LoopInv'
    BY <1>5 DEF GetDM, From, TypeOK, LoopInv, Holding, Before, InLoop
  <2> QED BY <2>1, <2>2
<1>6. CASE CheckLink
  <2>1. CASE Succeed
    <3>1. devices # {} /\ pc \in InLoop
      BY <1>6 DEF CheckLink, LoopInv, Holding, InLoop
    <3> QED BY <1>6, <2>1, <3>1, SucceedInv DEF CheckLink, TypeOK
  <2>2. CASE From("link", "last")
    BY <1>6, <2>2 DEF CheckLink, From, TypeOK, SearchInv, LoopInv, Holding, Before, InLoop
  <2> QED BY <1>6, <2>1, <2>2 DEF CheckLink
<1>7. CASE StartLastTry
  BY <1>7 DEF StartLastTry, From, TypeOK, SearchInv, LoopInv, Holding, Before, InLoop
<1>8. CASE CheckLate
  <2>1. CASE stage = "last try" /\ Fail("unregistered")
    <3>1. pc \in InLoop /\ gpc[attempt] \in HandedOn
      BY <1>8, <2>1 DEF CheckLate, LoopInv, Holding, InLoop, HandedOn
    <3> QED BY <1>8, <2>1, <3>1, FailInv DEF CheckLate
  <2>2. CASE From("late", "ctx") /\ UNCHANGED <<gpc, loop>>
    <3>1. TypeOK' /\ SearchInv'
      BY <1>8, <2>2 DEF CheckLate, From, TypeOK, SearchInv
    <3>2. LoopInv'
      BY <1>8, <2>2 DEF CheckLate, From, LoopInv, Holding, Before, InLoop
    <3> QED BY <3>1, <3>2
  <2> QED BY <1>8, <2>1, <2>2 DEF CheckLate
<1> QED
  BY <1>1, <1>2, <1>3, <1>4, <1>5, <1>6, <1>7, <1>8 DEF ConnectDevice

\* A step of ConnectVolume or DisconnectVolume outside the connect functions.
LEMMA VolumeInv == ASSUME Inv, Volume PROVE Inv'
<1> USE DEF Inv, search, timers, loop, call, Before, InLoop
<1>1. CASE Acquire
  <2>1. TypeOK'
    BY <1>1 DEF Acquire, From, Returns, TypeOK
  <2>2. SearchInv' /\ LoopInv'
    BY <1>1 DEF Acquire, From, Returns, SearchInv, LoopInv
  <2> QED BY <2>1, <2>2
<1>2. CASE Validate
  <2>1. TypeOK'
    BY <1>2 DEF Validate, From, Returns, TypeOK
  <2>2. SearchInv' /\ LoopInv'
    BY <1>2 DEF Validate, From, Returns, SearchInv, LoopInv
  <2> QED BY <2>1, <2>2
<1>3. CASE CheckSessions
  <2>1. From("sessions", "daemon") \/ (pc = "sessions" /\ Returns("no session"))
    BY <1>3 DEF CheckSessions
  <2>2. UNCHANGED <<search, wgCH, timers, loop>>
    BY <1>3 DEF CheckSessions
  <2>3. TypeOK'
    BY <2>1, <2>2 DEF From, Returns, TypeOK
  <2>4. SearchInv' /\ LoopInv'
    BY <2>1, <2>2 DEF From, Returns, SearchInv, LoopInv
  <2> QED BY <2>3, <2>4
<1>4. CASE CheckDaemon
  <2>1. PICK a \in Attempt : Enter(a)
    BY <1>4 DEF CheckDaemon
  <2>2. /\ pc = "daemon" /\ attempt' = a /\ pc' = "ctx" /\ gpc' = [gpc EXCEPT ![a] = "list"]
        /\ devices' = {} /\ known' = {} /\ stage' = "discovery"
        /\ UNCHANGED <<retryCount, result, wgCH, timers, op, out, outcome>>
    BY <1>4, <2>1 DEF CheckDaemon, Enter
  <2>3. \A b \in Attempt : gpc[b] = "idle" /\ outcome[b] = "none"
    BY <2>2 DEF LoopInv
  <2>4. TypeOK'
    BY <2>2 DEF TypeOK
  <2>5. SearchInv'
    BY <2>2, <2>3 DEF TypeOK, SearchInv, HandedOn
  <2>6. LoopInv'
    BY <2>2, <2>3 DEF TypeOK, LoopInv, Holding, HandedOn, Attempt
  <2> QED BY <2>4, <2>5, <2>6
<1>5. CASE CheckValid
  BY <1>5 DEF CheckValid, Returns, TypeOK, SearchInv, LoopInv
<1>6. CASE Clean
  <2>1. /\ pc = "clean" /\ pc' = "returned" /\ UNCHANGED <<op, attempt, outcome>>
        /\ out' \in {out, "cleaned", "not cleaned"}
        /\ UNCHANGED <<search, wgCH, timers, loop>>
    BY <1>6 DEF Clean, Returns
  <2> QED BY <2>1 DEF TypeOK, SearchInv, LoopInv
<1> QED BY <1>1, <1>2, <1>3, <1>4, <1>5, <1>6 DEF Volume

\* Every step preserves the invariant.
LEMMA NextInv == Inv /\ [Next]_vars => Inv'
<1> SUFFICES ASSUME Inv, [Next]_vars PROVE Inv'
  OBVIOUS
<1>1. CASE Cancel
  <2>1. TypeOK'
    BY <1>1 DEF Cancel, search, loop, call, Inv, TypeOK
  <2>2. SearchInv' /\ LoopInv'
    BY <1>1 DEF Cancel, search, loop, call, Inv, SearchInv, LoopInv, Holding
  <2> QED BY <2>1, <2>2 DEF Inv
<1>2. ASSUME NEW a \in Attempt, Expire(a) PROVE Inv'
  <2>1. TypeOK'
    BY <1>2 DEF Expire, search, loop, call, Inv, TypeOK
  <2>2. SearchInv' /\ LoopInv'
    BY <1>2 DEF Expire, search, loop, call, Inv, SearchInv, LoopInv, Holding
  <2> QED BY <2>1, <2>2 DEF Inv
<1>3. CASE UNCHANGED vars
  <2>1. TypeOK'
    BY <1>3 DEF vars, search, timers, loop, call, Inv, TypeOK
  <2>2. SearchInv' /\ LoopInv'
    BY <1>3 DEF vars, search, timers, loop, call, Inv, SearchInv, LoopInv, Holding
  <2> QED BY <2>1, <2>2 DEF Inv
<1> QED BY <1>1, <1>2, <1>3, DiscoverInv, ConnectInv, VolumeInv DEF Next

\* The invariant holds of every behaviour (nvme.go ConnectVolume and its connect
\* functions).
THEOREM NVMeInv == Spec => []Inv
  BY InitInv, NextInv, PTL DEF Spec

\* Every variable keeps its type; a goroutine lists twice at most (nvme.go
\* discoverDevice).
THEOREM NVMeTypeOK == Spec => []TypeOK
<1>1. Inv => TypeOK
  BY DEF Inv
<1> QED BY <1>1, NVMeInv, PTL

\* A connect function that was not cancelled leaves no goroutine at its send
\* (nvme.go connectSingleDevice, connectMultipathDevice, discoverDevice).
THEOREM NVMeHandsOver == Spec => []HandedOver
<1>1. Inv => HandedOver
  BY DEF Inv, SearchInv, HandedOver, HandedOn
<1> QED BY <1>1, NVMeInv, PTL

\* "discovery complete but devices not found" is said only of a goroutine whose
\* second listing found nothing (nvme.go).
THEOREM NVMeNotFoundIsTrue == Spec => []NotFoundIsTrue
<1>1. Inv => NotFoundIsTrue
  BY DEF Inv, SearchInv, NotFoundIsTrue, HandedOn
<1> QED BY <1>1, NVMeInv, PTL

\* A connect function that succeeds holds the devices of its goroutine (nvme.go).
THEOREM NVMeSucceedsWithDevices == Spec => []SucceedsWithDevices
<1>1. Inv => SucceedsWithDevices
  BY DEF Inv, LoopInv, SucceedsWithDevices
<1> QED BY <1>1, NVMeInv, PTL
================================================================================
