------------------------------ MODULE NVMeConnect ------------------------------
(***************************************************************************)
(* nvme.go: one call of ConnectVolume or DisconnectVolume.  A connect with *)
(* multipathd running is an attempt by connectMultipathDevice and, when it *)
(* fails, a second one by connectSingleDevice; each starts a discoverDevice*)
(* goroutine that hands its result over an unbuffered channel.             *)
(*                                                                         *)
(* What gonvme, sysfs, udev and multipath answer is any answer, at any     *)
(* time.  A goroutine's nguid is "" exactly when it found no device        *)
(* (wwnMatches never matches an empty nguid), so devices stands for both.  *)
(***************************************************************************)
EXTENDS Naturals, FiniteSets

CONSTANTS Device,  \* NVMe devices that can match the volume's WWN
          Target   \* the volume's targets

Attempt == {"multipath", "single"}

VARIABLES gpc,        \* per attempt: where its discoverDevice is
          retryCount, \* per attempt
          result,     \* per attempt: the devicePaths of its last listing
          wgCH,       \* per attempt: "open" or "closed"
          caller,     \* the caller's context: "live" or "done"
          timer,      \* per attempt, waitDeviceTimeout: "running" or "expired"
          op, pc, out,\* the call, where it is, what it returned
          attempt,    \* the connect function that runs, or the last that ran
          outcome,    \* per attempt: "none" or how it ended
          devices,    \* the devices of the connect function that runs
          known,      \* "mpath" if it has one, "added" for wwnAdded
          stage       \* "discovery", "complete" (discoveryComplete) or "last try"

search == <<gpc, retryCount, result>>
timers == <<caller, timer>>
loop   == <<devices, known, stage>>
call   == <<op, pc, out, attempt, outcome>>
vars   == <<search, wgCH, timers, call, loop>>

\* What a devicePathResult can hold.
DevicePaths == {D \in SUBSET Device : Cardinality(D) <= 2}

PerAttempt(x) == [a \in Attempt |-> x]

Init == /\ gpc = PerAttempt("idle")
        /\ retryCount = PerAttempt(0)
        /\ result = PerAttempt({})
        /\ wgCH = PerAttempt("open")
        /\ caller = "live" /\ timer = PerAttempt("running")
        /\ op \in {"connect", "disconnect"}
        /\ pc = "acquire" /\ out = "none"
        /\ attempt = "multipath" /\ outcome = PerAttempt("none")
        /\ devices = {} /\ known = {} /\ stage = "discovery"

-------------------------------------------------------------------------------
(* discoverDevice, which never looks at its context.                       *)

At(a, from, to) == gpc[a] = from /\ gpc' = [gpc EXCEPT ![a] = to]

\* Mutant of the next definition: no break at the second device.
AnyMatches == SUBSET Device

\* The listed devices whose nguid and namespace match, two at most; none when
\* ListNVMeDeviceAndNamespace failed.
Matches == DevicePaths

List(a) ==
  /\ \E D \in Matches :
        /\ result' = [result EXCEPT ![a] = D]
        /\ At(a, "list", IF D # {} \/ retryCount[a] = 1 THEN "send" ELSE "connect")
  /\ UNCHANGED <<retryCount, wgCH, timers, call, loop>>

\* tryNVMeConnect, whose error is only logged: with useFC one NVMeFCConnect
\* through the first host and target that accept it.
TryConnect(a) ==
  /\ At(a, "connect", "list")
  /\ retryCount' = [retryCount EXCEPT ![a] = @ + 1]
  /\ UNCHANGED <<result, wgCH, timers, call, loop>>

\* The deferred wg.Done.
Done(a) ==
  /\ At(a, "done", "ended")
  /\ UNCHANGED <<retryCount, result, wgCH, timers, call, loop>>

Discover(a) == List(a) \/ TryConnect(a) \/ Done(a)

\* Mutant of the next definition: wg.Done before the send.
WaitedForSend(a) == gpc[a] \in {"send", "done", "ended"}

\* The counter of wg is zero.
WaitedFor(a) == gpc[a] = "ended"

\* wg.Wait(); close(wgCH)
Close(a) == /\ WaitedFor(a) /\ wgCH[a] = "open"
            /\ wgCH' = [wgCH EXCEPT ![a] = "closed"]
            /\ UNCHANGED <<search, timers, call, loop>>

-------------------------------------------------------------------------------
(* The connect functions: one pass of their loops, step by step.           *)

From(a, b) == pc = a /\ pc' = b /\ UNCHANGED <<op, out, attempt, outcome>>

\* The start of connectMultipathDevice or connectSingleDevice.
Enter(a) == /\ attempt' = a /\ pc' = "ctx"
            /\ gpc' = [gpc EXCEPT ![a] = "list"]
            /\ devices' = {} /\ known' = {} /\ stage' = "discovery"

\* The function returns an error: ConnectVolume falls back to a single device,
\* or cleans up.
Fail(why) ==
  /\ outcome' = [outcome EXCEPT ![attempt] = why]
  /\ UNCHANGED op
  /\ IF attempt = "multipath"
     THEN Enter("single") /\ UNCHANGED out
     ELSE pc' = "clean" /\ out' = why /\ UNCHANGED <<attempt, gpc, loop>>

\* The function returns its device.
Succeed == /\ outcome' = [outcome EXCEPT ![attempt] = "device"]
           /\ pc' = "valid"
           /\ UNCHANGED <<op, out, attempt>>

\* Mutant of the next definition: connectMultipathDevice reads in every pass.
ReadsAlways == TRUE

\* connectMultipathDevice reads until it has an nguid, connectSingleDevice (which
\* forgets its devices with each pass, and returns in the pass that has one) always.
Reads == attempt = "multipath" => devices = {}

CheckCtx ==
  /\ pc = "ctx"
  /\ IF caller = "done" THEN Fail("cancelled")
                        ELSE From("ctx", IF Reads THEN "read" ELSE "wg")
                             /\ UNCHANGED <<gpc, loop>>
  /\ UNCHANGED <<retryCount, result, wgCH, timers>>

\* readNVMeDevicesFromResultCH blocks until discoverDevice sends: the two meet.
Receive ==
  /\ From("read", "wg")
  /\ At(attempt, "send", "done")
  /\ devices' = result[attempt]
  /\ UNCHANGED <<retryCount, result, wgCH, timers, known, stage>>

\* Mutant of the next definition: readNVMeDevicesFromResultCH has no second case.
NeverDone == FALSE

\* discoveryCtx.Done() is ready.
DiscoveryDone == caller = "done" \/ timer[attempt] = "expired"

\* ... or until discoveryCtx is done.
GiveUpRead ==
  /\ From("read", "wg")
  /\ DiscoveryDone
  /\ devices' = {}
  /\ UNCHANGED <<search, wgCH, timers, known, stage>>

\* Mutant of the next definition: the discovery's timeout ends it too.
CompleteOrLate == wgCH[attempt] = "closed" \/ timer[attempt] = "expired"

\* case <-wgCH
Complete == wgCH[attempt] = "closed"

\* The look at wgCH, the early return of a discovery without devices, and the
\* device of a connectSingleDevice that has one.
CheckComplete ==
  /\ pc = "wg"
  /\ LET now == IF stage = "discovery" /\ Complete THEN "complete" ELSE stage
     IN  \/ /\ now # "discovery" /\ devices = {}
            /\ Fail("not found")
         \/ /\ now = "discovery" \/ devices # {}
            /\ stage' = now
            /\ IF attempt = "multipath" THEN From("wg", "dm")
               ELSE IF devices # {} THEN Succeed ELSE From("wg", "last")
            /\ UNCHANGED <<gpc, devices, known>>
  /\ UNCHANGED <<retryCount, result, wgCH, timers>>

\* GetNVMEDMDeviceByChildren until it has answered, which it never does without a
\* device, and AddWWID, devices or not, until it has succeeded, for want of a map.
GetDM ==
  /\ pc = "dm"
  /\ \/ /\ "mpath" \in known \/ devices # {}
        /\ known' = known \cup {"mpath"}
        /\ From("dm", "link")
     \/ /\ "mpath" \notin known
        /\ \E added \in SUBSET {"added"} : known' = known \cup added
        /\ From("dm", "last")
  /\ UNCHANGED <<search, wgCH, timers, devices, stage>>

\* WaitUdevSymlinkNVMe, of the map.
CheckLink ==
  /\ pc = "link"
  /\ Succeed \/ From("link", "last")
  /\ UNCHANGED <<search, wgCH, timers, loop>>

\* Discovery is complete: start the register timeout, once.  AddPath of each
\* device changes nothing here.
StartLastTry ==
  /\ From("last", "late")
  /\ stage' = IF stage = "complete" THEN "last try" ELSE stage
  /\ UNCHANGED <<search, wgCH, timers, devices, known>>

\* time.Now().After(endTime), then the sleep of a second.
CheckLate ==
  /\ pc = "late"
  /\ \/ From("late", "ctx") /\ UNCHANGED <<gpc, loop>>
     \/ stage = "last try" /\ Fail("unregistered")
  /\ UNCHANGED <<retryCount, result, wgCH, timers>>

ConnectDevice == \/ CheckCtx \/ Receive \/ GiveUpRead \/ CheckComplete
                 \/ GetDM \/ CheckLink \/ StartLastTry \/ CheckLate

-------------------------------------------------------------------------------
(* ConnectVolume and DisconnectVolume                                      *)

Returns(why) == pc' = "returned" /\ out' = why /\ UNCHANGED <<op, attempt, outcome>>

\* limiter.Acquire, which a context that is done may refuse.
Acquire ==
  /\ pc = "acquire"
  /\ \/ From("acquire", IF op = "connect" THEN "validate" ELSE "clean")
     \/ caller = "done" /\ Returns("busy")
  /\ UNCHANGED <<search, wgCH, timers, loop>>

\* Incomplete targets are dropped; one must be left, and a WWN.
Validate ==
  /\ pc = "validate"
  /\ From("validate", "sessions") \/ Returns("invalid")
  /\ UNCHANGED <<search, wgCH, timers, loop>>

\* A target counts as a session unless GetSessions failed for it: whether one was
\* found is not looked at, and the sessions themselves are not used.
CheckSessions ==
  /\ pc = "sessions"
  /\ \E failed \in SUBSET Target :
        IF failed = Target THEN Returns("no session") ELSE From("sessions", "daemon")
  /\ UNCHANGED <<search, wgCH, timers, loop>>

\* IsDaemonRunning and the choice of the connect function.
CheckDaemon ==
  /\ pc = "daemon"
  /\ \E a \in Attempt : Enter(a)
  /\ UNCHANGED <<retryCount, result, wgCH, timers, op, out, outcome>>

\* CheckDeviceIsValid, of the device of a connect that has one.
CheckValid ==
  /\ pc = "valid"
  /\ \/ Returns("device")
     \/ pc' = "clean" /\ out' = "unreadable" /\ UNCHANGED <<op, attempt, outcome>>
  /\ UNCHANGED <<search, wgCH, timers, loop>>

\* cleanConnection: forced and unheard in a failed connect.
Clean ==
  /\ pc = "clean"
  /\ IF op = "connect" THEN Returns(out) ELSE \E r \in {"cleaned", "not cleaned"} : Returns(r)
  /\ UNCHANGED <<search, wgCH, timers, loop>>

Volume == \/ Acquire \/ Validate \/ CheckSessions \/ CheckDaemon
          \/ CheckValid \/ Clean

-------------------------------------------------------------------------------
Cancel == /\ caller = "live"
          /\ caller' = "done"
          /\ UNCHANGED <<search, wgCH, timer, call, loop>>

Expire(a) == /\ timer[a] = "running" /\ gpc[a] # "idle"
             /\ timer' = [timer EXCEPT ![a] = "expired"]
             /\ UNCHANGED <<search, wgCH, caller, call, loop>>

Next == \/ \E a \in Attempt : Discover(a) \/ Close(a) \/ Expire(a)
        \/ ConnectDevice \/ Volume \/ Cancel

Spec == Init /\ [][Next]_vars

\* Goroutines run, the discovery timer fires, select does not refuse a ready
\* channel for ever, and endTime passes.
Fairness == /\ \A a \in Attempt : /\ WF_vars(Discover(a))
                                  /\ WF_vars(Close(a)) /\ WF_vars(Expire(a))
            /\ WF_vars(ConnectDevice) /\ WF_vars(Volume)
            /\ SF_vars(Receive)
            /\ SF_vars(CheckLate /\ outcome' # outcome)

FairSpec == Spec /\ Fairness

-------------------------------------------------------------------------------
TypeOK ==
  /\ gpc \in [Attempt -> {"idle", "list", "connect", "send", "done", "ended"}]
  /\ retryCount \in [Attempt -> {0, 1}]
  /\ result \in [Attempt -> DevicePaths]
  /\ wgCH \in [Attempt -> {"open", "closed"}]
  /\ caller \in {"live", "done"}
  /\ timer \in [Attempt -> {"running", "expired"}]
  /\ op \in {"connect", "disconnect"}
  /\ pc \in {"acquire", "validate", "sessions", "daemon", "ctx", "read", "wg", "dm",
             "link", "last", "late", "valid", "clean", "returned"}
  /\ out \in {"none", "busy", "invalid", "no session", "cancelled", "not found",
              "unregistered", "unreadable", "device", "cleaned", "not cleaned"}
  /\ attempt \in Attempt
  /\ outcome \in [Attempt -> {"none", "cancelled", "not found", "unregistered", "device"}]
  /\ devices \in SUBSET Device
  /\ known \in SUBSET {"mpath", "added"}
  /\ stage \in {"discovery", "complete", "last try"}

\* No goroutine is left at its send on the unbuffered devCH by a connect function
\* that was not cancelled (connectSingleDevice, connectMultipathDevice and the
\* fallback from one to the other).
HandedOver ==
  \A a \in Attempt : outcome[a] \in {"not found", "unregistered", "device"}
                        => gpc[a] \in {"done", "ended"}

\* "discovery complete but devices not found": the last listing of the attempt's
\* goroutine, the one after its duplicate connect, found nothing.
NotFoundIsTrue ==
  \A a \in Attempt : outcome[a] = "not found" => result[a] = {} /\ retryCount[a] = 1

\* A connect function that succeeds holds the devices its goroutine found, and at
\* least one of them (devices[0] in connectSingleDevice, AddPath and the udev link
\* of the nguid in connectMultipathDevice).
SucceedsWithDevices ==
  outcome[attempt] = "device" => devices = result[attempt] /\ devices # {}

\* The call returns, whatever never appears.
CallReturns == <>(pc = "returned")

\* A goroutine at its send gets rid of its result, unless the connect function
\* that started it was cancelled (then nothing ever receives from devCH).
SendsEnd ==
  \A a \in Attempt : gpc[a] = "send" ~> (gpc[a] # "send" \/ outcome[a] = "cancelled")
================================================================================
