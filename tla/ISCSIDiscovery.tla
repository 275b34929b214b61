---------------------------- MODULE ISCSIDiscovery ----------------------------
(***************************************************************************)
(* iscsi.go: connectSingleDevice, connectMultipathDevice and               *)
(* connectPowerpathDevice, each with the discoverDevice goroutines it      *)
(* starts, one per session, the goroutine that waits for them, the channel *)
(* their devices come through and the contexts that end them.              *)
(*                                                                         *)
(* What sysfs, udev, multipath and powermt answer is any answer, at any    *)
(* time: the module is about who has seen what when a decision is taken.   *)
(* A device is named by the session that discovers it.                     *)
(***************************************************************************)
EXTENDS Naturals, FiniteSets

CONSTANTS Session, \* the sessions passed to the connect function
          Rescans  \* discoverDevice's rescans parameter (4)

ASSUME DiscoveryAssumption == /\ IsFiniteSet(Session)
                              /\ Rescans \in Nat

VARIABLES mode,       \* which of the three connect functions runs
          gpc,        \* per session: where discoverDevice is
          hctl,       \* per session: "none", "host" or "full" information
          numRescans, \* per session
          wait,       \* per session: secondsNextScan, 0 standing for <= 0 too
          found,      \* sessions whose goroutine found its device
          ch,         \* devices buffered in devCH
          wgCH,       \* "open" or "closed"
          caller,     \* the caller's context: "live" or "done"
          timer,      \* waitDeviceTimeout of discoveryCtx: "running" or "expired"
          pc, out,    \* where the connect function is, what it returned
          devices,    \* its devices
          known,      \* "wwn" and "parent" (mpath or ppath) if it has them, and
                      \* "added" for wwnAdded
          stage       \* "discovery", "complete" (discoveryComplete) or "last try"
                      \* (discoveryComplete and lastTry)

search  == <<gpc, hctl, numRescans, wait, found>>
timers  == <<caller, timer>>
connect == <<mode, pc, out, devices, known, stage>>
vars    == <<search, ch, wgCH, timers, connect>>

Modes == {"single", "multipath", "powerpath"}

Init == /\ mode \in Modes
        /\ gpc = [s \in Session |-> "find"]
        /\ hctl = [s \in Session |-> "none"]
        /\ numRescans = [s \in Session |-> 0]
        /\ wait = [s \in Session |-> 1]
        /\ found = {}
        /\ ch = {}
        /\ wgCH = "open"
        /\ caller = "live" /\ timer = "running"
        /\ pc = "ctx" /\ out = "none"
        /\ devices = {} /\ known = {}
        /\ stage = "discovery"

-------------------------------------------------------------------------------
(* discoverDevice                                                          *)

\* The deferred cFunc cancels the discovery when the connect function returns.
DiscoveryDone == caller = "done" \/ timer = "expired" \/ pc = "returned"

At(s, from, to) == gpc[s] = from /\ gpc' = [gpc EXCEPT ![s] = to]

\* findHCTLByISCSISessionID, until it has answered in full.
FindHCTL(s) ==
  /\ \E h \in {"none", "host", "full"} :
        /\ hctl[s] = "full" => h = "full"
        /\ hctl[s] = "host" => h # "none"
        /\ hctl' = [hctl EXCEPT ![s] = h]
        /\ At(s, "find", IF h = "none" THEN "check"
                         ELSE IF wait[s] = 0 THEN "rescan" ELSE "name")
  /\ UNCHANGED <<numRescans, wait, found, ch, wgCH, timers, connect>>

\* math.Pow(float64(numRescans+2), 2)
Pause(n) == (n + 2) * (n + 2)

\* RescanSCSIHostByHCTL, its error logged, and the longer wait for the next.
Rescan(s) ==
  /\ At(s, "rescan", "name")
  /\ numRescans' = [numRescans EXCEPT ![s] = @ + 1]
  /\ wait' = [wait EXCEPT ![s] = Pause(numRescans'[s])]
  /\ UNCHANGED <<hctl, found, ch, wgCH, timers, connect>>

\* GetDeviceNameByHCTL; the refresh of a device found without a rescan changes
\* nothing here.
FindName(s) ==
  /\ \/ /\ hctl[s] = "full"
        /\ found' = found \cup {s}
        /\ At(s, "name", "send")
     \/ /\ UNCHANGED found
        /\ At(s, "name", "check")
  /\ UNCHANGED <<hctl, numRescans, wait, ch, wgCH, timers, connect>>

\* Mutant of the next definition: make(chan string, 1).
OneSlot == 1

\* devCH is made with len(sessions).
Capacity == Cardinality(Session)

\* result <- dev
Send(s) ==
  /\ At(s, "send", "done")
  /\ Cardinality(ch) < Capacity
  /\ ch' = ch \cup {s}
  /\ UNCHANGED <<hctl, numRescans, wait, found, wgCH, timers, connect>>

\* Mutant of the next definition: the context is looked at only after a rescan.
ScanOnUncancelled(s) == numRescans[s] <= Rescans /\ (DiscoveryDone => numRescans[s] = 0)

\* Mutant of the next definition: the count is tested before the increment.
ScanOnOneMore(s) == ~DiscoveryDone /\ numRescans[s] <= Rescans + 1

\* The select at the end of an iteration, doScans.
ScanOn(s) == ~DiscoveryDone /\ numRescans[s] <= Rescans

Check(s) ==
  /\ At(s, "check", IF ScanOn(s) THEN "sleep" ELSE "done")
  /\ UNCHANGED <<hctl, numRescans, wait, found, ch, wgCH, timers, connect>>

Sleep(s) ==
  /\ At(s, "sleep", "find")
  /\ wait' = [wait EXCEPT ![s] = IF @ = 0 THEN 0 ELSE @ - 1]
  /\ UNCHANGED <<hctl, numRescans, found, ch, wgCH, timers, connect>>

\* The deferred wg.Done.
Done(s) ==
  /\ At(s, "done", "ended")
  /\ UNCHANGED <<hctl, numRescans, wait, found, ch, wgCH, timers, connect>>

Discover(s) == \/ FindHCTL(s) \/ Rescan(s) \/ FindName(s) \/ Send(s)
               \/ Check(s) \/ Sleep(s) \/ Done(s)

\* Mutant of the next definition: wg.Done before the send.
AllSending == \A s \in Session : gpc[s] \in {"send", "done", "ended"}

\* The counter of wg is zero.
AllEnded == \A s \in Session : gpc[s] = "ended"

\* wg.Wait(); close(wgCH)
Close == /\ AllEnded /\ wgCH = "open"
         /\ wgCH' = "closed"
         /\ UNCHANGED <<search, ch, timers, connect>>

-------------------------------------------------------------------------------
(* The connect function: one pass of its loop, step by step.               *)

From(a, b) == pc = a /\ pc' = b /\ UNCHANGED out

Returns(result) == pc' = "returned" /\ out' = result

CheckCtx ==
  /\ pc = "ctx"
  /\ IF caller = "done" THEN Returns("cancelled") ELSE From("ctx", "drain")
  /\ UNCHANGED <<search, ch, wgCH, timers, mode, devices, known, stage>>

\* Mutant of the next definition: result = []string{d}.
Replaced(d) == devices' = {d}

\* result = append(result, d)
Appended(d) == devices' = devices \cup {d}

\* readDevicesFromResultCH receives until the channel has nothing ready.
Receive ==
  /\ pc = "drain"
  /\ \E d \in ch : ch' = ch \ {d} /\ Appended(d)
  /\ UNCHANGED <<search, wgCH, timers, mode, pc, out, known, stage>>

Drained ==
  /\ From("drain", "wg")
  /\ ch = {}
  /\ UNCHANGED <<search, ch, wgCH, timers, mode, devices, known, stage>>

\* The look at wgCH, and the early return of a discovery without devices.
CheckComplete ==
  /\ pc = "wg"
  /\ stage' = IF stage = "discovery" /\ wgCH = "closed" THEN "complete" ELSE stage
  /\ IF stage' # "discovery" /\ devices = {} THEN Returns("not found")
                                             ELSE From("wg", "wwn")
  /\ UNCHANGED <<search, ch, wgCH, timers, mode, devices, known>>

\* GetDeviceWWN, until it has answered.
GetWWN ==
  /\ pc = "wwn"
  /\ \/ /\ devices # {}
        /\ known' = known \cup {"wwn"}
        /\ From("wwn", IF mode = "single" THEN "link" ELSE "parent")
     \/ /\ "wwn" \notin known
        /\ From("wwn", "last")
        /\ UNCHANGED known
  /\ UNCHANGED <<search, ch, wgCH, timers, mode, devices, stage>>

\* GetDMDeviceByChildren or GetPowerPathDevices, until it has answered, and
\* AddWWID, until it has succeeded, for want of a map.
GetParent ==
  /\ pc = "parent"
  /\ \/ /\ known' = known \cup {"parent"}
        /\ From("parent", "link")
     \/ /\ "parent" \notin known
        /\ \E added \in SUBSET {"added"} :
              /\ mode # "multipath" => added = {}
              /\ known' = known \cup added
        /\ From("parent", "last")
  /\ UNCHANGED <<search, ch, wgCH, timers, mode, devices, stage>>

\* WaitUdevSymlink, of each device or of the parent.
CheckLink ==
  /\ pc = "link"
  /\ \/ Returns("device")
     \/ From("link", "last")
  /\ UNCHANGED <<search, ch, wgCH, timers, mode, devices, known, stage>>

\* All goroutines have finished: start the register timeout, once.  AddPath of
\* each device changes nothing here.
StartLastTry ==
  /\ From("last", "late")
  /\ stage' = IF stage = "complete" THEN "last try" ELSE stage
  /\ UNCHANGED <<search, ch, wgCH, timers, mode, devices, known>>

\* time.Now().After(endTime), then the sleep of a second.
CheckLate ==
  /\ pc = "late"
  /\ \/ From("late", "ctx")
     \/ stage = "last try" /\ Returns("unregistered")
  /\ UNCHANGED <<search, ch, wgCH, timers, mode, devices, known, stage>>

Connect == \/ CheckCtx \/ Receive \/ Drained \/ CheckComplete \/ GetWWN
           \/ GetParent \/ CheckLink \/ StartLastTry \/ CheckLate

-------------------------------------------------------------------------------
Cancel == /\ caller = "live"
          /\ caller' = "done"
          /\ UNCHANGED <<search, ch, wgCH, timer, connect>>

Expire == /\ timer = "running"
          /\ timer' = "expired"
          /\ UNCHANGED <<search, ch, wgCH, caller, connect>>

Next == \/ \E s \in Session : Discover(s)
        \/ Close \/ Connect \/ Cancel \/ Expire

Spec == Init /\ [][Next]_vars

\* Goroutines run, the discovery timer fires, and endTime passes: a loop that
\* asks for it again and again gets it.
Fairness == /\ \A s \in Session : WF_vars(Discover(s))
            /\ WF_vars(Close) /\ WF_vars(Connect) /\ WF_vars(Expire)
            /\ SF_vars(CheckLate /\ pc' = "returned")

FairSpec == Spec /\ Fairness

-------------------------------------------------------------------------------
TypeOK == /\ mode \in Modes
          /\ gpc \in [Session -> {"find", "rescan", "name", "send", "check",
                                  "sleep", "done", "ended"}]
          /\ hctl \in [Session -> {"none", "host", "full"}]
          /\ numRescans \in [Session -> 0..Rescans + 1]
          /\ wait \in [Session -> Nat]
          /\ found \in SUBSET Session
          /\ ch \in SUBSET Session
          /\ wgCH \in {"open", "closed"}
          /\ caller \in {"live", "done"}
          /\ timer \in {"running", "expired"}
          /\ pc \in {"ctx", "drain", "wg", "wwn", "parent", "link", "last",
                     "late", "returned"}
          /\ out \in {"none", "cancelled", "not found", "device", "unregistered"}
          /\ devices \in SUBSET Session
          /\ known \in SUBSET {"wwn", "parent", "added"}
          /\ stage \in {"discovery", "complete", "last try"}

\* No device is lost between discoverDevice and the loop that waits for it: a
\* goroutine that found one and is over has it in the channel or in devices.
NothingLost ==
  \A s \in found : gpc[s] \in {"done", "ended"} => s \in ch \cup devices

\* From the pass after the one that saw wgCH closed, every decision is taken on
\* all the devices the goroutines found (the order of the drain and the look at
\* wgCH in the connect functions; wg.Done after the send in discoverDevice).
LaterPassSeesAll ==
  stage = "last try" /\ pc \in {"wg", "wwn", "parent", "link"} => devices = found

\* A goroutine that has its device never waits for the channel: devCH has room
\* for it even when the connect function has returned and nobody reads any more
\* (devCH's capacity in the connect functions, the one send of discoverDevice).
SendNeverBlocks ==
  \A s \in Session : gpc[s] = "send" => Cardinality(ch) < Capacity

\* The connect function returns, whatever never appears.
ConnectReturns == <>(pc = "returned")

\* No goroutine outlives the call for good, even if nobody reads devCH any more
\* (devCH's capacity, the deferred cancel, and the select in discoverDevice).
GoroutinesEnd == <>(wgCH = "closed" /\ AllEnded)

\* "discovery complete but devices not found" (connectSingleDevice and the
\* others): the message is true.
NotFoundIsTrue == out = "not found" => found = {}
===============================================================================
