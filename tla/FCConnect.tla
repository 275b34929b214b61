------------------------------- MODULE FCConnect -------------------------------
(***************************************************************************)
(* fc.go and rdm.go: one call of ConnectVolume, DisconnectVolume or        *)
(* ConnectRDMVolume, on a host whose remote ports and disks come and go.   *)
(*                                                                         *)
(* A path is an HBA with a target of the volume; the disk of a path is the *)
(* SCSI device with the volume's LUN behind it.  Reads of sysfs and        *)
(* commands fail at will.                                                  *)
(***************************************************************************)
EXTENDS Naturals, FiniteSets

CONSTANTS Hba,             \* fc_host entries
          Target,          \* WWPNs in the volume's info
          Zoned,           \* pairs of them that can ever see each other
          LastRescan,      \* waitForDeviceWWN goes on while numRescans <= 3
          RegisterSeconds  \* int(waitDeviceRegisterTimeout.Seconds())

ASSUME FCAssumption == /\ Zoned \subseteq Hba \X Target
                       /\ LastRescan \in Nat /\ RegisterSeconds \in Nat
                       /\ IsFiniteSet(Hba)

Path == Hba \X Target

VARIABLES port,  \* paths whose remote port is in /sys/class/fc_transport
          disk,  \* paths whose disk is there
          caller,          \* the caller's context: "live" or "done"
          op, pc, out,     \* the call, where it is, its error or result
          hbas,            \* what getFCHBASInfo returned
          todo,            \* HBAs findHCTLsForFCHBA is still to be asked for
          hctlsToRescan, hctlsToDiscover, \* paths
          devices,         \* paths whose device has been named
          numRescans, secondsNextScan,
          looks,           \* passes of the waiting loop of connectDevice
          slept,           \* history: seconds slept since the last rescan
          rescans,         \* history: rescans asked for, per path
          steady           \* history: paths with a disk since this search began,
                           \* none of whose reads failed

host    == <<port, disk>>
search  == <<hbas, todo, hctlsToRescan, hctlsToDiscover, devices>>
timing  == <<numRescans, secondsNextScan, looks, slept, rescans>>
vars    == <<host, caller, op, pc, out, search, timing, steady>>

NoRescans == [p \in Path |-> 0]

Init == /\ port \in SUBSET Zoned /\ disk \in SUBSET port
        /\ caller = "live"
        /\ op \in {"connect", "disconnect", "rdm"}
        /\ pc = "acquire" /\ out = "none"
        /\ hbas = {} /\ todo = {}
        /\ hctlsToRescan = {} /\ hctlsToDiscover = {} /\ devices = {}
        /\ numRescans = 0 /\ secondsNextScan = 1 /\ looks = 0
        /\ slept = 0 /\ rescans = NoRescans
        /\ steady = {}

-------------------------------------------------------------------------------
(* The host and the caller, at any time.                                   *)

PortUp(p) == /\ p \notin port /\ port' = port \cup {p}
             /\ UNCHANGED <<disk, steady>>

PortDown(p) == /\ p \in port /\ port' = port \ {p}
               /\ disk' = disk \ {p} /\ steady' = steady \ {p}

DiskUp(p) == /\ p \in port \ disk /\ disk' = disk \cup {p}
             /\ UNCHANGED <<port, steady>>

DiskDown(p) == /\ p \in disk /\ disk' = disk \ {p}
               /\ steady' = steady \ {p} /\ UNCHANGED port

HostChanges == /\ \E p \in Zoned : PortUp(p) \/ PortDown(p) \/ DiskUp(p) \/ DiskDown(p)
               /\ UNCHANGED <<caller, op, pc, out, search, timing>>

Cancel == /\ caller = "live" /\ caller' = "done"
          /\ UNCHANGED <<host, op, pc, out, search, timing, steady>>

-------------------------------------------------------------------------------
From(a, b) == pc = a /\ pc' = b /\ UNCHANGED <<op, out>>

Returns(why) == pc' = "returned" /\ out' = why /\ UNCHANGED op

\* The connect has failed: its locals are gone, it is cleaned up by force, and why
\* is its error.
Fail(why) == /\ pc' = "clean" /\ out' = why /\ UNCHANGED op
             /\ hbas' = {} /\ todo' = {}
             /\ hctlsToRescan' = {} /\ hctlsToDiscover' = {} /\ devices' = {}
             /\ numRescans' = 0 /\ secondsNextScan' = 1 /\ looks' = 0
             /\ slept' = 0 /\ rescans' = NoRescans

\* limiter.Acquire, which a context that is done may refuse.
Acquire ==
  /\ pc = "acquire"
  /\ \/ From("acquire", IF op = "disconnect" THEN "clean" ELSE "validate")
     \/ caller = "done" /\ Returns("busy")
  /\ UNCHANGED <<host, caller, search, timing, steady>>

\* validateFCVolumeInfo or validateRDMVolumeInfo
Validate ==
  /\ pc = "validate"
  /\ \/ From("validate", IF op = "rdm" THEN "rescan_all" ELSE "hbas")
     \/ Returns("invalid")
  /\ UNCHANGED <<host, caller, search, timing, steady>>

\* A search begins: every disk there is counts from now on.
Search(H) == /\ hbas' = H /\ todo' = H
             /\ hctlsToRescan' = {} /\ hctlsToDiscover' = {} /\ devices' = {}
             /\ steady' = {p \in disk : p[1] \in H}

\* getFCHBASInfo: an HBA whose files cannot be read is left out.
GetHBAs ==
  /\ pc = "hbas"
  /\ \E H \in SUBSET Hba :
        IF H = {} THEN Returns("no_HBAs") /\ UNCHANGED <<search, steady>>
                  ELSE From("hbas", "find") /\ Search(H)
  /\ UNCHANGED <<host, caller, timing>>

-------------------------------------------------------------------------------
(* waitForDeviceWWN                                                        *)

Visible(h) == {t \in Target : <<h, t>> \in port}

\* needFullRescan: one missing target makes it a scan of the whole HBA.
ToRescan(h) == {h} \X (IF Visible(h) # Target THEN Target ELSE Visible(h))

\* Mutant of the next definition: the last HBA's HCTLs replace the others'.
OfLastHba(h) == ToRescan(h)

\* hctlsToRescan = append(hctlsToRescan, htr...)
Gathered(h) == hctlsToRescan \cup ToRescan(h)

\* Mutant of the next definition: nothing to discover before all is found.
ToDiscoverIfAll(h) == {h} \X (IF Visible(h) = Target THEN Target ELSE {})

\* hctlsToDiscover
ToDiscover(h) == {h} \X Visible(h)

\* findHCTLsForFCHBA of an HBA that can be read.
FindHCTLs(h) ==
  /\ h \in todo /\ todo' = todo \ {h}
  /\ hctlsToRescan' = Gathered(h)
  /\ hctlsToDiscover' = hctlsToDiscover \cup ToDiscover(h)

\* One that cannot be read fails the connect.
FindForConnect ==
  /\ pc = "find" /\ todo # {}
  /\ \/ /\ \E h \in todo : FindHCTLs(h)
        /\ UNCHANGED <<op, pc, out, hbas, devices, timing>>
     \/ Fail("unreadable")
  /\ UNCHANGED <<host, caller, steady>>

\* math.Pow(float64(numRescans+2), 2)
Pause(n) == (n + 2) * (n + 2)

\* When it is time, RescanSCSIHostByHCTL of each, errors logged.
Rescan ==
  /\ pc = "find" /\ todo = {}
  /\ pc' = "names"
  /\ IF secondsNextScan = 0
     THEN /\ numRescans' = numRescans + 1
          /\ secondsNextScan' = Pause(numRescans')
          /\ slept' = 0
          /\ rescans' = [p \in Path |-> rescans[p] + (IF p \in hctlsToRescan THEN 1 ELSE 0)]
     ELSE UNCHANGED <<numRescans, secondsNextScan, slept, rescans>>
  /\ UNCHANGED <<host, caller, op, out, search, looks, steady>>

\* GetDeviceNameByHCTL of each; the refresh of a device found without a rescan
\* changes nothing here.
GetNames ==
  /\ From("names", "valid_devices")
  /\ \E D \in SUBSET (hctlsToDiscover \cap disk) :
        /\ devices' = D
        /\ steady' = steady \ ((hctlsToDiscover \cap disk) \ D)
  /\ UNCHANGED <<host, caller, hbas, todo, hctlsToRescan, hctlsToDiscover, timing>>

\* CheckDeviceIsValid of each, and the WWN of the first that answers.
ValidDevices ==
  /\ pc = "valid_devices"
  /\ \E V \in SUBSET (devices \cap disk) :
        /\ steady' = steady \ (devices \ V)
        /\ \/ /\ From("valid_devices", IF V = {} THEN "select" ELSE "devices")
              /\ UNCHANGED <<search, timing>>
           \/ V # {} /\ Fail("unreadable")
  /\ UNCHANGED <<host, caller>>

\* Mutant of the next definition: one rescan more.
GoesOnOneMore == caller = "live" /\ numRescans <= LastRescan + 1

\* doScans
GoesOn == caller = "live" /\ numRescans <= LastRescan

\* Mutant of the next definition: no pause before the first rescan or after it.
SleepsOnlyLater == IF numRescans > 1 THEN 1 ELSE 0

\* time.Sleep(time.Second)
Sleeps == IF numRescans > 0 THEN 1 ELSE 0

\* Mutant of the next definition: it stands under the condition of the sleep.
CountdownLate == secondsNextScan - Sleeps

\* secondsNextScan--
Countdown == secondsNextScan - 1

Select ==
  /\ pc = "select"
  /\ IF GoesOn
     THEN /\ pc' = "find" /\ UNCHANGED <<op, out>>
          /\ secondsNextScan' = Countdown
          /\ slept' = slept + Sleeps
          /\ Search(hbas)
          /\ UNCHANGED <<numRescans, looks, rescans>>
     ELSE Fail("not_found") /\ UNCHANGED steady
  /\ UNCHANGED <<host, caller>>

-------------------------------------------------------------------------------
(* rescanAllHosts and the rest of connectDevice and connectRDM             *)

\* rescanAllHosts counts the n entries of /sys/class/scsi_host and rescans hosts
\* 0..n-1, errors logged; only a directory that cannot be read is an error.
RescanAllHosts ==
  /\ pc = "rescan_all"
  /\ \/ From("rescan_all", "devices") /\ UNCHANGED <<search, timing>>
     \/ Fail("unreadable")
  /\ UNCHANGED <<host, caller, steady>>

\* GetDevicesByWWN, and for FC the choice of the waiting loop; multipath's
\* begins with an AddWWID that must succeed and AddPath of each device.
GetDevices ==
  /\ pc = "devices"
  /\ \/ From("devices", "wait") /\ UNCHANGED <<search, timing>>
     \/ Fail("no_devices")
     \/ op = "connect" /\ Fail("not_added")
  /\ UNCHANGED <<host, caller, steady>>

\* i < int(fc.waitDeviceRegisterTimeout.Seconds())
WaitsOn == looks < RegisterSeconds

\* A pass of waitSingleDevice, waitMultipathDevice or waitPowerpathDevice.
Wait ==
  /\ pc = "wait"
  /\ \/ ~WaitsOn /\ Fail("unregistered")
     \/ WaitsOn /\ caller = "done" /\ Fail("cancelled")
     \/ /\ WaitsOn /\ caller = "live"
        /\ \/ From("wait", "check") /\ UNCHANGED looks
           \/ looks' = looks + 1 /\ UNCHANGED <<op, pc, out>>
        /\ UNCHANGED <<search, numRescans, secondsNextScan, slept, rescans>>
  /\ UNCHANGED <<host, caller, steady>>

\* CheckDeviceIsValid of the device to return.
CheckValid ==
  /\ pc = "check"
  /\ \/ Returns("device") /\ UNCHANGED <<search, timing>>
     \/ Fail("unreadable")
  /\ UNCHANGED <<host, caller, steady>>

-------------------------------------------------------------------------------
(* cleanConnection, of a disconnect or of a connect that failed            *)

\* getFCHBASInfo may fail, or find no HBA it can read.  An RDM is cleaned by its
\* WWN, if GetDevicesByWWN finds devices.
Clean ==
  /\ pc = "clean"
  /\ \/ /\ op # "rdm"
        /\ \E H \in SUBSET Hba : Search(H)
        /\ From("clean", "clean_find")
     \/ Returns(IF op = "disconnect" THEN "not_cleaned" ELSE out)
        /\ UNCHANGED <<search, steady>>
  /\ UNCHANGED <<host, caller, timing>>

\* Mutant of the next definition: an HBA that cannot be read ends the search.
StopsAt(h) == {}

\* The HBAs left after one that cannot be read: its error is only logged.
GoesOnAfter(h) == todo \ {h}

\* findHCTLsForFCHBA of the next HBA; nothing is rescanned.
FindForClean ==
  /\ pc = "clean_find"
  /\ \E h \in todo :
        \/ /\ From("clean_find", "clean_names")
           /\ todo' = todo \ {h}
           /\ hctlsToDiscover' = ToDiscover(h)
           /\ UNCHANGED steady
        \/ /\ todo' = GoesOnAfter(h)
           /\ steady' = {p \in steady : p[1] # h}
           /\ UNCHANGED <<op, pc, out, hctlsToDiscover>>
  /\ UNCHANGED <<host, caller, hbas, hctlsToRescan, devices, timing>>

\* GetDeviceNameByHCTL of each of its disks, errors logged; then the next HBA.
CleanNames ==
  /\ From("clean_names", "clean_find")
  /\ \E D \in SUBSET (hctlsToDiscover \cap disk) :
        /\ devices' = devices \cup D
        /\ steady' = steady \ ((hctlsToDiscover \cap disk) \ D)
  /\ hctlsToDiscover' = {}
  /\ UNCHANGED <<host, caller, hbas, todo, hctlsToRescan, timing>>

\* cleanDevices (CleanDevices), forced and unheard in a failed connect.
CleanDevices ==
  /\ pc = "clean_find" /\ todo = {}
  /\ IF op = "connect" THEN Returns(out)
                       ELSE \E r \in {"cleaned", "not_cleaned"} : Returns(r)
  /\ UNCHANGED <<host, caller, search, timing, steady>>

Step == \/ Acquire \/ Validate \/ GetHBAs \/ FindForConnect \/ Rescan \/ GetNames
        \/ ValidDevices \/ Select \/ RescanAllHosts \/ GetDevices \/ Wait
        \/ CheckValid \/ Clean \/ FindForClean \/ CleanNames \/ CleanDevices

Next == Step \/ HostChanges \/ Cancel

Spec == Init /\ [][Next]_vars

\* The calling goroutine runs.
FairSpec == Spec /\ WF_vars(Step)

-------------------------------------------------------------------------------
TypeOK ==
  /\ port \in SUBSET Zoned /\ disk \in SUBSET port
  /\ caller \in {"live", "done"}
  /\ op \in {"connect", "disconnect", "rdm"}
  /\ pc \in {"acquire", "validate", "hbas", "find", "names", "valid_devices",
             "select", "rescan_all", "devices", "wait", "check", "clean",
             "clean_find", "clean_names", "returned"}
  /\ out \in {"none", "busy", "invalid", "no_HBAs", "unreadable", "not_found",
              "no_devices", "not_added", "unregistered", "cancelled", "device",
              "cleaned", "not_cleaned"}
  /\ hbas \in SUBSET Hba /\ todo \in SUBSET hbas
  /\ hctlsToRescan \in SUBSET Path /\ hctlsToDiscover \in SUBSET Path
  /\ devices \in SUBSET Path
  /\ numRescans \in 0..LastRescan + 1
  /\ secondsNextScan \in Nat
  /\ looks \in 0..RegisterSeconds
  /\ slept \in Nat
  /\ rescans \in [Path -> Nat]
  /\ steady \in SUBSET disk

\* "wwn for FC device not found", of a context that is not done: every path of
\* the HBAs the connect knows was covered by each of the rescans, all of them made
\* (the count in waitForDeviceWWN, needFullRescan in findHCTLsForFCHBA).
NotFoundMeansRescanned ==
  [][pc = "select" /\ out' = "not_found" /\ caller = "live"
        => \A p \in hbas \X Target : rescans[p] = LastRescan + 1]_vars

\* A rescan follows the one before by the seconds it was given to take effect
\* (the countdown and the sleeps of waitForDeviceWWN).
RescansSpaced ==
  [][numRescans' > numRescans /\ numRescans > 0 => slept = Pause(numRescans)]_vars

\* A disk that was there for the whole of the last pass, and never failed a read,
\* is not missed (the gathering over HBAs and targets in waitForDeviceWWN).
SteadyFound == out = "not_found" /\ pc = "clean" => steady = {}

\* The devices given to cleanDevices are all the disks that were there for the
\* whole search and whose HBA and name could be read (cleanConnection goes on
\* after a failure).
CleanCovers == pc = "clean_find" /\ todo = {} => steady \subseteq devices

\* The seconds the loop of waitForDeviceWWN can still take: those to the next rescan,
\* and more than the longest pause for each rescan not yet made.
SecondsLeft == (LastRescan + 1 - numRescans) * (Pause(LastRescan + 1) + 1) + secondsNextScan

\* Steps from the end of the search to the return.
Rest(at) == 2 * Cardinality(Hba) +
  CASE at = "rescan_all" -> 7 + RegisterSeconds
    [] at = "devices"    -> 6 + RegisterSeconds
    [] at = "wait"       -> 5 + RegisterSeconds - looks
    [] at = "check"      -> 4
    [] at = "clean"      -> 3

\* Steps from here on, in a search: this pass, the passes of the seconds left, the
\* tail.
Searching(steps) == SecondsLeft * (Cardinality(Hba) + 4) + steps + Rest("rescan_all")

\* The steps a call can still make.
Work ==
  CASE pc = "acquire"       -> Searching(Cardinality(Hba) + 7)
    [] pc = "validate"      -> Searching(Cardinality(Hba) + 6)
    [] pc = "hbas"          -> Searching(Cardinality(Hba) + 5)
    [] pc = "find"          -> Searching(Cardinality(todo) + 4)
    [] pc = "names"         -> Searching(3)
    [] pc = "valid_devices" -> Searching(2)
    [] pc = "select"        -> Searching(1)
    [] pc \in {"rescan_all", "devices", "wait", "check", "clean"} -> Rest(pc)
    [] pc = "clean_names"   -> 2 * Cardinality(todo) + 2
    [] pc = "clean_find"    -> 2 * Cardinality(todo) + 1
    [] pc = "returned"      -> 0

\* The call never runs out of steps it has left, and each takes from them, whatever
\* the host does meanwhile: the passes, the pauses and the waits of one call are
\* bounded by LastRescan, RegisterSeconds and the HBAs (the countdown of
\* waitForDeviceWWN, the loops of waitMultipathDevice and cleanConnection).
CallBounded ==
  [][<<pc, search, timing>>' # <<pc, search, timing>> => Work' >= 0 /\ Work' < Work]_vars

\* Every call returns.
CallReturns == <>(pc = "returned")
================================================================================
