----------------------------- MODULE CleanDevices -----------------------------
(***************************************************************************)
(* base.go: disconnectDevicesByDeviceName and cleanDevices, with the calls *)
(* they make into pkg/scsi, pkg/multipath and pkg/powerpath, each a step   *)
(* of its own, because the host changes and other calls on the same volume *)
(* run between any two of them.  disconnectNVMEDevicesByDeviceName and     *)
(* cleanNVMeDevices are the same steps with two differences, taken where   *)
(* transport is looked at.                                                 *)
(*                                                                         *)
(* A call resolves the devices, finds the map that holds them, flushes it, *)
(* deletes the devices one by one and, with PowerPath, flushes its stale   *)
(* devices.  force (the clean-up of a failed connect) goes on past errors. *)
(***************************************************************************)
EXTENDS HostDevices

CONSTANTS Caller,           \* goroutines that clean
          FlushRetries,     \* bc.multipathFlushRetries
          PowerPathRunning  \* powermt answers

ASSUME CleanAssumption == /\ FlushRetries \in Nat
                          /\ PowerPathRunning \in BOOLEAN

VARIABLES pc, res,    \* where each call is, how its last call ended
          force,      \* the force parameter
          name,       \* the name given to disconnectDevicesByDeviceName
          transport,  \* of the volume: "scsi" or "nvme", for good
          wwn,        \* the volume's wwn is known (the empty string if not)
          devs, todo, \* the devices of the call, those its loop has yet to do
          cur,        \* the device the loop is at
          dm,         \* what GetDMDeviceByChildren returned
          tries,      \* flush attempts made
          cx,         \* context: "live", "flush" (flush timeout) or "done"
          hung,       \* the external command of this step does not answer
          dmGone,     \* history: dm was absent at some time since it was found
          away,       \* history: devices absent at some time since resolved
          freed,      \* history: devices in no map at some time since resolved
          skipped     \* history: devices the loop gave up

request == <<force, name, transport>>
loop    == <<todo, cur>>
found   == <<wwn, devs, dm>>
control == <<tries, cx, hung>>
history == <<dmGone, away, freed>>
call    == <<pc, res, request, found, loop, control, skipped>>
vars    == <<host, call, history>>

Init == /\ HostInit
        /\ pc = [c \in Caller |-> "idle"]
        /\ res = [c \in Caller |-> "none"]
        /\ force = [c \in Caller |-> FALSE]
        /\ name = [c \in Caller |-> None]
        /\ transport \in {"scsi", "nvme"}
        /\ wwn = [c \in Caller |-> FALSE]
        /\ devs = [c \in Caller |-> {}]
        /\ todo = [c \in Caller |-> {}]
        /\ cur = [c \in Caller |-> None]
        /\ dm = [c \in Caller |-> None]
        /\ tries = [c \in Caller |-> 0]
        /\ cx = [c \in Caller |-> "live"]
        /\ hung = [c \in Caller |-> FALSE]
        /\ dmGone = [c \in Caller |-> FALSE]
        /\ away = [c \in Caller |-> {}]
        /\ freed = [c \in Caller |-> {}]
        /\ skipped = [c \in Caller |-> {}]

Go(c, to)      == pc' = [pc EXCEPT ![c] = to] /\ UNCHANGED res
Return(c, out) == /\ pc' = [pc EXCEPT ![c] = "idle"]
                  /\ res' = [res EXCEPT ![c] = out]

Command  == {"wwn", "list", "wwid", "flush", "unwwid", "delpath", "powerpath", "ppflush"}
Flushing == {"wwid", "flush", "flushed", "failed", "unwwid"}
Deleting == {"delete", "write", "delpath", "powerpath", "ppflush"}

-------------------------------------------------------------------------------
(* The calls.                                                              *)

Begin(c, at, n, f, ds, w) ==
  /\ pc[c] = "idle"
  /\ Go(c, at)
  /\ name' = [name EXCEPT ![c] = n]
  /\ force' = [force EXCEPT ![c] = f]
  /\ devs' = [devs EXCEPT ![c] = ds]
  /\ todo' = [todo EXCEPT ![c] = ds]
  /\ wwn' = [wwn EXCEPT ![c] = w]
  /\ dm' = [dm EXCEPT ![c] = None]
  /\ cx' = [cx EXCEPT ![c] = "live"]
  /\ tries' = [tries EXCEPT ![c] = 0]
  /\ skipped' = [skipped EXCEPT ![c] = {}]
  /\ UNCHANGED <<host, transport, cur, hung>>

\* disconnectDevicesByDeviceName, disconnectNVMEDevicesByDeviceName
Disconnect(c, n) == Begin(c, "exist", n, FALSE, {}, FALSE)

\* cleanDevices as the connectors' cleanConnection calls it: with devices they
\* resolved earlier, and the wwn only for RDM and NVMe.
Clean(c, ds, f, w) == Begin(c, "parent", None, f, ds, w)

-------------------------------------------------------------------------------
(* disconnectDevicesByDeviceName: from a name to the volume's devices.      *)

Exist(c) ==
  /\ pc[c] = "exist"
  /\ \/ /\ name[c] \notin attached \cup {map}
        /\ Return(c, "ok")
        /\ UNCHANGED todo
     \/ /\ name[c] \in attached
        /\ Go(c, "wwn")
        /\ todo' = [todo EXCEPT ![c] = {name[c]}]
     \/ /\ name[c] = map
        /\ Go(c, "children")
        /\ UNCHANGED todo
  /\ UNCHANGED <<host, request, found, cur, control, skipped>>

\* getDMWWN, GetDMChildren: a glob of <dm>/slaves, empty when dm is gone.  A glob
\* fails on a malformed pattern only, so that multipathd is never asked instead.
Children(c) ==
  /\ pc[c] = "children"
  /\ Go(c, "wwn")
  /\ todo' = [todo EXCEPT ![c] = IF map = name[c] THEN members ELSE {}]
  /\ UNCHANGED <<host, request, found, cur, control, skipped>>

\* GetDeviceWWN: the first device that answers, in its wwid file or to scsi_id, if one
\* does; no device is no error.
ResolveWWN(c) ==
  /\ pc[c] = "wwn" /\ ~hung[c]
  /\ \/ /\ todo[c] = {} \/ todo[c] \cap attached # {}
        /\ wwn' = [wwn EXCEPT ![c] = todo[c] # {}]
        /\ Go(c, "list")
     \/ /\ todo[c] # {}
        /\ Return(c, "err")
        /\ UNCHANGED wwn
  /\ UNCHANGED <<host, request, devs, dm, loop, control, skipped>>

\* What GetDevicesByWWN scans: /sys/block/sd*, where no NVMe device is.
Scanned == IF transport = "scsi" THEN attached ELSE {}

\* GetDevicesByWWN: a device that does not answer is left out.
List(c) ==
  /\ pc[c] = "list" /\ ~hung[c]
  /\ Go(c, "parent")
  /\ \E ds \in SUBSET (IF wwn[c] THEN Scanned ELSE {}) :
        /\ devs' = [devs EXCEPT ![c] = ds]
        /\ todo' = [todo EXCEPT ![c] = ds]
  /\ UNCHANGED <<host, request, wwn, dm, cur, control, skipped>>

-------------------------------------------------------------------------------
(* cleanDevices: the map.                                                  *)

Holder(p) == IF p \in members THEN map ELSE None

\* GetDMDeviceByChildren, device by device.  Two different holders are an
\* error, and any error of it reads "multipath device not found".
Parent(c, p) ==
  /\ pc[c] = "parent"
  /\ p \in todo[c]
  /\ \/ /\ Holder(p) \in {None, dm[c]} \/ dm[c] = None
        /\ dm' = [dm EXCEPT ![c] = IF Holder(p) = None THEN @ ELSE Holder(p)]
        /\ todo' = [todo EXCEPT ![c] = @ \ {p}]
        /\ UNCHANGED <<pc, res>>
     \/ /\ Holder(p) \notin {None, dm[c]} /\ dm[c] # None
        /\ dm' = [dm EXCEPT ![c] = None]
        /\ todo' = [todo EXCEPT ![c] = devs[c]]
        /\ Go(c, "delete")
  /\ UNCHANGED <<host, request, wwn, devs, cur, control, skipped>>

\* Mutant of the next definition: the search ends with the first device.
ParentOfFirst(c) ==
  /\ pc[c] = "parent"
  /\ Go(c, IF dm[c] = None THEN "delete" ELSE IF wwn[c] THEN "flush" ELSE "wwid")
  /\ todo' = [todo EXCEPT ![c] = devs[c]]
  /\ UNCHANGED <<host, request, found, cur, control, skipped>>

ParentDone(c) ==
  /\ pc[c] = "parent"
  /\ todo[c] = {}
  /\ Go(c, IF dm[c] = None THEN "delete" ELSE IF wwn[c] THEN "flush" ELSE "wwid")
  /\ todo' = [todo EXCEPT ![c] = devs[c]]
  /\ UNCHANGED <<host, request, found, cur, control, skipped>>

\* GetDMWWID asks multipathd; its error is dropped.
ReadWWID(c) ==
  /\ pc[c] = "wwid" /\ ~hung[c]
  /\ \E ok \in BOOLEAN :
        /\ ok => multipathd = "up" /\ map = dm[c] /\ cx[c] = "live"
        /\ wwn' = [wwn EXCEPT ![c] = ok]
  /\ Go(c, "flush")
  /\ UNCHANGED <<host, request, devs, dm, loop, control, skipped>>

\* Mutant of the next definition: i <= multipathFlushRetries.
OneRetryMore(c) == tries[c] <= FlushRetries

\* The loop of cleanMultipathDevice: i < multipathFlushRetries.
RetriesLeft(c) == tries[c] < FlushRetries

\* One multipath -f.  It may fail for any reason, and remove the map and fail.
Flush(c) ==
  /\ pc[c] = "flush" /\ ~hung[c]
  /\ RetriesLeft(c)
  /\ tries' = [tries EXCEPT ![c] = @ + 1]
  /\ \/ /\ map = dm[c] /\ ~inUse /\ cx[c] = "live"
        /\ RemoveMap
        /\ Go(c, "flushed") \/ Go(c, "failed")
     \/ /\ Go(c, "failed")
        /\ UNCHANGED host
  /\ UNCHANGED <<request, found, loop, cx, hung, skipped>>

\* Mutant of the next definition: the error of multipath -f is dropped.
CheckNothing(c) ==
  /\ pc[c] \in {"flushed", "failed"}
  /\ Go(c, "unwwid")
  /\ UNCHANGED <<host, request, found, loop, control, skipped>>

\* retryFlushMultipathDevice: gone is success, whatever multipath -f said, and
\* so is its success, gone or not.
CheckFlush(c) ==
  /\ pc[c] \in {"flushed", "failed"}
  /\ Go(c, IF pc[c] = "flushed" \/ map # dm[c] THEN "unwwid" ELSE "flush")
  /\ UNCHANGED <<host, request, found, loop, control, skipped>>

\* The flush timeout is cleanMultipathDevice's own: it ends with it.
LeaveFlush(c) == cx' = [cx EXCEPT ![c] = IF @ = "flush" THEN "live" ELSE @]

\* Mutant of the next definition: cleanMultipathDevice returns nil at its end.
GiveUpFlushQuietly(c) ==
  /\ pc[c] = "flush" /\ ~hung[c]
  /\ ~RetriesLeft(c)
  /\ Go(c, "delete")
  /\ LeaveFlush(c)
  /\ UNCHANGED <<host, request, found, loop, tries, hung, skipped>>

GiveUpFlush(c) ==
  /\ pc[c] = "flush" /\ ~hung[c]
  /\ ~RetriesLeft(c)
  /\ IF force[c] THEN Go(c, "delete") ELSE Return(c, "err")
  /\ LeaveFlush(c)
  /\ UNCHANGED <<host, request, found, loop, tries, hung, skipped>>

\* RemoveDeviceFromWWIDSFile; its error is logged.
RemoveWWID(c) ==
  /\ pc[c] = "unwwid" /\ ~hung[c]
  /\ \E ok \in BOOLEAN : /\ ok => cx[c] = "live"
                         /\ wwids' = (wwids /\ ~(ok /\ wwn[c]))
  /\ Go(c, "delete")
  /\ LeaveFlush(c)
  /\ UNCHANGED <<attached, blocked, map, members, inUse, multipathd>>
  /\ UNCHANGED <<request, found, loop, tries, hung, skipped>>

-------------------------------------------------------------------------------
(* cleanDevices: the loop over the devices.                                *)

\* Mutant of the next definition: an error ends the loop of a forced call.
AfterDeleteBreak(c, ok) ==
  IF ok THEN Go(c, IF dm[c] # None THEN "delpath" ELSE "delete")
  ELSE IF force[c] THEN Go(c, "powerpath") ELSE Return(c, "err")

\* What follows a delete: its error ends an unforced call, otherwise the path
\* is also taken from multipathd if there was a map.
AfterDelete(c, ok) ==
  IF ok \/ force[c] THEN Go(c, IF dm[c] # None THEN "delpath" ELSE "delete")
                    ELSE Return(c, "err")

GiveUp(c) == skipped' = [skipped EXCEPT ![c] = @ \cup {cur'[c]}]

\* DeleteSCSIDeviceByName reads device/state: gone and blocked are errors.
ReadState(c, p) ==
  /\ pc[c] = "delete"
  /\ p \in todo[c]
  /\ todo' = [todo EXCEPT ![c] = @ \ {p}]
  /\ cur' = [cur EXCEPT ![c] = p]
  /\ \/ /\ p \in attached \ blocked
        /\ Go(c, "write")
        /\ UNCHANGED skipped
     \/ /\ p \notin attached \ blocked
        /\ AfterDelete(c, FALSE)
        /\ GiveUp(c)
  /\ UNCHANGED <<host, request, found, control>>

\* Opens device/delete and writes "1".  A failed open or write is ignored, a
\* failed close is an error.
WriteDelete(c) ==
  /\ pc[c] = "write"
  /\ \/ /\ cur[c] \in attached
        /\ Detach(cur[c])
        /\ UNCHANGED skipped
     \/ /\ UNCHANGED <<host, cur>>
        /\ GiveUp(c)
  /\ \E closed \in BOOLEAN : AfterDelete(c, closed)
  /\ UNCHANGED <<request, found, loop, control>>

\* multipathd del path; its error is ignored.
DelPath(c) ==
  /\ pc[c] = "delpath" /\ ~hung[c]
  /\ \/ /\ multipathd = "up" /\ cx[c] = "live"
        /\ members' = members \ {cur[c]}
     \/ UNCHANGED members
  /\ Go(c, "delete")
  /\ UNCHANGED <<attached, blocked, map, inUse, wwids, multipathd>>
  /\ UNCHANGED <<request, found, loop, control, skipped>>

\* The loop is over; cleanNVMeDevices returns.
LoopDone(c) ==
  /\ pc[c] = "delete"
  /\ todo[c] = {}
  /\ IF transport = "scsi" THEN Go(c, "powerpath") ELSE Return(c, "ok")
  /\ UNCHANGED <<host, request, found, loop, control, skipped>>

\* powerpath.IsDaemonRunning: a powermt that fails is not running, unless the
\* context is done.
CheckPowerPath(c) ==
  /\ pc[c] = "powerpath" /\ ~hung[c]
  /\ \/ /\ PowerPathRunning \/ cx[c] = "done"
        /\ Go(c, "ppflush")
     \/ cx[c] # "done" /\ Return(c, "ok")
  /\ UNCHANGED <<host, request, found, loop, control, skipped>>

FlushPowerPath(c) ==
  /\ pc[c] = "ppflush" /\ ~hung[c]
  /\ \/ PowerPathRunning /\ cx[c] = "live" /\ Return(c, "ok")
     \/ Return(c, "err")
  /\ UNCHANGED <<host, request, found, loop, control, skipped>>

-------------------------------------------------------------------------------
(* Contexts.  Only a context ends a command that hangs.                    *)

Hang(c) == /\ pc[c] \in Command /\ ~hung[c] /\ cx[c] = "live"
           /\ pc[c] = "flush" => RetriesLeft(c)
           /\ hung' = [hung EXCEPT ![c] = TRUE]
           /\ UNCHANGED <<host, pc, res, request, found, loop, tries, cx, skipped>>

\* Mutant of the next definition: an attempt that timed out does not count.
AttemptUncounted(c) ==
  /\ pc[c] = "flush" /\ hung[c]
  /\ hung' = [hung EXCEPT ![c] = FALSE]
  /\ Go(c, "failed")
  /\ UNCHANGED <<host, request, found, loop, tries, cx, skipped>>

\* multipathFlushRetryTimeout: the attempt fails, the next one may do better.
AttemptTimeout(c) ==
  /\ pc[c] = "flush" /\ hung[c]
  /\ hung' = [hung EXCEPT ![c] = FALSE]
  /\ tries' = [tries EXCEPT ![c] = @ + 1]
  /\ Go(c, "failed")
  /\ UNCHANGED <<host, request, found, loop, cx, skipped>>

\* Mutant of the next definition: commands run without the caller's context.
KilledByFlushTimeout(c) ==
  /\ hung[c] /\ cx[c] = "flush"
  /\ hung' = [hung EXCEPT ![c] = FALSE]
  /\ UNCHANGED <<host, pc, res, request, found, loop, tries, cx, skipped>>

\* A context that is done kills the command; the step goes on with its error.
Killed(c) == /\ hung[c] /\ cx[c] # "live"
             /\ hung' = [hung EXCEPT ![c] = FALSE]
             /\ UNCHANGED <<host, pc, res, request, found, loop, tries, cx, skipped>>

Expire(c, to) == /\ cx' = [cx EXCEPT ![c] = to]
                 /\ UNCHANGED <<host, pc, res, request, found, loop, tries, hung, skipped>>

\* multipathFlushTimeout
FlushTimeout(c) == pc[c] \in Flushing /\ cx[c] = "live" /\ Expire(c, "flush")

\* The caller cancels, or its deadline passes.
CtxDone(c) == pc[c] # "idle" /\ cx[c] # "done" /\ Expire(c, "done")

-------------------------------------------------------------------------------
\* The statements of one call that do not wait for anything outside it.
Step(c) == \/ Exist(c) \/ Children(c) \/ ResolveWWN(c) \/ List(c)
           \/ \E p \in Path : Parent(c, p) \/ ReadState(c, p)
           \/ ParentDone(c) \/ ReadWWID(c) \/ Flush(c) \/ CheckFlush(c)
           \/ GiveUpFlush(c) \/ RemoveWWID(c) \/ WriteDelete(c) \/ DelPath(c)
           \/ LoopDone(c) \/ CheckPowerPath(c) \/ FlushPowerPath(c)
           \/ AttemptTimeout(c) \/ Killed(c)

Start(c) == \/ \E n \in Path \cup Map : Disconnect(c, n)
            \/ \E ds \in SUBSET Path, f, w \in BOOLEAN : Clean(c, ds, f, w)

Resolving == {"exist", "children", "wwn", "list"}

\* What call c remembers of x: what was out of `there' since it had its devices.
Since(c, x, there) == IF pc[c] = "idle" \/ pc'[c] \in {"idle"} \cup Resolving THEN {}
                      ELSE x[c] \cup (Path \ there)

\* The histories of a call begin when it has resolved its devices and its map
\* and end with it.
Remember ==
  /\ dmGone' = [c \in Caller |-> /\ pc'[c] \in Flushing \cup Deleting
                                 /\ \/ map' # dm'[c]
                                    \/ dmGone[c] /\ pc[c] # "parent"]
  /\ away' = [c \in Caller |-> Since(c, away, attached')]
  /\ freed' = [c \in Caller |-> Since(c, freed, members')]

Next == /\ \/ HostNext /\ UNCHANGED call
           \/ \E c \in Caller : \/ Start(c) \/ Step(c)
                                \/ Hang(c) \/ FlushTimeout(c) \/ CtxDone(c)
        /\ Remember

Spec == Init /\ [][Next]_vars

\* A call runs on, the flush timeout is always set, and the caller's context
\* has a deadline, as IsDaemonRunning and FlushDevice of powerpath.go ask.
Fairness == \A c \in Caller :
              /\ WF_vars(Step(c) /\ Remember)
              /\ WF_vars(hung[c] /\ FlushTimeout(c) /\ Remember)
              /\ WF_vars(hung[c] /\ CtxDone(c) /\ Remember)

FairSpec == Spec /\ Fairness

-------------------------------------------------------------------------------
TypeOK == /\ HostTypeOK
          /\ pc \in [Caller -> {"idle", "parent"} \cup Resolving \cup Flushing \cup Deleting]
          /\ res \in [Caller -> {"none", "ok", "err"}]
          /\ force \in [Caller -> BOOLEAN]
          /\ name \in [Caller -> Path \cup Map \cup {None}]
          /\ transport \in {"scsi", "nvme"}
          /\ wwn \in [Caller -> BOOLEAN]
          /\ devs \in [Caller -> SUBSET Path]
          /\ todo \in [Caller -> SUBSET Path]
          /\ cur \in [Caller -> Path \cup {None}]
          /\ dm \in [Caller -> Map \cup {None}]
          /\ tries \in [Caller -> 0..FlushRetries]
          /\ cx \in [Caller -> {"live", "flush", "done"}]
          /\ hung \in [Caller -> BOOLEAN]
          /\ dmGone \in [Caller -> BOOLEAN]
          /\ away \in [Caller -> SUBSET Path]
          /\ freed \in [Caller -> SUBSET Path]
          /\ skipped \in [Caller -> SUBSET Path]

\* A call that is not forced deletes devices only after the map it found over
\* them was gone (cleanDevices and cleanMultipathDevice: flush, check, then
\* delete), however multipathd, users of the map and other calls interfere.
FlushedFirst ==
  \A c \in Caller :
    ~force[c] /\ dm[c] # None /\ pc[c] \in Deleting => dmGone[c]

\* Without multipathd to make new maps, a call that is not forced never deletes
\* a device from under a map (cleanDevices).
NoDeleteUnderMap ==
  multipathd = "down" =>
    \A c \in Caller : pc[c] = "write" /\ ~force[c] => cur[c] \notin members

\* A call that is not forced deletes no device that was in a map at every moment of
\* the call: it has seen each one free, or has seen its map go, even if multipathd
\* puts the device into another map meanwhile (cleanDevices: the search device by
\* device, its error on two holders, the flush and its check).
FreedFirst ==
  \A c \in Caller : pc[c] = "write" /\ ~force[c] => cur[c] \in freed[c]

\* No device falls out of the loop: when it is over, each device of the call
\* was absent at some time since the call resolved it, or the loop gave it up
\* on a failed open or, forced, on an error (cleanDevices, cleanNVMeDevices).
Accounted ==
  \A c \in Caller :
    pc[c] \in {"powerpath", "ppflush"} \/ (pc[c] = "delete" /\ todo[c] = {})
      => devs[c] \subseteq away[c] \cup skipped[c]

\* The steps a call has left, at most, without and with the context's: each device
\* takes a look for its map and three steps of the loop, each attempt two.
Place(c) ==
  LET left    == Cardinality(todo[c])
      retries == 2 * (FlushRetries - tries[c])
      paths   == Cardinality(Path)
  IN  CASE pc[c] = "idle"      -> 0
        [] pc[c] = "ppflush"   -> 1
        [] pc[c] = "powerpath" -> 2
        [] pc[c] = "delete"    -> 3 + 3 * left
        [] pc[c] = "delpath"   -> 4 + 3 * left
        [] pc[c] = "write"     -> 5 + 3 * left
        [] pc[c] = "unwwid"    -> 4 + 3 * paths
        [] pc[c] = "flush"     -> 5 + 3 * paths + retries
        [] pc[c] \in {"flushed", "failed"} -> 6 + 3 * paths + retries
        [] pc[c] = "wwid"      -> 6 + 3 * paths + 2 * FlushRetries
        [] pc[c] = "parent"    -> 7 + 3 * paths + 2 * FlushRetries + left
        [] pc[c] = "list"      -> 8 + 4 * paths + 2 * FlushRetries
        [] pc[c] = "wwn"       -> 9 + 4 * paths + 2 * FlushRetries
        [] pc[c] = "children"  -> 10 + 4 * paths + 2 * FlushRetries
        [] pc[c] = "exist"     -> 11 + 4 * paths + 2 * FlushRetries

Waits(c) == CASE cx[c] = "live"  -> IF hung[c] THEN 3 ELSE 4
              [] cx[c] = "flush" -> IF hung[c] THEN 2 ELSE 1
              [] cx[c] = "done"  -> IF hung[c] THEN 1 ELSE 0

Work(c) == 5 * Place(c) + Waits(c)

MostWork == 5 * (11 + 4 * Cardinality(Path) + 2 * FlushRetries) + 4

Local(c) == <<pc[c], res[c], force[c], name[c], wwn[c], devs[c], todo[c], cur[c], dm[c],
              tries[c], cx[c], hung[c], skipped[c]>>

\* A call makes MostWork steps at most, its hangs and timeouts included: each takes
\* from what it has left, whatever the host and other calls do meanwhile (the loops
\* of cleanDevices and cleanMultipathDevice, the retries across timeouts).
CallBounded ==
  [][\A c \in Caller : Local(c)' # Local(c) =>
        /\ Work(c)' >= 0
        /\ IF pc[c] = "idle" THEN Work(c)' <= MostWork ELSE Work(c)' < Work(c)]_vars

\* A call returns, whatever commands hang (cleanMultipathDevice,
\* retryFlushMultipathDevice: their timeouts; the others need the caller's).
CallReturns == \A c \in Caller : pc[c] # "idle" ~> pc[c] = "idle"
================================================================================
