------------------------------ MODULE CleanByWWN ------------------------------
(***************************************************************************)
(* base.go: disconnectDevicesByWWN, the clean-up of FC volumes.  With      *)
(* multipathd it takes the volume's paths and the name of its map from     *)
(* "multipathd show paths", flushes the map by that name, asks dmsetup     *)
(* whether it is gone and deletes the paths.  Without, it deletes what the *)
(* WWN scan finds.                                                         *)
(*                                                                         *)
(* A volume's map has one alias (mpatha) whatever its dm-N, so the name is *)
(* "map", or "orphan" for a path in no map, or "none" without a path.      *)
(***************************************************************************)
EXTENDS HostDevices

CONSTANTS Caller,      \* goroutines that disconnect the volume
          FlushRetries \* bc.multipathFlushRetries

ASSUME WWNAssumption == FlushRetries \in Nat

VARIABLES pc, res,   \* where each call is, how its last call ended
          mpathName, \* the name found
          sdDisks,   \* cleanVolumeReq.sdDisks, or what the scan found
          todo, cur, \* devices the current loop has yet to do; the one it is at
          parent,    \* GetDMDeviceByChildren's match so far
          tries,     \* flush attempts made
          ctx,       \* "live", "flush" (the flush timeout ran out) or "done"
          mapGone,   \* history: no map at some time since the flush began
          away,      \* history: devices absent at some time since they were found
          skipped,   \* history: deletes that did nothing and were ignored
          scanned    \* history: what the scan of GetDevicesByWWN found

req     == <<mpathName, sdDisks, parent>>
loop    == <<todo, cur>>
call    == <<pc, res, req, loop, tries, ctx, skipped, scanned>>
history == <<mapGone, away>>
vars    == <<host, call, history>>

Init == /\ HostInit
        /\ pc = [c \in Caller |-> "idle"]
        /\ res = [c \in Caller |-> "none"]
        /\ mpathName = [c \in Caller |-> "none"]
        /\ sdDisks = [c \in Caller |-> {}]
        /\ todo = [c \in Caller |-> {}]
        /\ cur = [c \in Caller |-> None]
        /\ parent = [c \in Caller |-> None]
        /\ tries = [c \in Caller |-> 0]
        /\ ctx = [c \in Caller |-> "live"]
        /\ mapGone = [c \in Caller |-> FALSE]
        /\ away = [c \in Caller |-> {}]
        /\ skipped = [c \in Caller |-> {}]
        /\ scanned = [c \in Caller |-> {}]

Go(c, to)      == pc' = [pc EXCEPT ![c] = to] /\ UNCHANGED res
Return(c, out) == /\ pc' = [pc EXCEPT ![c] = "idle"]
                  /\ res' = [res EXCEPT ![c] = out]

\* disconnectDevicesByWWN
Disconnect(c) ==
  /\ pc[c] = "idle"
  /\ Go(c, "daemon")
  /\ mpathName' = [mpathName EXCEPT ![c] = "none"]
  /\ sdDisks' = [sdDisks EXCEPT ![c] = {}]
  /\ parent' = [parent EXCEPT ![c] = None]
  /\ tries' = [tries EXCEPT ![c] = 0]
  /\ ctx' = [ctx EXCEPT ![c] = "live"]
  /\ skipped' = [skipped EXCEPT ![c] = {}]
  /\ scanned' = [scanned EXCEPT ![c] = {}]
  /\ UNCHANGED <<host, loop>>

\* multipath.IsDaemonRunning: a multipathd that fails to answer is not running,
\* unless the context is done.
CheckDaemon(c) ==
  /\ pc[c] = "daemon"
  /\ \/ /\ multipathd = "up" \/ ctx[c] = "done"
        /\ Go(c, "show")
     \/ ctx[c] # "done" /\ Go(c, "scan")
  /\ UNCHANGED <<host, req, loop, tries, ctx, skipped, scanned>>

\* Without multipathd: GetDevicesByWWN, which leaves out a disk whose WWN cannot be
\* read, then the delete loop.
Scan(c) ==
  /\ pc[c] = "scan"
  /\ Go(c, "delete")
  /\ \E ds \in SUBSET attached : /\ sdDisks' = [sdDisks EXCEPT ![c] = ds]
                                 /\ todo' = [todo EXCEPT ![c] = ds]
                                 /\ scanned' = [scanned EXCEPT ![c] = ds]
  /\ UNCHANGED <<host, mpathName, parent, cur, tries, ctx, skipped>>

-------------------------------------------------------------------------------
(* identifyDevicesForWWN                                                    *)

NameOf(p) == IF p \in members THEN "map" ELSE "orphan"

\* GetMultipathNameAndPaths: the paths multipathd lists, with the name of the last
\* one.  It may not have seen some, or answer in part or with "timeout", which
\* is no error and no path.
ShowPaths(c) ==
  /\ pc[c] = "show"
  /\ \/ /\ multipathd = "up" /\ ctx[c] = "live"
        /\ \E paths \in SUBSET attached :
              /\ sdDisks' = [sdDisks EXCEPT ![c] = paths]
              /\ todo' = [todo EXCEPT ![c] = paths]
              /\ IF paths = {} THEN UNCHANGED mpathName
                 ELSE \E last \in paths : mpathName' = [mpathName EXCEPT ![c] = NameOf(last)]
        /\ Go(c, "parent")
     \/ /\ Return(c, "err")
        /\ UNCHANGED <<mpathName, sdDisks, todo>>
  /\ UNCHANGED <<host, parent, cur, tries, ctx, skipped, scanned>>

Holder(p) == IF p \in members THEN map ELSE None

\* GetDMDeviceByChildren.  Its result is only logged, but two different holders
\* end the call.
Parent(c, p) ==
  /\ pc[c] = "parent"
  /\ p \in todo[c]
  /\ \/ /\ Holder(p) \in {None, parent[c]} \/ parent[c] = None
        /\ parent' = [parent EXCEPT ![c] = IF Holder(p) = None THEN @ ELSE Holder(p)]
        /\ todo' = [todo EXCEPT ![c] = @ \ {p}]
        /\ UNCHANGED <<pc, res>>
     \/ /\ Holder(p) \notin {None, parent[c]} /\ parent[c] # None
        /\ Return(c, "err")
        /\ UNCHANGED <<parent, todo>>
  /\ UNCHANGED <<host, mpathName, sdDisks, cur, tries, ctx, skipped, scanned>>

ParentDone(c) ==
  /\ pc[c] = "parent"
  /\ todo[c] = {}
  /\ todo' = [todo EXCEPT ![c] = sdDisks[c]]
  /\ Go(c, IF sdDisks[c] = {} THEN "rescan"
           ELSE IF mpathName[c] = "map" THEN "flush" ELSE "delete")
  /\ UNCHANGED <<host, req, cur, tries, ctx, skipped, scanned>>

\* No path listed: GetDevicesByWWN.  What it finds goes into a variable of the
\* inner block, so the request keeps its empty sdDisks; finding nothing is
\* an error, which errors.Is never takes for noDevicesFound.
Rescan(c) ==
  /\ pc[c] = "rescan"
  /\ \E ds \in SUBSET attached :
        /\ scanned' = [scanned EXCEPT ![c] = ds]
        /\ IF ds = {} THEN Return(c, "err") ELSE Go(c, "delete")
  /\ UNCHANGED <<host, req, loop, tries, ctx, skipped>>

-------------------------------------------------------------------------------
(* cleanDevicesByMpathInfo, never forced                                    *)

\* Mutant of the next definition: i <= multipathFlushRetries.
OneRetryMore(c) == tries[c] <= FlushRetries

RetriesLeft(c) == tries[c] < FlushRetries

\* cleanMultipathDeviceByName: one multipath -f <name>, which may also report
\* success and leave the map (a deferred removal), hence Verify.
Flush(c) ==
  /\ pc[c] = "flush"
  /\ RetriesLeft(c)
  /\ tries' = [tries EXCEPT ![c] = @ + 1]
  /\ \/ /\ map # None /\ ~inUse /\ ctx[c] = "live"
        /\ RemoveMap
        /\ Go(c, "verify") \/ UNCHANGED <<pc, res>>
     \/ /\ ctx[c] = "live"
        /\ Go(c, "verify")
        /\ UNCHANGED host
     \/ UNCHANGED <<host, pc, res>>
  /\ UNCHANGED <<req, loop, ctx, skipped, scanned>>

GiveUpFlush(c) ==
  /\ pc[c] = "flush"
  /\ ~RetriesLeft(c)
  /\ Return(c, "err")
  /\ UNCHANGED <<host, req, loop, tries, ctx, skipped, scanned>>

\* Mutant of the next definition: any answer of dmsetup will do.
VerifyNothing(c) ==
  /\ pc[c] = "verify"
  /\ Go(c, "delete")
  /\ UNCHANGED <<host, req, loop, tries, ctx, skipped, scanned>>

\* GetMpathMinorByMpathName: a map of that name, or no answer, is an error.
\* The flush timeout is over by now; only the caller's context matters.
Verify(c) ==
  /\ pc[c] = "verify"
  /\ \/ map = None /\ ctx[c] # "done" /\ Go(c, "delete")
     \/ Return(c, "err")
  /\ UNCHANGED <<host, req, loop, tries, ctx, skipped, scanned>>

\* DeleteSCSIDeviceByName reads device/state.
ReadState(c, p) ==
  /\ pc[c] = "delete"
  /\ p \in todo[c]
  /\ todo' = [todo EXCEPT ![c] = @ \ {p}]
  /\ cur' = [cur EXCEPT ![c] = p]
  /\ IF p \in attached \ blocked THEN Go(c, "write") ELSE Return(c, "err")
  /\ UNCHANGED <<host, req, tries, ctx, skipped, scanned>>

\* Mutant of the next definition: a delete that fails is not an error.
WriteNothing(c) ==
  /\ pc[c] = "write"
  /\ Go(c, "delete")
  /\ UNCHANGED <<host, req, loop, tries, ctx, skipped, scanned>>

\* ... and writes "1" to device/delete; a failed open or write is ignored,
\* a failed close is an error.
WriteDelete(c) ==
  /\ pc[c] = "write"
  /\ \/ /\ cur[c] \in attached
        /\ Detach(cur[c])
        /\ UNCHANGED skipped
     \/ /\ skipped' = [skipped EXCEPT ![c] = @ \cup {cur[c]}]
        /\ UNCHANGED host
  /\ Go(c, "delete") \/ Return(c, "err")
  /\ UNCHANGED <<req, loop, tries, ctx, scanned>>

LoopDone(c) ==
  /\ pc[c] = "delete"
  /\ todo[c] = {}
  /\ Return(c, "ok")
  /\ UNCHANGED <<host, req, loop, tries, ctx, skipped, scanned>>

Step(c) == \/ CheckDaemon(c) \/ Scan(c) \/ ShowPaths(c) \/ ParentDone(c) \/ Rescan(c)
           \/ \E p \in Path : Parent(c, p) \/ ReadState(c, p)
           \/ Flush(c) \/ GiveUpFlush(c) \/ Verify(c) \/ WriteDelete(c) \/ LoopDone(c)

\* The flush timeout or the caller's context ends.
Expire(c) == /\ \/ pc[c] = "flush" /\ ctx[c] = "live" /\ ctx' = [ctx EXCEPT ![c] = "flush"]
                \/ pc[c] # "idle" /\ ctx[c] # "done" /\ ctx' = [ctx EXCEPT ![c] = "done"]
             /\ UNCHANGED <<host, pc, res, req, loop, tries, skipped, scanned>>

Finding == {"idle", "daemon", "show", "scan"}

Remember ==
  /\ mapGone' = [c \in Caller |-> /\ pc'[c] \in {"flush", "verify", "delete", "write"}
                                  /\ mapGone[c] \/ map' = None]
  /\ away' = [c \in Caller |-> IF pc[c] \in Finding THEN {}
                               ELSE away[c] \cup (Path \ attached')]

Next == /\ \/ HostNext /\ UNCHANGED call
           \/ \E c \in Caller : Disconnect(c) \/ Step(c) \/ Expire(c)
        /\ Remember

Spec == Init /\ [][Next]_vars

-------------------------------------------------------------------------------
TypeOK == /\ HostTypeOK
          /\ pc \in [Caller -> Finding \cup {"parent", "rescan", "flush", "verify",
                                             "delete", "write"}]
          /\ res \in [Caller -> {"none", "ok", "err"}]
          /\ mpathName \in [Caller -> {"none", "map", "orphan"}]
          /\ sdDisks \in [Caller -> SUBSET Path]
          /\ todo \in [Caller -> SUBSET Path]
          /\ cur \in [Caller -> Path \cup {None}]
          /\ parent \in [Caller -> Map \cup {None}]
          /\ tries \in [Caller -> 0..FlushRetries]
          /\ ctx \in [Caller -> {"live", "flush", "done"}]
          /\ mapGone \in [Caller -> BOOLEAN]
          /\ away \in [Caller -> SUBSET Path]
          /\ skipped \in [Caller -> SUBSET Path]
          /\ scanned \in [Caller -> SUBSET Path]

\* A call that has the name of a map deletes paths only after it saw the map
\* gone (cleanDevicesByMpathInfo: flush, dmsetup, delete).
VerifiedFirst ==
  \A c \in Caller :
    mpathName[c] = "map" /\ pc[c] \in {"delete", "write"} => mapGone[c]

\* No device of the request falls out of the loop (disconnectDevicesByWWN,
\* cleanDevicesByMpathInfo): a call that succeeds has seen each one gone, or has
\* ignored its failed open.
Accounted ==
  \A c \in Caller :
    pc[c] = "delete" => sdDisks[c] \subseteq todo[c] \cup away[c] \cup skipped[c]

\* "we could not retrieve sdDisks, check if we have sdDisks for the wwn"
\* (base.go identifyDevicesForWWN): what the check finds is cleaned too.
ScannedCleaned ==
  \A c \in Caller :
    pc[c] = "delete" /\ todo[c] = {} => scanned[c] \subseteq away[c] \cup skipped[c]

Local(c) == <<pc[c], res[c], mpathName[c], sdDisks[c], todo[c], cur[c], parent[c],
              tries[c], ctx[c], skipped[c], scanned[c]>>

Paths == Cardinality(Path)

\* Steps from each place to the return.
Place(c) ==
  LET left == Cardinality(todo[c])
  IN  CASE pc[c] = "idle"   -> 0
        [] pc[c] = "delete" -> 1 + 2 * left
        [] pc[c] = "write"  -> 2 + 2 * left
        [] pc[c] \in {"verify", "rescan"} -> 2 + 2 * Paths
        [] pc[c] = "flush"  -> 3 + 2 * Paths + (FlushRetries - tries[c])
        [] pc[c] = "parent" -> 4 + 2 * Paths + FlushRetries + left
        [] pc[c] \in {"show", "scan"} -> 5 + 3 * Paths + FlushRetries
        [] pc[c] = "daemon" -> 6 + 3 * Paths + FlushRetries

\* Timeouts that can still run out.
Waits(c) == CASE ctx[c] = "live" -> 2 [] ctx[c] = "flush" -> 1 [] ctx[c] = "done" -> 0

Work(c) == 3 * Place(c) + Waits(c)

MostWork == 3 * (6 + 3 * Paths + FlushRetries) + 2

\* A call makes MostWork steps at most, its timeouts included: each takes from what it
\* has left, whatever the host and other calls do meanwhile (the loops of
\* cleanDevicesByMpathInfo and cleanMultipathDeviceByName).
CallBounded ==
  [][\A c \in Caller : Local(c)' # Local(c) =>
        /\ Work(c)' >= 0
        /\ IF pc[c] = "idle" THEN Work(c)' <= MostWork ELSE Work(c)' < Work(c)]_vars
================================================================================
