----------------------------- MODULE HostDevices ------------------------------
(***************************************************************************)
(* The host as the cleanup code of base.go sees it: the SCSI disks of one  *)
(* volume, the device-mapper map over them and the wwids file.  None of it *)
(* is gobrick's: the kernel, multipathd and the users of the volume change *)
(* it at any moment, between any two steps of a call.                      *)
(***************************************************************************)
EXTENDS Naturals, FiniteSets

CONSTANTS Path,      \* sd names the volume's paths may have
          Map,       \* dm-N names its multipath map may have
          None       \* no map, no name, no device

ASSUME HostAssumption == /\ None \notin Map \cup Path
                         /\ Map \cap Path = {}
                         /\ IsFiniteSet(Path)

VARIABLES attached,  \* paths with a /sys/block/sdX
          blocked,   \* those whose device/state is "blocked"
          map,       \* the dm that exists; dm uuids are unique, so one at most
          members,   \* the paths with holders/<map>
          inUse,     \* the map is open (mounted): multipath -f refuses it
          wwids,     \* the volume is in /etc/multipath/wwids
          multipathd \* "up" or "down", for good

host == <<attached, blocked, map, members, inUse, wwids, multipathd>>

HostTypeOK == /\ attached \subseteq Path
              /\ blocked \subseteq attached
              /\ map \in Map \cup {None}
              /\ members \subseteq attached
              /\ map = None => members = {} /\ ~inUse
              /\ inUse \in BOOLEAN
              /\ wwids \in BOOLEAN
              /\ multipathd \in {"up", "down"}

\* A call may find the host in any consistent state.
HostInit == /\ attached \in SUBSET Path
            /\ blocked \in SUBSET attached
            /\ map \in Map \cup {None}
            /\ members \in SUBSET (IF map = None THEN {} ELSE attached)
            /\ inUse \in (IF map = None THEN {FALSE} ELSE BOOLEAN)
            /\ wwids \in BOOLEAN
            /\ multipathd \in {"up", "down"}

-------------------------------------------------------------------------------
\* A path disappears: the transport lost it, or "1" was written to its delete.
Detach(p) == /\ attached' = attached \ {p}
             /\ blocked' = blocked \ {p}
             /\ members' = members \ {p}
             /\ UNCHANGED <<map, inUse, wwids, multipathd>>

\* multipath -f removes the map and leaves the paths.
RemoveMap == /\ map' = None
             /\ members' = {}
             /\ inUse' = FALSE
             /\ UNCHANGED <<attached, blocked, wwids, multipathd>>

LosePath(p) == p \in attached /\ Detach(p)

\* A rescan by some other call, or a recovered link, brings a path.
GainPath(p) == /\ p \notin attached
               /\ attached' = attached \cup {p}
               /\ UNCHANGED <<blocked, map, members, inUse, wwids, multipathd>>

SetBlocked(p) == /\ p \in attached
                 /\ blocked' = IF p \in blocked THEN blocked \ {p} ELSE blocked \cup {p}
                 /\ UNCHANGED <<attached, map, members, inUse, wwids, multipathd>>

\* multipathd or an administrator flushes the map.
LoseMap == map # None /\ ~inUse /\ RemoveMap

UseMap == /\ map # None
          /\ inUse' = ~inUse
          /\ UNCHANGED <<attached, blocked, map, members, wwids, multipathd>>

\* multipathd makes a map of the paths it has seen: two of them, or one whose
\* wwid it knows (multipath.go AddWWID says so).
Assemble(m, seen) == /\ multipathd = "up"
                     /\ map = None
                     /\ wwids \/ \E p, q \in seen : p # q
                     /\ map' = m
                     /\ members' = seen
                     /\ wwids' = TRUE
                     /\ UNCHANGED <<attached, blocked, inUse, multipathd>>

JoinMap(p) == /\ multipathd = "up"
              /\ map # None
              /\ p \in attached \ members
              /\ members' = members \cup {p}
              /\ UNCHANGED <<attached, blocked, map, inUse, wwids, multipathd>>

HostNext == \/ \E p \in Path : \/ LosePath(p) \/ GainPath(p)
                               \/ SetBlocked(p) \/ JoinMap(p)
            \/ UseMap \/ LoseMap
            \/ \E m \in Map, seen \in SUBSET attached \ {{}} : Assemble(m, seen)
================================================================================
