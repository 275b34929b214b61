--------------------------- MODULE HostDevicesProofs ---------------------------
(***************************************************************************)
(* The host stays consistent whatever happens to it, for every number of   *)
(* paths and map names.                                                    *)
(***************************************************************************)
EXTENDS HostDevices, TLAPS

\* A path that goes leaves its map, too.
LEMMA DetachStep == ASSUME HostTypeOK, NEW p, Detach(p) PROVE HostTypeOK'
  BY DEF HostTypeOK, Detach

\* A map that goes leaves no members.
LEMMA RemoveMapStep == ASSUME HostTypeOK, RemoveMap PROVE HostTypeOK'
  BY DEF HostTypeOK, RemoveMap

\* A host that is left alone stays as it is.
LEMMA QuietHost == ASSUME HostTypeOK, UNCHANGED host PROVE HostTypeOK'
  BY DEF HostTypeOK, host

\* A step of the host keeps it consistent: members are attached, and belong to a
\* map.
LEMMA HostStep == ASSUME HostTypeOK, HostNext PROVE HostTypeOK'
<1> USE DEF HostTypeOK, host
<1>1. ASSUME NEW p \in Path, LosePath(p) PROVE HostTypeOK'
  BY <1>1, DetachStep DEF LosePath
<1>2. ASSUME NEW p \in Path, GainPath(p) PROVE HostTypeOK'
  BY <1>2 DEF GainPath
<1>3. ASSUME NEW p \in Path, SetBlocked(p) PROVE HostTypeOK'
  BY <1>3 DEF SetBlocked
<1>4. ASSUME NEW p \in Path, JoinMap(p) PROVE HostTypeOK'
  BY <1>4 DEF JoinMap
<1>5. CASE UseMap
  BY <1>5 DEF UseMap
<1>6. CASE LoseMap
  BY <1>6, RemoveMapStep DEF LoseMap
<1>7. ASSUME NEW n \in Map, NEW seen \in SUBSET attached \ {{}}, Assemble(n, seen)
      PROVE  HostTypeOK'
  BY <1>7, HostAssumption DEF Assemble
<1> QED BY <1>1, <1>2, <1>3, <1>4, <1>5, <1>6, <1>7 DEF HostNext

\* A call may find the host in any of its consistent states.
LEMMA HostBegins == HostInit => HostTypeOK
  BY HostAssumption DEF HostInit, HostTypeOK
================================================================================
