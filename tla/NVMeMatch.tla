------------------------------- MODULE NVMeMatch -------------------------------
(***************************************************************************)
(* nvme.go: how discoverDevice and cleanConnection tell the devices of a   *)
(* volume from those of another volume of the same array, by wwnMatches.   *)
(*                                                                         *)
(* The 32 digits of a WWN are cut into the fields that wwnMatches and the  *)
(* formulas for the nguid in its comment tell apart:                       *)
(*     1: 0   2: 1-6   3: 7-9   4: 10-12   5: 13-15                        *)
(*     6: 16-24   7: 25   8: 26-30   9: 31                                 *)
(* Fields 1 and 2 are the OUI.  A field has its own values, so that a token*)
(* is only found where it belongs.  WWNs of other lengths are left out: the*)
(* length is tested with the prefix "naa." still there, so that one of 28  *)
(* to 31 digits passes with it, and has its tokens cut elsewhere.          *)
(***************************************************************************)
EXTENDS Naturals, SequencesExt

CONSTANTS Value,    \* values of a field
          Listings  \* what ListNVMeDeviceAndNamespace answers: sequences of volumes

Vendor == {"PowerStore", "PowerMax", "other"}

Volume == {"own", "foreign"}

VARIABLES vendor,   \* of the array
          wwn,      \* of each volume
          op,       \* "discover" or "clean"
          listing,  \* the volumes of the devices that are still to be looked at
          devices   \* the volumes of the devices taken

vars == <<vendor, wwn, op, listing, devices>>

\* The fields of a WWN: an OUI and any values.
WWN(v) == {<<v, v>> \o x : x \in [1..7 -> Value]}

Tagged(w) == [i \in 1..9 |-> <<i, w[i]>>]

\* nguid: as formatted by the arrays.
Nguid(w) == LET f == Tagged(w) IN
  CASE vendor = "PowerStore" -> <<f[4], f[5], f[6], f[7], f[2], f[1], f[3], f[8], f[9]>>
    [] vendor = "PowerMax"   -> <<f[6], f[7], f[8], f[9], f[2], f[1], f[3], f[4], f[5]>>
    [] vendor = "other"      -> f

WwnMatches(nguid, w) == LET f == Tagged(w) IN
  CASE vendor = "PowerStore" -> {SubSeq(f, 5, 6), SubSeq(f, 8, 8)} \subseteq SubSeqs(nguid)
    [] vendor = "PowerMax"   -> IsPrefix(SubSeq(f, 6, 9) \o SubSeq(f, 2, 2), nguid)
    [] vendor = "other"      -> nguid = f

Init == /\ vendor \in Vendor
        /\ \E a, b \in WWN(vendor) : a # b /\ wwn = [v \in Volume |-> IF v = "own" THEN a ELSE b]
        /\ op \in {"discover", "clean"}
        /\ listing \in Listings /\ devices = <<>>

\* discoverDevice stops at two devices, cleanConnection takes them all.
LooksOn == listing # <<>> /\ (op = "discover" => Len(devices) < 2)

\* The next device: its data cannot be read, its namespace has changed or its nguid
\* does not match; or it is taken.
Look ==
  /\ LooksOn
  /\ listing' = Tail(listing)
  /\ \/ UNCHANGED devices
     \/ /\ WwnMatches(Nguid(wwn[Head(listing)]), wwn["own"])
        /\ devices' = Append(devices, Head(listing))
  /\ UNCHANGED <<vendor, wwn, op>>

Spec == Init /\ [][Look]_vars

-------------------------------------------------------------------------------
\* "wwnMatches checks if the given nguid and wwn match": no device of another volume
\* is connected to, or deleted, in place of the volume's own.
OwnDevicesOnly == \A i \in DOMAIN devices : devices[i] = "own"
================================================================================
