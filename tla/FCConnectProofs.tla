---------------------------- MODULE FCConnectProofs ----------------------------
(***************************************************************************)
(* The safety of FCConnect for every number of HBAs, targets and rescans.  *)
(* TimeInv is the arithmetic of the rescans of waitForDeviceWWN, SeenInv   *)
(* follows the disks that stay through one search.                         *)
(***************************************************************************)
EXTENDS FCConnect, FiniteSetTheorems, TLAPS

Over == {"clean", "clean_find", "clean_names", "returned"}

\* The seconds still to go and those slept make up the pause, every path of the
\* HBAs of the connect has been rescanned each time, and a call that goes on has
\* no error.
TimeInv ==
  /\ pc \in {"names", "valid_devices", "select"} => secondsNextScan > 0
  /\ numRescans > 0 => secondsNextScan + slept = Pause(numRescans)
  /\ \A h \in hbas, t \in Target : rescans[<<h, t>>] = numRescans
  /\ pc = "find" => numRescans <= LastRescan
  /\ pc = "find" => \A h \in hbas \ todo, t \in Target : <<h, t>> \in hctlsToRescan
  /\ pc \in {"acquire", "validate", "hbas", "clean"}
       => numRescans = 0 /\ rescans = NoRescans
  /\ pc \notin Over => out = "none"

\* A disk that stays and can be read is still to be asked for, to be named, or named.
SeenInv ==
  /\ pc = "find" => \A p \in steady : p[1] \in todo \/ p \in hctlsToDiscover
  /\ pc = "clean_names" =>
       \A p \in steady : p[1] \in todo \/ p \in hctlsToDiscover \/ p \in devices
  /\ pc = "clean_find" => \A p \in steady : p[1] \in todo \/ p \in devices
  /\ pc = "names" => steady \subseteq hctlsToDiscover
  /\ pc = "valid_devices" => steady \subseteq devices
  /\ pc = "select" => steady = {}
  /\ pc = "clean" /\ out = "not_found" => steady = {}

Inv == TypeOK /\ TimeInv /\ SeenInv

\* A pause is some seconds long.
LEMMA PauseType == ASSUME NEW n \in Nat PROVE Pause(n) \in Nat /\ Pause(n) > 0
<1>1. \A k \in Nat : k > 0 => k * k \in Nat /\ k * k > 0
  OBVIOUS
<1>2. n + 2 \in Nat /\ n + 2 > 0
  OBVIOUS
<1> QED BY <1>1, <1>2 DEF Pause

\* needFullRescan or not, every target of the HBA is rescanned.
LEMMA RescansAll == \A h \in Hba, t \in Target : <<h, t>> \in ToRescan(h)
  BY DEF ToRescan, Visible

\* A path is an HBA with a target.
LEMMA Pairs == \A p \in Path : p[1] \in Hba /\ p[2] \in Target /\ p = <<p[1], p[2]>>
  BY DEF Path

\* The bounds are numbers.
LEMMA Bounds == LastRescan \in Nat /\ RegisterSeconds \in Nat
  BY FCAssumption

\* Where the counters begin.
LEMMA Zero == /\ 0 \in 0..LastRescan + 1 /\ 0 \in 0..RegisterSeconds
              /\ ~(0 > 0) /\ 0 <= LastRescan
  BY Bounds

\* The variables that count, as numbers.
LEMMA Counters ==
  ASSUME TypeOK
  PROVE  /\ numRescans \in Nat /\ numRescans <= LastRescan + 1
         /\ looks \in Nat /\ looks <= RegisterSeconds
         /\ secondsNextScan \in Nat /\ slept \in Nat
<1>1. /\ numRescans \in 0..LastRescan + 1 /\ looks \in 0..RegisterSeconds
      /\ secondsNextScan \in Nat /\ slept \in Nat
  BY DEF TypeOK
<1> QED BY <1>1, Bounds

\* Past the last rescan there is one more than the bound.
LEMMA PastTheLast ==
  ASSUME TypeOK, ~(numRescans <= LastRescan) PROVE numRescans = LastRescan + 1
  BY Counters, Bounds

\* What is said of the pairs is said of the product.
LEMMA OfThePairs ==
  (\A h \in hbas, t \in Target : rescans[<<h, t>>] = LastRescan + 1)
    => \A p \in hbas \X Target : rescans[p] = LastRescan + 1
  OBVIOUS

\* The initial states satisfy the invariant.
LEMMA InitInv == Init => Inv
<1> SUFFICES ASSUME Init PROVE Inv
  OBVIOUS
<1>1. TypeOK
  BY FCAssumption DEF Init, TypeOK, NoRescans, Path
<1>2. TimeInv /\ SeenInv
  BY DEF Init, TimeInv, SeenInv, Over
<1> QED BY <1>1, <1>2 DEF Inv

\* A connect that fails.
LEMMA FailInv ==
  ASSUME Inv, NEW why \in {"unreadable", "not_found", "no_devices", "not_added",
                           "unregistered", "cancelled"},
         Fail(why), UNCHANGED <<host, caller>>, steady' \subseteq steady,
         why = "not_found" => steady' = {}
  PROVE  Inv'
<1> USE DEF Inv, host
<1>1. /\ pc' = "clean" /\ out' = why /\ op' = op
      /\ hbas' = {} /\ todo' = {} /\ hctlsToRescan' = {} /\ hctlsToDiscover' = {}
      /\ devices' = {} /\ secondsNextScan' = 1 /\ slept' = 0
      /\ numRescans' = 0 /\ looks' = 0 /\ rescans' = NoRescans
  BY DEF Fail
<1>2. 0 \in 0..LastRescan + 1 /\ 0 \in 0..RegisterSeconds
  BY Zero
<1>3. NoRescans \in [Path -> Nat]
  BY DEF NoRescans
<1>4. TypeOK'
  BY <1>1, <1>2, <1>3 DEF TypeOK
<1>5. TimeInv'
  BY <1>1, Zero DEF TimeInv, Over
<1>6. SeenInv'
  BY <1>1 DEF SeenInv
<1> QED BY <1>4, <1>5, <1>6

\* A call that returns.
LEMMA ReturnInv ==
  ASSUME Inv, NEW why \in {"busy", "invalid", "no_HBAs", "device", "cleaned", "not_cleaned", out},
         Returns(why), UNCHANGED <<host, caller, search, timing, steady>>
  PROVE  Inv'
<1> USE DEF Inv, Returns, host, search, timing
<1>1. TypeOK'
  BY DEF TypeOK
<1>2. TimeInv' /\ SeenInv'
  BY DEF TimeInv, SeenInv, Over
<1> QED BY <1>1, <1>2

\* A search that begins.
LEMMA SearchInv ==
  ASSUME Inv, NEW H \in SUBSET Hba, Search(H), UNCHANGED <<host, caller, op, out, timing>>,
         \/ pc = "hbas" /\ pc' = "find"
         \/ pc = "clean" /\ pc' = "clean_find"
  PROVE  Inv'
<1> USE DEF Inv, Search, host, timing
<1>1. TypeOK'
  BY DEF TypeOK
<1>2. TimeInv'
  <2>1. numRescans' = 0 /\ rescans' = NoRescans
    BY DEF TimeInv
  <2>2. \A h \in Hba, t \in Target : rescans'[<<h, t>>] = 0
    BY <2>1 DEF NoRescans, Path
  <2> QED BY <2>1, <2>2, Zero DEF TimeInv, Over
<1>3. SeenInv'
  BY DEF SeenInv
<1> QED BY <1>1, <1>2, <1>3

\* The search of an HBA finds all its disks that stay.
LEMMA Discovered ==
  ASSUME TypeOK, NEW h \in Hba, NEW p \in steady, p[1] = h PROVE p \in ToDiscover(h)
<1>1. p \in port /\ p \in Path
  BY FCAssumption DEF TypeOK, Path
<1>2. PICK t \in Target : p = <<h, t>>
  BY <1>1, Pairs
<1> QED BY <1>1, <1>2 DEF ToDiscover, Visible

\* One HBA more has been read.
LEMMA FindInv ==
  ASSUME Inv, NEW h \in todo, FindHCTLs(h), pc = "find",
         UNCHANGED <<host, caller, op, pc, out, hbas, devices, timing, steady>>
  PROVE  Inv'
<1> USE DEF Inv, FindHCTLs, host, timing
<1>1. h \in Hba /\ todo' = todo \ {h}
  BY DEF TypeOK
<1>2. hctlsToRescan' = hctlsToRescan \cup ToRescan(h)
  BY DEF Gathered
<1>3. hctlsToDiscover' = hctlsToDiscover \cup ToDiscover(h)
  OBVIOUS
<1>4. TypeOK'
  <2>1. ToRescan(h) \subseteq Path /\ ToDiscover(h) \subseteq Path
    BY <1>1 DEF ToRescan, ToDiscover, Visible, Path
  <2> QED BY <1>1, <1>2, <1>3, <2>1 DEF TypeOK
<1>5. TimeInv'
  BY <1>1, <1>2, RescansAll DEF TimeInv
<1>6. SeenInv'
  <2> QED BY <1>1, <1>3, Discovered DEF SeenInv
<1> QED BY <1>4, <1>5, <1>6

\* A step of the host or of the caller: a disk that stays only gets rarer.
LEMMA AroundInv == ASSUME Inv, HostChanges \/ Cancel PROVE Inv'
<1> USE DEF Inv, search, timing
<1>1. /\ UNCHANGED <<op, pc, out, search, timing>>
      /\ caller' \in {"live", "done"}
  BY DEF HostChanges, Cancel, TypeOK
<1>2. /\ port' \in SUBSET Zoned /\ disk' \in SUBSET port'
      /\ steady' \in SUBSET disk' /\ steady' \subseteq steady
  <2>1. CASE Cancel
    BY <2>1 DEF Cancel, host, TypeOK
  <2>2. CASE HostChanges
    BY <2>2 DEF HostChanges, PortUp, PortDown, DiskUp, DiskDown, TypeOK
  <2> QED BY <2>1, <2>2
<1>3. TypeOK'
  BY <1>1, <1>2 DEF TypeOK
<1>4. TimeInv' /\ SeenInv'
  BY <1>1, <1>2 DEF TimeInv, SeenInv
<1> QED BY <1>3, <1>4

\* A step from one place to another that only has to keep the time.
LEMMA MoveInv ==
  ASSUME Inv, UNCHANGED <<host, caller, op, out, search, timing, steady>>,
         <<pc, pc'>> \in {<<"acquire", "clean">>, <<"acquire", "validate">>, <<"validate", "hbas">>,
                          <<"validate", "rescan_all">>, <<"rescan_all", "devices">>,
                          <<"devices", "wait">>, <<"wait", "check">>}
  PROVE  Inv'
<1> USE DEF Inv, host, search, timing
<1>1. TypeOK'
  BY DEF TypeOK
<1>2. TimeInv'
  BY DEF TimeInv, Over
<1>3. SeenInv'
  BY DEF TimeInv, SeenInv, Over
<1> QED BY <1>1, <1>2, <1>3

-------------------------------------------------------------------------------
\* The steps before a search.
LEMMA BeginInv == ASSUME Inv, Acquire \/ Validate \/ GetHBAs PROVE Inv'
<1>1. CASE Acquire
  <2>1. CASE pc' = "returned"
    <3>1. Returns("busy") /\ UNCHANGED <<host, caller, search, timing, steady>>
      BY <1>1, <2>1 DEF Acquire, From
    <3> QED BY <3>1, ReturnInv
  <2>2. CASE pc' # "returned"
    <3>1. /\ UNCHANGED <<host, caller, op, out, search, timing, steady>>
          /\ pc = "acquire" /\ pc' \in {"clean", "validate"}
      BY <1>1, <2>2 DEF Acquire, From, Returns
    <3> QED BY <3>1, MoveInv
  <2> QED BY <2>1, <2>2
<1>2. CASE Validate
  <2>1. CASE pc' = "returned"
    <3>1. Returns("invalid") /\ UNCHANGED <<host, caller, search, timing, steady>>
      BY <1>2, <2>1 DEF Validate, From
    <3> QED BY <3>1, ReturnInv
  <2>2. CASE pc' # "returned"
    <3>1. /\ UNCHANGED <<host, caller, op, out, search, timing, steady>>
          /\ pc = "validate" /\ pc' \in {"rescan_all", "hbas"}
      BY <1>2, <2>2 DEF Validate, From, Returns
    <3> QED BY <3>1, MoveInv
  <2> QED BY <2>1, <2>2
<1>3. CASE GetHBAs
  <2>1. PICK H \in SUBSET Hba :
           IF H = {} THEN Returns("no_HBAs") /\ UNCHANGED <<search, steady>>
                     ELSE From("hbas", "find") /\ Search(H)
    BY <1>3 DEF GetHBAs
  <2>2. UNCHANGED <<host, caller, timing>>
    BY <1>3 DEF GetHBAs
  <2>3. CASE H = {}
    BY <2>1, <2>2, <2>3, ReturnInv
  <2>4. CASE H # {}
    <3>1. Search(H) /\ UNCHANGED <<op, out>> /\ pc = "hbas" /\ pc' = "find"
      BY <2>1, <2>4 DEF From
    <3> QED BY <2>2, <3>1, SearchInv
  <2> QED BY <2>3, <2>4
<1> QED BY <1>1, <1>2, <1>3

\* An HBA of a connect, read or not.
LEMMA FindForConnectInv == ASSUME Inv, FindForConnect PROVE Inv'
<1>1. CASE \E h \in todo : FindHCTLs(h) /\ UNCHANGED <<op, pc, out, hbas, devices, timing>>
  <2>1. PICK h \in todo : FindHCTLs(h)
    BY <1>1
  <2>2. UNCHANGED <<host, caller, op, pc, out, hbas, devices, timing, steady>> /\ pc = "find"
    BY <1>1 DEF FindForConnect
  <2> QED BY <2>1, <2>2, FindInv
<1>2. CASE Fail("unreadable")
  <2>1. UNCHANGED <<host, caller>> /\ steady' \subseteq steady
    BY DEF FindForConnect
  <2> QED BY <1>2, <2>1, FailInv
<1> QED BY <1>1, <1>2 DEF FindForConnect

\* The rescans, when it is time for them.
LEMMA RescanInv == ASSUME Inv, Rescan PROVE Inv'
<1> USE DEF Inv, host
<1>1. /\ pc = "find" /\ pc' = "names" /\ todo = {} /\ todo' = todo
      /\ UNCHANGED <<host, caller, op, out, hbas, hctlsToRescan, hctlsToDiscover, devices,
                     looks, steady>>
  BY DEF Rescan, search
<1>2. CASE secondsNextScan = 0
  <2>1. /\ numRescans' = numRescans + 1 /\ secondsNextScan' = Pause(numRescans')
        /\ slept' = 0
        /\ rescans' = [p \in Path |-> rescans[p] + (IF p \in hctlsToRescan THEN 1 ELSE 0)]
    BY <1>2 DEF Rescan
  <2>2. numRescans' \in 0..LastRescan + 1 /\ numRescans' > 0 /\ numRescans' \in Nat
    <3>1. numRescans <= LastRescan
      BY <1>1 DEF TimeInv
    <3> QED BY <2>1, <3>1, Counters, Bounds
  <2>3. secondsNextScan' \in Nat /\ secondsNextScan' > 0
    BY <2>1, <2>2, PauseType
  <2>4. rescans' \in [Path -> Nat]
    <3>1. \A p \in Path : rescans[p] \in Nat
      BY DEF TypeOK
    <3>2. \A p \in Path : rescans[p] + (IF p \in hctlsToRescan THEN 1 ELSE 0) \in Nat
      BY <3>1
    <3> QED BY <2>1, <3>2
  <2>5. TypeOK'
    BY <1>1, <2>1, <2>2, <2>3, <2>4 DEF TypeOK
  <2>6. \A h \in hbas', t \in Target : rescans'[<<h, t>>] = numRescans'
    <3>1. \A h \in hbas, t \in Target :
             <<h, t>> \in Path /\ rescans[<<h, t>>] = numRescans /\ <<h, t>> \in hctlsToRescan
      BY <1>1 DEF TypeOK, TimeInv, Path
    <3> QED BY <1>1, <2>1, <3>1
  <2>7. secondsNextScan' + slept' = Pause(numRescans')
    BY <2>1, <2>3
  <2>8. TimeInv'
    BY <1>1, <2>3, <2>6, <2>7 DEF TimeInv, Over
  <2>9. SeenInv'
    BY <1>1 DEF SeenInv
  <2> QED BY <2>5, <2>8, <2>9
<1>3. CASE secondsNextScan # 0
  <2>1. UNCHANGED <<numRescans, secondsNextScan, slept, rescans>>
    BY <1>3 DEF Rescan
  <2>2. TypeOK'
    BY <1>1, <2>1 DEF TypeOK
  <2>3. TimeInv'
    BY <1>1, <1>3, <2>1 DEF TypeOK, TimeInv, Over
  <2>4. SeenInv'
    BY <1>1 DEF SeenInv
  <2> QED BY <2>2, <2>3, <2>4
<1> QED BY <1>2, <1>3

\* Devices named for the disks found, of all HBAs or, in the clean-up, of one.
LEMMA NamesInv == ASSUME Inv, GetNames \/ CleanNames PROVE Inv'
<1> USE DEF Inv, host, timing
<1>1. /\ UNCHANGED <<host, caller, op, out, hbas, todo, hctlsToRescan, timing>>
      /\ \/ /\ pc = "names" /\ pc' = "valid_devices"
            /\ UNCHANGED hctlsToDiscover
         \/ /\ pc = "clean_names" /\ pc' = "clean_find"
            /\ hctlsToDiscover' = {}
  BY DEF GetNames, CleanNames, From
<1>2. PICK D \in SUBSET (hctlsToDiscover \cap disk) :
         /\ steady' = steady \ ((hctlsToDiscover \cap disk) \ D)
         /\ devices' = IF pc = "names" THEN D ELSE devices \cup D
  BY <1>1 DEF GetNames, CleanNames, From
<1>3. TypeOK'
  <2>1. D \in SUBSET Path /\ steady' \in SUBSET disk
    BY <1>2 DEF TypeOK
  <2>2. devices' \in SUBSET Path
    BY <1>2, <2>1 DEF TypeOK
  <2> QED BY <1>1, <2>1, <2>2 DEF TypeOK
<1>4. TimeInv'
  BY <1>1 DEF TimeInv, Over
<1>5. SeenInv'
  <2>1. steady \subseteq disk
    BY DEF TypeOK
  <2>2. CASE pc = "names"
    <3>1. steady' \subseteq devices'
      BY <1>2, <2>1, <2>2 DEF SeenInv
    <3> QED BY <1>1, <2>2, <3>1 DEF SeenInv
  <2>3. CASE pc = "clean_names"
    <3>1. \A p \in steady' : p[1] \in todo \/ p \in devices'
      BY <1>2, <2>1, <2>3 DEF SeenInv
    <3> QED BY <1>1, <2>3, <3>1 DEF SeenInv
  <2> QED BY <1>1, <2>2, <2>3
<1> QED BY <1>3, <1>4, <1>5

\* The devices validated, and the WWN of one of them.
LEMMA ValidInv == ASSUME Inv, ValidDevices PROVE Inv'
<1> USE DEF Inv, host
<1>1. PICK V \in SUBSET (devices \cap disk) :
         /\ steady' = steady \ (devices \ V)
         /\ \/ /\ From("valid_devices", IF V = {} THEN "select" ELSE "devices")
               /\ UNCHANGED <<search, timing>>
            \/ V # {} /\ Fail("unreadable")
  BY DEF ValidDevices
<1>2. UNCHANGED <<host, caller>> /\ pc = "valid_devices"
  BY DEF ValidDevices
<1>3. CASE Fail("unreadable")
  <2>1. steady' \subseteq steady
    BY <1>1
  <2> QED BY <1>2, <1>3, <2>1, FailInv
<1>4. CASE /\ From("valid_devices", IF V = {} THEN "select" ELSE "devices")
           /\ UNCHANGED <<search, timing>>
  <2>1. /\ UNCHANGED <<op, out, search, timing>>
        /\ pc' = IF V = {} THEN "select" ELSE "devices"
    BY <1>4 DEF From
  <2> USE DEF search, timing
  <2>2. steady \subseteq devices
    BY <1>2 DEF SeenInv
  <2>3. V = {} => steady' = {}
    BY <1>1, <2>2
  <2>4. TypeOK'
    BY <1>1, <1>2, <2>1 DEF TypeOK
  <2>5. TimeInv'
    BY <1>2, <2>1 DEF TimeInv, Over
  <2>6. SeenInv'
    BY <2>1, <2>3 DEF SeenInv
  <2> QED BY <2>4, <2>5, <2>6
<1> QED BY <1>1, <1>3, <1>4

\* A pass that found nothing.
LEMMA SelectInv == ASSUME Inv, Select PROVE Inv'
<1> USE DEF Inv, host
<1>1. UNCHANGED <<host, caller>> /\ pc = "select"
  BY DEF Select
<1>2. CASE GoesOn
  <2>1. /\ pc' = "find" /\ UNCHANGED <<op, out, numRescans, looks, rescans>>
        /\ secondsNextScan' = secondsNextScan - 1
        /\ slept' = slept + Sleeps
        /\ Search(hbas)
    BY <1>2 DEF Select, Countdown
  <2> USE DEF Search
  <2>2. secondsNextScan \in Nat /\ secondsNextScan > 0 /\ slept \in Nat /\ numRescans \in Nat
    BY <1>1, Counters DEF TimeInv
  <2>3. secondsNextScan' \in Nat /\ slept' \in Nat
    BY <2>1, <2>2 DEF Sleeps
  <2>4. TypeOK'
    BY <1>1, <2>1, <2>3 DEF TypeOK
  <2>5. numRescans > 0 => secondsNextScan' + slept' = Pause(numRescans)
    <3>1. ASSUME numRescans > 0 PROVE slept' = slept + 1
      BY <2>1, <3>1 DEF Sleeps
    <3>2. ASSUME numRescans > 0 PROVE secondsNextScan + slept = Pause(numRescans)
      BY <3>2 DEF TimeInv
    <3> QED BY <2>1, <2>2, <3>1, <3>2
  <2>6. numRescans <= LastRescan
    BY <1>2 DEF GoesOn
  <2>7. TimeInv'
    BY <1>1, <2>1, <2>5, <2>6 DEF TimeInv, Over
  <2>8. SeenInv'
    BY <1>1, <2>1 DEF SeenInv
  <2> QED BY <2>4, <2>7, <2>8
<1>3. CASE ~GoesOn
  <2>1. Fail("not_found") /\ UNCHANGED steady
    BY <1>3 DEF Select
  <2>2. steady = {}
    BY <1>1 DEF SeenInv
  <2> QED BY <1>1, <2>1, <2>2, FailInv
<1> QED BY <1>2, <1>3

\* The steps after the WWN is known.
LEMMA AfterInv == ASSUME Inv, RescanAllHosts \/ GetDevices \/ CheckValid PROVE Inv'
<1>1. UNCHANGED <<host, caller, steady>>
  BY DEF RescanAllHosts, GetDevices, CheckValid
<1>2. CASE \E why \in {"unreadable", "no_devices", "not_added"} : Fail(why)
  <2>1. PICK why \in {"unreadable", "no_devices", "not_added"} : Fail(why)
    BY <1>2
  <2> QED BY <1>1, <2>1, FailInv
<1>3. CASE CheckValid /\ Returns("device") /\ UNCHANGED <<search, timing>>
  BY <1>1, <1>3, ReturnInv
<1>4. CASE /\ UNCHANGED <<op, out, search, timing>>
           /\ <<pc, pc'>> \in {<<"rescan_all", "devices">>, <<"devices", "wait">>}
  BY <1>1, <1>4, MoveInv
<1> QED BY <1>2, <1>3, <1>4 DEF RescanAllHosts, GetDevices, CheckValid, From

\* A pass of the waiting loop.
LEMMA WaitInv == ASSUME Inv, Wait PROVE Inv'
<1> USE DEF Inv, host
<1>1. UNCHANGED <<host, caller, steady>> /\ pc = "wait"
  BY DEF Wait
<1>2. CASE \E why \in {"unregistered", "cancelled"} : Fail(why)
  <2>1. PICK why \in {"unregistered", "cancelled"} : Fail(why)
    BY <1>2
  <2> QED BY <1>1, <2>1, FailInv
<1>3. CASE /\ WaitsOn
           /\ From("wait", "check") /\ UNCHANGED looks
           /\ UNCHANGED <<search, numRescans, secondsNextScan, slept, rescans>>
  <2>1. UNCHANGED <<op, out, search, timing>> /\ <<pc, pc'>> = <<"wait", "check">>
    BY <1>3 DEF From, timing
  <2> QED BY <1>1, <2>1, MoveInv
<1>4. CASE /\ WaitsOn
           /\ looks' = looks + 1 /\ UNCHANGED <<op, pc, out>>
           /\ UNCHANGED <<search, numRescans, secondsNextScan, slept, rescans>>
  <2> USE <1>1, <1>4 DEF search
  <2>1. looks' \in 0..RegisterSeconds
    BY Counters, Bounds DEF WaitsOn
  <2>2. TypeOK'
    BY <2>1 DEF TypeOK
  <2>3. TimeInv'
    BY DEF TimeInv, Over
  <2>4. SeenInv'
    BY DEF SeenInv
  <2> QED BY <2>2, <2>3, <2>4
<1> QED BY <1>2, <1>3, <1>4 DEF Wait

\* The clean-up.
LEMMA CleanInv == ASSUME Inv, Clean \/ FindForClean \/ CleanDevices PROVE Inv'
<1>1. CASE Clean
  <2>1. UNCHANGED <<host, caller, timing>>
    BY <1>1 DEF Clean
  <2>2. CASE (\E H \in SUBSET Hba : Search(H)) /\ From("clean", "clean_find")
    <3>1. PICK H \in SUBSET Hba : Search(H)
      BY <2>2
    <3>2. pc = "clean" /\ pc' = "clean_find" /\ UNCHANGED <<op, out>>
      BY <2>2 DEF From
    <3> QED BY <2>1, <3>1, <3>2, SearchInv
  <2>3. CASE /\ Returns(IF op = "disconnect" THEN "not_cleaned" ELSE out)
             /\ UNCHANGED <<search, steady>>
    BY <2>1, <2>3, ReturnInv
  <2> QED BY <1>1, <2>2, <2>3 DEF Clean
<1>2. CASE FindForClean
  <2> USE DEF Inv, host, timing
  <2>1. /\ UNCHANGED <<host, caller, op, out, hbas, hctlsToRescan, devices, timing>>
        /\ pc = "clean_find"
    BY <1>2 DEF FindForClean, From
  <2>2. PICK h \in todo :
           \/ /\ pc' = "clean_names" /\ todo' = todo \ {h}
              /\ hctlsToDiscover' = ToDiscover(h) /\ UNCHANGED steady
           \/ /\ todo' = todo \ {h} /\ steady' = {p \in steady : p[1] # h}
              /\ UNCHANGED <<pc, hctlsToDiscover>>
    BY <1>2 DEF FindForClean, From, GoesOnAfter
  <2>3. h \in Hba
    BY DEF TypeOK
  <2>4. TypeOK'
    <3>1. ToDiscover(h) \subseteq Path
      BY <2>3 DEF ToDiscover, Visible, Path
    <3> QED BY <2>1, <2>2, <3>1 DEF TypeOK
  <2>5. TimeInv'
    BY <2>1, <2>2 DEF TimeInv, Over
  <2>6. SeenInv'
    BY <2>1, <2>2, <2>3, Discovered DEF SeenInv
  <2> QED BY <2>4, <2>5, <2>6
<1>3. CASE CleanDevices
  <2>1. UNCHANGED <<host, caller, search, timing, steady>>
    BY <1>3 DEF CleanDevices
  <2>2. Returns(out) \/ Returns("cleaned") \/ Returns("not_cleaned")
    BY <1>3 DEF CleanDevices
  <2> QED BY <2>1, <2>2, ReturnInv
<1> QED BY <1>1, <1>2, <1>3

\* Every step preserves the invariant.
LEMMA NextInv == ASSUME Inv, [Next]_vars PROVE Inv'
<1>1. CASE Step
  BY <1>1, BeginInv, FindForConnectInv, RescanInv, NamesInv, ValidInv, SelectInv, AfterInv,
     WaitInv, CleanInv DEF Step
<1>2. CASE HostChanges \/ Cancel
  BY <1>2, AroundInv
<1>3. CASE UNCHANGED vars
  <2> USE <1>3 DEF vars, host, search, timing
  <2>1. TypeOK'
    BY DEF Inv, TypeOK
  <2>2. TimeInv' /\ SeenInv'
    BY DEF Inv, TimeInv, SeenInv
  <2> QED BY <2>1, <2>2 DEF Inv
<1> QED BY <1>1, <1>2, <1>3 DEF Next

\* Inv is an inductive invariant of the specification.
THEOREM FCInv == Spec => []Inv
<1>1. Inv /\ [Next]_vars => Inv'
  BY NextInv
<1> QED BY InitInv, <1>1, PTL DEF Spec

-------------------------------------------------------------------------------
\* Every variable keeps its type: the rescans never outnumber the bound, the
\* countdown never goes below zero.
THEOREM FCTypeOK == Spec => []TypeOK
<1>1. Inv => TypeOK
  BY DEF Inv
<1> QED BY FCInv, <1>1, PTL

\* A disk that stays through the last pass and can be read is not reported missing.
THEOREM FCSteadyFound == Spec => []SteadyFound
<1>1. Inv => SteadyFound
  BY DEF Inv, SeenInv, SteadyFound
<1> QED BY FCInv, <1>1, PTL

\* The clean-up is given every disk that stays and can be read.
THEOREM FCCleanCovers == Spec => []CleanCovers
<1>1. Inv => CleanCovers
  BY DEF Inv, SeenInv, CleanCovers
<1> QED BY FCInv, <1>1, PTL

\* An uncancelled "not found" comes after all the rescans of all the paths.
THEOREM FCNotFoundMeansRescanned == Spec => NotFoundMeansRescanned
<1> DEFINE Told == pc = "select" /\ out' = "not_found" /\ caller = "live"
                     => \A p \in hbas \X Target : rescans[p] = LastRescan + 1
<1>1. ASSUME Inv, [Next]_vars PROVE [Told]_vars
  <2> SUFFICES ASSUME Next, pc = "select", out' = "not_found", caller = "live"
               PROVE  \A p \in hbas \X Target : rescans[p] = LastRescan + 1
    BY <1>1
  <2>1. out = "none"
    BY <1>1 DEF Inv, TimeInv, Over
  <2>2. ~GoesOn
    <3>1. Select
      BY <2>1 DEF Next, Step, HostChanges, Cancel, Acquire, Validate, GetHBAs, FindForConnect,
         Rescan, GetNames, ValidDevices, RescanAllHosts, GetDevices, Wait, CheckValid,
         Clean, FindForClean, CleanNames, CleanDevices, From
    <3> QED BY <2>1, <3>1 DEF Select
  <2>3. numRescans = LastRescan + 1
    <3>1. ~(numRescans <= LastRescan)
      BY <2>2 DEF GoesOn
    <3> QED BY <1>1, <3>1, PastTheLast DEF Inv
  <2>4. \A h \in hbas, t \in Target : rescans[<<h, t>>] = LastRescan + 1
    BY <1>1, <2>3 DEF Inv, TimeInv
  <2> QED BY <2>4, OfThePairs
<1> QED BY FCInv, <1>1, PTL DEF Spec, NotFoundMeansRescanned

\* Two rescans are as far apart as the first of them was given.
THEOREM FCRescansSpaced == Spec => RescansSpaced
<1> DEFINE Spaced == numRescans' > numRescans /\ numRescans > 0 => slept = Pause(numRescans)
<1>1. ASSUME Inv, [Next]_vars PROVE [Spaced]_vars
  <2> SUFFICES ASSUME Next, numRescans' > numRescans, numRescans > 0
               PROVE  slept = Pause(numRescans)
    BY <1>1
  <2>1. numRescans \in Nat /\ secondsNextScan \in Nat /\ slept \in Nat
    BY <1>1, Counters DEF Inv
  <2>2. ~(\E why \in {"unreadable", "not_found", "no_devices", "not_added",
                     "unregistered", "cancelled"} : Fail(why))
    <3>1. ~(0 > numRescans)
      BY <2>1
    <3> QED BY <3>1 DEF Fail
  <2>3. numRescans' # numRescans
    BY <2>1
  <2>4. Rescan
    BY <2>2, <2>3 DEF Next, Step, HostChanges, Cancel, Acquire, Validate, GetHBAs,
       FindForConnect, GetNames, ValidDevices, Select, RescanAllHosts, GetDevices, Wait,
       CheckValid, Clean, FindForClean, CleanNames, CleanDevices, timing
  <2>5. secondsNextScan = 0
    BY <2>3, <2>4 DEF Rescan
  <2>6. secondsNextScan + slept = Pause(numRescans)
    BY <1>1 DEF Inv, TimeInv
  <2> QED BY <2>1, <2>5, <2>6
<1> QED BY FCInv, <1>1, PTL DEF Spec, RescansSpaced

-------------------------------------------------------------------------------
(* The bound on the steps of a call.                                       *)

\* One pass fewer leaves k steps fewer.
LEMMA FewerPasses ==
  ASSUME NEW a \in Nat, NEW b \in Nat, NEW k \in Nat, a < b
  PROVE  a * k \in Nat /\ b * k \in Nat /\ a * k + k <= b * k
<1>1. PICK d \in Nat : b = a + 1 + d
  <2>1. b - a - 1 \in Nat /\ b = a + 1 + (b - a - 1)
    OBVIOUS
  <2> QED BY <2>1
<1>2. \A x, y \in Nat : x * y \in Nat
  OBVIOUS
<1>3. b * k = a * k + k + d * k
  BY <1>1
<1> QED BY <1>2, <1>3

\* The pauses grow.
LEMMA PausesGrow ==
  ASSUME NEW m \in Nat, NEW n \in Nat, m <= n PROVE Pause(m) <= Pause(n)
<1>1. PICK d \in Nat : n + 2 = (m + 2) + d
  <2>1. n - m \in Nat /\ n + 2 = (m + 2) + (n - m)
    OBVIOUS
  <2> QED BY <2>1
<1>2. \A x, y \in Nat : x * y \in Nat
  OBVIOUS
<1>3. ASSUME NEW x \in Nat PROVE (x + d) * (x + d) = x * x + 2 * (x * d) + d * d
  OBVIOUS
<1>4. (n + 2) * (n + 2) = (m + 2) * (m + 2) + 2 * ((m + 2) * d) + d * d
  BY <1>1, <1>3
<1> QED BY <1>2, <1>4 DEF Pause

\* The seconds the loop has left are a number, of n rescans and a countdown s.
LEMMA SecondsType ==
  ASSUME NEW n \in Nat, n <= LastRescan + 1, NEW s \in Nat
  PROVE  (LastRescan + 1 - n) * (Pause(LastRescan + 1) + 1) + s \in Nat
<1>1. LastRescan + 1 - n \in Nat /\ Pause(LastRescan + 1) + 1 \in Nat
  BY Bounds, PauseType
<1>2. \A x, y \in Nat : x * y \in Nat
  OBVIOUS
<1> QED BY <1>1, <1>2

\* A rescan uses seconds up, though it sets the countdown back.
LEMMA RescanShortens ==
  ASSUME Inv, Rescan PROVE SecondsLeft' \in Nat /\ SecondsLeft' <= SecondsLeft
<1> DEFINE M == Pause(LastRescan + 1) + 1
<1>1. numRescans \in Nat /\ numRescans <= LastRescan /\ secondsNextScan \in Nat
  BY Counters DEF Inv, TimeInv, Rescan
<1>2. CASE UNCHANGED <<numRescans, secondsNextScan>>
  <2>1. SecondsLeft \in Nat
    BY <1>1, Bounds, SecondsType DEF SecondsLeft
  <2> QED BY <1>2, <2>1 DEF SecondsLeft
<1>3. CASE /\ secondsNextScan = 0
           /\ numRescans' = numRescans + 1 /\ secondsNextScan' = Pause(numRescans')
  <2>1. M \in Nat /\ Pause(numRescans + 1) \in Nat /\ Pause(numRescans + 1) < M
    BY <1>1, Bounds, PauseType, PausesGrow
  <2>2. LastRescan + 1 - (numRescans + 1) \in Nat /\ LastRescan + 1 - numRescans \in Nat
    BY <1>1, Bounds
  <2>3. (LastRescan + 1 - (numRescans + 1)) * M + M <= (LastRescan + 1 - numRescans) * M
    BY <1>1, <2>1, <2>2, Bounds, FewerPasses
  <2>4. (LastRescan + 1 - (numRescans + 1)) * M \in Nat /\ (LastRescan + 1 - numRescans) * M \in Nat
    BY <2>1, <2>2
  <2>5. /\ SecondsLeft = (LastRescan + 1 - numRescans) * M
        /\ SecondsLeft' = (LastRescan + 1 - (numRescans + 1)) * M + Pause(numRescans + 1)
    BY <1>3, <2>4 DEF SecondsLeft
  <2> HIDE DEF M
  <2> QED BY <2>1, <2>3, <2>4, <2>5
<1> QED BY <1>2, <1>3 DEF Rescan

\* A pass that goes on uses a second up.
LEMMA SelectShortens ==
  ASSUME Inv, Select, GoesOn
  PROVE  SecondsLeft' \in Nat /\ SecondsLeft \in Nat /\ SecondsLeft' < SecondsLeft
<1>1. /\ numRescans \in Nat /\ numRescans <= LastRescan + 1
      /\ secondsNextScan \in Nat /\ secondsNextScan - 1 \in Nat
  BY Counters DEF Inv, TimeInv, Select
<1>2. numRescans' = numRescans /\ secondsNextScan' = secondsNextScan - 1
  BY DEF Select, Countdown
<1> DEFINE R == (LastRescan + 1 - numRescans) * (Pause(LastRescan + 1) + 1)
<1>3. R \in Nat
  <2>1. LastRescan + 1 - numRescans \in Nat /\ Pause(LastRescan + 1) + 1 \in Nat
    BY <1>1, Bounds, PauseType
  <2>2. \A x, y \in Nat : x * y \in Nat
    OBVIOUS
  <2> QED BY <2>1, <2>2
<1>4. SecondsLeft = R + secondsNextScan /\ SecondsLeft' = R + (secondsNextScan - 1)
  BY <1>2 DEF SecondsLeft
<1> HIDE DEF R
<1> QED BY <1>1, <1>3, <1>4

\* The HBAs, and those still to be asked for.
LEMMA Hbas ==
  ASSUME TypeOK
  PROVE  /\ Cardinality(Hba) \in Nat
         /\ Cardinality(todo) \in Nat /\ Cardinality(todo) <= Cardinality(Hba)
         /\ \A h \in todo : Cardinality(todo \ {h}) = Cardinality(todo) - 1
<1>1. \A S \in SUBSET Hba : /\ IsFiniteSet(S) /\ Cardinality(S) \in Nat
                           /\ Cardinality(S) <= Cardinality(Hba)
  BY FCAssumption, FS_Subset, FS_CardinalityType
<1>2. todo \in SUBSET Hba
  BY DEF TypeOK
<1>3. \A h \in todo : Cardinality(todo \ {h}) = Cardinality(todo) - 1
  BY <1>1, <1>2, FS_RemoveElement
<1> QED BY <1>1, <1>2, <1>3

\* The steps left of a search with s seconds to go are a number, fewer if s is less.
LEMMA Searches ==
  /\ TypeOK => SecondsLeft * (Cardinality(Hba) + 4) \in Nat
  /\ TypeOK' => (SecondsLeft * (Cardinality(Hba) + 4))' \in Nat
  /\ TypeOK /\ TypeOK' /\ SecondsLeft' < SecondsLeft
       => (SecondsLeft * (Cardinality(Hba) + 4))' + Cardinality(Hba) + 4
            <= SecondsLeft * (Cardinality(Hba) + 4)
<1>0. Cardinality(Hba) + 4 \in Nat
  BY FCAssumption, FS_CardinalityType
<1>1. /\ TypeOK => SecondsLeft \in Nat
      /\ TypeOK' => SecondsLeft' \in Nat
  <2>1. TypeOK => SecondsLeft \in Nat
    BY Counters, SecondsType DEF SecondsLeft
  <2>2. ASSUME TypeOK' PROVE SecondsLeft' \in Nat
    <3>1. numRescans' \in 0..LastRescan + 1 /\ secondsNextScan' \in Nat
      BY <2>2 DEF TypeOK
    <3> QED BY <3>1, Bounds, SecondsType DEF SecondsLeft
  <2> QED BY <2>1, <2>2
<1>2. \A x, y \in Nat : x * y \in Nat
  OBVIOUS
<1>3. ASSUME TypeOK, TypeOK', SecondsLeft' < SecondsLeft
      PROVE  (SecondsLeft * (Cardinality(Hba) + 4))' + Cardinality(Hba) + 4
                <= SecondsLeft * (Cardinality(Hba) + 4)
  <2>1. SecondsLeft' * (Cardinality(Hba) + 4) + (Cardinality(Hba) + 4)
          <= SecondsLeft * (Cardinality(Hba) + 4)
    BY <1>0, <1>1, <1>3, FewerPasses
  <2>2. SecondsLeft' * (Cardinality(Hba) + 4) \in Nat
    BY <1>0, <1>1, <1>3, <1>2
  <2>3. (SecondsLeft * (Cardinality(Hba) + 4))' = SecondsLeft' * (Cardinality(Hba) + 4)
    OBVIOUS
  <2> QED BY <1>0, <2>1, <2>2, <2>3, FCAssumption, FS_CardinalityType
<1> QED BY <1>0, <1>1, <1>2, <1>3

\* What a call has left where it is, of the steps r after a search, the h HBAs, the s
\* steps of the passes to come and the p HBAs to be asked for.
Left(r, h, s, p) ==
  /\ pc = "acquire" => Work = s + (h + 7) + r
  /\ pc = "validate" => Work = s + (h + 6) + r
  /\ pc = "hbas" => Work = s + (h + 5) + r
  /\ pc = "find" => Work = s + (p + 4) + r
  /\ pc = "names" => Work = s + 3 + r
  /\ pc = "valid_devices" => Work = s + 2 + r
  /\ pc = "select" => Work = s + 1 + r
  /\ pc = "rescan_all" => Work = r
  /\ pc = "devices" => Work = r - 1
  /\ pc = "wait" => Work = r - 2 - looks
  /\ pc = "check" => Work = 2 * h + 4
  /\ pc = "clean" => Work = 2 * h + 3
  /\ pc = "clean_names" => Work = 2 * p + 2
  /\ pc = "clean_find" => Work = 2 * p + 1

\* And after a step, of t and q.
LeftNext(r, h, t, q) ==
  /\ pc' = "validate" => Work' = t + (h + 6) + r
  /\ pc' = "hbas" => Work' = t + (h + 5) + r
  /\ pc' = "find" => Work' = t + (q + 4) + r
  /\ pc' = "names" => Work' = t + 3 + r
  /\ pc' = "valid_devices" => Work' = t + 2 + r
  /\ pc' = "select" => Work' = t + 1 + r
  /\ pc' = "rescan_all" => Work' = r
  /\ pc' = "devices" => Work' = r - 1
  /\ pc' = "wait" => Work' = r - 2 - looks'
  /\ pc' = "check" => Work' = 2 * h + 4
  /\ pc' = "clean" => Work' = 2 * h + 3
  /\ pc' = "clean_names" => Work' = 2 * q + 2
  /\ pc' = "clean_find" => Work' = 2 * q + 1
  /\ pc' = "returned" => Work' = 0

\* The numbers that what is left is made of, and how a step changes them.
LEMMA Numbers ==
  ASSUME Inv, Inv'
  PROVE  \E r, h, s, t, p, q \in Nat :
            /\ Left(r, h, s, p) /\ LeftNext(r, h, t, q)
            /\ r = 2 * h + 7 + RegisterSeconds /\ p <= h /\ q <= h
            /\ SecondsLeft' = SecondsLeft => t = s
            /\ SecondsLeft' < SecondsLeft => t + h + 4 <= s
            /\ todo' = {} => q = 0
            /\ todo = {} => p = 0
            /\ \A k \in todo : todo' = todo \ {k} => q + 1 = p
            /\ todo' = todo => q = p
            /\ todo' \in SUBSET Hba
<1> DEFINE H == Cardinality(Hba)
           R == 2 * H + 7 + RegisterSeconds
           S == SecondsLeft * (Cardinality(Hba) + 4)
           T == (SecondsLeft * (Cardinality(Hba) + 4))'
           P == Cardinality(todo)
           Q == Cardinality(todo')
<1>1. TypeOK /\ TypeOK' /\ todo' \in SUBSET Hba
  BY DEF Inv, TypeOK
<1>2. H \in Nat /\ P \in Nat /\ P <= H /\ R \in Nat
  BY <1>1, Hbas, Bounds
<1>3. Q \in Nat /\ Q <= H
  BY <1>1, FCAssumption, FS_Subset, FS_CardinalityType
<1>4. /\ S \in Nat /\ T \in Nat
      /\ SecondsLeft' = SecondsLeft => T = S
      /\ SecondsLeft' < SecondsLeft => T + H + 4 <= S
  BY <1>1, Searches
<1>5. (todo = {} => P = 0) /\ (todo' = {} => Q = 0) /\ (todo' = todo => Q = P)
  BY FS_EmptySet
<1>6. \A k \in todo : todo' = todo \ {k} => Q + 1 = P
  <2>1. \A k \in todo : Cardinality(todo \ {k}) = P - 1
    BY <1>1, Hbas
  <2> QED BY <1>2, <2>1
<1>7. /\ Rest("rescan_all") = R
      /\ Rest("devices") = R - 1
      /\ Rest("wait") = R - 2 - looks
      /\ Rest("check") = 2 * H + 4
      /\ Rest("clean") = 2 * H + 3
  BY <1>1, <1>2, Counters, Bounds DEF Rest
<1>8. /\ Rest("rescan_all")' = R
      /\ Rest("devices")' = R - 1
      /\ Rest("wait")' = R - 2 - looks'
      /\ Rest("check")' = 2 * H + 4
      /\ Rest("clean")' = 2 * H + 3
  <2>1. looks' \in 0..RegisterSeconds
    BY <1>1 DEF TypeOK
  <2> QED BY <1>2, <2>1, Bounds DEF Rest
<1>9. Left(R, H, S, P)
  BY <1>7 DEF Left, Work, Searching
<1>10. LeftNext(R, H, T, Q)
  BY <1>8 DEF LeftNext, Work, Searching
<1>11. R = 2 * H + 7 + RegisterSeconds
  OBVIOUS
<1> HIDE DEF H, R, S, T, P, Q
<1> QED BY <1>1, <1>2, <1>3, <1>4, <1>5, <1>6, <1>9, <1>10, <1>11

\* What the steps of a call use up.
LEMMA StepUses ==
  ASSUME Inv, Inv', Step PROVE Work' >= 0 /\ Work' < Work
<1>0. PICK r, h, s, t, p, q \in Nat :
            /\ Left(r, h, s, p) /\ LeftNext(r, h, t, q)
            /\ r = 2 * h + 7 + RegisterSeconds /\ p <= h /\ q <= h
            /\ SecondsLeft' = SecondsLeft => t = s
            /\ SecondsLeft' < SecondsLeft => t + h + 4 <= s
            /\ todo' = {} => q = 0
            /\ todo = {} => p = 0
            /\ \A k \in todo : todo' = todo \ {k} => q + 1 = p
            /\ todo' = todo => q = p
            /\ todo' \in SUBSET Hba
  BY Numbers
<1>1. /\ looks \in Nat /\ looks <= RegisterSeconds /\ RegisterSeconds \in Nat
      /\ looks' \in Nat /\ looks' <= RegisterSeconds
  <2>1. looks' \in 0..RegisterSeconds /\ TypeOK
    BY DEF Inv, TypeOK
  <2> QED BY <2>1, Bounds, Counters
<1>2. UNCHANGED timing => SecondsLeft' = SecondsLeft
  BY DEF timing, SecondsLeft
<1>3. \A why : Fail(why) => pc' = "clean"
  BY DEF Fail
<1>4. \A why : Returns(why) => pc' = "returned"
  BY DEF Returns
<1>5. \A k : FindHCTLs(k) => q + 1 = p
  BY <1>0 DEF FindHCTLs
<1> USE <1>0, <1>1 DEF Left, LeftNext
<1>11. CASE Acquire \/ Validate
  BY <1>2, <1>4, <1>11 DEF Acquire, Validate, From
<1>12. CASE GetHBAs
  BY <1>2, <1>4, <1>12 DEF GetHBAs, From
<1>13. CASE FindForConnect
  BY <1>2, <1>3, <1>5, <1>13 DEF FindForConnect
<1>14. CASE Rescan
  <2>1. SecondsLeft' = SecondsLeft \/ SecondsLeft' < SecondsLeft
    BY <1>14, RescanShortens, Counters, SecondsType DEF SecondsLeft, Inv
  <2> QED BY <1>14, <2>1 DEF Rescan
<1>15. CASE GetNames \/ ValidDevices
  BY <1>2, <1>3, <1>15 DEF GetNames, ValidDevices, From
<1>16. CASE Select
  <2>1. GoesOn => SecondsLeft' < SecondsLeft
    BY <1>16, SelectShortens
  <2> QED BY <1>3, <1>16, <2>1 DEF Select
<1>17. CASE RescanAllHosts \/ GetDevices \/ CheckValid
  BY <1>3, <1>4, <1>17 DEF RescanAllHosts, GetDevices, CheckValid, From, timing
<1>18. CASE Wait
  BY <1>3, <1>18 DEF Wait, WaitsOn, From
<1>19. CASE Clean \/ CleanDevices
  BY <1>4, <1>19 DEF Clean, CleanDevices, From
<1>21. CASE CleanNames
  <2>1. pc = "clean_names" /\ pc' = "clean_find" /\ UNCHANGED todo
    BY <1>21 DEF CleanNames, From
  <2>2. q = p
    BY <2>1
  <2> QED BY <2>1, <2>2
<1>20. CASE FindForClean
  BY <1>20 DEF FindForClean, GoesOnAfter, From
<1> QED
  BY <1>11, <1>12, <1>13, <1>14, <1>15, <1>16, <1>17, <1>18, <1>19, <1>20, <1>21 DEF Step

\* The passes, the pauses and the waits of one call are bounded, for any number of
\* HBAs and rescans (fc.go waitForDeviceWWN, waitMultipathDevice, cleanConnection).
THEOREM FCCallBounded == Spec => CallBounded
<1> DEFINE Bounded == <<pc, search, timing>>' # <<pc, search, timing>>
                        => Work' >= 0 /\ Work' < Work
<1>1. ASSUME Inv, Inv', [Next]_vars PROVE [Bounded]_vars
  <2>1. HostChanges \/ Cancel => UNCHANGED <<pc, search, timing>>
    BY DEF HostChanges, Cancel
  <2> QED BY <1>1, <2>1, StepUses DEF Next
<1> QED BY FCInv, <1>1, PTL DEF Spec, CallBounded
================================================================================
