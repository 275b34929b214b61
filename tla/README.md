# gobrick: specifications, model checks and proofs

gobrick connects and disconnects block volumes (iSCSI, Fibre Channel, NVMe,
RDM) on a Linux host: it logs in to targets, waits until the kernel, udev and
the multipath software have made a device of the volume, returns its name, and
later takes the volume's devices away again. It keeps almost no state of its
own. What makes it hard is that the state it works on (`/sys`, the
device-mapper, multipathd, PowerPath) belongs to others and changes between any
two of its steps, and that it runs goroutines, timeouts and retries over it.

Contents: [components](#1-components) · [modules](#2-modules-and-the-code) ·
[runs](#3-runs) · [fairness](#4-fairness) · [proofs](#5-proofs) ·
[findings](#6-findings) · [not modelled](#7-what-is-not-modelled-and-why) ·
[plan](#8-plan)

Run a model with `tlc -config <cfg> <module>.tla` and check the proofs with
`tlapm <module>Proofs.tla`.

## 1. Components

| component | source | state it keeps | operations | interacts with |
|---|---|---|---|---|
| Device clean-up by name | `base.go` 173-197, 307-430 | retries and timeouts; per call: devices, dm, wwn | `disconnectDevicesByDeviceName`, `cleanDevices`, `cleanMultipathDevice`, `retryFlushMultipathDevice`, `getDMWWN` | called by all connectors' disconnects and by failed connects; calls `scsi`, `multipath`, `powerpath` |
| Device clean-up by WWN | `base.go` 94-171, 262-305, 366-383 | per call: `cleanVolumeReq` | `disconnectDevicesByWWN`, `identifyDevicesForWWN`, `cleanDevicesByMpathInfo`, `cleanMultipathDeviceByName` | called by FC's disconnect |
| NVMe clean-up | `base.go` 199-260, 422-446 | as the first | `disconnectNVMEDevicesByDeviceName`, `cleanNVMeDevices` | called by NVMe |
| Rate lock | `sync_tools.go` | `ttlCache.entries`, the ticker, `rateLock.m` | `RateCheck`, `Get`, `SetWithTTL`, `purge`, `Stop` | called by iSCSI logins; its own purge goroutine |
| iSCSI discovery | `iscsi.go` 319-582, 598-668 | `devCH`, `wgCH`, `wg`, two contexts; per goroutine: HCTL, rescans, next scan | `connectSingleDevice`, `connectMultipathDevice`, `connectPowerpathDevice`, `discoverDevice`, `readDevicesFromResultCH` | one goroutine per session, one that waits for them |
| iSCSI sessions | `iscsi.go` 670-847 | `manualSessionManagement`, CHAP options, `singleCall`, `loginLock` | `checkISCSISessions`, `tryISCSILogin`, `tryEnableManualISCSISessionMGMT` | `goiscsi`, the rate lock |
| iSCSI front end | `iscsi.go` 179-317 | `limiter` | `ConnectVolume`, the disconnects, `cleanConnection`, default portals | all of the above |
| FC connector | `fc.go` | `limiter` | `ConnectVolume`, `waitForDeviceWWN`, `waitSingle/Multipath/Powerpath`, HBA and HCTL search | clean-up by WWN |
| RDM connector | `rdm.go` | - | `connectRDM`, `rescanAllHosts` | clean-up |
| NVMe connector | `nvme.go` | `limiter`, `singleCall` | `ConnectVolume`, `discoverDevice`, `checkNVMeSessions`, `wwnMatches` | `gonvme`, NVMe clean-up |
| SCSI, multipath, PowerPath access | `pkg/scsi`, `pkg/multipath`, `pkg/powerpath` | `singleCall` | reads and writes of `/sys`; commands with contexts | kernel, multipathd, powermt |
| Logging, tracing, OS wrappers, mocks | `internal/`, `pkg/gobrickutils`, `inttests` | - | - | - |

Which of them are modelled, and how far, is in `PROJECT.json` (`components`).

### What is hard, and what correctness means

* **Clean-up.** Between "which map holds these disks", `multipath -f`, "is it
  gone" and each `echo 1 > delete`, multipathd may re-assemble the map, somebody
  may open it, a link may fail or recover, and another call may clean the same
  volume. Deleting a disk from under a live map loses data in flight. Correct
  means: an unforced call deletes only after the map it found was gone; without
  multipathd never from under a map; no device falls out of a loop with several
  error paths; a call ends although commands hang; and what a call reports as
  done is done, the first time and when it is retried.
* **Discovery.** Goroutines find devices and hand them over through a channel to
  a loop that stops reading at any time. Correct means: no device is lost on the
  way, decisions after the end of the discovery see all devices, the loop ends,
  and no goroutine is left blocked in its send.
* **Rate lock.** A read and a write in two critical sections of the cache, with
  a purge goroutine in between and a `Get` that ignores the expiry. Correct
  means: two logins on one key are more than the interval apart, a key reopens,
  and nobody waits for the mutex for ever.
* **Concurrent iSCSI connects.** They share permits, the answers of a
  singleflight leader with another context, the sessions of the host and the
  rate keys. Correct means: a session that is there is used, whoever logs in
  meanwhile; a connect through a daemon that does not run needs a call that asked
  for the daemons with an ended context; permits are neither lost nor doubled; a target just tried is tried again by force only;
  every call returns.
* **NVMe.** The result of the discovery passes over an unbuffered channel, to one
  of two loops that differ in when they read. Correct means: no goroutine is left
  at its send by a connect that was not cancelled, "not found" is true, and a
  success has the devices that were found. And `wwnMatches` must not take a
  device of another volume.
* **FC and RDM.** Rescans are scheduled over HBAs and targets that come and go.
  Correct means: a disk that stays is not missed, "not found" comes after all the
  rescans and each covers all paths, rescans are spaced, a clean-up covers all
  disks that can be named, and the waits end.

The hazards, each at its line and with the properties that cover it, are listed
in `PROJECT.json` (`hazards`).

## 2. Modules and the code

```
Throttle  <---refines--- RateLock <--- RateLockProofs, MCRateLock
HostDevices <--- HostDevicesProofs
     ^------- CleanDevices <--- CleanDevicesProofs, MCCleanDevices, MCCleanTwo
     '------- CleanByWWN   <--- CleanByWWNProofs, MCCleanByWWN
Limiter   <---refines--- ISCSIConnect <--- ISCSIConnectProofs, MCISCSIConnect
ISCSIDiscovery <--- ISCSIDiscoveryProofs, MCISCSIDiscovery
NVMeConnect    <--- NVMeConnectProofs, MCNVMeConnect
NVMeMatch      <--- MCNVMeMatch
FCConnect      <--- FCConnectProofs, MCFCConnect
```

**HostDevices** is the environment of a clean-up: the disks of one volume
(`attached`, `blocked`), its multipath map (`map`, `members`, `inUse`), the
`wwids` file, and whether multipathd runs. Everything in it is external; the
actions are what the kernel, multipathd and users do, at any moment. There is at
most one map (device-mapper uuids are unique), under any of several dm names, so
that a map can go and come back with another name.

**CleanDevices** has one action per call that `cleanDevices` and
`disconnectDevicesByDeviceName` make into another package. `pc` is the place
in the code; `devs` and `todo` are the `devices` slice and the rest of the
current loop; `dm`, `wwn`, `name`, `force` are the variables of that name; `cx`
is the context (`"flush"`: `cleanMultipathDevice`'s own timeout is over,
`"done"`: the caller's is); `hung` says the command of this step does not
answer. `dmGone`, `away`, `freed` and `skipped` are history variables: they are
read by no action. The two entries are `Disconnect` (by name) and `Clean` (what the
connectors' `cleanConnection` passes: any devices, resolved at any earlier time,
forced or not, with or without a WWN). `transport` tells the NVMe clean-up from
the SCSI one: the steps are the same, `Scanned` (an NVMe device is not among
`/sys/block/sd*`) and `LoopDone` (no PowerPath) are not.

| code | action |
|---|---|
| `disconnectDevicesByDeviceName` | `Exist`, `Children` (`getDMWWN`), `ResolveWWN`, `List` |
| `GetDMDeviceByChildren` | `Parent`, `ParentDone` |
| `cleanMultipathDevice` | `ReadWWID`, `Flush`, `CheckFlush`, `GiveUpFlush`, `RemoveWWID`, `FlushTimeout` |
| `retryFlushMultipathDevice` | `Flush`, `AttemptTimeout`, `CheckFlush` |
| the delete loop | `ReadState`, `WriteDelete`, `DelPath`, `AfterDelete`, `LoopDone` |
| PowerPath | `CheckPowerPath`, `FlushPowerPath` |
| contexts | `Hang`, `Killed`, `FlushTimeout`, `CtxDone` |

**CleanByWWN** is the FC path: `ShowPaths` is `multipathd show paths`, `Parent`
the `GetDMDeviceByChildren` whose result is only logged, `Flush` and `Verify`
the flush by name and `dmsetup`'s answer, `ReadState`/`WriteDelete` the deletes.
`Rescan` is the scan whose result the code assigns to a shadowed variable.

**ISCSIDiscovery** has the three connect functions as one (`mode`): their loops
make the same steps in the same order (`CheckCtx`, `Receive`/`Drained`,
`CheckComplete`, `GetWWN`, `GetParent`, `CheckLink`, `StartLastTry`,
`CheckLate`) and differ in which calls they make. `Discover(s)` is
`discoverDevice` for a session, `Close` the goroutine that waits and closes
`wgCH`. A device is named by the session that finds it.

**ISCSIConnect** is `ConnectVolume`, called by several goroutines. `free` and
`waiters` are the limiter; `flight` is the singleflight group (`Join`, and `Land`
for everyone aboard); `CheckTarget`, `RateCheck`, `PerformLogin`, `ReadBack` and
`EndCheck` are `checkISCSISessions` and `tryISCSILogin`, one target at a time,
over the sessions of the host, which change at any moment; `CheckDaemon` the two
daemon checks. `RateCheck` is one step, which RateLock implements. The connect
function (ISCSIDiscovery) and the clean-up (CleanDevices) are steps of any
outcome. `steady` and `tried` are histories. **Limiter** is what
`ConnectVolume`'s callers are promised by `limiter.Acquire` and the deferred
`Release`: calls are outside, waiting, inside or gone; no more are inside than
the limit, none waits while there is room and no line, they enter in the order
in which they came, and only a cancelled one is refused. It knows no permits,
flights or sessions: `Stage` maps the nine places of a call to its four.

**NVMeConnect** is one call of `ConnectVolume` or `DisconnectVolume`: `Discover`
is the goroutine of each of the two attempts, `Close` the one that closes `wgCH`,
and both connect functions share the steps of their loops (`CheckCtx`, `Receive`
or `GiveUpRead`, `CheckComplete`, `GetDM`, `CheckLink`, `StartLastTry`,
`CheckLate`), `Fail` falling back from the first to the second. `Receive` is the
send and the receive at once. **NVMeMatch** is `wwnMatches`, over WWNs cut into
the fields that its tokens and the array's nguid tell apart.

**FCConnect** is one call of FC's `ConnectVolume` or `DisconnectVolume` or of
`ConnectRDMVolume`: `GetHBAs`; the passes of `waitForDeviceWWN` (`FindForConnect`,
`Rescan`, `GetNames`, `ValidDevices`, `Select`); `GetDevices`, `Wait` and
`CheckValid`; and `cleanConnection` (`Clean`, `FindForClean`, `CleanNames`,
`CleanDevices`). A path is an HBA with a target; ports and disks appear and
vanish at any moment. `steady`, `slept` and `rescans` are histories.

**RateLock** has the ticker (`Clock`, a tick dropped when the last one still
waits), `Purge`, `Stop`, and `RateCheck` in its steps: `Lock`, then `Refuse`, or
`NotFound` and `SetEntry`. **Throttle** is what it promises: a grant of a key
closes it until the interval has passed.

### Abstractions

* The text of commands and files is reduced to what the callers tell apart;
  every command may also fail for no reason the model knows.
* `GetDevicesByWWN` and `multipathd show paths` take one snapshot of the host and
  may leave out any disk: one whose `wwid` file cannot be read and which `scsi_id`
  does not answer for, or a path that is not in the answer. `scsi_id` may hang like
  any other command. A list that is stale when it is used is covered in
  CleanDevices by `Clean`, which starts with any set of devices.
* `getDMWWN` and `getNVMEDMWWN` ask multipathd for the WWN if `GetDMChildren`
  fails. It is a glob, which fails on a malformed pattern only, so these lines
  (`base.go:410-419`, `436-445`) are not modelled.
* A failed `multipath -f` may have removed the map. A successful one has, in
  CleanDevices: the code takes its word (`base.go:388-393` returns nil for it
  although the device exists), so `FlushedFirst` and `NoDeleteUnderMap` rest on
  it. In CleanByWWN it may have left the map, because the code asks dmsetup. The side
  effects of `powermt check force` are not modelled.
* A volume has one map alias (mpatha); a wwid is known or not.
* `discoverDevice`'s waits are counted in seconds of its own loop;
  `endTime` and `waitDeviceTimeout` pass at any moment.
* gonvme, iscsiadm, udev and multipath answer anything at any time in the
  connect modules, except that a session read is that of the host (ISCSIConnect)
  and a device named is there (FCConnect).
* `manualSessionManagement` decides on one more command per target, which like
  the first succeeds or makes the target skipped; it is part of `CheckTarget`.
* A goroutine's nguid is empty exactly when it has no device (NVMeConnect).
* Opening and writing `device/delete` is one step; the read of `device/state`
  before it is another, and the disk may go, or go and come back, in between.
* Every place where the code goes on after an error, or stops, is kept.

## 3. Runs

| run | module | shows | bounds |
|---|---|---|---|
| `MCRateLock` | MCRateLock | `TypeOK`, `ImplementsThrottle`, `KeyReopens`, `CallReturns` | 2 callers, 2 keys, interval 1, a tick every 2 units, clock to 5: grants, refusals, expiry before, at and after a tick, a dropped tick, `Stop` |
| `MCCleanDevices` | MCCleanDevices | `TypeOK`, `FlushedFirst`, `FreedFirst`, `Accounted`, `NoDeleteUnderMap` | 2 paths, 2 dm names, one flush attempt; one call from any state of the host (`OneCallSpec`) while the host keeps moving |
| `MCCleanTwo` | MCCleanTwo | `NoDeleteUnderMap` | 2 calls, 2 paths, nothing else moves |
| `MCCleanLive` | MCCleanDevices | `CallReturns`, `CallBounded` | 1 path, 2 flush attempts, calls for ever, PowerPath on |
| `MCCleanByWWN` | MCCleanByWWN | `TypeOK`, `VerifiedFirst`, `Accounted` | 2 paths, 2 dm names, 2 flush attempts, calls for ever |
| `MCISCSIDiscovery` | MCISCSIDiscovery | `TypeOK`, `NothingLost`, `LaterPassSeesAll`, `ConnectReturns`, `GoroutinesEnd` | 2 sessions, `Rescans` 0 (so that a goroutine makes one rescan) |
| `MCISCSIConnect` | MCISCSIConnect | `TypeOK`, `ActiveFound`, `ModeRuns`, `PermitsAccounted`, `ImplementsLimiter`, `Throttled`, `EveryCallReturns` | 2 calls, 2 targets in the same or the other order, a limit of 1 or 2, multipathd running |
| `MCNVMeConnect` | MCNVMeConnect | `TypeOK`, `HandedOver`, `NotFoundIsTrue`, `SucceedsWithDevices`, `CallReturns`, `SendsEnd` | 3 devices (one more than are taken), 2 targets |
| `MCFCConnect` | MCFCConnect | `TypeOK`, `SteadyFound`, `CleanCovers`, `NotFoundMeansRescanned`, `RescansSpaced`, `CallBounded`, `CallReturns` | 2 HBAs, 2 targets, 3 of the 4 paths zoned, `LastRescan` 2 (3 rescans), 2 passes of a wait |
| `MCDiscoveryNotFound` | MCISCSIDiscovery | `NotFoundIsTrue` violated | 2 sessions, the code's 4 rescans |
| `MCWWNScannedCleaned` | MCCleanByWWN | `ScannedCleaned` violated | as MCCleanByWWN, one dm name |
| `MCNVMeMatch` | MCNVMeMatch | `OwnDevicesOnly` violated | 2 volumes, 2 values per field, either order |

Why these bounds are enough. Two paths are the least with which a loop stops in
the middle, a map has a member the call does not know of, and multipathd makes a
map by itself; two dm names the least with which a map comes back under another
one. The guards look at no more than one device and one map at a time, so a
third adds no new test. The safety properties of CleanDevices are proved for any
number of calls, devices, names and attempts, so the runs need not be larger.
Calls on one volume interact through the host alone, and a host that moves
freely does everything another call can do to it; `MCCleanTwo` shows the two
calls themselves, on a quiet host without multipathd, where `NoDeleteUnderMap`
has its teeth. Two calls are the least that share a flight, a session, a rate key
and a last permit; two targets in two orders the least with which they share the
first three and no flight. Two HBAs of which one does not see a target are the
least with which one HBA asks for a full rescan and the other does not; three
rescans make a first, a middle and a last pause. The proofs hold for all of these
numbers.

`CHECK_DEADLOCK FALSE` is set where the system stops: the clock's bound
(`MCRateLock`), one call per caller (`MCCleanDevices`, `MCCleanTwo`), the end of
a connect (`MCISCSIDiscovery`, `MCISCSIConnect`, `MCNVMeConnect`, `MCFCConnect`).

## 4. Fairness

* **Goroutines run** (`WF` of `Step`, `Discover`, `Close`, `Connect`,
  `ConnectDevice`, `Volume`): the Go
  scheduler is fair. Writing to `device/delete` is assumed to return: gobrick has
  no timeout on it, only the test for `blocked` in front of it.
* **Timers fire** (`WF` of `FlushTimeout`, `Expire`): `context.WithTimeout` sets
  them unconditionally (`base.go:347`, `iscsi.go:345`).
* **The caller's context ends a hang** (`WF` of `CtxDone`, in CleanDevices): an
  assumption about the caller. The comments of `pkg/powerpath/powerpath.go`
  (line 56) ask for it, `cleanDevices` itself does not see to it: with
  `context.Background()`, a `powermt` that hangs at `base.go:336-337` blocks the
  call for ever.
* **endTime passes** (`SF` of `CheckLate` returning): the loop looks at it again
  and again, and each second more of it is over.
* **select** (`SF` of `Receive`, in NVMeConnect): `readNVMeDevicesFromResultCH`
  chooses at random among ready cases, and its loop comes back to it.
* **No fairness for the host, the sessions or cancellations**: `CallReturns` of
  FCConnect and `EveryCallReturns` hold with the weak fairness of the calls alone,
  whatever never appears. A command of these modules returns, with any answer.
  `SendsEnd` leaves out the connect that was cancelled, whose goroutine the code
  leaves at its send for ever (`nvme.go:544`).
* **sync.Mutex** (`SF` of `Lock`): its starvation mode hands the mutex to a
  waiter that has waited for 1 ms. The other steps of `RateCheck`, the ticker and
  the purge need weak fairness only.

## 5. Proofs

`RateLockProofs` (assumes `RateAssumption`): `RateLockTypeOK`, and
`RateLockRefinesThrottle`, for all sets of callers and keys, all intervals and
tick periods. The inductive invariant says that the mutex is held exactly by
the caller between `Lock` and its return, so at most one is between the read
and the write; that an entry's expiry is its last grant plus the interval; and
that a key with no entry was never granted or expired before now. From it, a
caller about to write finds the throttle open, whatever the purge did since.
`RateLockNothingOverdue` is the other side, how long a key may stay closed: with
the ticker running and no tick waiting, the cache holds no entry that had expired
before the last tick. It needs nothing of the clock but that a tick is offered at
each multiple of the period.

`CleanDevicesProofs` (assumes `HostAssumption`, `CleanAssumption`): type
correctness with the bound of the attempts, `FlushedFirst`, `FreedFirst`,
`Accounted`, `NoDeleteUnderMap` and `CallBounded`, for any number of calls,
devices, map names and attempts.
The invariant `SafeInv` has four parts. `TypeInv` adds to the types that
attempts are bounded where they are counted. `FlushInv` carries "the map was
gone" from the check of a flush to the deletes. `AccountInv` says at each place
of the delete loop where each device is: to do, at hand, seen absent, or given
up. `UnderInv`, for a host without multipathd, says that the devices already
searched have no holder where no map was found, that the map found is the only
one there can be, and that after the flush no device of the call has one;
neither property alone is inductive, because the step that could break it is
many steps after the one that made it true. A host lemma (`HostShrinks`: without
multipathd maps only go) makes it hold against any number of other calls.
`FreedFirst` asks for less than `UnderInv` and of every host, multipathd running
or not: the device about to be deleted was free of a map at some moment of this
call. The history `freed` collects those devices; the invariant says that a
device already searched without a holder is in it, and that all devices of the
call are once the flush has been checked; it rests on the host never putting one
map directly in place of another (`MapThroughNone`).

`CleanCallBounded` is a variant. `Place` counts the steps that a call may still
make if nothing times out (the devices to search, the attempts to flush, three
steps for each device to delete), `Waits` the hangs and timeouts its context has
left, and `Work` is the two combined in the order in which the one may reset the
other. Every step that touches a call makes its `Work` smaller, and no step makes
it negative: so a call ends after at most `MostWork` of its steps, whatever hangs,
fails or is done by others. Fairness is only needed for those steps to be taken
(`CallReturns`, which TLC checks).

`ISCSIDiscoveryProofs` (assumes `DiscoveryAssumption`): type correctness with the
bound of the rescans, `NothingLost` and `LaterPassSeesAll` for every finite set
of sessions. The invariant relates the place of each goroutine to where its
device is (not found, in its hands, in the channel, in `devices`), says that
`wgCH` closed means all have ended, and that a pass which begins after that
drains all there is. `DiscoveryNeverBlocks` (`SendNeverBlocks`) is why no goroutine
leaks: one that has its device finds room in `devCH` in every reachable state,
whether or not anybody reads the channel any more, because what is in the channel
comes from other sessions and the channel has a slot for each.

`HostDevicesProofs` has the lemmas on the host that both clean-ups rest on: a
detach, a removed map and a step of the host keep it consistent.

`CleanByWWNProofs` (assumes `HostAssumption`, `WWNAssumption`): type correctness,
`VerifiedFirst` and `Accounted`, for any number of calls. `VerifyInv` says that
only a listing with a path gives the name of a map, and carries "the map was gone"
from dmsetup's answer into the loop; `AccountInv` is the loop's account of its
devices, from the flush on. `WWNCallBounded` is the variant of this clean-up,
built like that of CleanDevices.

`ISCSIConnectProofs` (assumes `ConnectAssumption`): all safety properties of the
run, for every finite set of calls and any targets, requests and limits. The
invariant is a conjunction of parts, each with its own step lemma: `FlightInv`
(one flight per question, and its leader runs it), `StayInv` (a session that
stays is still to be asked for or known), `KeyInv` (what was tried is closed),
`ModeInv` (who takes a daemon for running that does not run got the answer from a
call whose context had ended) and `PermitInv`, whose proof
is about the cardinality of the calls aboard a flight that lands. `Throttled`
follows from `KeyInv`.

Three more theorems are about the calls together. `ConnectRefinesLimiter`: every
step maps to a step of Limiter or to a stutter, for any limit and set of calls. The
permits are not in Limiter, so `PermitInv` turns `free > 0` into "fewer are inside
than the limit", and a landing flight into several calls that leave at once.
`ConnectNeverStuck` (`NeverStuck`): until all calls have returned, one of them can
take its next step. Calls hold their permit while they wait in `singleCall.Do`, and
others wait for the permit; the proof shows that there is no circle. `LineInv` says
that the queue is the calls that wait for a permit, each once, and `LeadInv` that a
leader is somewhere in its function: a waiting call has either a holder of a permit
before it, who moves or waits for a leader who moves, or a free permit and a head of
the queue. `ConnectCallBounded` (`CallBounded`): a call of n targets goes through at
most 4 n + 14 places, those its leader moves it to included. The last two together
are the termination of every set of calls up to the fairness of the Go scheduler,
for any number of them; `EveryCallReturns` is TLC's check of the rest.

`NVMeConnectProofs`: `HandedOver`, `NotFoundIsTrue`, `SucceedsWithDevices` and the
types, for any devices and targets. `SearchInv` says what the place of a goroutine
means, `LoopInv` how the loop's devices depend on its goroutine: what was handed
over, and nothing before.

`FCConnectProofs` (assumes `FCAssumption`): all safety properties of the run for
all HBAs, targets, zonings, rescans and register timeouts. `TimeInv` is the
arithmetic of the rescans: the seconds still to go and those slept make up the
pause, and every path of the HBAs has been rescanned each time. `SeenInv` follows
the disks that stay through a search. `FCCallBounded` (`CallBounded`) bounds the
steps of a call by what its counters leave it: each pass of the search takes a
second from `SecondsLeft`, in which a rescan pays for the longer pause after it,
and the waits for a map or a PowerPath device take from `RegisterSeconds`.

Stated as theorems only, because a run on top of the others would show no more
than their variants or invariants: `NothingOverdue`, `SendNeverBlocks`,
`NeverStuck`, the `CallBounded` of ISCSIConnect and that of CleanByWWN. TLC finds
all of them true on the instances of the runs of their modules (also that `Ready`
is ENABLED of `Step`: `Ready(c) <=> ENABLED Step(c)`); to see it, add them to the cfg.

Only model-checked: the liveness properties (`KeyReopens`, `CallReturns`,
`EveryCallReturns`, `ConnectReturns`, `GoroutinesEnd`, `SendsEnd`), because
fairness and ENABLED are beyond the prover. What the theorems add to them is said
above: a bound of the steps (CleanDevices, CleanByWWN, FCConnect, ISCSIConnect) and
the absence of a circle (ISCSIConnect). The loops of ISCSIDiscovery and NVMeConnect
have no such bound: they look again until a timer of theirs fires. The three
properties that the code violates are TLC's alone. NVMeMatch has no proof: its
one property is violated.

## 6. Findings

Each run with expectation "violation" checks one thing a comment, a message or a
test of the repository says, and shows how the code does otherwise. They are
quoted in `PROJECT.json`:

* `MCDiscoveryNotFound` (`iscsi.go:533`): "discovery complete but devices not
  found" with a device in the channel. The loop drains `devCH`, the last
  goroutine sends and ends, then the loop looks at `wgCH`.
* `MCWWNScannedCleaned` (`base.go:121`): `sdDisks, err :=` shadows the variable
  of the request; what the WWN scan finds is never deleted.
* `MCNVMeMatch` (`nvme.go:580-581`): `wwn[13:25]` and `wwn[26:31]` leave out the
  digits 10-12, 25 and 31 that the sample in the comment has in its tokens, so a
  device of another PowerStore volume may match.

Without a run, because they contradict nothing that is written down, or show in
one line what a run would repeat:

* `base.go:102`: the name is that of the last path listed; one orphan path skips
  the flush of a map that the call has just found.
* `base.go:145`: `errors.Is` with a fresh error value is never true, so a volume
  that is already gone cannot be disconnected without an error (the log says
  "nothing to clean").
* `base.go:161`: on a host without a running multipathd the disks of a map are
  deleted, and nobody has flushed it.
* `base.go:175`: a disconnection that failed after it removed the named device
  returns nil when it is repeated.
* `base.go:217`: an NVMe disconnection by name scans `/sys/block/sd*`, finds no
  device and returns nil.
* `pkg/multipath/multipath.go:147-154`, `pkg/powerpath/powerpath.go:77-85`: a command that fails for any reason
  other than the context says that the daemon does not run, so a connect may go
  around a daemon that runs without any cancellation. The comment of the code asks
  for the safe answer after a cancellation only; ISCSIConnect has these states, and
  `ModeRuns` is about the other direction.
* `base.go:337`: the PowerPath flush has no timeout of its own (section 4).
* `base.go:402`: a map without slaves is reported as disconnected and left.
* `fc.go:518`: the pass that makes the last rescan is the last look.
* `nvme.go:653`: a target without a session counts as one with a session.
* `rdm.go:121`: `rescanAllHosts` takes the number of hosts for their numbers, and
  ignores the connector's chroot.

## 7. What is not modelled, and why

* What the properties do not reach, although the models have part of it: whether
  the pass of `connectMultipathDevice` that calls `AddPath` has all devices
  (`iscsi.go:568`; `LaterPassSeesAll` is about the passes after it); a map that is
  back when the disks are deleted, after it was once gone (`base.go:277`); a disk
  that was replaced by one of another volume before its delete file is opened
  (`pkg/scsi/scsi.go:313`), and a list of devices whose names belong to another
  volume by now (`pkg/scsi/scsi.go:440`): HostDevices has one volume; and a call by
  WWN whose listing ends with an orphan path, which has no name of a map and is
  outside `VerifiedFirst` (`base.go:102`).
* WWNs of other than 32 digits in `wwnMatches` (`nvme.go:571` tests the length
  before the prefix is cut).
* The default ports and `normalizeISCSIPortal`, `tryEnableManualISCSISessionMGMT`
  beyond "a command that may fail", CHAP: strings, and options of one command.
* `cleanConnection` of the iSCSI connector, device by device: CleanDevices begins
  with any set of devices instead. So what a disconnect without a readable
  session leaves behind is not a property here.
* The singleflight group of the NVMe connector and of `pkg/scsi`: their answers
  are any answers, at any time.
* A connect composed with the clean-up of another: each is checked against a host
  that changes at any moment, which is all that either sees of the other.
* The parsing of command output and `/sys` files (`pkg/scsi`, `pkg/multipath`,
  `pkg/powerpath`): reduced to what the callers tell apart.
* Logging, tracing, OS wrappers: no state. Mocks, mock helpers and tests: read,
  not modelled.

## 8. Plan

Everything planned for the connectors and the clean-ups is in place. What would
add most from here: `cleanConnection` of the iSCSI connector over the sessions of
ISCSIConnect; the singleflight group as a module of its own that ISCSIConnect
and `GetDevicesByWWN` instantiate; and `getMultipathNameAndPaths` as an operator
on listings, against a reference definition. A theorem could say on
which fields two WWNs agree whenever `WwnMatches` takes one for the other.
