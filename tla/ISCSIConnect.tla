----------------------------- MODULE ISCSIConnect -----------------------------
(***************************************************************************)
(* iscsi.go: concurrent calls of ConnectVolume.  They share the limiter,   *)
(* the singleflight group through which they check sessions and daemons,   *)
(* the sessions of the host and the rate keys of the login loop.           *)
(* (manualSessionManagement only decides whether one more command is tried *)
(* for a target, which like the others succeeds or makes it skipped.)      *)
(*                                                                         *)
(* The group's keys for sessions are the joined targets in the order given,*)
(* so two calls with the same targets in another order do not share.  The  *)
(* connect functions that follow (ISCSIDiscovery) and the forced clean-up  *)
(* (CleanDevices) are steps of any outcome here.                           *)
(***************************************************************************)
EXTENDS Naturals, Sequences, FiniteSets, SequencesExt

CONSTANTS Call,     \* calls of ConnectVolume
          Target,   \* portal:target
          Requests, \* the lists of targets the calls ask for, call by call
          Hosts,    \* sets of daemons that can run
          Limits,   \* values of MaxParallelOperations
          None      \* not in a flight

ASSUME ConnectAssumption == /\ Requests \subseteq [Call -> Seq(Target)]
                            /\ Hosts \subseteq SUBSET {"powerpath", "multipath"}
                            /\ Limits \subseteq Nat \ {0}
                            /\ IsFiniteSet(Call)
                            /\ None \notin Call

Daemon == {"powerpath", "multipath"}

VARIABLES session,   \* per target: "none", "failed" or "active", seen by iscsiadm
          closed,    \* targets whose rate key is in loginLock's cache
          running,   \* daemons that run
          limit,     \* MaxParallelOperations
          free,      \* permits left in the limiter
          waiters,   \* calls that wait for one, in order
          pc, out,   \* per call: where it is, what it returned
          ctx,       \* per call: "live" or "done"
          req,       \* per call: the targets of info
          flight,    \* per call: the call that runs the function it waits for,
                     \* itself if it is the one that runs it, or None
          phase,     \* per call that checks sessions: where it is
          left,      \* ... the targets still to be asked for
          toLogin,   \* ... targetsToLogin
          active,    \* ... the targets of activeSessions
          fresh,     \* ... the targets of newSession
          daemons,   \* per call: daemons it believes to run
          steady,    \* history, per call that checks sessions: targets active since
                     \* it began, with no command that failed
          tried      \* history: targets tried since their rate key was reopened

shared  == <<session, closed, steady, tried>>
limiter == <<free, waiters>>
check   == <<phase, left, toLogin, active, fresh>>
inputs  == <<ctx, req, running, limit>>
vars    == <<shared, limiter, pc, out, flight, check, daemons, inputs>>

PerCall(x) == [c \in Call |-> x]

Init == /\ session \in [Target -> {"none", "failed", "active"}]
        /\ closed = {} /\ tried = {}
        /\ running \in Hosts
        /\ limit \in Limits /\ free = limit /\ waiters = <<>>
        /\ pc = PerCall("acquire") /\ out = PerCall("none")
        /\ ctx = PerCall("live") /\ req \in Requests
        /\ flight = PerCall(None) /\ phase = PerCall("idle")
        /\ left = PerCall(<<>>) /\ toLogin = PerCall(<<>>)
        /\ active = PerCall({}) /\ fresh = PerCall({})
        /\ daemons = PerCall({})
        /\ steady = PerCall({})

-------------------------------------------------------------------------------
(* The limiter                                                             *)

From(c, a, b) == pc[c] = a /\ pc' = [pc EXCEPT ![c] = b]

\* The call ends and its deferred Release runs.
Returns(c, why) == /\ pc' = [pc EXCEPT ![c] = "returned"]
                   /\ out' = [out EXCEPT ![c] = why]
                   /\ free' = free + 1
                   /\ UNCHANGED waiters

\* "too many parallel operations. try later"
Refused(c) == /\ pc' = [pc EXCEPT ![c] = "returned"]
              /\ out' = [out EXCEPT ![c] = "busy"]

\* limiter.Acquire: first come, first served; a context that is done is refused.
Acquire(c) ==
  /\ pc[c] = "acquire"
  /\ \/ ctx[c] = "done" /\ Refused(c) /\ UNCHANGED limiter
     \/ /\ ctx[c] = "live" /\ free > 0 /\ waiters = <<>>
        /\ free' = free - 1
        /\ From(c, "acquire", "validate") /\ UNCHANGED <<waiters, out>>
     \/ /\ ctx[c] = "live" /\ (free = 0 \/ waiters # <<>>)
        /\ waiters' = Append(waiters, c)
        /\ From(c, "acquire", "queued") /\ UNCHANGED <<free, out>>
  /\ UNCHANGED <<shared, flight, check, daemons, inputs>>

Queued(c) ==
  /\ pc[c] = "queued"
  /\ \/ /\ ctx[c] = "done" /\ Refused(c) /\ UNCHANGED free
        /\ \E i \in DOMAIN waiters : waiters[i] = c /\ waiters' = RemoveAt(waiters, i)
     \/ /\ ctx[c] = "live" /\ free > 0 /\ waiters # <<>> /\ Head(waiters) = c
        /\ free' = free - 1 /\ waiters' = Tail(waiters)
        /\ From(c, "queued", "validate") /\ UNCHANGED out
  /\ UNCHANGED <<shared, flight, check, daemons, inputs>>

\* addDefaultISCSIPortToVolumeInfoPortals and validateISCSIVolumeInfo
Validate(c) ==
  /\ pc[c] = "validate"
  /\ IF req[c] = <<>> THEN Returns(c, "invalid")
                      ELSE From(c, "validate", "sessions") /\ UNCHANGED <<out, limiter>>
  /\ UNCHANGED <<shared, flight, check, daemons, inputs>>

-------------------------------------------------------------------------------
(* singleCall.Do                                                           *)

Asks(c) == pc[c] \in {"sessions"} \cup Daemon

\* The key of the group, for a call that asks.
FlightKey(c) == <<pc[c], IF pc[c] = "sessions" THEN req[c] ELSE <<>>>>

Leads(d) == flight[d] = d

\* A call waits for the one that runs the function for its key, or runs it.  The
\* one that waits does not look at its own context.
Join(c) ==
  /\ Asks(c) /\ flight[c] = None
  /\ \/ /\ \E d \in Call : /\ Leads(d) /\ FlightKey(d) = FlightKey(c)
                           /\ flight' = [flight EXCEPT ![c] = d]
        /\ UNCHANGED <<steady, check>>
     \/ /\ \A d \in Call : ~(Leads(d) /\ FlightKey(d) = FlightKey(c))
        /\ flight' = [flight EXCEPT ![c] = c]
        /\ IF pc[c] = "sessions"
           THEN /\ phase' = [phase EXCEPT ![c] = "targets"]
                /\ left' = [left EXCEPT ![c] = req[c]]
                /\ steady' = [steady EXCEPT ![c] =
                                {t \in ToSet(req[c]) : session[t] = "active"}]
                /\ UNCHANGED <<toLogin, active, fresh>>
           ELSE UNCHANGED <<steady, check>>
  /\ UNCHANGED <<session, closed, tried, limiter, pc, out, daemons, inputs>>

\* The calls that get the answer of c.
Aboard(c) == {e \in Call : flight[e] = c}

\* The function has returned: everyone aboard goes on to b.
Land(c, b) ==
  /\ pc' = [e \in Call |-> IF e \in Aboard(c) THEN b ELSE pc[e]]
  /\ flight' = [e \in Call |-> IF e \in Aboard(c) THEN None ELSE flight[e]]

-------------------------------------------------------------------------------
(* checkISCSISessions and tryISCSILogin, run by c                          *)

In(c, p) == phase[c] = p

Goes(c, p) == phase' = [phase EXCEPT ![c] = p]

\* A command for t failed.
Unsteady(c, t) == steady' = [steady EXCEPT ![c] = @ \ {t}]

\* The next target: CreateOrUpdateNode, the manual mode if it is still tried, and
\* its session.  A session that is there but not logged in is neither used nor
\* logged in again.
CheckTarget(c) ==
  /\ In(c, "targets") /\ left[c] # <<>>
  /\ left' = [left EXCEPT ![c] = Tail(@)]
  /\ LET t == Head(left[c])
     IN  \/ Unsteady(c, t) /\ UNCHANGED <<toLogin, active>>
         \/ /\ toLogin' = IF session[t] = "none" THEN [toLogin EXCEPT ![c] = Append(@, t)]
                                                 ELSE toLogin
            /\ active' = IF session[t] = "active" THEN [active EXCEPT ![c] = @ \cup {t}]
                                                  ELSE active
            /\ UNCHANGED steady
  /\ UNCHANGED <<session, closed, tried, limiter, pc, out, flight, phase, fresh,
                 daemons, inputs>>

\* force: no session of the request is active.
Forced(c) == active[c] = {}

\* Mutant of the next definition: force || RateCheck(...), which leaves the key
\* alone when force is true.
ClosesUnforced(c, t) == IF Forced(c) THEN closed ELSE closed \cup {t}

\* RateCheck(...) || force: the key is closed in any case.
Closes(c, t) == closed \cup {t}

\* The rate check of the next target without a session (RateLock, taken as the one
\* step that it implements), and its login or "rate limit - skip login".
RateCheck(c) ==
  /\ In(c, "targets") /\ left[c] = <<>> /\ toLogin[c] # <<>>
  /\ LET t == Head(toLogin[c])
     IN  /\ closed' = Closes(c, t)
         /\ IF t \in closed /\ ~Forced(c)
            THEN toLogin' = [toLogin EXCEPT ![c] = Tail(@)] /\ UNCHANGED <<phase, tried>>
            ELSE Goes(c, "perform") /\ tried' = tried \cup {t} /\ UNCHANGED toLogin
  /\ UNCHANGED <<session, steady, limiter, pc, out, flight, left, active, fresh,
                 daemons, inputs>>

\* PerformLogin, for which a session that exists is a success.
PerformLogin(c) ==
  /\ In(c, "perform")
  /\ LET t == Head(toLogin[c])
     IN  \/ /\ session' = IF session[t] = "none" THEN [session EXCEPT ![t] = "active"]
                                                 ELSE session
            /\ Goes(c, "read") /\ UNCHANGED <<toLogin, steady>>
         \/ /\ toLogin' = [toLogin EXCEPT ![c] = Tail(@)] /\ Unsteady(c, t)
            /\ Goes(c, "targets") /\ UNCHANGED session
  /\ UNCHANGED <<closed, tried, limiter, pc, out, flight, left, active, fresh,
                 daemons, inputs>>

\* The session is read again: it need only be there.
ReadBack(c) ==
  /\ In(c, "read") /\ Goes(c, "targets")
  /\ toLogin' = [toLogin EXCEPT ![c] = Tail(@)]
  /\ LET t == Head(toLogin[c])
     IN  \/ /\ session[t] # "none"
            /\ fresh' = [fresh EXCEPT ![c] = @ \cup {t}] /\ UNCHANGED steady
         \/ Unsteady(c, t) /\ UNCHANGED fresh
  /\ UNCHANGED <<session, closed, tried, limiter, pc, out, flight, left, active,
                 daemons, inputs>>

\* Mutant of the next definition: sessions, err = newSession, nil.
OnlyFresh(c) == IF fresh[c] # {} THEN fresh[c] ELSE active[c]

\* append(activeSessions, newSession...)
Usable(c) == active[c] \cup fresh[c]

\* Mutant of the next definition: an early return ahead of a Release that is not
\* deferred.
ReleasedBy(n) == 0

\* Mutant of the next definition: a Release besides the deferred one.
ReleasesTwice(n) == n + n

\* The deferred Releases of the calls that return.
Releases(n) == n

\* The check is over; without a session everyone aboard returns its error.
EndCheck(c) ==
  /\ In(c, "targets") /\ left[c] = <<>> /\ toLogin[c] = <<>>
  /\ Goes(c, "idle")
  /\ active' = [active EXCEPT ![c] = {}] /\ fresh' = [fresh EXCEPT ![c] = {}]
  /\ steady' = [steady EXCEPT ![c] = {}]
  /\ IF Usable(c) = {}
     THEN /\ Land(c, "returned")
          /\ out' = [e \in Call |-> IF e \in Aboard(c) THEN "nosession" ELSE out[e]]
          /\ free' = free + Releases(Cardinality(Aboard(c)))
     ELSE /\ Land(c, "powerpath")
          /\ UNCHANGED <<out, free>>
  /\ UNCHANGED <<session, closed, tried, waiters, left, toLogin, daemons, inputs>>

-------------------------------------------------------------------------------
(* IsDaemonRunning, run by c, and the rest of ConnectVolume                *)

\* Mutant of the next definition: no answer is taken for a yes.
SaysRunningIfUnknown(c, d) == {TRUE, (d \in running)}

\* The command answers; or it fails, also for a daemon that runs, which says no unless
\* the context of the call that runs it is done: "it is safer to return true if context
\* was canceled".
SaysRunning(c, d) == {(d \in running), (ctx[c] = "done")}

\* The answer goes to everyone aboard.
CheckDaemon(c, d) ==
  /\ pc[c] = d /\ Leads(c)
  /\ Land(c, IF d = "powerpath" THEN "multipath" ELSE "connect")
  /\ \E yes \in SaysRunning(c, d) :
        daemons' = [e \in Call |-> IF e \in Aboard(c) /\ yes THEN daemons[e] \cup {d}
                                                             ELSE daemons[e]]
  /\ UNCHANGED <<shared, limiter, out, check, inputs>>

\* The connect function that is called.
Mode(c) == IF "powerpath" \in daemons[c] THEN "powerpath"
           ELSE IF "multipath" \in daemons[c] THEN "multipath" ELSE "single"

\* The connect function, CheckDeviceIsValid, and a forced cleanConnection after
\* either has failed; its error is dropped.
ConnectDevice(c) ==
  /\ \/ From(c, "connect", "clean") /\ UNCHANGED <<out, limiter>>
     \/ pc[c] = "connect" /\ Returns(c, "device")
  /\ UNCHANGED <<shared, flight, check, daemons, inputs>>

Clean(c) == /\ pc[c] = "clean" /\ Returns(c, "failed")
            /\ UNCHANGED <<shared, flight, check, daemons, inputs>>

-------------------------------------------------------------------------------
(* What happens around the calls                                           *)

Cancel(c) == /\ ctx[c] = "live" /\ pc[c] \notin {"connect", "clean", "returned"}
             /\ ctx' = [ctx EXCEPT ![c] = "done"]
             /\ UNCHANGED <<shared, limiter, pc, out, flight, check, daemons, req, running,
                             limit>>

\* A session comes, fails, recovers or goes, while someone looks.
SessionChanges(t) ==
  /\ \E c \in Call : phase[c] # "idle"
  /\ \E s \in {"none", "failed", "active"} \ {session[t]} :
        session' = [session EXCEPT ![t] = s]
  /\ steady' = [c \in Call |-> steady[c] \ {t}]
  /\ UNCHANGED <<closed, tried, limiter, pc, out, flight, check, daemons, inputs>>

\* The cache purges the rate key of t (RateLock).
Reopen(t) ==
  /\ t \in closed
  /\ closed' = closed \ {t} /\ tried' = tried \ {t}
  /\ UNCHANGED <<session, steady, limiter, pc, out, flight, check, daemons, inputs>>

Step(c) == \/ Acquire(c) \/ Queued(c) \/ Validate(c) \/ Join(c)
           \/ CheckTarget(c) \/ RateCheck(c) \/ PerformLogin(c)
           \/ ReadBack(c) \/ EndCheck(c)
           \/ (\E d \in Daemon : CheckDaemon(c, d))
           \/ ConnectDevice(c) \/ Clean(c)

Next == \/ \E c \in Call : Step(c) \/ Cancel(c)
        \/ \E t \in Target : SessionChanges(t) \/ Reopen(t)

Spec == Init /\ [][Next]_vars

\* The goroutine of every call runs.
FairSpec == Spec /\ \A c \in Call : WF_vars(Step(c))

-------------------------------------------------------------------------------
TypeOK ==
  /\ session \in [Target -> {"none", "failed", "active"}]
  /\ closed \in SUBSET Target /\ tried \in SUBSET Target
  /\ running \in Hosts
  /\ limit \in Limits /\ free \in 0..limit /\ waiters \in Seq(Call)
  /\ pc \in [Call -> {"acquire", "queued", "validate", "sessions", "powerpath",
                      "multipath", "connect", "clean", "returned"}]
  /\ out \in [Call -> {"none", "busy", "invalid", "nosession", "device", "failed"}]
  /\ ctx \in [Call -> {"live", "done"}] /\ req \in Requests
  /\ flight \in [Call -> Call \cup {None}]
  /\ phase \in [Call -> {"idle", "targets", "perform", "read"}]
  /\ left \in [Call -> Seq(Target)] /\ toLogin \in [Call -> Seq(Target)]
  /\ active \in [Call -> SUBSET Target] /\ fresh \in [Call -> SUBSET Target]
  /\ daemons \in [Call -> SUBSET Daemon]
  /\ steady \in [Call -> SUBSET Target]

\* A target that is logged in while the sessions are checked, and for which no
\* command fails, is among the sessions that everyone aboard goes on with, however
\* other calls log in meanwhile; in particular "can't find active iSCSI session" is
\* then not returned (checkISCSISessions).
ActiveFound ==
  \A c \in Call : phase[c] = "targets" /\ left[c] = <<>> /\ toLogin[c] = <<>>
                     => steady[c] \subseteq Usable(c)

\* A target that any call has tried, forced or not, is not tried again without force
\* before its rate key is purged (RateCheck is evaluated before force).
Throttled ==
  [][\A c \in Call : phase[c] # "perform" /\ phase'[c] = "perform" /\ ~Forced(c)
        => Head(toLogin[c]) \notin tried]_vars

\* A call that an answer about powerpath has reached.
Checked(d) == \/ pc[d] \in {"multipath", "connect", "clean"}
              \/ pc[d] = "returned" /\ out[d] \in {"device", "failed"}

\* A call connects through a daemon that does not run only if some call, itself or one
\* whose answer it shared, went to the daemons although its context ended; a call that
\* ended earlier, refused or without a session, misleads nobody.  (Not to use a daemon
\* that runs takes no more than a command that fails.)
ModeRuns ==
  \A c \in Call : pc[c] = "connect" =>
     \/ Mode(c) \in running \cup {"single"}
     \/ \E d \in Call : ctx[d] = "done" /\ Checked(d)

\* Permits are neither lost nor doubled: as many are free as the limit leaves to
\* the calls that hold one (the deferred Releases, early returns included).
PermitsAccounted ==
  LET holders == {c \in Call : pc[c] \notin {"acquire", "queued", "returned"}}
  IN  free + Cardinality(holders) = limit

\* The limiter that the callers see.
Stage(c) == CASE pc[c] = "acquire"  -> "outside"
              [] pc[c] = "queued"   -> "waiting"
              [] pc[c] = "returned" -> "gone"
              [] OTHER              -> "inside"

L == INSTANCE Limiter WITH stage     <- [c \in Call |-> Stage(c)],
                           line      <- waiters,
                           cancelled <- {c \in Call : ctx[c] = "done"}

\* Through shared flights, early returns and cancellations, the connector admits its
\* calls as a limiter should: up to the limit, in order, none without need kept
\* waiting (the Acquire and the deferred Release of ConnectVolume).
ImplementsLimiter == L!Spec

\* The calls that can take their next step now.
Ready(c) == \/ pc[c] \in {"acquire", "validate", "connect", "clean"}
            \/ pc[c] = "queued" /\ ctx[c] = "done"
            \/ pc[c] = "queued" /\ free > 0 /\ waiters # <<>> /\ Head(waiters) = c
            \/ Asks(c) /\ flight[c] = None
            \/ Leads(c) /\ (pc[c] \in Daemon \/ phase[c] # "idle")

\* Calls that wait for a permit and calls that wait for a flight never wait for each
\* other in a circle: until all have returned, some call can move (ConnectVolume holds
\* its permit while it waits in singleCall.Do).
NeverStuck == (\A c \in Call : pc[c] = "returned") \/ (\E c \in Call : Ready(c))

Local(c) == <<pc[c], flight[c], phase[c], left[c], toLogin[c]>>

\* The steps a call has left in its check: to ask for a target, and to pass its rate
\* check, log in and read back.
CheckWork(c) == 4 * Len(left[c]) + 3 * Len(toLogin[c])
                + (CASE phase[c] = "targets" -> 2 [] phase[c] = "perform" -> 1 [] OTHER -> 0)

MostCheck(c) == 4 * Len(req[c]) + 3

\* The steps a call has left, aboard the flights of others or leading its own.
Work(c) ==
  CASE pc[c] = "acquire"   -> 11 + MostCheck(c)
    [] pc[c] = "queued"    -> 10 + MostCheck(c)
    [] pc[c] = "validate"  -> 9 + MostCheck(c)
    [] pc[c] = "sessions"  -> IF flight[c] = None THEN 8 + MostCheck(c)
                              ELSE IF Leads(c) THEN 8 + CheckWork(c) ELSE 7
    [] pc[c] = "powerpath" -> IF flight[c] = None THEN 6 ELSE 5
    [] pc[c] = "multipath" -> IF flight[c] = None THEN 4 ELSE 3
    [] pc[c] = "connect"   -> 2
    [] pc[c] = "clean"     -> 1
    [] pc[c] = "returned"  -> 0

\* A call of n targets goes through at most 4 * n + 14 changes of its place, its own
\* or those that its leader makes for it, whatever sessions, other calls and
\* cancellations do meanwhile (the loops of checkISCSISessions and tryISCSILogin).
CallBounded ==
  [][\A c \in Call : Local(c)' # Local(c) => Work(c)' >= 0 /\ Work(c)' < Work(c)]_vars

\* Every call returns: no one waits for ever for a permit or a flight.
EveryCallReturns == <>(\A c \in Call : pc[c] = "returned")
===============================================================================
