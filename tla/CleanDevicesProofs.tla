-------------------------- MODULE CleanDevicesProofs --------------------------
(***************************************************************************)
(* The safety of CleanDevices for every number of calls, devices, map      *)
(* names and flush retries, whatever the host does.  The invariant has     *)
(* four parts that are preserved each on its own: what was flushed         *)
(* (FlushInv), which device is in which stage of the loop (AccountInv),    *)
(* which was seen free (FreedInv) and, without multipathd, that a map      *)
(* found absent stays absent (UnderInv).                                   *)
(***************************************************************************)
EXTENDS CleanDevices, HostDevicesProofs, FiniteSetTheorems

\* TypeOK without the host and the histories.
CallTypeOK ==
  /\ pc \in [Caller -> {"idle", "parent"} \cup Resolving \cup Flushing \cup Deleting]
  /\ res \in [Caller -> {"none", "ok", "err"}]
  /\ force \in [Caller -> BOOLEAN]
  /\ name \in [Caller -> Path \cup Map \cup {None}]
  /\ transport \in {"scsi", "nvme"}
  /\ wwn \in [Caller -> BOOLEAN]
  /\ devs \in [Caller -> SUBSET Path]
  /\ todo \in [Caller -> SUBSET Path]
  /\ cur \in [Caller -> Path \cup {None}]
  /\ dm \in [Caller -> Map \cup {None}]
  /\ tries \in [Caller -> 0..FlushRetries]
  /\ cx \in [Caller -> {"live", "flush", "done"}]
  /\ hung \in [Caller -> BOOLEAN]
  /\ skipped \in [Caller -> SUBSET Path]

\* What the types alone do not say: only a command hangs, a flush attempt only
\* within its retries, and the device written to is a device.
Attempts ==
  \A c \in Caller : /\ hung[c] => pc[c] \in Command /\ (pc[c] = "flush" => RetriesLeft(c))
                    /\ pc[c] = "write" => cur[c] \in Path

\* The beginning of a call keeps the types and leaves the host alone.
LEMMA StartType == ASSUME CallTypeOK, NEW c \in Caller, Start(c) PROVE CallTypeOK' /\ host' = host
<1>1. ASSUME NEW at \in {"exist", "parent"}, NEW n \in Path \cup Map \cup {None}, NEW f \in BOOLEAN,
             NEW ds \in SUBSET Path, NEW w \in BOOLEAN, Begin(c, at, n, f, ds, w)
      PROVE CallTypeOK' /\ host' = host
  BY <1>1, CleanAssumption DEF CallTypeOK, Begin, Go, Resolving, Flushing, Deleting
<1> QED BY <1>1 DEF Start, Disconnect, Clean

\* So does every step of a call.
LEMMA StepType == ASSUME HostTypeOK, CallTypeOK, Attempts, NEW c \in Caller, Step(c)
                  PROVE  CallTypeOK' /\ HostTypeOK'
<1> USE CleanAssumption DEF CallTypeOK, HostTypeOK, host, request, loop, found, control,
        Go, Return, Resolving, Flushing, Deleting
<1>1. CASE Exist(c)
  BY <1>1 DEF Exist
<1>2. CASE Children(c)
  BY <1>2 DEF Children
<1>3. CASE ResolveWWN(c)
  BY <1>3 DEF ResolveWWN
<1>4. CASE List(c)
  BY <1>4 DEF List, Scanned
<1>5. ASSUME NEW p \in Path, Parent(c, p) PROVE CallTypeOK' /\ HostTypeOK'
  BY <1>5 DEF Parent, Holder
<1>6. ASSUME NEW p \in Path, ReadState(c, p) PROVE CallTypeOK' /\ HostTypeOK'
  <2>1. CASE p \in attached \ blocked
    BY <1>6, <2>1 DEF ReadState
  <2>2. CASE p \notin attached \ blocked
    <3>1. /\ todo' = [todo EXCEPT ![c] = @ \ {p}]
          /\ cur' = [cur EXCEPT ![c] = p]
          /\ skipped' = [skipped EXCEPT ![c] = @ \cup {p}]
          /\ pc' \in [Caller -> {"idle", "parent"} \cup Resolving \cup Flushing \cup Deleting]
          /\ res' \in [Caller -> {"none", "ok", "err"}]
      BY <1>6, <2>2 DEF ReadState, AfterDelete, GiveUp
    <3>2. UNCHANGED <<host, request, found, control>>
      BY <1>6 DEF ReadState
    <3> QED BY <3>1, <3>2 DEF TypeOK
  <2> QED BY <2>1, <2>2
<1>7. CASE ParentDone(c)
  BY <1>7 DEF ParentDone
<1>8. CASE ReadWWID(c)
  BY <1>8 DEF ReadWWID
<1>9. CASE Flush(c)
  <2>1. /\ pc' \in [Caller -> {"idle", "parent"} \cup Resolving \cup Flushing \cup Deleting]
        /\ tries' \in [Caller -> 0..FlushRetries]
        /\ UNCHANGED <<res, request, found, loop, cx, hung, skipped>>
    BY <1>9 DEF Flush, RetriesLeft
  <2>2. RemoveMap \/ UNCHANGED host
    BY <1>9 DEF Flush
  <2>3. HostTypeOK'
    <3>1. CASE RemoveMap
      BY <3>1 DEF RemoveMap
    <3>2. CASE UNCHANGED host
      BY <3>2
    <3> QED BY <2>2, <3>1, <3>2
  <2> QED BY <2>1, <2>3
<1>10. CASE CheckFlush(c)
  BY <1>10 DEF CheckFlush
<1>11. CASE GiveUpFlush(c)
  BY <1>11 DEF GiveUpFlush, LeaveFlush
<1>12. CASE RemoveWWID(c)
  BY <1>12 DEF RemoveWWID, LeaveFlush
<1>13. CASE WriteDelete(c)
  <2>1. /\ pc' \in [Caller -> {"idle", "parent"} \cup Resolving \cup Flushing \cup Deleting]
        /\ res' \in [Caller -> {"none", "ok", "err"}]
    BY <1>13 DEF WriteDelete, AfterDelete
  <2>2. UNCHANGED <<request, found, loop, control>>
    BY <1>13 DEF WriteDelete
  <2>3. cur[c] \in Path
    BY <1>13 DEF WriteDelete, Attempts
  <2>4. skipped' \in [Caller -> SUBSET Path]
    <3>1. skipped' = skipped \/ skipped' = [skipped EXCEPT ![c] = @ \cup {cur[c]}]
      BY <1>13, <2>2 DEF WriteDelete, GiveUp
    <3> QED BY <2>3, <3>1
  <2>5. Detach(cur[c]) \/ UNCHANGED host
    BY <1>13 DEF WriteDelete
  <2>6. HostTypeOK'
    BY <2>3, <2>5 DEF Detach
  <2> QED BY <2>1, <2>2, <2>4, <2>6
<1>14. CASE DelPath(c)
  BY <1>14 DEF DelPath
<1>15. CASE LoopDone(c)
  BY <1>15 DEF LoopDone
<1>16. CASE CheckPowerPath(c)
  BY <1>16 DEF CheckPowerPath
<1>17. CASE FlushPowerPath(c)
  BY <1>17 DEF FlushPowerPath
<1>18. CASE AttemptTimeout(c)
  BY <1>18 DEF AttemptTimeout, Attempts, RetriesLeft
<1>19. CASE Killed(c)
  BY <1>19 DEF Killed
<1> QED
  BY <1>1, <1>2, <1>3, <1>4, <1>5, <1>6, <1>7, <1>8, <1>9, <1>10, <1>11, <1>12, <1>13,
     <1>14, <1>15, <1>16, <1>17, <1>18, <1>19 DEF Step

\* A step of a call hangs only in a command that may run.
LEMMA StepAttempts == ASSUME CallTypeOK, Attempts, NEW c \in Caller, Step(c)
                      PROVE  Attempts'
<1> USE DEF CallTypeOK, Attempts, RetriesLeft, Command, request, loop, found, control,
        Go, Return
<1>1. CASE Exist(c)
  BY <1>1 DEF Exist
<1>2. CASE Children(c)
  BY <1>2 DEF Children
<1>3. CASE ResolveWWN(c)
  BY <1>3 DEF ResolveWWN
<1>4. CASE List(c)
  BY <1>4 DEF List, Scanned
<1>5. ASSUME NEW p \in Path, Parent(c, p) PROVE Attempts'
  BY <1>5 DEF Parent
<1>6. ASSUME NEW p \in Path, ReadState(c, p) PROVE Attempts'
  BY <1>6 DEF ReadState, AfterDelete
<1>7. CASE ParentDone(c)
  BY <1>7 DEF ParentDone
<1>8. CASE ReadWWID(c)
  BY <1>8 DEF ReadWWID
<1>9. CASE Flush(c)
  BY <1>9 DEF Flush
<1>10. CASE CheckFlush(c)
  BY <1>10 DEF CheckFlush
<1>11. CASE GiveUpFlush(c)
  BY <1>11 DEF GiveUpFlush
<1>12. CASE RemoveWWID(c)
  BY <1>12 DEF RemoveWWID
<1>13. CASE WriteDelete(c)
  BY <1>13 DEF WriteDelete, AfterDelete
<1>14. CASE DelPath(c)
  BY <1>14 DEF DelPath
<1>15. CASE LoopDone(c)
  BY <1>15 DEF LoopDone
<1>16. CASE CheckPowerPath(c)
  BY <1>16 DEF CheckPowerPath
<1>17. CASE FlushPowerPath(c)
  BY <1>17 DEF FlushPowerPath
<1>18. CASE AttemptTimeout(c)
  BY <1>18 DEF AttemptTimeout
<1>19. CASE Killed(c)
  BY <1>19 DEF Killed
<1> QED
  BY <1>1, <1>2, <1>3, <1>4, <1>5, <1>6, <1>7, <1>8, <1>9, <1>10, <1>11, <1>12,
     <1>13, <1>14, <1>15, <1>16, <1>17, <1>18, <1>19 DEF Step

HistTypeOK == /\ dmGone \in [Caller -> BOOLEAN]
              /\ away \in [Caller -> SUBSET Path]
              /\ freed \in [Caller -> SUBSET Path]

TypeInv == TypeOK /\ Attempts

\* TypeOK in the parts that are proved apart.
LEMMA TypeSplit == /\ TypeOK <=> HostTypeOK /\ CallTypeOK /\ HistTypeOK
                   /\ TypeOK' <=> HostTypeOK' /\ CallTypeOK' /\ HistTypeOK'
  BY DEF TypeOK, CallTypeOK, HistTypeOK

\* Every step keeps the types.
LEMMA NextType == TypeInv /\ [Next]_vars => TypeInv'
<1> SUFFICES ASSUME TypeInv, [Next]_vars PROVE TypeInv'
  OBVIOUS
<1> USE TypeSplit DEF TypeInv
<1>1. CASE UNCHANGED vars
  <2>1. TypeOK'
    BY <1>1 DEF vars, call, history, host, request, loop, found, control, TypeOK, HostTypeOK
  <2>2. Attempts'
    BY <1>1 DEF vars, call, loop, control, Attempts, RetriesLeft
  <2> QED BY <2>1, <2>2
<1>2. ASSUME Remember, HistTypeOK PROVE HistTypeOK'
  BY <1>2 DEF Remember, Since, HistTypeOK
<1>3. ASSUME HostNext, UNCHANGED call PROVE HostTypeOK' /\ CallTypeOK' /\ Attempts'
  <2>1. HostTypeOK'
    BY <1>3, HostStep
  <2>2. CallTypeOK' /\ Attempts'
    BY <1>3 DEF call, request, loop, found, control, CallTypeOK, Attempts, RetriesLeft
  <2> QED BY <2>1, <2>2
<1>4. ASSUME NEW c \in Caller, Start(c) PROVE HostTypeOK' /\ CallTypeOK' /\ Attempts'
  <2>1. CallTypeOK' /\ host' = host
    BY <1>4, StartType
  <2>2. Attempts'
    BY <1>4 DEF Start, Disconnect, Clean, Begin, Go, Attempts, RetriesLeft, Command, CallTypeOK
  <2> QED BY <2>1, <2>2 DEF host, HostTypeOK
<1>5. ASSUME NEW c \in Caller, Step(c) PROVE HostTypeOK' /\ CallTypeOK' /\ Attempts'
  BY <1>5, StepType, StepAttempts
<1>6. ASSUME NEW c \in Caller, Hang(c) \/ FlushTimeout(c) \/ CtxDone(c)
      PROVE  HostTypeOK' /\ CallTypeOK' /\ Attempts'
  <2>1. UNCHANGED <<host, pc, res, request, found, loop, tries, skipped>>
    BY <1>6 DEF Hang, FlushTimeout, CtxDone, Expire
  <2>2. HostTypeOK'
    BY <2>1 DEF host, HostTypeOK
  <2>3. /\ cx' \in [Caller -> {"live", "flush", "done"}]
        /\ hung' \in [Caller -> BOOLEAN]
    BY <1>6 DEF Hang, FlushTimeout, CtxDone, Expire, CallTypeOK
  <2>4. CallTypeOK'
    BY <2>1, <2>3 DEF request, loop, found, CallTypeOK
  <2>5. \A d \in Caller : hung'[d] => hung[d] \/ (d = c /\ Hang(c))
    BY <1>6 DEF Hang, FlushTimeout, CtxDone, Expire, CallTypeOK
  <2>6. Attempts'
    BY <2>1, <2>5 DEF Hang, loop, Attempts, RetriesLeft
  <2> QED BY <2>2, <2>4, <2>6
<1>7. CASE Next
  <2>1. Remember /\ HistTypeOK
    BY <1>7 DEF Next
  <2>2. HostTypeOK' /\ CallTypeOK' /\ Attempts'
    BY <1>3, <1>4, <1>5, <1>6, <1>7 DEF Next
  <2> QED BY <1>2, <2>1, <2>2
<1> QED
  BY <1>1, <1>7

\* The initial states have the types.
LEMMA InitType == Init => TypeInv
<1> SUFFICES ASSUME Init PROVE TypeInv
  OBVIOUS
<1>1. HostTypeOK
  BY HostAssumption DEF Init, HostInit, HostTypeOK
<1>2. CallTypeOK /\ HistTypeOK
  BY CleanAssumption DEF Init, CallTypeOK, HistTypeOK
<1>3. Attempts
  BY DEF Init, Attempts
<1> QED BY <1>1, <1>2, <1>3, TypeSplit DEF TypeInv

-------------------------------------------------------------------------------
(* What is local to a call.                                                *)

\* A step of one call leaves the others where they are.
LEMMA StepLocal == ASSUME CallTypeOK, NEW c \in Caller, Step(c), NEW d \in Caller \ {c}
                   PROVE  Local(d)' = Local(d)
<1> USE DEF CallTypeOK, Local, request, loop, found, control, Go, Return
<1>1. CASE Exist(c)
  BY <1>1 DEF Exist
<1>2. CASE Children(c)
  BY <1>2 DEF Children
<1>3. CASE ResolveWWN(c)
  BY <1>3 DEF ResolveWWN
<1>4. CASE List(c)
  BY <1>4 DEF List, Scanned
<1>5. ASSUME NEW p \in Path, Parent(c, p) PROVE Local(d)' = Local(d)
  BY <1>5 DEF Parent, Holder
<1>6. ASSUME NEW p \in Path, ReadState(c, p) PROVE Local(d)' = Local(d)
  BY <1>6 DEF ReadState, AfterDelete, GiveUp
<1>7. CASE ParentDone(c)
  BY <1>7 DEF ParentDone
<1>8. CASE ReadWWID(c)
  BY <1>8 DEF ReadWWID
<1>9. CASE Flush(c)
  BY <1>9 DEF Flush, RemoveMap
<1>10. CASE CheckFlush(c)
  BY <1>10 DEF CheckFlush
<1>11. CASE GiveUpFlush(c)
  BY <1>11 DEF GiveUpFlush, LeaveFlush
<1>12. CASE RemoveWWID(c)
  BY <1>12 DEF RemoveWWID, LeaveFlush
<1>13. CASE WriteDelete(c)
  <2>1. UNCHANGED <<request, found, loop, control>>
    BY <1>13 DEF WriteDelete
  <2>2. pc'[d] = pc[d] /\ res'[d] = res[d]
    BY <1>13 DEF WriteDelete, AfterDelete
  <2>3. skipped'[d] = skipped[d]
    BY <1>13 DEF WriteDelete, GiveUp
  <2> QED BY <2>1, <2>2, <2>3
<1>14. CASE DelPath(c)
  BY <1>14 DEF DelPath
<1>15. CASE LoopDone(c)
  BY <1>15 DEF LoopDone
<1>16. CASE CheckPowerPath(c)
  BY <1>16 DEF CheckPowerPath
<1>17. CASE FlushPowerPath(c)
  BY <1>17 DEF FlushPowerPath
<1>18. CASE AttemptTimeout(c)
  BY <1>18 DEF AttemptTimeout
<1>19. CASE Killed(c)
  BY <1>19 DEF Killed
<1> QED
  BY <1>1, <1>2, <1>3, <1>4, <1>5, <1>6, <1>7, <1>8, <1>9, <1>10, <1>11, <1>12,
     <1>13, <1>14, <1>15, <1>16, <1>17, <1>18, <1>19 DEF Step

\* No step of a call puts one map in place of another.
LEMMA StepMap == ASSUME NEW c \in Caller, Step(c)
                 PROVE  map' = map \/ map' = None
<1> USE DEF host
<1>1. CASE Exist(c)
  BY <1>1 DEF Exist
<1>2. CASE Children(c)
  BY <1>2 DEF Children
<1>3. CASE ResolveWWN(c)
  BY <1>3 DEF ResolveWWN
<1>4. CASE List(c)
  BY <1>4 DEF List
<1>5. ASSUME NEW p \in Path, Parent(c, p) PROVE map' = map \/ map' = None
  BY <1>5 DEF Parent
<1>6. ASSUME NEW p \in Path, ReadState(c, p) PROVE map' = map \/ map' = None
  BY <1>6 DEF ReadState
<1>7. CASE ParentDone(c)
  BY <1>7 DEF ParentDone
<1>8. CASE ReadWWID(c)
  BY <1>8 DEF ReadWWID
<1>9. CASE Flush(c)
  BY <1>9 DEF Flush, RemoveMap
<1>10. CASE CheckFlush(c)
  BY <1>10 DEF CheckFlush
<1>11. CASE GiveUpFlush(c)
  BY <1>11 DEF GiveUpFlush
<1>12. CASE RemoveWWID(c)
  BY <1>12 DEF RemoveWWID
<1>13. CASE WriteDelete(c)
  BY <1>13 DEF WriteDelete, Detach
<1>14. CASE DelPath(c)
  BY <1>14 DEF DelPath
<1>15. CASE LoopDone(c)
  BY <1>15 DEF LoopDone
<1>16. CASE CheckPowerPath(c)
  BY <1>16 DEF CheckPowerPath
<1>17. CASE FlushPowerPath(c)
  BY <1>17 DEF FlushPowerPath
<1>18. CASE AttemptTimeout(c)
  BY <1>18 DEF AttemptTimeout
<1>19. CASE Killed(c)
  BY <1>19 DEF Killed
<1> QED
  BY <1>1, <1>2, <1>3, <1>4, <1>5, <1>6, <1>7, <1>8, <1>9, <1>10, <1>11, <1>12,
     <1>13, <1>14, <1>15, <1>16, <1>17, <1>18, <1>19 DEF Step

-------------------------------------------------------------------------------
(* FlushedFirst.                                                           *)

\* In the flush there is a map to flush; past a successful one it was gone.
FlushInv ==
  \A c \in Caller :
    /\ pc[c] \in Flushing => dm[c] # None
    /\ pc[c] \in {"flushed", "unwwid"} => dmGone[c]
    /\ pc[c] \in Deleting /\ ~force[c] /\ dm[c] # None => dmGone[c]

\* What was gone stays remembered for as long as the call is past its search.
LEMMA GoneStays ==
  ASSUME Remember, NEW d \in Caller, pc'[d] \in Flushing \cup Deleting
  PROVE  /\ dmGone[d] /\ pc[d] # "parent" => dmGone'[d]
         /\ map' # dm'[d] => dmGone'[d]
  BY DEF Remember

\* A step reaches the deletes with a map only when the map was gone.
LEMMA StepFlush == ASSUME CallTypeOK, FlushInv, NEW c \in Caller, Step(c), Remember
                   PROVE  FlushInv'
<1> USE GoneStays DEF CallTypeOK, FlushInv, Resolving, Flushing, Deleting,
        request, loop, found, control, Go, Return
<1>1. CASE Exist(c)
  BY <1>1 DEF Exist
<1>2. CASE Children(c)
  BY <1>2 DEF Children
<1>3. CASE ResolveWWN(c)
  BY <1>3 DEF ResolveWWN
<1>4. CASE List(c)
  BY <1>4 DEF List, Scanned
<1>5. ASSUME NEW p \in Path, Parent(c, p) PROVE FlushInv'
  BY <1>5 DEF Parent, Holder
<1>6. ASSUME NEW p \in Path, ReadState(c, p) PROVE FlushInv'
  BY <1>6 DEF ReadState, AfterDelete
<1>7. CASE ParentDone(c)
  BY <1>7 DEF ParentDone
<1>8. CASE ReadWWID(c)
  BY <1>8 DEF ReadWWID
<1>9. CASE Flush(c)
  BY <1>9 DEF Flush, RemoveMap
<1>10. CASE CheckFlush(c)
  BY <1>10 DEF CheckFlush, host
<1>11. CASE GiveUpFlush(c)
  BY <1>11 DEF GiveUpFlush
<1>12. CASE RemoveWWID(c)
  BY <1>12 DEF RemoveWWID
<1>13. CASE WriteDelete(c)
  BY <1>13 DEF WriteDelete, AfterDelete
<1>14. CASE DelPath(c)
  BY <1>14 DEF DelPath
<1>15. CASE LoopDone(c)
  BY <1>15 DEF LoopDone
<1>16. CASE CheckPowerPath(c)
  BY <1>16 DEF CheckPowerPath
<1>17. CASE FlushPowerPath(c)
  BY <1>17 DEF FlushPowerPath
<1>18. CASE AttemptTimeout(c)
  BY <1>18 DEF AttemptTimeout
<1>19. CASE Killed(c)
  BY <1>19 DEF Killed
<1> QED
  BY <1>1, <1>2, <1>3, <1>4, <1>5, <1>6, <1>7, <1>8, <1>9, <1>10, <1>11, <1>12,
     <1>13, <1>14, <1>15, <1>16, <1>17, <1>18, <1>19 DEF Step

-------------------------------------------------------------------------------
(* Accounted.                                                              *)

\* The loop starts from all devices and drops one only when it was away or is
\* given up, or is the one being written to.
AccountInv ==
  \A c \in Caller :
    /\ pc[c] \in Flushing => todo[c] = devs[c]
    /\ pc[c] \in {"powerpath", "ppflush"} => todo[c] = {}
    /\ pc[c] \in Deleting =>
         \A p \in devs[c] : \/ p \in todo[c] \cup away[c] \cup skipped[c]
                            \/ pc[c] = "write" /\ p = cur[c]

\* A device remembered as absent stays remembered while the call deletes.
LEMMA AwayStays ==
  ASSUME Remember, NEW d \in Caller, pc[d] # "idle", pc'[d] \in Deleting
  PROVE  away'[d] = away[d] \cup (Path \ attached')
  BY DEF Remember, Since, Resolving, Deleting

\* A device leaves the loop only when it was absent or given up.
LEMMA StepAccount == ASSUME CallTypeOK, AccountInv, NEW c \in Caller, Step(c), Remember
                     PROVE  AccountInv'
<1> USE AwayStays DEF CallTypeOK, AccountInv, Resolving, Flushing, Deleting,
        request, loop, found, control, Go, Return
<1>1. CASE Exist(c)
  BY <1>1 DEF Exist
<1>2. CASE Children(c)
  BY <1>2 DEF Children
<1>3. CASE ResolveWWN(c)
  BY <1>3 DEF ResolveWWN
<1>4. CASE List(c)
  BY <1>4 DEF List, Scanned
<1>5. ASSUME NEW p \in Path, Parent(c, p) PROVE AccountInv'
  BY <1>5 DEF Parent, Holder
<1>6. ASSUME NEW p \in Path, ReadState(c, p) PROVE AccountInv'
  BY <1>6 DEF ReadState, AfterDelete, GiveUp
<1>7. CASE ParentDone(c)
  BY <1>7 DEF ParentDone
<1>8. CASE ReadWWID(c)
  BY <1>8 DEF ReadWWID
<1>9. CASE Flush(c)
  BY <1>9 DEF Flush
<1>10. CASE CheckFlush(c)
  BY <1>10 DEF CheckFlush
<1>11. CASE GiveUpFlush(c)
  BY <1>11 DEF GiveUpFlush
<1>12. CASE RemoveWWID(c)
  BY <1>12 DEF RemoveWWID
<1>13. CASE WriteDelete(c)
  BY <1>13 DEF WriteDelete, AfterDelete, GiveUp, Detach
<1>14. CASE DelPath(c)
  BY <1>14 DEF DelPath
<1>15. CASE LoopDone(c)
  BY <1>15 DEF LoopDone
<1>16. CASE CheckPowerPath(c)
  BY <1>16 DEF CheckPowerPath
<1>17. CASE FlushPowerPath(c)
  BY <1>17 DEF FlushPowerPath
<1>18. CASE AttemptTimeout(c)
  BY <1>18 DEF AttemptTimeout
<1>19. CASE Killed(c)
  BY <1>19 DEF Killed
<1> QED
  BY <1>1, <1>2, <1>3, <1>4, <1>5, <1>6, <1>7, <1>8, <1>9, <1>10, <1>11, <1>12,
     <1>13, <1>14, <1>15, <1>16, <1>17, <1>18, <1>19 DEF Step

-------------------------------------------------------------------------------
(* NoDeleteUnderMap.                                                       *)

\* Without multipathd maps only go.  The map a call finds is the one there is;
\* where it found none, or flushed it, no device of the call has a holder.
UnderInv ==
  \A c \in Caller :
    /\ pc[c] \in Resolving => dm[c] = None
    /\ pc[c] \in {"parent"} \cup Flushing \cup Deleting => todo[c] \subseteq devs[c]
    /\ pc[c] \in {"parent"} \cup Flushing =>
         IF dm[c] = None THEN (devs[c] \ todo[c]) \cap members = {}
                         ELSE map \in {dm[c], None}
    /\ pc[c] \in {"flushed", "unwwid"} => map = None
    /\ pc[c] \in Flushing => dm[c] # None
    /\ pc[c] \in Deleting /\ ~force[c] => devs[c] \cap members = {}
    /\ pc[c] = "write" => cur[c] \in devs[c]

\* What a host does without multipathd, and what calls do to it.
HostShrinks == map' \in {map, None} /\ members' \subseteq members

\* Without multipathd no step puts a device that is to be deleted under a map.
LEMMA StepUnder == ASSUME HostTypeOK, HostTypeOK', CallTypeOK, UnderInv,
                          NEW c \in Caller, Step(c)
                   PROVE  UnderInv' /\ HostShrinks
<1> USE DEF HostTypeOK, CallTypeOK, UnderInv, HostShrinks, Resolving, Flushing, Deleting,
        host, request, loop, found, control, Go, Return
<1>1. CASE Exist(c)
  BY <1>1 DEF Exist
<1>2. CASE Children(c)
  BY <1>2 DEF Children
<1>3. CASE ResolveWWN(c)
  BY <1>3 DEF ResolveWWN
<1>4. CASE List(c)
  BY <1>4 DEF List, Scanned
<1>5. ASSUME NEW p \in Path, Parent(c, p) PROVE UnderInv' /\ HostShrinks
  <2>1. /\ pc[c] = "parent" /\ p \in todo[c]
        /\ UNCHANGED <<host, force, devs, cur>>
    BY <1>5 DEF Parent
  <2>2. CASE Holder(p) \in {None, dm[c]} \/ dm[c] = None
    <3>1. /\ pc' = pc
          /\ todo' = [todo EXCEPT ![c] = @ \ {p}]
          /\ dm' = [dm EXCEPT ![c] = IF Holder(p) = None THEN @ ELSE Holder(p)]
      BY <1>5, <2>2 DEF Parent
    <3>2. Holder(p) # None => Holder(p) = map
      BY DEF Holder
    <3>3. Holder(p) = None => p \notin members
      BY HostAssumption DEF Holder
    <3> QED BY <2>1, <3>1, <3>2, <3>3
  <2>3. CASE Holder(p) \notin {None, dm[c]} /\ dm[c] # None
    <3>1. FALSE
      BY <2>1, <2>3 DEF Holder
    <3> QED BY <3>1
  <2> QED BY <2>2, <2>3
<1>6. ASSUME NEW p \in Path, ReadState(c, p) PROVE UnderInv' /\ HostShrinks
  BY <1>6 DEF ReadState, AfterDelete
<1>7. CASE ParentDone(c)
  BY <1>7 DEF ParentDone
<1>8. CASE ReadWWID(c)
  BY <1>8 DEF ReadWWID
<1>9. CASE Flush(c)
  BY <1>9 DEF Flush, RemoveMap
<1>10. CASE CheckFlush(c)
  BY <1>10 DEF CheckFlush
<1>11. CASE GiveUpFlush(c)
  BY <1>11 DEF GiveUpFlush
<1>12. CASE RemoveWWID(c)
  BY <1>12 DEF RemoveWWID
<1>13. CASE WriteDelete(c)
  <2>1. UNCHANGED <<request, found, loop>> /\ pc[c] = "write"
    BY <1>13 DEF WriteDelete
  <2>2. HostShrinks
    BY <1>13 DEF WriteDelete, Detach
  <2>3. /\ \A d \in Caller : d # c => pc'[d] = pc[d]
        /\ pc'[c] \in {"delpath", "delete", "idle"}
    BY <1>13 DEF WriteDelete, AfterDelete
  <2> QED BY <2>1, <2>2, <2>3
<1>14. CASE DelPath(c)
  BY <1>14 DEF DelPath
<1>15. CASE LoopDone(c)
  BY <1>15 DEF LoopDone
<1>16. CASE CheckPowerPath(c)
  BY <1>16 DEF CheckPowerPath
<1>17. CASE FlushPowerPath(c)
  BY <1>17 DEF FlushPowerPath
<1>18. CASE AttemptTimeout(c)
  BY <1>18 DEF AttemptTimeout
<1>19. CASE Killed(c)
  BY <1>19 DEF Killed
<1> QED
  BY <1>1, <1>2, <1>3, <1>4, <1>5, <1>6, <1>7, <1>8, <1>9, <1>10, <1>11, <1>12,
     <1>13, <1>14, <1>15, <1>16, <1>17, <1>18, <1>19 DEF Step

-------------------------------------------------------------------------------
(* FreedFirst.                                                             *)

\* A device the call has looked at was free, or the map it found is still there, or
\* the map has gone meanwhile and freed them all: a map is replaced by another only
\* through none.
FreedAt(c) ==
  /\ pc[c] \in Resolving => dm[c] = None
  /\ pc[c] \in {"parent"} \cup Flushing \cup Deleting => todo[c] \subseteq devs[c]
  /\ pc[c] \in {"parent"} \cup Flushing =>
       IF dm[c] = None THEN devs[c] \ todo[c] \subseteq freed[c]
                       ELSE map = dm[c] \/ freed[c] = Path
  /\ pc[c] \in Flushing => dm[c] # None
  /\ pc[c] \in {"flushed", "unwwid"} => freed[c] = Path
  /\ pc[c] \in Deleting /\ ~force[c] => devs[c] \subseteq freed[c]
  /\ pc[c] = "write" => cur[c] \in devs[c]

FreedInv == \A c \in Caller : FreedAt(c)

Searched == {"parent"} \cup Flushing \cup Deleting

\* What was free stays remembered, what is free is, and without a map all is.
LEMMA FreedStays ==
  ASSUME HostTypeOK', HistTypeOK, Remember,
         NEW d \in Caller, pc[d] # "idle", pc'[d] \in Searched
  PROVE  /\ freed[d] \subseteq freed'[d] /\ freed'[d] \subseteq Path
         /\ Path \ members' \subseteq freed'[d]
         /\ map' = None => freed'[d] = Path
<1>1. freed'[d] = freed[d] \cup (Path \ members')
  BY DEF Remember, Since, Searched, Resolving, Flushing, Deleting
<1>2. freed[d] \subseteq Path
  BY DEF HistTypeOK
<1>3. map' = None => members' = {}
  BY DEF HostTypeOK
<1> QED BY <1>1, <1>2, <1>3

\* No step puts one map in place of another.
MapThroughNone == map' \in {map, None} \/ map = None

\* A call that does not move keeps what it knows.
LEMMA OthersFreed ==
  ASSUME HostTypeOK', CallTypeOK, HistTypeOK, Remember, MapThroughNone,
         NEW d \in Caller, FreedAt(d),
         pc'[d] = pc[d], force'[d] = force[d], devs'[d] = devs[d], todo'[d] = todo[d],
         cur'[d] = cur[d], dm'[d] = dm[d]
  PROVE  FreedAt(d)'
<1>1. CASE pc[d] \notin Searched
  BY <1>1 DEF FreedAt, Searched, Flushing, Deleting
<1>2. CASE pc[d] \in Searched
  <2>1. pc[d] # "idle" /\ pc'[d] \in Searched
    BY <1>2 DEF Searched, Flushing, Deleting
  <2>2. /\ freed[d] \subseteq freed'[d] /\ freed'[d] \subseteq Path
        /\ map' = None => freed'[d] = Path
    BY <2>1, FreedStays
  <2> QED BY <2>2, <1>2 DEF FreedAt, MapThroughNone, Searched, Resolving, Flushing, Deleting
<1> QED BY <1>1, <1>2

\* The call that moves finds its devices free, or frees them.
LEMMA MoverFreed ==
  ASSUME HostTypeOK, HostTypeOK', CallTypeOK, HistTypeOK, NEW c \in Caller, FreedAt(c), Step(c), Remember
  PROVE  FreedAt(c)'
<1>0. pc[c] # "idle" /\ pc'[c] \in Searched
        => /\ freed[c] \subseteq freed'[c] /\ freed'[c] \subseteq Path
           /\ freed[c] = Path => freed'[c] = Path
           /\ Path \ members' \subseteq freed'[c]
           /\ map' = None => freed'[c] = Path
  BY FreedStays
<1> USE <1>0, HostAssumption
    DEF CallTypeOK, FreedAt, Searched, Resolving, Flushing, Deleting, request, loop, found, control, Go, Return
<1>1. CASE Exist(c)
  BY <1>1 DEF Exist
<1>2. CASE Children(c)
  BY <1>2 DEF Children
<1>3. CASE ResolveWWN(c)
  BY <1>3 DEF ResolveWWN
<1>4. CASE List(c)
  BY <1>4 DEF List, Scanned
<1>5. ASSUME NEW p \in Path, Parent(c, p) PROVE FreedAt(c)'
  <2>1. /\ pc[c] = "parent" /\ p \in todo[c] /\ p \in Path
        /\ UNCHANGED <<host, force, devs, cur>>
    BY <1>5 DEF Parent
  <2>2. CASE pc' = pc
    <3>1. /\ todo' = [todo EXCEPT ![c] = @ \ {p}]
          /\ dm' = [dm EXCEPT ![c] = IF Holder(p) = None THEN @ ELSE Holder(p)]
      BY <1>5, <2>1, <2>2 DEF Parent
    <3>2. pc'[c] = "parent" /\ dm'[c] = (IF Holder(p) = None THEN dm[c] ELSE Holder(p))
      BY <2>1, <2>2, <3>1
    <3>3. Holder(p) # None => Holder(p) = map
      BY DEF Holder
    <3>4. Holder(p) = None => p \notin members
      BY DEF Holder, HostTypeOK
    <3>5. todo'[c] = todo[c] \ {p} /\ devs'[c] = devs[c] /\ map' = map /\ members' = members
      BY <2>1, <3>1 DEF host
    <3>6. todo'[c] \subseteq devs'[c]
      BY <2>1, <3>5
    <3>7. IF dm'[c] = None THEN devs'[c] \ todo'[c] \subseteq freed'[c]
                           ELSE map' = dm'[c] \/ freed'[c] = Path
      BY <2>1, <3>2, <3>3, <3>4, <3>5
    <3> QED BY <3>2, <3>6, <3>7
  <2>3. CASE pc' # pc
    <3>1. /\ Holder(p) \notin {None, dm[c]} /\ dm[c] # None
          /\ todo' = [todo EXCEPT ![c] = devs[c]]
          /\ pc' = [pc EXCEPT ![c] = "delete"]
      BY <1>5, <2>3 DEF Parent
    <3>2. freed[c] = Path
      BY <2>1, <3>1 DEF Holder
    <3> QED BY <2>1, <3>1, <3>2
  <2> QED BY <2>2, <2>3
<1>6. ASSUME NEW p \in Path, ReadState(c, p) PROVE FreedAt(c)'
  BY <1>6 DEF ReadState, AfterDelete, GiveUp
<1>7. CASE ParentDone(c)
  <2>1. /\ pc[c] = "parent" /\ todo[c] = {} /\ todo'[c] = devs[c]
        /\ UNCHANGED <<host, force, devs, cur, dm>>
    BY <1>7 DEF ParentDone
  <2>2. \/ pc'[c] = "delete" /\ dm[c] = None
        \/ pc'[c] \in {"wwid", "flush"} /\ dm[c] # None
    BY <1>7 DEF ParentDone
  <2> QED BY <2>1, <2>2 DEF host
<1>8. CASE ReadWWID(c)
  <2>1. /\ pc[c] = "wwid" /\ pc'[c] = "flush"
        /\ UNCHANGED <<host, force, devs, todo, cur, dm>>
    BY <1>8 DEF ReadWWID
  <2> QED BY <2>1 DEF host
<1>9. CASE Flush(c)
  <2>1. /\ pc[c] = "flush" /\ pc'[c] \in {"flushed", "failed"}
        /\ UNCHANGED <<force, devs, todo, cur, dm>>
    BY <1>9 DEF Flush
  <2>2. map' = None \/ (pc'[c] = "failed" /\ map' = map)
    BY <1>9 DEF Flush, RemoveMap, host
  <2> QED BY <2>1, <2>2
<1>10. CASE CheckFlush(c)
  BY <1>10 DEF CheckFlush, host
<1>11. CASE GiveUpFlush(c)
  BY <1>11 DEF GiveUpFlush, LeaveFlush
<1>12. CASE RemoveWWID(c)
  BY <1>12 DEF RemoveWWID, LeaveFlush
<1>13. CASE WriteDelete(c)
  BY <1>13 DEF WriteDelete, AfterDelete, Detach
<1>14. CASE DelPath(c)
  BY <1>14 DEF DelPath
<1>15. CASE LoopDone(c)
  BY <1>15 DEF LoopDone
<1>16. CASE CheckPowerPath(c)
  BY <1>16 DEF CheckPowerPath
<1>17. CASE FlushPowerPath(c)
  BY <1>17 DEF FlushPowerPath
<1>18. CASE AttemptTimeout(c)
  <2>1. /\ pc[c] = "flush" /\ pc'[c] = "failed"
        /\ UNCHANGED <<host, force, devs, todo, cur, dm>>
    BY <1>18 DEF AttemptTimeout
  <2> QED BY <2>1 DEF host
<1>19. CASE Killed(c)
  <2>1. UNCHANGED <<host, pc, force, devs, todo, cur, dm>>
    BY <1>19 DEF Killed
  <2>2. MapThroughNone
    BY <2>1 DEF MapThroughNone, host
  <2> QED BY <2>1, <2>2, OthersFreed
<1> QED
  BY <1>1, <1>2, <1>3, <1>4, <1>5, <1>6, <1>7, <1>8, <1>9, <1>10, <1>11, <1>12,
     <1>13, <1>14, <1>15, <1>16, <1>17, <1>18, <1>19 DEF Step

\* Every step of a call preserves the invariant.
LEMMA StepFreed ==
  ASSUME HostTypeOK, HostTypeOK', CallTypeOK, HistTypeOK, FreedInv, NEW c \in Caller, Step(c), Remember
  PROVE  FreedInv'
<1>1. FreedAt(c)'
  BY MoverFreed DEF FreedInv
<1>2. ASSUME NEW d \in Caller \ {c} PROVE FreedAt(d)'
  <2>1. MapThroughNone
    BY StepMap DEF MapThroughNone
  <2>2. Local(d)' = Local(d)
    BY StepLocal
  <2> QED BY <2>1, <2>2, OthersFreed DEF FreedInv, Local
<1> QED BY <1>1, <1>2 DEF FreedInv
-------------------------------------------------------------------------------
(* CallBounded.                                                            *)

\* The devices of a call are counted, and a loop that takes one has one less.
LEMMA Counts ==
  ASSUME CallTypeOK, NEW c \in Caller
  PROVE  /\ Cardinality(Path) \in Nat
         /\ Cardinality(todo[c]) \in 0..Cardinality(Path)
         /\ \A p \in todo[c] : Cardinality(todo[c] \ {p}) = Cardinality(todo[c]) - 1
         /\ Cardinality(devs[c]) \in 0..Cardinality(Path)
<1>1. \A S \in SUBSET Path : IsFiniteSet(S) /\ Cardinality(S) \in 0..Cardinality(Path)
  BY HostAssumption, FS_Subset, FS_CardinalityType
<1>2. todo[c] \in SUBSET Path /\ devs[c] \in SUBSET Path
  BY DEF CallTypeOK
<1>3. \A p \in todo[c] : Cardinality(todo[c] \ {p}) = Cardinality(todo[c]) - 1
  BY <1>1, <1>2, FS_RemoveElement
<1>4. Cardinality(Path) \in Nat
  BY HostAssumption, FS_CardinalityType
<1> QED BY <1>1, <1>2, <1>3, <1>4

\* What a call has left is a number, before a step and after it.
LEMMA WorkIsNat ==
  ASSUME NEW c \in Caller
  PROVE  /\ CallTypeOK => Place(c) \in Nat /\ Waits(c) \in 0..4
         /\ CallTypeOK' => Place(c)' \in Nat /\ Waits(c)' \in 0..4
<1>1. /\ CallTypeOK => Waits(c) \in 0..4
      /\ CallTypeOK' => Waits(c)' \in 0..4
  BY DEF CallTypeOK, Waits
<1>2. FlushRetries \in Nat /\ Cardinality(Path) \in Nat
  BY CleanAssumption, HostAssumption, FS_CardinalityType
<1>3. \A S \in SUBSET Path : Cardinality(S) \in Nat
  BY HostAssumption, FS_Subset, FS_CardinalityType
<1>4. ASSUME CallTypeOK PROVE Place(c) \in Nat
  BY <1>2, <1>3, <1>4 DEF CallTypeOK, Place, Resolving, Flushing, Deleting
<1>5. ASSUME CallTypeOK' PROVE Place(c)' \in Nat
  BY <1>2, <1>3, <1>5 DEF CallTypeOK, Place, Resolving, Flushing, Deleting
<1> QED BY <1>1, <1>4, <1>5

\* Every step of a call but the end of a hang brings it nearer to its return.
LEMMA StepNearer ==
  ASSUME CallTypeOK, CallTypeOK', Attempts, NEW c \in Caller, Step(c), ~Killed(c)
  PROVE  Place(c)' < Place(c)
<1>0. /\ FlushRetries \in Nat
      /\ tries[c] \in 0..FlushRetries /\ tries'[c] \in 0..FlushRetries
      /\ Cardinality(Path) \in Nat
      /\ Cardinality(todo[c]) \in 0..Cardinality(Path)
      /\ Cardinality(todo'[c]) \in 0..Cardinality(Path)
      /\ \A p \in todo[c] : Cardinality(todo[c] \ {p}) = Cardinality(todo[c]) - 1
      /\ Cardinality(devs[c]) \in 0..Cardinality(Path)
  <2>1. Cardinality(todo'[c]) \in 0..Cardinality(Path)
    BY HostAssumption, FS_Subset, FS_CardinalityType DEF CallTypeOK
  <2> QED BY <2>1, Counts, CleanAssumption DEF CallTypeOK
<1> USE <1>0 DEF CallTypeOK, Place, Go, Return, loop, control
<1>1. CASE Exist(c)
  BY <1>1 DEF Exist
<1>2. CASE Children(c)
  BY <1>2 DEF Children
<1>3. CASE ResolveWWN(c)
  BY <1>3 DEF ResolveWWN
<1>4. CASE List(c)
  BY <1>4 DEF List, Scanned
<1>5. ASSUME NEW p \in Path, Parent(c, p) PROVE Place(c)' < Place(c)
  BY <1>5 DEF Parent
<1>6. ASSUME NEW p \in Path, ReadState(c, p) PROVE Place(c)' < Place(c)
  BY <1>6 DEF ReadState, AfterDelete
<1>7. CASE ParentDone(c)
  BY <1>7 DEF ParentDone
<1>8. CASE ReadWWID(c)
  BY <1>8 DEF ReadWWID
<1>9. CASE Flush(c)
  BY <1>9 DEF Flush
<1>10. CASE CheckFlush(c)
  BY <1>10 DEF CheckFlush
<1>11. CASE GiveUpFlush(c)
  BY <1>11 DEF GiveUpFlush
<1>12. CASE RemoveWWID(c)
  BY <1>12 DEF RemoveWWID
<1>13. CASE WriteDelete(c)
  BY <1>13 DEF WriteDelete, AfterDelete
<1>14. CASE DelPath(c)
  BY <1>14 DEF DelPath
<1>15. CASE LoopDone(c)
  BY <1>15 DEF LoopDone
<1>16. CASE CheckPowerPath(c)
  BY <1>16 DEF CheckPowerPath
<1>17. CASE FlushPowerPath(c)
  BY <1>17 DEF FlushPowerPath
<1>18. CASE AttemptTimeout(c)
  BY <1>18 DEF AttemptTimeout
<1> QED
  BY <1>1, <1>2, <1>3, <1>4, <1>5, <1>6, <1>7, <1>8, <1>9, <1>10, <1>11, <1>12,
     <1>13, <1>14, <1>15, <1>16, <1>17, <1>18 DEF Step

\* What one step may do to what a call has left.
BoundedStep(c) ==
  Local(c)' # Local(c) => /\ Work(c)' >= 0
                          /\ IF pc[c] = "idle" THEN Work(c)' <= MostWork
                                               ELSE Work(c)' < Work(c)

\* Every step of the system takes from what the call that moves has left.
LEMMA NextBounded ==
  ASSUME TypeInv, TypeInv', [Next]_vars, NEW c \in Caller PROVE BoundedStep(c)
<1>0. /\ CallTypeOK /\ CallTypeOK' /\ Attempts
      /\ FlushRetries \in Nat /\ Cardinality(Path) \in Nat
      /\ Place(c) \in Nat /\ Waits(c) \in 0..4
      /\ Place(c)' \in Nat /\ Waits(c)' \in 0..4
  <2>1. CallTypeOK /\ CallTypeOK' /\ Attempts
    BY TypeSplit DEF TypeInv
  <2>2. Place(c) \in Nat /\ Waits(c) \in 0..4
    BY <2>1, WorkIsNat
  <2>3. Place(c)' \in Nat /\ Waits(c)' \in 0..4
    BY <2>1, WorkIsNat
  <2> QED BY <2>1, <2>2, <2>3, Counts, CleanAssumption
<1>1. ASSUME UNCHANGED call PROVE BoundedStep(c)
  BY <1>1 DEF BoundedStep, Local, call, request, loop, found, control
<1>2. ASSUME NEW d \in Caller, Start(d) PROVE BoundedStep(c)
  <2>1. PICK at \in {"exist", "parent"}, n \in Path \cup Map \cup {None}, f \in BOOLEAN,
             ds \in SUBSET Path, w \in BOOLEAN : Begin(d, at, n, f, ds, w)
    BY <1>2 DEF Start, Disconnect, Clean
  <2>2. CASE d # c
    BY <1>0, <2>1, <2>2 DEF CallTypeOK, Begin, Go, BoundedStep, Local
  <2>3. CASE d = c
    <3>1. pc[c] = "idle" /\ pc'[c] \in {"exist", "parent"}
      BY <1>0, <2>1, <2>3 DEF CallTypeOK, Begin, Go
    <3>2. Cardinality(todo'[c]) \in 0..Cardinality(Path)
      BY <1>0, HostAssumption, FS_Subset, FS_CardinalityType DEF CallTypeOK
    <3>3. Place(c)' <= 11 + 4 * Cardinality(Path) + 2 * FlushRetries
      BY <1>0, <3>1, <3>2 DEF Place
    <3> QED BY <1>0, <3>1, <3>3 DEF BoundedStep, Work, MostWork
  <2> QED BY <2>2, <2>3
<1>3. ASSUME NEW d \in Caller, Step(d) PROVE BoundedStep(c)
  <2>1. CASE d # c
    BY <1>0, <1>3, <2>1, StepLocal DEF BoundedStep
  <2>2. CASE d = c /\ ~Killed(c)
    <3>1. Place(c)' < Place(c)
      BY <1>0, <1>3, <2>2, StepNearer
    <3>2. pc[c] = "idle" => Place(c) = 0
      BY DEF Place
    <3> QED BY <1>0, <3>1, <3>2 DEF BoundedStep, Work
  <2>3. CASE d = c /\ Killed(c)
    <3>1. Place(c)' = Place(c) /\ pc[c] # "idle"
      BY <1>0, <2>3 DEF Killed, Place, loop, Attempts, Command
    <3>2. Waits(c)' < Waits(c)
      BY <1>0, <2>3 DEF Killed, Waits, CallTypeOK
    <3> QED BY <1>0, <3>1, <3>2 DEF BoundedStep, Work
  <2> QED BY <2>1, <2>2, <2>3
<1>4. ASSUME NEW d \in Caller, Hang(d) \/ FlushTimeout(d) \/ CtxDone(d) PROVE BoundedStep(c)
  <2>0. UNCHANGED <<pc, res, request, found, loop, tries, skipped>>
    BY <1>4 DEF Hang, FlushTimeout, CtxDone, Expire
  <2>1. CASE d # c
    <3>1. cx'[c] = cx[c] /\ hung'[c] = hung[c]
      BY <1>0, <1>4, <2>1 DEF Hang, FlushTimeout, CtxDone, Expire, CallTypeOK
    <3> QED BY <2>0, <3>1 DEF BoundedStep, Local, request, found, loop
  <2>2. CASE d = c
    <3>1. Place(c)' = Place(c)
      BY <2>0 DEF Place, loop
    <3>2. pc[c] # "idle"
      BY <1>4, <2>2 DEF Hang, FlushTimeout, CtxDone, Command, Flushing
    <3>3. Waits(c)' < Waits(c)
      BY <1>0, <1>4, <2>2 DEF Hang, FlushTimeout, CtxDone, Expire, Waits, CallTypeOK
    <3> QED BY <1>0, <3>1, <3>2, <3>3 DEF BoundedStep, Work
  <2> QED BY <2>1, <2>2
<1> QED
  BY <1>1, <1>2, <1>3, <1>4 DEF Next, vars

-------------------------------------------------------------------------------
(* The theorems.                                                           *)

SafeInv == /\ TypeInv
           /\ FlushInv
           /\ AccountInv
           /\ FreedInv
           /\ multipathd = "down" => UnderInv

\* The initial states satisfy the invariant.
LEMMA InitSafe == Init => SafeInv
<1> SUFFICES ASSUME Init PROVE SafeInv
  OBVIOUS
<1>1. \A c \in Caller : pc[c] = "idle"
  BY DEF Init
<1> QED
  BY <1>1, InitType DEF SafeInv, FlushInv, AccountInv, FreedInv, FreedAt, UnderInv, Resolving, Flushing, Deleting

\* A step that only moves contexts and hung commands.
LEMMA QuietCall ==
  ASSUME SafeInv, UNCHANGED <<host, pc, force, devs, dm, todo, cur, skipped>>, Remember
  PROVE  FlushInv' /\ AccountInv' /\ FreedInv' /\ (multipathd = "down" => UnderInv')
<1>1. FlushInv'
  BY GoneStays DEF SafeInv, FlushInv, Flushing, Deleting
<1>2. AccountInv'
  BY AwayStays DEF SafeInv, AccountInv, Flushing, Deleting
<1>3. multipathd = "down" => UnderInv'
  BY DEF host, SafeInv, UnderInv
<1>4. FreedInv'
  <2>1. HostTypeOK' /\ CallTypeOK /\ HistTypeOK
    BY TypeSplit, QuietHost DEF SafeInv, TypeInv
  <2>2. MapThroughNone
    BY DEF MapThroughNone, host
  <2> QED BY <2>1, <2>2, OthersFreed DEF SafeInv, FreedInv
<1> QED BY <1>1, <1>2, <1>3, <1>4

\* Nothing starts or stops multipathd.
LEMMA DaemonStays == [Next]_vars => multipathd' = multipathd
<1> SUFFICES ASSUME [Next]_vars PROVE multipathd' = multipathd
  OBVIOUS
<1> USE DEF host, Detach, RemoveMap
<1>1. HostNext => multipathd' = multipathd
  BY DEF HostNext, LosePath, GainPath, SetBlocked, JoinMap, UseMap, LoseMap, Assemble
<1>2. ASSUME NEW c \in Caller, Start(c) PROVE multipathd' = multipathd
  BY <1>2 DEF Start, Disconnect, Clean, Begin
<1>3. ASSUME NEW c \in Caller, Step(c) PROVE multipathd' = multipathd
  <2>1. CASE \/ Exist(c) \/ Children(c) \/ ResolveWWN(c) \/ List(c) \/ ParentDone(c)
             \/ \E p \in Path : Parent(c, p) \/ ReadState(c, p)
    BY <2>1 DEF Exist, Children, ResolveWWN, List, ParentDone, Parent, ReadState
  <2>2. CASE \/ ReadWWID(c) \/ Flush(c) \/ CheckFlush(c) \/ GiveUpFlush(c)
             \/ RemoveWWID(c) \/ WriteDelete(c) \/ DelPath(c)
    BY <2>2 DEF ReadWWID, Flush, CheckFlush, GiveUpFlush, RemoveWWID, WriteDelete, DelPath
  <2>3. CASE \/ LoopDone(c) \/ CheckPowerPath(c) \/ FlushPowerPath(c)
             \/ AttemptTimeout(c) \/ Killed(c)
    BY <2>3 DEF LoopDone, CheckPowerPath, FlushPowerPath, AttemptTimeout, Killed
  <2> QED BY <1>3, <2>1, <2>2, <2>3 DEF Step
<1>4. ASSUME NEW c \in Caller, Hang(c) \/ FlushTimeout(c) \/ CtxDone(c)
      PROVE  multipathd' = multipathd
  BY <1>4 DEF Hang, FlushTimeout, CtxDone, Expire
<1> QED
  BY <1>1, <1>2, <1>3, <1>4 DEF Next, vars

\* Every step preserves the invariant.
LEMMA NextSafe == SafeInv /\ [Next]_vars => SafeInv'
<1> SUFFICES ASSUME SafeInv, [Next]_vars PROVE SafeInv'
  OBVIOUS
<1>1. TypeInv'
  BY NextType DEF SafeInv
<1>2. HostTypeOK /\ HostTypeOK' /\ CallTypeOK /\ HistTypeOK
  BY <1>1, TypeSplit DEF SafeInv, TypeInv
<1>3. ASSUME HostNext, UNCHANGED call, Remember
      PROVE  FlushInv' /\ AccountInv' /\ FreedInv' /\ (multipathd = "down" => UnderInv')
  <2>1. UNCHANGED <<pc, force, devs, dm, todo, cur, skipped>>
    BY <1>3 DEF call, request, found, loop
  <2>2. FlushInv'
    BY <1>3, <2>1, GoneStays DEF SafeInv, FlushInv, Flushing, Deleting
  <2>3. AccountInv'
    BY <1>3, <2>1, AwayStays DEF SafeInv, AccountInv, Flushing, Deleting
  <2>4. multipathd = "down" => HostShrinks
    BY <1>3 DEF HostShrinks, HostNext, LosePath, GainPath, SetBlocked, JoinMap, UseMap,
                LoseMap, Assemble, Detach, RemoveMap
  <2>5. multipathd = "down" => UnderInv'
    BY <1>2, <2>1, <2>4 DEF SafeInv, UnderInv, HostShrinks, HostTypeOK
  <2>6. MapThroughNone
    BY <1>3 DEF MapThroughNone, HostNext, LosePath, GainPath, SetBlocked, JoinMap, UseMap,
                LoseMap, Assemble, Detach, RemoveMap
  <2>7. FreedInv'
    BY <1>2, <1>3, <2>1, <2>6, OthersFreed DEF SafeInv, FreedInv
  <2> QED BY <2>2, <2>3, <2>5, <2>7
<1>4. ASSUME NEW c \in Caller, Start(c), Remember
      PROVE  FlushInv' /\ AccountInv' /\ FreedInv' /\ (multipathd = "down" => UnderInv')
  <2>1. PICK at \in {"exist", "parent"}, n \in Path \cup Map \cup {None}, f \in BOOLEAN,
             ds \in SUBSET Path, w \in BOOLEAN : Begin(c, at, n, f, ds, w)
    BY <1>4 DEF Start, Disconnect, Clean
  <2> USE <1>2, <2>1 DEF CallTypeOK, Begin, Go
  <2>2. FlushInv'
    BY <1>4, GoneStays DEF SafeInv, FlushInv, Flushing, Deleting
  <2>3. AccountInv'
    BY <1>4, AwayStays DEF SafeInv, AccountInv, Flushing, Deleting
  <2>4. multipathd = "down" => UnderInv'
    BY DEF SafeInv, UnderInv, Resolving, Flushing, Deleting, host
  <2>5. FreedAt(c)'
    BY DEF FreedAt, Resolving, Flushing, Deleting
  <2>6. ASSUME NEW d \in Caller \ {c} PROVE FreedAt(d)'
    <3>1. MapThroughNone
      BY DEF MapThroughNone, host
    <3> QED BY <1>2, <1>4, <2>6, <3>1, OthersFreed DEF SafeInv, FreedInv
  <2> QED BY <2>2, <2>3, <2>4, <2>5, <2>6 DEF FreedInv
<1>5. ASSUME NEW c \in Caller, Step(c), Remember
      PROVE  FlushInv' /\ AccountInv' /\ FreedInv' /\ (multipathd = "down" => UnderInv')
  BY <1>2, <1>5, StepFlush, StepAccount, StepFreed, StepUnder DEF SafeInv
<1>6. ASSUME NEW c \in Caller, Hang(c) \/ FlushTimeout(c) \/ CtxDone(c), Remember
      PROVE  FlushInv' /\ AccountInv' /\ FreedInv' /\ (multipathd = "down" => UnderInv')
  <2>1. UNCHANGED <<host, pc, force, devs, dm, todo, cur, skipped>>
    BY <1>6 DEF Hang, FlushTimeout, CtxDone, Expire, request, found, loop
  <2> QED BY <1>6, <2>1, QuietCall
<1>7. CASE UNCHANGED vars
  <2>1. FlushInv'
    BY <1>7 DEF vars, call, request, found, history, SafeInv, FlushInv
  <2>2. AccountInv'
    BY <1>7 DEF vars, call, found, loop, history, SafeInv, AccountInv
  <2>3. multipathd = "down" => UnderInv'
    BY <1>7 DEF vars, host, call, request, found, loop, SafeInv, UnderInv
  <2>4. FreedInv'
    BY <1>7 DEF vars, host, call, request, found, loop, history, SafeInv, FreedInv, FreedAt
  <2> QED BY <1>1, <1>7, <2>1, <2>2, <2>3, <2>4 DEF vars, host, SafeInv
<1> QED
  BY <1>1, <1>3, <1>4, <1>5, <1>6, <1>7, DaemonStays DEF Next, SafeInv

\* All that holds of CleanDevices together, for any number of calls, devices and
\* flush retries (base.go cleanDevices).
THEOREM CleanSafe == Spec => []SafeInv
  BY InitSafe, NextSafe, PTL DEF Spec

\* Every variable keeps its type (base.go cleanDevices).
THEOREM CleanTypeOK == Spec => []TypeOK
<1>1. SafeInv => TypeOK
  BY DEF SafeInv, TypeInv
<1> QED BY <1>1, CleanSafe, PTL

\* A call that is not forced deletes only after the map it found was gone
\* (base.go cleanDevices, cleanMultipathDevice, retryFlushMultipathDevice).
THEOREM CleanFlushesFirst == Spec => []FlushedFirst
<1>1. SafeInv => FlushedFirst
  BY DEF SafeInv, FlushInv, FlushedFirst
<1> QED BY <1>1, CleanSafe, PTL

\* No device falls out of the loop of cleanDevices (base.go).
THEOREM CleanAccounts == Spec => []Accounted
<1>1. SafeInv => Accounted
  BY DEF SafeInv, AccountInv, Accounted, Deleting
<1> QED BY <1>1, CleanSafe, PTL

\* No device that was in a map all the time is deleted without force, whatever
\* multipathd does during the call (base.go cleanDevices, cleanMultipathDevice).
THEOREM CleanFreesFirst == Spec => []FreedFirst
<1>1. SafeInv => FreedFirst
  BY DEF SafeInv, FreedInv, FreedAt, FreedFirst, Deleting
<1> QED BY <1>1, CleanSafe, PTL

\* Without multipathd no device is deleted from under a map (base.go
\* cleanDevices).
THEOREM CleanSparesMaps == Spec => []NoDeleteUnderMap
<1>1. SafeInv => NoDeleteUnderMap
  BY DEF SafeInv, UnderInv, NoDeleteUnderMap, Deleting
<1> QED BY <1>1, CleanSafe, PTL

\* A call ends after a number of steps that its devices and its retries bound,
\* whatever hangs, times out, comes or goes (base.go cleanDevices,
\* cleanMultipathDevice, retryFlushMultipathDevice).
THEOREM CleanCallBounded == Spec => CallBounded
<1>1. SafeInv /\ SafeInv' /\ [Next]_vars => [\A c \in Caller : BoundedStep(c)]_vars
  BY NextBounded DEF SafeInv
<1>2. (\A c \in Caller : BoundedStep(c)) =>
        \A c \in Caller : Local(c)' # Local(c) =>
          /\ Work(c)' >= 0
          /\ IF pc[c] = "idle" THEN Work(c)' <= MostWork ELSE Work(c)' < Work(c)
  BY DEF BoundedStep
<1> QED BY <1>1, <1>2, CleanSafe, PTL DEF Spec, CallBounded
================================================================================
