---------------------------- MODULE TimersProofs ----------------------------
(***************************************************************************)
(* Proofs about Timers, for any number of timers: the state stays well     *)
(* typed, the retain counts of the contexts balance, timerMap_ holds live  *)
(* timers only, and a cleared timer's function is not called.              *)
(*                                                                         *)
(* The count of a context only makes sense next to who holds the lock (at  *)
(* most one thread is inside SetTimer) and to where TimerCallback stands   *)
(* (the run loop's own retain), so the invariant ties all of them together.*)
(***************************************************************************)
EXTENDS Timers, TLAPS

Creating(i) == \E t \in Threads : step[t] = "created" /\ target[t] = i

One(b) == IF b THEN 1 ELSE 0

(* Who holds a retain of context i: the timer, the call, the creator. *)
Retains(i) == One(timer[i] = "valid") + One(firing = i) + One(Creating(i))

LockMatchesStep == \A t \in Threads : locker = t <=> step[t] # "out"

LoopMatchesRuntime ==
  /\ cb = "idle" <=> firing = 0
  /\ firing <= currentTimerId
  /\ runtime = "gone" <=> stateFreed
  /\ runtime = "dying" => cb \in {"idle", "call"}

TargetsExist ==
  \A t \in Threads :
    /\ step[t] \in {"created", "unscheduled"} => target[t] \in 1..currentTimerId
    /\ step[t] = "unscheduled" => target[t] \notin timerMap_

(* Ids that were not handed out yet. *)
FreshIds ==
  \A i \in Ids : i > currentTimerId =>
    timer[i] = "none" /\ i \notin timerMap_ /\ ~queued_[i] /\ i \notin cleared

RetainsBalance ==
  \A i \in Ids : /\ retainCount[i] = Retains(i)
                 /\ context[i] = "alive" <=> retainCount[i] > 0

(* A queued timer is one the run loop will still call, or is calling. *)
EntryIsHeld ==
  ~stateFreed => \A i \in Ids :
    /\ i \in timerMap_ <=> queued_[i]
    /\ i \in timerMap_ =>
         \/ timer[i] = "valid"
         \/ ~repeats_[i] /\ firing = i /\ cb \in {"check", "load", "lock", "recheck", "call"}

ClearedIsGone == \A i \in cleared : ~queued_[i]

(* A task has its isolate as long as it is queued; one that TimerCallback found *)
(* queued loses it to a clear only.                                             *)
LoadIsGuarded ==
  /\ \A i \in Ids : isolate_[i] <=> queued_[i]
  /\ cb = "load" => queued_[firing] \/ firing \in cleared
  /\ "lockNull" \in faults => firing \in cleared

Control == LockMatchesStep /\ LoopMatchesRuntime /\ TargetsExist /\ FreshIds

IInv == TypeOK /\ Control /\ RetainsBalance /\ EntryIsHeld /\ ClearedIsGone /\ LoadIsGuarded

(* The initial state satisfies the invariant. *)
LEMMA InitIInv == Init => IInv
<1> SUFFICES ASSUME Init PROVE IInv
  OBVIOUS
<1>1. TypeOK
  <2>1. 0 \in 0..MaxTimers /\ 0 \in 0..3
    BY TimersAssumption
  <2>2. QED
    BY <2>1, Zenon DEF Init, TypeOK
<1>2. Control
  BY TimersAssumption DEF Init, Control, LockMatchesStep, LoopMatchesRuntime, TargetsExist,
     FreshIds, Ids, Threads
<1>3. RetainsBalance
  BY DEF Init, RetainsBalance, Retains, One, Creating, Ids, Threads
<1>4. EntryIsHeld /\ ClearedIsGone /\ LoadIsGuarded
  BY DEF Init, EntryIsHeld, ClearedIsGone, LoadIsGuarded, Ids
<1>5. QED
  BY <1>1, <1>2, <1>3, <1>4 DEF IInv

(* Every step keeps the lock, the threads and TimerCallback in step. *)
LEMMA ControlStep ==
  TypeOK /\ Control /\ [Next]_vars => Control'
<1> SUFFICES ASSUME TypeOK /\ Control, [Next]_vars PROVE Control'
  OBVIOUS
<1> USE TimersAssumption DEF TypeOK, Control, LockMatchesStep, LoopMatchesRuntime, TargetsExist, FreshIds, state, task, native, threads, callback, hist, Ids, Threads
<1>1. ASSUME NEW t \in Threads, EnterJs(t) PROVE Control'
  BY <1>1 DEF EnterJs
<1>2. ASSUME NEW t \in Threads, SetTimerInvalid(t) PROVE Control'
  BY <1>2 DEF SetTimerInvalid, InJs
<1>3. ASSUME NEW t \in Threads, LeaveJs(t) PROVE Control'
  BY <1>3 DEF LeaveJs
<1>4. ASSUME NEW t \in Threads, SetTimerRelease(t) PROVE Control'
  BY <1>4 DEF SetTimerRelease, TimerRelease, UnscheduleIfLast, Unschedule
<1>5. ASSUME NEW t \in Threads, InvalidateTimer(t) PROVE Control'
  BY <1>5 DEF InvalidateTimer, TimerRelease, UnscheduleIfLast, Unschedule
<1>6. ASSUME NEW t \in Threads, NEW r \in BOOLEAN, SetTimer(t, r) PROVE Control'
  BY <1>6 DEF SetTimer, InJs
<1>7. ASSUME NEW t \in Threads, NEW i \in Ids, ClearTimeout(t, i) PROVE Control'
  BY <1>7 DEF ClearTimeout, InJs, RemoveTask, Unschedule
<1>8. ASSUME NEW i \in Ids, Fire(i) PROVE Control'
  BY <1>8 DEF Fire
<1>9. ASSUME TakeLock PROVE Control'
  BY <1>9 DEF TakeLock
<1>10. ASSUME CheckQueued PROVE Control'
  BY <1>10 DEF CheckQueued
<1>11. ASSUME LoadIsolate PROVE Control'
  BY <1>11 DEF LoadIsolate
<1>12. ASSUME Recheck PROVE Control'
  BY <1>12 DEF Recheck
<1>13. ASSUME CallReturns PROVE Control'
  BY <1>13 DEF CallReturns, RemoveTask, Unschedule
<1>14. ASSUME Unlock PROVE Control'
  BY <1>14 DEF Unlock
<1>15. ASSUME ReleaseContext PROVE Control'
  BY <1>15 DEF ReleaseContext, TimerRelease, UnscheduleIfLast, Unschedule
<1>16. ASSUME DestroyCaches PROVE Control'
  BY <1>16 DEF DestroyCaches
<1>17. ASSUME DestroyBegin PROVE Control'
  BY <1>17 DEF DestroyBegin
<1>18. ASSUME UNCHANGED vars PROVE Control'
  BY <1>18 DEF vars
<1> HIDE DEF TypeOK, Control, LockMatchesStep, LoopMatchesRuntime, TargetsExist, FreshIds, state, task, native, threads, callback, hist, Ids, Threads
<1>19. QED
  BY <1>1, <1>2, <1>3, <1>4, <1>5, <1>6, <1>7, <1>8, <1>9, <1>10, <1>11, <1>12, <1>13, <1>14, <1>15, <1>16, <1>17, <1>18 DEF Next, Step, LoopStep

(* Every step keeps the retain counts balanced. *)
LEMMA BalanceStep ==
  TypeOK /\ Control /\ RetainsBalance /\ [Next]_vars => RetainsBalance'
<1> SUFFICES ASSUME TypeOK /\ Control /\ RetainsBalance, [Next]_vars PROVE RetainsBalance'
  OBVIOUS
<1> USE TimersAssumption DEF TypeOK, Control, LockMatchesStep, LoopMatchesRuntime, TargetsExist, FreshIds, RetainsBalance, Retains, One, Creating, state, task, native, threads, callback, hist, Ids, Threads
<1>1. ASSUME NEW t \in Threads, EnterJs(t) PROVE RetainsBalance'
  BY <1>1 DEF EnterJs
<1>2. ASSUME NEW t \in Threads, SetTimerInvalid(t) PROVE RetainsBalance'
  BY <1>2 DEF SetTimerInvalid, InJs
<1>3. ASSUME NEW t \in Threads, LeaveJs(t) PROVE RetainsBalance'
  BY <1>3 DEF LeaveJs
<1>4. ASSUME NEW t \in Threads, SetTimerRelease(t) PROVE RetainsBalance'
  BY <1>4, SMTT(20) DEF SetTimerRelease, TimerRelease, UnscheduleIfLast, Unschedule
<1>5. ASSUME NEW t \in Threads, InvalidateTimer(t) PROVE RetainsBalance'
  <2>1. target[t] \in Ids /\ step[t] = "unscheduled" /\ locker = t
    BY <1>5 DEF InvalidateTimer
  <2>2. \A j \in Ids : Creating(j)' <=> Creating(j)
    BY <1>5, <2>1 DEF InvalidateTimer
  <2>3. CASE timer[target[t]] = "valid"
    <3> HIDE DEF Creating
    <3>1. \A j \in Ids : One(Creating(j))' = One(Creating(j))
      BY <2>2
    <3>2. firing' = firing /\ timer' = [timer EXCEPT ![target[t]] = "invalid"]
      BY <1>5 DEF InvalidateTimer
    <3>3. \A j \in Ids : Retains(j)' = IF j = target[t] THEN Retains(j) - 1 ELSE Retains(j)
      BY <2>1, <2>3, <3>1, <3>2
    <3>4. /\ retainCount' = [retainCount EXCEPT ![target[t]] = @ - 1]
          /\ context' = [context EXCEPT ![target[t]] =
                            IF retainCount[target[t]] = 1 THEN "deleted" ELSE @]
      BY <1>5, <2>3 DEF InvalidateTimer, TimerRelease
    <3> HIDE DEF Retains
    <3>5. ASSUME NEW j \in Ids, j # target[t]
          PROVE  /\ retainCount'[j] = Retains(j)'
                 /\ context'[j] = "alive" <=> retainCount'[j] > 0
      BY <2>1, <3>3, <3>4, <3>5
    <3>6. retainCount'[target[t]] = retainCount[target[t]] - 1
      BY <2>1, <3>4
    <3>7. context'[target[t]] = IF retainCount[target[t]] = 1 THEN "deleted" ELSE context[target[t]]
      BY <2>1, <3>4
    <3>8. ASSUME NEW j \in Ids, j = target[t]
          PROVE  /\ retainCount'[j] = Retains(j)'
                 /\ context'[j] = "alive" <=> retainCount'[j] > 0
      <4>1. retainCount[j] \in 0..3 /\ (context[j] = "alive" <=> retainCount[j] > 0)
        OBVIOUS
      <4>2. retainCount[j] = Retains(j)
        OBVIOUS
      <4>3. retainCount'[j] = retainCount[j] - 1
        BY <3>6, <3>8
      <4>4. context'[j] = IF retainCount[j] = 1 THEN "deleted" ELSE context[j]
        BY <3>7, <3>8
      <4>5. Retains(j)' = Retains(j) - 1
        BY <3>3, <3>8
      <4>6. retainCount'[j] = Retains(j)'
        BY <4>2, <4>3, <4>5
      <4>7. context'[j] = "alive" <=> retainCount'[j] > 0
        BY <4>1, <4>3, <4>4
      <4>8. QED
        BY <4>6, <4>7
    <3>9. QED
      BY <3>5, <3>8
  <2>4. CASE timer[target[t]] # "valid"
    BY <1>5, <2>1, <2>2, <2>4, SMTT(20) DEF InvalidateTimer
  <2>5. QED
    BY <2>3, <2>4
<1>6. ASSUME NEW t \in Threads, NEW r \in BOOLEAN, SetTimer(t, r) PROVE RetainsBalance'
  BY <1>6, SMTT(20) DEF SetTimer, InJs
<1>7. ASSUME NEW t \in Threads, NEW i \in Ids, ClearTimeout(t, i) PROVE RetainsBalance'
  BY <1>7, SMTT(20) DEF ClearTimeout, InJs, RemoveTask, Unschedule
<1>8. ASSUME NEW i \in Ids, Fire(i) PROVE RetainsBalance'
  <2>1. \A j \in Ids : Creating(j)' <=> Creating(j)
    BY <1>8 DEF Fire
  <2>2. firing = 0 /\ firing' = i /\ context' = context
    BY <1>8 DEF Fire
  <2> HIDE DEF Creating
  <2>3. \A j \in Ids : One(Creating(j))' = One(Creating(j))
    BY <2>1
  <2>4. CASE repeats_[i]
    BY <1>8, <2>2, <2>3, <2>4, SMTT(20) DEF Fire
  <2>5. CASE ~repeats_[i]
    BY <1>8, <2>2, <2>3, <2>5 DEF Fire
  <2>6. QED
    BY <2>4, <2>5
<1>9. ASSUME TakeLock PROVE RetainsBalance'
  BY <1>9 DEF TakeLock
<1>10. ASSUME CheckQueued PROVE RetainsBalance'
  BY <1>10 DEF CheckQueued
<1>11. ASSUME LoadIsolate PROVE RetainsBalance'
  BY <1>11 DEF LoadIsolate
<1>12. ASSUME Recheck PROVE RetainsBalance'
  BY <1>12 DEF Recheck
<1>13. ASSUME CallReturns PROVE RetainsBalance'
  BY <1>13, SMTT(20) DEF CallReturns, RemoveTask, Unschedule
<1>14. ASSUME Unlock PROVE RetainsBalance'
  BY <1>14 DEF Unlock
<1>15. ASSUME ReleaseContext PROVE RetainsBalance'
  <2>1. \A j \in Ids : Creating(j)' <=> Creating(j)
    BY <1>15 DEF ReleaseContext
  <2>2. firing \in Ids /\ firing' = 0 /\ timer' = timer
    BY <1>15 DEF ReleaseContext
  <2> HIDE DEF Creating
  <2>3. \A j \in Ids : One(Creating(j))' = One(Creating(j))
    BY <2>1
  <2>4. \A j \in Ids : Retains(j)' = IF j = firing THEN Retains(j) - 1 ELSE Retains(j)
    BY <2>2, <2>3
  <2>5. /\ retainCount' = [retainCount EXCEPT ![firing] = @ - 1]
        /\ context' = [context EXCEPT ![firing] = IF retainCount[firing] = 1 THEN "deleted" ELSE @]
    BY <1>15 DEF ReleaseContext, TimerRelease
  <2> HIDE DEF Retains
  <2>6. ASSUME NEW j \in Ids, j # firing
        PROVE  /\ retainCount'[j] = Retains(j)'
               /\ context'[j] = "alive" <=> retainCount'[j] > 0
    BY <2>2, <2>4, <2>5, <2>6
  <2>7. retainCount'[firing] = retainCount[firing] - 1
    BY <2>2, <2>5
  <2>8. context'[firing] = IF retainCount[firing] = 1 THEN "deleted" ELSE context[firing]
    BY <2>2, <2>5
  <2>9. ASSUME NEW j \in Ids, j = firing
        PROVE  /\ retainCount'[j] = Retains(j)'
               /\ context'[j] = "alive" <=> retainCount'[j] > 0
    <3>1. retainCount[j] \in 0..3 /\ (context[j] = "alive" <=> retainCount[j] > 0)
      OBVIOUS
    <3>2. retainCount[j] = Retains(j)
      OBVIOUS
    <3>3. retainCount'[j] = retainCount[j] - 1
      BY <2>7, <2>9
    <3>4. context'[j] = IF retainCount[j] = 1 THEN "deleted" ELSE context[j]
      BY <2>8, <2>9
    <3>5. Retains(j)' = Retains(j) - 1
      BY <2>4, <2>9
    <3>6. retainCount'[j] = Retains(j)'
      BY <3>2, <3>3, <3>5
    <3>7. context'[j] = "alive" <=> retainCount'[j] > 0
      BY <3>1, <3>3, <3>4
    <3>8. QED
      BY <3>6, <3>7
  <2>10. QED
    BY <2>6, <2>9
<1>16. ASSUME DestroyCaches PROVE RetainsBalance'
  BY <1>16 DEF DestroyCaches
<1>17. ASSUME DestroyBegin PROVE RetainsBalance'
  BY <1>17 DEF DestroyBegin
<1>18. ASSUME UNCHANGED vars PROVE RetainsBalance'
  BY <1>18 DEF vars
<1> HIDE DEF TypeOK, Control, LockMatchesStep, LoopMatchesRuntime, TargetsExist, FreshIds, RetainsBalance, Retains, One, Creating, state, task, native, threads, callback, hist, Ids, Threads
<1>19. QED
  BY <1>1, <1>2, <1>3, <1>4, <1>5, <1>6, <1>7, <1>8, <1>9, <1>10, <1>11, <1>12, <1>13, <1>14, <1>15, <1>16, <1>17, <1>18 DEF Next, Step, LoopStep

(* Every step keeps the state well typed; the bound on a count needs the balance. *)
LEMMA TypeStep ==
  TypeOK /\ Control /\ RetainsBalance /\ [Next]_vars => TypeOK'
<1> SUFFICES ASSUME TypeOK /\ Control /\ RetainsBalance, [Next]_vars PROVE TypeOK'
  OBVIOUS
<1> USE TimersAssumption DEF TypeOK, Control, LoopMatchesRuntime, TargetsExist, RetainsBalance, Retains, One, state, task, native, threads, callback, hist, Ids, Threads
<1>1. ASSUME NEW t \in Threads, EnterJs(t) PROVE TypeOK'
  BY <1>1 DEF EnterJs
<1>2. ASSUME NEW t \in Threads, SetTimerInvalid(t) PROVE TypeOK'
  BY <1>2 DEF SetTimerInvalid, InJs
<1>3. ASSUME NEW t \in Threads, LeaveJs(t) PROVE TypeOK'
  BY <1>3 DEF LeaveJs
<1>4. ASSUME NEW t \in Threads, SetTimerRelease(t) PROVE TypeOK'
  <2>1. target[t] \in Ids /\ retainCount[target[t]] \in 1..3
    <3>1. target[t] \in Ids
      BY <1>4 DEF SetTimerRelease
    <3>2. One(Creating(target[t])) = 1
      BY <1>4 DEF SetTimerRelease, Creating
    <3>3. retainCount[target[t]] = Retains(target[t])
      BY <3>1
    <3>4. Retains(target[t]) \in 1..3
      BY <3>2
    <3>5. QED
      BY <3>1, <3>3, <3>4
  <2>2. retainCount' \in [Ids -> 0..3] /\ context' \in [Ids -> {"none", "alive", "deleted"}]
    BY <1>4, <2>1 DEF SetTimerRelease, TimerRelease
  <2>3. queued_' \in [Ids -> BOOLEAN] /\ isolate_' \in [Ids -> BOOLEAN] /\ repeats_' = repeats_
    BY <1>4, <2>1 DEF SetTimerRelease, UnscheduleIfLast, Unschedule
  <2>4. QED
    BY <1>4, <2>1, <2>2, <2>3 DEF SetTimerRelease
<1>5. ASSUME NEW t \in Threads, InvalidateTimer(t) PROVE TypeOK'
  <2>1. target[t] \in Ids
    BY <1>5 DEF InvalidateTimer
  <2>2. CASE timer[target[t]] = "valid"
    <3>1. retainCount[target[t]] \in 1..3
      BY <2>1, <2>2
    <3>2. retainCount' \in [Ids -> 0..3] /\ context' \in [Ids -> {"none", "alive", "deleted"}]
      <4>1. /\ retainCount' = [retainCount EXCEPT ![target[t]] = @ - 1]
            /\ context' = [context EXCEPT ![target[t]] =
                              IF retainCount[target[t]] = 1 THEN "deleted" ELSE @]
        BY <1>5, <2>2 DEF InvalidateTimer, TimerRelease
      <4>2. QED
        BY <2>1, <3>1, <4>1
    <3>3. queued_' \in [Ids -> BOOLEAN] /\ isolate_' \in [Ids -> BOOLEAN] /\ repeats_' = repeats_
      BY <1>5, <2>1, <2>2 DEF InvalidateTimer, UnscheduleIfLast, Unschedule
    <3>4. QED
      BY <1>5, <2>1, <3>2, <3>3 DEF InvalidateTimer
  <2>3. CASE timer[target[t]] # "valid"
    BY <1>5, <2>1, <2>3 DEF InvalidateTimer
  <2>4. QED
    BY <2>2, <2>3
<1>6. ASSUME NEW t \in Threads, NEW r \in BOOLEAN, SetTimer(t, r) PROVE TypeOK'
  BY <1>6 DEF SetTimer, InJs
<1>7. ASSUME NEW t \in Threads, NEW i \in Ids, ClearTimeout(t, i) PROVE TypeOK'
  <2>1. CASE i \in timerMap_
    <3>1. RemoveTask(t, i)
      BY <1>7, <2>1 DEF ClearTimeout
    <3>2. /\ queued_' \in [Ids -> BOOLEAN] /\ isolate_' \in [Ids -> BOOLEAN]
          /\ step' \in [Threads -> {"out", "js", "created", "unscheduled"}]
          /\ target' \in [Threads -> 0..MaxTimers]
      BY <3>1 DEF RemoveTask, Unschedule
    <3>3. timerMap_' \in SUBSET Ids /\ cleared' \in SUBSET Ids
      BY <1>7, <3>1 DEF RemoveTask, ClearTimeout
    <3>4. QED
      BY <1>7, <3>1, <3>2, <3>3 DEF ClearTimeout, RemoveTask, Unschedule
  <2>2. CASE i \notin timerMap_
    BY <1>7, <2>2 DEF ClearTimeout
  <2>3. QED
    BY <2>1, <2>2
<1>8. ASSUME NEW i \in Ids, Fire(i) PROVE TypeOK'
  <2>1. retainCount[i] \in 0..2
    BY <1>8 DEF Fire, Creating
  <2>2. CASE repeats_[i]
    <3>1. retainCount' = [retainCount EXCEPT ![i] = @ + 1]
      BY <1>8, <2>2 DEF Fire
    <3>2. retainCount' \in [Ids -> 0..3]
      BY <2>1, <3>1
    <3>3. QED
      BY <1>8, <2>2, <3>2 DEF Fire
  <2>3. CASE ~repeats_[i]
    BY <1>8, <2>3 DEF Fire
  <2>4. QED
    BY <2>2, <2>3
<1>9. ASSUME TakeLock PROVE TypeOK'
  BY <1>9 DEF TakeLock
<1>10. ASSUME CheckQueued PROVE TypeOK'
  BY <1>10 DEF CheckQueued
<1>11. ASSUME LoadIsolate PROVE TypeOK'
  BY <1>11 DEF LoadIsolate
<1>12. ASSUME Recheck PROVE TypeOK'
  <2>1. firing \in Ids
    BY <1>12 DEF Recheck
  <2>2. CASE queued_[firing]
    BY <1>12, <2>1, <2>2 DEF Recheck
  <2>3. CASE ~queued_[firing]
    BY <1>12, <2>3 DEF Recheck
  <2>4. QED
    BY <2>2, <2>3
<1>13. ASSUME CallReturns PROVE TypeOK'
  <2>1. firing \in Ids
    BY <1>13 DEF CallReturns
  <2>2. faults' \in SUBSET {"lockNull", "stateUsed"}
    BY <1>13 DEF CallReturns
  <2>3. CASE ~repeats_[firing] /\ ~stateFreed /\ firing \in timerMap_
    <3>1. RemoveTask("loop", firing)
      BY <1>13, <2>3 DEF CallReturns
    <3>2. /\ queued_' \in [Ids -> BOOLEAN] /\ isolate_' \in [Ids -> BOOLEAN]
          /\ step' \in [Threads -> {"out", "js", "created", "unscheduled"}]
          /\ target' \in [Threads -> 0..MaxTimers]
      BY <2>1, <3>1 DEF RemoveTask, Unschedule
    <3>3. timerMap_' \in SUBSET Ids
      BY <3>1 DEF RemoveTask
    <3>4. QED
      BY <1>13, <2>2, <3>1, <3>2, <3>3 DEF CallReturns, RemoveTask, Unschedule
  <2>4. CASE ~(~repeats_[firing] /\ ~stateFreed /\ firing \in timerMap_)
    BY <1>13, <2>2, <2>4 DEF CallReturns
  <2>5. QED
    BY <2>3, <2>4
<1>14. ASSUME Unlock PROVE TypeOK'
  BY <1>14 DEF Unlock
<1>15. ASSUME ReleaseContext PROVE TypeOK'
  <2>1. firing \in Ids /\ retainCount[firing] \in 1..3
    BY <1>15 DEF ReleaseContext, Creating
  <2>2. retainCount' \in [Ids -> 0..3] /\ context' \in [Ids -> {"none", "alive", "deleted"}]
    BY <1>15, <2>1 DEF ReleaseContext, TimerRelease
  <2>3. queued_' \in [Ids -> BOOLEAN] /\ isolate_' \in [Ids -> BOOLEAN] /\ repeats_' = repeats_
    BY <1>15, <2>1 DEF ReleaseContext, UnscheduleIfLast, Unschedule
  <2>4. QED
    BY <1>15, <2>1, <2>2, <2>3 DEF ReleaseContext
<1>16. ASSUME DestroyCaches PROVE TypeOK'
  BY <1>16 DEF DestroyCaches
<1>17. ASSUME DestroyBegin PROVE TypeOK'
  BY <1>17 DEF DestroyBegin
<1>18. ASSUME UNCHANGED vars PROVE TypeOK'
  BY <1>18 DEF vars
<1> HIDE DEF TypeOK, Control, LoopMatchesRuntime, TargetsExist, RetainsBalance, Retains, One, state, task, native, threads, callback, hist, Ids, Threads
<1>19. QED
  BY <1>1, <1>2, <1>3, <1>4, <1>5, <1>6, <1>7, <1>8, <1>9, <1>10, <1>11, <1>12, <1>13, <1>14, <1>15, <1>16, <1>17, <1>18 DEF Next, Step, LoopStep

(* Every step keeps the entries of timerMap_ held. *)
LEMMA EntryStep ==
  TypeOK /\ Control /\ RetainsBalance /\ EntryIsHeld /\ [Next]_vars => EntryIsHeld'
<1> SUFFICES ASSUME TypeOK /\ Control /\ RetainsBalance /\ EntryIsHeld, [Next]_vars PROVE EntryIsHeld'
  OBVIOUS
<1> USE TimersAssumption DEF TypeOK, Control, LoopMatchesRuntime, TargetsExist, FreshIds, RetainsBalance, Retains, One, EntryIsHeld, state, task, native, threads, callback, hist, Ids, Threads
<1>1. ASSUME NEW t \in Threads, EnterJs(t) PROVE EntryIsHeld'
  BY <1>1 DEF EnterJs
<1>2. ASSUME NEW t \in Threads, SetTimerInvalid(t) PROVE EntryIsHeld'
  BY <1>2 DEF SetTimerInvalid, InJs
<1>3. ASSUME NEW t \in Threads, LeaveJs(t) PROVE EntryIsHeld'
  BY <1>3 DEF LeaveJs
<1>4. ASSUME NEW t \in Threads, SetTimerRelease(t) PROVE EntryIsHeld'
  <2>1. target[t] \in Ids
    BY <1>4 DEF SetTimerRelease
  <2>2. CASE retainCount[target[t]] = 1
    <3>1. stateFreed \/ target[t] \notin timerMap_
      <4>1. Creating(target[t])
        BY <1>4 DEF SetTimerRelease, Creating
      <4>2. timer[target[t]] # "valid" /\ firing # target[t]
        BY <2>1, <2>2, <4>1
      <4>3. QED
        BY <2>1, <4>2
    <3>2. queued_' = [queued_ EXCEPT ![target[t]] = FALSE]
      BY <1>4, <2>2 DEF SetTimerRelease, UnscheduleIfLast, Unschedule
    <3>3. QED
      BY <1>4, <2>1, <2>2, <3>1, <3>2 DEF SetTimerRelease, UnscheduleIfLast, Unschedule
  <2>3. CASE retainCount[target[t]] # 1
    BY <1>4, <2>1, <2>3 DEF SetTimerRelease, UnscheduleIfLast
  <2>4. QED
    BY <2>2, <2>3
<1>5. ASSUME NEW t \in Threads, InvalidateTimer(t) PROVE EntryIsHeld'
  <2>1. target[t] \in Ids /\ target[t] \notin timerMap_
    BY <1>5 DEF InvalidateTimer
  <2>2. timerMap_' = timerMap_ /\ stateFreed' = stateFreed /\ repeats_' = repeats_
    BY <1>5 DEF InvalidateTimer, UnscheduleIfLast, Unschedule
  <2>3. \A j \in Ids \ {target[t]} : (queued_'[j] <=> queued_[j]) /\ timer'[j] = timer[j]
    BY <1>5, <2>1 DEF InvalidateTimer, UnscheduleIfLast, Unschedule
  <2>4. queued_[target[t]] = FALSE => queued_'[target[t]] = FALSE
    BY <1>5, <2>1 DEF InvalidateTimer, UnscheduleIfLast, Unschedule
  <2>5. firing' = firing /\ cb' = cb
    BY <1>5 DEF InvalidateTimer
  <2>6. QED
    BY <2>1, <2>2, <2>3, <2>4, <2>5
<1>6. ASSUME NEW t \in Threads, NEW r \in BOOLEAN, SetTimer(t, r) PROVE EntryIsHeld'
  BY <1>6 DEF SetTimer, InJs
<1>7. ASSUME NEW t \in Threads, NEW i \in Ids, ClearTimeout(t, i) PROVE EntryIsHeld'
  BY <1>7, SMTT(20) DEF ClearTimeout, InJs, RemoveTask, Unschedule
<1>8. ASSUME NEW i \in Ids, Fire(i) PROVE EntryIsHeld'
  BY <1>8 DEF Fire
<1>9. ASSUME TakeLock PROVE EntryIsHeld'
  BY <1>9 DEF TakeLock
<1>10. ASSUME CheckQueued PROVE EntryIsHeld'
  BY <1>10 DEF CheckQueued
<1>11. ASSUME LoadIsolate PROVE EntryIsHeld'
  BY <1>11 DEF LoadIsolate
<1>12. ASSUME Recheck PROVE EntryIsHeld'
  BY <1>12 DEF Recheck
<1>13. ASSUME CallReturns PROVE EntryIsHeld'
  BY <1>13 DEF CallReturns, RemoveTask, Unschedule
<1>14. ASSUME Unlock PROVE EntryIsHeld'
  BY <1>14 DEF Unlock
<1>15. ASSUME ReleaseContext PROVE EntryIsHeld'
  <2>1. firing \in Ids
    BY <1>15 DEF ReleaseContext
  <2>2. CASE retainCount[firing] = 1
    <3>1. stateFreed \/ firing \notin timerMap_
      BY <1>15, <2>1, <2>2 DEF ReleaseContext, Creating
    <3>2. queued_' = [queued_ EXCEPT ![firing] = FALSE]
      BY <1>15, <2>2 DEF ReleaseContext, UnscheduleIfLast, Unschedule
    <3>3. QED
      BY <1>15, <2>1, <2>2, <3>1, <3>2 DEF ReleaseContext, UnscheduleIfLast, Unschedule
  <2>3. CASE retainCount[firing] # 1
    BY <1>15, <2>1, <2>3 DEF ReleaseContext, UnscheduleIfLast
  <2>4. QED
    BY <2>2, <2>3
<1>16. ASSUME DestroyCaches PROVE EntryIsHeld'
  BY <1>16 DEF DestroyCaches
<1>17. ASSUME DestroyBegin PROVE EntryIsHeld'
  BY <1>17 DEF DestroyBegin
<1>18. ASSUME UNCHANGED vars PROVE EntryIsHeld'
  BY <1>18 DEF vars
<1> HIDE DEF TypeOK, Control, LoopMatchesRuntime, TargetsExist, FreshIds, RetainsBalance, Retains, One, EntryIsHeld, state, task, native, threads, callback, hist, Ids, Threads
<1>19. QED
  BY <1>1, <1>2, <1>3, <1>4, <1>5, <1>6, <1>7, <1>8, <1>9, <1>10, <1>11, <1>12, <1>13, <1>14, <1>15, <1>16, <1>17, <1>18 DEF Next, Step, LoopStep

(* Every step keeps cleared timers off the queue. *)
LEMMA ClearedStep ==
  TypeOK /\ Control /\ EntryIsHeld /\ ClearedIsGone /\ [Next]_vars => ClearedIsGone'
<1> SUFFICES ASSUME TypeOK /\ Control /\ EntryIsHeld /\ ClearedIsGone, [Next]_vars PROVE ClearedIsGone'
  OBVIOUS
<1> USE TimersAssumption DEF TypeOK, Control, LoopMatchesRuntime, FreshIds, EntryIsHeld, ClearedIsGone, state, task, native, threads, callback, hist, Ids, Threads
<1>1. ASSUME NEW t \in Threads, EnterJs(t) PROVE ClearedIsGone'
  BY <1>1 DEF EnterJs
<1>2. ASSUME NEW t \in Threads, SetTimerInvalid(t) PROVE ClearedIsGone'
  BY <1>2 DEF SetTimerInvalid, InJs
<1>3. ASSUME NEW t \in Threads, LeaveJs(t) PROVE ClearedIsGone'
  BY <1>3 DEF LeaveJs
<1>4. ASSUME NEW t \in Threads, SetTimerRelease(t) PROVE ClearedIsGone'
  BY <1>4 DEF SetTimerRelease, TimerRelease, UnscheduleIfLast, Unschedule
<1>5. ASSUME NEW t \in Threads, InvalidateTimer(t) PROVE ClearedIsGone'
  BY <1>5, SMTT(20) DEF InvalidateTimer, TimerRelease, UnscheduleIfLast, Unschedule
<1>6. ASSUME NEW t \in Threads, NEW r \in BOOLEAN, SetTimer(t, r) PROVE ClearedIsGone'
  BY <1>6 DEF SetTimer, InJs
<1>7. ASSUME NEW t \in Threads, NEW i \in Ids, ClearTimeout(t, i) PROVE ClearedIsGone'
  BY <1>7 DEF ClearTimeout, InJs, RemoveTask, Unschedule
<1>8. ASSUME NEW i \in Ids, Fire(i) PROVE ClearedIsGone'
  BY <1>8 DEF Fire
<1>9. ASSUME TakeLock PROVE ClearedIsGone'
  BY <1>9 DEF TakeLock
<1>10. ASSUME CheckQueued PROVE ClearedIsGone'
  BY <1>10 DEF CheckQueued
<1>11. ASSUME LoadIsolate PROVE ClearedIsGone'
  BY <1>11 DEF LoadIsolate
<1>12. ASSUME Recheck PROVE ClearedIsGone'
  BY <1>12 DEF Recheck
<1>13. ASSUME CallReturns PROVE ClearedIsGone'
  BY <1>13 DEF CallReturns, RemoveTask, Unschedule
<1>14. ASSUME Unlock PROVE ClearedIsGone'
  BY <1>14 DEF Unlock
<1>15. ASSUME ReleaseContext PROVE ClearedIsGone'
  BY <1>15 DEF ReleaseContext, TimerRelease, UnscheduleIfLast, Unschedule
<1>16. ASSUME DestroyCaches PROVE ClearedIsGone'
  BY <1>16 DEF DestroyCaches
<1>17. ASSUME DestroyBegin PROVE ClearedIsGone'
  BY <1>17 DEF DestroyBegin
<1>18. ASSUME UNCHANGED vars PROVE ClearedIsGone'
  BY <1>18 DEF vars
<1> HIDE DEF TypeOK, Control, LoopMatchesRuntime, FreshIds, EntryIsHeld, ClearedIsGone, state, task, native, threads, callback, hist, Ids, Threads
<1>19. QED
  BY <1>1, <1>2, <1>3, <1>4, <1>5, <1>6, <1>7, <1>8, <1>9, <1>10, <1>11, <1>12, <1>13, <1>14, <1>15, <1>16, <1>17, <1>18 DEF Next, Step, LoopStep

(* Every step keeps what TimerCallback relies on between its look and its lock. *)
LEMMA LoadStep ==
  TypeOK /\ Control /\ RetainsBalance /\ LoadIsGuarded /\ [Next]_vars => LoadIsGuarded'
<1> SUFFICES ASSUME TypeOK /\ Control /\ RetainsBalance /\ LoadIsGuarded, [Next]_vars PROVE LoadIsGuarded'
  OBVIOUS
<1> USE TimersAssumption DEF TypeOK, Control, LoopMatchesRuntime, TargetsExist, FreshIds, RetainsBalance, Retains, One, LoadIsGuarded, Alive, state, task, native, threads, callback, hist, Ids, Threads
<1>1. ASSUME NEW t \in Threads, EnterJs(t) PROVE LoadIsGuarded'
  BY <1>1 DEF EnterJs
<1>2. ASSUME NEW t \in Threads, SetTimerInvalid(t) PROVE LoadIsGuarded'
  BY <1>2 DEF SetTimerInvalid, InJs
<1>3. ASSUME NEW t \in Threads, LeaveJs(t) PROVE LoadIsGuarded'
  BY <1>3 DEF LeaveJs
<1>4. ASSUME NEW t \in Threads, SetTimerRelease(t) PROVE LoadIsGuarded'
  <2>1. target[t] \in Ids /\ step[t] = "created"
    BY <1>4 DEF SetTimerRelease
  <2>2. cb' = cb /\ firing' = firing /\ cleared' = cleared /\ faults' = faults
    BY <1>4 DEF SetTimerRelease
  <2>3. CASE retainCount[target[t]] = 1
    <3>1. Creating(target[t])
      BY <2>1 DEF Creating
    <3>2. firing # target[t]
      BY <2>1, <2>3, <3>1
    <3>3. /\ queued_' = [queued_ EXCEPT ![target[t]] = FALSE]
          /\ isolate_' = [isolate_ EXCEPT ![target[t]] = FALSE]
      BY <1>4, <2>3 DEF SetTimerRelease, UnscheduleIfLast, Unschedule
    <3>4. QED
      BY <2>1, <2>2, <3>2, <3>3
  <2>4. CASE retainCount[target[t]] # 1
    BY <1>4, <2>2, <2>4 DEF SetTimerRelease, UnscheduleIfLast
  <2>5. QED
    BY <2>3, <2>4
<1>5. ASSUME NEW t \in Threads, InvalidateTimer(t) PROVE LoadIsGuarded'
  <2>1. target[t] \in Ids
    BY <1>5 DEF InvalidateTimer
  <2>2. cb' = cb /\ firing' = firing /\ cleared' = cleared /\ faults' = faults
    BY <1>5 DEF InvalidateTimer
  <2>3. CASE timer[target[t]] = "valid" /\ retainCount[target[t]] = 1
    <3>1. firing # target[t]
      BY <2>1, <2>3
    <3>2. /\ queued_' = [queued_ EXCEPT ![target[t]] = FALSE]
          /\ isolate_' = [isolate_ EXCEPT ![target[t]] = FALSE]
      BY <1>5, <2>3 DEF InvalidateTimer, UnscheduleIfLast, Unschedule
    <3>3. QED
      BY <2>1, <2>2, <3>1, <3>2
  <2>4. CASE ~(timer[target[t]] = "valid" /\ retainCount[target[t]] = 1)
    <3>1. queued_' = queued_ /\ isolate_' = isolate_
      BY <1>5, <2>4 DEF InvalidateTimer, UnscheduleIfLast
    <3>2. QED
      BY <2>2, <3>1
  <2>5. QED
    BY <2>3, <2>4
<1>6. ASSUME NEW t \in Threads, NEW r \in BOOLEAN, SetTimer(t, r) PROVE LoadIsGuarded'
  BY <1>6 DEF SetTimer, InJs
<1>7. ASSUME NEW t \in Threads, NEW i \in Ids, ClearTimeout(t, i) PROVE LoadIsGuarded'
  <2>1. /\ cb' = cb /\ firing' = firing /\ faults' = faults
        /\ cleared' = cleared \cup {i}
    BY <1>7 DEF ClearTimeout
  <2>2. CASE i \in timerMap_
    <3>1. /\ queued_' = [queued_ EXCEPT ![i] = FALSE]
          /\ isolate_' = [isolate_ EXCEPT ![i] = FALSE]
      BY <1>7, <2>2 DEF ClearTimeout, RemoveTask, Unschedule
    <3>2. QED
      BY <2>1, <3>1
  <2>3. CASE i \notin timerMap_
    <3>1. queued_' = queued_ /\ isolate_' = isolate_
      BY <1>7, <2>3 DEF ClearTimeout
    <3>2. QED
      BY <2>1, <3>1
  <2>4. QED
    BY <2>2, <2>3
<1>8. ASSUME NEW i \in Ids, Fire(i) PROVE LoadIsGuarded'
  BY <1>8 DEF Fire
<1>9. ASSUME TakeLock PROVE LoadIsGuarded'
  BY <1>9 DEF TakeLock
<1>10. ASSUME CheckQueued PROVE LoadIsGuarded'
  BY <1>10 DEF CheckQueued
<1>11. ASSUME LoadIsolate PROVE LoadIsGuarded'
  BY <1>11 DEF LoadIsolate
<1>12. ASSUME Recheck PROVE LoadIsGuarded'
  BY <1>12 DEF Recheck
<1>13. ASSUME CallReturns PROVE LoadIsGuarded'
  BY <1>13, SMTT(20) DEF CallReturns, RemoveTask, Unschedule
<1>14. ASSUME Unlock PROVE LoadIsGuarded'
  BY <1>14 DEF Unlock
<1>15. ASSUME ReleaseContext PROVE LoadIsGuarded'
  BY <1>15, ZenonT(30) DEF ReleaseContext, TimerRelease, UnscheduleIfLast, Unschedule
<1>16. ASSUME DestroyCaches PROVE LoadIsGuarded'
  BY <1>16 DEF DestroyCaches
<1>17. ASSUME DestroyBegin PROVE LoadIsGuarded'
  BY <1>17 DEF DestroyBegin
<1>18. ASSUME UNCHANGED vars PROVE LoadIsGuarded'
  BY <1>18 DEF vars
<1> HIDE DEF TypeOK, Control, LoopMatchesRuntime, TargetsExist, FreshIds, RetainsBalance, Retains, One, LoadIsGuarded, Alive, state, task, native, threads, callback, hist, Ids, Threads
<1>19. QED
  BY <1>1, <1>2, <1>3, <1>4, <1>5, <1>6, <1>7, <1>8, <1>9, <1>10, <1>11, <1>12, <1>13, <1>14, <1>15, <1>16, <1>17, <1>18 DEF Next, Step, LoopStep

(* Every step keeps the invariant. *)
LEMMA StepIInv == IInv /\ [Next]_vars => IInv'
  BY ControlStep, BalanceStep, TypeStep, EntryStep, ClearedStep, LoadStep DEF IInv

(* The invariant holds throughout. *)
LEMMA IInvHolds == Spec => []IInv
  BY InitIInv, StepIInv, PTL DEF Spec

(* TypeOK holds: no count goes below zero or above three, whoever releases. *)
THEOREM TimersTypeCorrect == Spec => []TypeOK
<1>1. IInv => TypeOK
  BY DEF IInv
<1>2. QED
  BY <1>1, IInvHolds, PTL

(* A TimerContext is freed exactly when the timer, the run loop's call and the *)
(* creator have all released it (TimerContext::TimerRelease).                  *)
THEOREM ContextsMatchTimers == Spec => []ContextMatchesTimer
<1>1. IInv => ContextMatchesTimer
  BY DEF IInv, TypeOK, RetainsBalance, Retains, One, Creating, ContextMatchesTimer
<1>2. QED
  BY <1>1, IInvHolds, PTL

(* timerMap_ holds an id exactly as long as its task is queued, and never one  *)
(* whose context is gone (TimerState::removeTask, TimerCallback); and a null   *)
(* isolate is locked for a cleared timer only.                                 *)
THEOREM EntriesAreLive == Spec => []EntryIsLive
<1>1. IInv => EntryIsLive
  <2> SUFFICES ASSUME IInv, ~stateFreed, NEW i \in Ids
               PROVE  /\ i \in timerMap_ <=> queued_[i]
                      /\ i \in timerMap_ => context[i] = "alive"
    BY DEF EntryIsLive, IInv, LoadIsGuarded
  <2>1. i \in timerMap_ <=> queued_[i]
    BY DEF IInv, EntryIsHeld
  <2>2. i \in timerMap_ => timer[i] = "valid" \/ firing = i
    BY DEF IInv, EntryIsHeld
  <2>3. timer[i] = "valid" \/ firing = i => context[i] = "alive"
    BY DEF IInv, RetainsBalance, Retains, One
  <2>4. QED
    BY <2>1, <2>2, <2>3
<1>2. QED
  BY <1>1, IInvHolds, PTL

(* A timer that waits to be called will be called again or removed: as long as *)
(* timerMap_ has its id, the run loop has a valid CFRunLoopTimer for it or      *)
(* TimerCallback is at work on it (SetTimer, TimerCallback, removeTask).  With  *)
(* a fair run loop this is what TimeoutRuns rests on.                           *)
THEOREM QueuedTimersAreDriven ==
  Spec => [](\A i \in timerMap_ : ~stateFreed => timer[i] = "valid" \/ firing = i)
<1>1. IInv => \A i \in timerMap_ : ~stateFreed => timer[i] = "valid" \/ firing = i
  BY DEF IInv, TypeOK, EntryIsHeld
<1>2. QED
  BY <1>1, IInvHolds, PTL

(* A timer whose clear has been called is not called any more, also when it    *)
(* fired before and waited for the isolate's lock (TimerCallback's second look *)
(* at queued_).                                                                *)
THEOREM ClearedTimersNeverRun == Spec => ClearedNeverRuns
<1>1. IInv /\ [Next]_vars => [(cb = "recheck" /\ cb' = "call") => firing \notin cleared]_vars
  <2> SUFFICES ASSUME IInv, [Next]_vars, cb = "recheck", cb' = "call"
               PROVE  firing \notin cleared
    OBVIOUS
  <2>1. Recheck
    BY DEF Next, Step, LoopStep, EnterJs, SetTimerInvalid, LeaveJs, SetTimerRelease, InvalidateTimer,
       SetTimer, ClearTimeout, Fire, TakeLock, CheckQueued, LoadIsolate, CallReturns, Unlock,
       ReleaseContext, DestroyCaches, DestroyBegin, InJs, vars, callback
  <2>2. queued_[firing]
    BY <2>1 DEF Recheck
  <2>3. QED
    BY <2>2 DEF IInv, ClearedIsGone
<1>2. QED
  BY <1>1, IInvHolds, PTL DEF Spec, ClearedNeverRuns

=============================================================================
