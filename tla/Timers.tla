------------------------------- MODULE Timers -------------------------------
(***************************************************************************)
(* setTimeout, setInterval and clear* (runtime/Timers.cpp) of one isolate. *)
(*                                                                         *)
(* Timers fire on the isolate's run loop, the thread Loop.  JavaScript runs*)
(* on whichever thread holds the isolate's v8::Locker: on Loop, or on      *)
(* Other, a thread on which native code called a JavaScript callback       *)
(* (ArgConverter::MethodCallback).  TimerCallback looks at its task twice: *)
(* once before it waits for the lock and once after.                       *)
(*                                                                         *)
(* CoreFoundation is external: a timer holds one retain of its             *)
(* TimerContext while it is valid and another while it fires, and a timer  *)
(* with interval 0 is invalidated before its callback is called.           *)
(***************************************************************************)
EXTENDS Naturals, FiniteSets

CONSTANT MaxTimers   \* bound: calls of setTimeout and setInterval

ASSUME TimersAssumption == MaxTimers \in Nat

Ids == 1..MaxTimers
Threads == {"loop", "other"}

VARIABLES
  \* TimerState
  currentTimerId, timerMap_,
  stateFreed,     \* the TimerState was deleted with the isolate's Caches
  \* the TimerTask, the TimerContext and the CFRunLoopTimer of each id
  queued_, repeats_,
  isolate_,       \* TRUE while task->isolate_ is not nullptr
  retainCount, context, timer,
  \* the threads
  locker,         \* who holds the isolate's lock
  step,           \* step[t]: where thread t stands in JavaScript or a call from it
  target,         \* target[t]: the id of that call
  cb, firing,     \* where Loop stands in TimerCallback, and for which id
  runtime,        \* the isolate: "alive", "dying", "gone"
  \* history
  cleared,        \* ids whose clear has returned
  ran,            \* ids whose function has been called
  faults

state == <<currentTimerId, timerMap_, stateFreed>>
task == <<queued_, repeats_, isolate_>>
native == <<retainCount, context, timer>>
threads == <<locker, step, target>>
callback == <<cb, firing>>
hist == <<cleared, ran, faults>>
vars == <<state, task, native, threads, callback, runtime, hist>>

TypeOK ==
  /\ currentTimerId \in 0..MaxTimers
  /\ timerMap_ \in SUBSET Ids
  /\ stateFreed \in BOOLEAN
  /\ queued_ \in [Ids -> BOOLEAN]
  /\ repeats_ \in [Ids -> BOOLEAN]
  /\ isolate_ \in [Ids -> BOOLEAN]
  /\ retainCount \in [Ids -> 0..3]
  /\ context \in [Ids -> {"none", "alive", "deleted"}]
  /\ timer \in [Ids -> {"none", "valid", "invalid"}]
  /\ locker \in Threads \cup {"free"}
  /\ step \in [Threads -> {"out", "js", "created", "unscheduled"}]
  /\ target \in [Threads -> 0..MaxTimers]
  /\ cb \in {"idle", "check", "load", "lock", "recheck", "call", "unlock", "release"}
  /\ firing \in 0..MaxTimers
  /\ runtime \in {"alive", "dying", "gone"}
  /\ cleared \in SUBSET Ids
  /\ ran \in SUBSET Ids
  /\ faults \in SUBSET {"lockNull", "stateUsed"}

Init ==
  /\ currentTimerId = 0 /\ timerMap_ = {} /\ stateFreed = FALSE
  /\ queued_ = [i \in Ids |-> FALSE]
  /\ repeats_ = [i \in Ids |-> FALSE]
  /\ isolate_ = [i \in Ids |-> FALSE]
  /\ retainCount = [i \in Ids |-> 0]
  /\ context = [i \in Ids |-> "none"]
  /\ timer = [i \in Ids |-> "none"]
  /\ locker = "free"
  /\ step = [t \in Threads |-> "out"]
  /\ target = [t \in Threads |-> 0]
  /\ cb = "idle" /\ firing = 0
  /\ runtime = "alive"
  /\ cleared = {} /\ ran = {} /\ faults = {}

-----------------------------------------------------------------------------
\* A null Locker and a deleted TimerState end the process.
Alive == faults = {}

\* Thread t is running JavaScript of the isolate.  On Other it may still do so
\* while Loop is inside ~Runtime and waits for the lock.
InJs(t) == /\ Alive /\ locker = t /\ step[t] = "js"
           /\ runtime # "gone"
           /\ t = "loop" => runtime = "alive" /\ cb \in {"idle", "call"}

\* TimerContext::TimerRelease of one id, with ~TimerContext at zero.
\* TimerTask::Unschedule is part of the destructor.
TimerRelease(i) ==
  /\ retainCount' = [retainCount EXCEPT ![i] = @ - 1]
  /\ context' = [context EXCEPT ![i] = IF retainCount[i] = 1 THEN "deleted" ELSE @]

\* TimerTask::Unschedule.
Unschedule(i) == /\ queued_' = [queued_ EXCEPT ![i] = FALSE]
                 /\ isolate_' = [isolate_ EXCEPT ![i] = FALSE]
                 /\ UNCHANGED repeats_

\* What the release of a context's last retain does to the task.
UnscheduleIfLast(i) == IF retainCount[i] = 1 THEN Unschedule(i) ELSE UNCHANGED task

-----------------------------------------------------------------------------
(* JavaScript on a thread *)

EnterJs(t) ==
  /\ Alive /\ runtime = "alive"
  /\ locker = "free" /\ step[t] = "out"
  /\ t = "loop" => cb = "idle"
  /\ locker' = t
  /\ step' = [step EXCEPT ![t] = "js"]
  /\ UNCHANGED <<state, task, native, target, callback, runtime, hist>>

LeaveJs(t) ==
  /\ Alive /\ locker = t /\ step[t] = "js"
  /\ t = "loop" => cb = "idle"
  /\ locker' = "free"
  /\ step' = [step EXCEPT ![t] = "out"]
  /\ UNCHANGED <<state, task, native, target, callback, runtime, hist>>

\* setTimeout without a function: the id is used up and -1 returned.
SetTimerInvalid(t) ==
  /\ InJs(t)
  /\ currentTimerId < MaxTimers
  /\ currentTimerId' = currentTimerId + 1
  /\ UNCHANGED <<timerMap_, stateFreed, task, native, threads, callback, runtime, hist>>

\* Mutant: the timer is on the run loop before its task is queued.
SetTimer_AddsFirst(t, repeatable) ==
  /\ InJs(t)
  /\ currentTimerId < MaxTimers
  /\ currentTimerId' = currentTimerId + 1
  /\ LET i == currentTimerId + 1
     IN  /\ isolate_' = [isolate_ EXCEPT ![i] = TRUE]
         /\ repeats_' = [repeats_ EXCEPT ![i] = repeatable]
         /\ timer' = [timer EXCEPT ![i] = "valid"]
         /\ context' = [context EXCEPT ![i] = "alive"]
         /\ retainCount' = [retainCount EXCEPT ![i] = 2]
         /\ timerMap_' = timerMap_ \cup {i}
         /\ step' = [step EXCEPT ![t] = "created"]
         /\ target' = [target EXCEPT ![t] = i]
  /\ UNCHANGED <<queued_, stateFreed, locker, callback, runtime, hist>>

\* Mutant: the creator does not take a retain of its own.
SetTimer_NoRetain(t, repeatable) ==
  /\ InJs(t)
  /\ currentTimerId < MaxTimers
  /\ currentTimerId' = currentTimerId + 1
  /\ LET i == currentTimerId + 1
     IN  /\ queued_' = [queued_ EXCEPT ![i] = TRUE]
         /\ isolate_' = [isolate_ EXCEPT ![i] = TRUE]
         /\ repeats_' = [repeats_ EXCEPT ![i] = repeatable]
         /\ timerMap_' = timerMap_ \cup {i}
         /\ timer' = [timer EXCEPT ![i] = "valid"]
         /\ context' = [context EXCEPT ![i] = "alive"]
         /\ retainCount' = [retainCount EXCEPT ![i] = 1]
         /\ step' = [step EXCEPT ![t] = "created"]
         /\ target' = [target EXCEPT ![t] = i]
  /\ UNCHANGED <<stateFreed, locker, callback, runtime, hist>>

\* SetTimer up to CFRunLoopAddTimer: addTask, and the creator's own retain next
\* to the one CFRunLoopTimerCreate takes.
SetTimer(t, repeatable) ==
  /\ InJs(t)
  /\ currentTimerId < MaxTimers
  /\ currentTimerId' = currentTimerId + 1
  /\ LET i == currentTimerId + 1
     IN  /\ queued_' = [queued_ EXCEPT ![i] = TRUE]
         /\ isolate_' = [isolate_ EXCEPT ![i] = TRUE]
         /\ repeats_' = [repeats_ EXCEPT ![i] = repeatable]
         /\ timerMap_' = timerMap_ \cup {i}
         /\ timer' = [timer EXCEPT ![i] = "valid"]
         /\ context' = [context EXCEPT ![i] = "alive"]
         /\ retainCount' = [retainCount EXCEPT ![i] = 2]
         /\ step' = [step EXCEPT ![t] = "created"]
         /\ target' = [target EXCEPT ![t] = i]
  /\ UNCHANGED <<stateFreed, locker, callback, runtime, hist>>

\* SetTimer's last call: the creator gives up its retain.
SetTimerRelease(t) ==
  /\ Alive /\ step[t] = "created"
  /\ TimerRelease(target[t])
  /\ UnscheduleIfLast(target[t])
  /\ step' = [step EXCEPT ![t] = "js"]
  /\ UNCHANGED <<state, timer, locker, target, callback, runtime, hist>>

\* TimerState::removeTask up to CFRunLoopTimerInvalidate, on thread t.
RemoveTask(t, i) ==
  /\ Unschedule(i)
  /\ timerMap_' = timerMap_ \ {i}
  /\ step' = [step EXCEPT ![t] = "unscheduled"]
  /\ target' = [target EXCEPT ![t] = i]
  /\ UNCHANGED <<currentTimerId, stateFreed, locker>>

\* clearTimeout and clearInterval of an id that was handed out.
ClearTimeout(t, i) ==
  /\ InJs(t)
  /\ i <= currentTimerId
  /\ i \notin cleared
  /\ cleared' = cleared \cup {i}
  /\ IF i \in timerMap_ THEN RemoveTask(t, i) ELSE UNCHANGED <<state, task, threads>>
  /\ UNCHANGED <<native, callback, runtime, ran, faults>>

\* CFRunLoopTimerInvalidate drops the timer's retain of the context, once.
InvalidateTimer(t) ==
  /\ Alive /\ step[t] = "unscheduled"
  /\ step' = [step EXCEPT ![t] = "js"]
  /\ LET i == target[t]
     IN  /\ timer' = [timer EXCEPT ![i] = "invalid"]
         /\ IF timer[i] = "valid"
              THEN TimerRelease(i) /\ UnscheduleIfLast(i)
              ELSE UNCHANGED <<task, retainCount, context>>
  /\ UNCHANGED <<state, locker, target, callback, runtime, hist>>

-----------------------------------------------------------------------------
(* The run loop: TimerCallback *)

\* The run loop retains the context for the call and invalidates a timer that
\* has no interval, which gives back the timer's own retain.
Fire(i) ==
  /\ Alive /\ cb = "idle" /\ step["loop"] = "out" /\ runtime # "dying"
  /\ timer[i] = "valid"
  /\ firing' = i
  /\ cb' = "check"
  /\ IF repeats_[i]
       THEN /\ retainCount' = [retainCount EXCEPT ![i] = @ + 1]
            /\ UNCHANGED timer
       ELSE /\ timer' = [timer EXCEPT ![i] = "invalid"]
            /\ UNCHANGED retainCount
  /\ UNCHANGED <<state, task, context, threads, runtime, hist>>

\* The first look, without the lock, at the task and at the isolate.
CheckQueued ==
  /\ Alive /\ cb = "check"
  /\ cb' = IF queued_[firing] /\ runtime = "alive" THEN "load" ELSE "release"
  /\ UNCHANGED <<state, task, native, threads, firing, runtime, hist>>

\* task->isolate_ is read and handed to the Locker.
LoadIsolate ==
  /\ Alive /\ cb = "load"
  /\ cb' = "lock"
  /\ faults' = IF isolate_[firing] THEN faults ELSE faults \cup {"lockNull"}
  /\ UNCHANGED <<state, task, native, threads, firing, runtime, cleared, ran>>

TakeLock ==
  /\ Alive /\ cb = "lock"
  /\ locker = "free"
  /\ locker' = "loop"
  /\ step' = [step EXCEPT !["loop"] = "js"]
  /\ cb' = "recheck"
  /\ UNCHANGED <<state, task, native, target, firing, runtime, hist>>

\* Mutant: the task is not looked at again once the lock is held.
Recheck_Missing ==
  /\ Alive /\ cb = "recheck"
  /\ cb' = "call" /\ ran' = ran \cup {firing}
  /\ UNCHANGED <<state, task, native, threads, firing, runtime, cleared, faults>>

\* "ensure we're still queued after locking"; then the function is called.
Recheck ==
  /\ Alive /\ cb = "recheck"
  /\ IF queued_[firing] THEN cb' = "call" /\ ran' = ran \cup {firing}
                        ELSE cb' = "unlock" /\ UNCHANGED ran
  /\ UNCHANGED <<state, task, native, threads, firing, runtime, cleared, faults>>

\* Mutant: a timeout that has run is left in timerMap_.
CallReturns_KeepsTask ==
  /\ Alive /\ cb = "call" /\ step["loop"] = "js" /\ runtime # "dying"
  /\ cb' = "unlock"
  /\ UNCHANGED <<state, task, native, threads, firing, runtime, hist>>

\* The function returned: a timeout is removed, through data->state.
CallReturns ==
  /\ Alive /\ cb = "call" /\ step["loop"] = "js" /\ runtime # "dying"
  /\ cb' = "unlock"
  /\ faults' = IF ~repeats_[firing] /\ stateFreed THEN faults \cup {"stateUsed"} ELSE faults
  /\ IF ~repeats_[firing] /\ ~stateFreed /\ firing \in timerMap_
       THEN RemoveTask("loop", firing)
       ELSE UNCHANGED <<state, task, threads>>
  /\ UNCHANGED <<native, firing, runtime, cleared, ran>>

Unlock ==
  /\ Alive /\ cb = "unlock" /\ step["loop"] = "js"
  /\ locker' = "free"
  /\ step' = [step EXCEPT !["loop"] = "out"]
  /\ cb' = "release"
  /\ UNCHANGED <<state, task, native, target, firing, runtime, hist>>

\* The run loop gives back the retain it took for the call.
ReleaseContext ==
  /\ Alive /\ cb = "release"
  /\ TimerRelease(firing)
  /\ UnscheduleIfLast(firing)
  /\ cb' = "idle" /\ firing' = 0
  /\ UNCHANGED <<state, timer, threads, runtime, hist>>

-----------------------------------------------------------------------------
(* Runtime::~Runtime on the run loop's thread, between two events or, when an *)
(* embedder deletes the runtime from a callback, inside a timer's function.   *)

DestroyBegin ==
  /\ Alive /\ runtime = "alive"
  /\ \/ cb = "idle" /\ step["loop"] = "out"
     \/ cb = "call" /\ step["loop"] = "js"
  /\ runtime' = "dying"
  /\ UNCHANGED <<state, task, native, threads, callback, hist>>

\* The Locker is taken and Caches::Remove deletes the TimerState with the map.
DestroyCaches ==
  /\ Alive /\ runtime = "dying"
  /\ locker \in {"free", "loop"}
  /\ runtime' = "gone"
  /\ stateFreed' = TRUE
  /\ timerMap_' = {}
  /\ UNCHANGED <<currentTimerId, task, native, threads, callback, hist>>

-----------------------------------------------------------------------------
Step(t) == LeaveJs(t) \/ SetTimerRelease(t) \/ InvalidateTimer(t)

LoopStep == \/ CheckQueued \/ LoadIsolate \/ Recheck \/ CallReturns \/ Unlock
            \/ ReleaseContext \/ DestroyCaches

Next == \/ \E t \in Threads : \/ EnterJs(t) \/ SetTimerInvalid(t) \/ Step(t)
                              \/ \E repeatable \in BOOLEAN : SetTimer(t, repeatable)
                              \/ \E i \in Ids : ClearTimeout(t, i)
        \/ \E i \in Ids : Fire(i)
        \/ TakeLock \/ LoopStep \/ DestroyBegin

\* JavaScript returns, the run loop fires what is due, and a thread that waits
\* for the isolate's lock gets it in the end.
Spec == /\ Init /\ [][Next]_vars
        /\ \A t \in Threads : WF_vars(Step(t))
        /\ WF_vars(LoopStep)
        /\ SF_vars(TakeLock)
        /\ \A i \in Ids : SF_vars(Fire(i))

-----------------------------------------------------------------------------
(* Once clearTimeout(id) has been called, the timer's function is not called *)
(* any more, even when the timer has already fired on the run loop and only  *)
(* waits for the isolate's lock.                                             *)
ClearedNeverRuns ==
  [][(cb = "recheck" /\ cb' = "call") => firing \notin cleared]_vars

(* A context is deleted exactly when nothing refers to it: not the creator,  *)
(* not a valid timer, not a call in progress.  Deleted earlier, the run loop *)
(* would use it; later, it leaks.                                            *)
ContextMatchesTimer ==
  \A i \in Ids :
    context[i] = "alive" <=>
      \/ timer[i] = "valid"
      \/ firing = i
      \/ \E t \in Threads : step[t] = "created" /\ target[t] = i

(* timerMap_ holds an id exactly as long as its task is queued, and no entry *)
(* outlives its native timer: what clearTimeout finds can be invalidated.    *)
(* What TimerCallback read without the lock goes stale in one way only: it   *)
(* locks a null isolate for no other timer than one cleared meanwhile, not   *)
(* for one whose creator or whose timer gave up its retain.                  *)
EntryIsLive ==
  /\ ~stateFreed => \A i \in Ids : /\ i \in timerMap_ <=> queued_[i]
                                   /\ i \in timerMap_ => context[i] = "alive"
  /\ "lockNull" \in faults => firing \in cleared

(* A timeout that nobody clears calls its function, although it may fire     *)
(* while another thread holds the isolate's lock.                            *)
TimeoutRuns ==
  \A i \in Ids :
    (i \in timerMap_ /\ ~repeats_[i])
      ~> (i \in ran \/ i \in cleared \/ runtime # "alive" \/ ~Alive)
=============================================================================
