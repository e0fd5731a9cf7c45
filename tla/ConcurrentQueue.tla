--------------------------- MODULE ConcurrentQueue ---------------------------
(***************************************************************************)
(* tns::ConcurrentQueue (runtime/ConcurrentQueue.cpp): the mailbox that    *)
(* carries messages from the isolate that created a Worker to the worker's *)
(* thread.  Pushers run on the creating isolate's thread; the owner is the *)
(* worker's thread, whose CFRunLoop performs the queue's source; Terminate *)
(* is called by either.                                                    *)
(*                                                                         *)
(* Push takes only mutex_, around the std::queue; it reads                 *)
(* runLoopTasksSource_ and runLoop_ without initializationMutex_, so every *)
(* load of them is a step of its own here.  Initialize and Terminate hold  *)
(* initializationMutex_ throughout.                                        *)
(***************************************************************************)
EXTENDS Naturals, Sequences, SequencesExt

CONSTANTS Pushers,   \* threads that call Push
          Owner,     \* the worker's thread
          MaxPush    \* bound: number of messages ever pushed

ASSUME QueueAssumption == Owner \notin Pushers /\ MaxPush \in Nat

VARIABLES
  messagesQueue_,       \* the std::queue, front first
  runLoopTasksSource_,  \* the field: TRUE when it is not nullptr
  runLoop_,             \* the field: TRUE when it is not nullptr
  terminated,
  source,     \* the CFRunLoopSource object the field points or pointed to
  signalled,  \* CFRunLoopSourceSignal was called and not yet performed
  loop,       \* the owner's thread: where it stands around its CFRunLoop
  woken,      \* a CFRunLoopWakeUp the sleeping loop has not consumed
  stopped,    \* CFRunLoopStop reached the running loop
  pc,         \* pc[p]: the next step of pusher p inside Push
  tpc,        \* the next step of the one Terminate call
  tby,        \* the thread that runs Terminate
  sent        \* number of messages pushed so far; message n is the n-th

queueVars == <<messagesQueue_, runLoopTasksSource_, runLoop_, terminated>>
sourceVars == <<source, signalled>>
loopVars == <<loop, woken, stopped>>
termVars == <<tpc, tby>>
vars == <<queueVars, sourceVars, loopVars, termVars, pc, sent>>

LoopStates == {"start", "script", "draining", "entering", "looping", "asleep",
               "performing", "exited"}
PushSteps == {"idle", "checkValid", "enqueue", "loadSource", "assertValid",
              "signal", "loadLoop", "wakeUp", "aborted"}
TerminateSteps == {"idle", "stop", "remove", "invalidate", "release", "done"}
SourceStates == {"none", "added", "removed", "invalid", "freed"}

TypeOK ==
  /\ messagesQueue_ \in Seq(1..MaxPush)
  /\ runLoopTasksSource_ \in BOOLEAN
  /\ runLoop_ \in BOOLEAN
  /\ terminated \in BOOLEAN
  /\ source \in SourceStates
  /\ signalled \in BOOLEAN
  /\ loop \in LoopStates
  /\ woken \in BOOLEAN
  /\ stopped \in BOOLEAN
  /\ pc \in [Pushers -> PushSteps]
  /\ tpc \in TerminateSteps
  /\ tby \in Pushers \cup {Owner}
  /\ sent \in 0..MaxPush

Init ==
  /\ messagesQueue_ = <<>>
  /\ runLoopTasksSource_ = FALSE
  /\ runLoop_ = FALSE
  /\ terminated = FALSE
  /\ source = "none"
  /\ signalled = FALSE
  /\ loop = "start"
  /\ woken = FALSE
  /\ stopped = FALSE
  /\ pc = [p \in Pushers |-> "idle"]
  /\ tpc = "idle"
  /\ tby = Owner
  /\ sent = 0

-----------------------------------------------------------------------------
\* A failed tns::Assert aborts the process: nothing runs afterwards.
Alive == \A p \in Pushers : pc[p] # "aborted"

\* initializationMutex_ is held from Terminate's first step to its last.
InitializationMutexHeld == tpc \notin {"idle", "done"}

\* Thread t is not inside Terminate.
Free(t) == ~(InitializationMutexHeld /\ tby = t)

\* CFRunLoopSourceIsValid on the source object.  On freed memory either answer
\* can come back.
SourceIsValid == IF source = "freed" THEN {TRUE, FALSE}
                 ELSE {source \in {"added", "removed"}}

\* A field that was tested a step ago is read again for the call that uses it,
\* unless the build kept the first value: by now it may be nullptr, and the
\* CoreFoundation function called with it crashes.
ReloadsNull(field) == ~field

GoTo(p, step) == pc' = [pc EXCEPT ![p] = step]

-----------------------------------------------------------------------------
(* Push, by pusher p *)

\* The first load of runLoopTasksSource_ in Push's early return.
PushLoad(p) ==
  /\ Alive /\ Free(p)
  /\ pc[p] = "idle"
  /\ sent < MaxPush
  /\ GoTo(p, IF runLoopTasksSource_ THEN "checkValid" ELSE "enqueue")
  /\ UNCHANGED <<queueVars, sourceVars, loopVars, termVars, sent>>

\* Push returns without queueing when the loaded source is no longer valid.
PushCheckValid(p) ==
  /\ Alive
  /\ pc[p] = "checkValid"
  /\ \/ \E valid \in SourceIsValid : GoTo(p, IF valid THEN "enqueue" ELSE "idle")
     \/ ReloadsNull(runLoopTasksSource_) /\ GoTo(p, "aborted")
  /\ UNCHANGED <<queueVars, sourceVars, loopVars, termVars, sent>>

\* Mutant: the message number is read before it is counted.
PushEnqueue_StaleNumber(p) ==
  /\ Alive
  /\ pc[p] = "enqueue"
  /\ sent < MaxPush
  /\ sent' = sent + 1
  /\ messagesQueue_' = Append(messagesQueue_, sent)
  /\ GoTo(p, "loadSource")
  /\ UNCHANGED <<runLoopTasksSource_, runLoop_, terminated, sourceVars,
                 loopVars, termVars>>

\* The push under mutex_.
PushEnqueue(p) ==
  /\ Alive
  /\ pc[p] = "enqueue"
  /\ sent < MaxPush
  /\ sent' = sent + 1
  /\ messagesQueue_' = Append(messagesQueue_, sent + 1)
  /\ GoTo(p, "loadSource")
  /\ UNCHANGED <<runLoopTasksSource_, runLoop_, terminated, sourceVars,
                 loopVars, termVars>>

\* Mutant: the run loop is woken but the source is never signalled.
SignalLoad_NoSignal(p) ==
  /\ Alive
  /\ pc[p] = "loadSource"
  /\ GoTo(p, "loadLoop")
  /\ UNCHANGED <<queueVars, sourceVars, loopVars, termVars, sent>>

\* SignalAndWakeUp loads runLoopTasksSource_ again.
SignalLoad(p) ==
  /\ Alive
  /\ pc[p] = "loadSource"
  /\ GoTo(p, IF runLoopTasksSource_ THEN "assertValid" ELSE "loadLoop")
  /\ UNCHANGED <<queueVars, sourceVars, loopVars, termVars, sent>>

\* tns::Assert(CFRunLoopSourceIsValid(runLoopTasksSource_)).
SignalAssert(p) ==
  /\ Alive
  /\ pc[p] = "assertValid"
  /\ \/ \E valid \in SourceIsValid : GoTo(p, IF valid THEN "signal" ELSE "aborted")
     \/ ReloadsNull(runLoopTasksSource_) /\ GoTo(p, "aborted")
  /\ UNCHANGED <<queueVars, sourceVars, loopVars, termVars, sent>>

\* CFRunLoopSourceSignal: it has an effect on a live source only.
Signal(p) ==
  /\ Alive
  /\ pc[p] = "signal"
  /\ \/ /\ signalled' = (signalled \/ source \in {"added", "removed"})
        /\ GoTo(p, "loadLoop")
     \/ /\ ReloadsNull(runLoopTasksSource_)
        /\ signalled' = signalled
        /\ GoTo(p, "aborted")
  /\ UNCHANGED <<queueVars, source, loopVars, termVars, sent>>

\* The test of runLoop_.
WakeUpLoad(p) ==
  /\ Alive
  /\ pc[p] = "loadLoop"
  /\ GoTo(p, IF runLoop_ THEN "wakeUp" ELSE "idle")
  /\ UNCHANGED <<queueVars, sourceVars, loopVars, termVars, sent>>

\* Mutant: the source is signalled but the sleeping run loop is not woken.
WakeUp_Missing(p) ==
  /\ Alive
  /\ pc[p] = "wakeUp"
  /\ GoTo(p, "idle")
  /\ UNCHANGED <<queueVars, sourceVars, loopVars, termVars, sent>>

\* CFRunLoopWakeUp.
WakeUp(p) ==
  /\ Alive
  /\ pc[p] = "wakeUp"
  /\ \/ woken' = TRUE /\ GoTo(p, "idle")
     \/ ReloadsNull(runLoop_) /\ woken' = woken /\ GoTo(p, "aborted")
  /\ UNCHANGED <<queueVars, sourceVars, loop, stopped, termVars, sent>>

-----------------------------------------------------------------------------
(* Terminate, by a pusher's thread between two pushes (worker.terminate())  *)
(* or by the owner while it runs script or handles messages (a script that  *)
(* fails to load, or close()).                                              *)

TerminateBegin(t) ==
  /\ Alive
  /\ tpc = "idle"
  /\ IF t = Owner THEN loop \in {"script", "draining", "performing"}
                  ELSE pc[t] = "idle"
  /\ terminated' = TRUE
  /\ runLoopTasksSource_' = FALSE
  /\ runLoop_' = FALSE
  /\ tpc' = IF runLoop_ THEN "stop" ELSE "release"
  /\ tby' = t
  /\ UNCHANGED <<messagesQueue_, sourceVars, loopVars, pc, sent>>

\* Mutant: the run loop is marked but a sleeping one is not woken.
TerminateStop_NoWake ==
  /\ Alive
  /\ tpc = "stop"
  /\ stopped' = (stopped \/ loop \in {"looping", "asleep", "performing"})
  /\ tpc' = "remove"
  /\ UNCHANGED <<queueVars, sourceVars, loop, woken, tby, pc, sent>>

\* CFRunLoopStop marks the run loop only if it is running, and wakes it.
TerminateStop ==
  /\ Alive
  /\ tpc = "stop"
  /\ stopped' = (stopped \/ loop \in {"looping", "asleep", "performing"})
  /\ woken' = TRUE
  /\ tpc' = "remove"
  /\ UNCHANGED <<queueVars, sourceVars, loop, tby, pc, sent>>

TerminateRemoveSource ==
  /\ Alive
  /\ tpc = "remove"
  /\ source' = "removed"
  /\ tpc' = "invalidate"
  /\ UNCHANGED <<queueVars, signalled, loopVars, tby, pc, sent>>

TerminateInvalidate ==
  /\ Alive
  /\ tpc = "invalidate"
  /\ source' = "invalid"
  /\ tpc' = "release"
  /\ UNCHANGED <<queueVars, signalled, loopVars, tby, pc, sent>>

\* CFRelease of the source, if there was one, and the unlock.
TerminateRelease ==
  /\ Alive
  /\ tpc = "release"
  /\ source' = IF source = "invalid" THEN "freed" ELSE source
  /\ tpc' = "done"
  /\ UNCHANGED <<queueVars, signalled, loopVars, tby, pc, sent>>

-----------------------------------------------------------------------------
(* The owner's thread, WorkerWrapper::BackgroundLooper as the queue sees it *)

\* Mutant: Initialize does not look at terminated.
Initialize_Unchecked ==
  /\ Alive
  /\ loop = "start"
  /\ ~InitializationMutexHeld
  /\ loop' = "script"
  /\ runLoop_' = TRUE
  /\ runLoopTasksSource_' = TRUE
  /\ source' = "added"
  /\ UNCHANGED <<messagesQueue_, terminated, signalled, woken, stopped,
                 termVars, pc, sent>>

\* Initialize refuses once terminated.
Initialize ==
  /\ Alive
  /\ loop = "start"
  /\ ~InitializationMutexHeld
  /\ loop' = "script"
  /\ IF terminated
       THEN UNCHANGED <<runLoop_, runLoopTasksSource_, source>>
       ELSE /\ runLoop_' = TRUE
            /\ runLoopTasksSource_' = TRUE
            /\ source' = "added"
  /\ UNCHANGED <<messagesQueue_, terminated, signalled, woken, stopped,
                 termVars, pc, sent>>

\* PopAll under mutex_: the drain that follows the worker's script.
PopAll ==
  /\ Alive /\ Free(Owner)
  /\ loop = "script"
  /\ messagesQueue_' = <<>>
  /\ loop' = "draining"
  /\ UNCHANGED <<runLoopTasksSource_, runLoop_, terminated, sourceVars, woken,
                 stopped, termVars, pc, sent>>

\* BackgroundLooper looks once more whether it was terminated meanwhile.
CheckTerminating ==
  /\ Alive /\ Free(Owner)
  /\ loop = "draining"
  /\ loop' = IF terminated THEN "exited" ELSE "entering"
  /\ UNCHANGED <<queueVars, sourceVars, woken, stopped, termVars, pc, sent>>

\* CFRunLoopRun is entered, or goes on after the source's callback.
EnterLoop ==
  /\ Alive /\ Free(Owner)
  /\ loop \in {"entering", "performing"}
  /\ loop' = "looping"
  /\ UNCHANGED <<queueVars, sourceVars, woken, stopped, termVars, pc, sent>>

\* The loop performs a signalled source that it still holds: PopAll again.
Perform ==
  /\ Alive
  /\ loop = "looping"
  /\ ~stopped
  /\ signalled /\ source = "added"
  /\ signalled' = FALSE
  /\ messagesQueue_' = <<>>
  /\ loop' = "performing"
  /\ UNCHANGED <<runLoopTasksSource_, runLoop_, terminated, source, woken,
                 stopped, termVars, pc, sent>>

\* Nothing to do: the loop sleeps until somebody wakes it.
Sleep ==
  /\ Alive
  /\ loop = "looping"
  /\ ~stopped
  /\ source = "added"
  /\ ~signalled
  /\ loop' = "asleep"
  /\ UNCHANGED <<queueVars, sourceVars, woken, stopped, termVars, pc, sent>>

Awake ==
  /\ Alive
  /\ loop = "asleep"
  /\ woken
  /\ woken' = FALSE
  /\ loop' = "looping"
  /\ UNCHANGED <<queueVars, sourceVars, stopped, termVars, pc, sent>>

\* CFRunLoopRun returns when stopped or when its mode has no source left.
ExitLoop ==
  /\ Alive
  /\ loop = "looping"
  /\ stopped \/ source # "added"
  /\ loop' = "exited"
  /\ UNCHANGED <<queueVars, sourceVars, woken, stopped, termVars, pc, sent>>

-----------------------------------------------------------------------------
PushNext(p) == \/ PushCheckValid(p) \/ PushEnqueue(p) \/ SignalLoad(p)
               \/ SignalAssert(p) \/ Signal(p) \/ WakeUpLoad(p) \/ WakeUp(p)
TerminateNext == \/ TerminateStop \/ TerminateRemoveSource
                 \/ TerminateInvalidate \/ TerminateRelease
OwnerNext == \/ Initialize \/ PopAll \/ CheckTerminating \/ EnterLoop \/ Perform
             \/ Sleep \/ Awake \/ ExitLoop

Next == \/ \E p \in Pushers : PushLoad(p) \/ PushNext(p)
        \/ \E t \in Pushers \cup {Owner} : TerminateBegin(t)
        \/ TerminateNext
        \/ OwnerNext

\* Every thread that is inside a call keeps running; a new Push or Terminate
\* is the callers' choice.
Spec == /\ Init /\ [][Next]_vars
        /\ \A p \in Pushers : WF_vars(PushNext(p))
        /\ WF_vars(TerminateNext)
        /\ WF_vars(OwnerNext)

-----------------------------------------------------------------------------
\* A push of p that has queued its message will still signal the source.
WillSignal(p) == pc[p] \in {"loadSource", "assertValid", "signal"}

\* A push of p that has signalled the source will still wake the run loop.
WillWake(p) == pc[p] \in {"loadLoop", "wakeUp"}

(* The run loop never sleeps on a message: if the owner's loop is asleep     *)
(* while messagesQueue_ holds a message and the queue is not terminated,     *)
(* then either some Push is still on its way to CFRunLoopSourceSignal, or    *)
(* the source is signalled and the wake-up is pending or about to be sent.   *)
(* Push reads runLoopTasksSource_ without initializationMutex_, and it is    *)
(* the order enqueue-then-load against Initialize-then-PopAll that saves it. *)
NoStrandedMessage ==
  (loop = "asleep" /\ messagesQueue_ # <<>> /\ ~terminated)
    => \/ \E p \in Pushers : WillSignal(p)
       \/ signalled /\ (woken \/ \E p \in Pushers : WillWake(p))

(* Initialize racing with Terminate never revives a terminated queue: once   *)
(* terminated, neither field is set again, and when Terminate has returned   *)
(* there is no source left on the run loop.  And only Terminate brings it    *)
(* down: a Push that races with Initialize, or with another Push, loads      *)
(* fields that stay good, so its assertion that the source is valid can fail *)
(* only after Terminate has begun.                                           *)
TerminatedStaysDown ==
  /\ terminated => /\ ~runLoopTasksSource_ /\ ~runLoop_
                   /\ tpc = "done" => source \in {"none", "freed"}
  /\ ~Alive => terminated

(* Every message that Push has queued is eventually taken by PopAll, unless  *)
(* the queue is terminated (or the process has aborted).                     *)
EveryMessagePopped ==
  \A n \in 1..MaxPush :
    n \in ToSet(messagesQueue_)
      ~> (n \notin ToSet(messagesQueue_) \/ terminated \/ ~Alive)

(* A CFRunLoopStop that finds the run loop running, asleep or inside the     *)
(* source's callback always gets the owner out of it.                        *)
StopEndsLoop == stopped ~> (loop = "exited" \/ ~Alive)

(* What BackgroundLooper's second look at isTerminating_ is for              *)
(* (WorkerWrapper.mm:110, "check again as it could terminate before this"):  *)
(* once the queue is terminated the owner's thread leaves its run loop,      *)
(* whenever the call comes.                                                  *)
TerminateEndsLoop == terminated ~> (loop = "exited" \/ ~Alive)
=============================================================================
