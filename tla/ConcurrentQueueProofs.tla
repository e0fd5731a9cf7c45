----------------------- MODULE ConcurrentQueueProofs -----------------------
(***************************************************************************)
(* Proofs about ConcurrentQueue for every set of pushers and every MaxPush.*)
(***************************************************************************)
EXTENDS ConcurrentQueue, TLAPS

\* Where the source object stands at each step of Terminate.
SourceMatchesTerminate ==
  /\ tpc = "idle" => source \in {"none", "added"}
  /\ tpc \in {"stop", "remove"} => source = "added"
  /\ tpc = "invalidate" => source = "removed"
  /\ tpc = "release" => source \in {"none", "invalid"}
  /\ tpc = "done" => source \in {"none", "freed"}

\* The fields name the source exactly between Initialize and Terminate.
FieldsMatchSource ==
  /\ terminated <=> tpc # "idle"
  /\ runLoop_ = runLoopTasksSource_
  /\ runLoopTasksSource_ <=> (~terminated /\ loop # "start")
  /\ runLoopTasksSource_ => source = "added"
  /\ (~terminated /\ loop = "start") => source = "none"

\* A pusher that loaded the source or the run loop finds it good until
\* Terminate begins, and nothing aborts before.
LoadedSourceIsLive ==
  \A p \in Pushers :
    /\ pc[p] \in {"checkValid", "assertValid", "signal", "wakeUp"}
         => runLoopTasksSource_ \/ terminated
    /\ pc[p] = "aborted" => terminated

\* After the first PopAll, a queued message has a signal set or coming.
SignalSetOrComing ==
  ( /\ loop \in {"draining", "entering", "looping", "performing", "asleep"}
    /\ messagesQueue_ # <<>>
    /\ ~terminated )
  => signalled \/ \E p \in Pushers : WillSignal(p)

Control == SourceMatchesTerminate /\ FieldsMatchSource /\ LoadedSourceIsLive

IInv ==
  /\ TypeOK
  /\ Control
  /\ SignalSetOrComing
  /\ NoStrandedMessage

(* The empty queue is a queue. *)
LEMMA EmptyQueue == <<>> \in Seq(1..MaxPush)
  OBVIOUS

(* The initial state is well typed. *)
LEMMA InitTypeOK == Init => TypeOK
<1>1. 0 \in 0..MaxPush
  BY QueueAssumption
<1>2. [p \in Pushers |-> "idle"] \in [Pushers -> PushSteps]
  BY DEF PushSteps
<1>3. QED
  BY <1>1, <1>2, EmptyQueue, Zenon DEF Init, TypeOK, LoopStates, TerminateSteps, SourceStates

(* Every step keeps the state well typed. *)
LEMMA StepTypeOK == TypeOK /\ [Next]_vars => TypeOK'
<1> USE QueueAssumption DEF TypeOK, PushSteps, LoopStates, TerminateSteps, SourceStates,
      queueVars, sourceVars, loopVars, termVars, GoTo, ReloadsNull
<1> SUFFICES ASSUME TypeOK, [Next]_vars PROVE TypeOK'
  OBVIOUS
<1>1. ASSUME NEW p \in Pushers, PushLoad(p) PROVE TypeOK'
  BY <1>1 DEF PushLoad
<1>2. ASSUME NEW p \in Pushers, PushCheckValid(p) PROVE TypeOK'
  BY <1>2 DEF PushCheckValid
<1>3. ASSUME NEW p \in Pushers, PushEnqueue(p) PROVE TypeOK'
  BY <1>3 DEF PushEnqueue
<1>4. ASSUME NEW p \in Pushers, SignalLoad(p) PROVE TypeOK'
  BY <1>4 DEF SignalLoad
<1>5. ASSUME NEW p \in Pushers, SignalAssert(p) PROVE TypeOK'
  BY <1>5 DEF SignalAssert
<1>6. ASSUME NEW p \in Pushers, Signal(p) PROVE TypeOK'
  <2>1. signalled' \in BOOLEAN
    BY <1>6 DEF Signal
  <2>2. pc' \in [Pushers -> PushSteps]
    BY <1>6 DEF Signal
  <2>3. QED
    BY <1>6, <2>1, <2>2 DEF Signal
<1>7. ASSUME NEW p \in Pushers, WakeUp(p) PROVE TypeOK'
  <2>1. woken' \in BOOLEAN
    BY <1>7 DEF WakeUp
  <2>2. pc' \in [Pushers -> PushSteps]
    BY <1>7 DEF WakeUp
  <2>3. QED
    BY <1>7, <2>1, <2>2 DEF WakeUp
<1>7a. ASSUME NEW p \in Pushers, WakeUpLoad(p) PROVE TypeOK'
  BY <1>7a DEF WakeUpLoad
<1>8. ASSUME NEW t \in Pushers \cup {Owner}, TerminateBegin(t) PROVE TypeOK'
  BY <1>8 DEF TerminateBegin
<1>9. CASE TerminateStop
  BY <1>9 DEF TerminateStop
<1>10. CASE TerminateRemoveSource
  BY <1>10 DEF TerminateRemoveSource
<1>11. CASE TerminateInvalidate
  BY <1>11 DEF TerminateInvalidate
<1>12. CASE TerminateRelease
  BY <1>12 DEF TerminateRelease
<1>13. CASE Initialize
  BY <1>13, ZenonT(30) DEF Initialize
<1>14. CASE PopAll
  BY <1>14, EmptyQueue DEF PopAll
<1>15. CASE CheckTerminating
  BY <1>15 DEF CheckTerminating
<1>16. CASE EnterLoop
  BY <1>16 DEF EnterLoop
<1>17. CASE Perform
  BY <1>17, EmptyQueue DEF Perform
<1>18. CASE Sleep
  BY <1>18 DEF Sleep
<1>19. CASE Awake
  BY <1>19, ZenonT(30) DEF Awake
<1>20. CASE ExitLoop
  BY <1>20 DEF ExitLoop
<1>21. CASE UNCHANGED vars
  BY <1>21 DEF vars
<1> HIDE DEF TypeOK, PushSteps, LoopStates, TerminateSteps, SourceStates, GoTo, ReloadsNull
<1>22. QED
  BY <1>1, <1>2, <1>3, <1>4, <1>5, <1>6, <1>7, <1>7a, <1>8, <1>9, <1>10, <1>11, <1>12,
     <1>13, <1>14, <1>15, <1>16, <1>17, <1>18, <1>19, <1>20, <1>21
     DEF Next, PushNext, TerminateNext, OwnerNext

(* The type invariant holds in every reachable state of the queue, for any   *)
(* number of pushing threads and messages.                                   *)
THEOREM TypeCorrect == Spec => []TypeOK
  BY InitTypeOK, StepTypeOK, PTL DEF Spec

(* Every step keeps the fields, the source object and Terminate in step. *)
LEMMA ControlStep ==
  TypeOK /\ Control /\ [Next]_vars => Control'
<1> SUFFICES ASSUME TypeOK /\ Control, [Next]_vars PROVE Control'
  OBVIOUS
<1> USE DEF queueVars, sourceVars, loopVars, termVars, GoTo, ReloadsNull, TypeOK, PushSteps,
       LoopStates, TerminateSteps, SourceStates,
       Control, SourceMatchesTerminate, FieldsMatchSource, LoadedSourceIsLive,
       InitializationMutexHeld
<1>1. ASSUME NEW p \in Pushers, PushLoad(p) PROVE Control'
  BY <1>1 DEF PushLoad
<1>2. ASSUME NEW p \in Pushers, PushCheckValid(p) PROVE Control'
  BY <1>2 DEF PushCheckValid, SourceIsValid
<1>3. ASSUME NEW p \in Pushers, PushEnqueue(p) PROVE Control'
  BY <1>3 DEF PushEnqueue
<1>4. ASSUME NEW p \in Pushers, SignalLoad(p) PROVE Control'
  BY <1>4 DEF SignalLoad
<1>5. ASSUME NEW p \in Pushers, SignalAssert(p) PROVE Control'
  BY <1>5 DEF SignalAssert, SourceIsValid
<1>6. ASSUME NEW p \in Pushers, Signal(p) PROVE Control'
  BY <1>6 DEF Signal
<1>7. ASSUME NEW p \in Pushers, WakeUp(p) PROVE Control'
  BY <1>7 DEF WakeUp
<1>7a. ASSUME NEW p \in Pushers, WakeUpLoad(p) PROVE Control'
  BY <1>7a DEF WakeUpLoad
<1>8. ASSUME NEW t \in Pushers \cup {Owner}, TerminateBegin(t) PROVE Control'
  BY <1>8 DEF TerminateBegin
<1>9. CASE TerminateStop
  BY <1>9 DEF TerminateStop
<1>10. CASE TerminateRemoveSource
  BY <1>10 DEF TerminateRemoveSource
<1>11. CASE TerminateInvalidate
  BY <1>11 DEF TerminateInvalidate
<1>12. CASE TerminateRelease
  BY <1>12 DEF TerminateRelease
<1>13. CASE Initialize
  BY <1>13 DEF Initialize
<1>14. CASE PopAll
  BY <1>14 DEF PopAll
<1>15. CASE CheckTerminating
  BY <1>15 DEF CheckTerminating
<1>16. CASE EnterLoop
  BY <1>16 DEF EnterLoop
<1>17. CASE Perform
  BY <1>17 DEF Perform
<1>18. CASE Sleep
  BY <1>18 DEF Sleep
<1>19. CASE Awake
  BY <1>19 DEF Awake
<1>20. CASE ExitLoop
  BY <1>20 DEF ExitLoop
<1>21. CASE UNCHANGED vars
  BY <1>21 DEF vars
<1> HIDE DEF queueVars, sourceVars, loopVars, termVars, GoTo, ReloadsNull, TypeOK, PushSteps,
       LoopStates, TerminateSteps, SourceStates,
       Control, SourceMatchesTerminate, FieldsMatchSource, LoadedSourceIsLive,
       InitializationMutexHeld
<1>22. QED
  BY <1>1, <1>2, <1>3, <1>4, <1>5, <1>6, <1>7, <1>7a, <1>8, <1>9, <1>10, <1>11, <1>12,
     <1>13, <1>14, <1>15, <1>16, <1>17, <1>18, <1>19, <1>20, <1>21
     DEF Next, PushNext, TerminateNext, OwnerNext

(* Every step keeps a signal set or coming for the messages still queued. *)
LEMMA SignalStep ==
  TypeOK /\ Control /\ SignalSetOrComing /\ [Next]_vars => SignalSetOrComing'
<1> SUFFICES ASSUME TypeOK /\ Control /\ SignalSetOrComing, [Next]_vars PROVE SignalSetOrComing'
  OBVIOUS
<1> USE DEF queueVars, sourceVars, loopVars, termVars, GoTo, ReloadsNull, TypeOK, PushSteps,
       LoopStates, TerminateSteps, SourceStates,
       SignalSetOrComing, WillSignal, FieldsMatchSource, LoadedSourceIsLive, Control
<1>1. ASSUME NEW p \in Pushers, PushLoad(p) PROVE SignalSetOrComing'
  BY <1>1 DEF PushLoad
<1>2. ASSUME NEW p \in Pushers, PushCheckValid(p) PROVE SignalSetOrComing'
  BY <1>2 DEF PushCheckValid
<1>3. ASSUME NEW p \in Pushers, PushEnqueue(p) PROVE SignalSetOrComing'
  BY <1>3 DEF PushEnqueue
<1>4. ASSUME NEW p \in Pushers, SignalLoad(p) PROVE SignalSetOrComing'
  BY <1>4 DEF SignalLoad
<1>5. ASSUME NEW p \in Pushers, SignalAssert(p) PROVE SignalSetOrComing'
  BY <1>5 DEF SignalAssert, SourceIsValid
<1>6. ASSUME NEW p \in Pushers, Signal(p) PROVE SignalSetOrComing'
  BY <1>6 DEF Signal
<1>7. ASSUME NEW p \in Pushers, WakeUp(p) PROVE SignalSetOrComing'
  BY <1>7 DEF WakeUp
<1>7a. ASSUME NEW p \in Pushers, WakeUpLoad(p) PROVE SignalSetOrComing'
  BY <1>7a DEF WakeUpLoad
<1>8. ASSUME NEW t \in Pushers \cup {Owner}, TerminateBegin(t) PROVE SignalSetOrComing'
  BY <1>8 DEF TerminateBegin
<1>9. CASE TerminateStop
  BY <1>9 DEF TerminateStop
<1>10. CASE TerminateRemoveSource
  BY <1>10 DEF TerminateRemoveSource
<1>11. CASE TerminateInvalidate
  BY <1>11 DEF TerminateInvalidate
<1>12. CASE TerminateRelease
  BY <1>12 DEF TerminateRelease
<1>13. CASE Initialize
  BY <1>13 DEF Initialize
<1>14. CASE PopAll
  BY <1>14 DEF PopAll
<1>15. CASE CheckTerminating
  BY <1>15 DEF CheckTerminating
<1>16. CASE EnterLoop
  BY <1>16 DEF EnterLoop
<1>17. CASE Perform
  BY <1>17 DEF Perform
<1>18. CASE Sleep
  BY <1>18 DEF Sleep
<1>19. CASE Awake
  BY <1>19 DEF Awake
<1>20. CASE ExitLoop
  BY <1>20 DEF ExitLoop
<1>21. CASE UNCHANGED vars
  BY <1>21 DEF vars
<1> HIDE DEF queueVars, sourceVars, loopVars, termVars, GoTo, ReloadsNull, TypeOK, PushSteps,
       LoopStates, TerminateSteps, SourceStates,
       SignalSetOrComing, WillSignal, FieldsMatchSource, LoadedSourceIsLive, Control
<1>22. QED
  BY <1>1, <1>2, <1>3, <1>4, <1>5, <1>6, <1>7, <1>7a, <1>8, <1>9, <1>10, <1>11, <1>12,
     <1>13, <1>14, <1>15, <1>16, <1>17, <1>18, <1>19, <1>20, <1>21
     DEF Next, PushNext, TerminateNext, OwnerNext

(* No step puts the loop to sleep on a message, or loses its wake-up. *)
LEMMA StrandedStep ==
  TypeOK /\ Control /\ SignalSetOrComing /\ NoStrandedMessage /\ [Next]_vars => NoStrandedMessage'
<1> SUFFICES ASSUME TypeOK /\ Control /\ SignalSetOrComing /\ NoStrandedMessage, [Next]_vars PROVE NoStrandedMessage'
  OBVIOUS
<1> USE DEF queueVars, sourceVars, loopVars, termVars, GoTo, ReloadsNull, TypeOK, PushSteps,
       LoopStates, TerminateSteps, SourceStates,
       SignalSetOrComing, WillSignal, WillWake, FieldsMatchSource, LoadedSourceIsLive, Control,
       NoStrandedMessage
<1>1. ASSUME NEW p \in Pushers, PushLoad(p) PROVE NoStrandedMessage'
  BY <1>1 DEF PushLoad
<1>2. ASSUME NEW p \in Pushers, PushCheckValid(p) PROVE NoStrandedMessage'
  BY <1>2 DEF PushCheckValid
<1>3. ASSUME NEW p \in Pushers, PushEnqueue(p) PROVE NoStrandedMessage'
  BY <1>3 DEF PushEnqueue
<1>4. ASSUME NEW p \in Pushers, SignalLoad(p) PROVE NoStrandedMessage'
  BY <1>4 DEF SignalLoad
<1>5. ASSUME NEW p \in Pushers, SignalAssert(p) PROVE NoStrandedMessage'
  BY <1>5 DEF SignalAssert, SourceIsValid
<1>6. ASSUME NEW p \in Pushers, Signal(p) PROVE NoStrandedMessage'
  BY <1>6 DEF Signal
<1>7. ASSUME NEW p \in Pushers, WakeUp(p) PROVE NoStrandedMessage'
  BY <1>7 DEF WakeUp
<1>7a. ASSUME NEW p \in Pushers, WakeUpLoad(p) PROVE NoStrandedMessage'
  BY <1>7a DEF WakeUpLoad
<1>8. ASSUME NEW t \in Pushers \cup {Owner}, TerminateBegin(t) PROVE NoStrandedMessage'
  BY <1>8 DEF TerminateBegin
<1>9. CASE TerminateStop
  BY <1>9 DEF TerminateStop
<1>10. CASE TerminateRemoveSource
  BY <1>10 DEF TerminateRemoveSource
<1>11. CASE TerminateInvalidate
  BY <1>11 DEF TerminateInvalidate
<1>12. CASE TerminateRelease
  BY <1>12 DEF TerminateRelease
<1>13. CASE Initialize
  BY <1>13 DEF Initialize
<1>14. CASE PopAll
  BY <1>14 DEF PopAll
<1>15. CASE CheckTerminating
  BY <1>15 DEF CheckTerminating
<1>16. CASE EnterLoop
  BY <1>16 DEF EnterLoop
<1>17. CASE Perform
  BY <1>17 DEF Perform
<1>18. CASE Sleep
  BY <1>18 DEF Sleep
<1>19. CASE Awake
  BY <1>19 DEF Awake
<1>20. CASE ExitLoop
  BY <1>20 DEF ExitLoop
<1>21. CASE UNCHANGED vars
  BY <1>21 DEF vars
<1> HIDE DEF queueVars, sourceVars, loopVars, termVars, GoTo, ReloadsNull, TypeOK, PushSteps,
       LoopStates, TerminateSteps, SourceStates,
       SignalSetOrComing, WillSignal, WillWake, FieldsMatchSource, LoadedSourceIsLive, Control,
       NoStrandedMessage
<1>22. QED
  BY <1>1, <1>2, <1>3, <1>4, <1>5, <1>6, <1>7, <1>7a, <1>8, <1>9, <1>10, <1>11, <1>12,
     <1>13, <1>14, <1>15, <1>16, <1>17, <1>18, <1>19, <1>20, <1>21
     DEF Next, PushNext, TerminateNext, OwnerNext

(* IInv is an invariant: the inductive core of the two theorems below. *)
LEMMA Inductive == Spec => []IInv
<1>1. Init => IInv
  <2>1. ASSUME Init PROVE SignalSetOrComing /\ NoStrandedMessage
    BY <2>1 DEF Init, SignalSetOrComing, NoStrandedMessage
  <2>2. ASSUME Init PROVE Control
    BY <2>2 DEF Init, Control, SourceMatchesTerminate, FieldsMatchSource, LoadedSourceIsLive
  <2>3. QED
    BY <2>1, <2>2, InitTypeOK DEF IInv
<1>2. IInv /\ [Next]_vars => IInv'
  BY StepTypeOK, ControlStep, SignalStep, StrandedStep DEF IInv
<1>3. QED
  BY <1>1, <1>2, PTL DEF Spec

(* The run loop of a worker never sleeps on a queued message, whatever the   *)
(* number of pushing threads and messages: NoStrandedMessage holds in every  *)
(* reachable state of ConcurrentQueue.                                       *)
THEOREM NoMessageIsStranded == Spec => []NoStrandedMessage
<1>1. IInv => NoStrandedMessage
  BY DEF IInv
<1>2. QED
  BY <1>1, Inductive, PTL

(* A terminated queue is never revived by a late Initialize, once Terminate  *)
(* has returned its source is off the run loop, and before Terminate begins  *)
(* no Push fails its assertion.                                              *)
THEOREM TerminatedIsFinal == Spec => []TerminatedStaysDown
<1>1. IInv => TerminatedStaysDown
  BY DEF IInv, Control, SourceMatchesTerminate, FieldsMatchSource, LoadedSourceIsLive,
     TerminatedStaysDown, Alive
<1>2. QED
  BY <1>1, Inductive, PTL

(* A run loop that CFRunLoopStop has reached does not sleep through it: if it  *)
(* is asleep, the wake-up that came with the stop is still to be consumed,     *)
(* however many wake-ups of pushers it consumes meanwhile.  This is what       *)
(* StopEndsLoop asks of the states.                                            *)
THEOREM StoppedLoopIsWoken == Spec => [](stopped /\ loop = "asleep" => woken)
<1> DEFINE Woken == stopped /\ loop = "asleep" => woken
<1>1. Init => Woken
  BY DEF Init
<1>2. ASSUME TypeOK, Woken, [Next]_vars PROVE Woken'
  <2>1. ASSUME NEW p \in Pushers, PushLoad(p) \/ PushNext(p) PROVE Woken'
    BY <1>2, <2>1 DEF PushLoad, PushNext, PushCheckValid, PushEnqueue, SignalLoad,
       SignalAssert, Signal, WakeUpLoad, WakeUp, loopVars
  <2>2. ASSUME NEW t \in Pushers \cup {Owner}, TerminateBegin(t) PROVE Woken'
    BY <1>2, <2>2 DEF TerminateBegin, loopVars
  <2>3. CASE TerminateNext
    BY <1>2, <2>3 DEF TerminateNext, TerminateStop, TerminateRemoveSource,
       TerminateInvalidate, TerminateRelease, loopVars
  <2>4. CASE OwnerNext
    BY <1>2, <2>4 DEF OwnerNext, Initialize, PopAll, CheckTerminating, EnterLoop, Perform,
       Sleep, Awake, ExitLoop
  <2>5. CASE UNCHANGED vars
    BY <1>2, <2>5 DEF vars, loopVars
  <2>6. QED
    BY <1>2, <2>1, <2>2, <2>3, <2>4, <2>5 DEF Next
<1>3. QED
  BY <1>1, <1>2, TypeCorrect, PTL DEF Spec
=============================================================================
