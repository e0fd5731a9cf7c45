----------------------- MODULE WorkerLifecycleProofs -----------------------
(***************************************************************************)
(* Proofs about WorkerLifecycle, for any number of messages and blocks: a  *)
(* Worker implements the abstract Mailbox, no registry entry outlives the  *)
(* worker's thread, its wrapper is not deleted while it may run, its       *)
(* look-ups fail only before the entry is inserted, a worker that waits in *)
(* its run loop is stopped or signalled when it has to be, and the state   *)
(* stays well typed.                                                       *)
(*                                                                         *)
(* The flags are tested a step before the result of the test is used.  The *)
(* invariant says what such a result is still worth when the other thread  *)
(* has moved on: where each thread can stand given the flags (Stages),     *)
(* which part of the accepted messages the queue and the batch hold        *)
(* (Aligned), and that the one message in flight past a raised flag is the *)
(* last one (LastOnes).                                                    *)
(***************************************************************************)
EXTENDS WorkerLifecycle, SequenceTheorems, TLAPS

\* The worker's thread is past the run loop.
Ending == {"destroy", "deleteIfWeak", "unregister", "exit"}

\* The steps between the creation of the worker's Runtime and its deletion.
WithRuntime == {"js", "send", "spin", "terminate", "stopQueue", "notRunning",
                "assign", "drain", "next", "call", "drained", "check", "enter",
                "loop", "destroy", "deleteIfWeak"}

\* The worker handles a batch of messages.
InBatch == wpc \in {"next", "call"} \/ (wpc \in {"js", "send", "spin"} /\ ctx = "handler")

(* How far a thread has come, given the flags. *)
Stages ==
  /\ ppc = "new" <=> wpc = "none"
  /\ isDisposed_ <=> wpc \in Ending
  /\ wpc \in WithRuntime => runtime
  /\ interrupt # "none" \/ ppc = "interrupt" => isTerminating_
  /\ ppc \in {"post", "push"} => posted > 0
  /\ wpc = "call" => batch # <<>> /\ ~isClosing_ /\ interrupt # "spent"

(* The registry entry is inserted once, and a thread that ends without faults *)
(* has removed it.                                                            *)
Registry ==
  /\ Early => ~registered
  /\ wpc \in {"none", "queued"} /\ isTerminating_ => ~Early
  /\ wpc = "unregister" \/ (wpc = "setDisposed" /\ ~runtime) => ~Early
  /\ Alive /\ wpc \in {"deleteIfWeak", "exit"} => ~registered /\ ~Early

(* A batch is given up only by a worker that closes or terminates. *)
BatchEmptied == ~isTerminating_ /\ ~isClosing_ /\ batch # <<>> => InBatch

\* The batch and the queue may still be handed to onmessage.
Deliverable == interrupt = "none" /\ ((~isTerminating_ /\ ~isClosing_) \/ wpc = "call")

(* Then they hold, in order, what was accepted and not delivered. *)
Aligned ==
  Deliverable =>
    /\ Len(accepted) = Len(delivered) + Len(batch) + Len(queue)
    /\ \A i \in 1..Len(batch) : batch[i] = accepted[Len(delivered) + i]
    /\ \A i \in 1..Len(queue) : queue[i] = accepted[Len(delivered) + Len(batch) + i]

(* The number of a message that is on its way is larger than any accepted. *)
Numbered ==
  /\ \A i \in 1..Len(accepted) : accepted[i] <= posted
  /\ ppc \in {"post", "push"} => \A i \in 1..Len(accepted) : accepted[i] < posted

(* After a message that was queued or delivered behind a flag there is no other. *)
LastOnes ==
  /\ straggled <= 1
  /\ straggled = 1 => (isTerminating_ \/ isClosing_) /\ ppc # "push"
  /\ late <= 1
  /\ late = 1 => isTerminating_ /\ wpc # "call"

IInv == /\ TypeOK /\ Stages /\ Registry
        /\ BatchEmptied /\ Aligned /\ Numbered /\ LastOnes

(* Where native code resumes after JavaScript. *)
LEMMA JsResumes ==
  ASSUME TypeOK
  PROVE  /\ ctx = "script" => AfterJs = "assign"
         /\ ctx = "handler" => AfterJs = "next"
         /\ ctx = "timer" => AfterJs = "loop"
         /\ AfterJs \in {"assign", "next", "loop"}
<1>1. ctx \in {"script", "handler", "timer"}
  BY DEF TypeOK
<1>2. QED
  BY <1>1, Zenon DEF AfterJs

(* The initial state satisfies the invariant. *)
LEMMA InitIInv == Init => IInv
<1> SUFFICES ASSUME Init PROVE IInv
  OBVIOUS
<1>1. 0 \in 0..MaxPosts /\ 0 \in 0..MaxSends
  BY LifecycleAssumption
<1>2. TypeOK
  <2>1. \A S : <<>> \in Seq(S)
    OBVIOUS
  <2>2. QED
    BY <1>1, <2>1, Zenon DEF Init, TypeOK, ParentSteps, WorkerSteps
<1>3. Stages /\ Registry /\ BatchEmptied
  BY DEF Init, Stages, Registry, BatchEmptied, Early, Ending, WithRuntime, Alive
<1>4. Aligned /\ Numbered /\ LastOnes
  BY DEF Init, Aligned, Numbered, LastOnes
<1>5. QED
  BY <1>2, <1>3, <1>4 DEF IInv

(* A thread never stands where the flags do not allow it. *)
LEMMA StagesStep ==
  ASSUME TypeOK, Stages, [Next]_vars
  PROVE  Stages'
<1>1. CASE \/ RunBlock
  BY <1>1 DEF RunBlock, TypeOK, Stages, Ending, WithRuntime, flags, hist
<1>2. CASE \/ ConstructorCallback \/ StartSetRunning \/ InsertState \/ PostMessage
            \/ PushMessage \/ TerminateQueue \/ TerminateNotRunning \/ VisitHandle
            \/ MakeWeak \/ ClearSlot
  BY <1>2 DEF ConstructorCallback, StartSetRunning, InsertState, PostMessage,
     PushMessage, TerminateQueue, TerminateNotRunning, VisitHandle, MakeWeak, ClearSlot,
     TypeOK, Stages, Ending, WithRuntime, P, flags, hist, AfterTerminate
<1>3. CASE \/ DisposeParentIsolate \/ DropReference \/ FinalizerCallback \/ DestroyParent
  BY <1>3 DEF DisposeParentIsolate, DropReference, FinalizerCallback, DestroyParent,
     TypeOK, Stages, Ending, WithRuntime, P, flags, hist
<1>4. CASE \/ LooperStart \/ InitializeQueue \/ SendToMain \/ JsReturns
            \/ SpinInterrupted \/ StopOwnQueue \/ NotRunning \/ AssignIsolate
            \/ NextMessage \/ CheckAgain
  BY JsResumes, <1>4 DEF Unwound, LooperStart, InitializeQueue, SendToMain, JsReturns,
     SpinInterrupted, StopOwnQueue, NotRunning, AssignIsolate, NextMessage, CheckAgain,
     TypeOK, Stages, Ending, WithRuntime, W, flags, hist, AfterDrain
<1>5. CASE \/ EnterRunLoop \/ DestroyRuntime \/ Unregister \/ PostMessageToMainCallback
            \/ CallOnErrorHandlers \/ ScriptFailsInDebug \/ ScriptThrows \/ SpinForever
            \/ TimerFires \/ PerformSource
  BY JsResumes, <1>5 DEF Unwound, EnterRunLoop, DestroyRuntime, Unregister,
     PostMessageToMainCallback, CallOnErrorHandlers, ScriptFailsInDebug, ScriptThrows,
     SpinForever, TimerFires, PerformSource, TypeOK, Stages, Ending, WithRuntime, W,
     flags, hist
<1>6. CASE \/ ExitRunLoop
  BY <1>6 DEF ExitRunLoop, TypeOK, Stages, Ending, WithRuntime, W, flags, hist
<1>7. CASE TerminateExecution
  BY <1>7 DEF TerminateExecution, TypeOK, Stages, Ending, WithRuntime, P, flags, hist
<1>8. CASE TerminateChildren
  BY <1>8 DEF TerminateChildren, TypeOK, Stages, Ending, WithRuntime, P, hist
<1>9. CASE PostMessageCallback
  BY <1>9 DEF PostMessageCallback, TypeOK, Stages, Ending, WithRuntime, P, flags
<1>10. CASE TerminateCallback
  BY <1>10 DEF TerminateCallback, TypeOK, Stages, Ending, WithRuntime, P, hist
<1>11. CASE NewRuntime
  BY <1>11 DEF NewRuntime, TypeOK, Stages, Ending, WithRuntime, W, flags, hist
<1>12. CASE TerminateSelf
  BY <1>12 DEF TerminateSelf, TypeOK, Stages, Ending, WithRuntime, W, hist
<1>13. CASE PopAll
  BY <1>13 DEF PopAll, TypeOK, Stages, Ending, WithRuntime, W, flags, hist
<1>14. CASE CallOnMessage
  BY <1>14 DEF Unwound, CallOnMessage, TypeOK, Stages, Ending, WithRuntime, W, flags
<1>15. CASE FinishDrain
  BY <1>15 DEF FinishDrain, TypeOK, Stages, Ending, WithRuntime, W, AfterDrain, hist
<1>16. CASE SetDisposed
  BY <1>16 DEF SetDisposed, TypeOK, Stages, Ending, WithRuntime, W, hist
<1>17. CASE DeleteIfWeak
  BY <1>17 DEF DeleteIfWeak, TypeOK, Stages, Ending, WithRuntime, W, flags, hist
<1>18. CASE CloseWorkerCallback
  BY <1>18 DEF CloseWorkerCallback, TypeOK, Stages, Ending, WithRuntime, W, hist
<1>19. CASE UNCHANGED vars
  BY <1>19 DEF vars, TypeOK, Stages, Ending, WithRuntime, flags, hist
<1>20. QED
  BY <1>1, <1>2, <1>3, <1>4, <1>5, <1>6, <1>7, <1>8, <1>9, <1>10, <1>11, <1>12, <1>13,
     <1>14, <1>15, <1>16, <1>17, <1>18, <1>19 DEF Next, ParentStep, ParentChoice,
     WorkerStep, WorkerChoice

(* The entry is removed after it was inserted, whoever ends the worker. *)
LEMMA RegistryStep ==
  ASSUME TypeOK, Stages, Registry, [Next]_vars
  PROVE  Registry'
<1>1. CASE \/ ConstructorCallback \/ StartSetRunning \/ PostMessage \/ PushMessage
            \/ TerminateQueue \/ TerminateNotRunning \/ VisitHandle \/ ClearSlot
            \/ DisposeParentIsolate \/ PostMessageCallback
  BY <1>1 DEF ConstructorCallback, StartSetRunning, PostMessage, PushMessage,
     TerminateQueue, TerminateNotRunning, VisitHandle, ClearSlot, DisposeParentIsolate,
     PostMessageCallback, TypeOK, Stages, Registry, Early, Alive, WithRuntime, P, flags,
     AfterTerminate
<1>2. CASE \/ DropReference \/ FinalizerCallback \/ DestroyParent
  BY <1>2 DEF DropReference, FinalizerCallback, DestroyParent, TypeOK, Stages, Registry,
     Early, Alive, WithRuntime, P, flags
<1>3. CASE \/ LooperStart \/ InitializeQueue \/ JsReturns \/ SpinInterrupted
            \/ StopOwnQueue \/ NotRunning \/ AssignIsolate \/ PopAll \/ NextMessage
            \/ CallOnMessage
  BY JsResumes, <1>3 DEF LooperStart, InitializeQueue, JsReturns, SpinInterrupted,
     StopOwnQueue, NotRunning, AssignIsolate, PopAll, NextMessage, CallOnMessage, TypeOK,
     Stages, Registry, Early, Alive, WithRuntime, W, flags, AfterDrain
<1>4. CASE \/ CheckAgain \/ EnterRunLoop \/ SetDisposed \/ SpinForever \/ TimerFires
            \/ PerformSource \/ ExitRunLoop
  BY <1>4 DEF CheckAgain, EnterRunLoop, SetDisposed, SpinForever, TimerFires,
     PerformSource, ExitRunLoop, TypeOK, Stages, Registry, Early, Alive, WithRuntime, W,
     flags
<1>5. CASE InsertState
  BY <1>5 DEF InsertState, TypeOK, Stages, Registry, Early, Alive, WithRuntime, P, flags
<1>6. CASE TerminateExecution
  BY <1>6 DEF TerminateExecution, TypeOK, Stages, Registry, Early, Alive, WithRuntime, P,
     flags
<1>7. CASE TerminateChildren
  BY <1>7 DEF TerminateChildren, TypeOK, Stages, Registry, Early, Alive, WithRuntime, P
<1>8. CASE MakeWeak
  BY <1>8 DEF MakeWeak, TypeOK, Stages, Registry, Early, Alive, WithRuntime, P, Touch
<1>9. CASE TerminateCallback
  BY <1>9 DEF TerminateCallback, TypeOK, Stages, Registry, Early, Alive, WithRuntime, P
<1>10. CASE RunBlock
  BY <1>10 DEF RunBlock, TypeOK, Stages, Registry, Early, Alive, WithRuntime, flags
<1>11. CASE NewRuntime
  BY <1>11 DEF NewRuntime, TypeOK, Stages, Registry, Early, Alive, WithRuntime, W, flags
<1>12. CASE SendToMain
  BY <1>12 DEF SendToMain, TypeOK, Stages, Registry, Early, Alive, WithRuntime, W,
     PostBlocks, flags
<1>13. CASE TerminateSelf
  BY <1>13 DEF TerminateSelf, TypeOK, Stages, Registry, Early, Alive, WithRuntime, W
<1>14. CASE FinishDrain
  BY <1>14 DEF FinishDrain, TypeOK, Stages, Registry, Early, Alive, WithRuntime, W,
     AfterDrain
<1>15. CASE DestroyRuntime
  BY <1>15 DEF DestroyRuntime, TypeOK, Stages, Registry, Early, Alive, WithRuntime, W, flags
<1>16. CASE DeleteIfWeak
  BY <1>16 DEF DeleteIfWeak, TypeOK, Stages, Registry, Early, Alive, WithRuntime, W, flags
<1>17. CASE Unregister
  BY <1>17 DEF Unregister, TypeOK, Stages, Registry, Early, Alive, WithRuntime, W, Touch,
     flags
<1>18. CASE PostMessageToMainCallback
  BY <1>18 DEF PostMessageToMainCallback, TypeOK, Stages, Registry, Early, Alive,
     WithRuntime, W, flags
<1>19. CASE CloseWorkerCallback
  BY <1>19 DEF CloseWorkerCallback, TypeOK, Stages, Registry, Early, Alive, WithRuntime, W
<1>20. CASE CallOnErrorHandlers
  BY JsResumes, <1>20 DEF CallOnErrorHandlers, TypeOK, Stages, Registry, Early, Alive,
     WithRuntime, W, PostBlocks, flags
<1>21. CASE ScriptFailsInDebug
  BY <1>21 DEF ScriptFailsInDebug, TypeOK, Stages, Registry, Early, Alive, WithRuntime, W,
     PostBlocks, flags
<1>22. CASE ScriptThrows
  BY <1>22 DEF ScriptThrows, TypeOK, Stages, Registry, Early, Alive, WithRuntime, W,
     PostBlocks, flags
<1>23. CASE UNCHANGED vars
  BY <1>23 DEF vars, TypeOK, Stages, Registry, Early, Alive, WithRuntime, flags
<1>24. QED
  BY <1>1, <1>2, <1>3, <1>4, <1>5, <1>6, <1>7, <1>8, <1>9, <1>10, <1>11, <1>12, <1>13,
     <1>14, <1>15, <1>16, <1>17, <1>18, <1>19, <1>20, <1>21, <1>22, <1>23 DEF Next,
     ParentStep, ParentChoice,
     WorkerStep, WorkerChoice

(* Only a worker that closes or terminates leaves a batch behind. *)
LEMMA BatchStep ==
  ASSUME TypeOK, Stages, BatchEmptied, [Next]_vars
  PROVE  BatchEmptied'
<1>1. CASE \/ RunBlock
  BY <1>1 DEF RunBlock, TypeOK, Stages, BatchEmptied, InBatch, flags
<1>2. CASE \/ ConstructorCallback \/ StartSetRunning \/ InsertState \/ PostMessage
            \/ PushMessage \/ TerminateExecution \/ TerminateQueue \/ TerminateNotRunning
            \/ VisitHandle \/ MakeWeak
  BY <1>2 DEF ConstructorCallback, StartSetRunning, InsertState, PostMessage,
     PushMessage, TerminateExecution, TerminateQueue, TerminateNotRunning, VisitHandle,
     MakeWeak, TypeOK, Stages, BatchEmptied, InBatch, P, flags
<1>3. CASE \/ ClearSlot \/ DisposeParentIsolate \/ PostMessageCallback \/ DropReference
            \/ FinalizerCallback \/ DestroyParent
  BY <1>3 DEF ClearSlot, DisposeParentIsolate, PostMessageCallback, DropReference,
     FinalizerCallback, DestroyParent, TypeOK, Stages, BatchEmptied, InBatch, P, flags
<1>4. CASE \/ LooperStart \/ InitializeQueue \/ SendToMain \/ JsReturns
            \/ SpinInterrupted \/ StopOwnQueue \/ NotRunning \/ AssignIsolate
            \/ NextMessage \/ CheckAgain
  BY JsResumes, <1>4 DEF LooperStart, InitializeQueue, SendToMain, JsReturns,
     SpinInterrupted, StopOwnQueue, NotRunning, AssignIsolate, NextMessage, CheckAgain,
     TypeOK, Stages, BatchEmptied, InBatch, W, flags, AfterDrain
<1>5. CASE \/ EnterRunLoop \/ SetDisposed \/ DestroyRuntime \/ DeleteIfWeak \/ Unregister
            \/ PostMessageToMainCallback \/ CallOnErrorHandlers \/ ScriptFailsInDebug
            \/ ScriptThrows \/ SpinForever
  BY JsResumes, <1>5 DEF EnterRunLoop, SetDisposed, DestroyRuntime, DeleteIfWeak,
     Unregister, PostMessageToMainCallback, CallOnErrorHandlers, ScriptFailsInDebug,
     ScriptThrows, SpinForever, TypeOK, Stages, BatchEmptied, InBatch, W, flags
<1>6. CASE \/ PerformSource \/ ExitRunLoop
  BY <1>6 DEF PerformSource, ExitRunLoop, TypeOK, Stages, BatchEmptied, InBatch, W, flags
<1>7. CASE TerminateChildren
  BY <1>7 DEF TerminateChildren, TypeOK, Stages, BatchEmptied, InBatch, P
<1>8. CASE TerminateCallback
  BY <1>8 DEF TerminateCallback, TypeOK, Stages, BatchEmptied, InBatch, P
<1>9. CASE NewRuntime
  BY <1>9 DEF NewRuntime, TypeOK, Stages, BatchEmptied, InBatch, W, flags
<1>10. CASE TerminateSelf
  BY <1>10 DEF TerminateSelf, TypeOK, Stages, BatchEmptied, InBatch, W
<1>11. CASE PopAll
  BY <1>11 DEF PopAll, TypeOK, Stages, BatchEmptied, InBatch, W, flags
<1>12. CASE CallOnMessage
  BY <1>12 DEF CallOnMessage, TypeOK, Stages, BatchEmptied, InBatch, W, flags
<1>13. CASE FinishDrain
  BY <1>13 DEF FinishDrain, TypeOK, Stages, BatchEmptied, InBatch, W, AfterDrain
<1>14. CASE CloseWorkerCallback
  BY <1>14 DEF CloseWorkerCallback, TypeOK, Stages, BatchEmptied, InBatch, W
<1>15. CASE TimerFires
  BY <1>15 DEF TimerFires, TypeOK, Stages, BatchEmptied, InBatch, W, flags
<1>16. CASE UNCHANGED vars
  BY <1>16 DEF vars, TypeOK, Stages, BatchEmptied, InBatch, flags
<1>17. QED
  BY <1>1, <1>2, <1>3, <1>4, <1>5, <1>6, <1>7, <1>8, <1>9, <1>10, <1>11, <1>12, <1>13,
     <1>14, <1>15, <1>16 DEF Next, ParentStep, ParentChoice,
     WorkerStep, WorkerChoice

(* The numbers of the messages accepted grow. *)
LEMMA NumberedStep ==
  ASSUME TypeOK, Numbered, [Next]_vars
  PROVE  Numbered'
<1>1. CASE \/ RunBlock \/ LooperStart \/ InitializeQueue \/ NewRuntime \/ SendToMain
           \/ JsReturns \/ SpinInterrupted \/ TerminateSelf \/ StopOwnQueue \/ NotRunning
           \/ AssignIsolate \/ PopAll \/ NextMessage \/ CallOnMessage \/ FinishDrain
           \/ CheckAgain \/ EnterRunLoop \/ SetDisposed \/ DestroyRuntime \/ DeleteIfWeak
           \/ Unregister \/ PostMessageToMainCallback \/ CloseWorkerCallback
           \/ CallOnErrorHandlers \/ ScriptFailsInDebug \/ ScriptThrows \/ SpinForever
           \/ TimerFires \/ PerformSource \/ ExitRunLoop
  BY <1>1 DEF RunBlock, LooperStart, InitializeQueue, NewRuntime, SendToMain, JsReturns,
     SpinInterrupted, TerminateSelf, StopOwnQueue, NotRunning, AssignIsolate, PopAll,
     NextMessage, CallOnMessage, FinishDrain, CheckAgain, EnterRunLoop, SetDisposed,
     DestroyRuntime, DeleteIfWeak, Unregister, PostMessageToMainCallback,
     CloseWorkerCallback, CallOnErrorHandlers, ScriptFailsInDebug, ScriptThrows,
     SpinForever, TimerFires, PerformSource, ExitRunLoop, Numbered, hist
<1>2. CASE ConstructorCallback
  BY <1>2 DEF ConstructorCallback, Numbered, P, hist
<1>3. CASE StartSetRunning
  BY <1>3 DEF StartSetRunning, Numbered, P, hist
<1>4. CASE InsertState
  BY <1>4 DEF InsertState, Numbered, P, hist
<1>5. CASE PostMessage
  BY <1>5 DEF PostMessage, Numbered, P, hist
<1>6. CASE PushMessage
  <2>1. accepted' = Append(accepted, posted) /\ UNCHANGED posted /\ ppc' = "js"
    BY <1>6 DEF PushMessage, P
  <2>2. /\ Len(accepted') = Len(accepted) + 1
        /\ \A i \in 1..Len(accepted) : accepted'[i] = accepted[i]
        /\ accepted'[Len(accepted) + 1] = posted
    BY <2>1 DEF TypeOK
  <2>3. QED
    BY <2>1, <2>2 DEF Numbered, TypeOK
<1>7. CASE TerminateExecution
  BY <1>7 DEF TerminateExecution, Numbered, P, hist
<1>8. CASE TerminateQueue
  BY <1>8 DEF TerminateQueue, Numbered, P, hist
<1>9. CASE TerminateNotRunning
  BY <1>9 DEF TerminateNotRunning, Numbered, P, AfterTerminate, hist
<1>10. CASE TerminateChildren
  BY <1>10 DEF TerminateChildren, Numbered, P, hist
<1>11. CASE VisitHandle
  BY <1>11 DEF VisitHandle, Numbered, P, hist
<1>12. CASE MakeWeak
  BY <1>12 DEF MakeWeak, Numbered, P, hist
<1>13. CASE ClearSlot
  BY <1>13 DEF ClearSlot, Numbered, P, hist
<1>14. CASE DisposeParentIsolate
  BY <1>14 DEF DisposeParentIsolate, Numbered, P, hist
<1>15. CASE PostMessageCallback
  <2>1. posted' = posted + 1 /\ UNCHANGED accepted
    BY <1>15 DEF PostMessageCallback
  <2>2. \A i \in 1..Len(accepted) : accepted[i] \in Nat
    BY ElementOfSeq, LifecycleAssumption DEF TypeOK
  <2>3. posted \in Nat
    BY DEF TypeOK
  <2>4. \A i \in 1..Len(accepted) : accepted[i] <= posted
    BY DEF Numbered
  <2>5. QED
    BY <2>1, <2>2, <2>3, <2>4 DEF Numbered
<1>16. CASE TerminateCallback
  BY <1>16 DEF TerminateCallback, Numbered, P, hist
<1>17. CASE DropReference
  BY <1>17 DEF DropReference, Numbered, P, hist
<1>18. CASE FinalizerCallback
  BY <1>18 DEF FinalizerCallback, Numbered, P, hist
<1>19. CASE DestroyParent
  BY <1>19 DEF DestroyParent, Numbered, P, hist
<1>20. CASE UNCHANGED vars
  BY <1>20 DEF vars, Numbered, hist
<1>21. QED
  BY <1>1, <1>2, <1>3, <1>4, <1>5, <1>6, <1>7, <1>8, <1>9, <1>10, <1>11, <1>12, <1>13,
     <1>14, <1>15, <1>16, <1>17, <1>18, <1>19, <1>20 DEF Next, ParentStep, ParentChoice,
     WorkerStep, WorkerChoice

(* One message at most is queued, and one delivered, behind a flag. *)
LEMMA LastOnesStep ==
  ASSUME TypeOK, Stages, LastOnes, [Next]_vars
  PROVE  LastOnes'
<1>1. CASE \/ RunBlock
  BY <1>1 DEF RunBlock, TypeOK, LastOnes, flags, hist
<1>2. CASE \/ ConstructorCallback \/ StartSetRunning \/ InsertState \/ PostMessage
            \/ TerminateExecution \/ TerminateQueue \/ TerminateNotRunning \/ VisitHandle
            \/ MakeWeak \/ ClearSlot
  BY <1>2 DEF ConstructorCallback, StartSetRunning, InsertState, PostMessage,
     TerminateExecution, TerminateQueue, TerminateNotRunning, VisitHandle, MakeWeak,
     ClearSlot, TypeOK, LastOnes, P, flags, hist, AfterTerminate
<1>3. CASE \/ DisposeParentIsolate \/ PostMessageCallback \/ DropReference
            \/ FinalizerCallback \/ DestroyParent
  BY <1>3 DEF DisposeParentIsolate, PostMessageCallback, DropReference,
     FinalizerCallback, DestroyParent, TypeOK, LastOnes, P, flags, hist
<1>4. CASE \/ LooperStart \/ InitializeQueue \/ NewRuntime \/ SendToMain \/ JsReturns
            \/ SpinInterrupted \/ StopOwnQueue \/ NotRunning \/ AssignIsolate \/ PopAll
  BY JsResumes, <1>4 DEF LooperStart, InitializeQueue, NewRuntime, SendToMain, JsReturns,
     SpinInterrupted, StopOwnQueue, NotRunning, AssignIsolate, PopAll, TypeOK, LastOnes,
     W, flags, hist, AfterDrain
<1>5. CASE \/ NextMessage \/ CheckAgain \/ EnterRunLoop \/ SetDisposed \/ DestroyRuntime
            \/ DeleteIfWeak \/ Unregister \/ PostMessageToMainCallback
            \/ CallOnErrorHandlers \/ ScriptFailsInDebug
  BY JsResumes, <1>5 DEF NextMessage, CheckAgain, EnterRunLoop, SetDisposed,
     DestroyRuntime, DeleteIfWeak, Unregister, PostMessageToMainCallback,
     CallOnErrorHandlers, ScriptFailsInDebug, TypeOK, LastOnes, W, flags, hist
<1>6. CASE \/ ScriptThrows \/ SpinForever \/ TimerFires \/ PerformSource \/ ExitRunLoop
  BY <1>6 DEF ScriptThrows, SpinForever, TimerFires, PerformSource, ExitRunLoop, TypeOK,
     LastOnes, W, flags, hist
<1>7. CASE PushMessage
  BY <1>7 DEF PushMessage, TypeOK, LastOnes, P, flags
<1>8. CASE TerminateChildren
  BY <1>8 DEF TerminateChildren, TypeOK, LastOnes, P, hist
<1>9. CASE TerminateCallback
  BY <1>9 DEF TerminateCallback, TypeOK, LastOnes, P, hist
<1>10. CASE TerminateSelf
  BY <1>10 DEF TerminateSelf, TypeOK, LastOnes, W, hist
<1>11. CASE CallOnMessage
  BY <1>11 DEF CallOnMessage, TypeOK, LastOnes, W, flags
<1>12. CASE FinishDrain
  BY <1>12 DEF FinishDrain, TypeOK, LastOnes, W, AfterDrain, hist
<1>13. CASE CloseWorkerCallback
  BY <1>13 DEF CloseWorkerCallback, TypeOK, LastOnes, W, hist
<1>14. CASE UNCHANGED vars
  BY <1>14 DEF vars, TypeOK, LastOnes, flags, hist
<1>15. QED
  BY <1>1, <1>2, <1>3, <1>4, <1>5, <1>6, <1>7, <1>8, <1>9, <1>10, <1>11, <1>12, <1>13,
     <1>14 DEF Next, ParentStep, ParentChoice,
     WorkerStep, WorkerChoice

(* What may still be delivered is exactly what was accepted and not delivered, *)
(* in order: a push, a pop of the whole queue and a call move it along.         *)
LEMMA AlignedStep ==
  ASSUME TypeOK, Stages, BatchEmptied, Aligned, [Next]_vars
  PROVE  Aligned'
<1>1. CASE \/ StartSetRunning \/ InsertState \/ PostMessage \/ TerminateQueue
           \/ TerminateNotRunning \/ VisitHandle \/ MakeWeak \/ ClearSlot
           \/ DisposeParentIsolate \/ PostMessageCallback \/ RunBlock \/ DropReference
           \/ FinalizerCallback \/ DestroyParent
  BY <1>1 DEF StartSetRunning, InsertState, PostMessage, TerminateQueue,
     TerminateNotRunning, VisitHandle, MakeWeak, ClearSlot, DisposeParentIsolate,
     PostMessageCallback, RunBlock, DropReference, FinalizerCallback, DestroyParent,
     TypeOK, Aligned, Deliverable, qvars, hist, flags, StopQueue
<1>2. CASE \/ ConstructorCallback
  <2>1. /\ UNCHANGED <<accepted, delivered, batch, queue>>
        /\ UNCHANGED <<interrupt, isTerminating_, isClosing_>> /\ wpc' = "queued"
    BY <1>2 DEF ConstructorCallback, flags, qvars, hist
  <2>2. QED
    BY <2>1 DEF Aligned, Deliverable
<1>3. CASE \/ LooperStart \/ InitializeQueue \/ NewRuntime \/ SendToMain \/ JsReturns
            \/ SpinInterrupted \/ StopOwnQueue \/ NotRunning \/ AssignIsolate
            \/ NextMessage
  BY JsResumes, <1>3 DEF Unwound, LooperStart, InitializeQueue, NewRuntime, SendToMain, JsReturns,
     SpinInterrupted, StopOwnQueue, NotRunning, AssignIsolate, NextMessage, TypeOK,
     Aligned, Deliverable, W, flags, qvars, hist, StopQueue, AfterDrain
<1>4. CASE \/ CheckAgain \/ EnterRunLoop \/ SetDisposed \/ DestroyRuntime \/ DeleteIfWeak
            \/ Unregister \/ PostMessageToMainCallback \/ CallOnErrorHandlers
            \/ ScriptFailsInDebug \/ ScriptThrows
  BY JsResumes, <1>4 DEF CheckAgain, EnterRunLoop, SetDisposed, DestroyRuntime,
     DeleteIfWeak, Unregister, PostMessageToMainCallback, CallOnErrorHandlers,
     ScriptFailsInDebug, ScriptThrows, TypeOK, Aligned, Deliverable, W, flags, qvars,
     hist
<1>5. CASE \/ SpinForever \/ TimerFires \/ PerformSource \/ ExitRunLoop
  BY <1>5 DEF Unwound, SpinForever, TimerFires, PerformSource, ExitRunLoop, TypeOK, Aligned,
     Deliverable, W, flags, qvars, hist
<1>6. CASE PushMessage
  <2>1. /\ queue' = Append(queue, posted) /\ accepted' = Append(accepted, posted)
        /\ UNCHANGED <<delivered, batch>> /\ Deliverable' = Deliverable
    BY <1>6 DEF PushMessage, Deliverable, P, flags
  <2>2. /\ Len(accepted') = Len(accepted) + 1 /\ Len(queue') = Len(queue) + 1
        /\ \A i \in 1..Len(accepted) : accepted'[i] = accepted[i]
        /\ \A i \in 1..Len(queue) : queue'[i] = queue[i]
        /\ accepted'[Len(accepted) + 1] = posted /\ queue'[Len(queue) + 1] = posted
    BY <2>1 DEF TypeOK
  <2>3. Len(accepted) \in Nat /\ Len(queue) \in Nat /\ Len(batch) \in Nat /\ Len(delivered) \in Nat
    BY DEF TypeOK
  <2>4. ASSUME Deliverable PROVE Aligned'
    <3>0. /\ Len(accepted) = Len(delivered) + Len(batch) + Len(queue)
          /\ \A i \in 1..Len(batch) : batch[i] = accepted[Len(delivered) + i]
          /\ \A i \in 1..Len(queue) : queue[i] = accepted[Len(delivered) + Len(batch) + i]
      BY <2>4 DEF Aligned
    <3>1. Len(accepted') = Len(delivered) + Len(batch) + Len(queue')
      BY <2>2, <2>3, <3>0
    <3>2. \A i \in 1..Len(batch) : batch[i] = accepted'[Len(delivered) + i]
      BY <2>2, <2>3, <3>0
    <3>3. \A i \in 1..Len(queue) : queue'[i] = accepted'[Len(delivered) + Len(batch) + i]
      <4> TAKE i \in 1..Len(queue)
      <4>1. Len(delivered) + Len(batch) + i \in 1..Len(accepted)
        BY <2>3, <3>0
      <4>2. QED
        BY <4>1, <2>2, <3>0
    <3>4. queue'[Len(queue')] = accepted'[Len(delivered) + Len(batch) + Len(queue')]
      <4>1. Len(delivered) + Len(batch) + Len(queue') = Len(accepted) + 1
        BY <2>2, <2>3, <3>0
      <4>2. QED
        BY <4>1, <2>2
    <3>5. \A i \in 1..Len(queue') : queue'[i] = accepted'[Len(delivered) + Len(batch) + i]
      <4> SUFFICES ASSUME NEW i \in 1..Len(queue')
                   PROVE  queue'[i] = accepted'[Len(delivered) + Len(batch) + i]
        OBVIOUS
      <4>1. i \in 1..Len(queue) \/ i = Len(queue')
        BY <2>2, <2>3
      <4>2. QED
        BY <4>1, <3>3, <3>4
    <3>6. QED
      BY <2>1, <3>1, <3>2, <3>5 DEF Aligned
  <2>5. QED
    BY <2>1, <2>4 DEF Aligned
<1>7. CASE TerminateExecution
  BY <1>7 DEF TerminateExecution, TypeOK, Aligned, Deliverable, P, flags, qvars, hist
<1>8. CASE TerminateChildren
  BY <1>8 DEF TerminateChildren, TypeOK, Aligned, Deliverable, P, qvars, hist
<1>9. CASE TerminateCallback
  BY <1>9 DEF TerminateCallback, TypeOK, Aligned, Deliverable, P, qvars, hist
<1>10. CASE TerminateSelf
  BY <1>10 DEF TerminateSelf, TypeOK, Aligned, Deliverable, W, qvars, hist
<1>11. CASE PopAll
  <2>1. /\ batch' = queue /\ queue' = <<>> /\ wpc = "drain" /\ wpc' = "next"
        /\ UNCHANGED <<accepted, delivered, isTerminating_, isClosing_, interrupt>>
    BY <1>11 DEF PopAll, W, flags, hist
  <2>2. SUFFICES ASSUME Deliverable' PROVE Aligned'
    BY DEF Aligned
  <2>3. Deliverable /\ batch = <<>>
    BY <2>1, <2>2 DEF Deliverable, BatchEmptied, InBatch
  <2>4. Len(batch) = 0 /\ Len(queue') = 0 /\ Len(delivered) \in Nat /\ Len(queue) \in Nat
    BY <2>1, <2>3 DEF TypeOK
  <2>5. QED
    BY <2>1, <2>3, <2>4 DEF Aligned
<1>12. CASE CallOnMessage
  <2>1. /\ batch' = Tail(batch) /\ wpc = "call" /\ wpc' # "call" /\ batch # <<>>
        /\ UNCHANGED <<accepted, queue, isTerminating_, isClosing_>>
    BY <1>12 DEF CallOnMessage, Stages, W, flags, qvars
  <2>2. SUFFICES ASSUME Deliverable' PROVE Aligned'
    BY DEF Aligned
  <2>3. Deliverable /\ interrupt # "pending"
    BY <1>12, <2>1, <2>2 DEF CallOnMessage, Deliverable, Unwound
  <2>4. delivered' = Append(delivered, Head(batch))
    BY <1>12, <2>3 DEF CallOnMessage
  <2>5. /\ Len(batch) > 0 /\ Len(batch') = Len(batch) - 1 /\ Head(batch) \in 1..MaxPosts
        /\ \A i \in 1..Len(batch') : batch'[i] = batch[i + 1]
    <3>1. batch \in Seq(1..MaxPosts) /\ batch # <<>>
      BY <2>1 DEF TypeOK
    <3>2. /\ Head(batch) \in 1..MaxPosts /\ Len(Tail(batch)) = Len(batch) - 1
          /\ \A i \in 1..Len(Tail(batch)) : Tail(batch)[i] = batch[i + 1]
      BY <3>1, HeadTailProperties
    <3>3. Len(batch) > 0
      BY <3>1
    <3>4. QED
      BY <2>1, <3>2, <3>3
  <2>6. Len(delivered') = Len(delivered) + 1
    BY <2>4, <2>5 DEF TypeOK
  <2>7. Len(accepted) \in Nat /\ Len(queue) \in Nat /\ Len(batch) \in Nat /\ Len(delivered) \in Nat
    BY DEF TypeOK
  <2>8. QED
    BY <2>1, <2>3, <2>5, <2>6, <2>7 DEF Aligned
<1>13. CASE FinishDrain
  BY <1>13 DEF FinishDrain, TypeOK, Aligned, Deliverable, W, AfterDrain, qvars, hist
<1>14. CASE CloseWorkerCallback
  BY <1>14 DEF CloseWorkerCallback, TypeOK, Aligned, Deliverable, W, qvars, hist
<1>15. CASE UNCHANGED vars
  BY <1>15 DEF vars, TypeOK, Aligned, Deliverable, flags, qvars, hist
<1>16. QED
  BY <1>1, <1>2, <1>3, <1>4, <1>5, <1>6, <1>7, <1>8, <1>9, <1>10, <1>11, <1>12, <1>13,
     <1>14, <1>15 DEF Next, ParentStep, ParentChoice,
     WorkerStep, WorkerChoice

(* The parts of TypeOK that different steps can disturb. *)
FlagsTyped ==
  /\ isRunning_ \in BOOLEAN /\ isClosing_ \in BOOLEAN /\ isTerminating_ \in BOOLEAN
  /\ isDisposed_ \in BOOLEAN /\ isWeak_ \in BOOLEAN /\ workerIsolate_ \in BOOLEAN
  /\ signalled \in BOOLEAN /\ runtime \in BOOLEAN
  /\ inLoop \in BOOLEAN /\ stopped \in BOOLEAN /\ lostStop \in BOOLEAN
  /\ registered \in BOOLEAN /\ reachable \in BOOLEAN

StepsTyped ==
  /\ ppc \in ParentSteps /\ wpc \in WorkerSteps
  /\ ctx \in {"script", "handler", "timer"}
  /\ interrupt \in {"none", "pending", "spent"}

ObjectsTyped ==
  /\ wrapper \in {"none", "alive", "deleted"}
  /\ source \in {"none", "added", "terminated"}
  /\ parent \in {"alive", "dying", "slotNull", "disposed"}
  /\ handle \in {"none", "weak", "reset"}
  /\ faults \in SUBSET Faults

MessagesTyped ==
  /\ queue \in Seq(1..MaxPosts) /\ batch \in Seq(1..MaxPosts)
  /\ accepted \in Seq(1..MaxPosts) /\ delivered \in Seq(1..MaxPosts)
  /\ posted \in 0..MaxPosts

CountsTyped == late \in 0..MaxPosts /\ straggled \in 0..MaxPosts

BlocksTyped == inbox \in Seq({"message", "error"}) /\ sends \in 0..MaxSends

(* TypeOK is the conjunction of its parts. *)
LEMMA TypeParts ==
  TypeOK <=> /\ FlagsTyped /\ StepsTyped /\ ObjectsTyped
             /\ MessagesTyped /\ CountsTyped /\ BlocksTyped
BY DEF TypeOK, FlagsTyped, StepsTyped, ObjectsTyped, MessagesTyped, CountsTyped, BlocksTyped

(* The flags stay Booleans. *)
LEMMA FlagsStep ==
  ASSUME FlagsTyped, [Next]_vars
  PROVE  FlagsTyped'
<1>1. CASE \/ PostMessage \/ VisitHandle \/ ClearSlot \/ PostMessageCallback
           \/ FinalizerCallback \/ DestroyParent \/ LooperStart \/ InitializeQueue
           \/ SendToMain \/ JsReturns \/ SpinInterrupted \/ PopAll \/ NextMessage
           \/ CallOnMessage \/ CheckAgain \/ PostMessageToMainCallback
           \/ CallOnErrorHandlers \/ ScriptFailsInDebug \/ ScriptThrows \/ SpinForever
           \/ TimerFires
  BY <1>1 DEF PostMessage, VisitHandle, ClearSlot, PostMessageCallback,
     FinalizerCallback, DestroyParent, LooperStart, InitializeQueue, SendToMain,
     JsReturns, SpinInterrupted, PopAll, NextMessage, CallOnMessage, CheckAgain,
     PostMessageToMainCallback, CallOnErrorHandlers, ScriptFailsInDebug, ScriptThrows,
     SpinForever, TimerFires, FlagsTyped, flags, qvars, loopvars, parentvars
<1>2. CASE ConstructorCallback
  BY <1>2 DEF ConstructorCallback, FlagsTyped, flags, qvars, loopvars
<1>3. CASE StartSetRunning
  BY <1>3 DEF StartSetRunning, FlagsTyped, qvars, loopvars, parentvars
<1>4. CASE InsertState
  BY <1>4 DEF InsertState, FlagsTyped, flags, qvars, loopvars, parentvars
<1>5. CASE PushMessage
  BY <1>5 DEF PushMessage, FlagsTyped, flags, loopvars, parentvars
<1>6. CASE TerminateExecution
  BY <1>6 DEF TerminateExecution, FlagsTyped, flags, qvars, loopvars, parentvars
<1>7. CASE TerminateQueue
  BY <1>7 DEF TerminateQueue, FlagsTyped, StopQueue, flags, parentvars
<1>8. CASE TerminateNotRunning
  BY <1>8, ZenonT(40) DEF TerminateNotRunning, FlagsTyped, qvars, loopvars, parentvars
<1>9. CASE TerminateChildren
  BY <1>9 DEF TerminateChildren, FlagsTyped, qvars, loopvars, parentvars
<1>10. CASE MakeWeak
  BY <1>10 DEF MakeWeak, FlagsTyped, qvars, loopvars
<1>11. CASE DisposeParentIsolate
  BY <1>11, ZenonT(40) DEF DisposeParentIsolate, FlagsTyped, flags, qvars, loopvars
<1>12. CASE TerminateCallback
  BY <1>12 DEF TerminateCallback, FlagsTyped, qvars, loopvars, parentvars
<1>13. CASE RunBlock
  BY <1>13 DEF RunBlock, FlagsTyped, flags, qvars, loopvars
<1>14. CASE DropReference
  BY <1>14, ZenonT(40) DEF DropReference, FlagsTyped, flags, qvars, loopvars
<1>15. CASE NewRuntime
  BY <1>15 DEF NewRuntime, FlagsTyped, flags, qvars, loopvars, parentvars
<1>16. CASE TerminateSelf
  BY <1>16 DEF TerminateSelf, FlagsTyped, qvars, loopvars, parentvars
<1>17. CASE StopOwnQueue
  BY <1>17 DEF StopOwnQueue, FlagsTyped, StopQueue, flags, parentvars
<1>18. CASE NotRunning
  BY <1>18, ZenonT(40) DEF NotRunning, FlagsTyped, qvars, loopvars, parentvars
<1>19. CASE AssignIsolate
  BY <1>19 DEF AssignIsolate, FlagsTyped, flags, qvars, loopvars, parentvars
<1>20. CASE FinishDrain
  BY <1>20 DEF FinishDrain, FlagsTyped, qvars, loopvars, parentvars
<1>21. CASE EnterRunLoop
  BY <1>21 DEF EnterRunLoop, FlagsTyped, flags, qvars, parentvars
<1>22. CASE SetDisposed
  BY <1>22 DEF SetDisposed, FlagsTyped, qvars, loopvars, parentvars
<1>23. CASE DestroyRuntime
  BY <1>23, ZenonT(40) DEF DestroyRuntime, FlagsTyped, flags, qvars, loopvars, parentvars
<1>24. CASE DeleteIfWeak
  BY <1>24, ZenonT(40) DEF DeleteIfWeak, FlagsTyped, flags, qvars, loopvars, parentvars
<1>25. CASE Unregister
  BY <1>25, ZenonT(40) DEF Unregister, FlagsTyped, flags, qvars, loopvars, parentvars
<1>26. CASE CloseWorkerCallback
  BY <1>26 DEF CloseWorkerCallback, FlagsTyped, qvars, loopvars, parentvars
<1>27. CASE PerformSource
  BY <1>27, ZenonT(40) DEF PerformSource, FlagsTyped, flags, loopvars, parentvars
<1>28. CASE ExitRunLoop
  BY <1>28, ZenonT(40) DEF ExitRunLoop, FlagsTyped, flags, qvars, parentvars
<1>29. CASE UNCHANGED vars
  BY <1>29 DEF vars, FlagsTyped, flags, qvars, loopvars, parentvars
<1>30. QED
  BY <1>1, <1>2, <1>3, <1>4, <1>5, <1>6, <1>7, <1>8, <1>9, <1>10, <1>11, <1>12, <1>13,
     <1>14, <1>15, <1>16, <1>17, <1>18, <1>19, <1>20, <1>21, <1>22, <1>23, <1>24, <1>25,
     <1>26, <1>27, <1>28, <1>29 DEF Next, ParentStep, ParentChoice,
     WorkerStep, WorkerChoice

(* Each thread stands at one of its steps. *)
LEMMA StepsStep ==
  ASSUME TypeOK, [Next]_vars
  PROVE  StepsTyped'
<1>1. CASE \/ RunBlock
  BY <1>1 DEF RunBlock, TypeOK, StepsTyped, ParentSteps, WorkerSteps
<1>2. CASE \/ ConstructorCallback \/ StartSetRunning \/ InsertState \/ PostMessage
            \/ PushMessage \/ TerminateExecution \/ TerminateQueue \/ TerminateNotRunning
            \/ TerminateChildren \/ VisitHandle
  BY <1>2 DEF ConstructorCallback, StartSetRunning, InsertState, PostMessage,
     PushMessage, TerminateExecution, TerminateQueue, TerminateNotRunning,
     TerminateChildren, VisitHandle, TypeOK, StepsTyped, ParentSteps, WorkerSteps, P,
     AfterTerminate
<1>3. CASE \/ MakeWeak \/ ClearSlot \/ DisposeParentIsolate \/ PostMessageCallback
            \/ TerminateCallback \/ DropReference \/ FinalizerCallback \/ DestroyParent
  BY <1>3 DEF MakeWeak, ClearSlot, DisposeParentIsolate, PostMessageCallback,
     TerminateCallback, DropReference, FinalizerCallback, DestroyParent, TypeOK,
     StepsTyped, ParentSteps, WorkerSteps, P
<1>4. CASE \/ LooperStart \/ InitializeQueue \/ SendToMain \/ JsReturns
            \/ SpinInterrupted \/ TerminateSelf \/ StopOwnQueue \/ NotRunning
            \/ AssignIsolate \/ PopAll
  BY JsResumes, <1>4 DEF Unwound, LooperStart, InitializeQueue, SendToMain, JsReturns,
     SpinInterrupted, TerminateSelf, StopOwnQueue, NotRunning, AssignIsolate, PopAll,
     TypeOK, StepsTyped, ParentSteps, WorkerSteps, W, AfterDrain
<1>5. CASE \/ NextMessage \/ FinishDrain \/ CheckAgain \/ EnterRunLoop \/ SetDisposed
            \/ DestroyRuntime \/ DeleteIfWeak \/ Unregister \/ PostMessageToMainCallback
            \/ CloseWorkerCallback
  BY <1>5 DEF NextMessage, FinishDrain, CheckAgain, EnterRunLoop, SetDisposed,
     DestroyRuntime, DeleteIfWeak, Unregister, PostMessageToMainCallback,
     CloseWorkerCallback, TypeOK, StepsTyped, ParentSteps, WorkerSteps, W, AfterDrain
<1>6. CASE \/ CallOnErrorHandlers \/ ScriptFailsInDebug \/ ScriptThrows \/ SpinForever
            \/ PerformSource \/ ExitRunLoop
  BY JsResumes, <1>6 DEF CallOnErrorHandlers, ScriptFailsInDebug, ScriptThrows,
     SpinForever, PerformSource, ExitRunLoop, TypeOK, StepsTyped, ParentSteps,
     WorkerSteps, W
<1>7. CASE NewRuntime
  BY <1>7 DEF NewRuntime, TypeOK, StepsTyped, ParentSteps, WorkerSteps, W
<1>8. CASE CallOnMessage
  BY <1>8 DEF Unwound, CallOnMessage, TypeOK, StepsTyped, ParentSteps, WorkerSteps, W
<1>9. CASE TimerFires
  BY <1>9 DEF Unwound, TimerFires, TypeOK, StepsTyped, ParentSteps, WorkerSteps, W
<1>10. CASE UNCHANGED vars
  BY <1>10 DEF vars, TypeOK, StepsTyped, ParentSteps, WorkerSteps
<1>11. QED
  BY <1>1, <1>2, <1>3, <1>4, <1>5, <1>6, <1>7, <1>8, <1>9, <1>10 DEF Next, ParentStep,
     ParentChoice,
     WorkerStep, WorkerChoice

(* The objects the threads share stay in one of their states. *)
LEMMA ObjectsStep ==
  ASSUME ObjectsTyped, [Next]_vars
  PROVE  ObjectsTyped'
<1>1. CASE \/ StartSetRunning \/ InsertState \/ PostMessage \/ PushMessage
           \/ TerminateNotRunning \/ TerminateChildren \/ PostMessageCallback
           \/ TerminateCallback \/ DropReference \/ LooperStart \/ NewRuntime
           \/ JsReturns \/ SpinInterrupted \/ TerminateSelf \/ NotRunning
           \/ AssignIsolate \/ PopAll \/ NextMessage \/ CallOnMessage \/ FinishDrain
           \/ CheckAgain \/ EnterRunLoop \/ SetDisposed \/ SpinForever \/ TimerFires
           \/ PerformSource \/ ExitRunLoop
  BY <1>1, ZenonT(40) DEF StartSetRunning, InsertState, PostMessage, PushMessage,
     TerminateNotRunning, TerminateChildren, PostMessageCallback, TerminateCallback,
     DropReference, LooperStart, NewRuntime, JsReturns, SpinInterrupted, TerminateSelf,
     NotRunning, AssignIsolate, PopAll, NextMessage, CallOnMessage, FinishDrain,
     CheckAgain, EnterRunLoop, SetDisposed, SpinForever, TimerFires, PerformSource,
     ExitRunLoop, ObjectsTyped, Faults, qvars, parentvars
<1>2. CASE ConstructorCallback
  BY <1>2 DEF ConstructorCallback, ObjectsTyped, Faults, qvars
<1>3. CASE TerminateExecution
  BY <1>3 DEF TerminateExecution, ObjectsTyped, Faults, qvars, parentvars
<1>4. CASE TerminateQueue
  BY <1>4 DEF TerminateQueue, ObjectsTyped, Faults, StopQueue, parentvars
<1>5. CASE VisitHandle
  BY <1>5 DEF VisitHandle, ObjectsTyped, Faults, qvars
<1>6. CASE MakeWeak
  BY <1>6 DEF MakeWeak, ObjectsTyped, Faults, Touch, qvars
<1>7. CASE ClearSlot
  BY <1>7 DEF ClearSlot, ObjectsTyped, Faults, qvars
<1>8. CASE DisposeParentIsolate
  BY <1>8 DEF DisposeParentIsolate, ObjectsTyped, Faults, qvars
<1>9. CASE RunBlock
  BY <1>9 DEF RunBlock, ObjectsTyped, Faults, qvars
<1>10. CASE FinalizerCallback
  BY <1>10 DEF FinalizerCallback, ObjectsTyped, Faults, qvars
<1>11. CASE DestroyParent
  BY <1>11 DEF DestroyParent, ObjectsTyped, Faults, qvars
<1>12. CASE InitializeQueue
  BY <1>12 DEF InitializeQueue, ObjectsTyped, Faults, parentvars
<1>13. CASE SendToMain
  BY <1>13 DEF SendToMain, ObjectsTyped, Faults, PostBlocks, qvars
<1>14. CASE StopOwnQueue
  BY <1>14 DEF StopOwnQueue, ObjectsTyped, Faults, StopQueue, parentvars
<1>15. CASE DestroyRuntime
  BY <1>15 DEF DestroyRuntime, ObjectsTyped, Faults, qvars, parentvars
<1>16. CASE DeleteIfWeak
  BY <1>16 DEF DeleteIfWeak, ObjectsTyped, Faults, qvars, parentvars
<1>17. CASE Unregister
  BY <1>17 DEF Unregister, ObjectsTyped, Faults, Touch, qvars, parentvars
<1>18. CASE PostMessageToMainCallback
  BY <1>18 DEF PostMessageToMainCallback, ObjectsTyped, Faults, qvars, parentvars
<1>19. CASE CloseWorkerCallback
  BY <1>19 DEF CloseWorkerCallback, ObjectsTyped, Faults, qvars, parentvars
<1>20. CASE CallOnErrorHandlers
  BY <1>20 DEF CallOnErrorHandlers, ObjectsTyped, Faults, PostBlocks, qvars
<1>21. CASE ScriptFailsInDebug
  BY <1>21 DEF ScriptFailsInDebug, ObjectsTyped, Faults, PostBlocks, qvars
<1>22. CASE ScriptThrows
  BY <1>22 DEF ScriptThrows, ObjectsTyped, Faults, PostBlocks, qvars
<1>23. CASE UNCHANGED vars
  BY <1>23 DEF vars, ObjectsTyped, Faults, qvars, parentvars
<1>24. QED
  BY <1>1, <1>2, <1>3, <1>4, <1>5, <1>6, <1>7, <1>8, <1>9, <1>10, <1>11, <1>12, <1>13,
     <1>14, <1>15, <1>16, <1>17, <1>18, <1>19, <1>20, <1>21, <1>22, <1>23 DEF Next,
     ParentStep, ParentChoice,
     WorkerStep, WorkerChoice

(* Messages keep their numbers: what is queued, drained and delivered was posted. *)
LEMMA MessagesStep ==
  ASSUME MessagesTyped, Stages, [Next]_vars
  PROVE  MessagesTyped'
<1>1. CASE \/ ConstructorCallback \/ StartSetRunning \/ InsertState \/ PostMessage
           \/ TerminateExecution \/ TerminateQueue \/ TerminateNotRunning
           \/ TerminateChildren \/ VisitHandle \/ MakeWeak \/ ClearSlot
           \/ DisposeParentIsolate \/ TerminateCallback \/ RunBlock \/ DropReference
           \/ FinalizerCallback \/ DestroyParent \/ LooperStart \/ InitializeQueue
           \/ NewRuntime \/ SendToMain \/ JsReturns \/ SpinInterrupted \/ TerminateSelf
           \/ StopOwnQueue \/ NotRunning \/ AssignIsolate \/ NextMessage \/ FinishDrain
           \/ CheckAgain \/ EnterRunLoop \/ SetDisposed \/ DestroyRuntime \/ DeleteIfWeak
           \/ Unregister \/ PostMessageToMainCallback \/ CloseWorkerCallback
           \/ CallOnErrorHandlers \/ ScriptFailsInDebug \/ ScriptThrows \/ SpinForever
           \/ TimerFires \/ PerformSource \/ ExitRunLoop
  BY <1>1 DEF ConstructorCallback, StartSetRunning, InsertState, PostMessage,
     TerminateExecution, TerminateQueue, TerminateNotRunning, TerminateChildren,
     VisitHandle, MakeWeak, ClearSlot, DisposeParentIsolate, TerminateCallback, RunBlock,
     DropReference, FinalizerCallback, DestroyParent, LooperStart, InitializeQueue,
     NewRuntime, SendToMain, JsReturns, SpinInterrupted, TerminateSelf, StopOwnQueue,
     NotRunning, AssignIsolate, NextMessage, FinishDrain, CheckAgain, EnterRunLoop,
     SetDisposed, DestroyRuntime, DeleteIfWeak, Unregister, PostMessageToMainCallback,
     CloseWorkerCallback, CallOnErrorHandlers, ScriptFailsInDebug, ScriptThrows,
     SpinForever, TimerFires, PerformSource, ExitRunLoop, MessagesTyped, qvars, hist,
     StopQueue
<1>2. CASE PushMessage
  <2>1. posted \in 1..MaxPosts
    BY <1>2 DEF PushMessage, P, Stages, MessagesTyped
  <2>2. Append(queue, posted) \in Seq(1..MaxPosts) /\ Append(accepted, posted) \in Seq(1..MaxPosts)
    BY <2>1 DEF MessagesTyped
  <2>3. QED
    BY <1>2, <2>2 DEF PushMessage, MessagesTyped
<1>3. CASE PostMessageCallback
  <2>1. posted + 1 \in 0..MaxPosts
    BY <1>3, LifecycleAssumption DEF PostMessageCallback, MessagesTyped
  <2>2. QED
    BY <1>3, <2>1 DEF PostMessageCallback, MessagesTyped, qvars
<1>4. CASE PopAll
  <2>1. <<>> \in Seq(1..MaxPosts)
    OBVIOUS
  <2>2. QED
    BY <1>4, <2>1 DEF PopAll, MessagesTyped, hist
<1>5. CASE CallOnMessage
  <2>1. batch \in Seq(1..MaxPosts) /\ batch # <<>>
    BY <1>5 DEF CallOnMessage, W, Stages, MessagesTyped
  <2>2. Head(batch) \in 1..MaxPosts /\ Tail(batch) \in Seq(1..MaxPosts)
    BY <2>1, HeadTailProperties
  <2>3. Append(delivered, Head(batch)) \in Seq(1..MaxPosts)
    BY <2>2 DEF MessagesTyped
  <2>4. QED
    BY <1>5, <2>2, <2>3 DEF CallOnMessage, MessagesTyped, qvars
<1>6. CASE UNCHANGED vars
  BY <1>6 DEF vars, MessagesTyped, qvars, hist
<1>7. QED
  BY <1>1, <1>2, <1>3, <1>4, <1>5, <1>6 DEF Next, ParentStep, ParentChoice,
     WorkerStep, WorkerChoice

(* The counts of late and straggling messages stay numbers within the bound. *)
LEMMA CountsStep ==
  ASSUME CountsTyped, MessagesTyped, Stages, LastOnes, [Next]_vars
  PROVE  CountsTyped'
<1>1. CASE \/ ConstructorCallback \/ StartSetRunning \/ InsertState \/ PostMessage
           \/ TerminateExecution \/ TerminateQueue \/ TerminateNotRunning
           \/ TerminateChildren \/ VisitHandle \/ MakeWeak \/ ClearSlot
           \/ DisposeParentIsolate \/ PostMessageCallback \/ TerminateCallback
           \/ RunBlock \/ DropReference \/ FinalizerCallback \/ DestroyParent
           \/ LooperStart \/ InitializeQueue \/ NewRuntime \/ SendToMain \/ JsReturns
           \/ SpinInterrupted \/ TerminateSelf \/ StopOwnQueue \/ NotRunning
           \/ AssignIsolate \/ PopAll \/ NextMessage \/ FinishDrain \/ CheckAgain
           \/ EnterRunLoop \/ SetDisposed \/ DestroyRuntime \/ DeleteIfWeak \/ Unregister
           \/ PostMessageToMainCallback \/ CloseWorkerCallback \/ CallOnErrorHandlers
           \/ ScriptFailsInDebug \/ ScriptThrows \/ SpinForever \/ TimerFires
           \/ PerformSource \/ ExitRunLoop
  BY <1>1 DEF ConstructorCallback, StartSetRunning, InsertState, PostMessage,
     TerminateExecution, TerminateQueue, TerminateNotRunning, TerminateChildren,
     VisitHandle, MakeWeak, ClearSlot, DisposeParentIsolate, PostMessageCallback,
     TerminateCallback, RunBlock, DropReference, FinalizerCallback, DestroyParent,
     LooperStart, InitializeQueue, NewRuntime, SendToMain, JsReturns, SpinInterrupted,
     TerminateSelf, StopOwnQueue, NotRunning, AssignIsolate, PopAll, NextMessage,
     FinishDrain, CheckAgain, EnterRunLoop, SetDisposed, DestroyRuntime, DeleteIfWeak,
     Unregister, PostMessageToMainCallback, CloseWorkerCallback, CallOnErrorHandlers,
     ScriptFailsInDebug, ScriptThrows, SpinForever, TimerFires, PerformSource,
     ExitRunLoop, CountsTyped, hist
<1>2. CASE PushMessage
  <2>1. posted \in 1..MaxPosts
    BY <1>2 DEF PushMessage, P, Stages, MessagesTyped
  <2>2. straggled = 0
    BY <1>2 DEF PushMessage, P, LastOnes, CountsTyped
  <2>3. straggled' \in {0, 1} /\ UNCHANGED late
    BY <1>2, <2>2 DEF PushMessage
  <2>4. QED
    BY <2>1, <2>3, LifecycleAssumption DEF CountsTyped
<1>3. CASE CallOnMessage
  <2>1. batch \in Seq(1..MaxPosts) /\ batch # <<>> /\ late = 0
    BY <1>3 DEF CallOnMessage, W, Stages, MessagesTyped, LastOnes, CountsTyped
  <2>2. Head(batch) \in 1..MaxPosts
    BY <2>1, HeadTailProperties
  <2>3. late' \in {0, 1} /\ UNCHANGED straggled
    BY <1>3, <2>1 DEF CallOnMessage
  <2>4. QED
    BY <2>2, <2>3, LifecycleAssumption DEF CountsTyped
<1>4. CASE UNCHANGED vars
  BY <1>4 DEF vars, CountsTyped, hist
<1>5. QED
  BY <1>1, <1>2, <1>3, <1>4 DEF Next, ParentStep, ParentChoice,
     WorkerStep, WorkerChoice

(* Posting blocks keeps the parent's run loop and the bound. *)
LEMMA BlocksPosted ==
  ASSUME BlocksTyped, NEW b \in {<<"message">>, <<"error">>, <<"error", "error">>},
         PostBlocks(b)
  PROVE  BlocksTyped'
<1>1. b \in Seq({"message", "error"}) /\ Len(b) \in Nat
  <2>1. CASE b = <<"message">>
    BY <2>1
  <2>2. CASE b = <<"error">>
    BY <2>2
  <2>3. CASE b = <<"error", "error">>
    BY <2>3
  <2>4. QED
    BY <2>1, <2>2, <2>3
<1>2. inbox \o b \in Seq({"message", "error"})
  BY <1>1, ConcatProperties DEF BlocksTyped
<1>3. sends + Len(b) \in 0..MaxSends
  BY <1>1, LifecycleAssumption DEF BlocksTyped, PostBlocks
<1>4. QED
  BY <1>2, <1>3 DEF BlocksTyped, PostBlocks

(* The blocks on the parent's run loop are messages and errors. *)
LEMMA BlocksStep ==
  ASSUME BlocksTyped, [Next]_vars
  PROVE  BlocksTyped'
<1>1. CASE \/ ConstructorCallback \/ StartSetRunning \/ InsertState \/ PostMessage
           \/ PushMessage \/ TerminateExecution \/ TerminateQueue \/ TerminateNotRunning
           \/ TerminateChildren \/ VisitHandle \/ MakeWeak \/ ClearSlot
           \/ DisposeParentIsolate \/ PostMessageCallback \/ TerminateCallback
           \/ DropReference \/ FinalizerCallback \/ DestroyParent \/ LooperStart
           \/ InitializeQueue \/ NewRuntime \/ JsReturns \/ SpinInterrupted
           \/ TerminateSelf \/ StopOwnQueue \/ NotRunning \/ AssignIsolate \/ PopAll
           \/ NextMessage \/ CallOnMessage \/ FinishDrain \/ CheckAgain \/ EnterRunLoop
           \/ SetDisposed \/ DestroyRuntime \/ DeleteIfWeak \/ Unregister
           \/ PostMessageToMainCallback \/ CloseWorkerCallback \/ SpinForever
           \/ TimerFires \/ PerformSource \/ ExitRunLoop
  BY <1>1 DEF ConstructorCallback, StartSetRunning, InsertState, PostMessage,
     PushMessage, TerminateExecution, TerminateQueue, TerminateNotRunning,
     TerminateChildren, VisitHandle, MakeWeak, ClearSlot, DisposeParentIsolate,
     PostMessageCallback, TerminateCallback, DropReference, FinalizerCallback,
     DestroyParent, LooperStart, InitializeQueue, NewRuntime, JsReturns, SpinInterrupted,
     TerminateSelf, StopOwnQueue, NotRunning, AssignIsolate, PopAll, NextMessage,
     CallOnMessage, FinishDrain, CheckAgain, EnterRunLoop, SetDisposed, DestroyRuntime,
     DeleteIfWeak, Unregister, PostMessageToMainCallback, CloseWorkerCallback,
     SpinForever, TimerFires, PerformSource, ExitRunLoop, BlocksTyped, hist, parentvars
<1>2. CASE RunBlock
  <2>1. inbox \in Seq({"message", "error"}) /\ inbox # <<>>
    BY <1>2 DEF RunBlock, BlocksTyped
  <2>2. Tail(inbox) \in Seq({"message", "error"})
    BY <2>1, HeadTailProperties
  <2>3. QED
    BY <1>2, <2>2 DEF RunBlock, BlocksTyped, hist
<1>3. CASE SendToMain
  <2>1. PICK b \in {<<"message">>, <<"error">>, <<"error", "error">>} : PostBlocks(b)
    BY <1>3 DEF SendToMain
  <2>2. QED
    BY <2>1, BlocksPosted
<1>4. CASE CallOnErrorHandlers
  <2>1. PICK b \in {<<"message">>, <<"error">>, <<"error", "error">>} : PostBlocks(b)
    BY <1>4 DEF CallOnErrorHandlers
  <2>2. QED
    BY <2>1, BlocksPosted
<1>5. CASE ScriptFailsInDebug
  <2>1. PICK b \in {<<"message">>, <<"error">>, <<"error", "error">>} : PostBlocks(b)
    BY <1>5 DEF ScriptFailsInDebug
  <2>2. QED
    BY <2>1, BlocksPosted
<1>6. CASE ScriptThrows
  <2>1. PICK b \in {<<"message">>, <<"error">>, <<"error", "error">>} : PostBlocks(b)
    BY <1>6 DEF ScriptThrows
  <2>2. QED
    BY <2>1, BlocksPosted
<1>7. CASE UNCHANGED vars
  BY <1>7 DEF vars, BlocksTyped, parentvars, hist
<1>8. QED
  BY <1>1, <1>2, <1>3, <1>4, <1>5, <1>6, <1>7 DEF Next, ParentStep, ParentChoice,
     WorkerStep, WorkerChoice

(* Every step preserves the invariant. *)
LEMMA NextIInv == IInv /\ [Next]_vars => IInv'
<1> SUFFICES ASSUME IInv, [Next]_vars PROVE IInv'
  OBVIOUS
<1>1. FlagsTyped /\ StepsTyped /\ ObjectsTyped /\ MessagesTyped /\ CountsTyped /\ BlocksTyped
  BY TypeParts DEF IInv
<1>2. FlagsTyped' /\ StepsTyped' /\ ObjectsTyped' /\ BlocksTyped'
  BY <1>1, FlagsStep, StepsStep, ObjectsStep, BlocksStep DEF IInv
<1>3. MessagesTyped' /\ CountsTyped'
  BY <1>1, MessagesStep, CountsStep DEF IInv
<1>4. TypeOK'
  BY <1>2, <1>3 DEF TypeOK, FlagsTyped, StepsTyped, ObjectsTyped, MessagesTyped,
     CountsTyped,
     BlocksTyped
<1>5. Stages' /\ Registry' /\ BatchEmptied'
  BY StagesStep, RegistryStep, BatchStep DEF IInv
<1>6. Aligned' /\ Numbered' /\ LastOnes'
  BY AlignedStep, NumberedStep, LastOnesStep DEF IInv
<1>7. QED
  BY <1>4, <1>5, <1>6 DEF IInv

(* The invariant holds in every reachable state. *)
THEOREM Invariant == Spec => []IInv
BY InitIInv, NextIInv, PTL DEF Spec

(* The state of the worker, of its wrapper and of the parent stays within its *)
(* types.                                                                     *)
THEOREM Typing == Spec => []TypeOK
<1>1. IInv => TypeOK
  BY DEF IInv
<1>2. QED
  BY <1>1, Invariant, PTL

(* The wrapper is deleted only when the worker's thread is past its run loop. *)
THEOREM WrapperIsKept == Spec => []WrapperKeptWhileRunning
<1> DEFINE Kept == wrapper = "deleted" => isDisposed_
<1>1. Init => Kept
  BY DEF Init
<1>2. IInv /\ Kept /\ [Next]_vars => Kept'
  <2> SUFFICES ASSUME IInv, Kept, [Next]_vars PROVE Kept'
    OBVIOUS
  <2> USE DEF Kept
  <2>1. CASE \/ StartSetRunning \/ InsertState \/ PostMessage \/ PushMessage
             \/ TerminateExecution \/ TerminateQueue \/ TerminateNotRunning
             \/ TerminateChildren \/ MakeWeak \/ ClearSlot \/ DisposeParentIsolate
             \/ PostMessageCallback \/ TerminateCallback \/ RunBlock \/ DropReference
             \/ DestroyParent \/ LooperStart \/ InitializeQueue \/ NewRuntime \/ SendToMain
             \/ JsReturns \/ SpinInterrupted \/ TerminateSelf \/ StopOwnQueue \/ NotRunning
             \/ AssignIsolate \/ PopAll \/ NextMessage \/ CallOnMessage \/ FinishDrain
             \/ CheckAgain \/ EnterRunLoop \/ DestroyRuntime \/ Unregister
             \/ PostMessageToMainCallback \/ CloseWorkerCallback \/ CallOnErrorHandlers
             \/ ScriptFailsInDebug \/ ScriptThrows \/ SpinForever \/ TimerFires
             \/ PerformSource \/ ExitRunLoop
    BY <2>1 DEF StartSetRunning, InsertState, PostMessage, PushMessage, TerminateExecution,
       TerminateQueue, TerminateNotRunning, TerminateChildren, MakeWeak, ClearSlot,
       DisposeParentIsolate, PostMessageCallback, TerminateCallback, RunBlock,
       DropReference, DestroyParent, LooperStart, InitializeQueue, NewRuntime, SendToMain,
       JsReturns, SpinInterrupted, TerminateSelf, StopOwnQueue, NotRunning, AssignIsolate,
       PopAll, NextMessage, CallOnMessage, FinishDrain, CheckAgain, EnterRunLoop,
       DestroyRuntime, Unregister, PostMessageToMainCallback, CloseWorkerCallback,
       CallOnErrorHandlers, ScriptFailsInDebug, ScriptThrows, SpinForever, TimerFires,
       PerformSource, ExitRunLoop, flags
  <2>2. CASE ConstructorCallback
    BY <2>2 DEF ConstructorCallback, P, flags
  <2>3. CASE VisitHandle
    BY <2>3 DEF VisitHandle, P, flags
  <2>4. CASE FinalizerCallback
    BY <2>4 DEF FinalizerCallback, P, flags
  <2>5. CASE SetDisposed
    BY <2>5 DEF SetDisposed, W
  <2>6. CASE DeleteIfWeak
    <3>1. isDisposed_
      BY <2>6 DEF DeleteIfWeak, W, IInv, Stages, Ending
    <3>2. QED
      BY <2>6, <3>1 DEF DeleteIfWeak, flags
  <2>7. CASE UNCHANGED vars
    BY <2>7 DEF vars, flags
  <2>8. QED
    BY <2>1, <2>2, <2>3, <2>4, <2>5, <2>6, <2>7 DEF Next, ParentStep, ParentChoice,
       WorkerStep, WorkerChoice
<1>3. IInv /\ Kept => WrapperKeptWhileRunning
  BY DEF IInv, Stages, Ending, WrapperKeptWhileRunning
<1>4. QED
  BY <1>1, <1>2, <1>3, Invariant, PTL DEF Spec

(* The worker's thread finds its entry once the parent has inserted it, until *)
(* the thread itself removes it; a look-up that found none came before that,  *)
(* and stopped the process there.                                             *)
EntryIsFound ==
  /\ Alive /\ ~Early /\ wpc \notin {"deleteIfWeak", "exit"} => registered
  /\ "stateMissing" \in faults => Early

(* The step of each action on it. *)
LEMMA EntryStep ==
  ASSUME TypeOK, Stages, Registry, EntryIsFound, [Next]_vars
  PROVE  EntryIsFound'
<1> USE DEF EntryIsFound, Early, Alive
<1>1. CASE \/ ConstructorCallback \/ StartSetRunning \/ PostMessage \/ PushMessage
            \/ TerminateQueue \/ TerminateNotRunning \/ VisitHandle \/ ClearSlot
            \/ DisposeParentIsolate \/ PostMessageCallback
  BY <1>1 DEF ConstructorCallback, StartSetRunning, PostMessage, PushMessage,
     TerminateQueue, TerminateNotRunning, VisitHandle, ClearSlot, DisposeParentIsolate,
     PostMessageCallback, P, AfterTerminate, Stages
<1>2. CASE \/ DropReference \/ FinalizerCallback \/ DestroyParent \/ TerminateChildren
            \/ TerminateCallback \/ TerminateExecution \/ InsertState
  BY <1>2 DEF DropReference, FinalizerCallback, DestroyParent, TerminateChildren,
     TerminateCallback, TerminateExecution, InsertState, P
<1>3. CASE MakeWeak
  BY <1>3 DEF MakeWeak, P, Touch
<1>4. CASE RunBlock
  BY <1>4 DEF RunBlock
<1>5. CASE \/ LooperStart \/ InitializeQueue \/ NewRuntime \/ StopOwnQueue \/ NotRunning
            \/ AssignIsolate \/ PopAll \/ NextMessage \/ CallOnMessage \/ CheckAgain
            \/ EnterRunLoop \/ SetDisposed \/ SpinForever \/ TimerFires \/ PerformSource
            \/ ExitRunLoop \/ TerminateSelf \/ FinishDrain
  BY <1>5 DEF LooperStart, InitializeQueue, NewRuntime, StopOwnQueue, NotRunning,
     AssignIsolate, PopAll, NextMessage, CallOnMessage, CheckAgain, EnterRunLoop,
     SetDisposed, SpinForever, TimerFires, PerformSource, ExitRunLoop, TerminateSelf,
     FinishDrain, W
<1>6. CASE \/ JsReturns \/ SpinInterrupted
  BY <1>6 DEF JsReturns, SpinInterrupted, W
<1>7. CASE \/ SendToMain \/ CallOnErrorHandlers \/ ScriptFailsInDebug \/ ScriptThrows
  BY <1>7 DEF SendToMain, CallOnErrorHandlers, ScriptFailsInDebug, ScriptThrows, W,
     PostBlocks
<1>8. CASE DestroyRuntime
  BY <1>8 DEF DestroyRuntime, W
<1>9. CASE DeleteIfWeak
  BY <1>9 DEF DeleteIfWeak, W
<1>10. CASE Unregister
  BY <1>10 DEF Unregister, W, Touch
<1>11. CASE PostMessageToMainCallback \/ CloseWorkerCallback
  BY <1>11 DEF PostMessageToMainCallback, CloseWorkerCallback, W
<1>12. CASE UNCHANGED vars
  BY <1>12 DEF vars
<1>13. QED
  BY <1>1, <1>2, <1>3, <1>4, <1>5, <1>6, <1>7, <1>8, <1>9, <1>10, <1>11, <1>12 DEF Next,
     ParentStep, ParentChoice, WorkerStep, WorkerChoice

(* No entry of Caches::Workers outlives the worker's thread.  The assertions of *)
(* Worker.mm:236 and :359 and the dereference of Runtime.mm:225 can fail only   *)
(* before ConstructorCallback has inserted the entry: nothing the parent or the *)
(* worker does afterwards, terminate, close, collection or teardown, takes it   *)
(* from a thread that still looks.                                              *)
THEOREM RegistryMatchesThread == Spec => []RegistryFollowsThread
<1>1. Init => EntryIsFound
  BY DEF Init, EntryIsFound, Early
<1>2. IInv /\ EntryIsFound /\ [Next]_vars => EntryIsFound'
  BY EntryStep DEF IInv
<1>3. IInv /\ EntryIsFound => RegistryFollowsThread
  BY DEF IInv, Registry, EntryIsFound, RegistryFollowsThread
<1>4. QED
  BY <1>1, <1>2, <1>3, Invariant, PTL DEF Spec

\* The worker's JavaScript runs, or is inside one of its native calls.
InJs == wpc \in {"js", "send", "spin"}

\* The worker drains its queue, or has drained it and is on its way to the run
\* loop or in it.
Draining == {"drain", "next", "call", "drained", "check", "enter", "loop"}

(* Where a flag comes from: the queue is stopped by a Terminate that has raised *)
(* isTerminating_, and whoever has raised it stops the queue; a Runtime is made *)
(* behind Initialize, workerIsolate_ is assigned just before the first drain,   *)
(* and timers fire inside the run loop.                                         *)
Origins ==
  /\ source = "terminated" \/ ppc = "stopQueue" \/ wpc = "stopQueue" => isTerminating_
  /\ isTerminating_ => \/ source = "terminated"
                       \/ ppc \in {"interrupt", "stopQueue"} \/ wpc = "stopQueue"
  /\ runtime \/ inLoop \/ wpc = "newRuntime" => source # "none"
  /\ wpc \in {"none", "queued", "initQueue", "newRuntime"} => ~workerIsolate_
  /\ wpc \in Draining \/ (InJs /\ ctx # "script") => workerIsolate_
  /\ wpc = "loop" \/ (InJs /\ ctx = "timer") => inLoop

(* A stop reaches the run loop, or falls into the one gap before it. *)
StopReaches ==
  /\ source = "terminated" /\ wpc = "enter" => lostStop
  /\ source = "terminated" /\ inLoop => stopped \/ lostStop

(* A message behind the first drain has its signal, or is drained now. *)
QueueIsSignalled ==
  source = "added" /\ queue # <<>> => signalled \/ wpc = "drain" \/ ~workerIsolate_

Awake == Origins /\ StopReaches /\ QueueIsSignalled

(* The step of each action on them. *)
LEMMA AwakeStep ==
  ASSUME TypeOK, Stages, Awake, [Next]_vars
  PROVE  Awake'
<1> USE DEF Awake, Origins, StopReaches, QueueIsSignalled, InJs, Draining
<1>1. CASE \/ ConstructorCallback \/ StartSetRunning \/ InsertState \/ PostMessage
            \/ TerminateNotRunning \/ VisitHandle \/ MakeWeak \/ ClearSlot
            \/ DisposeParentIsolate \/ PostMessageCallback \/ RunBlock \/ DropReference
            \/ FinalizerCallback \/ DestroyParent
  BY <1>1 DEF ConstructorCallback, StartSetRunning, InsertState, PostMessage,
     TerminateNotRunning, VisitHandle, MakeWeak, ClearSlot, DisposeParentIsolate,
     PostMessageCallback, RunBlock, DropReference, FinalizerCallback, DestroyParent, P,
     AfterTerminate, Stages, flags, qvars, loopvars
<1>2. CASE PushMessage
  BY <1>2 DEF PushMessage, P, flags, loopvars
<1>3. CASE TerminateCallback \/ TerminateExecution \/ TerminateChildren
  BY <1>3 DEF TerminateCallback, TerminateExecution, TerminateChildren, P, Stages, TypeOK,
     flags, qvars, loopvars
<1>4. CASE TerminateQueue
  BY <1>4 DEF TerminateQueue, P, StopQueue, Stages, WithRuntime, TypeOK, flags
<1>5. CASE StopOwnQueue
  BY <1>5 DEF StopOwnQueue, W, StopQueue, Stages, WithRuntime, TypeOK, flags
<1>6. CASE \/ LooperStart \/ InitializeQueue \/ NewRuntime \/ NotRunning \/ AssignIsolate
            \/ PopAll \/ NextMessage \/ CallOnMessage \/ CheckAgain
  BY <1>6 DEF LooperStart, InitializeQueue, NewRuntime, NotRunning, AssignIsolate, PopAll,
     NextMessage, CallOnMessage, CheckAgain, W, AfterDrain, TypeOK, Stages, flags, qvars,
     loopvars
<1>7. CASE \/ EnterRunLoop \/ SetDisposed \/ SpinForever \/ TimerFires \/ PerformSource
            \/ ExitRunLoop \/ TerminateSelf \/ FinishDrain
  BY <1>7 DEF EnterRunLoop, SetDisposed, SpinForever, TimerFires, PerformSource,
     ExitRunLoop, TerminateSelf, FinishDrain, W, AfterDrain, TypeOK, Stages, WithRuntime,
     flags, qvars, loopvars
<1>8. CASE JsReturns \/ SpinInterrupted \/ CallOnErrorHandlers
  BY <1>8, JsResumes DEF JsReturns, SpinInterrupted, CallOnErrorHandlers, W, TypeOK, flags,
     qvars, loopvars
<1>9. CASE \/ SendToMain \/ ScriptFailsInDebug \/ ScriptThrows
            \/ PostMessageToMainCallback \/ CloseWorkerCallback
  BY <1>9 DEF SendToMain, ScriptFailsInDebug, ScriptThrows, PostMessageToMainCallback,
     CloseWorkerCallback, W, flags, qvars, loopvars
<1>10. CASE DestroyRuntime \/ DeleteIfWeak \/ Unregister
  BY <1>10 DEF DestroyRuntime, DeleteIfWeak, Unregister, W, flags, qvars, loopvars
<1>11. CASE UNCHANGED vars
  BY <1>11 DEF vars, flags, qvars, loopvars
<1>12. QED
  BY <1>1, <1>2, <1>3, <1>4, <1>5, <1>6, <1>7, <1>8, <1>9, <1>10, <1>11 DEF Next,
     ParentStep, ParentChoice, WorkerStep, WorkerChoice

(* It holds in every reachable state. *)
LEMMA StaysAwake == Spec => []Awake
<1>1. Init => Awake
  BY DEF Init, Awake, Origins, StopReaches, QueueIsSignalled, InJs, Draining
<1>2. IInv /\ Awake /\ [Next]_vars => Awake'
  BY AwakeStep DEF IInv
<1>3. QED
  BY <1>1, <1>2, Invariant, PTL DEF Spec

(* A worker that waits in its run loop while it is to terminate has been       *)
(* stopped, or the parent is still inside the Terminate that will stop it, or  *)
(* the stop fell into the gap before CFRunLoopRun: there is no second way to   *)
(* lose one.  This is what TerminateEndsWorker asks of the states.             *)
THEOREM OnlyOneGapLosesAStop ==
  Spec => [](wpc = "loop" /\ isTerminating_
               => stopped \/ lostStop \/ ppc \in {"interrupt", "stopQueue"})
<1>1. Awake => (wpc = "loop" /\ isTerminating_
                  => stopped \/ lostStop \/ ppc \in {"interrupt", "stopQueue"})
  BY DEF Awake, Origins, StopReaches
<1>2. QED
  BY <1>1, StaysAwake, PTL

(* A worker never waits in its run loop on top of messages: while it is not to  *)
(* terminate, a queue that has one has a source on the loop, and that source    *)
(* is signalled, whenever the push fell relative to Initialize and the drains.  *)
(* This is what QueuedIsDelivered asks of the states.                           *)
THEOREM WaitingWorkerIsSignalled ==
  Spec => [](wpc = "loop" /\ queue # <<>> /\ ~isTerminating_
               => signalled /\ source = "added")
<1>1. IInv /\ Awake => (wpc = "loop" /\ queue # <<>> /\ ~isTerminating_
                          => signalled /\ source = "added")
  BY DEF IInv, TypeOK, Stages, WithRuntime, Awake, Origins, QueueIsSignalled, Draining
<1>2. QED
  BY <1>1, Invariant, StaysAwake, PTL

(* A step that leaves the messages and the two flags alone is a stutter of the *)
(* Mailbox.                                                                     *)
LEMMA MailboxStutter ==
  ASSUME UNCHANGED <<accepted, delivered, isClosing_, isTerminating_, straggled, late>>
  PROVE  UNCHANGED M!vars
BY DEF M!vars

(* Queueing a message accepts it: its number is the largest so far, and it is *)
(* the only one queued behind a flag.                                         *)
LEMMA PushIsAccept ==
  ASSUME IInv, PushMessage
  PROVE  M!Next
<1>1. posted \in 1..MaxPosts /\ ppc = "push"
  BY DEF PushMessage, P, IInv, Stages, TypeOK
<1>2. \A i \in 1..Len(accepted) : accepted[i] < posted
  BY <1>1 DEF IInv, Numbered
<1>3. straggled = 0
  BY <1>1 DEF IInv, LastOnes, TypeOK
<1>4. M!Accept(posted)
  BY <1>2, <1>3 DEF PushMessage, M!Accept, flags
<1>5. QED
  BY <1>1, <1>4 DEF M!Next

(* Calling onmessage delivers the next accepted message, or skips it and every *)
(* later one when V8 was told to terminate.                                    *)
LEMMA CallIsDeliver ==
  ASSUME IInv, CallOnMessage
  PROVE  M!Next \/ UNCHANGED M!vars
<1>1. CASE interrupt = "pending"
  BY <1>1, MailboxStutter DEF CallOnMessage, flags
<1>2. CASE interrupt # "pending"
  <2>1. /\ wpc = "call" /\ batch # <<>> /\ ~isClosing_ /\ Deliverable
        /\ batch \in Seq(1..MaxPosts)
    BY <1>2 DEF CallOnMessage, W, IInv, Stages, Deliverable, TypeOK
  <2>2. Len(batch) \in Nat /\ Len(batch) > 0 /\ Head(batch) = batch[1]
    BY <2>1
  <2>3. Len(delivered) \in Nat /\ Len(queue) \in Nat
    BY DEF IInv, TypeOK
  <2>4. Len(delivered) < Len(accepted) /\ Head(batch) = accepted[Len(delivered) + 1]
    BY <2>1, <2>2, <2>3 DEF IInv, Aligned
  <2>5. late = 0
    BY <2>1 DEF IInv, LastOnes, TypeOK
  <2>6. /\ delivered' = Append(delivered, Head(batch))
        /\ late' = IF isTerminating_ THEN late + 1 ELSE late
        /\ UNCHANGED <<accepted, isClosing_, isTerminating_, straggled>>
    BY <1>2 DEF CallOnMessage, flags
  <2>7. M!Deliver
    BY <2>1, <2>4, <2>5, <2>6 DEF M!Deliver
  <2>8. QED
    BY <2>7 DEF M!Next
<1>3. QED
  BY <1>1, <1>2

(* Every step of the Worker is a step of the Mailbox or leaves it alone. *)
LEMMA MailboxStep == IInv /\ [Next]_vars => [M!Next]_M!vars
<1> SUFFICES ASSUME IInv, [Next]_vars PROVE M!Next \/ UNCHANGED M!vars
  OBVIOUS
<1>1. CASE \/ ConstructorCallback \/ StartSetRunning \/ InsertState \/ PostMessage
           \/ TerminateExecution \/ TerminateQueue \/ TerminateNotRunning \/ VisitHandle
           \/ MakeWeak \/ ClearSlot \/ DisposeParentIsolate \/ PostMessageCallback
           \/ RunBlock \/ DropReference \/ FinalizerCallback \/ DestroyParent
           \/ LooperStart \/ InitializeQueue \/ NewRuntime \/ SendToMain \/ JsReturns
           \/ SpinInterrupted \/ StopOwnQueue \/ NotRunning \/ AssignIsolate \/ PopAll
           \/ NextMessage \/ CheckAgain \/ EnterRunLoop \/ SetDisposed \/ DestroyRuntime
           \/ DeleteIfWeak \/ Unregister \/ PostMessageToMainCallback
           \/ CallOnErrorHandlers \/ ScriptFailsInDebug \/ ScriptThrows \/ SpinForever
           \/ TimerFires \/ PerformSource \/ ExitRunLoop
  BY MailboxStutter, <1>1 DEF ConstructorCallback, StartSetRunning, InsertState,
     PostMessage, TerminateExecution, TerminateQueue, TerminateNotRunning, VisitHandle,
     MakeWeak, ClearSlot, DisposeParentIsolate, PostMessageCallback, RunBlock,
     DropReference, FinalizerCallback, DestroyParent, LooperStart, InitializeQueue,
     NewRuntime, SendToMain, JsReturns, SpinInterrupted, StopOwnQueue, NotRunning,
     AssignIsolate, PopAll, NextMessage, CheckAgain, EnterRunLoop, SetDisposed,
     DestroyRuntime, DeleteIfWeak, Unregister, PostMessageToMainCallback,
     CallOnErrorHandlers, ScriptFailsInDebug, ScriptThrows, SpinForever, TimerFires,
     PerformSource, ExitRunLoop, flags, hist
<1>2. CASE PushMessage
  BY <1>2, PushIsAccept
<1>3. CASE TerminateChildren
  <2>1. UNCHANGED <<accepted, delivered, isClosing_, straggled, late>>
    BY <1>3 DEF TerminateChildren, hist
  <2>2. isTerminating_' = TRUE \/ UNCHANGED isTerminating_
    BY <1>3 DEF TerminateChildren, IInv, TypeOK
  <2>3. QED
    BY <2>1, <2>2, MailboxStutter DEF M!Next, M!Terminate
<1>4. CASE TerminateCallback
  <2>1. UNCHANGED <<accepted, delivered, isClosing_, straggled, late>>
    BY <1>4 DEF TerminateCallback, hist
  <2>2. isTerminating_' = TRUE \/ UNCHANGED isTerminating_
    BY <1>4 DEF TerminateCallback, IInv, TypeOK
  <2>3. QED
    BY <2>1, <2>2, MailboxStutter DEF M!Next, M!Terminate
<1>5. CASE TerminateSelf
  <2>1. UNCHANGED <<accepted, delivered, isClosing_, straggled, late>>
    BY <1>5 DEF TerminateSelf, hist
  <2>2. isTerminating_' = TRUE \/ UNCHANGED isTerminating_
    BY <1>5 DEF TerminateSelf, IInv, TypeOK
  <2>3. QED
    BY <2>1, <2>2, MailboxStutter DEF M!Next, M!Terminate
<1>6. CASE CallOnMessage
  BY <1>6, CallIsDeliver
<1>7. CASE FinishDrain
  <2>1. UNCHANGED <<accepted, delivered, isClosing_, straggled, late>>
    BY <1>7 DEF FinishDrain, hist
  <2>2. isTerminating_' = TRUE \/ UNCHANGED isTerminating_
    BY <1>7 DEF FinishDrain, IInv, TypeOK
  <2>3. QED
    BY <2>1, <2>2, MailboxStutter DEF M!Next, M!Terminate
<1>8. CASE CloseWorkerCallback
  <2>1. UNCHANGED <<accepted, delivered, isTerminating_, straggled, late>>
    BY <1>8 DEF CloseWorkerCallback, hist
  <2>2. isClosing_' = TRUE \/ UNCHANGED isClosing_
    BY <1>8 DEF CloseWorkerCallback, IInv, TypeOK
  <2>3. QED
    BY <2>1, <2>2, MailboxStutter DEF M!Next, M!Close
<1>9. CASE UNCHANGED vars
  BY MailboxStutter, <1>9 DEF vars, flags, hist
<1>10. QED
  BY <1>1, <1>2, <1>3, <1>4, <1>5, <1>6, <1>7, <1>8, <1>9 DEF Next, ParentStep,
     ParentChoice,
     WorkerStep, WorkerChoice

(* A Worker implements the Mailbox: messages in the order they were posted,  *)
(* each delivered once and none skipped, at most one queued and one delivered *)
(* once terminate() has begun, none delivered after close().                  *)
THEOREM MailboxRefinement == Spec => ImplementsMailbox
<1>1. Init => M!Init
  BY DEF Init, M!Init
<1>2. QED
  BY <1>1, MailboxStep, Invariant, PTL DEF Spec, ImplementsMailbox, M!Spec
=============================================================================
