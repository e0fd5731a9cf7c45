-------------------------- MODULE InspectorProofs --------------------------
(***************************************************************************)
(* Proofs about Inspector, for any number of messages and frontends: the   *)
(* state stays well typed, the messages are dispatched once and in order,  *)
(* and one is left behind only after a pump block was refused in a pause.  *)
(*                                                                         *)
(* Two facts carry the argument.  The messages that were dispatched, the   *)
(* one being dispatched and the ones that wait are together the numbers of *)
(* the messages received, whoever pumps.  And the main thread is never     *)
(* inside a pump block and inside the nested loop of a pause at once, so   *)
(* runningNestedLoops_ says exactly when a pump block is refused.          *)
(***************************************************************************)
EXTENDS Inspector, FiniteSetTheorems, SequenceTheorems, TLAPS

(* The messages taken from the queue so far. *)
Taken == Len(handled) + (IF main = "dispatch" THEN 1 ELSE 0)

(* The frontends whose message is queued and whose block is still to come. *)
Readers == {f \in Frontends : reading[f] # "idle"}

(* Every message received is dispatched, being dispatched or waiting. *)
NumbersInOrder ==
  /\ current = IF main = "dispatch" THEN Len(handled) + 1 ELSE 0
  /\ Taken + Len(messages_) = Len(received)
  /\ \A i \in 1..Len(messages_) : messages_[i] = Taken + i
  /\ \A i \in 1..Len(handled) : handled[i] = i

(* Every message asks for at most one pump block. *)
BlocksAreOwed == blocks + Cardinality(Readers) <= Len(received)

(* Where the main thread stands when it owns messageLoopQueue_ and when it is *)
(* in the nested loop of a pause.                                             *)
Control ==
  /\ runningNestedLoops_ = paused
  /\ ~(owner /\ paused)
  /\ main \in {"idle", "waiting", "app"} => ~owner /\ ~paused
  /\ main = "pump" => owner
  /\ main \in {"loop", "leavePause"} => paused
  /\ main \in {"dispatch", "eval"} => owner \/ paused
  /\ main \in {"enterPause", "stuck"} => ~paused
  /\ paused /\ main \in {"dispatch", "eval"} => ~terminated_

(* A message that waits has a block coming, also during a pause, as long as no *)
(* block was refused.                                                          *)
BlockIsComing ==
  messages_ # <<>> => Readers # {} \/ blocks > 0 \/ owner \/ refused

SessionHasFrontend == accepting = "session" => connects > 0

Bounds == Len(received) <= MaxMessages

IInv == /\ TypeOK /\ Control /\ SessionHasFrontend /\ Bounds
        /\ NumbersInOrder /\ BlocksAreOwed /\ BlockIsComing

(* The initial state satisfies the invariant. *)
LEMMA InitIInv == Init => IInv
<1> SUFFICES ASSUME Init PROVE IInv
  OBVIOUS
<1>1. 0 \in 0..MaxMessages /\ 0 \in 0..MaxConnects
  BY InspectorAssumption
<1>2. TypeOK
  <2>1. \A S : <<>> \in Seq(S)
    OBVIOUS
  <2>2. QED
    BY <1>1, <2>1, Zenon DEF Init, TypeOK, MainSteps
<1>3. Control /\ SessionHasFrontend /\ BlockIsComing
  BY DEF Init, Control, SessionHasFrontend, BlockIsComing
<1>4. Bounds /\ NumbersInOrder
  BY InspectorAssumption DEF Init, Bounds, NumbersInOrder, Taken
<1>5. BlocksAreOwed
  <2>1. Readers = {}
    BY DEF Init, Readers
  <2>2. QED
    BY <2>1, FS_EmptySet DEF Init, BlocksAreOwed
<1>6. QED
  BY <1>2, <1>3, <1>4, <1>5 DEF IInv

(* A pump block and the nested loop of a pause exclude each other. *)
LEMMA ControlStep ==
  ASSUME TypeOK, Control, [Next]_vars
  PROVE  Control'
<1>1. CASE \/ RunBreakBlock \/ WaitTimeout \/ ReplaceSession \/ AttachRequest
           \/ FrontendConnects
  BY <1>1 DEF RunBreakBlock, WaitTimeout, ReplaceSession, AttachRequest,
     FrontendConnects, Control, TypeOK, clientVars, mainVars
<1>2. CASE WaitLoop
  BY <1>2 DEF WaitLoop, Control, TypeOK, M, clientVars, mainVars
<1>3. CASE WaitLoopEnds
  BY <1>3 DEF WaitLoopEnds, Control, TypeOK, M, clientVars, mainVars
<1>4. CASE StartupDone
  BY <1>4 DEF StartupDone, Control, TypeOK, M, clientVars
<1>5. CASE PumpMessage
  BY <1>5 DEF PumpMessage, Control, TypeOK
<1>6. CASE PumpBlockEnds
  BY <1>6 DEF PumpBlockEnds, Control, TypeOK, M, clientVars
<1>7. CASE DispatchMessage
  BY <1>7 DEF DispatchMessage, Control, TypeOK, AfterDispatch
<1>8. CASE EvalReturns
  BY <1>8 DEF EvalReturns, Control, TypeOK, M, AfterDispatch, clientVars, mainVars
<1>9. CASE AppReturns
  BY <1>9 DEF AppReturns, Control, TypeOK, M, clientVars, mainVars
<1>10. CASE RunMessageLoopOnPause
  BY <1>10 DEF RunMessageLoopOnPause, Control, TypeOK, LoopQueueFree
<1>11. CASE QuitLoop
  BY <1>11 DEF QuitLoop, Control, TypeOK, M, clientVars, mainVars
<1>12. CASE LeavePause
  BY <1>12 DEF LeavePause, Control, TypeOK, M
<1>13. CASE RunPumpBlock
  BY <1>13 DEF RunPumpBlock, Control, TypeOK, ServesQueue, clientVars
<1>14. CASE WaitForDebugger
  BY <1>14 DEF WaitForDebugger, Control, TypeOK, M, clientVars, mainVars
<1>15. CASE RunApp
  BY <1>15 DEF RunApp, Control, TypeOK, M, clientVars, mainVars
<1>16. CASE InterruptRuns
  BY <1>16 DEF InterruptRuns, Control, TypeOK, clientVars, mainVars
<1>17. CASE HitPause
  BY <1>17 DEF HitPause, Control, TypeOK, M, clientVars, mainVars
<1>18. ASSUME NEW f \in Frontends, FrontendVanishes(f) PROVE Control'
  BY <1>18 DEF FrontendVanishes, Control, TypeOK, clientVars, mainVars
<1>19. ASSUME NEW f \in Frontends, RequestInterrupt(f) PROVE Control'
  BY <1>19 DEF RequestInterrupt, Control, TypeOK, clientVars, mainVars
<1>20. ASSUME NEW f \in Frontends, PostPumpBlock(f) PROVE Control'
  BY <1>20 DEF PostPumpBlock, Control, TypeOK, clientVars, mainVars
<1>21. ASSUME NEW f \in Frontends, NEW kind \in Kinds, ReceiveMessage(f, kind) PROVE Control'
  BY <1>21 DEF ReceiveMessage, Control, TypeOK, mainVars
<1>22. CASE UNCHANGED vars
  BY <1>22 DEF vars, Control, TypeOK, clientVars, mainVars
<1>23. QED
  BY <1>1, <1>2, <1>3, <1>4, <1>5, <1>6, <1>7, <1>8, <1>9, <1>10, <1>11, <1>12, <1>13,
     <1>14, <1>15, <1>16, <1>17, <1>18, <1>19, <1>20, <1>21, <1>22 DEF Next, MainStep

(* A set of frontends is finite, and its size a number. *)
LEMMA ReadersFinite ==
  /\ IsFiniteSet(Readers) /\ Cardinality(Readers) \in Nat
  /\ Cardinality(Readers) = 0 <=> Readers = {}
<1>1. IsFiniteSet(Frontends)
  BY FS_Interval, InspectorAssumption DEF Frontends
<1>2. IsFiniteSet(Readers)
  BY <1>1, FS_Subset DEF Readers
<1>3. QED
  BY <1>2, FS_CardinalityType, FS_EmptySet

(* Each message received brings one reader, which leaves one block: there are *)
(* never more blocks than messages.                                           *)
LEMMA BlocksStep ==
  ASSUME TypeOK, BlocksAreOwed, [Next]_vars
  PROVE  BlocksAreOwed'
<1>0. Len(received) \in Nat /\ blocks \in Nat /\ Cardinality(Readers) \in Nat
  BY ReadersFinite, InspectorAssumption DEF TypeOK
<1>1. CASE \/ WaitLoop \/ WaitLoopEnds \/ StartupDone \/ PumpMessage \/ PumpBlockEnds
           \/ DispatchMessage \/ EvalReturns \/ AppReturns \/ RunMessageLoopOnPause
           \/ QuitLoop \/ LeavePause \/ RunBreakBlock \/ WaitTimeout \/ ReplaceSession
           \/ AttachRequest \/ WaitForDebugger \/ RunApp \/ InterruptRuns \/ HitPause
           \/ FrontendConnects
  BY <1>0, <1>1 DEF WaitLoop, WaitLoopEnds, StartupDone, PumpMessage, PumpBlockEnds,
     DispatchMessage, EvalReturns, AppReturns, RunMessageLoopOnPause, QuitLoop,
     LeavePause, RunBreakBlock, WaitTimeout, ReplaceSession, AttachRequest,
     WaitForDebugger, RunApp, InterruptRuns, HitPause, FrontendConnects, BlocksAreOwed,
     Readers, hist
<1>2. CASE RunPumpBlock
  <2>1. blocks' = blocks - 1 /\ UNCHANGED <<reading, received>>
    BY <1>2 DEF RunPumpBlock, clientVars, serverVars, queueVars
  <2>2. QED
    BY <2>1, <1>0 DEF BlocksAreOwed, Readers
<1>3. ASSUME NEW f \in Frontends, FrontendVanishes(f) PROVE BlocksAreOwed'
  BY <1>0, <1>3 DEF FrontendVanishes, BlocksAreOwed, Readers, hist
<1>4. ASSUME NEW f \in Frontends, RequestInterrupt(f) PROVE BlocksAreOwed'
  <2>1. UNCHANGED <<blocks, received>> /\ Readers' = Readers
    BY <1>4 DEF RequestInterrupt, Reads, Readers, TypeOK, clientVars, serverVars,
       queueVars, hist
  <2>2. QED
    BY <2>1 DEF BlocksAreOwed
<1>5. ASSUME NEW f \in Frontends, PostPumpBlock(f) PROVE BlocksAreOwed'
  <2>1. UNCHANGED received /\ blocks' = blocks + 1
    BY <1>5 DEF PostPumpBlock, hist
  <2>2. f \in Readers /\ Readers' = Readers \ {f}
    BY <1>5 DEF PostPumpBlock, Reads, Readers, TypeOK
  <2>3. Cardinality(Readers') = Cardinality(Readers) - 1
    BY <2>2, ReadersFinite, FS_RemoveElement
  <2>4. QED
    BY <2>1, <2>3, <1>0 DEF BlocksAreOwed
<1>6. ASSUME NEW f \in Frontends, NEW kind \in Kinds, ReceiveMessage(f, kind) PROVE BlocksAreOwed'
  <2>1. UNCHANGED blocks /\ received' = Append(received, kind)
    BY <1>6 DEF ReceiveMessage
  <2>2. Len(received') = Len(received) + 1
    BY <2>1 DEF TypeOK
  <2>3. f \notin Readers /\ Readers' = Readers \cup {f}
    BY <1>6 DEF ReceiveMessage, Reads, Readers, TypeOK
  <2>4. Cardinality(Readers') = Cardinality(Readers) + 1
    BY <2>3, ReadersFinite, FS_AddElement
  <2>5. QED
    BY <2>1, <2>2, <2>4, <1>0 DEF BlocksAreOwed
<1>7. CASE UNCHANGED vars
  BY <1>7 DEF vars, BlocksAreOwed, Readers, hist
<1>8. QED
  BY <1>1, <1>2, <1>3, <1>4, <1>5, <1>6, <1>7 DEF Next, MainStep

(* Whoever pumps, the messages dispatched, being dispatched and waiting are the *)
(* numbers of the messages received, in order.                                  *)
LEMMA NumbersStep ==
  ASSUME TypeOK, NumbersInOrder, [Next]_vars
  PROVE  NumbersInOrder'
<1>1. CASE \/ RunBreakBlock \/ WaitTimeout \/ ReplaceSession \/ AttachRequest
           \/ FrontendConnects
  BY <1>1 DEF RunBreakBlock, WaitTimeout, ReplaceSession, AttachRequest,
     FrontendConnects, NumbersInOrder, Taken, TypeOK, clientVars, mainVars, hist
<1>2. CASE WaitLoop
  BY <1>2 DEF WaitLoop, NumbersInOrder, Taken, TypeOK, M, clientVars, mainVars, hist
<1>3. CASE WaitLoopEnds
  BY <1>3 DEF WaitLoopEnds, NumbersInOrder, Taken, TypeOK, M, clientVars, mainVars, hist
<1>4. CASE StartupDone
  BY <1>4 DEF StartupDone, NumbersInOrder, Taken, TypeOK, M, clientVars, hist
<1>5. CASE PumpMessage
  <2>1. /\ main # "dispatch" /\ main' = "dispatch" /\ messages_ # <<>>
        /\ current' = Head(messages_) /\ messages_' = Tail(messages_)
        /\ UNCHANGED <<handled, received>>
    BY <1>5 DEF PumpMessage, hist
  <2>2. /\ Len(messages_) > 0 /\ Len(messages_') = Len(messages_) - 1
        /\ \A i \in 1..Len(messages_') : messages_'[i] = messages_[i + 1]
        /\ current' = messages_[1]
    BY <2>1 DEF TypeOK
  <2>3. Taken' = Taken + 1 /\ Taken = Len(handled) /\ Taken \in Nat
    BY <2>1 DEF Taken, TypeOK
  <2>4. QED
    BY <2>1, <2>2, <2>3 DEF NumbersInOrder, TypeOK
<1>6. CASE PumpBlockEnds
  BY <1>6 DEF PumpBlockEnds, NumbersInOrder, Taken, TypeOK, M, clientVars, hist
<1>7. CASE DispatchMessage
  <2>1. /\ main = "dispatch" /\ main' # "dispatch"
        /\ handled' = Append(handled, current) /\ current' = 0
        /\ UNCHANGED <<messages_, received>>
    BY <1>7 DEF DispatchMessage, AfterDispatch
  <2>2. /\ Len(handled') = Len(handled) + 1
        /\ \A i \in 1..Len(handled) : handled'[i] = handled[i]
        /\ handled'[Len(handled) + 1] = current
    BY <2>1 DEF TypeOK
  <2>3. Taken' = Taken
    BY <2>1, <2>2 DEF Taken
  <2>4. QED
    BY <2>1, <2>2, <2>3 DEF NumbersInOrder, TypeOK
<1>8. CASE EvalReturns
  BY <1>8 DEF EvalReturns, NumbersInOrder, Taken, TypeOK, M, AfterDispatch, clientVars,
     mainVars, hist
<1>9. CASE AppReturns
  BY <1>9 DEF AppReturns, NumbersInOrder, Taken, TypeOK, M, clientVars, mainVars, hist
<1>10. CASE RunMessageLoopOnPause
  BY <1>10 DEF RunMessageLoopOnPause, NumbersInOrder, Taken, TypeOK, hist
<1>11. CASE QuitLoop
  BY <1>11 DEF QuitLoop, NumbersInOrder, Taken, TypeOK, M, clientVars, mainVars, hist
<1>12. CASE LeavePause
  BY <1>12 DEF LeavePause, NumbersInOrder, Taken, TypeOK, M, hist
<1>13. CASE RunPumpBlock
  BY <1>13 DEF RunPumpBlock, NumbersInOrder, Taken, TypeOK, ServesQueue, clientVars
<1>14. CASE WaitForDebugger
  BY <1>14 DEF WaitForDebugger, NumbersInOrder, Taken, TypeOK, M, clientVars, mainVars, hist
<1>15. CASE RunApp
  BY <1>15 DEF RunApp, NumbersInOrder, Taken, TypeOK, M, clientVars, mainVars, hist
<1>16. CASE InterruptRuns
  BY <1>16 DEF InterruptRuns, NumbersInOrder, Taken, TypeOK, clientVars, mainVars, hist
<1>17. CASE HitPause
  BY <1>17 DEF HitPause, NumbersInOrder, Taken, TypeOK, M, clientVars, mainVars, hist
<1>18. ASSUME NEW f \in Frontends, FrontendVanishes(f) PROVE NumbersInOrder'
  BY <1>18 DEF FrontendVanishes, NumbersInOrder, Taken, TypeOK, clientVars, mainVars, hist
<1>19. ASSUME NEW f \in Frontends, RequestInterrupt(f) PROVE NumbersInOrder'
  BY <1>19 DEF RequestInterrupt, NumbersInOrder, Taken, TypeOK, clientVars, mainVars, hist
<1>20. ASSUME NEW f \in Frontends, PostPumpBlock(f) PROVE NumbersInOrder'
  BY <1>20 DEF PostPumpBlock, NumbersInOrder, Taken, TypeOK, clientVars, mainVars, hist
<1>21. ASSUME NEW f \in Frontends, NEW kind \in Kinds, ReceiveMessage(f, kind) PROVE NumbersInOrder'
  <2>1. /\ received' = Append(received, kind)
        /\ messages_' = Append(messages_, Len(received) + 1)
        /\ UNCHANGED <<main, current, handled>>
    BY <1>21 DEF ReceiveMessage, mainVars
  <2>2. /\ Len(received') = Len(received) + 1 /\ Len(messages_') = Len(messages_) + 1
        /\ \A i \in 1..Len(messages_) : messages_'[i] = messages_[i]
        /\ messages_'[Len(messages_) + 1] = Len(received) + 1
    BY <2>1 DEF TypeOK
  <2>3. Taken' = Taken /\ Taken \in Nat /\ Len(messages_) \in Nat
    BY <2>1 DEF Taken, TypeOK
  <2>4. Taken' + Len(messages_') = Len(received')
    BY <2>2, <2>3 DEF NumbersInOrder
  <2>5. \A i \in 1..Len(messages_') : messages_'[i] = Taken' + i
    BY <2>2, <2>3 DEF NumbersInOrder
  <2>6. QED
    BY <2>1, <2>4, <2>5 DEF NumbersInOrder
<1>22. CASE UNCHANGED vars
  BY <1>22 DEF vars, NumbersInOrder, Taken, TypeOK, clientVars, mainVars, hist
<1>23. QED
  BY <1>1, <1>2, <1>3, <1>4, <1>5, <1>6, <1>7, <1>8, <1>9, <1>10, <1>11, <1>12, <1>13,
     <1>14, <1>15, <1>16, <1>17, <1>18, <1>19, <1>20, <1>21, <1>22 DEF Next, MainStep

(* As long as no block was refused, a message that waits has its reader, a block *)
(* or the block that is running.                                                 *)
LEMMA BlockStep ==
  ASSUME TypeOK, Control, BlockIsComing, [Next]_vars
  PROVE  BlockIsComing'
<1>1. CASE \/ WaitLoop \/ WaitLoopEnds \/ StartupDone \/ DispatchMessage \/ EvalReturns
           \/ AppReturns \/ QuitLoop \/ RunBreakBlock \/ WaitTimeout \/ ReplaceSession
           \/ AttachRequest \/ WaitForDebugger \/ RunApp \/ InterruptRuns \/ HitPause
           \/ FrontendConnects
  BY <1>1 DEF WaitLoop, WaitLoopEnds, StartupDone, DispatchMessage, EvalReturns,
     AppReturns, QuitLoop, RunBreakBlock, WaitTimeout, ReplaceSession, AttachRequest,
     WaitForDebugger, RunApp, InterruptRuns, HitPause, FrontendConnects, BlockIsComing,
     Readers, TypeOK, M, clientVars, mainVars, hist
<1>2. CASE PumpMessage
  BY <1>2 DEF PumpMessage, BlockIsComing, Readers, TypeOK, hist
<1>3. CASE PumpBlockEnds
  BY <1>3 DEF PumpBlockEnds, BlockIsComing, Readers, TypeOK, M, clientVars, hist
<1>4. CASE RunMessageLoopOnPause
  BY <1>4 DEF RunMessageLoopOnPause, BlockIsComing, Readers, TypeOK, hist
<1>5. CASE LeavePause
  BY <1>5 DEF LeavePause, BlockIsComing, Readers, TypeOK, M, hist
<1>6. CASE RunPumpBlock
  <2>1. UNCHANGED <<messages_, reading>>
    BY <1>6 DEF RunPumpBlock, clientVars
  <2>2. owner' \/ refused'
    <3>1. CASE runningNestedLoops_ /\ ~terminated_
      BY <1>6, <3>1 DEF RunPumpBlock, Control
    <3>2. CASE ~(runningNestedLoops_ /\ ~terminated_)
      BY <1>6, <3>2 DEF RunPumpBlock
    <3>3. QED
      BY <3>1, <3>2
  <2>3. QED
    BY <2>1, <2>2 DEF BlockIsComing, Readers
<1>7. ASSUME NEW f \in Frontends, FrontendVanishes(f) PROVE BlockIsComing'
  BY <1>7 DEF FrontendVanishes, BlockIsComing, Readers, TypeOK, clientVars, mainVars, hist
<1>8. ASSUME NEW f \in Frontends, RequestInterrupt(f) PROVE BlockIsComing'
  BY <1>8 DEF RequestInterrupt, BlockIsComing, Readers, TypeOK, Reads, clientVars,
     mainVars, hist
<1>9. ASSUME NEW f \in Frontends, PostPumpBlock(f) PROVE BlockIsComing'
  BY <1>9 DEF PostPumpBlock, BlockIsComing, Readers, TypeOK, Reads, clientVars, mainVars,
     hist
<1>10. ASSUME NEW f \in Frontends, NEW kind \in Kinds, ReceiveMessage(f, kind) PROVE BlockIsComing'
  BY <1>10 DEF ReceiveMessage, BlockIsComing, Readers, TypeOK, Reads, mainVars
<1>11. CASE UNCHANGED vars
  BY <1>11 DEF vars, BlockIsComing, Readers, TypeOK, clientVars, mainVars, hist
<1>12. QED
  BY <1>1, <1>2, <1>3, <1>4, <1>5, <1>6, <1>7, <1>8, <1>9, <1>10, <1>11 DEF Next, MainStep

(* The parts of TypeOK that different steps can disturb. *)
FlagsTyped ==
  /\ runningNestedLoops_ \in BOOLEAN /\ terminated_ \in BOOLEAN
  /\ isWaitingForDebugger_ \in BOOLEAN /\ listening \in BOOLEAN
  /\ waitBlock \in BOOLEAN /\ timeoutArmed \in BOOLEAN /\ breakBlock \in BOOLEAN
  /\ owner \in BOOLEAN /\ paused \in BOOLEAN /\ starting \in BOOLEAN
  /\ interrupt \in BOOLEAN /\ refused \in BOOLEAN

StepsTyped == main \in MainSteps /\ base \in {"idle", "app"}

ServerTyped ==
  /\ accepting \in {"idle", "session"}
  /\ clients \subseteq Frontends /\ connects \in 0..MaxConnects

ReadingTyped == reading \in [Frontends -> {"idle", "interrupt", "post"}]

MessagesTyped ==
  /\ messages_ \in Seq(1..MaxMessages) /\ current \in 0..MaxMessages
  /\ received \in Seq(AllKinds) /\ handled \in Seq(1..MaxMessages)

(* TypeOK is the conjunction of its parts. *)
LEMMA TypeParts ==
  TypeOK <=> /\ FlagsTyped /\ StepsTyped /\ ServerTyped /\ ReadingTyped /\ MessagesTyped
             /\ blocks \in 0..MaxMessages
BY DEF TypeOK, FlagsTyped, StepsTyped, ServerTyped, ReadingTyped, MessagesTyped

(* The flags stay Booleans. *)
LEMMA FlagsStep ==
  ASSUME FlagsTyped, [Next]_vars
  PROVE  FlagsTyped'
<1>1. CASE \/ WaitLoopEnds \/ PumpMessage \/ EvalReturns \/ AppReturns \/ QuitLoop
           \/ ReplaceSession \/ RunApp \/ HitPause
  BY <1>1 DEF WaitLoopEnds, PumpMessage, EvalReturns, AppReturns, QuitLoop,
     ReplaceSession, RunApp, HitPause, FlagsTyped, M, clientVars, serverVars, queueVars,
     mainVars, hist
<1>2. CASE WaitLoop
  BY <1>2 DEF WaitLoop, FlagsTyped, M, clientVars, serverVars, mainVars, hist
<1>3. CASE StartupDone
  BY <1>3 DEF StartupDone, FlagsTyped, M, clientVars, serverVars, queueVars, hist
<1>4. CASE PumpBlockEnds
  BY <1>4 DEF PumpBlockEnds, FlagsTyped, M, clientVars, serverVars, queueVars, hist
<1>5. CASE DispatchMessage
  BY <1>5 DEF DispatchMessage, FlagsTyped, serverVars, queueVars
<1>6. CASE RunMessageLoopOnPause
  BY <1>6 DEF RunMessageLoopOnPause, FlagsTyped, serverVars, queueVars, hist
<1>7. CASE LeavePause
  BY <1>7 DEF LeavePause, FlagsTyped, M, serverVars, queueVars, hist
<1>8. CASE RunPumpBlock
  BY <1>8 DEF RunPumpBlock, FlagsTyped, clientVars, serverVars, queueVars
<1>9. CASE RunBreakBlock
  BY <1>9 DEF RunBreakBlock, FlagsTyped, clientVars, serverVars, mainVars, hist
<1>10. CASE WaitTimeout
  BY <1>10 DEF WaitTimeout, FlagsTyped, clientVars, serverVars, mainVars, hist
<1>11. CASE AttachRequest
  BY <1>11 DEF AttachRequest, FlagsTyped, clientVars, queueVars, mainVars, hist
<1>12. CASE WaitForDebugger
  BY <1>12 DEF WaitForDebugger, FlagsTyped, M, clientVars, serverVars, mainVars, hist
<1>13. CASE InterruptRuns
  BY <1>13 DEF InterruptRuns, FlagsTyped, clientVars, serverVars, queueVars, mainVars, hist
<1>14. CASE FrontendConnects
  BY <1>14 DEF FrontendConnects, FlagsTyped, clientVars, mainVars, hist
<1>15. ASSUME NEW f \in Frontends, FrontendVanishes(f) PROVE FlagsTyped'
  BY <1>15 DEF FrontendVanishes, FlagsTyped, clientVars, queueVars, mainVars, hist
<1>16. ASSUME NEW f \in Frontends, RequestInterrupt(f) PROVE FlagsTyped'
  BY <1>16 DEF RequestInterrupt, FlagsTyped, clientVars, serverVars, queueVars, mainVars,
     hist
<1>17. ASSUME NEW f \in Frontends, PostPumpBlock(f) PROVE FlagsTyped'
  BY <1>17 DEF PostPumpBlock, FlagsTyped, clientVars, serverVars, queueVars, mainVars, hist
<1>18. ASSUME NEW f \in Frontends, NEW kind \in Kinds, ReceiveMessage(f, kind) PROVE FlagsTyped'
  BY <1>18 DEF ReceiveMessage, FlagsTyped, serverVars, queueVars, mainVars
<1>19. CASE UNCHANGED vars
  BY <1>19 DEF vars, FlagsTyped, clientVars, serverVars, queueVars, mainVars, hist
<1>20. QED
  BY <1>1, <1>2, <1>3, <1>4, <1>5, <1>6, <1>7, <1>8, <1>9, <1>10, <1>11, <1>12, <1>13,
     <1>14, <1>15, <1>16, <1>17, <1>18, <1>19 DEF Next, MainStep

(* The main thread stands at one of its steps, and a block interrupts the run *)
(* loop or the application only: one that JavaScript of a paused message      *)
(* could run is refused.                                                      *)
LEMMA StepsStep ==
  ASSUME StepsTyped, Control, [Next]_vars
  PROVE  StepsTyped'
<1>1. CASE \/ RunBreakBlock \/ WaitTimeout \/ ReplaceSession \/ AttachRequest
           \/ FrontendConnects
  BY <1>1 DEF RunBreakBlock, WaitTimeout, ReplaceSession, AttachRequest,
     FrontendConnects, StepsTyped, MainSteps, mainVars
<1>2. CASE WaitLoop
  BY <1>2 DEF WaitLoop, StepsTyped, MainSteps, M, mainVars
<1>3. CASE WaitLoopEnds
  BY <1>3 DEF WaitLoopEnds, StepsTyped, MainSteps, M, mainVars
<1>4. CASE StartupDone
  BY <1>4 DEF StartupDone, StepsTyped, MainSteps, M
<1>5. CASE PumpMessage
  BY <1>5 DEF PumpMessage, StepsTyped, MainSteps
<1>6. CASE PumpBlockEnds
  BY <1>6 DEF PumpBlockEnds, StepsTyped, MainSteps, M
<1>7. CASE DispatchMessage
  BY <1>7 DEF DispatchMessage, StepsTyped, MainSteps, AfterDispatch
<1>8. CASE EvalReturns
  BY <1>8 DEF EvalReturns, StepsTyped, MainSteps, M, AfterDispatch, mainVars
<1>9. CASE AppReturns
  BY <1>9 DEF AppReturns, StepsTyped, MainSteps, M, mainVars
<1>10. CASE RunMessageLoopOnPause
  BY <1>10 DEF RunMessageLoopOnPause, StepsTyped, MainSteps
<1>11. CASE QuitLoop
  BY <1>11 DEF QuitLoop, StepsTyped, MainSteps, M, mainVars
<1>12. CASE LeavePause
  BY <1>12 DEF LeavePause, StepsTyped, MainSteps, M
<1>13. CASE RunPumpBlock
  <2>1. CASE runningNestedLoops_ /\ ~terminated_
    BY <1>13, <2>1 DEF RunPumpBlock, StepsTyped
  <2>2. CASE ~(runningNestedLoops_ /\ ~terminated_)
    <3>1. main \in {"idle", "app"}
      BY <1>13, <2>2 DEF RunPumpBlock, ServesQueue, Control
    <3>2. main' = "pump" /\ base' = main
      BY <1>13, <2>2 DEF RunPumpBlock
    <3>3. QED
      BY <3>1, <3>2 DEF StepsTyped, MainSteps
  <2>3. QED
    BY <2>1, <2>2
<1>14. CASE WaitForDebugger
  BY <1>14 DEF WaitForDebugger, StepsTyped, MainSteps, M, mainVars
<1>15. CASE RunApp
  BY <1>15 DEF RunApp, StepsTyped, MainSteps, M, mainVars
<1>16. CASE InterruptRuns
  BY <1>16 DEF InterruptRuns, StepsTyped, MainSteps, mainVars
<1>17. CASE HitPause
  BY <1>17 DEF HitPause, StepsTyped, MainSteps, M, mainVars
<1>18. ASSUME NEW f \in Frontends, FrontendVanishes(f) PROVE StepsTyped'
  BY <1>18 DEF FrontendVanishes, StepsTyped, MainSteps, mainVars
<1>19. ASSUME NEW f \in Frontends, RequestInterrupt(f) PROVE StepsTyped'
  BY <1>19 DEF RequestInterrupt, StepsTyped, MainSteps, mainVars
<1>20. ASSUME NEW f \in Frontends, PostPumpBlock(f) PROVE StepsTyped'
  BY <1>20 DEF PostPumpBlock, StepsTyped, MainSteps, mainVars
<1>21. ASSUME NEW f \in Frontends, NEW kind \in Kinds, ReceiveMessage(f, kind) PROVE StepsTyped'
  BY <1>21 DEF ReceiveMessage, StepsTyped, MainSteps, mainVars
<1>22. CASE UNCHANGED vars
  BY <1>22 DEF vars, StepsTyped, MainSteps, mainVars
<1>23. QED
  BY <1>1, <1>2, <1>3, <1>4, <1>5, <1>6, <1>7, <1>8, <1>9, <1>10, <1>11, <1>12, <1>13,
     <1>14, <1>15, <1>16, <1>17, <1>18, <1>19, <1>20, <1>21, <1>22 DEF Next, MainStep

(* A frontend that is read has connected. *)
LEMMA ServerStep ==
  ASSUME ServerTyped, SessionHasFrontend, [Next]_vars
  PROVE  ServerTyped' /\ SessionHasFrontend'
<1>1. CASE \/ WaitLoop \/ WaitLoopEnds \/ StartupDone \/ PumpMessage \/ PumpBlockEnds
           \/ DispatchMessage \/ EvalReturns \/ AppReturns \/ RunMessageLoopOnPause
           \/ QuitLoop \/ LeavePause \/ RunPumpBlock \/ RunBreakBlock \/ WaitTimeout
           \/ AttachRequest \/ WaitForDebugger \/ RunApp \/ InterruptRuns \/ HitPause
  BY <1>1 DEF WaitLoop, WaitLoopEnds, StartupDone, PumpMessage, PumpBlockEnds,
     DispatchMessage, EvalReturns, AppReturns, RunMessageLoopOnPause, QuitLoop,
     LeavePause, RunPumpBlock, RunBreakBlock, WaitTimeout, AttachRequest,
     WaitForDebugger, RunApp, InterruptRuns, HitPause, ServerTyped, SessionHasFrontend,
     serverVars
<1>2. CASE ReplaceSession
  <2>1. connects \in Frontends
    BY <1>2 DEF ReplaceSession, ServerTyped, SessionHasFrontend, Frontends
  <2>2. QED
    BY <1>2, <2>1 DEF ReplaceSession, ServerTyped, SessionHasFrontend
<1>3. CASE FrontendConnects
  <2>1. connects + 1 \in 0..MaxConnects /\ connects + 1 > 0
    BY <1>3, InspectorAssumption DEF FrontendConnects, ServerTyped
  <2>2. QED
    BY <1>3, <2>1 DEF FrontendConnects, ServerTyped, SessionHasFrontend
<1>4. ASSUME NEW f \in Frontends, FrontendVanishes(f) PROVE ServerTyped' /\ SessionHasFrontend'
  BY <1>4 DEF FrontendVanishes, ServerTyped, SessionHasFrontend
<1>5. ASSUME NEW f \in Frontends, RequestInterrupt(f) PROVE ServerTyped' /\ SessionHasFrontend'
  BY <1>5 DEF RequestInterrupt, ServerTyped, SessionHasFrontend, serverVars
<1>6. ASSUME NEW f \in Frontends, PostPumpBlock(f) PROVE ServerTyped' /\ SessionHasFrontend'
  BY <1>6 DEF PostPumpBlock, ServerTyped, SessionHasFrontend, serverVars
<1>7. ASSUME NEW f \in Frontends, NEW kind \in Kinds, ReceiveMessage(f, kind) PROVE ServerTyped' /\ SessionHasFrontend'
  BY <1>7 DEF ReceiveMessage, ServerTyped, SessionHasFrontend, serverVars
<1>8. CASE UNCHANGED vars
  BY <1>8 DEF vars, ServerTyped, SessionHasFrontend, serverVars
<1>9. QED
  BY <1>1, <1>2, <1>3, <1>4, <1>5, <1>6, <1>7, <1>8 DEF Next, MainStep

(* The readers stand at one of their steps. *)
LEMMA ReadingStep ==
  ASSUME ReadingTyped, [Next]_vars
  PROVE  ReadingTyped'
<1>1. CASE \/ WaitLoop \/ WaitLoopEnds \/ StartupDone \/ PumpMessage \/ PumpBlockEnds
           \/ DispatchMessage \/ EvalReturns \/ AppReturns \/ RunMessageLoopOnPause
           \/ QuitLoop \/ LeavePause \/ RunPumpBlock \/ RunBreakBlock \/ WaitTimeout
           \/ ReplaceSession \/ AttachRequest \/ WaitForDebugger \/ RunApp
           \/ InterruptRuns \/ HitPause \/ FrontendConnects
  BY <1>1 DEF WaitLoop, WaitLoopEnds, StartupDone, PumpMessage, PumpBlockEnds,
     DispatchMessage, EvalReturns, AppReturns, RunMessageLoopOnPause, QuitLoop,
     LeavePause, RunPumpBlock, RunBreakBlock, WaitTimeout, ReplaceSession, AttachRequest,
     WaitForDebugger, RunApp, InterruptRuns, HitPause, FrontendConnects, ReadingTyped
<1>2. ASSUME NEW f \in Frontends, FrontendVanishes(f) PROVE ReadingTyped'
  BY <1>2 DEF FrontendVanishes, ReadingTyped
<1>3. ASSUME NEW f \in Frontends, RequestInterrupt(f) PROVE ReadingTyped'
  BY <1>3 DEF RequestInterrupt, ReadingTyped, Reads
<1>4. ASSUME NEW f \in Frontends, PostPumpBlock(f) PROVE ReadingTyped'
  BY <1>4 DEF PostPumpBlock, ReadingTyped, Reads
<1>5. ASSUME NEW f \in Frontends, NEW kind \in Kinds, ReceiveMessage(f, kind) PROVE ReadingTyped'
  BY <1>5 DEF ReceiveMessage, ReadingTyped, Reads
<1>6. CASE UNCHANGED vars
  BY <1>6 DEF vars, ReadingTyped
<1>7. QED
  BY <1>1, <1>2, <1>3, <1>4, <1>5, <1>6 DEF Next, MainStep

(* The numbers of messages stay within the bound, which NumbersInOrder gives *)
(* for the message being dispatched.                                         *)
LEMMA MessagesStep ==
  ASSUME MessagesTyped, NumbersInOrder, Bounds, [Next]_vars
  PROVE  MessagesTyped' /\ Bounds'
<1>1. CASE \/ WaitLoop \/ WaitLoopEnds \/ StartupDone \/ PumpBlockEnds \/ EvalReturns
           \/ AppReturns \/ RunMessageLoopOnPause \/ QuitLoop \/ LeavePause
           \/ RunPumpBlock \/ RunBreakBlock \/ WaitTimeout \/ ReplaceSession
           \/ AttachRequest \/ WaitForDebugger \/ RunApp \/ InterruptRuns \/ HitPause
           \/ FrontendConnects
  BY <1>1 DEF WaitLoop, WaitLoopEnds, StartupDone, PumpBlockEnds, EvalReturns,
     AppReturns, RunMessageLoopOnPause, QuitLoop, LeavePause, RunPumpBlock,
     RunBreakBlock, WaitTimeout, ReplaceSession, AttachRequest, WaitForDebugger, RunApp,
     InterruptRuns, HitPause, FrontendConnects, MessagesTyped, Bounds, clientVars,
     mainVars, hist
<1>2. CASE PumpMessage
  <2>1. messages_ \in Seq(1..MaxMessages) /\ messages_ # <<>>
    BY <1>2 DEF PumpMessage, MessagesTyped
  <2>2. Head(messages_) \in 1..MaxMessages /\ Tail(messages_) \in Seq(1..MaxMessages)
    BY <2>1, HeadTailProperties
  <2>3. Head(messages_) \in 0..MaxMessages
    BY <2>2, InspectorAssumption
  <2>4. QED
    BY <1>2, <2>2, <2>3 DEF PumpMessage, MessagesTyped, Bounds, hist
<1>3. CASE DispatchMessage
  <2>1. current = Len(handled) + 1 /\ Len(handled) + 1 + Len(messages_) = Len(received)
    BY <1>3 DEF DispatchMessage, NumbersInOrder, Taken
  <2>2. current \in 1..MaxMessages
    BY <2>1, InspectorAssumption DEF Bounds, MessagesTyped
  <2>3. Append(handled, current) \in Seq(1..MaxMessages) /\ 0 \in 0..MaxMessages
    BY <2>2, InspectorAssumption DEF MessagesTyped
  <2>4. QED
    BY <1>3, <2>3 DEF DispatchMessage, MessagesTyped, Bounds
<1>4. ASSUME NEW f \in Frontends, FrontendVanishes(f) PROVE MessagesTyped' /\ Bounds'
  BY <1>4 DEF FrontendVanishes, MessagesTyped, Bounds, clientVars, mainVars, hist
<1>5. ASSUME NEW f \in Frontends, RequestInterrupt(f) PROVE MessagesTyped' /\ Bounds'
  BY <1>5 DEF RequestInterrupt, MessagesTyped, Bounds, clientVars, mainVars, hist
<1>6. ASSUME NEW f \in Frontends, PostPumpBlock(f) PROVE MessagesTyped' /\ Bounds'
  BY <1>6 DEF PostPumpBlock, MessagesTyped, Bounds, clientVars, mainVars, hist
<1>7. ASSUME NEW f \in Frontends, NEW kind \in Kinds, ReceiveMessage(f, kind) PROVE MessagesTyped' /\ Bounds'
  <2>1. Len(received) \in Nat /\ Len(received) < MaxMessages
    BY <1>7 DEF ReceiveMessage, MessagesTyped
  <2>2. Len(received) + 1 \in 1..MaxMessages
    BY <2>1, InspectorAssumption
  <2>3. Append(messages_, Len(received) + 1) \in Seq(1..MaxMessages)
    BY <2>2 DEF MessagesTyped
  <2>4. /\ Append(received, kind) \in Seq(AllKinds)
        /\ Len(Append(received, kind)) = Len(received) + 1
    BY InspectorAssumption DEF MessagesTyped
  <2>5. QED
    BY <1>7, <2>2, <2>3, <2>4 DEF ReceiveMessage, MessagesTyped, Bounds, mainVars
<1>8. CASE UNCHANGED vars
  BY <1>8 DEF vars, MessagesTyped, Bounds, clientVars, mainVars, hist
<1>9. QED
  BY <1>1, <1>2, <1>3, <1>4, <1>5, <1>6, <1>7, <1>8 DEF Next, MainStep

(* The number of blocks stays a number: only a block that exists runs. *)
LEMMA BlocksNat ==
  ASSUME blocks \in 0..MaxMessages, [Next]_vars
  PROVE  blocks' \in Nat
<1> USE InspectorAssumption
<1>1. CASE \/ WaitLoop \/ WaitLoopEnds \/ StartupDone \/ PumpMessage \/ PumpBlockEnds
           \/ DispatchMessage \/ EvalReturns \/ AppReturns \/ RunMessageLoopOnPause
           \/ QuitLoop \/ LeavePause \/ RunBreakBlock \/ WaitTimeout \/ ReplaceSession
           \/ AttachRequest \/ WaitForDebugger \/ RunApp \/ InterruptRuns \/ HitPause
           \/ FrontendConnects
  BY <1>1 DEF WaitLoop, WaitLoopEnds, StartupDone, PumpMessage, PumpBlockEnds,
     DispatchMessage, EvalReturns, AppReturns, RunMessageLoopOnPause, QuitLoop,
     LeavePause, RunBreakBlock, WaitTimeout, ReplaceSession, AttachRequest,
     WaitForDebugger, RunApp, InterruptRuns, HitPause, FrontendConnects
<1>2. CASE RunPumpBlock
  BY <1>2 DEF RunPumpBlock
<1>3. ASSUME NEW f \in Frontends, FrontendVanishes(f) PROVE blocks' \in Nat
  BY <1>3 DEF FrontendVanishes
<1>4. ASSUME NEW f \in Frontends, RequestInterrupt(f) PROVE blocks' \in Nat
  BY <1>4 DEF RequestInterrupt
<1>5. ASSUME NEW f \in Frontends, PostPumpBlock(f) PROVE blocks' \in Nat
  BY <1>5 DEF PostPumpBlock
<1>6. ASSUME NEW f \in Frontends, NEW kind \in Kinds, ReceiveMessage(f, kind) PROVE blocks' \in Nat
  BY <1>6 DEF ReceiveMessage
<1>7. CASE UNCHANGED vars
  BY <1>7 DEF vars
<1>8. QED
  BY <1>1, <1>2, <1>3, <1>4, <1>5, <1>6, <1>7 DEF Next, MainStep

(* Every step preserves the invariant. *)
LEMMA NextIInv == IInv /\ [Next]_vars => IInv'
<1> SUFFICES ASSUME IInv, [Next]_vars PROVE IInv'
  OBVIOUS
<1>0. /\ FlagsTyped /\ StepsTyped /\ ServerTyped /\ ReadingTyped /\ MessagesTyped
      /\ blocks \in 0..MaxMessages
  BY TypeParts DEF IInv
<1>1. Control'
  BY ControlStep DEF IInv
<1>2. BlocksAreOwed'
  BY BlocksStep DEF IInv
<1>3. NumbersInOrder'
  BY NumbersStep DEF IInv
<1>4. BlockIsComing'
  BY BlockStep DEF IInv
<1>5. FlagsTyped' /\ StepsTyped' /\ ReadingTyped'
  BY <1>0, FlagsStep, StepsStep, ReadingStep DEF IInv
<1>6. ServerTyped' /\ SessionHasFrontend'
  BY <1>0, ServerStep DEF IInv
<1>7. MessagesTyped' /\ Bounds'
  BY <1>0, MessagesStep DEF IInv
<1>8. blocks' \in 0..MaxMessages
  <2>1. blocks' \in Nat
    BY <1>0, BlocksNat
  <2>2. Cardinality(Readers)' \in Nat
    <3>1. IsFiniteSet(Frontends)
      BY FS_Interval, InspectorAssumption DEF Frontends
    <3>2. IsFiniteSet(Readers')
      BY <3>1, FS_Subset DEF Readers
    <3>3. QED
      BY <3>2, FS_CardinalityType
  <2>3. Len(received') \in Nat
    BY <1>7 DEF MessagesTyped
  <2>4. QED
    BY <1>2, <1>7, <2>1, <2>2, <2>3, InspectorAssumption DEF BlocksAreOwed, Bounds
<1>9. TypeOK'
  BY <1>5, <1>6, <1>7, <1>8 DEF TypeOK, FlagsTyped, StepsTyped, ServerTyped, ReadingTyped,
     MessagesTyped
<1>10. QED
  BY <1>1, <1>2, <1>3, <1>4, <1>6, <1>7, <1>9 DEF IInv

(* The invariant holds in every reachable state. *)
THEOREM Invariant == Spec => []IInv
BY InitIInv, NextIInv, PTL DEF Spec

(* The variables of the message pump stay within their types, whatever the *)
(* server's queues and the main thread do: in particular never more blocks *)
(* than messages are queued for the main thread.                           *)
THEOREM Typing == Spec => []TypeOK
<1>1. IInv => TypeOK
  BY DEF IInv
<1>2. QED
  BY <1>1, Invariant, PTL

(* The messages are dispatched once each and in the order they arrived,     *)
(* although pump blocks and the nested loop of a pause take turns.          *)
THEOREM DispatchOrder == Spec => []HandledInOrder
<1>1. IInv => HandledInOrder
  <2> SUFFICES ASSUME IInv PROVE HandledInOrder
    OBVIOUS
  <2>1. Taken \in Nat /\ Taken >= Len(handled) /\ Len(handled) \in Nat
    BY DEF IInv, TypeOK, Taken
  <2>2. \A i \in 1..Len(messages_) : messages_[i] > Len(handled)
    BY <2>1 DEF IInv, NumbersInOrder, TypeOK
  <2>3. QED
    BY <2>2 DEF IInv, NumbersInOrder, HandledInOrder
<1>2. QED
  BY <1>1, Invariant, PTL

(* A message is left without anybody to pump it only after a pump block was *)
(* refused while the nested loop of a pause ran.                            *)
THEOREM NobodyForgotten == Spec => []LeftOnlyAfterRefusal
<1>1. IInv => LeftOnlyAfterRefusal
  BY DEF IInv, BlockIsComing, LeftOnlyAfterRefusal, PumpIsComing, Readers
<1>2. QED
  BY <1>1, Invariant, PTL

\* A message that runs JavaScript was dispatched.
Evaluated == \E i \in 1..Len(handled) : received[handled[i]] = "evaluate"

(* JavaScript that runs inside a pump block, or that is stuck entering a pause, *)
(* was started by such a message.                                               *)
BlockRunsEvaluation ==
  /\ main = "eval" => Evaluated
  /\ main = "enterPause" /\ owner => Evaluated
  /\ main = "stuck" => owner /\ Evaluated

(* What was evaluated stays evaluated: the history of messages only grows. *)
LEMMA EvaluatedStays ==
  ASSUME IInv, Next, Evaluated
  PROVE  Evaluated'
<1>1. PICK i \in 1..Len(handled) : received[handled[i]] = "evaluate"
  BY DEF Evaluated
<1>2. handled \in Seq(1..MaxMessages) /\ received \in Seq(AllKinds)
  BY DEF IInv, TypeOK
<1>3. handled[i] \in 1..Len(received)
  <2>1. Len(handled) <= Len(received)
    BY <1>2 DEF IInv, NumbersInOrder, Taken, TypeOK
  <2>2. handled[i] = i
    BY DEF IInv, NumbersInOrder
  <2>3. QED
    BY <1>2, <2>1, <2>2
<1>4. \/ received' = received
      \/ \E kind \in Kinds : received' = Append(received, kind)
  BY DEF Next, MainStep, RunPumpBlock, RunBreakBlock, WaitTimeout, ReplaceSession,
     AttachRequest, WaitForDebugger, RunApp, InterruptRuns, HitPause, FrontendConnects,
     FrontendVanishes, RequestInterrupt, PostPumpBlock, ReceiveMessage, WaitLoop,
     WaitLoopEnds, StartupDone, PumpMessage, PumpBlockEnds, DispatchMessage, EvalReturns,
     AppReturns, RunMessageLoopOnPause, QuitLoop, LeavePause, hist
<1>5. \/ handled' = handled
      \/ main = "dispatch" /\ handled' = Append(handled, current)
  BY DEF Next, MainStep, RunPumpBlock, RunBreakBlock, WaitTimeout, ReplaceSession,
     AttachRequest, WaitForDebugger, RunApp, InterruptRuns, HitPause, FrontendConnects,
     FrontendVanishes, RequestInterrupt, PostPumpBlock, ReceiveMessage, WaitLoop,
     WaitLoopEnds, StartupDone, PumpMessage, PumpBlockEnds, DispatchMessage, EvalReturns,
     AppReturns, RunMessageLoopOnPause, QuitLoop, LeavePause, hist
<1>6. current \in Nat
  BY DEF IInv, TypeOK
<1>7. i \in 1..Len(handled') /\ handled'[i] = handled[i]
  BY <1>2, <1>5, <1>6
<1>8. received'[handled[i]] = received[handled[i]]
  BY <1>2, <1>3, <1>4
<1>9. QED
  BY <1>1, <1>7, <1>8 DEF Evaluated

(* The step of each action on it. *)
LEMMA EvaluationStep ==
  ASSUME IInv, BlockRunsEvaluation, [Next]_vars
  PROVE  BlockRunsEvaluation'
<1>1. CASE DispatchMessage
  <2> SUFFICES ASSUME main' = "eval" PROVE Evaluated'
    BY <1>1 DEF DispatchMessage, BlockRunsEvaluation, AfterDispatch
  <2>1. received[current] = "evaluate"
    BY <1>1 DEF DispatchMessage, AfterDispatch
  <2>2. received' = received /\ handled' = Append(handled, current)
    BY <1>1 DEF DispatchMessage
  <2>3. handled \in Seq(1..MaxMessages) /\ current \in Nat
    BY DEF IInv, TypeOK
  <2>4. Len(handled') = Len(handled) + 1 /\ handled'[Len(handled) + 1] = current
    BY <2>2, <2>3
  <2>5. QED
    BY <2>1, <2>2, <2>3, <2>4 DEF Evaluated
<1>2. CASE RunMessageLoopOnPause
  <2>1. Evaluated' <=> Evaluated
    BY <1>2 DEF RunMessageLoopOnPause, Evaluated, hist
  <2>2. QED
    BY <1>2, <2>1 DEF RunMessageLoopOnPause, BlockRunsEvaluation, LoopQueueFree
<1>3. CASE InterruptRuns \/ HitPause
  <2>1. Evaluated' <=> Evaluated
    BY <1>3 DEF InterruptRuns, HitPause, Evaluated, hist
  <2>2. QED
    BY <1>3, <2>1 DEF InterruptRuns, HitPause, M, IInv, Control, BlockRunsEvaluation,
       mainVars
<1>4. CASE \/ RunBreakBlock \/ WaitTimeout \/ ReplaceSession \/ AttachRequest
           \/ FrontendConnects
           \/ \E f \in Frontends :
                \/ FrontendVanishes(f) \/ RequestInterrupt(f) \/ PostPumpBlock(f)
                \/ \E kind \in Kinds : ReceiveMessage(f, kind)
  <2>1. main' = main /\ owner' = owner
    BY <1>4 DEF RunBreakBlock, WaitTimeout, ReplaceSession, AttachRequest,
       FrontendConnects, FrontendVanishes, RequestInterrupt, PostPumpBlock,
       ReceiveMessage, mainVars
  <2>2. Next
    BY <1>4 DEF Next
  <2>3. QED
    BY <2>1, <2>2, EvaluatedStays DEF BlockRunsEvaluation
<1>5. CASE \/ WaitLoop \/ WaitLoopEnds \/ StartupDone \/ PumpMessage \/ PumpBlockEnds
           \/ EvalReturns \/ AppReturns \/ QuitLoop \/ LeavePause \/ RunApp
           \/ WaitForDebugger
  <2>1. base \in {"idle", "app"}
    BY DEF IInv, TypeOK
  <2>2. main' \notin {"eval", "enterPause", "stuck"}
    BY <1>5, <2>1 DEF WaitLoop, WaitLoopEnds, StartupDone, PumpMessage, PumpBlockEnds,
       EvalReturns, AppReturns, QuitLoop, LeavePause, RunApp, WaitForDebugger, M,
       AfterDispatch
  <2>3. QED
    BY <2>2 DEF BlockRunsEvaluation
<1>6. CASE RunPumpBlock
  <2>1. Evaluated' <=> Evaluated
    BY <1>6 DEF RunPumpBlock, Evaluated
  <2>2. QED
    BY <1>6, <2>1 DEF RunPumpBlock, BlockRunsEvaluation
<1>7. CASE UNCHANGED vars
  BY <1>7 DEF vars, hist, mainVars, BlockRunsEvaluation, Evaluated
<1>8. QED
  BY <1>1, <1>2, <1>3, <1>4, <1>5, <1>6, <1>7 DEF Next, MainStep

(* The main thread is stuck in runMessageLoopOnPause's dispatch_sync only    *)
(* inside a pump block, and only after a message that runs JavaScript was    *)
(* dispatched: without such a message no pause ever blocks it.               *)
THEOREM StuckOnlyInEvaluation == Spec => [](main = "stuck" => owner /\ Evaluated)
<1>1. Init => BlockRunsEvaluation
  BY DEF Init, BlockRunsEvaluation
<1>2. IInv /\ BlockRunsEvaluation /\ [Next]_vars => BlockRunsEvaluation'
  BY EvaluationStep
<1>3. BlockRunsEvaluation => (main = "stuck" => owner /\ Evaluated)
  BY DEF BlockRunsEvaluation
<1>4. QED
  BY <1>1, <1>2, <1>3, Invariant, PTL DEF Spec

(* A pause of JavaScript that no pump block started gets the main thread into *)
(* the loop of runMessageLoopOnPause: it never finds runningNestedLoops_ set  *)
(* by an earlier pause, and never waits for messageLoopQueue_.                *)
THEOREM OtherPausesReachLoop ==
  Spec => [][main = "enterPause" /\ main' # main /\ ~owner => main' = "loop"]_vars
<1>1. IInv /\ [Next]_vars
        => [main = "enterPause" /\ main' # main /\ ~owner => main' = "loop"]_vars
  <2> SUFFICES ASSUME IInv, Next, main = "enterPause", main' # main, ~owner
               PROVE  main' = "loop"
    BY DEF vars
  <2>1. RunMessageLoopOnPause
    BY DEF Next, MainStep, RunPumpBlock, RunBreakBlock, WaitTimeout, ReplaceSession,
       AttachRequest, WaitForDebugger, RunApp, InterruptRuns, HitPause, FrontendConnects,
       FrontendVanishes, RequestInterrupt, PostPumpBlock, ReceiveMessage, WaitLoop,
       WaitLoopEnds, StartupDone, PumpMessage, PumpBlockEnds, DispatchMessage, EvalReturns,
       AppReturns, QuitLoop, LeavePause, M, ServesQueue
  <2>2. ~runningNestedLoops_
    BY DEF IInv, Control
  <2>3. QED
    BY <2>1, <2>2 DEF RunMessageLoopOnPause, LoopQueueFree
<1>2. QED
  BY <1>1, Invariant, PTL DEF Spec
=============================================================================
