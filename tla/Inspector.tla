------------------------------ MODULE Inspector ------------------------------
(***************************************************************************)
(* The debugger's message pump (inspector/JsV8InspectorClient.mm) and the  *)
(* socket it is fed from (inspector/InspectorServer.mm).                   *)
(*                                                                         *)
(* Two dispatch queues of the socket server (one accepting connections,    *)
(* one reading the current frontend) and the main thread.  The main thread *)
(* handles messages in a block that owns messageLoopQueue_, or, while V8   *)
(* is paused, in the nested loop of runMessageLoopOnPause.  JavaScript may *)
(* run the run loop itself; blocks of the main queue are served there,     *)
(* unless the JavaScript was started by such a block.  V8 is external:     *)
(* JavaScript may hit a breakpoint unless V8 is paused already, and a      *)
(* requested pause takes effect at the next statement.                     *)
(***************************************************************************)
EXTENDS Naturals, Sequences, SequencesExt

CONSTANTS MaxMessages,   \* bound: messages the frontends send
          MaxConnects,   \* bound: frontends that connect
          Kinds          \* which kinds of message they send

AllKinds == {"pause", "resume", "evaluate", "invalid"}

ASSUME InspectorAssumption ==
  MaxMessages \in Nat /\ MaxConnects \in Nat /\ Kinds \subseteq AllKinds

VARIABLES
  \* JsV8InspectorClient
  messages_,             \* numbers of the messages waiting
  runningNestedLoops_, terminated_, isWaitingForDebugger_,
  \* the server's queues
  listening,             \* InspectorServer::Init has run
  accepting,             \* "idle", or "session": inside onFrontendConnected
  reading,               \* per frontend: where onFrontendMessageReceived stands
  clients,               \* the frontends whose channel is read
  connects,
  \* blocks queued for the main thread
  blocks,                \* pump blocks of onFrontendMessageReceived
  waitBlock, timeoutArmed, breakBlock,
  \* the main thread
  main,                  \* where it stands
  current,               \* the message being dispatched
  owner,                 \* it is inside a block on messageLoopQueue_
  base,                  \* what that block interrupted: the run loop or the app
  paused,                \* it is inside runMessageLoopOnPause's loop
  starting,              \* it is still inside initializeWithConfig
  \* V8
  interrupt,             \* RequestInterrupt was called
  \* history
  received,              \* the kind of each message, in order of arrival
  handled,               \* the messages dispatched, in order
  refused                \* during a pause a pump block was refused

Frontends == 1..MaxConnects

clientVars == <<messages_, runningNestedLoops_, terminated_>>
serverVars == <<listening, accepting, clients, connects>>
queueVars == <<waitBlock, timeoutArmed, breakBlock>>
mainVars == <<current, owner, base, paused, starting>>
hist == <<received, handled, refused>>
vars == <<clientVars, isWaitingForDebugger_, serverVars, reading, queueVars,
          blocks, main, mainVars, interrupt, hist>>

MainSteps == {"idle", "waiting", "app", "pump", "dispatch", "eval", "enterPause",
              "loop", "leavePause", "stuck", "crashed"}

TypeOK ==
  /\ messages_ \in Seq(1..MaxMessages)
  /\ runningNestedLoops_ \in BOOLEAN /\ terminated_ \in BOOLEAN
  /\ isWaitingForDebugger_ \in BOOLEAN
  /\ listening \in BOOLEAN /\ accepting \in {"idle", "session"}
  /\ reading \in [Frontends -> {"idle", "interrupt", "post"}]
  /\ clients \subseteq Frontends /\ connects \in 0..MaxConnects
  /\ blocks \in 0..MaxMessages
  /\ waitBlock \in BOOLEAN /\ timeoutArmed \in BOOLEAN /\ breakBlock \in BOOLEAN
  /\ main \in MainSteps
  /\ current \in 0..MaxMessages
  /\ owner \in BOOLEAN /\ base \in {"idle", "app"}
  /\ paused \in BOOLEAN /\ starting \in BOOLEAN
  /\ interrupt \in BOOLEAN
  /\ received \in Seq(AllKinds)
  /\ handled \in Seq(1..MaxMessages)
  /\ refused \in BOOLEAN

\* terminated_ and isWaitingForDebugger_ are not initialised by the constructor.
Init ==
  /\ messages_ = <<>> /\ runningNestedLoops_ = FALSE
  /\ terminated_ \in BOOLEAN /\ isWaitingForDebugger_ \in BOOLEAN
  /\ listening = FALSE /\ accepting = "idle" /\ reading = [f \in Frontends |-> "idle"]
  /\ clients = {} /\ connects = 0
  /\ blocks = 0 /\ waitBlock = FALSE /\ timeoutArmed = FALSE /\ breakBlock = FALSE
  /\ main = "idle" /\ current = 0 /\ owner = FALSE /\ base = "idle" /\ paused = FALSE
  /\ starting = TRUE
  /\ interrupt = FALSE
  /\ received = <<>> /\ handled = <<>> /\ refused = FALSE

-----------------------------------------------------------------------------
\* A C++ exception nobody catches ends the process.
Alive == main # "crashed"

M(from, to) == main = from /\ main' = to

\* The main thread holds the isolate's v8::Locker.
LockedByMain == starting \/ paused
                \/ main \in {"app", "dispatch", "eval", "enterPause", "leavePause", "stuck"}

\* messageLoopQueue_ is free for a dispatch_sync from the main thread.
LoopQueueFree == ~owner

-----------------------------------------------------------------------------
(* Start-up: enableInspector *)

\* The AttachRequest notification opens the server's socket.
AttachRequest ==
  /\ main \in {"idle", "waiting"} /\ UNCHANGED main
  /\ ~listening
  /\ listening' = TRUE
  /\ UNCHANGED <<clientVars, isWaitingForDebugger_, accepting, clients, connects,
                 reading, queueVars, blocks, mainVars, interrupt, hist>>

\* The WaitForDebugger notification, cancelled when enableInspector returns.
WaitForDebugger ==
  /\ M("idle", "idle") /\ starting
  /\ ~timeoutArmed
  /\ isWaitingForDebugger_' = TRUE
  /\ timeoutArmed' = TRUE
  /\ waitBlock' = TRUE
  /\ UNCHANGED <<clientVars, serverVars, reading, breakBlock, blocks, mainVars,
                 interrupt, hist>>

\* The performed block keeps running the run loop while isWaitingForDebugger_.
WaitLoop ==
  /\ M("idle", "waiting")
  /\ waitBlock
  /\ waitBlock' = FALSE
  /\ UNCHANGED <<clientVars, isWaitingForDebugger_, serverVars, reading,
                 timeoutArmed, breakBlock, blocks, mainVars, interrupt, hist>>

WaitLoopEnds ==
  /\ M("waiting", "idle")
  /\ ~isWaitingForDebugger_
  /\ UNCHANGED <<clientVars, isWaitingForDebugger_, serverVars, reading, queueVars,
                 blocks, mainVars, interrupt, hist>>

\* Mutant: the timeout does not clear the flag.
WaitTimeout_NoClear ==
  /\ main \in {"idle", "waiting"} /\ UNCHANGED main
  /\ timeoutArmed
  /\ timeoutArmed' = FALSE
  /\ UNCHANGED <<clientVars, isWaitingForDebugger_, serverVars, reading, waitBlock,
                 breakBlock, blocks, mainVars, interrupt, hist>>

\* The 30 s timeout, on the main queue, which the waiting loop also serves.
WaitTimeout ==
  /\ main \in {"idle", "waiting"} /\ UNCHANGED main
  /\ timeoutArmed
  /\ timeoutArmed' = FALSE
  /\ isWaitingForDebugger_' = FALSE
  /\ UNCHANGED <<clientVars, serverVars, reading, waitBlock, breakBlock, blocks,
                 mainVars, interrupt, hist>>

\* Mutant: the Locker of initializeWithConfig is never released.
StartupDone_KeepsLock ==
  /\ M("idle", "idle") /\ starting
  /\ ~waitBlock
  /\ UNCHANGED <<clientVars, isWaitingForDebugger_, serverVars, reading, queueVars,
                 blocks, mainVars, interrupt, hist>>

\* enableInspector's half second is over and initializeWithConfig returns.  A
\* block performed during the half second runs before the run loop returns.
StartupDone ==
  /\ M("idle", "idle") /\ starting
  /\ ~waitBlock
  /\ starting' = FALSE
  /\ UNCHANGED <<clientVars, isWaitingForDebugger_, serverVars, reading, queueVars,
                 blocks, current, owner, base, paused, interrupt, hist>>

-----------------------------------------------------------------------------
(* The server's accepting queue: onFrontendConnected *)

FrontendConnects ==
  /\ Alive /\ listening /\ accepting = "idle"
  /\ connects < MaxConnects
  /\ connects' = connects + 1
  /\ accepting' = "session"
  /\ isWaitingForDebugger_' = FALSE
  /\ breakBlock' = (breakBlock \/ isWaitingForDebugger_)
  /\ UNCHANGED <<clientVars, listening, clients, reading, waitBlock, timeoutArmed,
                 blocks, main, mainVars, interrupt, hist>>

\* disconnect(): under the Locker the session is replaced; then the server starts
\* to read from the new frontend.
ReplaceSession ==
  /\ Alive /\ accepting = "session"
  /\ ~LockedByMain
  /\ accepting' = "idle"
  /\ clients' = clients \cup {connects}
  /\ UNCHANGED <<clientVars, isWaitingForDebugger_, listening, connects, reading,
                 queueVars, blocks, main, mainVars, interrupt, hist>>

\* The frontend goes away: the channel is closed and nobody is told.
FrontendVanishes(f) ==
  /\ Alive /\ f \in clients /\ reading[f] = "idle"
  /\ clients' = clients \ {f}
  /\ UNCHANGED <<clientVars, isWaitingForDebugger_, listening, accepting, connects,
                 reading, queueVars, blocks, main, mainVars, interrupt, hist>>

-----------------------------------------------------------------------------
(* The server's reading queue: onFrontendMessageReceived *)

\* The channels' handlers run on a concurrent queue: one per frontend.
Reads(f, from, to) ==
  /\ Alive /\ reading[f] = from
  /\ reading' = [reading EXCEPT ![f] = to]

\* The message is queued under messagesQueue_.
ReceiveMessage(f, kind) ==
  /\ Reads(f, "idle", IF kind = "pause" THEN "interrupt" ELSE "post")
  /\ f \in clients
  /\ Len(received) < MaxMessages
  /\ received' = Append(received, kind)
  /\ messages_' = Append(messages_, Len(received) + 1)
  /\ UNCHANGED <<runningNestedLoops_, terminated_, isWaitingForDebugger_, serverVars,
                 queueVars, blocks, main, mainVars, interrupt, handled, refused>>

\* RequestInterrupt for Debugger.pause.
RequestInterrupt(f) ==
  /\ Reads(f, "interrupt", "post")
  /\ interrupt' = TRUE
  /\ UNCHANGED <<clientVars, isWaitingForDebugger_, serverVars, queueVars, blocks,
                 main, mainVars, hist>>

\* Mutant: the main thread is only told when it is not paused.
PostPumpBlock_NotPaused(f) ==
  /\ Reads(f, "post", "idle")
  /\ blocks' = IF runningNestedLoops_ THEN blocks ELSE blocks + 1
  /\ UNCHANGED <<clientVars, isWaitingForDebugger_, serverVars, queueVars, main,
                 mainVars, interrupt, hist>>

\* Mutant: the block is posted twice.
PostPumpBlock_Twice(f) ==
  /\ Reads(f, "post", "idle")
  /\ blocks' = blocks + 2
  /\ UNCHANGED <<clientVars, isWaitingForDebugger_, serverVars, queueVars, main,
                 mainVars, interrupt, hist>>

\* ExecuteOnMainThread; then the next message is read.
PostPumpBlock(f) ==
  /\ Reads(f, "post", "idle")
  /\ blocks' = blocks + 1
  /\ UNCHANGED <<clientVars, isWaitingForDebugger_, serverVars, queueVars, main,
                 mainVars, interrupt, hist>>

-----------------------------------------------------------------------------
(* The main thread: blocks *)

\* The main thread is inside code that serves the main queue: the run loop, or
\* JavaScript that runs it and was not started by a block of that queue.
ServesQueue == main = "idle" \/ (main \in {"app", "eval"} /\ ~owner /\ ~starting)

\* The pump block, refused while a nested loop pumps.
RunPumpBlock ==
  /\ ServesQueue
  /\ blocks > 0
  /\ blocks' = blocks - 1
  /\ IF runningNestedLoops_ /\ ~terminated_
       THEN /\ refused' = (refused \/ paused)
            /\ UNCHANGED <<main, owner, base>>
       ELSE /\ main' = "pump"
            /\ owner' = TRUE
            /\ base' = main
            /\ UNCHANGED refused
  /\ UNCHANGED <<clientVars, isWaitingForDebugger_, serverVars, reading, queueVars,
                 current, paused, starting, interrupt, received, handled>>

\* onFrontendConnected's block: scheduleBreak asks for a pause at the next
\* statement.
RunBreakBlock ==
  /\ main \in {"idle", "waiting"} /\ UNCHANGED main
  /\ breakBlock
  /\ breakBlock' = FALSE
  /\ UNCHANGED <<clientVars, isWaitingForDebugger_, serverVars, reading, waitBlock,
                 timeoutArmed, blocks, mainVars, interrupt, hist>>

\* Mutant: the message is read but not popped.
PumpMessage_Peek ==
  /\ main \in {"pump", "loop"}
  /\ messages_ # <<>>
  /\ main = "loop" => ~terminated_
  /\ current' = Head(messages_)
  /\ messages_' = messages_
  /\ main' = "dispatch"
  /\ UNCHANGED <<runningNestedLoops_, terminated_, isWaitingForDebugger_, serverVars,
                 reading, queueVars, blocks, owner, base, paused, starting,
                 interrupt, hist>>

\* PumpMessage, in the block or in the nested loop.
PumpMessage ==
  /\ main \in {"pump", "loop"}
  /\ messages_ # <<>>
  /\ main = "loop" => ~terminated_
  /\ current' = Head(messages_)
  /\ messages_' = Tail(messages_)
  /\ main' = "dispatch"
  /\ UNCHANGED <<runningNestedLoops_, terminated_, isWaitingForDebugger_, serverVars,
                 reading, queueVars, blocks, owner, base, paused, starting,
                 interrupt, hist>>

\* The block found no message left.
PumpBlockEnds ==
  /\ M("pump", base)
  /\ messages_ = <<>>
  /\ owner' = FALSE
  /\ base' = "idle"
  /\ UNCHANGED <<clientVars, isWaitingForDebugger_, serverVars, reading, queueVars,
                 blocks, current, paused, starting, interrupt, hist>>

-----------------------------------------------------------------------------
(* The main thread: dispatchMessage *)

\* Where dispatchMessage returns to.
AfterDispatch == IF paused THEN "loop" ELSE "pump"

\* Mutant: V8's request to quit the loop is dropped.
DispatchMessage_NoQuit ==
  /\ main = "dispatch"
  /\ handled' = Append(handled, current)
  /\ current' = 0
  /\ LET kind == received[current]
     IN  /\ main' = CASE kind = "invalid" -> "crashed"
                      [] kind = "evaluate" -> "eval"
                      [] OTHER -> AfterDispatch
  /\ UNCHANGED <<clientVars, isWaitingForDebugger_, serverVars, reading, queueVars,
                 blocks, owner, base, paused, starting, interrupt, received, refused>>

\* Dispatching by kind: json::parse throws on what is not JSON; Debugger.pause
\* asks V8 to pause at the next statement; Debugger.resume makes V8 call
\* quitMessageLoopOnPause if it is paused; the others run JavaScript.
DispatchMessage ==
  /\ main = "dispatch"
  /\ handled' = Append(handled, current)
  /\ current' = 0
  /\ LET kind == received[current]
     IN  /\ main' = CASE kind = "invalid" -> "crashed"
                      [] kind = "evaluate" -> "eval"
                      [] OTHER -> AfterDispatch
         /\ terminated_' = (terminated_ \/ (kind = "resume" /\ paused))
  /\ UNCHANGED <<messages_, runningNestedLoops_, isWaitingForDebugger_, serverVars,
                 reading, queueVars, blocks, owner, base, paused, starting,
                 interrupt, received, refused>>

\* The JavaScript of a message returns (the microtask checkpoint included).
EvalReturns ==
  /\ M("eval", AfterDispatch)
  /\ UNCHANGED <<clientVars, isWaitingForDebugger_, serverVars, reading, queueVars,
                 blocks, mainVars, interrupt, hist>>

-----------------------------------------------------------------------------
(* The main thread: JavaScript and pauses *)

\* An event of the application runs JavaScript.
RunApp ==
  /\ M("idle", "app") /\ ~starting
  /\ UNCHANGED <<clientVars, isWaitingForDebugger_, serverVars, reading, queueVars,
                 blocks, mainVars, interrupt, hist>>

AppReturns ==
  /\ M("app", "idle")
  /\ UNCHANGED <<clientVars, isWaitingForDebugger_, serverVars, reading, queueVars,
                 blocks, mainVars, interrupt, hist>>

\* The requested interrupt runs: schedulePauseOnNextStatement stops V8 at the
\* next statement, unless it is paused already.
InterruptRuns ==
  /\ main \in {"app", "eval"}
  /\ interrupt
  /\ interrupt' = FALSE
  /\ main' = IF paused THEN main ELSE "enterPause"
  /\ UNCHANGED <<clientVars, isWaitingForDebugger_, serverVars, reading, queueVars,
                 blocks, mainVars, hist>>

\* A breakpoint, or a pause that scheduleBreak or Debugger.pause asked for, stops
\* V8, which never pauses twice.
HitPause ==
  /\ M(main, "enterPause") /\ main \in {"app", "eval"}
  /\ ~paused
  /\ UNCHANGED <<clientVars, isWaitingForDebugger_, serverVars, reading, queueVars,
                 blocks, mainVars, interrupt, hist>>

\* runMessageLoopOnPause up to its loop, which is not entered when one runs.
\* dispatch_sync on a queue this thread already owns never returns.
RunMessageLoopOnPause ==
  /\ main = "enterPause"
  /\ main' = IF ~LoopQueueFree THEN "stuck"
              ELSE IF runningNestedLoops_ THEN "app" ELSE "loop"
  /\ paused' = (main' = "loop")
  /\ runningNestedLoops_' = (runningNestedLoops_ \/ LoopQueueFree)
  /\ terminated_' = (terminated_ /\ ~LoopQueueFree)
  /\ UNCHANGED <<messages_, isWaitingForDebugger_, serverVars, reading, queueVars,
                 blocks, current, owner, base, starting, interrupt, hist>>

QuitLoop ==
  /\ M("loop", "leavePause")
  /\ terminated_
  /\ UNCHANGED <<clientVars, isWaitingForDebugger_, serverVars, reading, queueVars,
                 blocks, mainVars, interrupt, hist>>

\* Mutant: runningNestedLoops_ is not reset.
LeavePause_KeepsRunning ==
  /\ M("leavePause", "app")
  /\ terminated_' = FALSE
  /\ paused' = FALSE
  /\ UNCHANGED <<messages_, runningNestedLoops_, isWaitingForDebugger_, serverVars,
                 reading, queueVars, blocks, current, owner, base, starting,
                 interrupt, hist>>

\* The end of runMessageLoopOnPause: the paused JavaScript goes on.
LeavePause ==
  /\ M("leavePause", "app")
  /\ terminated_' = FALSE
  /\ runningNestedLoops_' = FALSE
  /\ paused' = FALSE
  /\ UNCHANGED <<messages_, isWaitingForDebugger_, serverVars, reading, queueVars,
                 blocks, current, owner, base, starting, interrupt, hist>>

-----------------------------------------------------------------------------
MainStep == \/ WaitLoop \/ WaitLoopEnds \/ StartupDone
            \/ PumpMessage \/ PumpBlockEnds \/ DispatchMessage \/ EvalReturns
            \/ AppReturns \/ RunMessageLoopOnPause \/ QuitLoop \/ LeavePause

Next == \/ MainStep \/ RunPumpBlock \/ RunBreakBlock \/ WaitTimeout \/ ReplaceSession
        \/ AttachRequest \/ WaitForDebugger \/ RunApp \/ InterruptRuns \/ HitPause
        \/ FrontendConnects
        \/ \E f \in Frontends :
             \/ FrontendVanishes(f) \/ RequestInterrupt(f) \/ PostPumpBlock(f)
             \/ \E kind \in Kinds : ReceiveMessage(f, kind)

\* The main run loop serves its queue between events; JavaScript returns; the
\* dispatch queues run; a Locker that is free again and again is taken; the half
\* second of enableInspector ends.
Spec == /\ Init /\ [][Next]_vars
        /\ WF_vars(MainStep)
        /\ \A f \in Frontends : WF_vars(RequestInterrupt(f) \/ PostPumpBlock(f))
        /\ SF_vars(RunPumpBlock) /\ SF_vars(RunBreakBlock) /\ SF_vars(WaitTimeout)
        /\ SF_vars(ReplaceSession) /\ SF_vars(StartupDone)

-----------------------------------------------------------------------------
Ended == main \in {"stuck", "crashed"}

(* Every message is dispatched at most once and in the order it was queued,  *)
(* although pump blocks and the nested loop of a pause take turns at the     *)
(* same queue.                                                               *)
HandledInOrder == /\ \A i \in 1..Len(handled) : handled[i] = i
                  /\ \A i \in 1..Len(messages_) : messages_[i] > Len(handled)

(* Someone will pump a message that waits: its reader has yet to post the    *)
(* block, a block is posted or running, or the nested loop of a pause is at  *)
(* work.                                                                     *)
PumpIsComing ==
  messages_ # <<>> => \/ \E f \in Frontends : reading[f] # "idle"
                      \/ blocks > 0 \/ owner \/ paused

(* A message is left behind only after a pump block was refused in a pause.  *)
LeftOnlyAfterRefusal == PumpIsComing \/ refused

(* The counterpart over time: the messages the frontends send are dispatched *)
(* in the end, unless a block was refused in a pause or the main thread is   *)
(* stuck.                                                                    *)
EveryMessageHandled == messages_ # <<>> ~> (messages_ = <<>> \/ refused \/ Ended)

(* A Debugger.resume that waits during a pause ends the pause.               *)
ResumeEndsPause ==
  (paused /\ \E n \in ToSet(messages_) : received[n] = "resume") ~> (~paused \/ Ended)

(* A frontend that connects gets its session and is read, unless the main    *)
(* thread stays paused with the lock: the accepting thread, the reading      *)
(* threads and the main thread do not otherwise block one another.           *)
NewFrontendGetsSession ==
  accepting = "session" ~> (accepting = "idle" \/ paused \/ Ended)

(* The main thread does not wait for a debugger for ever: a frontend or the  *)
(* timeout lets it go.                                                       *)
WaitingEnds == main = "waiting" ~> main # "waiting"

(* "Debugger.pause needs to interrupt V8 even if the main thread is busy     *)
(* executing JS" (JsV8InspectorClient.mm:145): a pause gets the main thread  *)
(* into the message loop, also when the JavaScript it was busy with is the   *)
(* evaluation of an earlier message.                                         *)
PauseReachesLoop == main = "stuck" => "pause" \notin ToSet(received)
=============================================================================
