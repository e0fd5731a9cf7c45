--------------------------- MODULE WorkerLifecycle ---------------------------
(***************************************************************************)
(* One JavaScript Worker, from `new Worker(...)` to the deletion of its    *)
(* native wrapper: WorkerWrapper.mm, the callbacks of Worker.mm, the entry *)
(* in Caches::Workers, ObjectManager's finalizer and Runtime::~Runtime.    *)
(*                                                                         *)
(* Two threads.  The parent is the thread of the isolate that evaluates    *)
(* `new Worker` (the main thread, or another worker's); the worker is the  *)
(* NSOperation that runs BackgroundLooper.  ppc and wpc say where each of  *)
(* them stands; every access to a flag the two share is a step of its own. *)
(* ConcurrentQueue's operations are single steps here; the module          *)
(* ConcurrentQueue opens them up.                                          *)
(*                                                                         *)
(* JavaScript is an environment: between native calls either side may post,*)
(* terminate, close, throw, loop forever, or drop its reference.           *)
(***************************************************************************)
EXTENDS Naturals, Sequences, SequencesExt

CONSTANTS MaxPosts,   \* bound: messages the parent posts to the worker
          MaxSends,   \* bound: blocks the worker posts to the parent's run loop
          HasTimers   \* the worker's script keeps a repeating timer

ASSUME LifecycleAssumption ==
  MaxPosts \in Nat /\ MaxSends \in Nat /\ HasTimers \in BOOLEAN

VARIABLES
  \* WorkerWrapper's fields
  isRunning_, isClosing_, isTerminating_, isDisposed_, isWeak_,
  workerIsolate_,   \* TRUE once assigned
  wrapper,          \* the C++ object: "none", "alive", "deleted"
  \* WorkerWrapper::queue_
  queue,            \* messages waiting
  source,           \* "none", "added" (to the worker's run loop), "terminated"
  signalled,
  \* the two threads
  ppc, wpc,
  ctx,              \* what JavaScript the worker runs: script, handler, timer
  runtime,          \* the worker's tns::Runtime exists
  inLoop,           \* the worker is inside CFRunLoopRun
  stopped,          \* CFRunLoopStop reached that CFRunLoopRun
  lostStop,         \* CFRunLoopStop fell between the last check and CFRunLoopRun
  interrupt,        \* Isolate::TerminateExecution: "none", "pending" (requested),
                    \* "spent" (it has unwound JavaScript and V8 forgot it)
  batch,            \* DrainPendingTasks' local vector
  \* process-wide state
  registered,       \* Caches::Workers has the worker's entry
  inbox,            \* blocks on the parent's run loop: "message" or "error"
  parent,           \* the parent's isolate: "alive", "dying", "slotNull", "disposed"
  handle,           \* poWorker_, the persistent handle: "none", "weak", "reset"
  reachable,        \* parent's JavaScript still refers to the Worker object
  \* history
  posted,           \* posts attempted by the parent; message n is the n-th
  accepted,         \* messages that reached the queue, in order
  delivered,        \* messages handed to the worker's onmessage, in order
  sends,            \* blocks posted to the parent so far
  late,             \* messages delivered although isTerminating_ was set
  straggled,        \* messages queued although closing or terminating
  faults            \* undefined behaviour and failed assertions met so far

flags == <<isRunning_, isClosing_, isTerminating_, isDisposed_, isWeak_>>
qvars == <<queue, source, signalled>>
loopvars == <<inLoop, stopped, lostStop>>
parentvars == <<inbox, parent, handle, reachable>>
hist == <<posted, accepted, delivered, sends, late, straggled>>
vars == <<flags, workerIsolate_, wrapper, qvars, ppc, wpc, ctx, runtime,
          loopvars, interrupt, batch, registered, parentvars, hist, faults>>

ParentSteps == {"new", "setRunning", "insert", "js", "post", "push",
                "interrupt", "stopQueue", "notRunning", "children", "visit",
                "makeWeak", "clearSlot", "dispose", "dead"}
WorkerSteps == {"none", "queued", "initQueue", "newRuntime", "js", "send",
                "spin", "terminate", "stopQueue", "notRunning", "assign",
                "drain", "next", "call", "drained", "check", "enter", "loop",
                "setDisposed", "destroy", "deleteIfWeak", "unregister", "exit"}
Faults == {"stateMissing", "objectGone", "useAfterDelete", "doubleDelete",
           "deadIsolateLocked", "deadIsolateRead", "deadIsolateInterrupted"}

TypeOK ==
  /\ isRunning_ \in BOOLEAN /\ isClosing_ \in BOOLEAN
  /\ isTerminating_ \in BOOLEAN /\ isDisposed_ \in BOOLEAN
  /\ isWeak_ \in BOOLEAN /\ workerIsolate_ \in BOOLEAN
  /\ wrapper \in {"none", "alive", "deleted"}
  /\ queue \in Seq(1..MaxPosts)
  /\ source \in {"none", "added", "terminated"}
  /\ signalled \in BOOLEAN
  /\ ppc \in ParentSteps /\ wpc \in WorkerSteps
  /\ ctx \in {"script", "handler", "timer"}
  /\ runtime \in BOOLEAN /\ inLoop \in BOOLEAN
  /\ stopped \in BOOLEAN /\ lostStop \in BOOLEAN
  /\ interrupt \in {"none", "pending", "spent"}
  /\ batch \in Seq(1..MaxPosts)
  /\ registered \in BOOLEAN
  /\ inbox \in Seq({"message", "error"})
  /\ parent \in {"alive", "dying", "slotNull", "disposed"}
  /\ handle \in {"none", "weak", "reset"}
  /\ reachable \in BOOLEAN
  /\ posted \in 0..MaxPosts /\ sends \in 0..MaxSends
  /\ accepted \in Seq(1..MaxPosts) /\ delivered \in Seq(1..MaxPosts)
  /\ late \in 0..MaxPosts /\ straggled \in 0..MaxPosts
  /\ faults \in SUBSET Faults

Init ==
  /\ isRunning_ = FALSE /\ isClosing_ = FALSE /\ isTerminating_ = FALSE
  /\ isDisposed_ = FALSE /\ isWeak_ = FALSE /\ workerIsolate_ = FALSE
  /\ wrapper = "none"
  /\ queue = <<>> /\ source = "none" /\ signalled = FALSE
  /\ ppc = "new" /\ wpc = "none"
  /\ ctx = "script" /\ runtime = FALSE
  /\ inLoop = FALSE /\ stopped = FALSE /\ lostStop = FALSE
  /\ interrupt = "none" /\ batch = <<>>
  /\ registered = FALSE
  /\ inbox = <<>> /\ parent = "alive" /\ handle = "none" /\ reachable = FALSE
  /\ posted = 0 /\ accepted = <<>> /\ delivered = <<>> /\ sends = 0
  /\ late = 0 /\ straggled = 0
  /\ faults = {}

-----------------------------------------------------------------------------
\* A failed tns::Assert, a null dereference or a double delete ends the process.
Alive == faults \cap {"stateMissing", "objectGone", "doubleDelete"} = {}

P(from, to) == Alive /\ ppc = from /\ ppc' = to
W(from, to) == Alive /\ wpc = from /\ wpc' = to

\* Caches::Workers->ForEach holds containerMutex_ while the parent's destructor
\* terminates its children: the worker's own look-ups wait.
MapLocked == parent = "dying" /\ ppc \in {"interrupt", "stopQueue", "notRunning"}

\* A member of the wrapper is touched: a fault when it is already deleted.
Touch == faults' = IF wrapper = "deleted" THEN faults \cup {"useAfterDelete"}
                   ELSE faults

\* queue_.Terminate(): the source leaves the run loop and the loop is stopped,
\* if it is running; a stop that hits the worker just before CFRunLoopRun is lost.
StopQueue ==
  /\ source' = "terminated"
  /\ stopped' = (stopped \/ (inLoop /\ source = "added"))
  /\ lostStop' = (lostStop \/ (wpc = "enter" /\ source = "added"))
  /\ UNCHANGED <<queue, signalled, inLoop>>

\* The worker reads the parent isolate's RUNTIME_SLOT and puts blocks on the
\* parent's run loop, or returns when the slot is already cleared.
PostBlocks(blocks) ==
  /\ sends + Len(blocks) <= MaxSends
  /\ sends' = sends + Len(blocks)
  /\ inbox' = IF parent \in {"alive", "dying"} THEN inbox \o blocks ELSE inbox
  /\ faults' = IF parent = "disposed" THEN faults \cup {"deadIsolateRead"}
               ELSE faults

-----------------------------------------------------------------------------
(* The parent: constructing *)

\* The wrapper, its registration with ObjectManager, and Start up to
\* addOperation.
ConstructorCallback ==
  /\ P("new", "setRunning")
  /\ wrapper' = "alive"
  /\ handle' = "weak"
  /\ reachable' = TRUE
  /\ wpc' = "queued"
  /\ UNCHANGED <<flags, workerIsolate_, qvars, ctx, runtime, loopvars,
                 interrupt, batch, registered, inbox, parent, hist, faults>>

\* Start's last statement, after the operation may already be running.
StartSetRunning ==
  /\ P("setRunning", "insert")
  /\ isRunning_' = TRUE
  /\ UNCHANGED <<isClosing_, isTerminating_, isDisposed_, isWeak_,
                 workerIsolate_, wrapper, qvars, wpc, ctx, runtime, loopvars,
                 interrupt, batch, registered, parentvars, hist, faults>>

InsertState ==
  /\ P("insert", "js")
  /\ registered' = TRUE
  /\ UNCHANGED <<flags, workerIsolate_, wrapper, qvars, wpc, ctx, runtime,
                 loopvars, interrupt, batch, parentvars, hist, faults>>

-----------------------------------------------------------------------------
(* The parent: worker.postMessage *)

PostMessageCallback ==
  /\ reachable
  /\ posted < MaxPosts
  /\ posted' = posted + 1
  /\ P("js", IF isRunning_ /\ ~isClosing_ THEN "post" ELSE "js")
  /\ UNCHANGED <<flags, workerIsolate_, wrapper, qvars, wpc, ctx, runtime,
                 loopvars, interrupt, batch, registered, parentvars, accepted,
                 delivered, sends, late, straggled, faults>>

\* WorkerWrapper::PostMessage's own look at the flags.
PostMessage ==
  /\ P("post", IF ~isTerminating_ /\ ~isClosing_ THEN "push" ELSE "js")
  /\ UNCHANGED <<flags, workerIsolate_, wrapper, qvars, wpc, ctx, runtime,
                 loopvars, interrupt, batch, registered, parentvars, hist,
                 faults>>

\* Mutant: the message is numbered by the next post.
PushMessage_Renumbered ==
  /\ P("push", "js")
  /\ queue' = Append(queue, posted + 1)
  /\ accepted' = Append(accepted, posted)
  /\ signalled' = (signalled \/ source = "added")
  /\ straggled' = IF isTerminating_ \/ isClosing_ THEN straggled + 1 ELSE straggled
  /\ UNCHANGED <<flags, workerIsolate_, wrapper, source, wpc, ctx, runtime,
                 loopvars, interrupt, batch, registered, parentvars, posted,
                 delivered, sends, late, faults>>

\* Mutant: the source is not signalled.
PushMessage_NoSignal ==
  /\ P("push", "js")
  /\ queue' = Append(queue, posted)
  /\ accepted' = Append(accepted, posted)
  /\ straggled' = IF isTerminating_ \/ isClosing_ THEN straggled + 1 ELSE straggled
  /\ UNCHANGED <<flags, workerIsolate_, wrapper, source, signalled, wpc, ctx, runtime,
                 loopvars, interrupt, batch, registered, parentvars, posted,
                 delivered, sends, late, faults>>

\* queue_.Push.
PushMessage ==
  /\ P("push", "js")
  /\ queue' = Append(queue, posted)
  /\ accepted' = Append(accepted, posted)
  /\ signalled' = (signalled \/ source = "added")
  /\ straggled' = IF isTerminating_ \/ isClosing_ THEN straggled + 1 ELSE straggled
  /\ UNCHANGED <<flags, workerIsolate_, wrapper, source, wpc, ctx, runtime,
                 loopvars, interrupt, batch, registered, parentvars, posted,
                 delivered, sends, late, faults>>

-----------------------------------------------------------------------------
(* The parent: WorkerWrapper::Terminate, from worker.terminate() or from the *)
(* destructor of the parent's Runtime                                        *)

AfterTerminate == IF parent = "dying" THEN "visit" ELSE "js"

\* isTerminating_.exchange(true): only the first caller goes on.
TerminateCallback ==
  /\ reachable
  /\ P("js", IF isTerminating_ THEN "js" ELSE "interrupt")
  /\ isTerminating_' = TRUE
  /\ UNCHANGED <<isRunning_, isClosing_, isDisposed_, isWeak_, workerIsolate_,
                 wrapper, qvars, wpc, ctx, runtime, loopvars, interrupt, batch,
                 registered, parentvars, hist, faults>>

\* Mutant: running JavaScript is not interrupted.
TerminateExecution_Missing ==
  /\ P("interrupt", "stopQueue")
  /\ interrupt' = interrupt
  /\ faults' = IF workerIsolate_ /\ wpc = "exit"
                 THEN faults \cup {"deadIsolateInterrupted"} ELSE faults
  /\ UNCHANGED <<flags, workerIsolate_, wrapper, qvars, wpc, ctx, runtime,
                 loopvars, batch, registered, parentvars, hist>>

\* TerminateExecution, if workerIsolate_ is assigned by now.
TerminateExecution ==
  /\ P("interrupt", "stopQueue")
  /\ interrupt' = IF workerIsolate_ THEN "pending" ELSE interrupt
  /\ faults' = IF workerIsolate_ /\ wpc = "exit"
                 THEN faults \cup {"deadIsolateInterrupted"} ELSE faults
  /\ UNCHANGED <<flags, workerIsolate_, wrapper, qvars, wpc, ctx, runtime,
                 loopvars, batch, registered, parentvars, hist>>

TerminateQueue ==
  /\ P("stopQueue", "notRunning")
  /\ StopQueue
  /\ UNCHANGED <<flags, workerIsolate_, wrapper, wpc, ctx, runtime, interrupt,
                 batch, registered, parentvars, hist, faults>>

TerminateNotRunning ==
  /\ P("notRunning", AfterTerminate)
  /\ isRunning_' = FALSE
  /\ UNCHANGED <<isClosing_, isTerminating_, isDisposed_, isWeak_,
                 workerIsolate_, wrapper, qvars, wpc, ctx, runtime, loopvars,
                 interrupt, batch, registered, parentvars, hist, faults>>

-----------------------------------------------------------------------------
(* The parent: its run loop and its garbage collector *)

\* A block posted by the worker runs: onmessage or onerror of the Worker
\* object, which is on the stack meanwhile.  The main thread's run loop goes on
\* after its Runtime is destroyed, and the blocks left on it still run.
RunBlock ==
  /\ Alive
  /\ ppc \in {"js", "dead"}
  /\ inbox # <<>>
  /\ inbox' = Tail(inbox)
  /\ LET broken == {f \in Faults :
                       \/ f = "deadIsolateLocked" /\ parent = "disposed"
                       \/ /\ f = "objectGone" /\ parent # "disposed"
                          /\ Head(inbox) = "message" /\ handle = "reset"
                       \/ /\ f = "useAfterDelete"
                          /\ Head(inbox) = "error" /\ wrapper = "deleted"}
     IN  /\ faults' = faults \cup broken
         /\ reachable' = (reachable \/ broken = {})
  /\ UNCHANGED <<flags, workerIsolate_, wrapper, qvars, ppc, wpc, ctx, runtime,
                 loopvars, interrupt, batch, registered, parent, handle, hist>>

\* JavaScript lets go of the Worker object.
DropReference ==
  /\ P("js", "js")
  /\ reachable
  /\ reachable' = FALSE
  /\ UNCHANGED <<flags, workerIsolate_, wrapper, qvars, wpc, ctx, runtime,
                 loopvars, interrupt, batch, registered, inbox, parent, handle,
                 hist, faults>>

\* Mutant: isDisposed() is not consulted.
FinalizerCallback_Eager ==
  /\ P("js", "js")
  /\ ~reachable
  /\ handle = "weak"
  /\ wrapper' = "deleted"
  /\ handle' = "reset"
  /\ UNCHANGED <<flags, workerIsolate_, qvars, wpc, ctx, runtime, loopvars,
                 interrupt, batch, registered, inbox, parent, reachable, hist,
                 faults>>

\* DisposeValue deletes the wrapper of a worker that is disposed, and re-arms
\* the weak handle of one that is not.
FinalizerCallback ==
  /\ P("js", "js")
  /\ ~reachable
  /\ handle = "weak"
  /\ isDisposed_
  /\ wrapper' = "deleted"
  /\ handle' = "reset"
  /\ UNCHANGED <<flags, workerIsolate_, qvars, wpc, ctx, runtime, loopvars,
                 interrupt, batch, registered, inbox, parent, reachable, hist,
                 faults>>

-----------------------------------------------------------------------------
(* The parent: Runtime::~Runtime of the parent's isolate *)

DestroyParent ==
  /\ P("js", "children")
  /\ parent' = "dying"
  /\ UNCHANGED <<flags, workerIsolate_, wrapper, qvars, wpc, ctx, runtime,
                 loopvars, interrupt, batch, registered, inbox, handle,
                 reachable, hist, faults>>

\* ForEach over Caches::Workers: a child that is registered is terminated.
TerminateChildren ==
  /\ P("children", IF registered /\ ~isTerminating_ THEN "interrupt" ELSE "visit")
  /\ isTerminating_' = (isTerminating_ \/ registered)
  /\ UNCHANGED <<isRunning_, isClosing_, isDisposed_, isWeak_, workerIsolate_,
                 wrapper, qvars, wpc, ctx, runtime, loopvars, interrupt, batch,
                 registered, parentvars, hist, faults>>

\* DisposerPHV visits the handle; DisposeValue with isFinalDisposal looks at
\* isDisposed() and deletes the wrapper, or goes on to MakeWeak.
VisitHandle ==
  /\ P("visit", IF handle = "weak" /\ ~isDisposed_ THEN "makeWeak" ELSE "clearSlot")
  /\ wrapper' = IF handle = "weak" /\ isDisposed_ THEN "deleted" ELSE wrapper
  /\ handle' = IF handle = "weak" /\ isDisposed_ THEN "reset" ELSE handle
  /\ UNCHANGED <<flags, workerIsolate_, qvars, wpc, ctx, runtime, loopvars,
                 interrupt, batch, registered, inbox, parent, reachable, hist,
                 faults>>

MakeWeak ==
  /\ P("makeWeak", "clearSlot")
  /\ isWeak_' = TRUE
  /\ handle' = "reset"
  /\ Touch
  /\ UNCHANGED <<isRunning_, isClosing_, isTerminating_, isDisposed_,
                 workerIsolate_, wrapper, qvars, wpc, ctx, runtime, loopvars,
                 interrupt, batch, registered, inbox, parent, reachable, hist>>

\* RUNTIME_SLOT := nullptr.
ClearSlot ==
  /\ P("clearSlot", "dispose")
  /\ parent' = "slotNull"
  /\ UNCHANGED <<flags, workerIsolate_, wrapper, qvars, wpc, ctx, runtime,
                 loopvars, interrupt, batch, registered, inbox, handle,
                 reachable, hist, faults>>

DisposeParentIsolate ==
  /\ P("dispose", "dead")
  /\ parent' = "disposed"
  /\ reachable' = FALSE
  /\ UNCHANGED <<flags, workerIsolate_, wrapper, qvars, wpc, ctx, runtime,
                 loopvars, interrupt, batch, registered, inbox, handle, hist,
                 faults>>

-----------------------------------------------------------------------------
(* The worker: BackgroundLooper up to the worker's script *)

LooperStart ==
  /\ W("queued", IF isTerminating_ THEN "setDisposed" ELSE "initQueue")
  /\ UNCHANGED <<flags, workerIsolate_, wrapper, qvars, ppc, ctx, runtime,
                 loopvars, interrupt, batch, registered, parentvars, hist,
                 faults>>

\* queue_.Initialize, refused when the queue is terminated already.
InitializeQueue ==
  /\ W("initQueue", "newRuntime")
  /\ source' = IF source = "none" THEN "added" ELSE source
  /\ UNCHANGED <<flags, workerIsolate_, wrapper, queue, signalled, ppc, ctx,
                 runtime, loopvars, interrupt, batch, registered, parentvars,
                 hist, faults>>

\* The start of func(): Runtime, isolate and worker id; then the script runs.
NewRuntime ==
  /\ W("newRuntime", "js")
  /\ runtime' = TRUE
  /\ ctx' = "script"
  /\ UNCHANGED <<flags, workerIsolate_, wrapper, qvars, ppc, loopvars,
                 interrupt, batch, registered, parentvars, hist, faults>>

-----------------------------------------------------------------------------
(* The worker: what its JavaScript can do *)

\* Where native code resumes when the worker's JavaScript returns.
AfterJs == CASE ctx = "script" -> "assign"
             [] ctx = "handler" -> "next"
             [] ctx = "timer" -> "loop"

\* A pending termination unwinds the JavaScript that is running, or else the next
\* that is entered, down to native code; V8 drops it there, and what is called
\* afterwards runs as usual.
Unwound == IF interrupt = "pending" THEN "spent" ELSE interrupt

\* self.postMessage: the registry entry is asserted, then isRunning_ is read.
PostMessageToMainCallback ==
  /\ ~MapLocked
  /\ sends < MaxSends
  /\ W("js", IF registered /\ isRunning_ THEN "send" ELSE "js")
  /\ faults' = IF registered THEN faults ELSE faults \cup {"stateMissing"}
  /\ UNCHANGED <<flags, workerIsolate_, wrapper, qvars, ppc, ctx, runtime,
                 loopvars, interrupt, batch, registered, parentvars, hist>>

SendToMain ==
  /\ W("send", "js")
  /\ PostBlocks(<<"message">>)
  /\ UNCHANGED <<flags, workerIsolate_, wrapper, qvars, ppc, ctx, runtime,
                 loopvars, interrupt, batch, registered, parent, handle,
                 reachable, posted, accepted, delivered, late, straggled>>

\* close().  onclose, if any, goes on as JavaScript in the same context.
CloseWorkerCallback ==
  /\ ~MapLocked
  /\ W("js", "js")
  /\ isClosing_' = (isClosing_ \/ (registered /\ isRunning_))
  /\ faults' = IF registered THEN faults ELSE faults \cup {"stateMissing"}
  /\ UNCHANGED <<isRunning_, isTerminating_, isDisposed_, isWeak_,
                 workerIsolate_, wrapper, qvars, ppc, ctx, runtime, loopvars,
                 interrupt, batch, registered, parentvars, hist>>

\* CallOnErrorHandlers after onmessage (or onclose) threw and the worker's
\* onerror did not handle it; a second block when onerror itself threw.
CallOnErrorHandlers ==
  /\ W("js", IF isClosing_ THEN "js" ELSE AfterJs)
  /\ ctx = "handler" \/ isClosing_
  /\ ~isTerminating_
  /\ \E blocks \in {<<"error">>, <<"error", "error">>} : PostBlocks(blocks)
  /\ UNCHANGED <<flags, workerIsolate_, wrapper, qvars, ppc, ctx, runtime,
                 loopvars, interrupt, batch, registered, parent, handle,
                 reachable, posted, accepted, delivered, late, straggled>>

\* The script failed to load in a debug build: the module loader returned and
\* left jsErrorOccurred set.
ScriptFailsInDebug ==
  /\ W("js", "assign")
  /\ ctx = "script"
  /\ PostBlocks(<<"error">>)
  /\ UNCHANGED <<flags, workerIsolate_, wrapper, qvars, ppc, ctx, runtime,
                 loopvars, interrupt, batch, registered, parent, handle,
                 reachable, posted, accepted, delivered, late, straggled>>

\* The script threw: the error is passed on and the worker terminates itself.
ScriptThrows ==
  /\ W("js", "terminate")
  /\ ctx = "script"
  /\ PostBlocks(<<"error">>)
  /\ UNCHANGED <<flags, workerIsolate_, wrapper, qvars, ppc, ctx, runtime,
                 loopvars, interrupt, batch, registered, parent, handle,
                 reachable, posted, accepted, delivered, late, straggled>>

\* JavaScript returns by itself, before or because V8 saw a pending termination.
JsReturns ==
  /\ W("js", AfterJs)
  /\ interrupt' \in {interrupt, Unwound}
  /\ UNCHANGED <<flags, workerIsolate_, wrapper, qvars, ppc, ctx, runtime,
                 loopvars, batch, registered, parentvars, hist, faults>>

\* A top-level script, message handler or timer callback that never returns by
\* itself.
SpinForever ==
  /\ W("js", "spin")
  /\ UNCHANGED <<flags, workerIsolate_, wrapper, qvars, ppc, ctx, runtime,
                 loopvars, interrupt, batch, registered, parentvars, hist,
                 faults>>

\* V8 unwinds it once TerminateExecution was requested.
SpinInterrupted ==
  /\ W("spin", AfterJs)
  /\ interrupt = "pending"
  /\ interrupt' = Unwound
  /\ UNCHANGED <<flags, workerIsolate_, wrapper, qvars, ppc, ctx, runtime,
                 loopvars, batch, registered, parentvars, hist, faults>>

-----------------------------------------------------------------------------
(* The worker: Terminate on itself, and DrainPendingTasks *)

\* Where the worker goes on after a drain.
AfterDrain == IF inLoop THEN "loop" ELSE "check"

\* worker->Terminate() at the end of func(): workerIsolate_ is still nullptr.
TerminateSelf ==
  /\ W("terminate", IF isTerminating_ THEN "assign" ELSE "stopQueue")
  /\ isTerminating_' = TRUE
  /\ UNCHANGED <<isRunning_, isClosing_, isDisposed_, isWeak_, workerIsolate_,
                 wrapper, qvars, ppc, ctx, runtime, loopvars, interrupt, batch,
                 registered, parentvars, hist, faults>>

StopOwnQueue ==
  /\ W("stopQueue", "notRunning")
  /\ StopQueue
  /\ UNCHANGED <<flags, workerIsolate_, wrapper, ppc, ctx, runtime, interrupt,
                 batch, registered, parentvars, hist, faults>>

NotRunning ==
  /\ W("notRunning", IF workerIsolate_ THEN AfterDrain ELSE "assign")
  /\ isRunning_' = FALSE
  /\ UNCHANGED <<isClosing_, isTerminating_, isDisposed_, isWeak_,
                 workerIsolate_, wrapper, qvars, ppc, ctx, runtime, loopvars,
                 interrupt, batch, registered, parentvars, hist, faults>>

AssignIsolate ==
  /\ W("assign", "drain")
  /\ workerIsolate_' = TRUE
  /\ UNCHANGED <<flags, wrapper, qvars, ppc, ctx, runtime, loopvars, interrupt,
                 batch, registered, parentvars, hist, faults>>

PopAll ==
  /\ W("drain", "next")
  /\ batch' = queue
  /\ queue' = <<>>
  /\ UNCHANGED <<flags, workerIsolate_, wrapper, source, signalled, ppc, ctx,
                 runtime, loopvars, interrupt, registered, parentvars, hist,
                 faults>>

\* Mutant: the flags are not tested before each message.
NextMessage_Unchecked ==
  /\ W("next", IF batch = <<>>
                 THEN "drained" ELSE "call")
  /\ UNCHANGED <<flags, workerIsolate_, wrapper, qvars, ppc, ctx, runtime,
                 loopvars, interrupt, batch, registered, parentvars, hist,
                 faults>>

\* The loop's test before each message.
NextMessage ==
  /\ W("next", IF batch = <<>> \/ isTerminating_ \/ isClosing_
                 THEN "drained" ELSE "call")
  /\ UNCHANGED <<flags, workerIsolate_, wrapper, qvars, ppc, ctx, runtime,
                 loopvars, interrupt, batch, registered, parentvars, hist,
                 faults>>

\* onMessage_: nothing of the handler runs if a termination is pending.
CallOnMessage ==
  /\ W("call", IF interrupt = "pending" THEN "next" ELSE "js")
  /\ interrupt' = Unwound
  /\ batch' = Tail(batch)
  /\ ctx' = "handler"
  /\ IF interrupt = "pending"
       THEN UNCHANGED <<delivered, late>>
       ELSE /\ delivered' = Append(delivered, Head(batch))
            /\ late' = IF isTerminating_ THEN late + 1 ELSE late
  /\ UNCHANGED <<flags, workerIsolate_, wrapper, qvars, ppc, runtime, loopvars,
                 registered, parentvars, posted, accepted, sends, straggled,
                 faults>>

\* Mutant: a closing worker is not shut down.
FinishDrain_IgnoresClose ==
  /\ W("drained", AfterDrain)
  /\ isTerminating_' = isTerminating_
  /\ UNCHANGED <<isRunning_, isClosing_, isDisposed_, isWeak_, workerIsolate_,
                 wrapper, qvars, ppc, ctx, runtime, loopvars, interrupt, batch,
                 registered, parentvars, hist, faults>>

\* The end of DrainPendingTasks: a closing worker terminates, once.
FinishDrain ==
  /\ W("drained", IF isClosing_ /\ ~isTerminating_ THEN "stopQueue" ELSE AfterDrain)
  /\ isTerminating_' = (isTerminating_ \/ isClosing_)
  /\ UNCHANGED <<isRunning_, isClosing_, isDisposed_, isWeak_, workerIsolate_,
                 wrapper, qvars, ppc, ctx, runtime, loopvars, interrupt, batch,
                 registered, parentvars, hist, faults>>

-----------------------------------------------------------------------------
(* The worker: its run loop *)

CheckAgain ==
  /\ W("check", IF isTerminating_ THEN "setDisposed" ELSE "enter")
  /\ UNCHANGED <<flags, workerIsolate_, wrapper, qvars, ppc, ctx, runtime,
                 loopvars, interrupt, batch, registered, parentvars, hist,
                 faults>>

EnterRunLoop ==
  /\ W("enter", "loop")
  /\ inLoop' = TRUE
  /\ UNCHANGED <<flags, workerIsolate_, wrapper, qvars, ppc, ctx, runtime,
                 stopped, lostStop, interrupt, batch, registered, parentvars,
                 hist, faults>>

PerformSource ==
  /\ W("loop", "drain")
  /\ ~stopped
  /\ signalled /\ source = "added"
  /\ signalled' = FALSE
  /\ UNCHANGED <<flags, workerIsolate_, wrapper, queue, source, ppc, ctx,
                 runtime, loopvars, interrupt, batch, registered, parentvars,
                 hist, faults>>

\* Nothing of the callback runs if a termination is pending.
TimerFires ==
  /\ W("loop", IF interrupt = "pending" THEN "loop" ELSE "js")
  /\ HasTimers
  /\ ~stopped
  /\ ctx' = "timer"
  /\ interrupt' = Unwound
  /\ UNCHANGED <<flags, workerIsolate_, wrapper, qvars, ppc, runtime, loopvars,
                 batch, registered, parentvars, hist, faults>>

\* CFRunLoopRun returns when stopped, or when nothing is left to wait for.
ExitRunLoop ==
  /\ W("loop", "setDisposed")
  /\ stopped \/ (source # "added" /\ ~HasTimers)
  /\ inLoop' = FALSE
  /\ UNCHANGED <<flags, workerIsolate_, wrapper, qvars, ppc, ctx, runtime,
                 stopped, lostStop, interrupt, batch, registered, parentvars,
                 hist, faults>>

-----------------------------------------------------------------------------
(* The worker: the end of BackgroundLooper and Runtime::~Runtime *)

SetDisposed ==
  /\ W("setDisposed", IF runtime THEN "destroy" ELSE "unregister")
  /\ isDisposed_' = TRUE
  /\ UNCHANGED <<isRunning_, isClosing_, isTerminating_, isWeak_,
                 workerIsolate_, wrapper, qvars, ppc, ctx, runtime, loopvars,
                 interrupt, batch, registered, parentvars, hist, faults>>

\* ~Runtime dereferences the registry entry and removes it.
DestroyRuntime ==
  /\ ~MapLocked
  /\ W("destroy", "deleteIfWeak")
  /\ registered' = FALSE
  /\ faults' = IF registered THEN faults ELSE faults \cup {"stateMissing"}
  /\ UNCHANGED <<flags, workerIsolate_, wrapper, qvars, ppc, ctx, runtime,
                 loopvars, interrupt, batch, parentvars, hist>>

\* "if the parent isolate is dead then deleting the wrapper is our
\* responsibility".  IsWeak() of a deleted wrapper can return anything.
DeleteIfWeak ==
  /\ W("deleteIfWeak", "exit")
  /\ runtime' = FALSE
  /\ \E weak \in IF wrapper = "deleted" THEN BOOLEAN ELSE {isWeak_} :
       /\ wrapper' = IF weak THEN "deleted" ELSE wrapper
       /\ faults' = faults
            \cup (IF wrapper = "deleted" THEN {"useAfterDelete"} ELSE {})
            \cup (IF wrapper = "deleted" /\ weak THEN {"doubleDelete"} ELSE {})
  /\ UNCHANGED <<flags, workerIsolate_, qvars, ppc, ctx, loopvars, interrupt,
                 batch, registered, parentvars, hist>>

\* Mutant: a worker without a Runtime leaves its registry entry.
Unregister_Missing ==
  /\ ~MapLocked
  /\ W("unregister", "exit")
  /\ registered' = registered
  /\ Touch
  /\ UNCHANGED <<flags, workerIsolate_, wrapper, qvars, ppc, ctx, runtime,
                 loopvars, interrupt, batch, parentvars, hist>>

\* No Runtime was ever created: BackgroundLooper removes the entry itself.
Unregister ==
  /\ ~MapLocked
  /\ W("unregister", "exit")
  /\ registered' = FALSE
  /\ Touch
  /\ UNCHANGED <<flags, workerIsolate_, wrapper, qvars, ppc, ctx, runtime,
                 loopvars, interrupt, batch, parentvars, hist>>

-----------------------------------------------------------------------------
\* Steps of native code, which a thread takes as soon as it is scheduled.
ParentStep == \/ ConstructorCallback \/ StartSetRunning \/ InsertState
              \/ PostMessage \/ PushMessage
              \/ TerminateExecution \/ TerminateQueue \/ TerminateNotRunning
              \/ TerminateChildren \/ VisitHandle \/ MakeWeak \/ ClearSlot
              \/ DisposeParentIsolate
WorkerStep == \/ LooperStart \/ InitializeQueue \/ NewRuntime \/ SendToMain
              \/ JsReturns \/ SpinInterrupted
              \/ TerminateSelf \/ StopOwnQueue \/ NotRunning \/ AssignIsolate
              \/ PopAll \/ NextMessage \/ CallOnMessage \/ FinishDrain
              \/ CheckAgain \/ EnterRunLoop
              \/ SetDisposed \/ DestroyRuntime \/ DeleteIfWeak \/ Unregister

\* What JavaScript, the run loop's timers and the embedder may do.
ParentChoice == \/ PostMessageCallback \/ TerminateCallback \/ RunBlock
                \/ DropReference \/ FinalizerCallback \/ DestroyParent
WorkerChoice == \/ PostMessageToMainCallback \/ CloseWorkerCallback
                \/ CallOnErrorHandlers \/ ScriptFailsInDebug \/ ScriptThrows
                \/ SpinForever \/ TimerFires

Next == \/ ParentStep \/ ParentChoice
        \/ WorkerStep \/ WorkerChoice \/ PerformSource \/ ExitRunLoop

\* Threads are scheduled; a CFRunLoop looks at its stop flag and at its sources
\* on every pass, however often its timers fire.
Spec == /\ Init /\ [][Next]_vars
        /\ WF_vars(ParentStep) /\ WF_vars(WorkerStep)
        /\ SF_vars(PerformSource) /\ SF_vars(ExitRunLoop)

-----------------------------------------------------------------------------
(* The messages of a Worker behave as the abstract Mailbox: posted order,    *)
(* each delivered once and none skipped, at most one queued and one          *)
(* delivered once terminate() has begun, none delivered after close().  The  *)
(* flags are tested twice on the way in and once per message on the way out, *)
(* each time a step before the test's result is used.                        *)
M == INSTANCE Mailbox WITH Messages <- 1..MaxPosts, closed <- isClosing_,
                           terminated <- isTerminating_
ImplementsMailbox == M!Spec

\* The parent has not inserted the worker's entry into Caches::Workers yet.
Early == ppc \in {"new", "setRunning", "insert"}

(* The registry entry is there when the worker's thread looks for it and     *)
(* gone when the thread has ended, whether its Runtime existed or it was     *)
(* terminated before the script began.  The entry is inserted only after the *)
(* thread was started (Worker.mm:210, :215), so a look-up can miss it: what  *)
(* Worker.mm:236 and :359 assert and Runtime.mm:225 dereferences fails, but  *)
(* only before the insert, and whatever terminates, closes or collects       *)
(* afterwards takes the entry from nobody who still looks.                   *)
RegistryFollowsThread ==
  /\ (wpc = "exit" /\ Alive) => ~registered
  /\ "stateMissing" \in faults => Early

(* The finalizer of the Worker object never takes the wrapper from a worker  *)
(* that may still run JavaScript or drain messages; only the worker itself   *)
(* deletes it after its parent died.                                         *)
WrapperKeptWhileRunning ==
  wrapper = "deleted" => /\ isDisposed_
                         /\ wpc \in {"destroy", "deleteIfWeak", "unregister", "exit"}

\* An endless loop that Terminate cannot end: of the top-level script, because
\* workerIsolate_ is assigned only when the script has returned; of a timer
\* callback called after the one TerminateExecution already unwound another call,
\* and before queue_.Terminate stopped the run loop.
OutOfReach == wpc = "spin" /\ (ctx = "script" \/ interrupt = "spent")

(* terminate() ends the worker's thread also when a message handler or a     *)
(* timer callback loops forever at that moment.  It does not in two cases,   *)
(* both possible in the code: when the worker loops out of reach of the one  *)
(* TerminateExecution (OutOfReach), and when the CFRunLoopStop falls between *)
(* BackgroundLooper's last check and CFRunLoopRun (see ConcurrentQueue).     *)
TerminateEndsWorker ==
  isTerminating_ ~> (wpc = "exit" \/ OutOfReach \/ lostStop \/ ~Alive)

(* close() called by the script, an onmessage or an onclose handler ends the *)
(* worker's thread: a drain follows each of them and acts upon isClosing_.   *)
HandlerCloseEndsWorker ==
  (isClosing_ /\ wpc = "js" /\ ctx # "timer")
    ~> (wpc \in {"exit", "spin"} \/ lostStop \/ ~Alive)

(* A message that reached the queue is delivered, unless the worker          *)
(* terminates, closes or never returns from a handler first.                 *)
QueuedIsDelivered ==
  \A n \in 1..MaxPosts :
    n \in ToSet(accepted)
      ~> \/ n \in ToSet(delivered)
         \/ isTerminating_ \/ isClosing_ \/ wpc = "spin" \/ ~Alive
=============================================================================
