# A verification project for the NativeScript iOS runtime

The repository embeds V8 in an iOS application: JavaScript runs in an isolate on the main
thread, calls Objective-C through metadata and libffi, loads CommonJS and ES modules, and can
start Workers, each with an isolate and a thread of its own. This directory holds TLA+ models
of the parts whose correctness depends on the order in which things happen, the TLC
configurations that check them on small instances, and TLAPS proofs of the theorems that hold
for every instance.

## 1. Inventory

Paths are relative to `src/NativeScript/`.

| Component | State it keeps | Operations | What is hard | What makes it correct |
|---|---|---|---|---|
| **Worker message queue** `runtime/ConcurrentQueue.*` | `messagesQueue_`, `runLoopTasksSource_`, `runLoop_`, `terminated`; two mutexes | Initialize, Push, PopAll, SignalAndWakeUp, Terminate | `Push` reads the source without the mutex that `Initialize` and `Terminate` hold; the run loop sleeps | no message is slept on; a terminated queue stays down; a stop ends the loop |
| **Worker life cycle** `runtime/WorkerWrapper.mm`, `runtime/Worker.mm` | five flags, `workerIsolate_`, the queue, the entry in `Caches::Workers` | construct, postMessage (both ways), onmessage, onerror, close, terminate, BackgroundLooper | flags tested a step before the answer is used; two callers of Terminate; thread started before it is registered; blocks on another thread's run loop | messages in order, once; no thread and no entry left behind; wrapper deleted exactly once |
| **Runtime teardown** `runtime/Runtime.mm`, `NativeScript.mm` | `isolates_`, `currentRuntime_`, the isolate's data slots | `~Runtime`, `DisposeIsolateWhenPossible`, `IsAlive`, restart | other threads hold raw pointers to the isolate | no dead isolate is locked |
| **Object manager** `runtime/ObjectManager.mm`, `runtime/DisposerPHV.mm`, with the replaced retain and release of `runtime/ClassBuilder.mm` | `Instances`, `StructInstances`, `PointerInstances`, weak handles, `gcProtected_`, `childCount_` | Register, FinalizerCallback, DisposeValue, ReleaseNativeCounterpart, retain, release, the final pass of `~Runtime` | retain and release on any thread look at the count and change it later; finalizers in any order; addresses are used again | every reference and every block is given back once; nothing that is still looked at is freed |
| **Timers** `runtime/Timers.cpp` | `timerMap_`, the `queued_` flag, run-loop timers | setTimeout, setInterval, clear*, TimerCallback | a callback clears its own or another timer; the isolate dies under a pending timer | cleared timers never fire, timeouts fire once |
| **CommonJS loader** `runtime/ModuleInternal.mm` | `loadedModules_`, script cache files | RunModule, require, LoadModule, ResolvePath, script cache | cyclic requires, a module that throws half-way, stale cache files | one evaluation per module; a failed load can be retried |
| **ES module loader** `runtime/ModuleInternalCallbacks.mm`, `runtime/HMRSupport.mm` | `g_moduleRegistry`, fallback registry, in-flight set and waiters | ResolveModuleCallback, import(), RemoveModuleFromRegistry, HttpFetchText | registry shared by isolates and cleared by any teardown; concurrent import() of one URL; fetch timeout against late answer | one module per key; every import() promise settles |
| **Inspector** `inspector/JsV8InspectorClient.mm`, `inspector/InspectorServer.mm` | message vector, `isConnected_`, paused flags, two queues | enableInspector, onFrontendMessageReceived, runMessageLoopOnPause, quitMessageLoopOnPause, dispatchMessage | socket thread against main thread, nested pause, reconnect | each frontend message handled once, a pause always ends |
| **Task list, run-loop helpers, promise proxy** `runtime/Tasks.cpp`, `runtime/Helpers.mm`, `runtime/PromiseProxy.cpp` | task vector, lock and condition | Register, Drain, ExecuteOnRunLoop, resolve/reject on the creating thread | erase while iterating; the waiter frees the lock the notifier still holds | each task runs once; callbacks run on the thread that made the promise |
| **Interop, metadata, class builder, adapters** `runtime/Interop.mm`, `runtime/ClassBuilder.mm`, `runtime/MetadataBuilder.mm`, `runtime/ArgConverter.mm`, ... | per-isolate caches, native memory | alloc, free, adopt, handleof, struct constructors and getters, wrappers for returned objects; marshalling, prototype construction | who owns memory that two objects look at; otherwise large case analyses over types | one owner per block; a value survives the round trip |
| **Console, exceptions, URL, TextEncoder-like helpers** | timers of `console.time`, none | formatting | text | out of scope |
| **Metadata generator, live sync, JSI** `metadata-generator/`, `TKLiveSync/`, `v8runtime/` | build-time or adapter code | - | sequential | out of scope |
| **Sample application, scripts** `../AppWithModules/app/`, `../run-tests.js`, `../scripts/` | none of the runtime's | - | webpack output; short scripts | out of scope |

Interactions. `Worker` calls `WorkerWrapper`, which owns a `ConcurrentQueue`; the queue's
source is performed by the worker's CFRunLoop and calls back into
`WorkerWrapper::DrainPendingTasks`. Results travel the other way as blocks on the parent's
CFRunLoop (`ExecuteOnRunLoop`). `ObjectManager` deletes a wrapper from the parent's garbage
collector or from the parent's `~Runtime`; the worker's `~Runtime` deletes it when the parent
is gone. `Caches::Workers` is the process-wide table all of them look into. Native code calls the
replaced retain and release on its own threads; they reach the isolate through blocks on its run loop.

## 2. Modules and the code they model

| Module | Models | Extends / uses |
|---|---|---|
| `ConcurrentQueue` | the worker's message queue, one step per unguarded load, with the owner's CFRunLoop | - |
| `ConcurrentQueueProofs` | its theorems | `ConcurrentQueue` |
| `Mailbox` | abstract: what a Worker promises about messages | - |
| `WorkerLifecycle` | one Worker and its parent, from the constructor to the deletion of the wrapper | implements `Mailbox` |
| `WorkerLifecycleProofs` | its theorems and the proof of the refinement | `WorkerLifecycle` |
| `Timers` | setTimeout, setInterval, clear*, TimerCallback | - |
| `TimersProofs` | its theorems | `Timers` |
| `Inspector` | the debugger's message pump, pauses, connections | - |
| `InspectorProofs` | its theorems | `Inspector` |
| `ModulePaths` | operators: how require() turns a string into a file | - |
| `CommonJS` | require(), `loadedModules_`, nested loads | `ModulePaths` |
| `CommonJSProofs` | its theorems | `CommonJS` |
| `MCCommonJS` | a small application for TLC | `CommonJS` |
| `HttpModules` | import() of HTTP URLs and their static imports | - |
| `HttpModulesProofs` | its theorems | `HttpModules` |
| `MCHttpModules` | a cyclic graph of three URLs for TLC | `HttpModules` |
| `ObjectLifetime` | an Objective-C object and its JavaScript counterpart: `Instances`, retain and release | - |
| `ObjectLifetimeProofs` | its theorems | `ObjectLifetime` |
| `NativeMemory` | the C memory behind structs and Pointers | - |
| `NativeMemoryProofs` | its theorems | `NativeMemory` |
| `MCNativeMemory` | its symmetry for TLC | `NativeMemory` |

Operators whose name has a suffix after an underscore (`PushEnqueue_StaleNumber`) are mutants:
the operator that follows them with a plausible bug, used to see that a property can fail.
Every model keeps the source's names (`messagesQueue_`, `isTerminating_`, `timerMap_`, ...);
a variable marked *history* exists for the properties only.

**ConcurrentQueue.** Two kinds of thread: pushers (`pc[p]` is where a pusher stands in `Push` or
`SignalAndWakeUp`) and the owner (`loop`: start, script, first drain, entering the run loop,
looping, performing the source, asleep, exited). `tpc` is where a `Terminate` stands; it holds
`initializationMutex_` from its first to its last step, which is what `Initialize` waits for and
`Push` does not. `Push` loads `runLoopTasksSource_` three times and the model takes a step for
each; a source that was released is `"freed"`, and asking it whether it is valid may answer
either way. A pusher whose assertion fails ends in `"aborted"` and with it the process: the
liveness properties say so (`~Alive`). `CFRunLoopStop` sets `stopped` only for a run loop that is
running.

**WorkerLifecycle.** `ppc` is where the parent's thread stands in `ConstructorCallback`, `PostMessage`,
`Terminate`, the finalizer or `~Runtime`; `wpc` is where the worker's stands in `BackgroundLooper`
and below it. Accesses to the shared flags are separate steps. The operations of the queue are single
steps here, as `ConcurrentQueue` opens them up: `StopQueue` is its `Terminate`, and `lostStop`
records the one outcome that module finds. JavaScript is an environment that may post, send,
close, terminate, throw, loop for ever (the top-level script too), or lose its last reference. `interrupt` is V8's
`TerminateExecution`: `Terminate` makes it `"pending"` if `workerIsolate_` is assigned, and the first JavaScript it unwinds
makes it `"spent"`, after which another call may loop again. `faults` collects failed assertions and
undefined behaviour; `stateMissing`, `objectGone` and `doubleDelete` end the process, the others are
recorded and the model goes on. The composition with `Mailbox` is the refinement
`M == INSTANCE Mailbox WITH closed <- isClosing_, terminated <- isTerminating_, ...`.

**Timers.** A timer is three objects: the `TimerTask` (`queued_`, `repeats_`, `isolate_`), the
`TimerContext` (`retainCount`, `context`) and the CFRunLoopTimer (`timer`). JavaScript runs on the run
loop's thread or on another one, whichever holds `locker`; `cb` is where `TimerCallback` stands. Due
times are not modelled: a valid timer may fire at any time, which is every schedule.

**Inspector.** Three threads: the one that accepts frontends (`accepting`), one per frontend that
reads (`reading`), and the main thread (`main`, with `owner`: it is inside a block on
`messageLoopQueue_`, and `paused`: it is in the nested loop). Messages are numbered and
have one of four kinds; what a domain handler answers is left out. `refused` records that
a pump block found `runningNestedLoops_` set.

**ModulePaths, CommonJS.** A path is a sequence of names, a name the sequence of its dot-separated
parts, which is as much of a string as the cache key's cut at the last dot needs. `ResolvePathFromPackageJson` calls itself
for a `main` that is a directory with a `package.json` of its own; the model says without recursion which ones are read
(`PackagesRead`, the least set with the first directory in it that is closed under `Follows`), and answers with the entry of the one
that leads nowhere further, or with `Never` where all of them lead on: require() then takes no step any more. `stack` is
the C++ stack of loads; a frame is in phase `"script"` (reading and compiling) or `"body"` (the module's
code runs and may call require()). `loaded` is `loadedModules_`, with both kinds of key. `last` is what
the latest require() answered. Failures are possible at every stage, in the form
the build (debug or release) gives them.

**HttpModules.** `registry`, `inFlight` and `waiters` are the loader's three tables, `mods` V8's module
records, `promises` one per `import()`, `stack` the nested import() calls and evaluations, and `jobs` the
reactions that `Then` has attached. Linking, the order of evaluation and top-level await are V8's and
modelled from how the loader uses them; `Asked` is the smallest set of URLs that has the root and what its members import. A URL that is a component base is fetched anew each time
(`SfcBase`). A fetch is one step that succeeds or fails; so is linking, which then leaves the modules it
had compiled registered.

**ObjectLifetime.** An object is its address; `retainCount` is its count, `native` how many of the references
native code owns, `Instances` the handle the map holds. A retain or release takes three steps of the calling thread
(`pc`, `self`): the look at the count, the change of the protection (at once on the run loop, by an entry of `blocks`
elsewhere), and the class's own method. `pool` is what an autorelease pool of the run loop's thread is still to release.
`ConstructObject` is three actions, for alloc and init, for an initializer that returns an object that exists, and for a Pointer
argument; the last autoreleases a reference that may be nobody's and enters an object it does not find without taking one, and
`unbacked` (history) counts what is missing then. `taker` says for whom a retain is made; a wrapper that is made for a
returned object the caller owns retains and then releases (`mapOwned`). Native code is external: it retains what it has a
live pointer to and releases what it owns. `ReleaseNativeCounterpart` deallocates outright, and that nobody else owns the
object is left to its caller. `raced` and `jsBorn` are history. A thread that asks for the Runtime of an isolate
that died since `IsValid`, or a deallocation under somebody who counts on the object, ends the process (`crashed`).

**NativeMemory.** `allocated` is malloc's state, `Owners(a)` whoever will free the block at `a`: a struct object without a
parent, an adopted Pointer, or the application. A view is the object that reading a nested struct returns; it has the
address of its parent and a weak handle to it (`parent_`, `"reset"` once the handle is). The application may put a block under two
owners (`StructOverPointer`, `Adopt` of a struct's handle, `Free` of one); such addresses are `shared`, and the properties are about
the others. After `DestroyRuntime` every handle of `toVisit` is visited once, in any order, as `VisitHandlesWithClassIds` may; a struct
whose handles were visited while it still had views is passed over, and `hadViews` (history) says which structs had any. `WillFree(a)` are
the owners that are not passed over.

## 3. Runs

| Run | Instance | Shows |
|---|---|---|
| `queue` | one pusher, four messages | `NoStrandedMessage`; a terminated queue stays down and only then a Push can fail (`TerminatedStaysDown`); every message is popped, a stop ends the loop |
| `queue_loststop` | one message | violated: `TerminateEndsLoop` |
| `lifecycle` | two posts, one block to the parent, a repeating timer | the registry entry is there when the worker looks for it, except before its insertion, and gone at the end (`RegistryFollowsThread`), the wrapper outlives the work (`WrapperKeptWhileRunning`), messages behave as `Mailbox`; close() ends the thread, terminate() ends it unless the stop is lost or JavaScript loops out of reach of `TerminateExecution` (`OutOfReach`), queued messages arrive |
| `timers` | two timers, two threads | retain counts and the map agree with the native timers, a null isolate is locked for a cleared timer only (`EntryIsLive`), a cleared timer does not run, a timeout does |
| `inspector` | two frontends, two messages of any kind | messages are handled once and in order; what is left behind is left by a refused pump block; pauses and waits end |
| `inspector_pause` | one frontend, a pause and an evaluation | violated: `PauseReachesLoop` |
| `commonjs` | five files, twelve requests, a chain of `package.json` files and a `main` that is `"."`, three instances, one live sync | one instance per file, no failed module offered, loaded ones stay, JSON whole |
| `http_modules` | three URLs in a cycle, four modules, three import() calls | in-flight URLs have one owner, one evaluation per URL, every import() is answered, once, and resolved only with a module that V8 reports as evaluated (`AnsweredOnce`) |
| `http_await` | the same | violated: `ResolvedAfterSettling` |
| `object_lifetime` | one address, the run loop and two threads, three native references, one cast of a Pointer at a time | an object at rest has the references that native code, autorelease pools and the map own, less what casts of Pointers gave away without having it (`CountIsExact`); without overlapping calls and with a whole count the protection follows the references that are not the map's (`ProtectTracksOwners`) |
| `object_race` | the same with one thread | violated: `KeptWhileOwned` |
| `native_memory` | two addresses, three objects, two views | memory that was not put under two owners is never freed twice, and lost only in the final pass, by a struct that had views (`OneOwner`); a view never looks into a freed block (`ViewsKeepTheirBlock`) |

**Bounds.** `MaxPush`, `MaxPosts`, `MaxSends`, `MaxTimers`, `MaxMessages`, `MaxConnects`, `MaxInstances`,
`MaxSyncs`, `MaxModules`, `MaxImports`, `MaxNative`, `MaxBlocks`, `MaxCasts` and `MaxViews` cap how often something new comes from outside; each is a
conjunct of the guard of the action that creates the thing. Two messages are enough for an order to be
wrong and for one to be in the drained batch while the other is still being pushed; the queue run takes
four so that a message can arrive before `Initialize`, between it and the first drain, during a perform and
while the loop sleeps. Two timers are needed for one to clear the other. Two frontends are needed for one to
replace the other during a pause. Three instances allow a cycle of two with a third load that fails, and three URLs
a cycle with an import from inside an evaluation. Two threads beside the run loop and three references allow
a retain, a release and a block of one object to overlap; objects do not interact, and an address is used again. One cast at a time leaves an object short of two references, for the pool and
for a new entry, and others can follow it. Three struct
objects are a parent and two views, or two owners and a view of one; a second address makes an address that is used
again differ from a new one. Struct objects and addresses are interchangeable (`Symmetry`; only invariants are checked
there). The worker's parent pushes from one thread, its own,
as the code does; the proofs hold for any set of pushers.

**Deadlock** is not checked: each of these components may really stop (a worker ends, a runtime is
destroyed, the bounds are used up).

**Fairness.**
- *Threads are scheduled*: a thread inside a native call takes its next step (WF on `PushNext`,
  `TerminateNext`, `OwnerNext`, `ParentStep`, `WorkerStep`, `LoopStep`, `MainStep`). What JavaScript
  or the user *may* do (a new Push, terminate(), close(), a new frontend, garbage collection) has none.
- *Run loops look at everything on every pass* however often a timer fires: SF on `PerformSource` and
  `ExitRunLoop`, on `Fire(i)`, and on the main queue's blocks (`RunPumpBlock`, `RunBreakBlock`, `WaitTimeout`).
- *A lock that is free again and again is taken*: SF on `TakeLock` (Timers), `ReplaceSession` and `StartupDone` (Inspector).
- *JavaScript returns* in Timers, Inspector and HttpModules (WF on `Step(t)`, `EvalReturns`, `Evaluation`), and
  a top-level await settles (`AwaitSettles`): `TimeoutRuns` and `EveryImportSettles` are about the runtime's part of the
  work. In WorkerLifecycle it need not return: script, handlers and timer callbacks may spin for ever, and only `TerminateExecution` ends them: once, and only what runs
  after `workerIsolate_` was assigned.
- *No fairness* in ObjectLifetime and NativeMemory: a collection is never guaranteed, so nothing is claimed to be freed eventually.

## 4. Findings

Each is the violation a run finds of something the repository says of itself.

1. `queue_loststop`: `WorkerWrapper.mm:110` looks again at `isTerminating_` "as it could terminate before
   this", but a `Terminate` after the look and before `CFRunLoopRun` stops a run loop that is not
   running; the thread sleeps for ever. This gap is the only way to lose a stop (theorem `OnlyOneGapLosesAStop`,
   for `WorkerLifecycle`).
2. `inspector_pause`: "Debugger.pause needs to interrupt V8 even if the main thread is busy executing JS"
   (`JsV8InspectorClient.mm:145`); if that JavaScript is an evaluation a pump block dispatched,
   `runMessageLoopOnPause` calls `dispatch_sync` on the queue that block runs on. Without such an evaluation the main thread is never stuck
   (theorem `StuckOnlyInEvaluation`), and a pause that no pump block started gets into the loop (`OtherPausesReachLoop`).
3. `object_race`: "Since we want to keep the corresponding JavaScript object alive even if it is not used anywhere, we call
   GcProtect on it" (`ClassBuilder.mm:301`). A release on another thread has read a count of 2, and its unprotect block has run, when
   the run loop passes the object to native code: that retain reads 2 as well, so it does not protect. Both then
   change the count; native code owns a reference of an object whose counterpart is collected.
4. `http_await`: "If Evaluate returned a Promise (top-level await), wait until it settles before resolving"
   (`ModuleInternalCallbacks.mm:2103`; `:1977` and `:2001` say the same of the registry's modules and of waiters). By then
   `CompileModuleFromSourceRegisterFirst` has evaluated the module and discarded that promise (`:172`), and V8 reports `kEvaluated` for a
   module that is suspended in a top-level await, so the branch that would wait is skipped (`:2085`) and import() is
   resolved while the module still awaits.

Seen while modelling, and not stated as runs of their own, most of them because no comment, test or assertion says
otherwise: `Worker.mm:236` and `:359` assert the worker's entry in `Caches::Workers`, but its thread is started (`:210`) before the entry is inserted
(`:215`), so that a quick script fails the assertion (`RegistryFollowsThread` allows it there and nowhere else); an endless top-level script cannot be terminated, nor can a timer callback that
loops after the one `TerminateExecution` has unwound another call (`WorkerWrapper.mm:138-141`); a pusher can fail the assertion of `ConcurrentQueue.cpp:45`, or use a released source, when `Terminate` comes
between its loads; a block on the parent's run loop can find the Worker object gone, or its isolate disposed;
a wrapper can be deleted while the worker is in `~Runtime`, and one can leak when `IsWeak()` is read between
the parent's look at `isDisposed()` and `MakeWeak()`; `TimerCallback` can lock a null isolate after a clear on another thread,
and can touch a `TimerState` that the function it called has destroyed; a message that arrives in a pause can
be left until the next one; a message that is not JSON throws out of `dispatchMessage`; a new frontend waits as long as
the main thread is paused; a missing relative or absolute file gets a placeholder that stays after live sync has brought
the file; an `.mjs` entry that is also required is evaluated twice; a close() from a timer callback is followed by no drain and
ends nothing until the next message (`WorkerWrapper.mm:132`); the cache key cuts a name at its last dot, so the second of `./file.name` and
`./file.other` is answered with the first (`ModuleInternal.mm:438`); the cache-hit branch of import() calls `Evaluate` on modules that
are being evaluated or were never linked (`ModuleInternalCallbacks.mm:1987`); a reference the caller owns is lost when
`Instances` has the returned object; an object born in native code that is first seen with a count of two or more is not
protected until its count has been down to one; handles made with `skipGCRegistration` outlive `~Runtime`; a retain or release can get
`nullptr` for the Runtime of an isolate that dies after `IsValid`; a constructor called with a Pointer from `interop.handleof`, as the test
`CastPointerToNSObject` (`ReferenceTests.js:609`) does, autoreleases a reference it does not have (`ArgConverter.mm:355-361`), and one called with a Pointer
to an object the map does not have enters it without a reference (`:395-396`), so that the object can be deallocated under its owners; an initializer that returns
an object the map has loses the reference it was given; memory under two owners is freed by both; in the final pass a parent
visited before its views leaks its block. A `package.json` whose `main` is `"."`
recurses for ever (`Never` in `ModulePaths`, and `CyclicMainNeverReturns` proves it of every circle).

## 5. Proofs

TLAPS proves the following for every value of the constants, from the `ASSUME`s in the modules (bounds are
naturals, the owner is not a pusher, sets that are counted are finite, special values such as `"none"` are no objects, paths and requests are sequences
of names and the application is not at the root; nothing about sizes). Each inductive invariant was an invariant of a TLC
run first.

**ConcurrentQueueProofs**: `TypeCorrect`, `TerminatedIsFinal`, `NoMessageIsStranded`. `NoStrandedMessage` speaks of a
sleeping loop only, and to show that a loop about to sleep has nothing to strand one needs to know about the queue
at every earlier point. The invariant adds (a) `Control`: the step of `Terminate` tells the state of the source and of both fields, and
a loaded source is live until `Terminate` begins, which is why a Push cannot fail before; (b) `SignalSetOrComing`: from the first drain on, a
non-empty queue has its signal set or a pusher on its way to set it. The heart is the step `SignalLoad` of a pusher that finds no
source: the field is set from `Initialize` to `Terminate`, so the owner cannot have drained yet, or the queue is terminated.
`StoppedLoopIsWoken`: a loop that was stopped is not asleep without a wake-up to consume.

**TimersProofs**: `TimersTypeCorrect`, `ContextsMatchTimers`, `EntriesAreLive`, `ClearedTimersNeverRun`. The invariant says that a
retain count is the number of its holders (`RetainsBalance`: the valid timer, the firing callback, the
creator still inside `SetTimer`), which makes the type of the count (0..3) and the deletion at zero provable;
that an id in the map is held by a valid timer or by the callback that will remove it (`EntryIsHeld`); and
that an isolate is loaded for a queued or cleared timer only (`LoadIsGuarded`), which bounds the unlocked look at `queued_`; and
that a cleared id is not queued (`ClearedIsGone`), which with `TimerCallback`'s second look under the lock gives
the action property. `QueuedTimersAreDriven`: an id in the map has a valid CFRunLoopTimer or is the firing one.

**CommonJSProofs**: `FilesAreShared`, `CacheIsSound`, `ModulesStay`, `JsonIsWhole`, `LoaderIsTyped`. The first four assume nothing of file system,
requests or path resolution. The invariant is about ownership of keys: the keys of a load under way are in the cache and name
its instance, no two loads share an instance (`LoadsOwn`), an entry that is not of a finished module is owned by a load
(`EntryIsOwned`), a live instance of a file is found under the file's path (`LiveIsFound`), and a key tells whether its entry is JSON
(`KeyTellsKind`). So `~TempModule` takes away exactly what its load has entered.
`LoaderIsTyped` adds the types of what was made, cached, under way, answered and on the device, and rests on lemmas that every case of `FullPath` and
`ResolvePath` answers a path or one of the special values. `PackageJsonRecursion` shows that the model's non-recursive
`ResolvePathFromPackageJson` satisfies the equation of the code's recursion in every file system, and `CyclicMainNeverReturns` that a
circle of `main`s has no answer.

**WorkerLifecycleProofs**: `Typing`, `RegistryMatchesThread`, `WrapperIsKept`, `MailboxRefinement`. The flags are tested a step before the answer
is used, so the invariant says what an old answer is still worth. `Stages`: where each thread can stand given the flags (`isDisposed_` is
set exactly from the end of the run loop on, a running interrupt means `isTerminating_`). `Registry`: the parent inserts the entry once,
and a thread that ends without a fault finds it inserted and removes it. `Aligned`: while a batch may still be handed to `onmessage`, batch and queue
hold in order what was accepted and not delivered; after a flag was raised they need not, and `LastOnes` says that the one message queued or delivered
behind a flag is the last. `BatchEmptied` is what a new drain needs: only a worker that closes or terminates gives a batch up. The refinement
has one step per action: a step of `WorkerLifecycle` maps to one of `Mailbox` or leaves its variables alone.
`RegistryMatchesThread` follows the registry entry from its
insertion to the worker's own removal. Two more theorems say what a liveness property asks of the states, or that a finding has one cause. `OnlyOneGapLosesAStop` and `WaitingWorkerIsSignalled` (a worker that waits in its run loop is stopped if it is to
terminate, and signalled if it has messages) need `Origins`: whoever raises `isTerminating_` stops the queue afterwards, `Initialize` comes before the
Runtime, `workerIsolate_` is assigned just before the first drain, timers fire in the run loop.

**InspectorProofs**: `Typing`, `DispatchOrder`, `NobodyForgotten`. `NumbersInOrder`: the messages dispatched, the one in hand and those that
wait are the numbers of the messages received, whoever pumps. `Control`: the main thread is never inside a pump block and inside the
loop of a pause at once, so `runningNestedLoops_` tells exactly when a block is refused. `BlocksAreOwed` bounds the blocks by the messages, and
`BlockIsComing`, a message that waits has a reader about to post a block, a posted block, or an owner that will look again unless one was
refused, is `LeftOnlyAfterRefusal` at every step rather than at rest. `StuckOnlyInEvaluation` and `OtherPausesReachLoop` delimit finding 2: a
thread in a pump block runs JavaScript only after a message that does so was dispatched (`BlockRunsEvaluation`).

**HttpModulesProofs**: `Typing`, `FlightIsOwned`, `OneInstanceOfAUrl`, `ImportsAnsweredOnce`, for every graph of URLs. `Paired`: a module that is linked,
running or done is the registry's entry of its URL (component bases apart), and this survives `InstantiateModule` fetching and linking any set of URLs.
`Evaluations`: the stack is a pile of import() calls, each with the modules its evaluation has entered and not finished; no module is entered
twice, and the order of entering is the order on the stack, so that a cycle that finishes or fails settles exactly what it
has entered (`Pile`, `EnteredOnce`, `EnteredInOrder`). `Flight` is `InFlightIsOwned`, with one owner even after an abort. `Holders`: every pending promise is
answered from one place, a call, a reaction or a list of waiters, or from the owner of a URL and its list together, which is why settling never
meets a settled promise. `ImportsAnsweredOnce` is an action property: each action that settles is shown to do so for a pending promise and, when it resolves, with a module that V8 reports as evaluated. `PendingIsAnswered` is the converse of
`Holders`: no pending promise is forgotten by all of them (`Remembered`), so a call or a reaction is going to settle it.

**ObjectLifetimeProofs**: `CountsAreExact`, `LifetimeTypes`, `ProtectionTracks`. `CountIsExact` speaks of an object at rest; the invariant `Accounted` holds at
every step: the count, plus one if the map has an entry whose retain is still to run, plus what is `unbacked`, is what native code and autorelease pools own plus one for the entry plus the
number of releases in progress. Since a missing reference could let an object be deallocated and its address be used again with the debt still
open, the proof also needs `CountedOn`: while something is unbacked and the process runs, the object is there. It rests on two facts about threads: only the run loop retains for the map (`MapIsServedOnLoop`), and
the entry is there while it does (`EntryIsThere`). `LeakedAtTheEnd` is what the final pass needs: every entry it
finds is either released or stays. The overlaps that break `KeptWhileOwned` do not disturb the count.
The bounds in `TypeOK` need to know who stands behind a retain under way (`Backed`) and count the calls in progress against `MaxNative`
(`WithinBounds`, and `CastsWithinBounds` for the pools). `ProtectTracksOwners` is about objects that were never `raced`; `Tracking` follows such an object through its one call: what the
handle will be once the posted block has run (`WillBe`) agrees with the references that are not the map's, shifted by what the call has read and not yet changed
(`InStep`), and there is at most one block (`Alone`).

**NativeMemoryProofs**: `BlocksHaveOneOwner`, `ViewsAreSafe`, `MemoryTypes`. The first needs `EntryIsOwner`: `StructToValue` drops a block it has
just allocated when `StructInstances` has an entry, and the entry's owner is what makes that block `shared`. The second relates
`childCount_` to the views: a parent is an owner at its view's address (`ParentIsOwner`), the count is exact while the isolate runs and never too
small afterwards (`CountsExact`, `CountsEnough`, `Covered`), and views of memory with one owner have that owner (`ViewsHaveOwner`). So
the owner's count is zero only when the last view is gone, whoever is visited first. The third adds that JavaScript refers to objects with a
wrapper only (`ReachableLives`), whose address `handleof` reads.
`BlocksHaveOneOwner` says who loses a block: after `~Runtime` began a struct that counts views had them then (`CountedHadViews`), and one whose handles were all visited
and which still has its wrapper was passed over because it counted some (`PassedOver`).

Model-checked only: the liveness properties (fairness and ENABLED are outside this prover's reach): `EveryMessagePopped`, `StopEndsLoop`,
`TerminateEndsWorker`, `HandlerCloseEndsWorker`, `QueuedIsDelivered`, `TimeoutRuns`, `EveryImportSettles`, `EveryMessageHandled`, `ResumeEndsPause`,
`WaitingEnds` and `NewFrontendGetsSession`. For most of them the state predicate
they rest on is proved (`NoMessageIsStranded`, `StoppedLoopIsWoken`, `OnlyOneGapLosesAStop`, `WaitingWorkerIsSignalled`, `QueuedTimersAreDriven`, `NobodyForgotten`,
`PendingIsAnswered`); what TLC adds is that the threads' turns then come. Every invariant and every safety action property of the passing runs is a theorem.

## 6. Not modelled

- *Marshalling of values, prototypes from metadata, collection adapters*: case analyses over types with little state shared between
  threads. Blocks, references, function references and vectors are freed with their only owner.
- *The sample application's bundle* (`AppWithModules/app/vendor.js`, `runtime.js`, `bundle.js`: Angular, RxJS and NativeScript
  core as webpack wrote them) is the largest JavaScript of the repository, is generated from code kept elsewhere, and is run by the
  runtime rather than part of it. *Scripts* (`run-tests.js`, `prepare-target.js`, `scripts/`) compute a version number or a tag, or
  receive one test report; they keep no state. The runtime itself is Objective-C++.
- *Console, exceptions, text helpers, metadata generator, live sync's file copier, JSI*: text, or sequential code
  outside the runtime.
- *Start-up of a Runtime* (templates and globals), serialisation of messages, several workers at once, a second request to attach a debugger.
- *Simplifications*: linking that fails leaves every module of the graph unlinked in `HttpModules` (V8 may leave finished components
  linked; the loader does not tell these apart). `EveryImportSettles` assumes that every top-level await settles, also one that awaits the
  import in flight. `ObjectLifetime` is about classes whose retain and release are replaced, those made through `__extends`; classes
  made with `.extend()` keep NSObject's.
- *ES modules from files, blob URLs, the resolution stack with its reentry counts, the fallback registry, hot data*: planned.
- *The script cache on disk* (written and stamped in two steps), the process-wide `Buffer` of `Helpers.mm`, one `g_moduleRegistry`
  for all isolates that any worker's `~Runtime` clears, and the fetch timeout against its late completion handler: planned.

## 7. Plan

The modules above are the core of the system; what follows extends it, in order of importance.

1. `EsFileModules`: `ResolveModuleCallback` for files, with the resolution stack, reentry counts and fallbacks; one module per key, and a bounded
   depth for every cyclic graph.
2. `SharedRegistry`: two isolates over `g_moduleRegistry` and the per-thread tables, with a teardown that clears it;
   no isolate uses the other's handles.
3. `ScriptCache`: writers and readers of the code cache across a crash between write and stamp.
4. `RunLoopTasks`: `ExecuteOnRunLoop`, `Tasks::Drain` and `PromiseProxy`; each task once, callbacks on the thread that made the promise.
5. `HttpFetch`: the six-second wait, its retry, and the handler that is still running.
6. Proofs: every safety property of the passing runs is proved. What is left are the theorems of the modules above.
