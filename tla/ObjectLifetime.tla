--------------------------- MODULE ObjectLifetime ---------------------------
(***************************************************************************)
(* An Objective-C object and its JavaScript counterpart, for classes that  *)
(* JavaScript extended.  Caches::Instances maps the object to a weak       *)
(* handle of its counterpart and owns one reference of the object;         *)
(* ClassBuilder replaces retain and release so that the counterpart is     *)
(* protected from the garbage collector while anybody else owns one.       *)
(*                                                                         *)
(* retain and release may be called on any thread.  Each reads the retain  *)
(* count, changes the protection if the count says so (at once on the      *)
(* runtime's run loop, by a block posted to it elsewhere) and only then    *)
(* calls the class's own method: three steps here.                         *)
(*                                                                         *)
(* Objects are named by their address, and addresses are used again.       *)
(* Native code is external: it retains what it has a live pointer to and   *)
(* releases what it owns.                                                  *)
(***************************************************************************)
EXTENDS Naturals, Sequences, FiniteSets

CONSTANTS Addrs,        \* addresses of objects of extended classes
          Background,   \* threads other than the runtime's run loop
          MaxNative,    \* bound: references native code owns of one object
          MaxBlocks,    \* bound: blocks waiting when a background call begins
          MaxCasts      \* bound: references of one object in autorelease pools

ASSUME LifetimeAssumption ==
  /\ "loop" \notin Background /\ IsFiniteSet(Background)
  /\ MaxNative \in Nat /\ MaxBlocks \in Nat /\ MaxCasts \in Nat

Threads == {"loop"} \cup Background

VARIABLES
  retainCount,    \* of the object at an address; 0 when there is none
  native,         \* how many of these references native code owns
  lost,           \* how many of those nobody will ever give back
  pool,           \* releases that an autorelease pool of the run loop's thread owes
  \* the isolate, on the thread "loop"
  Instances,      \* the handle the map holds: "none", "weak", "strong", or
                  \* "leaked": strong, and the map is gone
  gcProtected_,   \* of the wrapper of the counterpart
  reachable,      \* JavaScript refers to the counterpart
  runtime,        \* TRUE until ~Runtime
  blocks,         \* on the run loop: <<"protect" or "unprotect", address>>
  \* the threads
  pc, self,       \* where a thread stands in retain or release, of which object
  taker,          \* who gets the reference: native code, from JavaScript
                  \* ("passed") or from itself ("copied"), or the map, with a
                  \* release to follow ("mapOwned") or not ("map")
  crashed,        \* a thread used the Runtime of a dead isolate, or an object was
                  \* deallocated under somebody who counts on it: what follows
                  \* is undefined
  \* history
  unbacked,       \* references that the map or a pool counts on and nobody gave
  jsBorn,         \* the object was created by JavaScript and is still in the map
  raced           \* two calls, or a call and a block, overlapped on the object

objects == <<retainCount, native, lost, pool, unbacked>>
isolate == <<Instances, gcProtected_, reachable, runtime>>
threads == <<pc, self, taker, crashed>>
hist == <<jsBorn, raced>>
vars == <<objects, isolate, blocks, threads, hist>>

RetainSteps == {"retain", "protect", "callRetain"}
ReleaseSteps == {"release", "unprotect", "callRelease"}

TypeOK ==
  /\ retainCount \in [Addrs -> 0..(MaxNative + MaxCasts + 2)]
  /\ native \in [Addrs -> 0..MaxNative]
  /\ lost \in [Addrs -> 0..MaxNative]
  /\ pool \in [Addrs -> 0..MaxCasts] /\ unbacked \in [Addrs -> 0..(MaxCasts + 1)]
  /\ Instances \in [Addrs -> {"none", "weak", "strong", "leaked"}]
  /\ gcProtected_ \in [Addrs -> BOOLEAN]
  /\ reachable \in [Addrs -> BOOLEAN]
  /\ runtime \in BOOLEAN
  /\ blocks \in Seq({"protect", "unprotect"} \X Addrs)
  /\ pc \in [Threads -> {"idle"} \cup RetainSteps \cup ReleaseSteps]
  /\ self \in [Threads -> Addrs]
  /\ taker \in [Threads -> {"passed", "copied", "map", "mapOwned"}]
  /\ crashed \in BOOLEAN
  /\ jsBorn \in [Addrs -> BOOLEAN]
  /\ raced \in [Addrs -> BOOLEAN]

Init ==
  /\ retainCount = [a \in Addrs |-> 0]
  /\ native = [a \in Addrs |-> 0] /\ lost = [a \in Addrs |-> 0]
  /\ pool = [a \in Addrs |-> 0] /\ unbacked = [a \in Addrs |-> 0]
  /\ Instances = [a \in Addrs |-> "none"]
  /\ gcProtected_ = [a \in Addrs |-> FALSE]
  /\ reachable = [a \in Addrs |-> FALSE]
  /\ runtime = TRUE /\ blocks = <<>>
  /\ pc = [t \in Threads |-> "idle"]
  /\ self \in [Threads -> Addrs]
  /\ taker = [t \in Threads |-> "copied"]
  /\ crashed = FALSE
  /\ jsBorn = [a \in Addrs |-> FALSE] /\ raced = [a \in Addrs |-> FALSE]

-----------------------------------------------------------------------------
Idle(t) == ~crashed /\ pc[t] = "idle"

\* JavaScript runs, and native code that it calls or that calls it.
InJs == Idle("loop") /\ runtime

Working(a) == {t \in Threads : pc[t] # "idle" /\ self[t] = a}

Pending(a) == \E i \in DOMAIN blocks : blocks[i][2] = a

\* A retain in progress needs a reference that somebody keeps meanwhile: native
\* code, unless the map has one.
Borrowed(a) ==
  IF \E t \in Working(a) : pc[t] \in RetainSteps /\ taker[t] \in {"copied", "map"}
  THEN 1 ELSE 0

GoTo(t, step) == pc' = [pc EXCEPT ![t] = step]

\* Thread t enters retain or release of the object at a.
Enter(t, a, step, who) ==
  /\ GoTo(t, step)
  /\ self' = [self EXCEPT ![t] = a]
  /\ taker' = [taker EXCEPT ![t] = who]
  /\ raced' = [raced EXCEPT ![a] = @ \/ Working(a) # {} \/ Pending(a)]
  /\ UNCHANGED crashed

-----------------------------------------------------------------------------
(* retain *)

\* The counterpart of an object is passed to native code, which retains it.
PassToNative(a) ==
  /\ InJs
  /\ reachable[a]
  /\ native[a] + Cardinality(Working(a)) < MaxNative
  /\ Enter("loop", a, "retain", "passed")
  /\ UNCHANGED <<objects, isolate, blocks, jsBorn>>

\* Native code on thread t copies a reference.
NativeRetain(t, a) ==
  /\ Idle(t)
  /\ native[a] > 0
  /\ native[a] + Cardinality(Working(a)) < MaxNative
  /\ t \in Background => Len(blocks) < MaxBlocks
  /\ Enter(t, a, "retain", "copied")
  /\ UNCHANGED <<objects, isolate, blocks, jsBorn>>

\* The replaced retain: IsValid, and the look at the retain count.
ReadForRetain(t) ==
  /\ ~crashed /\ pc[t] = "retain"
  /\ GoTo(t, IF runtime /\ retainCount[self[t]] = 1 THEN "protect" ELSE "callRetain")
  /\ UNCHANGED <<objects, isolate, blocks, self, taker, crashed, hist>>

\* What gcProtect and gcUnprotect do: nothing when the map no longer has the
\* address, or when Caches::Get answers with its dummy after ~Runtime.
SetProtection(kind, a) ==
  gcProtected_' = [gcProtected_ EXCEPT
                     ![a] = IF runtime /\ Instances[a] # "none" THEN kind = "protect" ELSE @]

\* The block runs at once on the run loop and is posted to it elsewhere.
\* GetRuntime of a dead isolate is nullptr.
ChangeProtection(t, kind) ==
  \/ /\ ~runtime
     /\ crashed' = TRUE
     /\ UNCHANGED <<gcProtected_, blocks>>
  \/ /\ runtime /\ t = "loop"
     /\ SetProtection(kind, self[t])
     /\ UNCHANGED <<blocks, crashed>>
  \/ /\ runtime /\ t # "loop"
     /\ blocks' = Append(blocks, <<kind, self[t]>>)
     /\ UNCHANGED <<gcProtected_, crashed>>

GcProtect(t) ==
  /\ ~crashed /\ pc[t] = "protect"
  /\ ChangeProtection(t, "protect")
  /\ GoTo(t, "callRetain")
  /\ UNCHANGED <<objects, Instances, reachable, runtime, self, taker, hist>>

\* The class's own retain.  A wrapper made for a returned object that the
\* caller owns is followed by a release (Interop::GetResult).
CallRetain(t) ==
  /\ ~crashed /\ pc[t] = "callRetain"
  /\ LET a == self[t]
     IN  /\ retainCount' = [retainCount EXCEPT ![a] = @ + 1]
         /\ native' = [native EXCEPT ![a] = IF taker[t] \in {"passed", "copied"}
                                              THEN @ + 1 ELSE @]
  /\ GoTo(t, IF taker[t] = "mapOwned" THEN "release" ELSE "idle")
  /\ UNCHANGED <<lost, pool, unbacked, isolate, blocks, self, taker, crashed, hist>>

-----------------------------------------------------------------------------
(* release *)

\* Native code on thread t gives up a reference.
NativeRelease(t, a) ==
  /\ Idle(t)
  /\ native[a] > lost[a] + Borrowed(a)
  /\ t \in Background => Len(blocks) < MaxBlocks
  /\ native' = [native EXCEPT ![a] = @ - 1]
  /\ Enter(t, a, "release", "copied")
  /\ UNCHANGED <<retainCount, lost, pool, unbacked, isolate, blocks, jsBorn>>

\* An autorelease pool of the run loop's thread is drained: one of its releases.
DrainPool(a) ==
  /\ Idle("loop")
  /\ pool[a] > 0
  /\ pool' = [pool EXCEPT ![a] = @ - 1]
  /\ Enter("loop", a, "release", "copied")
  /\ UNCHANGED <<retainCount, native, lost, unbacked, isolate, blocks, jsBorn>>

ReadForRelease(t) ==
  /\ ~crashed /\ pc[t] = "release"
  /\ GoTo(t, IF runtime /\ retainCount[self[t]] = 2 THEN "unprotect" ELSE "callRelease")
  /\ UNCHANGED <<objects, isolate, blocks, self, taker, crashed, hist>>

\* Mutant: off the run loop the protection is not taken back.
GcUnprotect_OnLoopOnly(t) ==
  /\ ~crashed /\ pc[t] = "unprotect"
  /\ IF t = "loop" THEN ChangeProtection(t, "unprotect")
                   ELSE UNCHANGED <<gcProtected_, blocks, crashed>>
  /\ GoTo(t, "callRelease")
  /\ UNCHANGED <<objects, Instances, reachable, runtime, self, taker, hist>>

GcUnprotect(t) ==
  /\ ~crashed /\ pc[t] = "unprotect"
  /\ ChangeProtection(t, "unprotect")
  /\ GoTo(t, "callRelease")
  /\ UNCHANGED <<objects, Instances, reachable, runtime, self, taker, hist>>

\* The class's own release, which deallocates at zero.
CallRelease(t) ==
  /\ ~crashed /\ pc[t] = "callRelease"
  /\ retainCount' = [retainCount EXCEPT ![self[t]] = @ - 1]
  /\ crashed' = (retainCount[self[t]] = 1 /\ unbacked[self[t]] > 0)
  /\ GoTo(t, "idle")
  /\ UNCHANGED <<native, lost, pool, unbacked, isolate, blocks, self, taker, hist>>

\* A posted block runs.
RunBlock ==
  /\ Idle("loop")
  /\ blocks # <<>>
  /\ SetProtection(Head(blocks)[1], Head(blocks)[2])
  /\ blocks' = Tail(blocks)
  /\ UNCHANGED <<objects, Instances, reachable, runtime, threads, hist>>

-----------------------------------------------------------------------------
(* Objects and their counterparts *)

\* Mutant: the reference of the map is taken although alloc gave one.
ConstructObject_Retains(a) ==
  /\ InJs
  /\ retainCount[a] = 0 /\ Instances[a] = "none"
  /\ retainCount' = [retainCount EXCEPT ![a] = 2]
  /\ Instances' = [Instances EXCEPT ![a] = "weak"]
  /\ gcProtected_' = [gcProtected_ EXCEPT ![a] = FALSE]
  /\ reachable' = [reachable EXCEPT ![a] = TRUE]
  /\ jsBorn' = [jsBorn EXCEPT ![a] = TRUE]
  /\ raced' = [raced EXCEPT ![a] = Pending(a)]
  /\ UNCHANGED <<native, lost, pool, unbacked, runtime, blocks, threads>>

\* ArgConverter::ConstructObject: alloc and init; the map gets their reference.
ConstructObject(a) ==
  /\ InJs
  /\ retainCount[a] = 0 /\ Instances[a] = "none"
  /\ retainCount' = [retainCount EXCEPT ![a] = 1]
  /\ Instances' = [Instances EXCEPT ![a] = "weak"]
  /\ gcProtected_' = [gcProtected_ EXCEPT ![a] = FALSE]
  /\ reachable' = [reachable EXCEPT ![a] = TRUE]
  /\ jsBorn' = [jsBorn EXCEPT ![a] = TRUE]
  /\ raced' = [raced EXCEPT ![a] = Pending(a)]
  /\ UNCHANGED <<native, lost, pool, unbacked, runtime, blocks, threads>>

\* The end of ConstructObject for an object that exists: its entry is found, or a
\* new one is made, in either case without a retain.
FindOrEmplace(a) ==
  /\ Instances' = [Instances EXCEPT ![a] = IF @ = "none" THEN "weak" ELSE @]
  /\ gcProtected_' = [gcProtected_ EXCEPT ![a] = @ /\ Instances[a] # "none"]
  /\ reachable' = [reachable EXCEPT ![a] = TRUE]
  /\ UNCHANGED runtime

\* The initializer returns another object than alloc's, with a reference that
\* native code gives away: to the new entry, or to nobody if there is one.
ConstructFromInitializer(a) ==
  /\ InJs
  /\ native[a] > lost[a] + Borrowed(a)
  /\ native' = [native EXCEPT ![a] = IF Instances[a] = "none" THEN @ - 1 ELSE @]
  /\ lost' = [lost EXCEPT ![a] = IF Instances[a] = "none" THEN @ ELSE @ + 1]
  /\ FindOrEmplace(a)
  /\ UNCHANGED <<retainCount, pool, unbacked, blocks, threads, hist>>

\* The argument is a Pointer: CFBridgingRelease, which without ARC autoreleases
\* the object.  The reference this uses up is one that came with the pointer
\* (owned), or nobody's (a pointer from interop.handleof, or one that native code
\* only lends).
ConstructFromPointer(a, owned) ==
  /\ InJs
  /\ IF owned THEN native[a] > lost[a] + Borrowed(a) ELSE reachable[a] \/ native[a] > 0
  /\ pool[a] < MaxCasts /\ unbacked[a] < MaxCasts
  /\ native' = [native EXCEPT ![a] = IF owned THEN @ - 1 ELSE @]
  /\ pool' = [pool EXCEPT ![a] = @ + 1]
  /\ unbacked' = [unbacked EXCEPT ![a] = @ + (IF owned THEN 0 ELSE 1)
                                           + (IF Instances[a] = "none" THEN 1 ELSE 0)]
  /\ FindOrEmplace(a)
  /\ UNCHANGED <<retainCount, lost, blocks, threads, hist>>

\* Native code creates an object of the class, or one lands at the address.
NativeAlloc(a) ==
  /\ ~crashed
  /\ retainCount[a] = 0
  /\ MaxNative > 0
  /\ retainCount' = [retainCount EXCEPT ![a] = 1]
  /\ native' = [native EXCEPT ![a] = 1]
  /\ lost' = [lost EXCEPT ![a] = 0]
  /\ jsBorn' = [jsBorn EXCEPT ![a] = FALSE]
  /\ raced' = [raced EXCEPT ![a] = Pending(a)]
  /\ UNCHANGED <<pool, unbacked, isolate, blocks, threads>>

\* An object reaches JavaScript: as a result or an argument with a weak handle,
\* as the receiver of a method that JavaScript implements with a strong one
\* (skipGCRegistration).  An object the map has is found, and then a reference
\* the caller owned is not released.
CreateJsWrapper(a, handle, owned) ==
  /\ InJs
  /\ native[a] > lost[a] + Borrowed(a)
  /\ reachable' = [reachable EXCEPT ![a] = TRUE]
  /\ IF Instances[a] = "none"
       THEN /\ Instances' = [Instances EXCEPT ![a] = handle]
            /\ gcProtected_' = [gcProtected_ EXCEPT ![a] = FALSE]
            /\ Enter("loop", a, "retain", IF owned THEN "mapOwned" ELSE "map")
            /\ native' = [native EXCEPT ![a] = IF owned THEN @ - 1 ELSE @]
            /\ UNCHANGED lost
       ELSE /\ lost' = [lost EXCEPT ![a] = IF owned THEN @ + 1 ELSE @]
            /\ UNCHANGED <<native, Instances, gcProtected_, threads, raced>>
  /\ UNCHANGED <<retainCount, pool, unbacked, runtime, blocks, jsBorn>>

\* JavaScript lets go of the counterpart.
DropReference(a) ==
  /\ InJs
  /\ reachable[a]
  /\ reachable' = [reachable EXCEPT ![a] = FALSE]
  /\ UNCHANGED <<objects, Instances, gcProtected_, runtime, blocks, threads, hist>>

\* FinalizerCallback and DisposeValue: a protected counterpart is kept, any
\* other one leaves the map and its reference is released.
FinalizerCallback(a) ==
  /\ InJs
  /\ ~reachable[a] /\ Instances[a] = "weak"
  /\ ~gcProtected_[a]
  /\ Instances' = [Instances EXCEPT ![a] = "none"]
  /\ jsBorn' = [jsBorn EXCEPT ![a] = FALSE]
  /\ Enter("loop", a, "release", "copied")
  /\ UNCHANGED <<objects, gcProtected_, reachable, runtime, blocks>>

\* __releaseNativeCounterpart deallocates outright.  That nobody else owns the
\* object is the caller's business.
ReleaseNativeCounterpart(a) ==
  /\ InJs
  /\ reachable[a] /\ Instances[a] # "none"
  /\ retainCount[a] = 1 /\ Working(a) = {}
  /\ retainCount' = [retainCount EXCEPT ![a] = 0]
  /\ Instances' = [Instances EXCEPT ![a] = "none"]
  /\ reachable' = [reachable EXCEPT ![a] = FALSE]
  /\ jsBorn' = [jsBorn EXCEPT ![a] = FALSE]
  /\ crashed' = (unbacked[a] > 0)
  /\ UNCHANGED <<native, lost, pool, unbacked, gcProtected_, runtime, blocks, pc, self,
                 taker, raced>>

\* Mutant: the final pass releases objects whose handle is gone.
DestroyRuntime_All ==
  /\ InJs
  /\ runtime' = FALSE
  /\ retainCount' = [a \in Addrs |-> retainCount[a] - 1]
  /\ Instances' = [a \in Addrs |-> IF Instances[a] = "strong" THEN "leaked" ELSE "none"]
  /\ gcProtected_' = [a \in Addrs |-> FALSE]
  /\ reachable' = [a \in Addrs |-> FALSE]
  /\ jsBorn' = [a \in Addrs |-> FALSE]
  /\ UNCHANGED <<native, lost, pool, unbacked, blocks, threads, raced>>

\* ~Runtime: the isolate is no longer valid, DisposerPHV disposes of what was
\* registered, protected or not, and releases without a look at the count.
\* Handles that skipped the registration are not visited.
DestroyRuntime ==
  /\ InJs
  /\ runtime' = FALSE
  /\ retainCount' = [a \in Addrs |-> IF Instances[a] = "weak" THEN retainCount[a] - 1
                                     ELSE retainCount[a]]
  /\ Instances' = [a \in Addrs |-> IF Instances[a] = "strong" THEN "leaked" ELSE "none"]
  /\ gcProtected_' = [a \in Addrs |-> FALSE]
  /\ reachable' = [a \in Addrs |-> FALSE]
  /\ jsBorn' = [a \in Addrs |-> FALSE]
  /\ crashed' = (\E a \in Addrs : Instances[a] = "weak" /\ retainCount[a] = 1 /\ unbacked[a] > 0)
  /\ UNCHANGED <<native, lost, pool, unbacked, blocks, pc, self, taker, raced>>

-----------------------------------------------------------------------------
CallStep(t) == \/ ReadForRetain(t) \/ GcProtect(t) \/ CallRetain(t)
               \/ ReadForRelease(t) \/ GcUnprotect(t) \/ CallRelease(t)

Next ==
  \/ \E t \in Threads : \/ CallStep(t)
                        \/ \E a \in Addrs : NativeRetain(t, a) \/ NativeRelease(t, a)
  \/ RunBlock
  \/ \E a \in Addrs :
       \/ PassToNative(a) \/ ConstructObject(a) \/ ConstructFromInitializer(a)
       \/ NativeAlloc(a) \/ DrainPool(a)
       \/ \E owned \in BOOLEAN :
            ConstructFromPointer(a, owned) \/ CreateJsWrapper(a, "weak", owned)
       \/ CreateJsWrapper(a, "strong", FALSE)
       \/ DropReference(a) \/ FinalizerCallback(a) \/ ReleaseNativeCounterpart(a)
  \/ DestroyRuntime

Spec == Init /\ [][Next]_vars

-----------------------------------------------------------------------------
AtRest(a) == ~crashed /\ Working(a) = {}

(* The references of an object are accounted for: when no call is in         *)
(* progress, its retain count is what native code owns, what an autorelease  *)
(* pool owes, and one for its entry in Instances.  ConstructObject keeps     *)
(* alloc's or the initializer's reference, CreateJsWrapper takes one, and    *)
(* four ways out give it back.  So the map never holds the address of a      *)
(* deallocated object, whose next tenant would be given somebody else's      *)
(* counterpart, and an object nobody owns is deallocated.                    *)
(* The exception is the constructor called with a Pointer                    *)
(* (ArgConverter.mm:355-361, :395-396): it autoreleases a reference that a   *)
(* pointer from handleof does not carry, and gives a new entry none, so the  *)
(* count is too small by one for each of the two.  There is no other.        *)
CountIsExact ==
  \A a \in Addrs :
    AtRest(a) =>
      retainCount[a] + unbacked[a]
        = native[a] + pool[a] + (IF Instances[a] = "none" THEN 0 ELSE 1)

(* For an object that JavaScript created, as long as calls and posted blocks *)
(* do not overlap and its count is whole, the protection follows the         *)
(* references that are not the map's: with one, the counterpart is safe from *)
(* the collector, and without any, it can be collected.  retain looks for 1  *)
(* and release for 2 before they change the count, and a release elsewhere   *)
(* unprotects by a block.                                                    *)
ProtectTracksOwners ==
  \A a \in Addrs :
    (jsBorn[a] /\ ~raced[a] /\ unbacked[a] = 0 /\ AtRest(a) /\ ~Pending(a)) =>
      (gcProtected_[a] <=> native[a] + pool[a] > 0)

(* "Since we want to keep the corresponding JavaScript object alive even if  *)
(* it is not used anywhere, we call GcProtect on it" (ClassBuilder.mm:301):  *)
(* the counterpart of an object that JavaScript created is not collected     *)
(* while native code owns a reference.                                       *)
KeptWhileOwned ==
  [][\A a \in Addrs : FinalizerCallback(a) => ~(jsBorn[a] /\ native[a] > 0)]_vars
=============================================================================
