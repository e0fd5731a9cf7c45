------------------------ MODULE ObjectLifetimeProofs ------------------------
(***************************************************************************)
(* CountIsExact, TypeOK and ProtectTracksOwners for every set of addresses *)
(* and threads.                                                            *)
(*                                                                         *)
(* CountIsExact speaks of an object at rest; the invariant accounts for    *)
(* the calls in progress too.  A release that has begun still counts,      *)
(* although its owner has given the reference up, and the reference that   *)
(* CreateJsWrapper takes for the map does not count until the class's own  *)
(* retain has run, although the map already has the entry.  References     *)
(* that a cast of a Pointer gave away without having them are kept in an   *)
(* account of their own, and while one is open the object is there: its    *)
(* deallocation is where the model stops (crashed).  The bounds of         *)
(* TypeOK add that every reference has a thread or a taker behind it, and  *)
(* ProtectTracksOwners follows a call that runs alone on its object from   *)
(* the read of the count to the block it schedules, and the block from     *)
(* there to the handle.                                                    *)
(***************************************************************************)
EXTENDS ObjectLifetime, FiniteSetTheorems, TLAPS

Releasing(a) == {t \in Threads : pc[t] \in ReleaseSteps /\ self[t] = a}

InMap(a) == IF Instances[a] = "none" THEN 0 ELSE 1

MapRetains(a) == /\ pc["loop"] \in RetainSteps
                 /\ self["loop"] = a /\ taker["loop"] = "map"

Owed(a) == IF MapRetains(a) THEN 1 ELSE 0

Types ==
  /\ retainCount \in [Addrs -> Nat] /\ native \in [Addrs -> Nat]
  /\ lost \in [Addrs -> Nat] /\ pool \in [Addrs -> Nat] /\ unbacked \in [Addrs -> Nat]
  /\ Instances \in [Addrs -> {"none", "weak", "strong", "leaked"}]
  /\ pc \in [Threads -> {"idle"} \cup RetainSteps \cup ReleaseSteps]
  /\ self \in [Threads -> Addrs]
  /\ taker \in [Threads -> {"passed", "copied", "map", "mapOwned"}]

MapIsServedOnLoop == \A t \in Threads : taker[t] = "map" => t = "loop"

EntryIsThere == \A a \in Addrs : MapRetains(a) => Instances[a] # "none"

\* The references of a that are not the map's.
Owned(a) == native[a] + pool[a]

Balanced(a) == retainCount[a] + Owed(a) + unbacked[a]
                 = Owned(a) + InMap(a) + Cardinality(Releasing(a))

Accounted == \A a \in Addrs : Balanced(a)

\* An object that somebody counts on in vain has not been deallocated yet.
CountedOn == ~crashed => \A a \in Addrs : unbacked[a] > 0 => retainCount[a] > 0

CountInv == Types /\ MapIsServedOnLoop /\ EntryIsThere /\ Accounted /\ CountedOn

\* Handles are leaked by ~Runtime only.
LeakedAtTheEnd == runtime => \A a \in Addrs : Instances[a] # "leaked"

-----------------------------------------------------------------------------
(* The releases in progress are finitely many. *)
LEMMA ReleasingIsFinite ==
  ASSUME NEW a
  PROVE  IsFiniteSet(Releasing(a)) /\ Cardinality(Releasing(a)) \in Nat
<1>1. IsFiniteSet({"loop"} \cup Background)
  BY LifetimeAssumption, FS_AddElement
<1>2. Releasing(a) \in SUBSET ({"loop"} \cup Background)
  BY DEF Releasing, Threads
<1>3. QED
  BY <1>1, <1>2, FS_Subset, FS_CardinalityType

(* A release that begins adds one to them, and one that ends takes one away. *)
LEMMA OneMore ==
  ASSUME NEW S, NEW T, NEW t, IsFiniteSet(S), t \notin S, T = S \cup {t}
  PROVE  Cardinality(T) = Cardinality(S) + 1
BY FS_AddElement

(* A set that loses a release was not empty. *)
LEMMA OneLess ==
  ASSUME NEW S, NEW T, NEW t, IsFiniteSet(S), t \in S, T = S \ {t}
  PROVE  Cardinality(T) = Cardinality(S) - 1 /\ Cardinality(S) > 0
<1>1. Cardinality(T) = Cardinality(S) - 1
  BY FS_RemoveElement
<1>2. Cardinality(S) \in Nat /\ Cardinality(S) # 0
  BY FS_CardinalityType, FS_EmptySet
<1>3. QED
  BY <1>1, <1>2

(* What adds up to nothing is nothing. *)
LEMMA NothingLeft == \A n, p, m, r \in Nat :
                       n + p + m + r = 0 => n = 0 /\ p = 0 /\ m = 0 /\ r = 0
OBVIOUS

(* An idle object owes nothing and nothing releases it. *)
LEMMA RestIsQuiet ==
  ASSUME Types, NEW a \in Addrs, Working(a) = {}
  PROVE  Cardinality(Releasing(a)) = 0 /\ ~MapRetains(a)
<1>1. Releasing(a) = {}
  BY DEF Working, Releasing, ReleaseSteps, Types
<1>2. ~MapRetains(a)
  BY DEF Working, MapRetains, RetainSteps, Threads, Types
<1>3. QED
  BY <1>1, <1>2, FS_EmptySet

-----------------------------------------------------------------------------
(* What the steps of a call do to the two counts of the accounting. *)

\* Thread t goes from one step to another of the same call.
Moves(t, step) ==
  /\ GoTo(t, step)
  /\ \/ pc[t] \in RetainSteps /\ step \in RetainSteps
     \/ pc[t] \in ReleaseSteps /\ step \in ReleaseSteps
  /\ ~crashed /\ UNCHANGED <<objects, Instances, self, taker>>

(* Such a step changes neither. *)
LEMMA MovesKeep ==
  ASSUME CountInv, NEW t \in Threads, NEW step, Moves(t, step)
  PROVE  CountInv'
<1> USE DEF CountInv, Moves, GoTo, objects
<1>1. Types'
  BY DEF Types
<1>2. ASSUME NEW a \in Addrs PROVE Releasing(a)' = Releasing(a)
  BY DEF Releasing, Types, RetainSteps, ReleaseSteps
<1>3. ASSUME NEW a \in Addrs PROVE MapRetains(a)' <=> MapRetains(a)
  BY DEF MapRetains, Types, RetainSteps, ReleaseSteps, Threads
<1>4. MapIsServedOnLoop'
  BY DEF MapIsServedOnLoop
<1>5. EntryIsThere'
  BY <1>3 DEF EntryIsThere
<1>6. ASSUME NEW a \in Addrs PROVE Balanced(a)'
  BY <1>2, <1>3 DEF Accounted, Balanced, Owed, InMap, Owned
<1>7. CountedOn'
  BY DEF CountedOn
<1>8. QED
  BY <1>1, <1>4, <1>5, <1>6, <1>7 DEF Accounted

(* A call that begins. *)
LEMMA EnterCounts ==
  ASSUME CountInv, NEW t \in Threads, pc[t] = "idle", NEW a \in Addrs,
         NEW step \in {"retain", "release"},
         NEW who \in {"passed", "copied", "map", "mapOwned"},
         Enter(t, a, step, who)
  PROVE  /\ pc' \in [Threads -> {"idle"} \cup RetainSteps \cup ReleaseSteps]
         /\ self' \in [Threads -> Addrs]
         /\ taker' \in [Threads -> {"passed", "copied", "map", "mapOwned"}]
         /\ (who = "map" => t = "loop") => MapIsServedOnLoop'
         /\ \A b \in Addrs : Cardinality(Releasing(b)')
              = Cardinality(Releasing(b)) + (IF step = "release" /\ b = a THEN 1 ELSE 0)
         /\ \A b \in Addrs : MapRetains(b)' <=>
              IF t = "loop" THEN step = "retain" /\ who = "map" /\ b = a
                            ELSE MapRetains(b)
<1> USE DEF CountInv, Enter, GoTo
<1>1. /\ pc' \in [Threads -> {"idle"} \cup RetainSteps \cup ReleaseSteps]
      /\ self' \in [Threads -> Addrs]
      /\ taker' \in [Threads -> {"passed", "copied", "map", "mapOwned"}]
  BY DEF Types, RetainSteps, ReleaseSteps
<1>2. (who = "map" => t = "loop") => MapIsServedOnLoop'
  BY DEF MapIsServedOnLoop, Types
<1>3. ASSUME NEW b \in Addrs
      PROVE  Cardinality(Releasing(b)')
               = Cardinality(Releasing(b)) + (IF step = "release" /\ b = a THEN 1 ELSE 0)
  <2>1. t \notin Releasing(b)
    BY DEF Releasing, ReleaseSteps
  <2>2. CASE step = "release" /\ b = a
    <3>1. Releasing(b)' = Releasing(b) \cup {t}
      BY <2>2 DEF Releasing, ReleaseSteps, Types
    <3>2. QED
      BY <2>1, <2>2, <3>1, ReleasingIsFinite, OneMore
  <2>3. CASE ~(step = "release" /\ b = a)
    <3>1. Releasing(b)' = Releasing(b)
      BY <2>3 DEF Releasing, ReleaseSteps, Types
    <3>2. QED
      BY <2>3, <3>1, ReleasingIsFinite
  <2>4. QED
    BY <2>2, <2>3
<1>4. ASSUME NEW b \in Addrs
      PROVE  MapRetains(b)' <=> IF t = "loop" THEN step = "retain" /\ who = "map" /\ b = a
                                              ELSE MapRetains(b)
  BY DEF MapRetains, RetainSteps, Types, Threads
<1>5. QED
  BY <1>1, <1>2, <1>3, <1>4

(* The class's own retain and release. *)
LEMMA CallRetainKeeps ==
  ASSUME CountInv, NEW t \in Threads, CallRetain(t)
  PROVE  CountInv'
<1> USE DEF CountInv, CallRetain, GoTo, isolate
<1>1. PICK a \in Addrs : a = self[t] /\ pc[t] = "callRetain"
  BY DEF Types
<1>2. Types'
  BY <1>1 DEF Types, ReleaseSteps
<1>3. MapIsServedOnLoop'
  BY DEF MapIsServedOnLoop
<1>4. EntryIsThere'
  BY DEF EntryIsThere, MapRetains, RetainSteps, Types, Threads
<1>5. ASSUME NEW b \in Addrs PROVE Balanced(b)'
  <2>1. t \notin Releasing(b) /\ Balanced(b) /\ Cardinality(Releasing(b)) \in Nat
    BY ReleasingIsFinite DEF Releasing, ReleaseSteps, Accounted
  <2>2. /\ InMap(b)' = InMap(b) /\ InMap(b) \in Nat
        /\ pool'[b] = pool[b] /\ unbacked'[b] = unbacked[b] /\ pool[b] \in Nat
        /\ unbacked[b] \in Nat
    BY DEF InMap, Types
  <2>3. CASE b # a
    <3>1. Releasing(b)' = Releasing(b)
      BY <1>1, <2>3 DEF Releasing, ReleaseSteps, Types
    <3>2. MapRetains(b)' <=> MapRetains(b)
      BY <1>1, <2>3 DEF MapRetains, RetainSteps, Types, Threads
    <3>3. retainCount'[b] = retainCount[b] /\ native'[b] = native[b]
      BY <1>1, <2>3 DEF Types
    <3>4. QED
      BY <2>1, <2>2, <3>1, <3>2, <3>3 DEF Balanced, Owed, Owned
  <2>4. CASE b = a /\ taker[t] = "mapOwned"
    <3>1. Releasing(b)' = Releasing(b) \cup {t}
      BY <1>1, <2>4 DEF Releasing, ReleaseSteps, Types
    <3>2. Cardinality(Releasing(b)') = Cardinality(Releasing(b)) + 1
      BY <2>1, <3>1, OneMore, ReleasingIsFinite
    <3>3. MapRetains(b)' <=> MapRetains(b)
      BY <1>1, <2>4 DEF MapRetains, RetainSteps, Types, Threads
    <3>4. /\ retainCount'[b] = retainCount[b] + 1 /\ native'[b] = native[b]
          /\ retainCount[b] \in Nat /\ native[b] \in Nat
      BY <1>1, <2>4 DEF Types
    <3>5. QED
      BY <2>1, <2>2, <3>2, <3>3, <3>4 DEF Balanced, Owed, Owned
  <2>5. CASE b = a /\ taker[t] # "mapOwned"
    <3>1. Releasing(b)' = Releasing(b)
      BY <1>1, <2>5 DEF Releasing, ReleaseSteps, Types
    <3>2. /\ retainCount'[b] = retainCount[b] + 1
          /\ retainCount[b] \in Nat /\ native[b] \in Nat
      BY <1>1, <2>5 DEF Types
    <3>3. CASE taker[t] = "map"
      <4>1. MapRetains(b) /\ ~MapRetains(b)' /\ native'[b] = native[b]
        BY <1>1, <2>5, <3>3 DEF MapIsServedOnLoop, MapRetains, RetainSteps, Types, Threads
      <4>2. QED
        BY <2>1, <2>2, <3>1, <3>2, <4>1 DEF Balanced, Owed, Owned
    <3>4. CASE taker[t] # "map"
      <4>1. (MapRetains(b)' <=> MapRetains(b)) /\ native'[b] = native[b] + 1
        BY <1>1, <2>5, <3>4 DEF MapRetains, RetainSteps, Types, Threads
      <4>2. QED
        BY <2>1, <2>2, <3>1, <3>2, <4>1 DEF Balanced, Owed, Owned
    <3>5. QED
      BY <3>3, <3>4
  <2>6. QED
    BY <2>3, <2>4, <2>5
<1>6. CountedOn'
  BY <1>1 DEF CountedOn, Types
<1>7. QED
  BY <1>2, <1>3, <1>4, <1>5, <1>6 DEF Accounted

(* The class's own release ends the call, and the reference with it. *)
LEMMA CallReleaseKeeps ==
  ASSUME CountInv, NEW t \in Threads, CallRelease(t)
  PROVE  CountInv'
<1> USE DEF CountInv, CallRelease, GoTo, isolate
<1>1. PICK a \in Addrs : a = self[t] /\ pc[t] = "callRelease"
  BY DEF Types
<1>2. ASSUME NEW b \in Addrs PROVE MapRetains(b)' <=> MapRetains(b)
  BY <1>1 DEF MapRetains, RetainSteps, Types, Threads
<1>3. /\ Cardinality(Releasing(a)') = Cardinality(Releasing(a)) - 1
      /\ Cardinality(Releasing(a)) > 0
  <2>1. t \in Releasing(a) /\ Releasing(a)' = Releasing(a) \ {t}
    BY <1>1 DEF Releasing, ReleaseSteps, Types
  <2>2. QED
    BY <2>1, OneLess, ReleasingIsFinite
<1>4. ASSUME NEW b \in Addrs \ {a} PROVE Releasing(b)' = Releasing(b)
  BY <1>1 DEF Releasing, ReleaseSteps, Types
<1>5. retainCount[a] > 0
  <2>1. MapRetains(a) => InMap(a) = 1
    BY <1>1 DEF EntryIsThere, InMap
  <2>2. Balanced(a) /\ Cardinality(Releasing(a)) \in Nat
    BY <1>1, ReleasingIsFinite DEF Accounted
  <2>3. CASE unbacked[a] > 0
    BY <1>1, <2>3 DEF CountedOn
  <2>4. CASE ~(unbacked[a] > 0)
    <3>1. unbacked[a] = 0 /\ native[a] \in Nat /\ pool[a] \in Nat /\ retainCount[a] \in Nat
      BY <1>1, <2>4 DEF Types
    <3>2. QED
      BY <1>3, <2>1, <2>2, <3>1 DEF Balanced, Owed, Owned, InMap
  <2>5. QED
    BY <2>3, <2>4
<1>6. Types'
  BY <1>1, <1>5 DEF Types
<1>7. MapIsServedOnLoop' /\ EntryIsThere'
  BY <1>2 DEF MapIsServedOnLoop, EntryIsThere
<1>8. ASSUME NEW b \in Addrs PROVE Balanced(b)'
  <2>1. /\ Balanced(b) /\ Cardinality(Releasing(b)) \in Nat
        /\ InMap(b)' = InMap(b) /\ InMap(b) \in Nat
    BY ReleasingIsFinite DEF Accounted, InMap
  <2>2. /\ retainCount[b] \in Nat /\ native'[b] = native[b] /\ native[b] \in Nat
        /\ retainCount'[b] = IF b = a THEN retainCount[b] - 1 ELSE retainCount[b]
        /\ pool'[b] = pool[b] /\ pool[b] \in Nat
        /\ unbacked'[b] = unbacked[b] /\ unbacked[b] \in Nat
    BY <1>1 DEF Types
  <2>3. /\ Owed(b)' = Owed(b) /\ Owed(b) \in Nat /\ Owned(b)' = Owned(b) /\ Owned(b) \in Nat
        /\ Cardinality(Releasing(b)') = IF b = a THEN Cardinality(Releasing(b)) - 1
                                                ELSE Cardinality(Releasing(b))
    BY <1>2, <1>3, <1>4, <2>2 DEF Owed, Owned
  <2>4. QED
    BY <2>1, <2>2, <2>3 DEF Balanced
<1>9. CountedOn'
  <2> SUFFICES ASSUME ~crashed', NEW b \in Addrs, unbacked[b] > 0 PROVE retainCount'[b] > 0
    BY DEF CountedOn
  <2>1. retainCount[b] > 0 /\ retainCount[b] \in Nat
    BY DEF CountedOn, Types
  <2>2. b = a => retainCount[b] # 1
    BY <1>1, Zenon
  <2>3. QED
    BY <1>1, <2>1, <2>2 DEF Types
<1>10. QED
  BY <1>6, <1>7, <1>8, <1>9 DEF Accounted

-----------------------------------------------------------------------------
(* Initially there are no objects and no calls. *)
LEMMA CountInvInit == Init => CountInv
<1> SUFFICES ASSUME Init PROVE CountInv
  OBVIOUS
<1> USE DEF Init
<1>1. Types /\ MapIsServedOnLoop
  BY DEF Types, MapIsServedOnLoop
<1>2. EntryIsThere
  BY DEF EntryIsThere, MapRetains, RetainSteps, Threads
<1>3. ASSUME NEW a \in Addrs PROVE Balanced(a)
  <2>1. Working(a) = {}
    BY DEF Working
  <2>2. Cardinality(Releasing(a)) = 0 /\ ~MapRetains(a)
    BY <1>1, <2>1, RestIsQuiet
  <2>3. QED
    BY <2>2 DEF Balanced, Owed, Owned, InMap
<1>4. QED
  BY <1>1, <1>2, <1>3 DEF CountInv, Accounted, CountedOn

(* A step of a call in progress. *)
LEMMA CallStepKeeps ==
  ASSUME CountInv, NEW t \in Threads, CallStep(t)
  PROVE  CountInv'
<1>1. CASE ReadForRetain(t)
  <2>1. PICK step : step \in RetainSteps /\ GoTo(t, step)
    BY <1>1 DEF ReadForRetain, RetainSteps
  <2>2. Moves(t, step)
    BY <1>1, <2>1 DEF ReadForRetain, Moves, RetainSteps, isolate
  <2>3. QED
    BY <2>2, MovesKeep
<1>2. CASE GcProtect(t)
  <2>1. Moves(t, "callRetain")
    BY <1>2 DEF GcProtect, Moves, RetainSteps
  <2>2. QED
    BY <2>1, MovesKeep
<1>3. CASE ReadForRelease(t)
  <2>1. PICK step : step \in ReleaseSteps /\ GoTo(t, step)
    BY <1>3 DEF ReadForRelease, ReleaseSteps
  <2>2. Moves(t, step)
    BY <1>3, <2>1 DEF ReadForRelease, Moves, ReleaseSteps, isolate
  <2>3. QED
    BY <2>2, MovesKeep
<1>4. CASE GcUnprotect(t)
  <2>1. Moves(t, "callRelease")
    BY <1>4 DEF GcUnprotect, Moves, ReleaseSteps
  <2>2. QED
    BY <2>1, MovesKeep
<1>5. QED
  BY <1>1, <1>2, <1>3, <1>4, CallRetainKeeps, CallReleaseKeeps DEF CallStep

(* Native code begins a retain, on its own account. *)
LEMMA NativeRetainKeeps ==
  ASSUME CountInv, NEW t \in Threads, NEW a \in Addrs, pc[t] = "idle",
         NEW who \in {"passed", "copied"}, Enter(t, a, "retain", who),
         UNCHANGED <<objects, isolate>>
  PROVE  CountInv'
<1> USE DEF CountInv, objects, isolate
<1>1. /\ Types' /\ MapIsServedOnLoop'
      /\ \A b \in Addrs : Cardinality(Releasing(b)') = Cardinality(Releasing(b)) + 0
      /\ \A b \in Addrs : MapRetains(b)' <=> (t # "loop" /\ MapRetains(b))
  BY EnterCounts DEF Types
<1>2. \A b \in Addrs : t = "loop" => ~MapRetains(b)
  BY DEF MapRetains, RetainSteps
<1>3. EntryIsThere'
  BY <1>1 DEF EntryIsThere
<1>4. ASSUME NEW b \in Addrs PROVE Balanced(b)'
  <2>1. Balanced(b) /\ Cardinality(Releasing(b)) \in Nat
    BY ReleasingIsFinite DEF Accounted
  <2>2. QED
    BY <1>1, <1>2, <2>1 DEF Balanced, Owed, Owned, InMap, Types
<1>5. CountedOn'
  BY DEF CountedOn, Enter
<1>6. QED
  BY <1>1, <1>3, <1>4, <1>5 DEF Accounted

(* Native code, or a pool, begins a release: what it no longer owns is still counted. *)
LEMMA ReleaseKeeps ==
  ASSUME CountInv, NEW t \in Threads, NEW a \in Addrs,
         NativeRelease(t, a) \/ (t = "loop" /\ DrainPool(a))
  PROVE  CountInv'
<1> USE DEF CountInv
<1>1. /\ pc[t] = "idle" /\ ~crashed /\ Enter(t, a, "release", "copied")
      /\ UNCHANGED <<retainCount, lost, unbacked, Instances>>
  BY DEF NativeRelease, DrainPool, Idle, isolate
<1>2. /\ native' \in [Addrs -> Nat] /\ pool' \in [Addrs -> Nat]
      /\ \A b \in Addrs : Owned(b)' = Owned(b) - (IF b = a THEN 1 ELSE 0)
  <2>1. CASE NativeRelease(t, a)
    <3>1. /\ native[a] > 0 /\ native' = [native EXCEPT ![a] = native[a] - 1] /\ pool' = pool
      BY <2>1 DEF NativeRelease, Borrowed, Types
    <3>2. QED
      BY <3>1 DEF Types, Owned
  <2>2. CASE DrainPool(a)
    BY <2>2 DEF DrainPool, Types, Owned
  <2>3. QED
    BY <2>1, <2>2
<1>3. Types' /\ MapIsServedOnLoop'
  BY <1>1, <1>2, EnterCounts DEF Types
<1>4. \A b \in Addrs : MapRetains(b)' <=> MapRetains(b)
  BY <1>1, EnterCounts DEF MapRetains, RetainSteps
<1>5. EntryIsThere'
  BY <1>1, <1>4 DEF EntryIsThere
<1>6. ASSUME NEW b \in Addrs PROVE Balanced(b)'
  <2>1. Balanced(b) /\ Cardinality(Releasing(b)) \in Nat
    BY ReleasingIsFinite DEF Accounted
  <2>2. Cardinality(Releasing(b)') = Cardinality(Releasing(b)) + (IF b = a THEN 1 ELSE 0)
    BY <1>1, EnterCounts
  <2>3. /\ InMap(b)' = InMap(b) /\ InMap(b) \in Nat /\ Owned(b) \in Nat
        /\ Owned(b)' = Owned(b) - (IF b = a THEN 1 ELSE 0)
        /\ retainCount[b] \in Nat /\ unbacked[b] \in Nat
    BY <1>1, <1>2 DEF Types, InMap, Owned
  <2>4. Owed(b)' = Owed(b) /\ Owed(b) \in Nat
    BY <1>4 DEF Owed
  <2>5. QED
    BY <1>1, <2>1, <2>2, <2>3, <2>4 DEF Balanced
<1>7. CountedOn'
  BY <1>1 DEF CountedOn
<1>8. QED
  BY <1>3, <1>5, <1>6, <1>7 DEF Accounted

-----------------------------------------------------------------------------
(* The steps that happen between calls.  On the run loop's thread none is in *)
(* progress then, so that nothing is owed to the map.                        *)

(* Without a move of a thread both counts of calls stay. *)
LEMMA QuietCounts ==
  ASSUME UNCHANGED <<pc, self, taker>>
  PROVE  /\ \A b : Releasing(b)' = Releasing(b)
         /\ \A b : MapRetains(b)' <=> MapRetains(b)
BY DEF Releasing, MapRetains

(* Between calls on the run loop nothing is owed to the map. *)
LEMMA NothingOwed ==
  ASSUME pc["loop"] = "idle"
  PROVE  \A b : ~MapRetains(b)
BY DEF MapRetains, RetainSteps

\* The object at a is created, with its one reference.
LEMMA ConstructObjectKeeps ==
  ASSUME CountInv, NEW a \in Addrs, ConstructObject(a)
  PROVE  CountInv'
<1> USE DEF CountInv, ConstructObject, threads
<1>1. pc["loop"] = "idle" /\ UNCHANGED <<pc, self, taker>>
  BY DEF InJs, Idle
<1>2. Types' /\ MapIsServedOnLoop'
  BY DEF Types, MapIsServedOnLoop
<1>3. \A b : ~MapRetains(b) /\ ~MapRetains(b)' /\ Releasing(b)' = Releasing(b)
  BY <1>1, QuietCounts, NothingOwed
<1>4. EntryIsThere'
  BY <1>3 DEF EntryIsThere
<1>5. ASSUME NEW b \in Addrs PROVE Balanced(b)'
  <2>1. Balanced(b) /\ Cardinality(Releasing(b)) \in Nat
    BY ReleasingIsFinite DEF Accounted
  <2>2. /\ InMap(b)' = InMap(b) + (IF b = a THEN 1 ELSE 0) /\ InMap(b) \in Nat
        /\ retainCount'[b] = retainCount[b] + (IF b = a THEN 1 ELSE 0)
        /\ retainCount[b] \in Nat /\ unbacked[b] \in Nat
        /\ Owned(b)' = Owned(b) /\ Owned(b) \in Nat
    BY DEF InMap, Types, Owned
  <2>3. QED
    BY <1>3, <2>1, <2>2 DEF Balanced, Owed
<1>6. CountedOn'
  BY DEF CountedOn, Types
<1>7. QED
  BY <1>2, <1>4, <1>5, <1>6 DEF Accounted

(* At an address without an object there is only the entry of a retain in progress. *)
LEMMA FreeAddress ==
  ASSUME CountInv, ~crashed, NEW b \in Addrs, retainCount[b] = 0
  PROVE  /\ native[b] = 0 /\ pool[b] = 0 /\ unbacked[b] = 0 /\ Cardinality(Releasing(b)) = 0
         /\ Owed(b) = InMap(b)
<1>1. /\ Owed(b) \in {0, 1} /\ native[b] \in Nat /\ pool[b] \in Nat /\ InMap(b) \in Nat
      /\ Cardinality(Releasing(b)) \in Nat /\ (Owed(b) = 1 => InMap(b) = 1)
  BY ReleasingIsFinite DEF CountInv, Types, EntryIsThere, Owed, InMap
<1>2. unbacked[b] = 0
  BY DEF CountInv, Types, CountedOn
<1>3. Owed(b) = native[b] + pool[b] + InMap(b) + Cardinality(Releasing(b))
  BY <1>1, <1>2 DEF CountInv, Accounted, Balanced, Owned
<1>4. CASE Owed(b) = 0
  <2>1. native[b] + pool[b] + InMap(b) + Cardinality(Releasing(b)) = 0
    BY <1>3, <1>4
  <2>2. native[b] = 0 /\ pool[b] = 0 /\ InMap(b) = 0 /\ Cardinality(Releasing(b)) = 0
    <3>1. /\ native[b] \in Nat /\ pool[b] \in Nat /\ InMap(b) \in Nat
          /\ Cardinality(Releasing(b)) \in Nat
      BY <1>1
    <3>2. QED
      BY <3>1, <2>1, NothingLeft, ZenonT(30)
  <2>3. QED
    BY <1>2, <1>4, <2>2
<1>5. CASE Owed(b) = 1
  <2>1. InMap(b) = 1
    BY <1>1, <1>5
  <2>2. 1 = native[b] + pool[b] + 1 + Cardinality(Releasing(b))
    BY <1>3, <1>5, <2>1
  <2>3. native[b] = 0 /\ pool[b] = 0 /\ Cardinality(Releasing(b)) = 0
    BY <1>1, <2>2
  <2>4. QED
    BY <1>2, <1>5, <2>1, <2>3
<1>6. QED
  BY <1>1, <1>4, <1>5

\* Native code creates an object: nobody had a reference at the address.
LEMMA NativeAllocKeeps ==
  ASSUME CountInv, NEW a \in Addrs, NativeAlloc(a)
  PROVE  CountInv'
<1> USE DEF NativeAlloc, threads, isolate
<1>1. Types' /\ MapIsServedOnLoop'
  BY DEF CountInv, Types, MapIsServedOnLoop
<1>2. \A b : (MapRetains(b)' <=> MapRetains(b)) /\ Releasing(b)' = Releasing(b)
  BY QuietCounts
<1>3. EntryIsThere'
  BY <1>2 DEF CountInv, EntryIsThere
<1>4. ASSUME NEW b \in Addrs PROVE Balanced(b)'
  <2>1. Balanced(b) /\ Cardinality(Releasing(b)) \in Nat
    BY ReleasingIsFinite DEF CountInv, Accounted
  <2>2. /\ InMap(b)' = InMap(b) /\ InMap(b) \in Nat /\ Owed(b)' = Owed(b) /\ Owed(b) \in Nat
        /\ b # a => retainCount'[b] = retainCount[b] /\ native'[b] = native[b]
        /\ b = a => retainCount[b] = 0 /\ retainCount'[b] = 1 /\ native'[b] = 1
        /\ retainCount[b] \in Nat /\ native[b] \in Nat /\ pool[b] \in Nat
        /\ pool'[b] = pool[b] /\ unbacked[b] \in Nat /\ unbacked'[b] = unbacked[b]
    BY <1>2 DEF CountInv, InMap, Owed, Types
  <2>3. b = a => /\ pool[b] = 0 /\ unbacked[b] = 0 /\ Cardinality(Releasing(b)) = 0
                 /\ Owed(b) = InMap(b)
    BY <2>2, FreeAddress
  <2> HIDE DEF NativeAlloc
  <2>4. CASE b = a
    BY <1>2, <2>2, <2>3, <2>4 DEF Balanced, Owned
  <2>5. CASE b # a
    BY <1>2, <2>1, <2>2, <2>5 DEF Balanced, Owned
  <2>6. QED
    BY <2>4, <2>5
<1>5. CountedOn'
  BY DEF CountInv, CountedOn, Types
<1>6. QED
  BY <1>1, <1>3, <1>4, <1>5 DEF CountInv, Accounted

(* A new entry is owed its reference until retain has run, unless it takes   *)
(* the caller's.  An entry that is found changes no count.                   *)
LEMMA CreateJsWrapperKeeps ==
  ASSUME CountInv, NEW a \in Addrs, NEW handle \in {"weak", "strong"},
         NEW owned \in BOOLEAN, CreateJsWrapper(a, handle, owned)
  PROVE  CountInv'
<1> USE DEF CountInv
<1>1. /\ pc["loop"] = "idle" /\ native[a] > 0 /\ ~crashed /\ "loop" \in Threads
      /\ UNCHANGED <<retainCount, pool, unbacked>>
  BY DEF CreateJsWrapper, InJs, Idle, Borrowed, Types, Threads
<1>a. CountedOn'
  BY <1>1 DEF CountedOn
<1>2. CASE Instances[a] # "none"
  <2>1. UNCHANGED <<native, Instances, pc, self, taker>> /\ lost' \in [Addrs -> Nat]
    BY <1>2 DEF CreateJsWrapper, threads, Types
  <2>2. Types' /\ MapIsServedOnLoop'
    BY <1>1, <2>1 DEF Types, MapIsServedOnLoop
  <2>3. \A b : (MapRetains(b)' <=> MapRetains(b)) /\ Releasing(b)' = Releasing(b)
    BY <2>1, QuietCounts
  <2>4. QED
    BY <1>a, <1>1, <2>1, <2>2, <2>3
       DEF EntryIsThere, Accounted, Balanced, Owed, Owned, InMap
<1>3. CASE Instances[a] = "none"
  <2>1. PICK who \in {"map", "mapOwned"} :
          /\ Enter("loop", a, "retain", who)
          /\ native' = [native EXCEPT ![a] = IF who = "mapOwned" THEN native[a] - 1
                                                                ELSE native[a]]
          /\ Instances' = [Instances EXCEPT ![a] = handle] /\ lost' = lost
    BY <1>3 DEF CreateJsWrapper
  <2>2. Types' /\ MapIsServedOnLoop'
    BY <1>1, <2>1, EnterCounts DEF Types
  <2>3. \A b \in Addrs : /\ ~MapRetains(b)
                         /\ MapRetains(b)' <=> (who = "map" /\ b = a)
    BY <1>1, <2>1, EnterCounts, NothingOwed
  <2>4. EntryIsThere'
    BY <2>1, <2>3 DEF EntryIsThere, Types
  <2>5. ASSUME NEW b \in Addrs PROVE Balanced(b)'
    <3>1. Balanced(b) /\ Cardinality(Releasing(b)) \in Nat
      BY ReleasingIsFinite DEF Accounted
    <3>2. Cardinality(Releasing(b)') = Cardinality(Releasing(b))
      BY <1>1, <2>1, <3>1, EnterCounts
    <3>3. /\ InMap(b)' = InMap(b) + (IF b = a THEN 1 ELSE 0) /\ InMap(b) \in Nat
          /\ native'[b] = native[b] - (IF b = a /\ who = "mapOwned" THEN 1 ELSE 0)
          /\ retainCount[b] \in Nat /\ native[b] \in Nat
          /\ pool[b] \in Nat /\ unbacked[b] \in Nat
      BY <1>3, <2>1 DEF InMap, Types
    <3>4. QED
      BY <1>1, <2>3, <3>1, <3>2, <3>3 DEF Balanced, Owed, Owned
  <2>6. QED
    BY <1>a, <2>2, <2>4, <2>5 DEF Accounted
<1>4. QED
  BY <1>2, <1>3

(* The reference of a collected counterpart is still counted. *)
LEMMA FinalizerKeeps ==
  ASSUME CountInv, NEW a \in Addrs, FinalizerCallback(a)
  PROVE  CountInv'
<1> USE DEF CountInv
<1>1. /\ pc["loop"] = "idle" /\ "loop" \in Threads
      /\ Instances[a] = "weak" /\ Instances' = [Instances EXCEPT ![a] = "none"]
      /\ Enter("loop", a, "release", "copied") /\ ~crashed
      /\ UNCHANGED <<retainCount, native, lost, pool, unbacked>>
  BY DEF FinalizerCallback, InJs, Idle, Threads, objects
<1>2. Types' /\ MapIsServedOnLoop'
  BY <1>1, EnterCounts DEF Types
<1>3. \A b \in Addrs : ~MapRetains(b) /\ ~MapRetains(b)'
  BY <1>1, EnterCounts, NothingOwed
<1>4. EntryIsThere'
  BY <1>3 DEF EntryIsThere
<1>5. ASSUME NEW b \in Addrs PROVE Balanced(b)'
  <2>1. Balanced(b) /\ Cardinality(Releasing(b)) \in Nat
    BY ReleasingIsFinite DEF Accounted
  <2>2. Cardinality(Releasing(b)') = Cardinality(Releasing(b)) + (IF b = a THEN 1 ELSE 0)
    BY <1>1, EnterCounts
  <2>3. /\ InMap(b)' = InMap(b) - (IF b = a THEN 1 ELSE 0) /\ InMap(b) \in Nat
        /\ retainCount[b] \in Nat /\ native[b] \in Nat
        /\ pool[b] \in Nat /\ unbacked[b] \in Nat
    BY <1>1 DEF InMap, Types
  <2>4. QED
    BY <1>1, <1>3, <2>1, <2>2, <2>3 DEF Balanced, Owed, Owned
<1>6. CountedOn'
  BY <1>1 DEF CountedOn
<1>7. QED
  BY <1>2, <1>4, <1>5, <1>6 DEF Accounted

(* __releaseNativeCounterpart: the one reference was the map's. *)
LEMMA ReleaseCounterpartKeeps ==
  ASSUME CountInv, NEW a \in Addrs, ReleaseNativeCounterpart(a)
  PROVE  CountInv'
<1> USE DEF CountInv, ReleaseNativeCounterpart, threads
<1>1. pc["loop"] = "idle" /\ UNCHANGED <<pc, self, taker>>
  BY DEF InJs, Idle
<1>2. Types' /\ MapIsServedOnLoop'
  BY DEF Types, MapIsServedOnLoop
<1>3. \A b : ~MapRetains(b) /\ ~MapRetains(b)' /\ Releasing(b)' = Releasing(b)
  BY <1>1, QuietCounts, NothingOwed
<1>4. EntryIsThere'
  BY <1>3 DEF EntryIsThere
<1>5. ASSUME NEW b \in Addrs PROVE Balanced(b)'
  <2>1. Balanced(b) /\ Cardinality(Releasing(b)) \in Nat
    BY ReleasingIsFinite DEF Accounted
  <2>2. /\ InMap(b)' = (IF b = a THEN 0 ELSE InMap(b)) /\ InMap(b) \in Nat
        /\ b = a => InMap(b) = 1
        /\ retainCount'[b] = retainCount[b] - (IF b = a THEN 1 ELSE 0)
        /\ retainCount[b] \in Nat /\ unbacked[b] \in Nat
        /\ Owned(b)' = Owned(b) /\ Owned(b) \in Nat
    BY DEF InMap, Types, Owned
  <2>3. QED
    BY <1>3, <2>1, <2>2 DEF Balanced, Owed
<1>6. CountedOn'
  <2> SUFFICES ASSUME ~crashed', NEW b \in Addrs, unbacked[b] > 0 PROVE retainCount'[b] > 0
    BY DEF CountedOn
  <2>1. b # a
    BY Zenon
  <2>2. retainCount[b] > 0
    BY DEF CountedOn, InJs, Idle
  <2>3. QED
    BY <2>1, <2>2 DEF Types
<1>7. QED
  BY <1>2, <1>4, <1>5, <1>6 DEF Accounted

(* The final pass releases exactly the references of the entries it visits. *)
LEMMA DestroyRuntimeKeeps ==
  ASSUME CountInv, LeakedAtTheEnd, DestroyRuntime
  PROVE  CountInv'
<1> USE DEF CountInv, DestroyRuntime, threads
<1>1. /\ pc["loop"] = "idle" /\ ~crashed
      /\ UNCHANGED <<pc, self, taker, native, lost, pool, unbacked>>
  BY DEF InJs, Idle
<1>2. \A b : ~MapRetains(b) /\ ~MapRetains(b)' /\ Releasing(b)' = Releasing(b)
  BY <1>1, QuietCounts, NothingOwed
<1>3. ASSUME NEW b \in Addrs
      PROVE  Balanced(b) /\ Cardinality(Releasing(b)) \in Nat
  BY ReleasingIsFinite DEF Accounted
<1>4. ASSUME NEW b \in Addrs
      PROVE  /\ InMap(b) = InMap(b)' + (IF Instances[b] = "weak" THEN 1 ELSE 0)
             /\ InMap(b)' \in Nat /\ retainCount[b] \in Nat /\ native[b] \in Nat
             /\ retainCount'[b] = retainCount[b] - (IF Instances[b] = "weak" THEN 1 ELSE 0)
  <2>1. Instances'[b] = IF Instances[b] = "strong" THEN "leaked" ELSE "none"
    OBVIOUS
  <2>2. Instances[b] # "leaked"
    BY DEF LeakedAtTheEnd, InJs
  <2>3. QED
    BY <2>1, <2>2 DEF InMap, Types
<1>5. ASSUME NEW b \in Addrs PROVE Balanced(b)' /\ retainCount'[b] \in Nat
  <2>1. /\ retainCount[b] + unbacked[b] = Owned(b) + InMap(b) + Cardinality(Releasing(b))
        /\ Owned(b)' = Owned(b) /\ Owned(b) \in Nat /\ unbacked[b] \in Nat
    BY <1>1, <1>2, <1>3, <1>4 DEF Balanced, Owed, Owned, Types
  <2>2. retainCount'[b] + unbacked[b] = Owned(b) + InMap(b)' + Cardinality(Releasing(b))
    BY <1>3, <1>4, <2>1
  <2>3. unbacked[b] > 0 => retainCount[b] > 0
    BY <1>1 DEF CountedOn
  <2>4. retainCount'[b] \in Nat
    BY <1>3, <1>4, <2>1, <2>2, <2>3
  <2>5. QED
    BY <1>1, <1>2, <1>3, <1>4, <2>1, <2>2, <2>4 DEF Balanced, Owed
<1>6. Types' /\ MapIsServedOnLoop' /\ EntryIsThere'
  BY <1>1, <1>2, <1>5 DEF Types, MapIsServedOnLoop, EntryIsThere
<1>7. CountedOn'
  <2> SUFFICES ASSUME ~crashed', NEW b \in Addrs, unbacked[b] > 0 PROVE retainCount'[b] > 0
    BY <1>1 DEF CountedOn
  <2>1. ~(Instances[b] = "weak" /\ retainCount[b] = 1)
    BY Zenon
  <2>2. retainCount[b] > 0
    BY <1>1 DEF CountedOn
  <2>3. QED
    BY <1>4, <2>1, <2>2
<1>8. QED
  BY <1>5, <1>6, <1>7 DEF Accounted

(* A constructor called with a Pointer, or whose initializer answers with another   *)
(* object: what is given to the entry or to the pool without a reference is in      *)
(* unbacked, and the object is there, because JavaScript or native code has it.     *)
LEMMA ConstructFromKeeps ==
  ASSUME CountInv, \A b \in Addrs : reachable[b] => Instances[b] # "none",
         NEW a \in Addrs, NEW owned \in BOOLEAN,
         ConstructFromInitializer(a) \/ ConstructFromPointer(a, owned)
  PROVE  CountInv'
<1> USE DEF CountInv
<1>1. /\ pc["loop"] = "idle" /\ ~crashed /\ UNCHANGED <<pc, self, taker, crashed, retainCount>>
      /\ FindOrEmplace(a)
  BY DEF ConstructFromInitializer, ConstructFromPointer, InJs, Idle, threads
<1>2. \A b : ~MapRetains(b) /\ ~MapRetains(b)' /\ Releasing(b)' = Releasing(b)
  BY <1>1, QuietCounts, NothingOwed
<1>3. /\ Instances' \in [Addrs -> {"none", "weak", "strong", "leaked"}]
      /\ \A b \in Addrs : /\ InMap(b) \in {0, 1}
                          /\ InMap(b)' = IF b = a THEN 1 ELSE InMap(b)
  BY <1>1 DEF FindOrEmplace, Types, InMap
<1>4. /\ native' \in [Addrs -> Nat] /\ lost' \in [Addrs -> Nat] /\ pool' \in [Addrs -> Nat]
      /\ unbacked' \in [Addrs -> Nat]
      /\ \A b \in Addrs : Owned(b)' + (IF b = a THEN 1 ELSE InMap(b)) + unbacked[b]
                            = Owned(b) + InMap(b) + unbacked'[b]
      /\ \A b \in Addrs : b # a => unbacked'[b] = unbacked[b]
  <2>1. CASE ConstructFromInitializer(a)
    <3>1. native[a] > 0 /\ UNCHANGED <<pool, unbacked>>
      BY <2>1 DEF ConstructFromInitializer, Borrowed, Types
    <3>2. QED
      BY <2>1, <3>1 DEF ConstructFromInitializer, Types, Owned, InMap
  <2>2. CASE ConstructFromPointer(a, owned)
    <3>1. (owned => native[a] > 0) /\ lost' = lost
      BY <2>2 DEF ConstructFromPointer, Borrowed, Types
    <3>2. QED
      BY <2>2, <3>1 DEF ConstructFromPointer, Types, Owned, InMap
  <2>3. QED
    BY <2>1, <2>2
<1>5. Types' /\ MapIsServedOnLoop' /\ EntryIsThere'
  BY <1>1, <1>2, <1>3, <1>4 DEF Types, MapIsServedOnLoop, EntryIsThere
<1>6. ASSUME NEW b \in Addrs PROVE Balanced(b)'
  <2>1. Balanced(b) /\ Cardinality(Releasing(b)) \in Nat
    BY ReleasingIsFinite DEF Accounted
  <2>2. /\ Owned(b) \in Nat /\ Owned(b)' \in Nat /\ unbacked[b] \in Nat /\ unbacked'[b] \in Nat
        /\ retainCount[b] \in Nat
    BY <1>4 DEF Types, Owned
  <2>3. QED
    BY <1>1, <1>2, <1>3, <1>4, <2>1, <2>2 DEF Balanced, Owed
<1>7. retainCount[a] > 0
  <2>1. Balanced(a) /\ Cardinality(Releasing(a)) \in Nat /\ ~MapRetains(a)
    BY <1>2, ReleasingIsFinite DEF Accounted
  <2>2. native[a] > 0 \/ InMap(a) = 1
    BY DEF ConstructFromInitializer, ConstructFromPointer, Borrowed, InMap, Types
  <2>3. unbacked[a] > 0 => retainCount[a] > 0
    BY <1>1 DEF CountedOn
  <2>4. QED
    BY <2>1, <2>2, <2>3 DEF Balanced, Owed, Owned, InMap, Types
<1>8. CountedOn'
  BY <1>1, <1>4, <1>7 DEF CountedOn
<1>9. QED
  BY <1>5, <1>6, <1>8 DEF Accounted

(* Steps that leave the counts alone. *)
LEMMA OthersKeep ==
  ASSUME CountInv, UNCHANGED <<objects, Instances, pc, self, taker, crashed>>
  PROVE  CountInv'
<1> USE DEF objects
<1>1. Types' /\ MapIsServedOnLoop'
  BY DEF CountInv, Types, MapIsServedOnLoop
<1>2. \A b : (MapRetains(b)' <=> MapRetains(b)) /\ Releasing(b)' = Releasing(b)
  BY QuietCounts
<1>3. QED
  BY <1>1, <1>2 DEF CountInv, EntryIsThere, Accounted, Balanced, Owed, Owned, InMap, CountedOn

(* While the runtime lives, every entry has a handle that will be visited    *)
(* or was made to stay.                                                      *)
LEMMA LeakedKeeps ==
  ASSUME Types, LeakedAtTheEnd, [Next]_vars
  PROVE  LeakedAtTheEnd'
<1> USE DEF LeakedAtTheEnd, Types, isolate
<1>1. ASSUME NEW t \in Threads, CallStep(t) PROVE LeakedAtTheEnd'
  BY <1>1 DEF CallStep, ReadForRetain, GcProtect, CallRetain, ReadForRelease, GcUnprotect,
              CallRelease
<1>2. ASSUME NEW t \in Threads, NEW a \in Addrs, NativeRetain(t, a) \/ NativeRelease(t, a)
      PROVE  LeakedAtTheEnd'
  BY <1>2 DEF NativeRetain, NativeRelease
<1>3. ASSUME NEW a \in Addrs,
             PassToNative(a) \/ NativeAlloc(a) \/ DropReference(a) \/ DrainPool(a)
      PROVE  LeakedAtTheEnd'
  BY <1>3 DEF PassToNative, NativeAlloc, DropReference, DrainPool
<1>4. ASSUME NEW a \in Addrs,
             ConstructObject(a) \/ FinalizerCallback(a) \/ ReleaseNativeCounterpart(a)
      PROVE  LeakedAtTheEnd'
  BY <1>4 DEF ConstructObject, FinalizerCallback, ReleaseNativeCounterpart
<1>5. ASSUME NEW a \in Addrs, NEW handle \in {"weak", "strong"}, NEW owned \in BOOLEAN,
             CreateJsWrapper(a, handle, owned)
      PROVE  LeakedAtTheEnd'
  BY <1>5 DEF CreateJsWrapper
<1>6. ASSUME NEW a \in Addrs, NEW owned \in BOOLEAN,
             ConstructFromInitializer(a) \/ ConstructFromPointer(a, owned)
      PROVE  LeakedAtTheEnd'
  BY <1>6 DEF ConstructFromInitializer, ConstructFromPointer, FindOrEmplace
<1>7. CASE RunBlock \/ DestroyRuntime \/ UNCHANGED vars
  BY <1>7 DEF RunBlock, DestroyRuntime, vars
<1>8. QED
  BY <1>1, <1>2, <1>3, <1>4, <1>5, <1>6, <1>7 DEF Next

(* Every step keeps the account. *)
LEMMA CountInvStep ==
  ASSUME CountInv, LeakedAtTheEnd, \A a \in Addrs : reachable[a] => Instances[a] # "none",
         [Next]_vars
  PROVE  CountInv'
<1>1. ASSUME NEW t \in Threads, CallStep(t) PROVE CountInv'
  BY <1>1, CallStepKeeps
<1>2. ASSUME NEW t \in Threads, NEW a \in Addrs, NativeRetain(t, a) PROVE CountInv'
  BY <1>2, NativeRetainKeeps DEF NativeRetain, Idle
<1>3. ASSUME NEW t \in Threads, NEW a \in Addrs, NativeRelease(t, a) PROVE CountInv'
  BY <1>3, ReleaseKeeps
<1>a. ASSUME NEW a \in Addrs, DrainPool(a) PROVE CountInv'
  BY <1>a, ReleaseKeeps DEF Threads
<1>b. ASSUME NEW a \in Addrs, NEW owned \in BOOLEAN,
             ConstructFromInitializer(a) \/ ConstructFromPointer(a, owned)
      PROVE  CountInv'
  BY <1>b, ConstructFromKeeps
<1>4. ASSUME NEW a \in Addrs, PassToNative(a) PROVE CountInv'
  <2>1. "loop" \in Threads /\ pc["loop"] = "idle"
    BY <1>4 DEF PassToNative, InJs, Idle, Threads
  <2>2. QED
    BY <1>4, <2>1, NativeRetainKeeps DEF PassToNative
<1>5. ASSUME NEW a \in Addrs, NEW handle \in {"weak", "strong"}, NEW owned \in BOOLEAN,
             CreateJsWrapper(a, handle, owned)
      PROVE  CountInv'
  BY <1>5, CreateJsWrapperKeeps
<1>6. ASSUME NEW a \in Addrs, ConstructObject(a) \/ NativeAlloc(a) PROVE CountInv'
  BY <1>6, ConstructObjectKeeps, NativeAllocKeeps
<1>7. ASSUME NEW a \in Addrs, FinalizerCallback(a) \/ ReleaseNativeCounterpart(a)
      PROVE  CountInv'
  BY <1>7, FinalizerKeeps, ReleaseCounterpartKeeps
<1>8. ASSUME NEW a \in Addrs, DropReference(a) PROVE CountInv'
  BY <1>8, OthersKeep DEF DropReference, threads
<1>9. CASE RunBlock \/ UNCHANGED vars
  BY <1>9, OthersKeep DEF RunBlock, vars, isolate, threads
<1>10. CASE DestroyRuntime
  BY <1>10, DestroyRuntimeKeeps
<1>11. QED
  BY <1>1, <1>2, <1>3, <1>a, <1>b, <1>4, <1>5, <1>6, <1>7, <1>8, <1>9, <1>10 DEF Next

-----------------------------------------------------------------------------
(* The bounds of the counts, and with them the types.  A retain in progress needs a *)
(* reference behind it, so that the object cannot go away; and what native code     *)
(* owns, is about to own or is giving up is within MaxNative.                       *)

(* The calls in progress on the threads other than the run loop's. *)
Others(a) == {t \in Background : pc[t] # "idle" /\ self[t] = a}

RetainsForNative(a) == /\ pc["loop"] \in RetainSteps /\ self["loop"] = a
                       /\ taker["loop"] \in {"passed", "copied"}

Claim(a) == IF RetainsForNative(a) THEN 1 ELSE 0

(* Other threads copy references that native code owns; the run loop's thread may *)
(* also retain what the map has.                                                  *)
Backed ==
  /\ \A t \in Background : taker[t] = "copied"
  /\ \A t \in Threads : pc[t] \in RetainSteps =>
       IF taker[t] = "copied" THEN native[self[t]] > 0 ELSE Instances[self[t]] # "none"
  /\ \A a \in Addrs : reachable[a] => Instances[a] # "none"

WithinBounds ==
  \A a \in Addrs : /\ native[a] + Cardinality(Others(a)) + Claim(a) <= MaxNative
                   /\ lost[a] <= native[a]

CastsWithinBounds == \A a \in Addrs : pool[a] <= MaxCasts /\ unbacked[a] <= MaxCasts + 1

MoreTypes ==
  /\ gcProtected_ \in [Addrs -> BOOLEAN] /\ reachable \in [Addrs -> BOOLEAN]
  /\ runtime \in BOOLEAN /\ crashed \in BOOLEAN
  /\ blocks \in Seq({"protect", "unprotect"} \X Addrs)
  /\ jsBorn \in [Addrs -> BOOLEAN] /\ raced \in [Addrs -> BOOLEAN]

BoundsInv == /\ CountInv /\ LeakedAtTheEnd /\ Backed /\ WithinBounds /\ CastsWithinBounds
             /\ MoreTypes

(* Nobody works on an address without an object, except to register or to leave it. *)
LEMMA NobodyAtFree ==
  ASSUME CountInv, Backed, ~crashed, NEW a \in Addrs, retainCount[a] = 0
  PROVE  /\ native[a] = 0 /\ pool[a] = 0 /\ unbacked[a] = 0
         /\ Others(a) = {} /\ ~RetainsForNative(a)
<1>2. /\ native[a] = 0 /\ pool[a] = 0 /\ unbacked[a] = 0 /\ Cardinality(Releasing(a)) = 0
      /\ InMap(a) = Owed(a)
  BY FreeAddress
<1>3. Releasing(a) = {}
  BY <1>2, ReleasingIsFinite, FS_EmptySet
<1>4. Others(a) = {}
  <2> SUFFICES ASSUME NEW t \in Background, pc[t] # "idle", self[t] = a PROVE FALSE
    BY DEF Others
  <2>1. t \in Threads /\ taker[t] = "copied"
    BY DEF Threads, Backed
  <2>2. pc[t] \notin ReleaseSteps
    BY <1>3, <2>1 DEF Releasing
  <2>3. pc[t] \in RetainSteps
    BY <2>1, <2>2 DEF CountInv, Types
  <2>4. QED
    BY <1>2, <2>1, <2>3 DEF Backed
<1>5. ~RetainsForNative(a)
  <2> SUFFICES ASSUME RetainsForNative(a) PROVE FALSE
    OBVIOUS
  <2>1. "loop" \in Threads /\ ~MapRetains(a)
    BY DEF Threads, RetainsForNative, MapRetains
  <2>2. Instances[a] = "none"
    BY <1>2, <2>1 DEF Owed, InMap
  <2>3. QED
    BY <1>2, <2>1, <2>2 DEF Backed, RetainsForNative
<1>6. QED
  BY <1>2, <1>4, <1>5

(* The calls of other threads are finitely many, and those of all threads at most *)
(* one more.                                                                      *)
LEMMA OthersAreFinite ==
  ASSUME NEW a
  PROVE  /\ IsFiniteSet(Others(a)) /\ Cardinality(Others(a)) \in Nat
         /\ Cardinality(Others(a)) <= Cardinality(Working(a))
         /\ Cardinality(Releasing(a)) <= Cardinality(Others(a)) + 1
         /\ Cardinality(Working(a)) \in Nat
         /\ pc["loop"] # "idle" /\ self["loop"] = a
              => Cardinality(Working(a)) = Cardinality(Others(a)) + 1
<1>1. IsFiniteSet(Background) /\ IsFiniteSet({"loop"} \cup Background)
  BY LifetimeAssumption, FS_AddElement
<1>2. Others(a) \subseteq Background /\ Working(a) \subseteq {"loop"} \cup Background
  BY DEF Others, Working, Threads
<1>3. /\ IsFiniteSet(Others(a)) /\ Cardinality(Others(a)) \in Nat
      /\ IsFiniteSet(Working(a)) /\ Cardinality(Working(a)) \in Nat
  BY <1>1, <1>2, FS_Subset, FS_CardinalityType
<1>4. Cardinality(Others(a)) <= Cardinality(Working(a))
  <2>1. Others(a) \subseteq Working(a)
    BY DEF Others, Working, Threads
  <2>2. QED
    BY <2>1, <1>3, FS_Subset
<1>5. "loop" \notin Others(a)
  BY LifetimeAssumption DEF Others
<1>6. /\ IsFiniteSet(Others(a) \cup {"loop"})
      /\ Cardinality(Others(a) \cup {"loop"}) = Cardinality(Others(a)) + 1
  BY <1>3, <1>5, FS_AddElement
<1>7. Cardinality(Releasing(a)) <= Cardinality(Others(a)) + 1
  <2>1. Releasing(a) \subseteq Others(a) \cup {"loop"}
    BY DEF Releasing, Others, Threads, ReleaseSteps
  <2>2. Cardinality(Releasing(a)) <= Cardinality(Others(a) \cup {"loop"})
    BY <2>1, <1>6, FS_Subset
  <2>3. QED
    BY <2>2, <1>6
<1>8. ASSUME pc["loop"] # "idle", self["loop"] = a
      PROVE  Cardinality(Working(a)) = Cardinality(Others(a)) + 1
  <2>1. Working(a) = Others(a) \cup {"loop"}
    BY <1>8 DEF Working, Others, Threads
  <2>2. QED
    BY <2>1, <1>6
<1>9. QED
  BY <1>3, <1>4, <1>7, <1>8

(* The types that TypeOK asks for follow. *)
LEMMA BoundsGiveTypes == BoundsInv => TypeOK
<1> SUFFICES ASSUME BoundsInv PROVE TypeOK
  OBVIOUS
<1>1. Types /\ MoreTypes /\ MaxNative \in Nat /\ MaxCasts \in Nat
  BY LifetimeAssumption DEF BoundsInv, CountInv
<1>2. ASSUME NEW a \in Addrs
      PROVE  /\ retainCount[a] \in 0..(MaxNative + MaxCasts + 2) /\ native[a] \in 0..MaxNative
             /\ lost[a] \in 0..MaxNative /\ pool[a] \in 0..MaxCasts
             /\ unbacked[a] \in 0..(MaxCasts + 1)
  <2>1. /\ native[a] + Cardinality(Others(a)) + Claim(a) <= MaxNative
        /\ lost[a] <= native[a] /\ Balanced(a)
        /\ pool[a] <= MaxCasts /\ unbacked[a] <= MaxCasts + 1
    BY DEF BoundsInv, WithinBounds, CastsWithinBounds, CountInv, Accounted
  <2>2. /\ Cardinality(Others(a)) \in Nat /\ Claim(a) \in {0, 1} /\ Owed(a) \in {0, 1}
        /\ InMap(a) \in {0, 1} /\ Cardinality(Releasing(a)) \in Nat
        /\ Cardinality(Releasing(a)) <= Cardinality(Others(a)) + 1
    BY OthersAreFinite, ReleasingIsFinite DEF Claim, Owed, InMap
  <2>3. /\ native[a] \in Nat /\ lost[a] \in Nat /\ retainCount[a] \in Nat
        /\ pool[a] \in Nat /\ unbacked[a] \in Nat
    BY <1>1 DEF Types
  <2>4. retainCount[a] <= MaxNative + MaxCasts + 2
    BY <1>1, <2>1, <2>2, <2>3 DEF Balanced, Owned
  <2>5. QED
    BY <1>1, <2>1, <2>2, <2>3, <2>4
<1>3. /\ retainCount \in [Addrs -> 0..(MaxNative + MaxCasts + 2)]
      /\ native \in [Addrs -> 0..MaxNative] /\ lost \in [Addrs -> 0..MaxNative]
      /\ pool \in [Addrs -> 0..MaxCasts] /\ unbacked \in [Addrs -> 0..(MaxCasts + 1)]
  BY <1>1, <1>2 DEF Types
<1>4. QED
  BY <1>1, <1>3 DEF TypeOK, Types, MoreTypes

(* The remaining types are kept. *)
LEMMA MoreTypesKept ==
  ASSUME Types, MoreTypes, [Next]_vars
  PROVE  MoreTypes'
<1> DEFINE Block == {"protect", "unprotect"} \X Addrs
<1>1. ASSUME NEW t \in Threads, NEW kind \in {"protect", "unprotect"},
             ChangeProtection(t, kind)
      PROVE  gcProtected_' \in [Addrs -> BOOLEAN] /\ blocks' \in Seq(Block) /\ crashed' \in BOOLEAN
  <2>1. self[t] \in Addrs /\ <<kind, self[t]>> \in Block
    BY DEF Types
  <2>2. CASE ~runtime
    BY <1>1, <2>2 DEF ChangeProtection, MoreTypes
  <2>3. CASE runtime /\ t = "loop"
    BY <1>1, <2>3 DEF ChangeProtection, SetProtection, MoreTypes
  <2>4. CASE runtime /\ t # "loop"
    <3>1. /\ blocks' = Append(blocks, <<kind, self[t]>>) /\ blocks \in Seq(Block)
          /\ gcProtected_' = gcProtected_ /\ crashed' = crashed
      BY <1>1, <2>4 DEF ChangeProtection, MoreTypes
    <3> HIDE DEF Block
    <3>2. blocks' \in Seq(Block)
      BY <2>1, <3>1
    <3>3. QED
      BY <3>1, <3>2 DEF MoreTypes
  <2>5. QED
    BY <2>2, <2>3, <2>4
<1>2. ASSUME NEW t \in Threads, CallStep(t) PROVE MoreTypes'
  <2>1. CASE CallRelease(t)
    <3>1. crashed' \in BOOLEAN
      BY <2>1, Zenon DEF CallRelease
    <3>2. QED
      BY <2>1, <3>1 DEF CallRelease, MoreTypes, isolate, hist
  <2>2. CASE ~CallRelease(t)
    BY <1>1, <1>2, <2>2 DEF CallStep, ReadForRetain, GcProtect, CallRetain, ReadForRelease,
                            GcUnprotect, MoreTypes, isolate, hist
  <2>3. QED
    BY <2>1, <2>2
<1>3. ASSUME NEW t, NEW a \in Addrs, NEW step, NEW who, Enter(t, a, step, who)
      PROVE  raced' \in [Addrs -> BOOLEAN] /\ crashed' \in BOOLEAN
  BY <1>3 DEF Enter, MoreTypes
<1>4. ASSUME NEW t \in Threads, NEW a \in Addrs, NativeRetain(t, a) \/ NativeRelease(t, a)
      PROVE  MoreTypes'
  BY <1>3, <1>4 DEF NativeRetain, NativeRelease, MoreTypes, isolate
<1>5. ASSUME NEW a \in Addrs, PassToNative(a) PROVE MoreTypes'
  BY <1>3, <1>5 DEF PassToNative, MoreTypes, isolate
<1>6. ASSUME NEW a \in Addrs, ConstructObject(a) PROVE MoreTypes'
  <2>1. raced' \in [Addrs -> BOOLEAN]
    BY <1>6, Zenon DEF ConstructObject, MoreTypes, Pending
  <2>2. QED
    BY <1>6, <2>1 DEF ConstructObject, MoreTypes, threads
<1>7. ASSUME NEW a \in Addrs, NativeAlloc(a) PROVE MoreTypes'
  <2>1. raced' \in [Addrs -> BOOLEAN]
    BY <1>7, Zenon DEF NativeAlloc, MoreTypes, Pending
  <2>2. QED
    BY <1>7, <2>1 DEF NativeAlloc, MoreTypes, threads, isolate
<1>8. ASSUME NEW a \in Addrs, DropReference(a) \/ ReleaseNativeCounterpart(a) PROVE MoreTypes'
  <2>1. CASE ReleaseNativeCounterpart(a)
    <3>1. crashed' \in BOOLEAN
      BY <2>1, SMT DEF ReleaseNativeCounterpart, Types
    <3>2. QED
      BY <2>1, <3>1 DEF ReleaseNativeCounterpart, MoreTypes
  <2>2. CASE DropReference(a)
    BY <2>2 DEF DropReference, MoreTypes, threads, hist
  <2>3. QED
    BY <1>8, <2>1, <2>2
<1>a. ASSUME NEW a \in Addrs, DrainPool(a) PROVE MoreTypes'
  BY <1>3, <1>a DEF DrainPool, MoreTypes, isolate
<1>b. ASSUME NEW a \in Addrs, NEW owned \in BOOLEAN,
             ConstructFromInitializer(a) \/ ConstructFromPointer(a, owned)
      PROVE  MoreTypes'
  <2>1. FindOrEmplace(a) /\ UNCHANGED <<blocks, threads, hist>>
    BY <1>b DEF ConstructFromInitializer, ConstructFromPointer
  <2>2. QED
    BY <2>1 DEF FindOrEmplace, MoreTypes, threads, hist
<1>9. ASSUME NEW a \in Addrs, FinalizerCallback(a) PROVE MoreTypes'
  BY <1>3, <1>9 DEF FinalizerCallback, MoreTypes
<1>10. ASSUME NEW a \in Addrs, NEW handle, NEW owned, CreateJsWrapper(a, handle, owned)
       PROVE  MoreTypes'
  <2>1. CASE Instances[a] = "none"
    BY <1>3, <1>10, <2>1 DEF CreateJsWrapper, MoreTypes
  <2>2. CASE Instances[a] # "none"
    BY <1>10, <2>2 DEF CreateJsWrapper, MoreTypes, threads
  <2>3. QED
    BY <2>1, <2>2
<1>11. CASE RunBlock
  <2>1. Head(blocks) \in Block /\ Tail(blocks) \in Seq(Block)
    BY <1>11 DEF RunBlock, MoreTypes
  <2>2. gcProtected_' \in [Addrs -> BOOLEAN]
    BY <1>11 DEF RunBlock, SetProtection, MoreTypes
  <2>3. QED
    BY <1>11, <2>1, <2>2 DEF RunBlock, MoreTypes, threads, hist
<1>12. CASE DestroyRuntime
  <2>1. crashed' \in BOOLEAN
    BY <1>12, Zenon DEF DestroyRuntime
  <2>2. QED
    BY <1>12, <2>1 DEF DestroyRuntime, MoreTypes
<1>13. CASE UNCHANGED vars
  BY <1>13 DEF vars, MoreTypes, isolate, threads, hist
<1>14. QED
  BY <1>2, <1>4, <1>5, <1>6, <1>7, <1>8, <1>a, <1>b, <1>9, <1>10, <1>11, <1>12, <1>13 DEF Next

(* A retain in progress makes one of the references of native code untouchable. *)
LEMMA BorrowedIsOne ==
  ASSUME NEW a, NEW t \in Threads, pc[t] \in RetainSteps, self[t] = a, taker[t] = "copied"
  PROVE  Borrowed(a) = 1
BY DEF Borrowed, Working, RetainSteps

(* There is always a reference behind a retain. *)
LEMMA BackedKept ==
  ASSUME CountInv, Backed, MoreTypes, [Next]_vars
  PROVE  Backed'
<1>1. /\ Types /\ "loop" \in Threads /\ "loop" \notin Background
      /\ \A t \in Threads : t # "loop" => t \in Background
      /\ \A t \in Background : t \in Threads
  BY LifetimeAssumption DEF CountInv, Threads
<1>2. ASSUME NEW t \in Threads, ReadForRetain(t) \/ ReadForRelease(t) \/ CallRelease(t)
                                 \/ GcProtect(t) \/ GcUnprotect(t)
      PROVE  Backed'
  BY <1>1, <1>2 DEF ReadForRetain, ReadForRelease, CallRelease, GcProtect, GcUnprotect, GoTo,
    Backed, Types, RetainSteps, objects, isolate
<1>3. ASSUME NEW t \in Threads, CallRetain(t) PROVE Backed'
  BY <1>1, <1>3 DEF CallRetain, GoTo, Backed, Types, RetainSteps, isolate
<1>4. ASSUME NEW t \in Threads, NEW a \in Addrs, NativeRetain(t, a) PROVE Backed'
  BY <1>1, <1>4 DEF NativeRetain, Enter, GoTo, Backed, Types, RetainSteps, objects, isolate
<1>5. ASSUME NEW a \in Addrs, PassToNative(a) PROVE Backed'
  BY <1>1, <1>5 DEF PassToNative, Enter, GoTo, Backed, Types, RetainSteps, objects, isolate
<1>6. ASSUME NEW t \in Threads, NEW a \in Addrs, NativeRelease(t, a) PROVE Backed'
  <2>1. /\ native[a] > lost[a] + Borrowed(a) /\ native' = [native EXCEPT ![a] = native[a] - 1]
        /\ Instances' = Instances /\ reachable' = reachable
        /\ pc' = [pc EXCEPT ![t] = "release"] /\ self' = [self EXCEPT ![t] = a]
        /\ taker' = [taker EXCEPT ![t] = "copied"]
    BY <1>6 DEF NativeRelease, Enter, GoTo, isolate
  <2>2. native[a] \in Nat /\ lost[a] \in Nat
    BY <1>1 DEF Types
  <2>3. ASSUME NEW u \in Threads, pc[u] \in RetainSteps, taker[u] = "copied", self[u] = a
        PROVE  native[a] > 1
    <3>1. Borrowed(a) = 1
      BY <2>3, BorrowedIsOne
    <3>2. QED
      BY <2>1, <2>2, <3>1
  <2>4. ASSUME NEW u \in Threads, pc'[u] \in RetainSteps
        PROVE  IF taker'[u] = "copied" THEN native'[self'[u]] > 0
               ELSE Instances'[self'[u]] # "none"
    <3>1. u # t /\ pc[u] \in RetainSteps /\ taker'[u] = taker[u] /\ self'[u] = self[u]
      BY <1>1, <2>1, <2>4 DEF Types, RetainSteps
    <3>2. CASE self[u] = a
      BY <1>1, <2>1, <2>2, <2>3, <3>1, <3>2 DEF Backed, Types
    <3>3. CASE self[u] # a
      BY <1>1, <2>1, <3>1, <3>3 DEF Backed, Types
    <3>4. QED
      BY <3>2, <3>3
  <2>5. QED
    BY <1>1, <2>1, <2>4 DEF Backed, Types
<1>7. ASSUME NEW a \in Addrs, ConstructObject(a) \/ NativeAlloc(a) \/ DropReference(a)
      PROVE  Backed'
  <2>1. CASE ConstructObject(a)
    BY <1>1, <2>1 DEF ConstructObject, Backed, MoreTypes, Types, threads
  <2>2. CASE NativeAlloc(a)
    BY <1>1, <2>2 DEF NativeAlloc, Backed, MoreTypes, Types, threads, isolate
  <2>3. CASE DropReference(a)
    BY <1>1, <2>3 DEF DropReference, Backed, MoreTypes, Types, threads, objects
  <2>4. QED
    BY <1>7, <2>1, <2>2, <2>3
<1>8. ASSUME NEW a \in Addrs, NEW handle \in {"weak", "strong"}, NEW owned \in BOOLEAN,
             CreateJsWrapper(a, handle, owned)
      PROVE  Backed'
  <2>1. CASE Instances[a] # "none"
    BY <1>1, <1>8, <2>1 DEF CreateJsWrapper, Backed, MoreTypes, Types, threads
  <2>2. CASE Instances[a] = "none"
    <3>1. ASSUME NEW u \in Threads, pc[u] \in RetainSteps, taker[u] = "copied", self[u] = a
          PROVE  native[a] > 1
      BY <1>1, <1>8, <3>1, BorrowedIsOne DEF CreateJsWrapper, Types
    <3>2. PICK who \in {"map", "mapOwned"} :
            /\ pc["loop"] = "idle" /\ Enter("loop", a, "retain", who)
            /\ native' = [native EXCEPT ![a] = IF who = "mapOwned" THEN native[a] - 1
                                                                  ELSE native[a]]
            /\ Instances' = [Instances EXCEPT ![a] = handle]
            /\ reachable' = [reachable EXCEPT ![a] = TRUE]
      BY <1>8, <2>2 DEF CreateJsWrapper, InJs, Idle
    <3>3. /\ pc' = [pc EXCEPT !["loop"] = "retain"] /\ self' = [self EXCEPT !["loop"] = a]
          /\ taker' = [taker EXCEPT !["loop"] = who]
      BY <3>2 DEF Enter, GoTo
    <3>4. \A t \in Background : taker'[t] = "copied"
      BY <1>1, <3>3 DEF Backed
    <3>5. \A b \in Addrs : reachable'[b] => Instances'[b] # "none"
      BY <1>1, <3>2 DEF Backed, MoreTypes, Types
    <3>6. ASSUME NEW t \in Threads, pc'[t] \in RetainSteps
          PROVE  IF taker'[t] = "copied" THEN native'[self'[t]] > 0
                 ELSE Instances'[self'[t]] # "none"
      <4>1. CASE t = "loop"
        BY <1>1, <3>2, <3>3, <4>1 DEF Types
      <4>2. CASE t # "loop"
        BY <1>1, <3>1, <3>2, <3>3, <3>6, <4>2 DEF Types, Backed
      <4>3. QED
        BY <4>1, <4>2
    <3>7. QED
      BY <3>4, <3>5, <3>6 DEF Backed
  <2>3. QED
    BY <2>1, <2>2
<1>9. ASSUME NEW a \in Addrs, FinalizerCallback(a) PROVE Backed'
  BY <1>1, <1>9 DEF FinalizerCallback, InJs, Idle, Enter, GoTo, Backed, Types, RetainSteps,
    objects
<1>10. ASSUME NEW a \in Addrs, ReleaseNativeCounterpart(a) PROVE Backed'
  BY <1>1, <1>10 DEF ReleaseNativeCounterpart, InJs, Idle, Backed, MoreTypes, Types, RetainSteps,
    threads
<1>a. ASSUME NEW a \in Addrs, DrainPool(a) PROVE Backed'
  BY <1>1, <1>a DEF DrainPool, Idle, Enter, GoTo, Backed, Types, RetainSteps, isolate
<1>b. ASSUME NEW a \in Addrs, NEW owned \in BOOLEAN,
             ConstructFromInitializer(a) \/ ConstructFromPointer(a, owned)
      PROVE  Backed'
  <2>1. UNCHANGED <<pc, self, taker>> /\ FindOrEmplace(a)
    BY <1>b DEF ConstructFromInitializer, ConstructFromPointer, threads
  <2>2. ASSUME NEW u \in Threads, pc[u] \in RetainSteps, taker[u] = "copied", self[u] = a
        PROVE  native'[a] > 0
    <3>1. Borrowed(a) = 1 /\ native[a] > 0
      BY <2>2, BorrowedIsOne DEF Backed
    <3>2. QED
      BY <1>1, <1>b, <3>1 DEF ConstructFromInitializer, ConstructFromPointer, Types
  <2>3. \A b \in Addrs : b # a => native'[b] = native[b]
    BY <1>1, <1>b DEF ConstructFromInitializer, ConstructFromPointer, Types
  <2>4. /\ \A b \in Addrs : Instances[b] # "none" => Instances'[b] # "none"
        /\ \A b \in Addrs : reachable'[b] => Instances'[b] # "none"
    BY <1>1, <2>1 DEF FindOrEmplace, Backed, MoreTypes, Types
  <2>5. ASSUME NEW t \in Threads, pc'[t] \in RetainSteps
        PROVE  IF taker'[t] = "copied" THEN native'[self'[t]] > 0
               ELSE Instances'[self'[t]] # "none"
    BY <1>1, <2>1, <2>2, <2>3, <2>4, <2>5 DEF Backed, Types
  <2>6. QED
    BY <2>1, <2>4, <2>5 DEF Backed
<1>11. CASE DestroyRuntime
  BY <1>1, <1>11 DEF DestroyRuntime, InJs, Idle, Backed, Types, RetainSteps, threads
<1>12. CASE RunBlock \/ UNCHANGED vars
  BY <1>1, <1>12 DEF RunBlock, Backed, vars, objects, isolate, threads
<1>13. QED
  BY <1>2, <1>3, <1>4, <1>5, <1>6, <1>7, <1>8, <1>9, <1>10, <1>a, <1>b, <1>11, <1>12
     DEF Next, CallStep

(* The other threads are finitely many, now and after a step. *)
LEMMA SomeOthers ==
  ASSUME NEW b
  PROVE  Cardinality(Others(b)) \in Nat /\ Cardinality(Others(b)') \in Nat
<1>1. Others(b) \in SUBSET Background /\ Others(b)' \in SUBSET Background
  BY DEF Others
<1>2. \A S \in SUBSET Background : Cardinality(S) \in Nat
  BY LifetimeAssumption, FS_Subset, FS_CardinalityType
<1>3. QED
  BY <1>1, <1>2

(* What a call that begins, goes on or ends does to the calls of other threads. *)
LEMMA OthersEnter ==
  ASSUME Types, NEW t \in Threads, pc[t] = "idle", NEW a \in Addrs,
         NEW step \in {"retain", "release"}, NEW who, Enter(t, a, step, who)
  PROVE  \A b \in Addrs :
           /\ Cardinality(Others(b)')
                = Cardinality(Others(b)) + (IF t # "loop" /\ b = a THEN 1 ELSE 0)
           /\ RetainsForNative(b)' <=>
                IF t = "loop" THEN step = "retain" /\ who \in {"passed", "copied"} /\ b = a
                              ELSE RetainsForNative(b)
<1> SUFFICES ASSUME NEW b \in Addrs
             PROVE  /\ Cardinality(Others(b)')
                         = Cardinality(Others(b)) + (IF t # "loop" /\ b = a THEN 1 ELSE 0)
                    /\ RetainsForNative(b)' <=>
                         IF t = "loop" THEN step = "retain" /\ who \in {"passed", "copied"} /\ b = a
                                       ELSE RetainsForNative(b)
  OBVIOUS
<1>1. /\ pc' = [pc EXCEPT ![t] = step] /\ self' = [self EXCEPT ![t] = a]
      /\ taker' = [taker EXCEPT ![t] = who]
  BY DEF Enter, GoTo
<1>2. t \notin Others(b) /\ "loop" \notin Background
  BY LifetimeAssumption DEF Others
<1>3. CASE t # "loop" /\ b = a
  <2>1. Others(b)' = Others(b) \cup {t}
    BY <1>1, <1>3 DEF Others, Types, Threads
  <2>2. QED
    BY <1>1, <1>2, <1>3, <2>1, OthersAreFinite, OneMore DEF RetainsForNative, Types, Threads
<1>4. CASE ~(t # "loop" /\ b = a)
  <2>1. Others(b)' = Others(b)
    BY <1>1, <1>2, <1>4 DEF Others, Types, Threads
  <2>2. QED
    BY <1>1, <1>4, <2>1, OthersAreFinite DEF RetainsForNative, Types, Threads, RetainSteps
<1>5. QED
  BY <1>3, <1>4

(* A call that goes on stays one, and one that ends is one less. *)
LEMMA OthersMove ==
  ASSUME Types, NEW t \in Threads, pc[t] # "idle", NEW step, GoTo(t, step),
         UNCHANGED <<self, taker>>
  PROVE  \A b \in Addrs :
           /\ step # "idle" => Cardinality(Others(b)') = Cardinality(Others(b))
           /\ step = "idle" => Cardinality(Others(b)) = Cardinality(Others(b)')
                                 + (IF t # "loop" /\ b = self[t] THEN 1 ELSE 0)
           /\ RetainsForNative(b)' => t # "loop" \/ step \in RetainSteps
           /\ t # "loop" \/ (pc[t] \in RetainSteps /\ step \in RetainSteps)
                => (RetainsForNative(b)' <=> RetainsForNative(b))
<1> SUFFICES ASSUME NEW b \in Addrs
             PROVE  /\ step # "idle" => Cardinality(Others(b)') = Cardinality(Others(b))
                    /\ step = "idle" => Cardinality(Others(b)) = Cardinality(Others(b)')
                                          + (IF t # "loop" /\ b = self[t] THEN 1 ELSE 0)
                    /\ RetainsForNative(b)' => t # "loop" \/ step \in RetainSteps
                    /\ t # "loop" \/ (pc[t] \in RetainSteps /\ step \in RetainSteps)
                         => (RetainsForNative(b)' <=> RetainsForNative(b))
  OBVIOUS
<1>1. pc' = [pc EXCEPT ![t] = step] /\ self' = self /\ taker' = taker
  BY DEF GoTo
<1>2. /\ RetainsForNative(b)' => t # "loop" \/ step \in RetainSteps
      /\ t # "loop" \/ (pc[t] \in RetainSteps /\ step \in RetainSteps)
           => (RetainsForNative(b)' <=> RetainsForNative(b))
  BY <1>1 DEF RetainsForNative, Types, Threads
<1>3. CASE step # "idle"
  <2>1. Others(b)' = Others(b)
    BY <1>1, <1>3 DEF Others, Types, Threads
  <2>2. QED
    BY <1>2, <1>3, <2>1
<1>4. CASE step = "idle" /\ t # "loop" /\ b = self[t]
  <2>1. t \in Others(b) /\ Others(b)' = Others(b) \ {t}
    BY <1>1, <1>4 DEF Others, Types, Threads
  <2>2. Cardinality(Others(b)') = Cardinality(Others(b)) - 1 /\ Cardinality(Others(b)) \in Nat
    BY <2>1, OthersAreFinite, OneLess
  <2>3. QED
    BY <1>2, <1>4, <2>2
<1>5. CASE step = "idle" /\ ~(t # "loop" /\ b = self[t])
  <2>1. Others(b)' = Others(b)
    BY <1>1, <1>5, LifetimeAssumption DEF Others, Types, Threads
  <2>2. QED
    BY <1>2, <1>5, <2>1, OthersAreFinite
<1>6. QED
  BY <1>3, <1>4, <1>5

(* Without a move of a thread there are the same calls. *)
LEMMA OthersRest ==
  ASSUME UNCHANGED <<pc, self, taker>>
  PROVE  \A b : /\ Cardinality(Others(b)') = Cardinality(Others(b))
                /\ RetainsForNative(b)' <=> RetainsForNative(b)
<1>1. \A b : Others(b)' = Others(b) /\ (RetainsForNative(b)' <=> RetainsForNative(b))
  BY DEF Others, RetainsForNative
<1>2. QED
  BY <1>1

(* What the bounds say of one object, in numbers. *)
LEMMA BoundsOf ==
  ASSUME Types, WithinBounds, NEW a \in Addrs
  PROVE  /\ native[a] \in Nat /\ lost[a] \in Nat /\ lost[a] <= native[a]
         /\ Cardinality(Others(a)) \in Nat /\ Claim(a) \in {0, 1} /\ MaxNative \in Nat
         /\ native[a] + Cardinality(Others(a)) + Claim(a) <= MaxNative
BY OthersAreFinite, LifetimeAssumption DEF Types, WithinBounds, Claim

(* The bounds are kept. *)
LEMMA WithinKept ==
  ASSUME CountInv, Backed, WithinBounds, [Next]_vars
  PROVE  WithinBounds'
<1> DEFINE Fits(b) == /\ native'[b] + Cardinality(Others(b)') + Claim(b)' <= MaxNative
                      /\ lost'[b] <= native'[b]
<1>a. ASSUME \A b \in Addrs : Fits(b) PROVE WithinBounds'
  BY <1>a DEF WithinBounds
<1> HIDE DEF Fits
<1>1. Types /\ "loop" \in Threads
  BY DEF CountInv, Threads
<1>2. ASSUME NEW t \in Threads, NEW step, pc[t] # "idle", GoTo(t, step),
             UNCHANGED <<self, taker, native, lost>>, step \in RetainSteps => pc[t] \in RetainSteps
      PROVE  WithinBounds'
  <2> SUFFICES ASSUME NEW b \in Addrs PROVE Fits(b)
    BY <1>a
  <2>1. /\ Cardinality(Others(b)') \in Nat /\ Cardinality(Others(b)') <= Cardinality(Others(b))
        /\ RetainsForNative(b)' => RetainsForNative(b)
    <3>1. Cardinality(Others(b)) \in Nat /\ Cardinality(Others(b)') \in Nat
      BY SomeOthers
    <3>2. QED
      BY <1>1, <1>2, <3>1, OthersMove
  <2>2. Claim(b)' <= Claim(b) /\ Claim(b)' \in {0, 1}
    BY <2>1 DEF Claim
  <2>3. QED
    BY <1>1, <1>2, <2>1, <2>2, BoundsOf DEF Fits
<1>3. ASSUME NEW t \in Threads, ReadForRetain(t) \/ GcProtect(t) PROVE WithinBounds'
  BY <1>2, <1>3 DEF ReadForRetain, GcProtect, RetainSteps, objects
<1>4. ASSUME NEW t \in Threads, ReadForRelease(t) \/ GcUnprotect(t) \/ CallRelease(t)
      PROVE  WithinBounds'
  BY <1>2, <1>4 DEF ReadForRelease, GcUnprotect, CallRelease, RetainSteps, objects
<1>5. ASSUME NEW t \in Threads, CallRetain(t) PROVE WithinBounds'
  <2> SUFFICES ASSUME NEW b \in Addrs PROVE Fits(b)
    BY <1>a
  <2>1. PICK a \in Addrs : a = self[t]
    BY <1>1 DEF Types
  <2>2. /\ pc[t] = "callRetain" /\ UNCHANGED <<lost, self, taker>>
        /\ native' = [native EXCEPT ![a] = IF taker[t] \in {"passed", "copied"}
                                             THEN native[a] + 1 ELSE native[a]]
    BY <1>5, <2>1 DEF CallRetain
  <2>3. CASE taker[t] \in {"map", "mapOwned"}
    <3>1. PICK step : GoTo(t, step) /\ step \notin RetainSteps
      BY <1>5 DEF CallRetain, RetainSteps
    <3>2. native' = native
      BY <1>1, <2>2, <2>3 DEF Types
    <3>3. WithinBounds'
      BY <1>2, <2>2, <3>1, <3>2
    <3>4. QED
      BY <3>3 DEF Fits, WithinBounds
  <2>4. CASE taker[t] \in {"passed", "copied"}
    <3>1. GoTo(t, "idle")
      BY <1>5, <2>4 DEF CallRetain
    <3>2. /\ Cardinality(Others(b)) = Cardinality(Others(b)')
                                        + (IF t # "loop" /\ b = a THEN 1 ELSE 0)
          /\ Cardinality(Others(b)') \in Nat
          /\ t # "loop" => (RetainsForNative(b)' <=> RetainsForNative(b))
          /\ t = "loop" => ~RetainsForNative(b)'
      BY <1>1, <2>1, <2>2, <3>1, OthersMove, SomeOthers DEF RetainSteps
    <3>3. t = "loop" /\ b = a => RetainsForNative(b)
      BY <2>1, <2>2, <2>4 DEF RetainsForNative, RetainSteps
    <3>4. /\ Claim(b)' + (IF t = "loop" /\ b = a THEN 1 ELSE 0) <= Claim(b)
          /\ Claim(b)' \in {0, 1}
      BY <3>2, <3>3 DEF Claim
    <3>5. native'[b] = native[b] + (IF b = a THEN 1 ELSE 0) /\ lost' = lost
      BY <1>1, <2>2, <2>4 DEF Types
    <3>6. QED
      BY <1>1, <3>2, <3>4, <3>5, BoundsOf DEF Fits
  <2>5. QED
    BY <1>1, <2>3, <2>4 DEF Types
<1>6. ASSUME NEW t \in Threads, NEW a \in Addrs, NEW who \in {"passed", "copied"},
             pc[t] = "idle", native[a] + Cardinality(Working(a)) < MaxNative,
             Enter(t, a, "retain", who), UNCHANGED <<native, lost>>
      PROVE  WithinBounds'
  <2> SUFFICES ASSUME NEW b \in Addrs PROVE Fits(b)
    BY <1>a
  <2>1. /\ Cardinality(Others(b)')
             = Cardinality(Others(b)) + (IF t # "loop" /\ b = a THEN 1 ELSE 0)
        /\ RetainsForNative(b)' <=> IF t = "loop" THEN b = a ELSE RetainsForNative(b)
    BY <1>1, <1>6, OthersEnter
  <2>2. /\ Cardinality(Others(b)) <= Cardinality(Working(b)) /\ Cardinality(Working(b)) \in Nat
        /\ RetainsForNative(b) => Cardinality(Working(b)) = Cardinality(Others(b)) + 1
    BY OthersAreFinite DEF RetainsForNative, RetainSteps
  <2>3. t = "loop" => ~RetainsForNative(b)
    BY <1>6 DEF RetainsForNative, RetainSteps
  <2>4. CASE b = a
    <3>1. Cardinality(Others(b)) + Claim(b) <= Cardinality(Working(b))
      BY <1>1, <2>2, BoundsOf DEF Claim
    <3>2. Cardinality(Others(b)') + Claim(b)' = Cardinality(Others(b)) + Claim(b) + 1
      BY <1>1, <2>1, <2>3, <2>4, BoundsOf DEF Claim
    <3>3. Cardinality(Others(b)') \in Nat /\ Claim(b)' \in {0, 1}
      BY SomeOthers DEF Claim
    <3>4. QED
      BY <1>1, <1>6, <2>2, <2>4, <3>1, <3>2, <3>3, BoundsOf DEF Fits
  <2>5. CASE b # a
    <3>1. Cardinality(Others(b)') = Cardinality(Others(b)) /\ Claim(b)' <= Claim(b)
          /\ Claim(b)' \in {0, 1}
      BY <1>1, <2>1, <2>5, BoundsOf DEF Claim
    <3>2. QED
      BY <1>1, <1>6, <3>1, BoundsOf DEF Fits
  <2>6. QED
    BY <2>4, <2>5
<1>7. ASSUME NEW t \in Threads, NEW a \in Addrs, NativeRetain(t, a) PROVE WithinBounds'
  BY <1>6, <1>7 DEF NativeRetain, Idle, objects
<1>8. ASSUME NEW a \in Addrs, PassToNative(a) PROVE WithinBounds'
  BY <1>1, <1>6, <1>8 DEF PassToNative, InJs, Idle, objects
<1>9. ASSUME NEW t \in Threads, NEW a \in Addrs, NativeRelease(t, a) PROVE WithinBounds'
  <2> SUFFICES ASSUME NEW b \in Addrs PROVE Fits(b)
    BY <1>a
  <2>1. /\ pc[t] = "idle" /\ Enter(t, a, "release", "copied") /\ lost' = lost
        /\ native' = [native EXCEPT ![a] = native[a] - 1]
        /\ Borrowed(a) \in {0, 1} /\ native[a] > lost[a] + Borrowed(a)
    BY <1>9 DEF NativeRelease, Idle, Borrowed
  <2>2. /\ Cardinality(Others(b)')
             = Cardinality(Others(b)) + (IF t # "loop" /\ b = a THEN 1 ELSE 0)
        /\ RetainsForNative(b)' => RetainsForNative(b)
    BY <1>1, <2>1, OthersEnter
  <2>3. Claim(b)' <= Claim(b) /\ Claim(b)' \in {0, 1}
    BY <2>2 DEF Claim
  <2>4. native'[b] = native[b] - (IF b = a THEN 1 ELSE 0) /\ lost'[b] = lost[b]
    BY <1>1, <2>1 DEF Types
  <2>5. QED
    BY <1>1, <2>1, <2>2, <2>3, <2>4, BoundsOf DEF Fits
<1>10. ASSUME NEW a \in Addrs, NativeAlloc(a) PROVE WithinBounds'
  <2> SUFFICES ASSUME NEW b \in Addrs PROVE Fits(b)
    BY <1>a
  <2>1. /\ ~crashed /\ retainCount[a] = 0 /\ MaxNative > 0 /\ UNCHANGED <<pc, self, taker>>
        /\ native' = [native EXCEPT ![a] = 1] /\ lost' = [lost EXCEPT ![a] = 0]
    BY <1>10 DEF NativeAlloc, threads
  <2>2. Cardinality(Others(b)') = Cardinality(Others(b)) /\ Claim(b)' = Claim(b)
    BY <2>1, OthersRest DEF Claim
  <2>3. b = a => Cardinality(Others(b)) = 0 /\ Claim(b) = 0
    BY <2>1, NobodyAtFree, FS_EmptySet DEF Claim
  <2>4. /\ native'[b] = (IF b = a THEN 1 ELSE native[b])
        /\ lost'[b] = IF b = a THEN 0 ELSE lost[b]
    BY <1>1, <2>1 DEF Types
  <2>5. QED
    BY <1>1, <2>1, <2>2, <2>3, <2>4, BoundsOf DEF Fits
<1>11. ASSUME UNCHANGED <<native, lost, pc, self, taker>> PROVE WithinBounds'
  <2> SUFFICES ASSUME NEW b \in Addrs PROVE Fits(b)
    BY <1>a
  <2>1. Cardinality(Others(b)') = Cardinality(Others(b)) /\ Claim(b)' = Claim(b)
    BY <1>11, OthersRest DEF Claim
  <2>2. QED
    BY <1>1, <1>11, <2>1, BoundsOf DEF Fits
<1>12. ASSUME NEW a \in Addrs,
              ConstructObject(a) \/ DropReference(a) \/ ReleaseNativeCounterpart(a)
       PROVE  WithinBounds'
  BY <1>11, <1>12 DEF ConstructObject, DropReference, ReleaseNativeCounterpart, objects, threads
<1>13. CASE RunBlock \/ DestroyRuntime \/ UNCHANGED vars
  BY <1>11, <1>13 DEF RunBlock, DestroyRuntime, vars, objects, threads
<1>14. ASSUME NEW a \in Addrs, FinalizerCallback(a) \/ DrainPool(a) PROVE WithinBounds'
  <2> SUFFICES ASSUME NEW b \in Addrs PROVE Fits(b)
    BY <1>a
  <2>1. /\ pc["loop"] = "idle" /\ Enter("loop", a, "release", "copied")
        /\ UNCHANGED <<native, lost>>
    BY <1>14 DEF FinalizerCallback, DrainPool, InJs, Idle, objects
  <2>2. Cardinality(Others(b)') = Cardinality(Others(b)) + 0 /\ ~RetainsForNative(b)'
    BY <1>1, <2>1, OthersEnter
  <2>3. Claim(b)' = 0
    BY <2>2 DEF Claim
  <2>4. QED
    BY <1>1, <2>1, <2>2, <2>3, BoundsOf DEF Fits
<1>15. ASSUME NEW a \in Addrs, NEW handle, NEW owned \in BOOLEAN,
              CreateJsWrapper(a, handle, owned)
       PROVE  WithinBounds'
  <2> SUFFICES ASSUME NEW b \in Addrs PROVE Fits(b)
    BY <1>a
  <2>1. Borrowed(a) \in {0, 1} /\ native[a] > lost[a] + Borrowed(a) /\ pc["loop"] = "idle"
    BY <1>15 DEF CreateJsWrapper, Borrowed, InJs, Idle
  <2>2. CASE Instances[a] # "none"
    <3>1. /\ UNCHANGED <<native, pc, self, taker>>
          /\ lost' = [lost EXCEPT ![a] = IF owned THEN lost[a] + 1 ELSE lost[a]]
      BY <1>15, <2>2 DEF CreateJsWrapper, threads
    <3>2. Cardinality(Others(b)') = Cardinality(Others(b)) /\ Claim(b)' = Claim(b)
      BY <3>1, OthersRest DEF Claim
    <3>3. lost'[b] = lost[b] + (IF b = a /\ owned THEN 1 ELSE 0)
      BY <1>1, <3>1 DEF Types
    <3>4. QED
      BY <1>1, <2>1, <3>1, <3>2, <3>3, BoundsOf DEF Fits
  <2>3. CASE Instances[a] = "none"
    <3>1. PICK who \in {"map", "mapOwned"} : Enter("loop", a, "retain", who)
      BY <1>15, <2>3 DEF CreateJsWrapper
    <3>2. native' = [native EXCEPT ![a] = IF owned THEN native[a] - 1 ELSE native[a]]
          /\ lost' = lost
      BY <1>15, <2>3 DEF CreateJsWrapper
    <3>3. Cardinality(Others(b)') = Cardinality(Others(b)) + 0 /\ ~RetainsForNative(b)'
      BY <1>1, <2>1, <3>1, OthersEnter
    <3>4. Claim(b)' = 0
      BY <3>3 DEF Claim
    <3>5. native'[b] = native[b] - (IF b = a /\ owned THEN 1 ELSE 0)
      BY <1>1, <3>2 DEF Types
    <3>6. QED
      BY <1>1, <2>1, <3>2, <3>3, <3>4, <3>5, BoundsOf DEF Fits
  <2>4. QED
    BY <2>2, <2>3
<1>16. ASSUME NEW a \in Addrs, NEW owned \in BOOLEAN,
              ConstructFromInitializer(a) \/ ConstructFromPointer(a, owned)
       PROVE  WithinBounds'
  <2> SUFFICES ASSUME NEW b \in Addrs PROVE Fits(b)
    BY <1>a
  <2>1. UNCHANGED <<pc, self, taker>>
    BY <1>16 DEF ConstructFromInitializer, ConstructFromPointer, threads
  <2>2. Cardinality(Others(b)') = Cardinality(Others(b)) /\ Claim(b)' = Claim(b)
    BY <2>1, OthersRest DEF Claim
  <2>3. native'[b] <= native[b] /\ lost'[b] <= native'[b] /\ native'[b] \in Int
    <3>1. lost[b] <= native[b] /\ lost[b] \in Nat /\ native[b] \in Nat /\ Borrowed(a) \in {0, 1}
      BY <1>1, BoundsOf DEF Borrowed
    <3>2. QED
      BY <1>1, <1>16, <3>1 DEF ConstructFromInitializer, ConstructFromPointer, Types
  <2>4. QED
    BY <1>1, <2>2, <2>3, BoundsOf DEF Fits
<1>17. QED
  BY <1>3, <1>4, <1>5, <1>7, <1>8, <1>9, <1>10, <1>12, <1>13, <1>14, <1>15, <1>16
     DEF Next, CallStep

(* So are those of the casts: only a constructor called with a Pointer adds to them. *)
LEMMA CastsKept ==
  ASSUME Types, CastsWithinBounds, [Next]_vars
  PROVE  CastsWithinBounds'
<1> USE LifetimeAssumption
<1>1. ASSUME UNCHANGED <<pool, unbacked>> PROVE CastsWithinBounds'
  BY <1>1 DEF CastsWithinBounds
<1>2. ASSUME NEW t \in Threads, CallStep(t) PROVE CastsWithinBounds'
  BY <1>1, <1>2 DEF CallStep, ReadForRetain, GcProtect, CallRetain, ReadForRelease, GcUnprotect,
                    CallRelease, objects
<1>3. ASSUME NEW t \in Threads, NEW a \in Addrs, NativeRetain(t, a) \/ NativeRelease(t, a)
      PROVE  CastsWithinBounds'
  BY <1>1, <1>3 DEF NativeRetain, NativeRelease, objects
<1>4. ASSUME NEW a \in Addrs,
             \/ PassToNative(a) \/ ConstructObject(a) \/ ConstructFromInitializer(a)
             \/ NativeAlloc(a) \/ DropReference(a) \/ FinalizerCallback(a)
             \/ ReleaseNativeCounterpart(a)
      PROVE  CastsWithinBounds'
  BY <1>1, <1>4 DEF PassToNative, ConstructObject, ConstructFromInitializer, NativeAlloc,
                    DropReference, FinalizerCallback, ReleaseNativeCounterpart, objects
<1>5. ASSUME NEW a \in Addrs, NEW handle, NEW owned, CreateJsWrapper(a, handle, owned)
      PROVE  CastsWithinBounds'
  BY <1>1, <1>5 DEF CreateJsWrapper
<1>6. ASSUME NEW a \in Addrs, DrainPool(a) PROVE CastsWithinBounds'
  BY <1>6 DEF DrainPool, CastsWithinBounds, Types
<1>7. ASSUME NEW a \in Addrs, NEW owned \in BOOLEAN, ConstructFromPointer(a, owned)
      PROVE  CastsWithinBounds'
  BY <1>7 DEF ConstructFromPointer, CastsWithinBounds, Types
<1>8. CASE RunBlock \/ DestroyRuntime \/ UNCHANGED vars
  BY <1>1, <1>8 DEF RunBlock, DestroyRuntime, vars, objects
<1>9. QED
  BY <1>2, <1>3, <1>4, <1>5, <1>6, <1>7, <1>8 DEF Next

(* Initially there is nothing to bound. *)
LEMMA BoundsInitially == Init => BoundsInv
<1> SUFFICES ASSUME Init PROVE BoundsInv
  OBVIOUS
<1>1. CountInv /\ LeakedAtTheEnd
  BY CountInvInit DEF Init, LeakedAtTheEnd
<1>2. Backed
  BY DEF Init, Backed, Threads, RetainSteps
<1>3. MoreTypes
  <2>1. \A S : <<>> \in Seq(S)
    OBVIOUS
  <2>2. blocks \in Seq({"protect", "unprotect"} \X Addrs)
    BY <2>1 DEF Init
  <2>3. QED
    BY <2>2 DEF Init, MoreTypes
<1>4. ASSUME NEW a \in Addrs
      PROVE  /\ native[a] + Cardinality(Others(a)) + Claim(a) <= MaxNative
             /\ lost[a] <= native[a]
  <2>1. Others(a) = {} /\ Claim(a) = 0
    BY DEF Init, Others, Claim, RetainsForNative, RetainSteps, Threads
  <2>2. QED
    BY <2>1, FS_EmptySet, LifetimeAssumption DEF Init
<1>5. CastsWithinBounds
  BY LifetimeAssumption DEF Init, CastsWithinBounds
<1>6. QED
  BY <1>1, <1>2, <1>3, <1>4, <1>5 DEF BoundsInv, WithinBounds

(* All of it is kept by every step. *)
LEMMA BoundsStep == BoundsInv /\ [Next]_vars => BoundsInv'
<1> SUFFICES ASSUME BoundsInv, [Next]_vars PROVE BoundsInv'
  OBVIOUS
<1>1. \A a \in Addrs : reachable[a] => Instances[a] # "none"
  BY DEF BoundsInv, Backed
<1>2. CountInv' /\ LeakedAtTheEnd'
  BY <1>1, CountInvStep, LeakedKeeps DEF BoundsInv, CountInv
<1>3. QED
  BY <1>2, BackedKept, WithinKept, CastsKept, MoreTypesKept DEF BoundsInv, CountInv

(* So all of it holds in every state. *)
LEMMA BoundsHold == Spec => []BoundsInv
<1>1. BoundsInv /\ [Next]_vars => BoundsInv'
  BY BoundsStep
<1>2. QED
  BY <1>1, BoundsInitially, PTL DEF Spec

(* The counts stay within their bounds, above all at or above zero, and the rest *)
(* of the state in its types.                                                    *)
THEOREM LifetimeTypes == Spec => []TypeOK
  BY BoundsHold, BoundsGiveTypes, PTL

(* CountIsExact, for every number of objects and threads: whatever retains,      *)
(* releases, collections, returned objects and the end of the runtime do, an     *)
(* object at rest has exactly the references that native code, the autorelease   *)
(* pools and the map own, less those that constructors called with a Pointer     *)
(* gave away without having them.                                                *)
THEOREM CountsAreExact == Spec => []CountIsExact
<1>1. BoundsInv => CountIsExact
  <2> SUFFICES ASSUME BoundsInv, NEW a \in Addrs, AtRest(a)
               PROVE  retainCount[a] + unbacked[a]
                        = native[a] + pool[a] + (IF Instances[a] = "none" THEN 0 ELSE 1)
    BY DEF CountIsExact
  <2>1. Cardinality(Releasing(a)) = 0 /\ ~MapRetains(a)
    BY RestIsQuiet DEF BoundsInv, CountInv, AtRest
  <2>2. QED
    BY <2>1 DEF BoundsInv, CountInv, Accounted, Balanced, Owned, Owed, InMap, Types
<1>2. QED
  BY <1>1, BoundsHold, PTL

-----------------------------------------------------------------------------
(* ProtectTracksOwners.  While an object's calls do not overlap and its count is whole, *)
(* the retain count a call reads is the one it changes, so the protection, once a       *)
(* posted block has run, is what the call wanted.                                       *)

Calm(a) == jsBorn[a] /\ ~raced[a] /\ unbacked[a] = 0

Posted(a) == \E i \in DOMAIN blocks : blocks[i][2] = a /\ blocks[i][1] = "protect"

(* The protection when the block posted for a, if any, has run. *)
WillBe(a) == IF Pending(a) THEN Posted(a) ELSE gcProtected_[a]

Alone(a) == \A i, j \in DOMAIN blocks : blocks[i][2] = a /\ blocks[j][2] = a => i = j

BornInMap == \A a \in Addrs : jsBorn[a] => runtime /\ Instances[a] = "weak"

(* What a call in progress has done and has yet to do. *)
InStep(a, step, who) ==
  /\ who \in {"passed", "copied"}
  /\ step \in {"retain", "protect", "release", "unprotect"} => ~Pending(a)
  /\ step \in {"retain", "protect", "callRelease"} => (WillBe(a) <=> Owned(a) > 0)
  /\ step \in {"callRetain", "release", "unprotect"} => WillBe(a)
  /\ step \in {"protect", "unprotect"} => Owned(a) = 0

Orderly(a) ==
  /\ Alone(a)
  /\ Working(a) = {} => (WillBe(a) <=> Owned(a) > 0)
  /\ \A t, u \in Working(a) : t = u
  /\ \A t \in Working(a) : InStep(a, pc[t], taker[t])

Tracking == \A a \in Addrs : Calm(a) => Orderly(a)

TrackInv == BoundsInv /\ BornInMap /\ Tracking

(* A block that is posted is the last, and one that runs was the first. *)
LEMMA BlockPosted ==
  ASSUME MoreTypes, NEW kind \in {"protect", "unprotect"}, NEW b \in Addrs,
         blocks' = Append(blocks, <<kind, b>>), NEW a \in Addrs
  PROVE  /\ Pending(a)' <=> Pending(a) \/ a = b
         /\ Posted(a)' <=> Posted(a) \/ (a = b /\ kind = "protect")
         /\ Alone(a) /\ (a = b => ~Pending(a)) => Alone(a)'
<1>1. PICK n \in Nat : n = Len(blocks) /\ DOMAIN blocks = 1..n
  BY DEF MoreTypes
<1>2. /\ DOMAIN blocks' = 1..n + 1 /\ blocks'[n + 1][1] = kind /\ blocks'[n + 1][2] = b
      /\ \A i \in 1..n : blocks'[i] = blocks[i]
  <2>1. blocks \in Seq({"protect", "unprotect"} \X Addrs)
    BY DEF MoreTypes
  <2>2. <<kind, b>> \in {"protect", "unprotect"} \X Addrs
    OBVIOUS
  <2>3. QED
    BY <1>1, <2>1, <2>2
<1>3. \A i : i \in 1..n + 1 <=> i \in 1..n \/ i = n + 1
  BY <1>1
<1>4. QED
  BY <1>1, <1>2, <1>3 DEF Pending, Posted, Alone

(* The same for one that has run. *)
LEMMA BlockRun ==
  ASSUME MoreTypes, blocks # <<>>, blocks' = Tail(blocks), NEW a \in Addrs, Alone(a)
  PROVE  /\ Alone(a)'
         /\ Head(blocks)[1] \in {"protect", "unprotect"} /\ Head(blocks)[2] \in Addrs
         /\ Head(blocks)[2] # a => (Pending(a)' <=> Pending(a)) /\ (Posted(a)' <=> Posted(a))
         /\ Head(blocks)[2] = a => /\ Pending(a) /\ ~Pending(a)'
                                   /\ Posted(a) <=> Head(blocks)[1] = "protect"
<1>1. blocks \in Seq({"protect", "unprotect"} \X Addrs)
  BY DEF MoreTypes
<1>2. PICK n \in Nat : n = Len(blocks) /\ n > 0 /\ DOMAIN blocks = 1..n
  BY <1>1
<1>3. /\ Head(blocks) = blocks[1] /\ DOMAIN blocks' = 1..n - 1
      /\ \A i \in 1..n - 1 : blocks'[i] = blocks[i + 1]
      /\ blocks[1] \in {"protect", "unprotect"} \X Addrs
  BY <1>1, <1>2
<1>4. /\ \A i \in DOMAIN blocks : i = 1 \/ \E j \in DOMAIN blocks' : blocks'[j] = blocks[i]
      /\ \A j \in DOMAIN blocks' : \E i \in DOMAIN blocks : blocks'[j] = blocks[i]
  <2>1. \A i \in 1..n : i = 1 \/ (i - 1 \in 1..n - 1 /\ (i - 1) + 1 = i)
    BY <1>2
  <2>2. \A j \in 1..n - 1 : j + 1 \in 1..n
    BY <1>2
  <2>3. \A i \in 1..n : i = 1 \/ \E j \in 1..n - 1 : blocks'[j] = blocks[i]
    BY <1>3, <2>1
  <2>4. \A j \in 1..n - 1 : \E i \in 1..n : blocks'[j] = blocks[i]
    BY <1>3, <2>2
  <2>5. DOMAIN blocks = 1..n /\ DOMAIN blocks' = 1..n - 1
    BY <1>2, <1>3
  <2>6. QED
    BY <2>3, <2>4, <2>5, Zenon
<1>5. Alone(a)'
  <2> SUFFICES ASSUME NEW i \in 1..n - 1, NEW j \in 1..n - 1,
                      blocks'[i][2] = a, blocks'[j][2] = a
               PROVE  i = j
    BY <1>3 DEF Alone
  <2>1. i + 1 \in 1..n /\ j + 1 \in 1..n /\ blocks[i + 1][2] = a /\ blocks[j + 1][2] = a
    BY <1>2, <1>3
  <2>2. i + 1 = j + 1
    BY <1>2, <2>1 DEF Alone
  <2>3. QED
    BY <2>2
<1>6. CASE blocks[1][2] # a
  <2>1. Pending(a)' <=> Pending(a)
    BY <1>4, <1>6 DEF Pending
  <2>2. Posted(a)' <=> Posted(a)
    BY <1>4, <1>6 DEF Posted
  <2>3. QED
    BY <1>3, <1>5, <1>6, <2>1, <2>2
<1>7. CASE blocks[1][2] = a
  <2>1. 1 \in DOMAIN blocks
    BY <1>2
  <2>2. Pending(a) /\ \A i \in DOMAIN blocks : blocks[i][2] = a => i = 1
    BY <1>7, <2>1 DEF Alone, Pending
  <2>3. \A j \in 1..n - 1 : j + 1 \in 1..n /\ j + 1 # 1
    BY <1>2
  <2>4. ~Pending(a)'
    BY <1>2, <1>3, <2>2, <2>3 DEF Pending
  <2>5. Posted(a) <=> blocks[1][1] = "protect"
    BY <1>7, <2>1, <2>2 DEF Posted
  <2>6. QED
    BY <1>3, <1>5, <1>7, <2>2, <2>4, <2>5
<1>8. QED
  BY <1>6, <1>7

(* A step that is about another object. *)
Elsewhere(a) ==
  /\ \A t \in Threads : t \in Working(a)' <=> t \in Working(a)
  /\ \A t \in Working(a) : pc'[t] = pc[t] /\ taker'[t] = taker[t]
  /\ Owned(a)' = Owned(a)
  /\ Alone(a) => Alone(a)'
  /\ (Pending(a)' => Pending(a)) /\ (WillBe(a)' <=> WillBe(a))

(* It leaves a as it was. *)
LEMMA ElsewhereKeeps ==
  ASSUME NEW a \in Addrs, Orderly(a), Elsewhere(a)
  PROVE  Orderly(a)'
<1>1. Working(a)' = Working(a)
  BY DEF Elsewhere, Working
<1>2. \A t \in Working(a) : InStep(a, pc[t], taker[t])'
  BY DEF Elsewhere, Orderly, InStep
<1>3. QED
  BY <1>1, <1>2 DEF Elsewhere, Orderly

(* No thread moves and nothing of a changes. *)
LEMMA StillElsewhere ==
  ASSUME NEW a \in Addrs, UNCHANGED <<pc, self, taker, blocks>>, Owned(a)' = Owned(a),
         gcProtected_'[a] = gcProtected_[a]
  PROVE  Elsewhere(a)
<1>1. Working(a)' = Working(a) /\ (Pending(a)' <=> Pending(a)) /\ (Posted(a)' <=> Posted(a))
      /\ (Alone(a)' <=> Alone(a))
  BY DEF Working, Pending, Posted, Alone
<1>2. QED
  BY <1>1 DEF Elsewhere, WillBe, Working

(* A thread enters a call of another object. *)
LEMMA EnterElsewhere ==
  ASSUME Types, NEW a \in Addrs, NEW t \in Threads, pc[t] = "idle", NEW b \in Addrs, a # b,
         NEW step, NEW who, Enter(t, b, step, who), blocks' = blocks, Owned(a)' = Owned(a),
         gcProtected_'[a] = gcProtected_[a]
  PROVE  Elsewhere(a)
<1>1. (Pending(a)' <=> Pending(a)) /\ (Posted(a)' <=> Posted(a)) /\ (Alone(a)' <=> Alone(a))
  BY DEF Pending, Posted, Alone
<1>2. /\ pc' = [pc EXCEPT ![t] = step] /\ self' = [self EXCEPT ![t] = b]
      /\ taker' = [taker EXCEPT ![t] = who]
  BY DEF Enter, GoTo
<1>3. \A u \in Threads : u \in Working(a)' <=> u \in Working(a)
  BY <1>2 DEF Working, Types
<1>4. \A u \in Working(a) : pc'[u] = pc[u] /\ taker'[u] = taker[u]
  BY <1>2 DEF Working, Types
<1>5. QED
  BY <1>1, <1>3, <1>4 DEF Elsewhere, WillBe

(* A thread goes on with a call of another object. *)
LEMMA MoveElsewhere ==
  ASSUME Types, NEW a \in Addrs, NEW t \in Threads, pc[t] # "idle", self[t] # a, NEW step,
         GoTo(t, step), UNCHANGED <<self, taker>>, Owned(a)' = Owned(a),
         Alone(a) => Alone(a)', Pending(a)' <=> Pending(a), WillBe(a)' <=> WillBe(a)
  PROVE  Elsewhere(a)
<1>1. pc' = [pc EXCEPT ![t] = step] /\ self' = self /\ taker' = taker
  BY DEF GoTo
<1>2. \A u \in Threads : u \in Working(a)' <=> u \in Working(a)
  BY <1>1 DEF Working, Types
<1>3. \A u \in Working(a) : pc'[u] = pc[u] /\ taker'[u] = taker[u]
  BY <1>1 DEF Working, Types
<1>4. QED
  BY <1>2, <1>3 DEF Elsewhere

(* A thread goes on with the only call of a. *)
LEMMA MoveHere ==
  ASSUME Types, NEW a \in Addrs, NEW t \in Threads, pc[t] # "idle", self[t] = a,
         Orderly(a), NEW step \in RetainSteps \cup ReleaseSteps \cup {"idle"}, GoTo(t, step),
         UNCHANGED <<self, taker>>, Alone(a)',
         step # "idle" => InStep(a, step, taker[t])',
         step = "idle" => (WillBe(a)' <=> Owned(a)' > 0)
  PROVE  Orderly(a)'
<1>1. pc' = [pc EXCEPT ![t] = step] /\ self' = self /\ taker' = taker
  BY DEF GoTo
<1>2. Working(a) = {t}
  BY DEF Orderly, Working
<1>3. \A u \in Threads : u # t => u \notin Working(a)' 
  BY <1>1, <1>2 DEF Working, Types
<1>4. Working(a)' = IF step = "idle" THEN {} ELSE {t}
  BY <1>1, <1>3 DEF Working, Types, RetainSteps, ReleaseSteps
<1>5. pc'[t] = step /\ taker'[t] = taker[t]
  BY <1>1 DEF Types
<1>6. CASE step = "idle"
  BY <1>4, <1>6 DEF Orderly
<1>7. CASE step # "idle"
  <2>1. InStep(a, pc[t], taker[t])'
    BY <1>5, <1>7 DEF InStep
  <2>2. QED
    BY <1>4, <1>7, <2>1 DEF Orderly
<1>8. QED
  BY <1>6, <1>7

(* The count that the only call of an object reads. *)
LEMMA OnlyCall ==
  ASSUME TrackInv, NEW a \in Addrs, Calm(a), NEW t \in Threads, pc[t] # "idle", self[t] = a
  PROVE  /\ Orderly(a) /\ InStep(a, pc[t], taker[t]) /\ runtime /\ Instances[a] = "weak"
         /\ Owned(a) \in Nat
         /\ retainCount[a] = Owned(a) + (IF pc[t] \in RetainSteps THEN 1 ELSE 2)
<1>1. /\ CountInv /\ Types /\ Orderly(a) /\ runtime /\ Instances[a] = "weak"
      /\ Owned(a) \in Nat /\ Balanced(a) /\ unbacked[a] = 0
  BY DEF TrackInv, BoundsInv, CountInv, Types, Accounted, Tracking, BornInMap, Calm, Owned
<1>2. Working(a) = {t} /\ InStep(a, pc[t], taker[t])
  BY <1>1 DEF Orderly, Working
<1>3. ~MapRetains(a)
  <2> SUFFICES ASSUME MapRetains(a) PROVE FALSE
    OBVIOUS
  <2>1. "loop" \in Working(a)
    BY DEF MapRetains, Working, Threads, RetainSteps
  <2>2. QED
    BY <1>2, <2>1 DEF MapRetains, InStep
<1>4. CASE pc[t] \in RetainSteps
  <2>1. Releasing(a) = {}
    BY <1>2, <1>4 DEF Working, Releasing, RetainSteps, ReleaseSteps
  <2>2. Cardinality(Releasing(a)) = 0
    BY <2>1, FS_EmptySet
  <2>3. QED
    BY <1>1, <1>2, <1>3, <1>4, <2>2 DEF Balanced, Owed, InMap, Types
<1>5. CASE pc[t] \notin RetainSteps
  <2>1. pc[t] \in ReleaseSteps
    BY <1>1, <1>5 DEF Types
  <2>2. Releasing(a) = {t}
    BY <1>2, <2>1 DEF Working, Releasing, ReleaseSteps
  <2>3. Cardinality(Releasing(a)) = 1
    BY <2>2, FS_Singleton
  <2>4. QED
    BY <1>1, <1>2, <1>3, <1>5, <2>3 DEF Balanced, Owed, InMap, Types
<1>6. QED
  BY <1>1, <1>2, <1>4, <1>5

(* The references that are not the map's are a number. *)
LEMMA OwnedIsNat ==
  ASSUME Types, NEW a \in Addrs
  PROVE  Owned(a) \in Nat
BY DEF Types, Owned

(* A call begins: it is the only one, or the object is marked. *)
LEMMA EnterTracks ==
  ASSUME TrackInv, NEW t \in Threads, pc[t] = "idle", NEW b \in Addrs,
         NEW step \in {"retain", "release"}, NEW who \in {"passed", "copied"},
         Enter(t, b, step, who), UNCHANGED <<gcProtected_, blocks, jsBorn, unbacked>>,
         NEW a \in Addrs, Calm(a)',
         a # b \/ step = "retain" => Owned(a)' = Owned(a),
         a = b /\ step = "release" => Owned(a)' = Owned(a) - 1 /\ Owned(a) > 0
  PROVE  Orderly(a)'
<1>1. /\ Types /\ jsBorn[a] /\ Tracking /\ raced \in [Addrs -> BOOLEAN]
      /\ Owned(a) \in Nat
  <2>1. Types /\ MoreTypes /\ Tracking /\ jsBorn[a]
    BY DEF TrackInv, BoundsInv, CountInv, Calm
  <2>2. QED
    BY <2>1, OwnedIsNat DEF MoreTypes
<1>2. /\ pc' = [pc EXCEPT ![t] = step] /\ self' = [self EXCEPT ![t] = b]
      /\ taker' = [taker EXCEPT ![t] = who]
      /\ raced' = [raced EXCEPT ![b] = raced[b] \/ Working(b) # {} \/ Pending(b)]
  BY DEF Enter, GoTo
<1>3. CASE a # b
  <2>1. Calm(a) /\ Owned(a)' = Owned(a)
    BY <1>1, <1>2, <1>3 DEF Calm
  <2>2. Elsewhere(a)
    BY <1>1, <1>3, <2>1, EnterElsewhere
  <2>3. QED
    BY <1>1, <2>1, <2>2, ElsewhereKeeps DEF Tracking
<1>4. CASE a = b
  <2>1. ~raced[a] /\ Working(a) = {} /\ ~Pending(a)
    BY <1>1, <1>2, <1>4 DEF Calm
  <2>2. Orderly(a)
    BY <1>1, <2>1 DEF Tracking, Calm
  <2>3. /\ ~Pending(a)' /\ (Alone(a)' <=> Alone(a)) /\ (WillBe(a)' <=> gcProtected_[a])
    BY <2>1 DEF Pending, Alone, WillBe
  <2>4. gcProtected_[a] <=> Owned(a) > 0
    BY <2>1, <2>2 DEF Orderly, WillBe
  <2>5. Working(a)' = {t} /\ pc'[t] = step /\ taker'[t] = who
    BY <1>1, <1>2, <1>4, <2>1 DEF Working, Types
  <2>6. InStep(a, step, who)'
    BY <1>1, <1>4, <2>3, <2>4 DEF InStep
  <2>7. InStep(a, pc[t], taker[t])'
    BY <2>5, <2>6 DEF InStep
  <2>8. QED
    BY <2>2, <2>3, <2>5, <2>7 DEF Orderly
<1>5. QED
  BY <1>3, <1>4

(* A call reads the count. *)
LEMMA ReadTracks ==
  ASSUME TrackInv, NEW t \in Threads, ReadForRetain(t) \/ ReadForRelease(t),
         NEW a \in Addrs, Calm(a)'
  PROVE  Orderly(a)'
<1>1. /\ Types /\ Calm(a) /\ Orderly(a) /\ pc[t] # "idle"
      /\ UNCHANGED <<self, taker, blocks, gcProtected_>> /\ Owned(a)' = Owned(a)
  BY DEF TrackInv, BoundsInv, CountInv, Calm, Tracking, ReadForRetain, ReadForRelease, objects,
         isolate, hist, Owned
<1>2. (Pending(a)' <=> Pending(a)) /\ (Alone(a)' <=> Alone(a)) /\ (WillBe(a)' <=> WillBe(a))
  BY <1>1 DEF Pending, Alone, WillBe, Posted
<1>3. CASE self[t] # a
  <2>1. PICK step : GoTo(t, step)
    BY DEF ReadForRetain, ReadForRelease
  <2>2. Elsewhere(a)
    BY <1>1, <1>2, <1>3, <2>1, MoveElsewhere
  <2>3. QED
    BY <1>1, <2>2, ElsewhereKeeps
<1>4. CASE self[t] = a
  <2>1. /\ InStep(a, pc[t], taker[t]) /\ runtime /\ Owned(a) \in Nat
        /\ retainCount[a] = Owned(a) + (IF pc[t] \in RetainSteps THEN 1 ELSE 2)
    BY <1>1, <1>4, OnlyCall
  <2>2. CASE ReadForRetain(t)
    <3>1. PICK step \in {"protect", "callRetain"} :
            GoTo(t, step) /\ (step = "protect" <=> Owned(a) = 0)
      BY <1>4, <2>1, <2>2 DEF ReadForRetain, RetainSteps
    <3>2. pc[t] = "retain"
      BY <2>2 DEF ReadForRetain
    <3>3. InStep(a, step, taker[t])'
      BY <1>1, <1>2, <2>1, <3>1, <3>2 DEF InStep
    <3>4. step # "idle" /\ step \in RetainSteps \cup ReleaseSteps
      BY DEF RetainSteps
    <3>5. Alone(a)'
      BY <1>1, <1>2 DEF Orderly
    <3>6. QED
      BY <1>1, <1>4, <3>1, <3>3, <3>4, <3>5, MoveHere
  <2>3. CASE ReadForRelease(t)
    <3>1. PICK step \in {"unprotect", "callRelease"} :
            GoTo(t, step) /\ (step = "unprotect" <=> Owned(a) = 0)
      BY <1>4, <2>1, <2>3 DEF ReadForRelease, RetainSteps
    <3>2. pc[t] = "release"
      BY <2>3 DEF ReadForRelease
    <3>3. InStep(a, step, taker[t])'
      BY <1>1, <1>2, <2>1, <3>1, <3>2 DEF InStep
    <3>4. step # "idle" /\ step \in RetainSteps \cup ReleaseSteps
      BY DEF ReleaseSteps
    <3>5. Alone(a)'
      BY <1>1, <1>2 DEF Orderly
    <3>6. QED
      BY <1>1, <1>4, <3>1, <3>3, <3>4, <3>5, MoveHere
  <2>4. QED
    BY <2>2, <2>3
<1>5. QED
  BY <1>3, <1>4

(* A change of the protection, at once or by a block. *)
LEMMA ProtectionChanges ==
  ASSUME TrackInv, NEW t \in Threads, NEW kind \in {"protect", "unprotect"}, runtime,
         ChangeProtection(t, kind), NEW a \in Addrs, Alone(a)
  PROVE  /\ self[t] # a => /\ Alone(a)' /\ (Pending(a)' <=> Pending(a))
                           /\ WillBe(a)' <=> WillBe(a)
         /\ self[t] = a /\ ~Pending(a) /\ Instances[a] # "none" =>
              Alone(a)' /\ (WillBe(a)' <=> kind = "protect")
<1>1. /\ MoreTypes /\ gcProtected_ \in [Addrs -> BOOLEAN] /\ self[t] \in Addrs
  BY DEF TrackInv, BoundsInv, MoreTypes, CountInv, Types
<1>2. CASE t = "loop"
  <2>1. blocks' = blocks /\ SetProtection(kind, self[t])
    BY <1>2 DEF ChangeProtection
  <2>2. (Pending(a)' <=> Pending(a)) /\ (Alone(a)' <=> Alone(a)) /\ (Posted(a)' <=> Posted(a))
    BY <2>1 DEF Pending, Alone, Posted
  <2>3. /\ self[t] # a => gcProtected_'[a] = gcProtected_[a]
        /\ self[t] = a /\ Instances[a] # "none" => (gcProtected_'[a] <=> kind = "protect")
    BY <1>1, <2>1 DEF SetProtection
  <2>4. QED
    BY <2>2, <2>3 DEF WillBe
<1>3. CASE t # "loop"
  <2>1. blocks' = Append(blocks, <<kind, self[t]>>) /\ gcProtected_' = gcProtected_
    BY <1>3 DEF ChangeProtection
  <2>2. /\ Pending(a)' <=> Pending(a) \/ a = self[t]
        /\ Posted(a)' <=> Posted(a) \/ (a = self[t] /\ kind = "protect")
        /\ Alone(a) /\ (a = self[t] => ~Pending(a)) => Alone(a)'
    BY <1>1, <2>1, BlockPosted
  <2>3. ~Pending(a) => ~Posted(a)
    BY DEF Pending, Posted
  <2>4. QED
    BY <2>1, <2>2, <2>3 DEF WillBe
<1>4. QED
  BY <1>2, <1>3

(* So the protection is what the call wanted. *)
LEMMA ChangeTracks ==
  ASSUME TrackInv, NEW t \in Threads, GcProtect(t) \/ GcUnprotect(t), NEW a \in Addrs, Calm(a)'
  PROVE  Orderly(a)'
<1>1. /\ Types /\ Calm(a) /\ Orderly(a) /\ runtime /\ Alone(a) /\ pc[t] # "idle"
      /\ UNCHANGED <<self, taker>> /\ Owned(a)' = Owned(a)
  BY DEF TrackInv, BoundsInv, CountInv, Calm, Tracking, BornInMap, GcProtect, GcUnprotect, objects,
         hist, Orderly, Owned
<1>2. PICK kind \in {"protect", "unprotect"} :
        /\ ChangeProtection(t, kind) /\ pc[t] = kind
        /\ GoTo(t, IF kind = "protect" THEN "callRetain" ELSE "callRelease")
  BY DEF GcProtect, GcUnprotect
<1>3. PICK step \in {"callRetain", "callRelease"} :
        GoTo(t, step) /\ (step = "callRetain" <=> kind = "protect")
  BY <1>2
<1>4. CASE self[t] # a
  <2>1. Elsewhere(a)
    BY <1>1, <1>2, <1>3, <1>4, ProtectionChanges, MoveElsewhere
  <2>2. QED
    BY <1>1, <2>1, ElsewhereKeeps
<1>5. CASE self[t] = a
  <2>1. InStep(a, pc[t], taker[t]) /\ Instances[a] = "weak"
    BY <1>1, <1>5, OnlyCall
  <2>2. ~Pending(a) /\ Owned(a) = 0
    BY <1>2, <2>1 DEF InStep
  <2>3. Alone(a)' /\ (WillBe(a)' <=> kind = "protect")
    BY <1>1, <1>2, <1>5, <2>1, <2>2, ProtectionChanges
  <2>4. InStep(a, step, taker[t])'
    BY <1>1, <1>3, <2>1, <2>2, <2>3 DEF InStep
  <2>5. step # "idle" /\ step \in RetainSteps \cup ReleaseSteps
    BY DEF RetainSteps, ReleaseSteps
  <2>6. QED
    BY <1>1, <1>3, <1>5, <2>3, <2>4, <2>5, MoveHere
<1>6. QED
  BY <1>4, <1>5

(* A call ends. *)
LEMMA EndTracks ==
  ASSUME TrackInv, NEW t \in Threads, CallRetain(t) \/ CallRelease(t), NEW a \in Addrs, Calm(a)'
  PROVE  Orderly(a)'
<1>1. /\ Types /\ Calm(a) /\ Orderly(a) /\ Alone(a) /\ pc[t] # "idle" /\ self[t] \in Addrs
      /\ UNCHANGED <<self, taker, blocks, gcProtected_>>
  BY DEF TrackInv, BoundsInv, CountInv, Calm, Tracking, CallRetain, CallRelease, Orderly, isolate,
         hist, Types
<1>2. (Pending(a)' <=> Pending(a)) /\ (Alone(a)' <=> Alone(a)) /\ (WillBe(a)' <=> WillBe(a))
  BY <1>1 DEF Pending, Alone, WillBe, Posted
<1>3. CASE self[t] # a
  <2>1. PICK step : GoTo(t, step)
    BY DEF CallRetain, CallRelease
  <2>2. Owned(a)' = Owned(a)
    BY <1>1, <1>3 DEF CallRetain, CallRelease, Types, Owned
  <2>3. Elsewhere(a)
    BY <1>1, <1>2, <1>3, <2>1, <2>2, MoveElsewhere
  <2>4. QED
    BY <1>1, <2>3, ElsewhereKeeps
<1>4. CASE self[t] = a
  <2>1. InStep(a, pc[t], taker[t]) /\ Owned(a) \in Nat
    BY <1>1, <1>4, OnlyCall
  <2>2. GoTo(t, "idle")
    BY <2>1 DEF CallRetain, CallRelease, InStep
  <2>3. WillBe(a)' <=> Owned(a)' > 0
    <3>1. CASE CallRetain(t)
      <4>1. pc[t] = "callRetain" /\ Owned(a)' = Owned(a) + 1
        BY <1>1, <1>4, <2>1, <3>1 DEF CallRetain, InStep, Types, Owned
      <4>2. QED
        BY <1>2, <2>1, <4>1 DEF InStep
    <3>2. CASE CallRelease(t)
      <4>1. pc[t] = "callRelease" /\ Owned(a)' = Owned(a)
        BY <3>2 DEF CallRelease, Owned
      <4>2. QED
        BY <1>2, <2>1, <4>1 DEF InStep
    <3>3. QED
      BY <3>1, <3>2
  <2>4. QED
    BY <1>1, <1>2, <1>4, <2>2, <2>3, MoveHere
<1>5. QED
  BY <1>3, <1>4

(* A block runs. *)
LEMMA RunTracks ==
  ASSUME TrackInv, RunBlock, NEW a \in Addrs, Calm(a)'
  PROVE  Orderly(a)'
<1>1. /\ Calm(a) /\ Orderly(a) /\ Alone(a) /\ MoreTypes /\ gcProtected_ \in [Addrs -> BOOLEAN]
      /\ runtime /\ Instances[a] = "weak" /\ UNCHANGED <<pc, self, taker>>
      /\ Owned(a)' = Owned(a)
  BY DEF TrackInv, BoundsInv, Calm, Tracking, BornInMap, RunBlock, objects, threads, hist, Orderly,
         MoreTypes, Owned
<1>2. PICK kind, b : kind = Head(blocks)[1] /\ b = Head(blocks)[2]
  OBVIOUS
<1>3. blocks # <<>> /\ blocks' = Tail(blocks) /\ SetProtection(kind, b)
  BY <1>2 DEF RunBlock
<1>4. /\ Alone(a)' /\ kind \in {"protect", "unprotect"} /\ b \in Addrs
      /\ b # a => (Pending(a)' <=> Pending(a)) /\ (Posted(a)' <=> Posted(a))
      /\ b = a => Pending(a) /\ ~Pending(a)' /\ (Posted(a) <=> kind = "protect")
  BY <1>1, <1>2, <1>3, BlockRun
<1>5. /\ b # a => gcProtected_'[a] = gcProtected_[a]
      /\ b = a => (gcProtected_'[a] <=> kind = "protect")
  BY <1>1, <1>3, <1>4 DEF SetProtection
<1>6. (Pending(a)' => Pending(a)) /\ (WillBe(a)' <=> WillBe(a))
  BY <1>4, <1>5 DEF WillBe
<1>7. Elsewhere(a)
  BY <1>1, <1>4, <1>6 DEF Elsewhere, Working
<1>8. QED
  BY <1>1, <1>7, ElsewhereKeeps

(* JavaScript's objects are in the map while the runtime lives. *)
LEMMA BornInMapKept ==
  ASSUME Types, MoreTypes, BornInMap, [Next]_vars
  PROVE  BornInMap'
<1> USE DEF BornInMap, Types, MoreTypes
<1>1. ASSUME NEW t \in Threads, CallStep(t) PROVE BornInMap'
  BY <1>1 DEF CallStep, ReadForRetain, GcProtect, CallRetain, ReadForRelease, GcUnprotect,
              CallRelease, isolate, hist
<1>2. ASSUME NEW t \in Threads, NEW a \in Addrs, NativeRetain(t, a) \/ NativeRelease(t, a)
      PROVE  BornInMap'
  BY <1>2 DEF NativeRetain, NativeRelease, isolate
<1>3. ASSUME NEW a \in Addrs,
             PassToNative(a) \/ NativeAlloc(a) \/ DropReference(a) \/ DrainPool(a)
      PROVE  BornInMap'
  BY <1>3 DEF PassToNative, NativeAlloc, DropReference, DrainPool, isolate, hist
<1>4. ASSUME NEW a \in Addrs,
             ConstructObject(a) \/ FinalizerCallback(a) \/ ReleaseNativeCounterpart(a)
      PROVE  BornInMap'
  BY <1>4 DEF ConstructObject, FinalizerCallback, ReleaseNativeCounterpart, InJs
<1>5. ASSUME NEW a \in Addrs, NEW handle, NEW owned, CreateJsWrapper(a, handle, owned)
      PROVE  BornInMap'
  BY <1>5 DEF CreateJsWrapper
<1>6. ASSUME NEW a \in Addrs, NEW owned \in BOOLEAN,
             ConstructFromInitializer(a) \/ ConstructFromPointer(a, owned)
      PROVE  BornInMap'
  BY <1>6 DEF ConstructFromInitializer, ConstructFromPointer, FindOrEmplace, hist
<1>7. CASE RunBlock \/ DestroyRuntime \/ UNCHANGED vars
  BY <1>7 DEF RunBlock, DestroyRuntime, vars, isolate, hist
<1>8. QED
  BY <1>1, <1>2, <1>3, <1>4, <1>5, <1>6, <1>7 DEF Next

(* A step that starts no call of a, and neither makes it nor clears its mark nor      *)
(* changes what is missing.                                                           *)
LEMMA OtherStepTracks ==
  ASSUME TrackInv, NEW a \in Addrs, Calm(a)', jsBorn'[a] => jsBorn[a], raced[a] => raced'[a],
         unbacked'[a] = unbacked[a], Elsewhere(a)
  PROVE  Orderly(a)'
BY ElsewhereKeeps DEF TrackInv, Tracking, Calm

(* A new object: nobody works on it, and nothing is posted, or it is marked. *)
LEMMA ConstructTracks ==
  ASSUME TrackInv, NEW b \in Addrs, ConstructObject(b), NEW a \in Addrs, Calm(a)'
  PROVE  Orderly(a)'
<1>1. /\ Types /\ MoreTypes /\ CountInv /\ Backed
  BY DEF TrackInv, BoundsInv, CountInv
<1>2. /\ UNCHANGED <<pc, self, taker, blocks, native, pool, unbacked>>
      /\ pc["loop"] = "idle" /\ ~crashed
      /\ gcProtected_' = [gcProtected_ EXCEPT ![b] = FALSE]
      /\ jsBorn' = [jsBorn EXCEPT ![b] = TRUE] /\ raced' = [raced EXCEPT ![b] = Pending(b)]
      /\ retainCount[b] = 0
  BY DEF ConstructObject, InJs, Idle, threads
<1>3. CASE a # b
  <2>1. /\ jsBorn'[a] = jsBorn[a] /\ raced'[a] = raced[a] /\ gcProtected_'[a] = gcProtected_[a]
        /\ Owned(a)' = Owned(a)
    BY <1>1, <1>2, <1>3 DEF MoreTypes, Owned
  <2>2. Elsewhere(a)
    BY <1>2, <2>1, StillElsewhere
  <2>3. QED
    BY <1>2, <2>1, <2>2, OtherStepTracks
<1>4. CASE a = b
  <2>1. native[a] = 0 /\ pool[a] = 0 /\ Others(a) = {}
    BY <1>1, <1>2, <1>4, NobodyAtFree
  <2>2. Working(a) = {}
    BY <1>2, <2>1 DEF Working, Others, Threads
  <2>3. ~Pending(a) /\ ~gcProtected_'[a]
    BY <1>1, <1>2, <1>4 DEF Calm, MoreTypes
  <2>4. Working(a)' = {} /\ ~Pending(a)' /\ Alone(a)'
    BY <1>2, <2>2, <2>3 DEF Working, Pending, Alone
  <2>5. ~WillBe(a)'
    BY <2>3, <2>4 DEF WillBe
  <2>6. ~(Owned(a)' > 0)
    BY <1>2, <2>1 DEF Owned
  <2>7. QED
    BY <2>4, <2>5, <2>6 DEF Orderly
<1>5. QED
  BY <1>3, <1>4

(* The steps that end the life of an object, or of its counterpart, or let somebody *)
(* else's reach JavaScript.                                                         *)
LEMMA LifeTracks ==
  ASSUME TrackInv, NEW b \in Addrs,
         \/ NativeAlloc(b) \/ DropReference(b) \/ FinalizerCallback(b)
         \/ ReleaseNativeCounterpart(b)
         \/ \E handle, owned : CreateJsWrapper(b, handle, owned),
         NEW a \in Addrs, Calm(a)'
  PROVE  Orderly(a)'
<1>1. /\ Types /\ MoreTypes /\ BornInMap /\ "loop" \in Threads
  BY DEF TrackInv, BoundsInv, CountInv, Threads
<1>2. CASE NativeAlloc(b)
  <2>1. a # b
    BY <1>1, <1>2 DEF NativeAlloc, Calm, MoreTypes
  <2>2. /\ UNCHANGED <<pc, self, taker, blocks, gcProtected_, unbacked>>
        /\ Owned(a)' = Owned(a) /\ jsBorn'[a] = jsBorn[a] /\ raced'[a] = raced[a]
    BY <1>1, <1>2, <2>1 DEF NativeAlloc, threads, isolate, Types, MoreTypes, Owned
  <2>3. QED
    BY <2>2, StillElsewhere, OtherStepTracks
<1>3. CASE DropReference(b) \/ ReleaseNativeCounterpart(b)
  <2>1. /\ UNCHANGED <<pc, self, taker, blocks, gcProtected_, unbacked, raced>>
        /\ Owned(a)' = Owned(a) /\ (jsBorn'[a] => jsBorn[a])
    BY <1>1, <1>3
       DEF DropReference, ReleaseNativeCounterpart, threads, objects, hist, MoreTypes, Owned
  <2>2. QED
    BY <2>1, StillElsewhere, OtherStepTracks
<1>4. CASE FinalizerCallback(b)
  <2>1. a # b
    BY <1>1, <1>4 DEF FinalizerCallback, Calm, MoreTypes
  <2>2. /\ UNCHANGED <<blocks, gcProtected_, unbacked>> /\ Owned(a)' = Owned(a)
        /\ Enter("loop", b, "release", "copied")
        /\ jsBorn'[a] = jsBorn[a] /\ pc["loop"] = "idle"
    BY <1>1, <1>4, <2>1 DEF FinalizerCallback, objects, InJs, Idle, MoreTypes, Owned
  <2>3. raced'[a] = raced[a]
    BY <1>1, <2>1, <2>2 DEF Enter, MoreTypes
  <2>4. QED
    BY <1>1, <2>1, <2>2, <2>3, EnterElsewhere, OtherStepTracks
<1>5. ASSUME NEW handle, NEW owned, CreateJsWrapper(b, handle, owned) PROVE Orderly(a)'
  <2>1. UNCHANGED <<jsBorn, blocks, pool, unbacked>> /\ pc["loop"] = "idle"
    BY <1>5 DEF CreateJsWrapper, InJs, Idle
  <2>2. CASE Instances[b] # "none"
    <3>1. UNCHANGED <<pc, self, taker, gcProtected_, raced>> /\ Owned(a)' = Owned(a)
      BY <1>5, <2>1, <2>2 DEF CreateJsWrapper, threads, Owned
    <3>2. QED
      BY <2>1, <3>1, StillElsewhere, OtherStepTracks
  <2>3. CASE Instances[b] = "none"
    <3>1. a # b
      BY <1>1, <2>1, <2>3 DEF BornInMap, Calm
    <3>2. PICK who : Enter("loop", b, "retain", who)
      BY <1>5, <2>3 DEF CreateJsWrapper
    <3>3. Owned(a)' = Owned(a) /\ gcProtected_'[a] = gcProtected_[a]
      BY <1>1, <1>5, <2>1, <2>3, <3>1 DEF CreateJsWrapper, Types, MoreTypes, Owned
    <3>4. raced'[a] = raced[a]
      BY <1>1, <3>1, <3>2 DEF Enter, MoreTypes
    <3>5. QED
      BY <1>1, <2>1, <3>1, <3>2, <3>3, <3>4, EnterElsewhere, OtherStepTracks
  <2>4. QED
    BY <2>2, <2>3
<1>6. QED
  BY <1>2, <1>3, <1>4, <1>5

(* A constructor that finds the entry of an object JavaScript created: its reference  *)
(* is lost, or the pool's instead of native code's, or nobody's.                      *)
LEMMA CastTracks ==
  ASSUME TrackInv, NEW b \in Addrs, NEW owned \in BOOLEAN,
         ConstructFromInitializer(b) \/ ConstructFromPointer(b, owned),
         NEW a \in Addrs, Calm(a)'
  PROVE  Orderly(a)'
<1>1. /\ Types /\ MoreTypes /\ UNCHANGED <<pc, self, taker, blocks, jsBorn, raced>>
      /\ FindOrEmplace(b)
  BY DEF TrackInv, BoundsInv, CountInv, ConstructFromInitializer, ConstructFromPointer, threads,
         hist
<1>2. Instances[a] # "none"
  BY <1>1 DEF TrackInv, BornInMap, Calm
<1>3. gcProtected_'[a] = gcProtected_[a]
  BY <1>1, <1>2 DEF FindOrEmplace, MoreTypes
<1>4. Owned(a)' = Owned(a) /\ unbacked'[a] = unbacked[a]
  <2>1. CASE ConstructFromInitializer(b)
    BY <1>1, <1>2, <2>1 DEF ConstructFromInitializer, Types, Owned
  <2>2. CASE ConstructFromPointer(b, owned) /\ a # b
    BY <1>1, <2>2 DEF ConstructFromPointer, Types, Owned
  <2>3. CASE ConstructFromPointer(b, owned) /\ a = b
    <3>1. /\ unbacked[a] \in Nat /\ unbacked'[a] = 0 /\ native[a] \in Nat /\ pool[a] \in Nat
          /\ unbacked'[a] = unbacked[a] + (IF owned THEN 0 ELSE 1) + 0
      BY <1>1, <1>2, <2>3 DEF ConstructFromPointer, Types, Calm
    <3>2. owned
      BY <3>1
    <3>3. native'[a] = native[a] - 1 /\ pool'[a] = pool[a] + 1
      BY <1>1, <2>3, <3>2 DEF ConstructFromPointer, Types
    <3>4. QED
      BY <3>1, <3>2, <3>3 DEF Owned
  <2>4. QED
    BY <2>1, <2>2, <2>3
<1>5. QED
  BY <1>1, <1>3, <1>4, StillElsewhere, OtherStepTracks

(* Every step keeps every object in order. *)
LEMMA TrackInvStep == TrackInv /\ [Next]_vars => TrackInv'
<1> SUFFICES ASSUME TrackInv, [Next]_vars PROVE TrackInv'
  OBVIOUS
<1>1. BoundsInv' /\ BornInMap'
  BY BoundsStep, BornInMapKept DEF TrackInv, BoundsInv, CountInv
<1>2. ASSUME NEW a \in Addrs, Calm(a)' PROVE Orderly(a)'
  <2>1. ASSUME NEW t \in Threads, CallStep(t) PROVE Orderly(a)'
    BY <1>2, <2>1, ReadTracks, ChangeTracks, EndTracks DEF CallStep
  <2>2. ASSUME NEW t \in Threads, NEW b \in Addrs, NativeRetain(t, b) PROVE Orderly(a)'
    <3>1. Owned(a)' = Owned(a)
      BY <2>2 DEF NativeRetain, objects, Owned
    <3>2. QED
      BY <1>2, <2>2, <3>1, EnterTracks DEF NativeRetain, Idle, objects, isolate
  <2>3. ASSUME NEW t \in Threads, NEW b \in Addrs, NativeRelease(t, b) PROVE Orderly(a)'
    <3>1. /\ native[b] > 0 /\ native[b] \in Nat /\ pool[a] \in Nat
          /\ native' = [native EXCEPT ![b] = native[b] - 1] /\ pool' = pool
          /\ native \in [Addrs -> Nat]
      BY <2>3 DEF NativeRelease, Borrowed, TrackInv, BoundsInv, CountInv, Types
    <3>2. /\ a # b => Owned(a)' = Owned(a)
          /\ a = b => Owned(a)' = Owned(a) - 1 /\ Owned(a) > 0
      BY <3>1 DEF Owned
    <3>3. QED
      BY <1>2, <2>3, <3>2, EnterTracks DEF NativeRelease, Idle, isolate
  <2>a. ASSUME NEW b \in Addrs, DrainPool(b) PROVE Orderly(a)'
    <3>1. /\ pool[b] > 0 /\ pool[b] \in Nat /\ native[a] \in Nat
          /\ pool' = [pool EXCEPT ![b] = pool[b] - 1] /\ native' = native
          /\ pool \in [Addrs -> Nat] /\ "loop" \in Threads
      BY <2>a DEF DrainPool, TrackInv, BoundsInv, CountInv, Types, Threads
    <3>2. /\ a # b => Owned(a)' = Owned(a)
          /\ a = b => Owned(a)' = Owned(a) - 1 /\ Owned(a) > 0
      BY <3>1 DEF Owned
    <3>3. QED
      BY <1>2, <2>a, <3>1, <3>2, EnterTracks DEF DrainPool, Idle, isolate
  <2>4. ASSUME NEW b \in Addrs, PassToNative(b) PROVE Orderly(a)'
    <3>1. "loop" \in Threads
      BY DEF Threads
    <3>2. Owned(a)' = Owned(a)
      BY <2>4 DEF PassToNative, objects, Owned
    <3>3. QED
      BY <1>2, <2>4, <3>1, <3>2, EnterTracks DEF PassToNative, InJs, Idle, objects, isolate
  <2>5. ASSUME NEW b \in Addrs, ConstructObject(b) PROVE Orderly(a)'
    BY <1>2, <2>5, ConstructTracks
  <2>6. ASSUME NEW b \in Addrs,
               \/ NativeAlloc(b) \/ DropReference(b) \/ FinalizerCallback(b)
               \/ ReleaseNativeCounterpart(b)
               \/ \E handle, owned : CreateJsWrapper(b, handle, owned)
        PROVE  Orderly(a)'
    BY <1>2, <2>6, LifeTracks
  <2>7. CASE RunBlock
    BY <1>2, <2>7, RunTracks
  <2>8. CASE DestroyRuntime
    BY <1>2, <2>8 DEF DestroyRuntime, Calm
  <2>9. CASE UNCHANGED vars
    <3>1. /\ UNCHANGED <<pc, self, taker, blocks, unbacked, gcProtected_, jsBorn, raced>>
          /\ Owned(a)' = Owned(a)
      BY <2>9 DEF vars, objects, isolate, threads, hist, Owned
    <3>2. QED
      BY <1>2, <3>1, StillElsewhere, OtherStepTracks
  <2>b. ASSUME NEW b \in Addrs, NEW owned \in BOOLEAN,
               ConstructFromInitializer(b) \/ ConstructFromPointer(b, owned)
        PROVE  Orderly(a)'
    BY <1>2, <2>b, CastTracks
  <2>10. QED
    BY <2>1, <2>2, <2>3, <2>a, <2>4, <2>5, <2>6, <2>b, <2>7, <2>8, <2>9 DEF Next
<1>3. QED
  BY <1>1, <1>2 DEF TrackInv, Tracking

(* ProtectTracksOwners, for every number of objects and threads: as long as nothing *)
(* overlaps on an object that JavaScript created and no reference was given away    *)
(* that nobody had, its counterpart is protected from the collector exactly while   *)
(* native code or an autorelease pool has a reference.                              *)
THEOREM ProtectionTracks == Spec => []ProtectTracksOwners
<1>1. Init => TrackInv
  <2> SUFFICES ASSUME Init PROVE TrackInv
    OBVIOUS
  <2>1. BoundsInv
    BY BoundsInitially
  <2>2. BornInMap /\ Tracking
    BY DEF Init, BornInMap, Tracking, Calm
  <2>3. QED
    BY <2>1, <2>2 DEF TrackInv
<1>2. TrackInv => ProtectTracksOwners
  <2> SUFFICES ASSUME TrackInv, NEW a \in Addrs, jsBorn[a], ~raced[a],
                      unbacked[a] = 0, AtRest(a), ~Pending(a)
               PROVE  gcProtected_[a] <=> native[a] + pool[a] > 0
    BY DEF ProtectTracksOwners
  <2>1. Orderly(a) /\ Working(a) = {}
    BY DEF TrackInv, Tracking, Calm, AtRest
  <2>2. QED
    BY <2>1 DEF Orderly, WillBe, Owned
<1>3. QED
  BY <1>1, <1>2, TrackInvStep, PTL DEF Spec
=============================================================================
