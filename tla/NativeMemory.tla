---------------------------- MODULE NativeMemory ----------------------------
(***************************************************************************)
(* The C memory behind JavaScript's struct and Pointer objects.            *)
(*                                                                         *)
(* A struct owns a block of its own, except a view: the object that        *)
(* reading a nested struct returns, which looks into its parent's block.   *)
(* The parent counts its views, because the only reference a view has to   *)
(* it is a weak handle.  Finalizers run after a collection, in any order.  *)
(* A Pointer owns its block when it is adopted; Caches::PointerInstances   *)
(* keeps it until the isolate goes away.                                   *)
(*                                                                         *)
(* Two struct types are enough: an "Outer" whose first field is an         *)
(* "Inner", so that a view has the address of its parent.  Addresses are   *)
(* used again.  Everything happens on the isolate's thread.                *)
(***************************************************************************)
EXTENDS Naturals, FiniteSets

CONSTANTS Addrs,     \* addresses malloc may return
          Objs,      \* JavaScript objects of struct types
          MaxViews   \* bound: what a childCount_ may reach

ASSUME MemoryAssumption ==
  /\ IsFiniteSet(Objs) /\ MaxViews \in Nat
  /\ Objs \cap {"none", "null", "reset", "app", "pointer"} = {}

Names == {"Outer", "Inner"}

VARIABLES
  allocated,          \* addresses of blocks that malloc returned and nobody freed
  handed,             \* blocks native code gave to the application to free
  \* the StructWrapper of an object
  wrapper,            \* its struct's name, or "none"
  data_, childCount_,
  parent_,            \* the parent's handle: an object, "reset", or "null"
  reachable,          \* JavaScript refers to the object
  StructInstances,    \* <<address, name>> -> object or "none"
  PointerInstances,   \* addresses that have a Pointer
  isAdopted_,         \* those whose Pointer is adopted
  running,            \* TRUE until ~Runtime
  toVisit,            \* handles of an object that DisposerPHV has yet to visit
  shared,             \* history: addresses whose block got an owner beside the
                      \* one it was allocated for
  hadViews            \* history: the structs that had views when ~Runtime began

blocks == <<allocated, handed, shared>>
structs == <<wrapper, data_, childCount_, parent_, reachable, StructInstances>>
pointers == <<PointerInstances, isAdopted_>>
isolate == <<running, toVisit, hadViews>>
vars == <<blocks, structs, pointers, isolate>>

TypeOK ==
  /\ allocated \subseteq Addrs /\ handed \subseteq allocated
  /\ wrapper \in [Objs -> Names \cup {"none"}]
  /\ data_ \in [Objs -> Addrs \cup {"none"}]
  /\ childCount_ \in [Objs -> 0..MaxViews]
  /\ parent_ \in [Objs -> Objs \cup {"null", "reset"}]
  /\ reachable \in SUBSET {o \in Objs : wrapper[o] # "none"}
  /\ StructInstances \in [Addrs \X Names -> Objs \cup {"none"}]
  /\ PointerInstances \subseteq Addrs /\ isAdopted_ \subseteq PointerInstances
  /\ running \in BOOLEAN
  /\ toVisit \in [Objs -> SUBSET {"empty", "registered"}]
  /\ shared \subseteq Addrs /\ hadViews \subseteq Objs

Init ==
  /\ allocated = {} /\ handed = {} /\ shared = {}
  /\ wrapper = [o \in Objs |-> "none"]
  /\ data_ = [o \in Objs |-> "none"]
  /\ childCount_ = [o \in Objs |-> 0]
  /\ parent_ = [o \in Objs |-> "null"]
  /\ reachable = {}
  /\ StructInstances = [k \in Addrs \X Names |-> "none"]
  /\ PointerInstances = {} /\ isAdopted_ = {}
  /\ running = TRUE /\ toVisit = [o \in Objs |-> {}] /\ hadViews = {}

-----------------------------------------------------------------------------
Live(o) == wrapper[o] # "none"

Views(p) == {v \in Objs : Live(v) /\ parent_[v] = p}

\* Who will free the block at a, or believes so.
Owners(a) == {o \in Objs : Live(o) /\ data_[o] = a /\ parent_[o] = "null"}
             \cup (IF a \in isAdopted_ THEN {"pointer"} ELSE {})
             \cup (IF a \in handed THEN {"app"} ELSE {})

\* malloc returns a; an owner the address already has is a stale one.
Malloc(a) ==
  /\ a \notin allocated
  /\ allocated' = allocated \cup {a}
  /\ shared' = IF Owners(a) = {} THEN shared \ {a} ELSE shared \cup {a}

\* A wrapper of the struct name at a for a new JavaScript object o.
Wrap(o, a, name, parent) ==
  /\ ~Live(o)
  /\ wrapper' = [wrapper EXCEPT ![o] = name]
  /\ data_' = [data_ EXCEPT ![o] = a]
  /\ parent_' = [parent_ EXCEPT ![o] = parent]
  /\ reachable' = reachable \cup {o}

\* emplace keeps an entry that is there.
Emplace(key, o) ==
  StructInstances' = [StructInstances EXCEPT ![key] = IF @ = "none" THEN o ELSE @]

-----------------------------------------------------------------------------
(* Structs *)

\* StructConstructorCallback as a constructor: new Outer().
NewStruct(o, a, name) ==
  /\ running
  /\ Malloc(a)
  /\ Wrap(o, a, name, "null")
  /\ Emplace(<<a, name>>, o)
  /\ UNCHANGED <<handed, childCount_, pointers, isolate>>

\* StructConstructorCallback as a function: Outer(pointer).
\* The struct will free the block, and so may whoever has it.
StructOverPointer(o, a, name) ==
  /\ running
  /\ a \in PointerInstances
  /\ Wrap(o, a, name, "null")
  /\ Emplace(<<a, name>>, o)
  /\ shared' = shared \cup {a}
  /\ UNCHANGED <<allocated, handed, childCount_, pointers, isolate>>

\* StructToValue without a parent: a copy, for a result of native code.
CopyStruct(o, a, name) ==
  /\ running
  /\ Malloc(a)
  /\ IF StructInstances[<<a, name>>] = "none"
       THEN Wrap(o, a, name, "null") /\ Emplace(<<a, name>>, o)
       ELSE /\ reachable' = reachable \cup {StructInstances[<<a, name>>]}
            /\ UNCHANGED <<wrapper, data_, parent_, StructInstances>>
  /\ UNCHANGED <<handed, childCount_, pointers, isolate>>

\* Mutant: the view is not counted.
ViewField_NotCounted(p, v) ==
  LET a == data_[p]  q == StructInstances[<<a, "Outer">>]
  IN  /\ running
      /\ p \in reachable /\ wrapper[p] = "Outer"
      /\ q # "none"
      /\ childCount_[q] < MaxViews
      /\ Wrap(v, a, "Inner", q)
      /\ UNCHANGED <<blocks, childCount_, StructInstances, pointers, isolate>>

\* StructPropertyGetterCallback and StructToValue with the parent that
\* StructInstances has for the address: a view, unless the map has an entry
\* under the view's own key.
ViewField(p, v) ==
  LET a == data_[p]  q == StructInstances[<<a, "Outer">>]  w == StructInstances[<<a, "Inner">>]
  IN  /\ running
      /\ p \in reachable /\ wrapper[p] = "Outer"
      /\ q # "none"
      /\ childCount_[q] < MaxViews
      /\ childCount_' = [childCount_ EXCEPT ![q] = @ + 1]
      /\ IF w = "none" THEN Wrap(v, a, "Inner", q)
         ELSE reachable' = reachable \cup {w} /\ UNCHANGED <<wrapper, data_, parent_>>
      /\ UNCHANGED <<blocks, StructInstances, pointers, isolate>>

\* The same where the map has no entry for the struct: a copy of the field.
CopyField(p, v, b) ==
  /\ p \in reachable /\ wrapper[p] = "Outer"
  /\ StructInstances[<<data_[p], "Outer">>] = "none"
  /\ CopyStruct(v, b, "Inner")

\* JavaScript lets go of the object.
DropReference(o) ==
  /\ running
  /\ o \in reachable
  /\ reachable' = reachable \ {o}
  /\ UNCHANGED <<blocks, wrapper, data_, childCount_, parent_, StructInstances, pointers, isolate>>

-----------------------------------------------------------------------------
(* ObjectManager *)

\* The wrapper of o is deleted, and its handles are reset.
DeleteWrapper(o) ==
  /\ wrapper' = [wrapper EXCEPT ![o] = "none"]
  /\ reachable' = reachable \ {o}
  /\ parent_' = [x \in Objs |-> CASE x = o -> "null"
                                  [] x # o /\ parent_[x] = o -> "reset"
                                  [] OTHER -> parent_[x]]
  /\ data_' = [data_ EXCEPT ![o] = "none"]

\* DisposeValue of a view: its parent counts one less.
DisposeView(o) ==
  /\ Live(o) /\ parent_[o] # "null"
  /\ childCount_' = [x \in Objs |-> IF x = parent_[o] THEN childCount_[x] - 1 ELSE childCount_[x]]
  /\ DeleteWrapper(o)
  /\ UNCHANGED <<blocks, StructInstances>>

\* Mutant: whatever its views.
DisposeOwner_Always(o) ==
  /\ Live(o) /\ parent_[o] = "null"
  /\ StructInstances' = [StructInstances EXCEPT ![<<data_[o], wrapper[o]>>] = "none"]
  /\ allocated' = allocated \ {data_[o]}
  /\ handed' = handed \ {data_[o]}
  /\ childCount_' = [childCount_ EXCEPT ![o] = 0]
  /\ DeleteWrapper(o)
  /\ UNCHANGED shared

\* DisposeValue of a struct that has no views.
DisposeOwner(o) ==
  /\ Live(o) /\ parent_[o] = "null"
  /\ childCount_[o] = 0
  /\ StructInstances' = [StructInstances EXCEPT ![<<data_[o], wrapper[o]>>] = "none"]
  /\ allocated' = allocated \ {data_[o]}
  /\ handed' = handed \ {data_[o]}
  /\ DeleteWrapper(o)
  /\ UNCHANGED <<shared, childCount_>>

\* A handle of o is collected.  A struct with views is kept: the weak handle is
\* set again.
FinalizerCallback(o) ==
  /\ running
  /\ o \notin reachable
  /\ DisposeView(o) \/ DisposeOwner(o)
  /\ UNCHANGED <<pointers, isolate>>

-----------------------------------------------------------------------------
(* interop *)

\* Pointer::NewInstance.  The Pointer an address has had before is found again.
PointerTo(a) == PointerInstances' = PointerInstances \cup {a}

\* interop.handleof of a struct.
HandleOf(o) ==
  /\ running
  /\ o \in reachable
  /\ PointerTo(data_[o])
  /\ UNCHANGED <<blocks, structs, isAdopted_, isolate>>

\* interop.alloc.
Alloc(a) ==
  /\ running
  /\ Malloc(a)
  /\ PointerTo(a)
  /\ isAdopted_' = isAdopted_ \cup {a}
  /\ UNCHANGED <<handed, structs, isolate>>

\* Native code returns a block that the caller has to free.
NativeBuffer(a) ==
  /\ running
  /\ Malloc(a)
  /\ handed' = handed \cup {a}
  /\ PointerTo(a)
  /\ UNCHANGED <<structs, isAdopted_, isolate>>

\* interop.adopt: the Pointer frees the block instead of the application.
Adopt(a) ==
  /\ running
  /\ a \in PointerInstances \cap allocated
  /\ isAdopted_' = isAdopted_ \cup {a}
  /\ handed' = handed \ {a}
  /\ shared' = IF Owners(a) \subseteq {"app"} THEN shared ELSE shared \cup {a}
  /\ UNCHANGED <<allocated, structs, PointerInstances, isolate>>

\* Mutant: an adopted block is freed like any other.
Free_Adopted(a) ==
  /\ running
  /\ a \in PointerInstances \cap allocated
  /\ allocated' = allocated \ {a}
  /\ handed' = handed \ {a}
  /\ shared' = IF Owners(a) \subseteq {"app", "pointer"} THEN shared ELSE shared \cup {a}
  /\ UNCHANGED <<structs, pointers, isolate>>

\* interop.free of a block that is not freed yet: an adopted one is left alone.
\* The Pointer stays, and a struct's block may be what it points to.
Free(a) ==
  /\ running
  /\ a \in (PointerInstances \cap allocated) \ isAdopted_
  /\ allocated' = allocated \ {a}
  /\ handed' = handed \ {a}
  /\ shared' = IF Owners(a) \subseteq {"app"} THEN shared ELSE shared \cup {a}
  /\ UNCHANGED <<structs, pointers, isolate>>

-----------------------------------------------------------------------------
(* ~Runtime *)

\* An object has the handle of CreateEmptyStruct, and one more that
\* StructInstances and the views share if it is no view itself.
DestroyRuntime ==
  /\ running
  /\ running' = FALSE
  /\ reachable' = {}
  /\ toVisit' = [o \in Objs |-> CASE ~Live(o) -> {}
                                  [] Live(o) /\ parent_[o] = "null" -> {"empty", "registered"}
                                  [] OTHER -> {"empty"}]
  /\ hadViews' = {o \in Objs : childCount_[o] > 0}
  /\ UNCHANGED <<blocks, wrapper, data_, childCount_, parent_, StructInstances, pointers>>

\* DisposerPHV visits a handle of o once, whether or not it disposes of o, and
\* resets it.  A struct whose handles all come before its last view is passed
\* over for good.
VisitStruct(o, handle) ==
  /\ handle \in toVisit[o]
  /\ toVisit' = [toVisit EXCEPT ![o] = @ \ {handle}]
  /\ \/ DisposeView(o) \/ DisposeOwner(o)
     \/ /\ Live(o) => parent_[o] = "null" /\ childCount_[o] > 0
        /\ parent_' = [x \in Objs |-> IF handle = "registered" /\ parent_[x] = o
                                      THEN "reset" ELSE parent_[x]]
        /\ UNCHANGED <<blocks, wrapper, data_, childCount_, reachable, StructInstances>>
  /\ UNCHANGED <<pointers, running, hadViews>>

\* ... and the handle of a Pointer, which frees an adopted block.
VisitPointer(a) ==
  /\ ~running
  /\ a \in PointerInstances
  /\ PointerInstances' = PointerInstances \ {a}
  /\ isAdopted_' = isAdopted_ \ {a}
  /\ allocated' = IF a \in isAdopted_ THEN allocated \ {a} ELSE allocated
  /\ handed' = handed \cap allocated'
  /\ UNCHANGED <<shared, structs, isolate>>

-----------------------------------------------------------------------------
Next ==
  \/ \E o \in Objs :
       \/ \E a \in Addrs, name \in Names :
            NewStruct(o, a, name) \/ StructOverPointer(o, a, name) \/ CopyStruct(o, a, name)
       \/ \E v \in Objs : ViewField(o, v) \/ \E b \in Addrs : CopyField(o, v, b)
       \/ DropReference(o) \/ FinalizerCallback(o) \/ HandleOf(o)
       \/ \E handle \in {"empty", "registered"} : VisitStruct(o, handle)
  \/ \E a \in Addrs : \/ Alloc(a) \/ NativeBuffer(a) \/ Adopt(a) \/ Free(a)
                      \/ VisitPointer(a)
  \/ DestroyRuntime

Spec == Init /\ [][Next]_vars

-----------------------------------------------------------------------------
\* Of its owners, those who will still free the block: a struct does it when it
\* is collected, and in the final pass only when a handle of it is yet to visit.
WillFree(a) == {x \in Owners(a) : x \in Objs => running \/ toVisit[x] # {}}

(* Memory that was not put under two owners is never freed twice, and nobody *)
(* frees the block of the address's next tenant, although a Pointer stays in *)
(* PointerInstances after its block was freed and is found again when the    *)
(* address is used again: at most one struct, adopted Pointer or application *)
(* is still to free an address, and only while its block is allocated.  And  *)
(* while the isolate runs nothing is lost: somebody will free the block.     *)
(* The final pass does lose blocks, those of structs whose handles           *)
(* DisposerPHV visits before their views (ObjectManager.mm:85-91), and no    *)
(* others: only a struct that had views when ~Runtime began.                 *)
OneOwner ==
  \A a \in Addrs \ shared :
    /\ Cardinality(WillFree(a)) <= 1
    /\ WillFree(a) # {} => a \in allocated
    /\ a \in allocated /\ WillFree(a) = {}
         => ~running /\ \E o \in hadViews : Live(o) /\ data_[o] = a

(* In memory with one owner a view never looks into a freed block, also when *)
(* its parent was collected long before it or the isolate is being torn      *)
(* down, and the parent counts exactly its views, so that it can be freed    *)
(* once they are gone.  The parent's finalizer may run before or after its   *)
(* views', and every reading of the field makes another view.                *)
ViewsKeepTheirBlock ==
  \A o \in Objs :
    (Live(o) /\ data_[o] \notin shared) =>
      /\ parent_[o] # "null" => data_[o] \in allocated
      /\ running => childCount_[o] = Cardinality(Views(o))
=============================================================================
