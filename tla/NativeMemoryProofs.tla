------------------------- MODULE NativeMemoryProofs -------------------------
(***************************************************************************)
(* OneOwner, ViewsKeepTheirBlock and TypeOK for every set of addresses and *)
(* objects.                                                                *)
(*                                                                         *)
(* OneOwner needs to know that StructInstances names owners only, because  *)
(* StructToValue drops a block it has just allocated when it finds an      *)
(* entry; the second part of the module adds what the counts of views say, *)
(* the third which structs the final pass passes over, the fourth that     *)
(* JavaScript refers to objects with a wrapper only.                       *)
(***************************************************************************)
EXTENDS NativeMemory, FiniteSetTheorems, TLAPS

Owns(o, a) == Live(o) /\ parent_[o] = "null" /\ data_[o] = a

Types ==
  /\ handed \subseteq allocated
  /\ wrapper \in [Objs -> Names \cup {"none"}]
  /\ data_ \in [Objs -> Addrs \cup {"none"}]
  /\ parent_ \in [Objs -> Objs \cup {"null", "reset"}]
  /\ StructInstances \in [Addrs \X Names -> Objs \cup {"none"}]
  /\ \A o \in Objs : Live(o) => data_[o] \in Addrs

\* StructInstances names the owner of a block, never a view or a dead object.
EntryIsOwner ==
  \A a \in Addrs, name \in Names, o \in Objs :
    StructInstances[<<a, name>>] = o => Owns(o, a) /\ wrapper[o] = name

OwnedOnce ==
  \A a \in Addrs \ shared :
    IF a \in allocated THEN \E x : Owners(a) = {x} ELSE Owners(a) = {}

OwnerInv == Types /\ EntryIsOwner /\ OwnedOnce

-----------------------------------------------------------------------------
(* Who is an owner. *)
LEMMA OwnersAre ==
  ASSUME NEW a
  PROVE  /\ \A o \in Objs : o \in Owners(a) <=> Owns(o, a)
         /\ "pointer" \in Owners(a) <=> a \in isAdopted_
         /\ "app" \in Owners(a) <=> a \in handed
         /\ Owners(a) \subseteq Objs \cup {"pointer", "app"}
BY MemoryAssumption DEF Owners, Owns

(* An address has the owners it had if none of the three kinds changes. *)
LEMMA OwnersStay ==
  ASSUME NEW a, \A o \in Objs : Owns(o, a)' <=> Owns(o, a),
         a \in isAdopted_' <=> a \in isAdopted_, a \in handed' <=> a \in handed
  PROVE  Owners(a)' = Owners(a)
BY DEF Owners, Owns

(* What a new wrapper and a deleted one change. *)
LEMMA WrapOwns ==
  ASSUME Types, NEW o \in Objs, NEW a \in Addrs, NEW name \in Names,
         NEW parent \in Objs \cup {"null"}, Wrap(o, a, name, parent)
  PROVE  /\ wrapper' \in [Objs -> Names \cup {"none"}]
         /\ data_' \in [Objs -> Addrs \cup {"none"}]
         /\ parent_' \in [Objs -> Objs \cup {"null", "reset"}]
         /\ \A x \in Objs : Live(x)' <=> (Live(x) \/ x = o)
         /\ \A x \in Objs : Live(x)' => data_'[x] \in Addrs
         /\ \A x \in Objs : x # o => /\ wrapper'[x] = wrapper[x]
                                      /\ parent_'[x] = parent_[x] /\ data_'[x] = data_[x]
         /\ ~Live(o) /\ wrapper'[o] = name /\ parent_'[o] = parent /\ data_'[o] = a
         /\ \A x \in Objs, b \in Addrs :
              Owns(x, b)' <=> (Owns(x, b) \/ (x = o /\ b = a /\ parent = "null"))
BY DEF Types, Wrap, Live, Owns, Names

(* A new wrapper, entered in StructInstances or not, leaves it naming owners. *)
LEMMA WrapEntries ==
  ASSUME Types, EntryIsOwner, NEW o \in Objs, NEW a \in Addrs, NEW name \in Names,
         NEW parent \in Objs \cup {"null"}, Wrap(o, a, name, parent),
         \/ UNCHANGED StructInstances
         \/ parent = "null" /\ Emplace(<<a, name>>, o)
  PROVE  EntryIsOwner'
<1> SUFFICES ASSUME NEW b \in Addrs, NEW n \in Names, NEW x \in Objs,
                    StructInstances'[<<b, n>>] = x
             PROVE  Owns(x, b)' /\ wrapper'[x] = n
  BY DEF EntryIsOwner
<1>1. CASE x = StructInstances[<<b, n>>]
  <2>1. x \in Objs /\ Owns(x, b) /\ wrapper[x] = n
    BY <1>1 DEF EntryIsOwner, Types
  <2>2. x # o
    BY <2>1, WrapOwns DEF Owns
  <2>3. QED
    BY <2>1, <2>2, WrapOwns
<1>2. CASE x # StructInstances[<<b, n>>]
  <2>1. x = o /\ b = a /\ n = name /\ parent = "null"
    BY <1>2 DEF Emplace, Types
  <2>2. QED
    BY <2>1, WrapOwns
<1>3. QED
  BY <1>1, <1>2

(* A deleted wrapper owns nothing, and resets its handle in its views. *)
LEMMA DeleteOwns ==
  ASSUME Types, NEW o \in Objs, DeleteWrapper(o)
  PROVE  /\ wrapper' \in [Objs -> Names \cup {"none"}]
         /\ data_' \in [Objs -> Addrs \cup {"none"}]
         /\ parent_' \in [Objs -> Objs \cup {"null", "reset"}]
         /\ \A x \in Objs : Live(x)' <=> (Live(x) /\ x # o)
         /\ \A x \in Objs : Live(x)' => data_'[x] \in Addrs
         /\ \A x \in Objs : x # o =>
              /\ wrapper'[x] = wrapper[x] /\ data_'[x] = data_[x]
              /\ parent_'[x] = IF parent_[x] = o THEN "reset" ELSE parent_[x]
         /\ \A x \in Objs, b \in Addrs : Owns(x, b)' <=> (Owns(x, b) /\ x # o)
<1>1. o # "null" /\ o # "reset"
  BY MemoryAssumption
<1>2. \A x \in Objs : parent_'[x] = IF x = o THEN "null"
                                    ELSE IF parent_[x] = o THEN "reset" ELSE parent_[x]
  BY DEF DeleteWrapper
<1>3. parent_' \in [Objs -> Objs \cup {"null", "reset"}]
  BY DEF DeleteWrapper, Types
<1>4. QED
  BY <1>1, <1>2, <1>3 DEF Types, DeleteWrapper, Live, Owns, Names

-----------------------------------------------------------------------------
(* malloc. *)
LEMMA MallocOwned ==
  ASSUME OwnedOnce, NEW a \in Addrs, Malloc(a),
         \A b \in Addrs \ {a} : Owners(b)' = Owners(b),
         Owners(a) = {} => \E x : Owners(a)' = {x}
  PROVE  OwnedOnce'
<1> SUFFICES ASSUME NEW b \in Addrs, b \notin shared'
             PROVE  IF b \in allocated' THEN \E x : Owners(b)' = {x} ELSE Owners(b)' = {}
  BY DEF OwnedOnce
<1>1. CASE b = a
  <2>1. Owners(a) = {} /\ a \in allocated'
    BY <1>1 DEF Malloc
  <2>2. \E x : Owners(a)' = {x}
    BY <2>1
  <2>3. QED
    BY <1>1, <2>1, <2>2
<1>2. CASE b # a
  <2>1. b \notin shared /\ (b \in allocated' <=> b \in allocated) /\ Owners(b)' = Owners(b)
    BY <1>2 DEF Malloc
  <2>2. QED
    BY <2>1 DEF OwnedOnce
<1>3. QED
  BY <1>1, <1>2

(* A block that an object gets to itself. *)
LEMMA NewBlockKeeps ==
  ASSUME OwnerInv, NEW o \in Objs, NEW a \in Addrs, NEW name \in Names,
         Malloc(a), Wrap(o, a, name, "null"), Emplace(<<a, name>>, o),
         UNCHANGED <<handed, pointers>>
  PROVE  OwnerInv'
<1> USE DEF OwnerInv, pointers
<1>1. Types'
  BY WrapOwns DEF Types, Emplace, Malloc
<1>2. EntryIsOwner'
  BY WrapEntries
<1>3. \A b \in Addrs \ {a} : Owners(b)' = Owners(b)
  <2> TAKE b \in Addrs \ {a}
  <2>1. \A x \in Objs : Owns(x, b)' <=> Owns(x, b)
    BY WrapOwns
  <2>2. QED
    BY <2>1, OwnersStay
<1>4. Owners(a) = {} => Owners(a)' = {o}
  <2>1. Owners(a)' = Owners(a) \cup {o}
    BY WrapOwns DEF Owners, Owns
  <2>2. QED
    BY <2>1
<1>5. OwnedOnce'
  BY <1>3, <1>4, MallocOwned
<1>6. QED
  BY <1>1, <1>2, <1>5

(* The actions that make a struct. *)
LEMMA MakesKeep ==
  ASSUME OwnerInv, NEW o \in Objs, NEW a \in Addrs, NEW name \in Names,
         NewStruct(o, a, name) \/ CopyStruct(o, a, name)
  PROVE  OwnerInv'
<1>1. CASE NewStruct(o, a, name)
  BY <1>1, NewBlockKeeps DEF NewStruct
<1>2. CASE CopyStruct(o, a, name) /\ StructInstances[<<a, name>>] = "none"
  BY <1>2, NewBlockKeeps DEF CopyStruct
<1>3. CASE CopyStruct(o, a, name) /\ StructInstances[<<a, name>>] # "none"
  <2>1. /\ UNCHANGED <<wrapper, data_, parent_, StructInstances, handed, isAdopted_>>
        /\ Malloc(a)
    BY <1>3 DEF CopyStruct, pointers
  <2>2. \A x : (Live(x)' <=> Live(x)) /\ \A b : Owns(x, b)' <=> Owns(x, b)
    BY <2>1 DEF Live, Owns
  <2>3. \A b : Owners(b)' = Owners(b)
    BY <2>1, <2>2, OwnersStay
  <2>4. Owners(a) # {}
    BY <1>3, OwnersAre DEF OwnerInv, EntryIsOwner, Types
  <2>5. OwnedOnce'
    BY <2>1, <2>3, <2>4, MallocOwned DEF OwnerInv
  <2>6. QED
    BY <2>1, <2>2, <2>5 DEF OwnerInv, Types, EntryIsOwner, Malloc
<1>4. QED
  BY <1>1, <1>2, <1>3

(* A struct over the memory of a Pointer: the block has two owners from now. *)
LEMMA OverPointerKeeps ==
  ASSUME OwnerInv, NEW o \in Objs, NEW a \in Addrs, NEW name \in Names,
         StructOverPointer(o, a, name)
  PROVE  OwnerInv'
<1> USE DEF OwnerInv, StructOverPointer, pointers
<1>1. Types'
  BY WrapOwns DEF Types, Emplace, Malloc
<1>2. EntryIsOwner'
  BY WrapEntries
<1>3. \A b \in Addrs \ {a} : Owners(b)' = Owners(b)
  <2> TAKE b \in Addrs \ {a}
  <2>1. \A x \in Objs : Owns(x, b)' <=> Owns(x, b)
    BY WrapOwns
  <2>2. QED
    BY <2>1, OwnersStay
<1>4. OwnedOnce'
  BY <1>3 DEF OwnedOnce
<1>5. QED
  BY <1>1, <1>2, <1>4

(* A view owns nothing. *)
LEMMA ViewKeeps ==
  ASSUME OwnerInv, NEW p \in Objs, NEW v \in Objs, ViewField(p, v)
  PROVE  OwnerInv'
<1> USE DEF OwnerInv
<1>1. PICK a \in Addrs : a = data_[p]
  BY DEF ViewField, Types, Live
<1>2. PICK q \in Objs : q = StructInstances[<<a, "Outer">>]
  BY <1>1 DEF ViewField, Types, Names
<1>3. UNCHANGED <<StructInstances, allocated, handed, shared, isAdopted_>>
  BY DEF ViewField, blocks, pointers
<1>4. CASE UNCHANGED <<wrapper, data_, parent_>>
  <2>1. \A x : (Live(x)' <=> Live(x)) /\ \A b : Owns(x, b)' <=> Owns(x, b)
    BY <1>4 DEF Live, Owns
  <2>2. \A b : Owners(b)' = Owners(b)
    BY <1>3, <2>1, OwnersStay
  <2>3. QED
    BY <1>3, <1>4, <2>1, <2>2 DEF Types, EntryIsOwner, OwnedOnce
<1>5. CASE Wrap(v, a, "Inner", q)
  <2>1. q # "null" /\ "Inner" \in Names
    BY MemoryAssumption DEF Names
  <2>2. Types' /\ EntryIsOwner'
    BY <1>3, <1>5, <2>1, WrapOwns, WrapEntries DEF Types
  <2>3. \A b \in Addrs : Owners(b)' = Owners(b)
    <3> TAKE b \in Addrs
    <3>1. \A x \in Objs : Owns(x, b)' <=> Owns(x, b)
      BY <1>5, <2>1, WrapOwns
    <3>2. QED
      BY <1>3, <3>1, OwnersStay
  <2>4. QED
    BY <1>3, <2>2, <2>3 DEF OwnedOnce
<1>6. QED
  BY <1>1, <1>2, <1>4, <1>5 DEF ViewField

-----------------------------------------------------------------------------
(* A view that is disposed of owned nothing; an owner frees its block. *)
LEMMA DisposeViewOwns ==
  ASSUME OwnerInv, NEW o \in Objs, DisposeView(o), UNCHANGED isAdopted_
  PROVE  OwnerInv'
<1> USE DEF OwnerInv, DisposeView, blocks
<1>1. \A x \in Objs, b \in Addrs : Owns(x, b)' <=> Owns(x, b)
  BY DeleteOwns DEF Owns
<1>2. Types'
  BY DeleteOwns DEF Types
<1>3. EntryIsOwner'
  BY <1>1, DeleteOwns DEF EntryIsOwner, Types, Owns
<1>4. \A b \in Addrs : Owners(b)' = Owners(b)
  BY <1>1, OwnersStay
<1>5. QED
  BY <1>2, <1>3, <1>4 DEF OwnedOnce

(* ... and an owner that is disposed of frees its block, which was its own. *)
LEMMA DisposeOwnerOwns ==
  ASSUME OwnerInv, NEW o \in Objs, DisposeOwner(o), UNCHANGED isAdopted_
  PROVE  OwnerInv'
<1> USE DEF OwnerInv, DisposeOwner
<1>1. PICK a \in Addrs, name \in Names : a = data_[o] /\ name = wrapper[o]
  BY DEF Types, Live
<1>2. Types'
  BY <1>1, DeleteOwns DEF Types
<1>3. EntryIsOwner'
  <2> SUFFICES ASSUME NEW b \in Addrs, NEW n \in Names, NEW x \in Objs,
                      StructInstances'[<<b, n>>] = x
               PROVE  Owns(x, b)' /\ wrapper'[x] = n
    BY DEF EntryIsOwner
  <2>1. x = StructInstances[<<b, n>>] /\ ~(b = a /\ n = name) /\ x \in Objs
    BY <1>1, MemoryAssumption DEF Types
  <2>2. Owns(x, b) /\ wrapper[x] = n
    BY <2>1 DEF EntryIsOwner
  <2>3. x # o
    BY <1>1, <2>1, <2>2 DEF Owns
  <2>4. QED
    BY <2>1, <2>2, <2>3, DeleteOwns
<1>4. ASSUME NEW b \in Addrs \ {a} PROVE Owners(b)' = Owners(b)
  <2>1. \A x \in Objs : Owns(x, b)' <=> Owns(x, b)
    BY <1>1, DeleteOwns DEF Owns
  <2>2. QED
    BY <1>1, <2>1, OwnersStay
<1>5. ASSUME a \notin shared PROVE a \notin allocated' /\ Owners(a)' = {}
  <2>1. o \in Owners(a) /\ Owns(o, a)
    BY <1>1, OwnersAre DEF Owns
  <2>2. Owners(a) = {o}
    BY <1>5, <2>1 DEF OwnedOnce
  <2>3. o # "pointer" /\ o # "app"
    BY MemoryAssumption
  <2>4. a \notin isAdopted_' /\ a \notin handed'
    BY <1>1, <2>2, <2>3, OwnersAre
  <2>5. \A x \in Objs : ~Owns(x, a)'
    BY <2>2, DeleteOwns, OwnersAre
  <2>6. QED
    BY <1>1, <2>4, <2>5 DEF Owners, Owns
<1>6. OwnedOnce'
  BY <1>1, <1>4, <1>5 DEF OwnedOnce
<1>7. QED
  BY <1>2, <1>3, <1>6

-----------------------------------------------------------------------------
(* Steps that leave the structs alone. *)
LEMMA StructsStay ==
  ASSUME Types, EntryIsOwner, UNCHANGED <<wrapper, data_, parent_, StructInstances>>,
         handed' \subseteq allocated'
  PROVE  /\ Types' /\ EntryIsOwner'
         /\ \A x, b : Owns(x, b)' <=> Owns(x, b)
BY DEF Types, EntryIsOwner, Owns, Live

(* A block that a Pointer or the application gets. *)
LEMMA AllocKeeps ==
  ASSUME OwnerInv, NEW a \in Addrs, Alloc(a) \/ NativeBuffer(a)
  PROVE  OwnerInv'
<1> USE DEF OwnerInv, Alloc, NativeBuffer, structs
<1>1. PICK w \in {"pointer", "app"} :
         /\ isAdopted_' = IF w = "pointer" THEN isAdopted_ \cup {a} ELSE isAdopted_
         /\ handed' = IF w = "app" THEN handed \cup {a} ELSE handed
  OBVIOUS
<1>2. Malloc(a) /\ handed' \subseteq allocated'
  BY DEF Malloc, Types
<1>3. Types' /\ EntryIsOwner' /\ \A x, b : Owns(x, b)' <=> Owns(x, b)
  BY <1>2, StructsStay
<1>4. \A b \in Addrs \ {a} : Owners(b)' = Owners(b)
  <2> TAKE b \in Addrs \ {a}
  <2>1. (b \in isAdopted_' <=> b \in isAdopted_) /\ (b \in handed' <=> b \in handed)
    BY <1>1
  <2>2. QED
    BY <1>3, <2>1, OwnersStay
<1>5. Owners(a) = {} => Owners(a)' = {w}
  <2>1. Owners(a)' = Owners(a) \cup {w}
    BY <1>1, <1>3 DEF Owners, Owns
  <2>2. QED
    BY <2>1
<1>6. QED
  BY <1>2, <1>3, <1>4, <1>5, MallocOwned

(* adopt hands the block of the application over to its Pointer, and free    *)
(* gives it back.                                                            *)
LEMMA AdoptFreeKeep ==
  ASSUME OwnerInv, NEW a \in Addrs, Adopt(a) \/ Free(a)
  PROVE  OwnerInv'
<1> USE DEF OwnerInv, structs
<1>1. /\ UNCHANGED <<wrapper, data_, parent_, StructInstances>>
      /\ handed' = handed \ {a} /\ handed' \subseteq allocated'
      /\ a \in allocated
      /\ shared' = IF Owners(a) \subseteq {"app"} THEN shared ELSE shared \cup {a}
      /\ \A b \in Addrs \ {a} : (b \in isAdopted_' <=> b \in isAdopted_)
                              /\ (b \in allocated' <=> b \in allocated)
  BY DEF Adopt, Free, Types, pointers
<1>2. Types' /\ EntryIsOwner' /\ \A x, b : Owns(x, b)' <=> Owns(x, b)
  BY <1>1, StructsStay
<1>3. ASSUME NEW b \in Addrs \ {a} PROVE Owners(b)' = Owners(b)
  <2>1. (b \in isAdopted_' <=> b \in isAdopted_) /\ (b \in handed' <=> b \in handed)
    BY <1>1
  <2>2. QED
    BY <1>2, <2>1, OwnersStay
<1>4. ASSUME a \notin shared'
      PROVE  IF a \in allocated' THEN \E x : Owners(a)' = {x} ELSE Owners(a)' = {}
  <2>1. Owners(a) \subseteq {"app"} /\ a \notin shared
    BY <1>1, <1>4
  <2>2. \A x \in Objs : ~Owns(x, a)'
    BY <1>2, <2>1, OwnersAre, MemoryAssumption
  <2>3. Owners(a)' = IF a \in isAdopted_' THEN {"pointer"} ELSE {}
    BY <1>1, <2>2 DEF Owners, Owns
  <2>4. a \in isAdopted_' <=> a \in allocated'
    BY <1>1 DEF Adopt, Free, pointers
  <2>5. QED
    BY <2>3, <2>4
<1>5. OwnedOnce'
  BY <1>1, <1>3, <1>4 DEF OwnedOnce
<1>6. QED
  BY <1>2, <1>5

(* The final pass over the Pointers. *)
LEMMA VisitPointerKeeps ==
  ASSUME OwnerInv, NEW a \in Addrs, VisitPointer(a)
  PROVE  OwnerInv'
<1> USE DEF OwnerInv, structs
<1>1. /\ UNCHANGED <<wrapper, data_, parent_, StructInstances, shared>>
      /\ handed' \subseteq allocated' /\ isAdopted_' = isAdopted_ \ {a}
      /\ allocated' = IF a \in isAdopted_ THEN allocated \ {a} ELSE allocated
      /\ \A b \in Addrs : b # a \/ a \notin isAdopted_ => (b \in handed' <=> b \in handed)
  BY DEF VisitPointer, Types
<1>2. Types' /\ EntryIsOwner' /\ \A x, b : Owns(x, b)' <=> Owns(x, b)
  BY <1>1, StructsStay
<1>3. ASSUME NEW b \in Addrs, b # a \/ a \notin isAdopted_
      PROVE  Owners(b)' = Owners(b) /\ (b \in allocated' <=> b \in allocated)
  <2>1. (b \in isAdopted_' <=> b \in isAdopted_) /\ (b \in handed' <=> b \in handed)
    BY <1>1, <1>3
  <2>2. QED
    BY <1>1, <1>2, <1>3, <2>1, OwnersStay
<1>4. ASSUME a \notin shared, a \in isAdopted_
      PROVE  Owners(a)' = {} /\ a \notin allocated'
  <2>1. "pointer" \in Owners(a)
    BY <1>4, OwnersAre
  <2>2. Owners(a) = {"pointer"}
    BY <1>4, <2>1 DEF OwnedOnce
  <2>3. (\A x \in Objs : ~Owns(x, a)') /\ a \notin handed' /\ a \notin isAdopted_'
    BY <1>1, <1>2, <1>4, <2>2, OwnersAre, MemoryAssumption
  <2>4. QED
    BY <1>1, <1>4, <2>3 DEF Owners, Owns
<1>5. OwnedOnce'
  BY <1>1, <1>3, <1>4 DEF OwnedOnce
<1>6. QED
  BY <1>2, <1>5

(* The final pass over the structs. *)
LEMMA VisitStructKeeps ==
  ASSUME OwnerInv, NEW o \in Objs, NEW handle, VisitStruct(o, handle)
  PROVE  OwnerInv'
<1>1. UNCHANGED isAdopted_
  BY DEF VisitStruct, pointers
<1>2. CASE DisposeView(o) \/ DisposeOwner(o)
  BY <1>1, <1>2, DisposeViewOwns, DisposeOwnerOwns
<1>3. CASE ~(DisposeView(o) \/ DisposeOwner(o))
  <2>1. /\ parent_' = [x \in Objs |-> IF handle = "registered" /\ parent_[x] = o
                                      THEN "reset" ELSE parent_[x]]
        /\ UNCHANGED <<allocated, handed, shared, wrapper, data_, StructInstances>>
    BY <1>3 DEF VisitStruct, blocks
  <2>2. \A x \in Objs, b \in Addrs : Owns(x, b)' <=> Owns(x, b)
    BY <2>1, MemoryAssumption DEF Owns, Live
  <2>3. \A b \in Addrs : Owners(b)' = Owners(b)
    BY <1>1, <2>1, <2>2, OwnersStay
  <2>4. Types'
    BY <2>1 DEF OwnerInv, Types, Live
  <2>5. EntryIsOwner' /\ OwnedOnce'
    BY <2>1, <2>2, <2>3 DEF OwnerInv, EntryIsOwner, OwnedOnce
  <2>6. QED
    BY <2>4, <2>5 DEF OwnerInv
<1>4. QED
  BY <1>2, <1>3

(* Initially there are no blocks and no owners. *)
LEMMA OwnerInvInit == Init => OwnerInv
<1> SUFFICES ASSUME Init PROVE OwnerInv
  OBVIOUS
<1>1. Types /\ EntryIsOwner
  BY MemoryAssumption DEF Init, Types, EntryIsOwner, Live
<1>2. \A a \in Addrs : Owners(a) = {}
  BY DEF Init, Owners, Live
<1>3. QED
  BY <1>1, <1>2 DEF Init, OwnerInv, OwnedOnce

(* Steps that change neither blocks nor owners. *)
LEMMA OthersOwn ==
  ASSUME OwnerInv,
         UNCHANGED <<wrapper, data_, parent_, StructInstances, blocks, isAdopted_>>
  PROVE  OwnerInv'
<1> USE DEF OwnerInv, blocks
<1>1. Types' /\ EntryIsOwner' /\ \A x, b : Owns(x, b)' <=> Owns(x, b)
  BY StructsStay DEF Types
<1>2. \A b : Owners(b)' = Owners(b)
  BY <1>1, OwnersStay
<1>3. QED
  BY <1>1, <1>2 DEF OwnedOnce

(* Every step keeps memory with one owner under one owner. *)
LEMMA OwnerInvStep ==
  ASSUME OwnerInv, [Next]_vars
  PROVE  OwnerInv'
<1>1. ASSUME NEW o \in Objs, NEW a \in Addrs, NEW name \in Names,
             \/ NewStruct(o, a, name) \/ StructOverPointer(o, a, name)
             \/ CopyStruct(o, a, name)
      PROVE  OwnerInv'
  BY <1>1, MakesKeep, OverPointerKeeps
<1>2. ASSUME NEW o \in Objs, NEW v \in Objs, ViewField(o, v) PROVE OwnerInv'
  BY <1>2, ViewKeeps
<1>3. ASSUME NEW o \in Objs, NEW v \in Objs, NEW b \in Addrs, CopyField(o, v, b)
      PROVE  OwnerInv'
  BY <1>3, MakesKeep DEF CopyField, Names
<1>4. ASSUME NEW o \in Objs, FinalizerCallback(o) PROVE OwnerInv'
  BY <1>4, DisposeViewOwns, DisposeOwnerOwns DEF FinalizerCallback, pointers
<1>5. ASSUME NEW o \in Objs, NEW handle, VisitStruct(o, handle) PROVE OwnerInv'
  BY <1>5, VisitStructKeeps
<1>6. ASSUME NEW a \in Addrs,
             Alloc(a) \/ NativeBuffer(a) \/ Adopt(a) \/ Free(a) \/ VisitPointer(a)
      PROVE  OwnerInv'
  BY <1>6, AllocKeeps, AdoptFreeKeep, VisitPointerKeeps
<1>7. ASSUME NEW o \in Objs, DropReference(o) \/ HandleOf(o) PROVE OwnerInv'
  BY <1>7, OthersOwn DEF DropReference, HandleOf, structs, pointers
<1>8. CASE DestroyRuntime \/ UNCHANGED vars
  BY <1>8, OthersOwn DEF DestroyRuntime, vars, structs, pointers
<1>9. QED
  BY <1>1, <1>2, <1>3, <1>4, <1>5, <1>6, <1>7, <1>8 DEF Next

-----------------------------------------------------------------------------
(***************************************************************************)
(* Views.  A view of memory with one owner keeps it from being freed       *)
(* through the owner's childCount_, so the invariant relates the counts to *)
(* the views of an address: they are equal while the isolate runs, and in  *)
(* the final pass, where a parent's handle may be reset before its views   *)
(* are visited, the count is only too large.                               *)
(***************************************************************************)
ViewsAt(a) == {v \in Objs : Live(v) /\ parent_[v] # "null" /\ data_[v] = a}

ParentIsOwner ==
  \A v \in Objs, p \in Objs, a \in Addrs :
    (Live(v) /\ parent_[v] = p /\ data_[v] = a) => Owns(p, a)

ParentIsKept == running => \A v \in Objs : Live(v) => parent_[v] # "reset"

CountsOwn ==
  \A o \in Objs : childCount_[o] # 0 => Live(o) /\ parent_[o] = "null"

CountsEnough == \A o \in Objs : childCount_[o] >= Cardinality(Views(o))

CountsExact ==
  running => \A o \in Objs, a \in Addrs \ shared :
               Owns(o, a) => childCount_[o] = Cardinality(Views(o))

Covered ==
  \A o \in Objs, a \in Addrs \ shared :
    Owns(o, a) => childCount_[o] >= Cardinality(ViewsAt(a))

ViewsHaveOwner ==
  \A a \in Addrs \ shared : ViewsAt(a) # {} => \E o \in Objs : Owns(o, a)

ViewInv ==
  /\ childCount_ \in [Objs -> Nat]
  /\ ParentIsOwner /\ ParentIsKept /\ CountsOwn /\ CountsEnough
  /\ CountsExact /\ Covered /\ ViewsHaveOwner

NotYet == running => \A o \in Objs : toVisit[o] = {}

(* Views are finitely many, and none only when there is none. *)
LEMMA ViewsAreFinite ==
  ASSUME NEW x
  PROVE  /\ IsFiniteSet(Views(x)) /\ Cardinality(Views(x)) \in Nat
         /\ Cardinality(Views(x)) = 0 <=> Views(x) = {}
         /\ IsFiniteSet(ViewsAt(x)) /\ Cardinality(ViewsAt(x)) \in Nat
         /\ Cardinality(ViewsAt(x)) = 0 <=> ViewsAt(x) = {}
<1>1. Views(x) \in SUBSET Objs /\ ViewsAt(x) \in SUBSET Objs
  BY DEF Views, ViewsAt
<1>2. IsFiniteSet(Views(x)) /\ IsFiniteSet(ViewsAt(x))
  BY <1>1, MemoryAssumption, FS_Subset
<1>3. QED
  BY <1>2, FS_CardinalityType, FS_EmptySet

(* A set of views with one more, and with one less. *)
LEMMA OneMoreView ==
  ASSUME NEW S, NEW T, NEW v, IsFiniteSet(S), v \notin S, T = S \cup {v}
  PROVE  Cardinality(T) = Cardinality(S) + 1
BY FS_AddElement

(* The set that loses a view was not empty. *)
LEMMA OneViewLess ==
  ASSUME NEW S, NEW T, NEW v, IsFiniteSet(S), v \in S, T = S \ {v}
  PROVE  Cardinality(T) = Cardinality(S) - 1 /\ Cardinality(S) > 0
<1>1. Cardinality(T) = Cardinality(S) - 1
  BY FS_RemoveElement
<1>2. Cardinality(S) \in Nat /\ Cardinality(S) # 0
  BY FS_CardinalityType, FS_EmptySet
<1>3. QED
  BY <1>1, <1>2

(* An address that nobody owns has no views while the isolate runs. *)
LEMMA NoStrayViews ==
  ASSUME OwnerInv, ViewInv, running, NEW a \in Addrs, Owners(a) = {}
  PROVE  ViewsAt(a) = {} /\ \A o \in Objs : ~Owns(o, a)
<1>1. \A o \in Objs : ~Owns(o, a)
  BY OwnersAre
<1>2. ASSUME NEW v \in ViewsAt(a) PROVE FALSE
  <2>1. v \in Objs /\ Live(v) /\ parent_[v] \in Objs /\ data_[v] = a
    BY <1>2 DEF ViewsAt, ViewInv, ParentIsKept, OwnerInv, Types
  <2>2. QED
    BY <1>1, <2>1 DEF ViewInv, ParentIsOwner
<1>3. QED
  BY <1>1, <1>2

(* Steps that leave structs and counts alone.  An address may come to have   *)
(* one owner when malloc finds it without any.                               *)
LEMMA OthersView ==
  ASSUME OwnerInv, ViewInv, UNCHANGED <<wrapper, data_, parent_, childCount_>>,
         running' => running,
         \A b \in shared \ shared' : b \in Addrs => running /\ Owners(b) = {}
  PROVE  ViewInv'
<1> USE DEF ViewInv
<1>1. /\ \A x : (Live(x)' <=> Live(x)) /\ Views(x)' = Views(x) /\ ViewsAt(x)' = ViewsAt(x)
      /\ \A x, b : Owns(x, b)' <=> Owns(x, b)
  BY DEF Live, Views, ViewsAt, Owns
<1>2. childCount_' \in [Objs -> Nat] /\ ParentIsOwner' /\ ParentIsKept' /\ CountsOwn'
  BY <1>1 DEF ParentIsOwner, ParentIsKept, CountsOwn
<1>3. CountsEnough'
  BY <1>1 DEF CountsEnough
<1>4. ASSUME NEW b \in Addrs \ shared'
      PROVE  b \in shared => ViewsAt(b) = {} /\ \A o \in Objs : ~Owns(o, b)
  BY NoStrayViews
<1>5. CountsExact' /\ Covered' /\ ViewsHaveOwner'
  BY <1>1, <1>4 DEF CountsExact, Covered, ViewsHaveOwner
<1>6. QED
  BY <1>2, <1>3, <1>5

(* A struct with a block of its own, or over memory that is shared from now. *)
LEMMA NewOwnerView ==
  ASSUME OwnerInv, ViewInv, running, UNCHANGED <<running, childCount_>>,
         NEW o \in Objs, NEW a \in Addrs, NEW name \in Names, Wrap(o, a, name, "null"),
         Malloc(a) \/ shared' = shared \cup {a}
  PROVE  ViewInv'
<1> USE DEF ViewInv
<1>0. Types
  BY DEF OwnerInv
<1>1. /\ \A x \in Objs : Views(x)' = Views(x)
      /\ \A b : ViewsAt(b)' = ViewsAt(b)
  <2>1. ASSUME NEW x \in Objs PROVE Views(x)' = Views(x)
    <3>1. x # "null"
      BY MemoryAssumption
    <3>2. QED
      BY <1>0, <3>1, WrapOwns DEF Views
  <2>2. ASSUME NEW b PROVE ViewsAt(b)' = ViewsAt(b)
    BY <1>0, WrapOwns DEF ViewsAt
  <2>3. QED
    BY <2>1, <2>2
<1>2. /\ childCount_[o] = 0 /\ Cardinality(Views(o)) = 0
      /\ ~Live(o)
  BY <1>0, WrapOwns, ViewsAreFinite DEF CountsOwn, CountsEnough
<1>3. childCount_' \in [Objs -> Nat] /\ CountsEnough'
  BY <1>1 DEF CountsEnough
<1>4. ParentIsOwner' /\ ParentIsKept' /\ CountsOwn'
  BY <1>0, <1>2, WrapOwns, MemoryAssumption DEF ParentIsOwner, ParentIsKept, CountsOwn
<1>5. ASSUME NEW b \in Addrs \ shared', b # a
      PROVE  b \notin shared /\ \A x \in Objs : Owns(x, b)' <=> Owns(x, b)
  BY <1>0, <1>5, WrapOwns DEF Malloc
<1>6. ASSUME a \notin shared'
      PROVE  ViewsAt(a) = {} /\ \A x \in Objs : Owns(x, a)' => x = o
  <2>1. Owners(a) = {}
    BY <1>6 DEF Malloc
  <2>2. QED
    BY <1>0, <2>1, NoStrayViews, WrapOwns
<1>7. CountsExact' /\ Covered' /\ ViewsHaveOwner'
  BY <1>1, <1>2, <1>5, <1>6, ViewsAreFinite DEF CountsExact, Covered, ViewsHaveOwner
<1>8. QED
  BY <1>3, <1>4, <1>7

(* A new view is counted by the one owner of its block. *)
LEMMA NewViewView ==
  ASSUME OwnerInv, ViewInv, NEW v \in Objs, NEW a \in Addrs, NEW q \in Objs, Owns(q, a),
         Wrap(v, a, "Inner", q), UNCHANGED <<running, shared>>,
         childCount_' = [childCount_ EXCEPT ![q] = childCount_[q] + 1]
  PROVE  ViewInv'
<1> USE DEF ViewInv
<1>1. Types /\ "Inner" \in Names /\ q # "null" /\ q # "reset"
  BY MemoryAssumption DEF OwnerInv, Names
<1>2. /\ \A x \in Objs, b \in Addrs : Owns(x, b)' <=> Owns(x, b)
      /\ v # q /\ ~Live(v)
  BY <1>1, WrapOwns DEF Owns
<1>3. ASSUME NEW x \in Objs
      PROVE  /\ Cardinality(Views(x)') = Cardinality(Views(x)) + (IF x = q THEN 1 ELSE 0)
             /\ Cardinality(Views(x)) \in Nat
  <2>1. v \notin Views(x)
    BY <1>2 DEF Views
  <2>2. Views(x)' = IF x = q THEN Views(x) \cup {v} ELSE Views(x)
    BY <1>1, WrapOwns DEF Views
  <2>3. QED
    BY <2>1, <2>2, OneMoreView, ViewsAreFinite
<1>4. ASSUME NEW b \in Addrs
      PROVE  /\ Cardinality(ViewsAt(b)') = Cardinality(ViewsAt(b)) + (IF b = a THEN 1 ELSE 0)
             /\ Cardinality(ViewsAt(b)) \in Nat
             /\ b # a => ViewsAt(b)' = ViewsAt(b)
  <2>1. v \notin ViewsAt(b)
    BY <1>2 DEF ViewsAt
  <2>2. ViewsAt(b)' = IF b = a THEN ViewsAt(b) \cup {v} ELSE ViewsAt(b)
    BY <1>1, WrapOwns DEF ViewsAt
  <2>3. QED
    BY <2>1, <2>2, OneMoreView, ViewsAreFinite
<1>5. childCount_' \in [Objs -> Nat]
  OBVIOUS
<1>6. \A x \in Objs : childCount_'[x] = childCount_[x] + (IF x = q THEN 1 ELSE 0)
  OBVIOUS
<1>7. ParentIsOwner'
  BY <1>1, <1>2, WrapOwns DEF ParentIsOwner
<1>8. ParentIsKept'
  BY <1>1, WrapOwns DEF ParentIsKept
<1>9. CountsOwn'
  BY <1>1, <1>2, <1>6, WrapOwns DEF CountsOwn, Owns
<1>10. CountsEnough' /\ CountsExact'
  BY <1>2, <1>3, <1>6 DEF CountsEnough, CountsExact
<1>11. Covered'
  <2> SUFFICES ASSUME NEW x \in Objs, NEW b \in Addrs \ shared, Owns(x, b)
               PROVE  childCount_'[x] >= Cardinality(ViewsAt(b)')
    BY <1>2 DEF Covered
  <2>1. b = a => x = q
    BY OwnersAre DEF OwnerInv, OwnedOnce
  <2>2. childCount_[x] >= Cardinality(ViewsAt(b)) /\ childCount_[x] \in Nat
    BY DEF Covered
  <2>3. QED
    BY <1>4, <1>6, <2>1, <2>2
<1>12. ViewsHaveOwner'
  BY <1>2, <1>4 DEF ViewsHaveOwner
<1>13. QED
  BY <1>5, <1>7, <1>8, <1>9, <1>10, <1>11, <1>12

(* Reading a field.  Where another object has the entry of the field, the    *)
(* block has two owners, and the count may be too large.                     *)
LEMMA ViewFieldView ==
  ASSUME OwnerInv, ViewInv, NEW p \in Objs, NEW v \in Objs, ViewField(p, v)
  PROVE  ViewInv'
<1>1. PICK a \in Addrs : a = data_[p]
  BY DEF ViewField, OwnerInv, Types, Live
<1>2. PICK q \in Objs : q = StructInstances[<<a, "Outer">>]
  BY <1>1 DEF ViewField, OwnerInv, Types, Names
<1>3. Owns(q, a) /\ wrapper[q] = "Outer"
  BY <1>2 DEF OwnerInv, EntryIsOwner, Names
<1>4. /\ UNCHANGED <<running, shared>>
      /\ childCount_' = [childCount_ EXCEPT ![q] = childCount_[q] + 1]
  BY <1>1, <1>2 DEF ViewField, blocks, isolate
<1>5. CASE StructInstances[<<a, "Inner">>] = "none"
  <2>1. Wrap(v, a, "Inner", q)
    BY <1>1, <1>2, <1>5 DEF ViewField
  <2>2. QED
    BY <1>3, <1>4, <2>1, NewViewView
<1>6. CASE StructInstances[<<a, "Inner">>] # "none"
  <2>1. UNCHANGED <<wrapper, data_, parent_>>
    BY <1>1, <1>6 DEF ViewField
  <2>2. PICK w \in Objs : w = StructInstances[<<a, "Inner">>]
    BY <1>6 DEF OwnerInv, Types, Names
  <2>3. Owns(w, a) /\ wrapper[w] = "Inner"
    BY <2>2 DEF OwnerInv, EntryIsOwner, Names
  <2>4. a \in shared
    <3>1. w \in Owners(a) /\ q \in Owners(a) /\ w # q
      BY <1>3, <2>3, OwnersAre
    <3>2. QED
      BY <3>1 DEF OwnerInv, OwnedOnce
  <2>5. /\ \A x : (Live(x)' <=> Live(x)) /\ Views(x)' = Views(x) /\ ViewsAt(x)' = ViewsAt(x)
        /\ \A x, b : Owns(x, b)' <=> Owns(x, b)
    BY <2>1 DEF Live, Views, ViewsAt, Owns
  <2>6. /\ childCount_' \in [Objs -> Nat]
        /\ \A x \in Objs : childCount_'[x] = IF x = q THEN childCount_[x] + 1 ELSE childCount_[x]
    BY <1>4 DEF ViewInv
  <2>7. ParentIsOwner' /\ ParentIsKept' /\ ViewsHaveOwner'
    BY <1>4, <2>1, <2>5 DEF ViewInv, ParentIsOwner, ParentIsKept, ViewsHaveOwner
  <2>8. CountsOwn'
    BY <1>3, <2>1, <2>5, <2>6 DEF ViewInv, CountsOwn, Owns
  <2>9. CountsEnough'
    BY <2>5, <2>6, ViewsAreFinite DEF ViewInv, CountsEnough
  <2>10. \A b \in Addrs \ shared : ~Owns(q, b)
    BY <1>3, <2>4 DEF Owns
  <2>11. CountsExact' /\ Covered'
    BY <1>4, <2>5, <2>6, <2>10 DEF ViewInv, CountsExact, Covered
  <2>12. QED
    BY <2>6, <2>7, <2>8, <2>9, <2>11 DEF ViewInv
<1>7. QED
  BY <1>5, <1>6

(* A view that goes is no longer counted by its parent. *)
LEMMA DisposeViewView ==
  ASSUME OwnerInv, ViewInv, NEW o \in Objs, DisposeView(o), UNCHANGED running
  PROVE  ViewInv'
<1> USE DEF ViewInv
<1>1. /\ Types /\ DeleteWrapper(o) /\ Live(o) /\ parent_[o] # "null" /\ shared' = shared
      /\ childCount_' = [x \in Objs |-> IF x = parent_[o] THEN childCount_[x] - 1
                                                         ELSE childCount_[x]]
  BY DEF DisposeView, OwnerInv, blocks
<1>2. PICK a \in Addrs : a = data_[o]
  BY <1>1 DEF Types
<1>3. \A x \in Objs, b \in Addrs : Owns(x, b)' <=> Owns(x, b)
  BY <1>1, DeleteOwns DEF Owns
<1>4. \A x \in Objs : Live(x) => parent_[x] # o
  BY <1>1 DEF ParentIsOwner, Owns, Types
<1>5. \A x \in Objs : /\ Live(x)' <=> (Live(x) /\ x # o)
                      /\ (Live(x) /\ x # o) => parent_'[x] = parent_[x] /\ data_'[x] = data_[x]
  BY <1>1, <1>4, DeleteOwns
<1>6. ASSUME NEW x \in Objs
      PROVE  /\ Cardinality(Views(x)') = Cardinality(Views(x)) - (IF x = parent_[o] THEN 1 ELSE 0)
             /\ Cardinality(Views(x)) \in Nat
             /\ x = parent_[o] => Cardinality(Views(x)) > 0
  <2>1. Views(x)' = Views(x) \ {o}
    BY <1>5 DEF Views
  <2>2. o \in Views(x) <=> x = parent_[o]
    BY <1>1 DEF Views
  <2>3. CASE x = parent_[o]
    BY <2>1, <2>2, <2>3, OneViewLess, ViewsAreFinite
  <2>4. CASE x # parent_[o]
    <3>1. Views(x)' = Views(x)
      BY <2>1, <2>2, <2>4
    <3>2. QED
      BY <2>4, <3>1, ViewsAreFinite
  <2>5. QED
    BY <2>3, <2>4
<1>7. ASSUME NEW b \in Addrs
      PROVE  /\ Cardinality(ViewsAt(b)') = Cardinality(ViewsAt(b)) - (IF b = a THEN 1 ELSE 0)
             /\ Cardinality(ViewsAt(b)) \in Nat /\ ViewsAt(b)' \subseteq ViewsAt(b)
  <2>1. ViewsAt(b)' = ViewsAt(b) \ {o}
    BY <1>5 DEF ViewsAt
  <2>2. o \in ViewsAt(b) <=> b = a
    BY <1>1, <1>2 DEF ViewsAt
  <2>3. CASE b = a
    BY <2>1, <2>2, <2>3, OneViewLess, ViewsAreFinite
  <2>4. CASE b # a
    <3>1. ViewsAt(b)' = ViewsAt(b)
      BY <2>1, <2>2, <2>4
    <3>2. QED
      BY <2>4, <3>1, ViewsAreFinite
  <2>5. QED
    BY <2>3, <2>4
<1>8. \A x \in Objs : /\ childCount_[x] \in Nat /\ childCount_[x] >= Cardinality(Views(x))
                      /\ childCount_'[x] = childCount_[x] - (IF x = parent_[o] THEN 1 ELSE 0)
  BY <1>1 DEF CountsEnough
<1>9. childCount_' \in [Objs -> Nat]
  <2>1. ASSUME NEW x \in Objs PROVE childCount_'[x] \in Nat
    BY <1>6, <1>8
  <2>2. QED
    BY <1>1, <2>1
<1>10. ParentIsOwner' /\ ParentIsKept'
  BY <1>3, <1>5 DEF ParentIsOwner, ParentIsKept
<1>11. CountsOwn'
  <2> SUFFICES ASSUME NEW x \in Objs, childCount_'[x] # 0
               PROVE  Live(x)' /\ parent_'[x] = "null"
    BY DEF CountsOwn
  <2>1. childCount_[x] # 0
    BY <1>6, <1>8
  <2>2. Live(x) /\ parent_[x] = "null"
    BY <2>1 DEF CountsOwn
  <2>3. QED
    BY <1>1, <1>5, <2>2
<1>12. CountsEnough' /\ CountsExact'
  BY <1>1, <1>3, <1>6, <1>8 DEF CountsEnough, CountsExact
<1>13. Covered'
  <2> SUFFICES ASSUME NEW x \in Objs, NEW b \in Addrs \ shared, Owns(x, b)
               PROVE  childCount_'[x] >= Cardinality(ViewsAt(b)')
    BY <1>1, <1>3 DEF Covered
  <2>1. x = parent_[o] => b = a
    BY <1>1, <1>2 DEF ParentIsOwner, Owns
  <2>2. childCount_[x] >= Cardinality(ViewsAt(b))
    BY DEF Covered
  <2>3. QED
    BY <1>7, <1>8, <2>1, <2>2
<1>14. ViewsHaveOwner'
  BY <1>1, <1>3, <1>7 DEF ViewsHaveOwner
<1>15. QED
  BY <1>9, <1>10, <1>11, <1>12, <1>13, <1>14

(* An owner goes only when its block has no views. *)
LEMMA DisposeOwnerView ==
  ASSUME OwnerInv, ViewInv, NEW o \in Objs, DisposeOwner(o), UNCHANGED running
  PROVE  ViewInv'
<1> USE DEF ViewInv
<1>1. /\ Types /\ DeleteWrapper(o) /\ Live(o) /\ parent_[o] = "null" /\ shared' = shared
      /\ childCount_[o] = 0 /\ childCount_' = childCount_
  BY DEF DisposeOwner, OwnerInv
<1>2. Views(o) = {}
  BY <1>1, ViewsAreFinite DEF CountsEnough
<1>3. \A x \in Objs : Live(x) => parent_[x] # o
  BY <1>2 DEF Views
<1>4. \A x \in Objs : /\ Live(x)' <=> (Live(x) /\ x # o)
                      /\ (Live(x) /\ x # o) => parent_'[x] = parent_[x] /\ data_'[x] = data_[x]
  BY <1>1, <1>3, DeleteOwns
<1>5. \A x \in Objs, b \in Addrs : Owns(x, b)' <=> (Owns(x, b) /\ x # o)
  BY <1>1, DeleteOwns
<1>6. /\ \A x \in Objs : Views(x)' = Views(x)
      /\ \A b : ViewsAt(b)' = ViewsAt(b)
  <2>1. ASSUME NEW x \in Objs PROVE Views(x)' = Views(x)
    <3>1. x # "null"
      BY MemoryAssumption
    <3>2. QED
      BY <1>1, <1>4, <3>1 DEF Views
  <2>2. ASSUME NEW b PROVE ViewsAt(b)' = ViewsAt(b)
    BY <1>1, <1>4 DEF ViewsAt
  <2>3. QED
    BY <2>1, <2>2
<1>7. ParentIsOwner' /\ ParentIsKept'
  BY <1>3, <1>4, <1>5 DEF ParentIsOwner, ParentIsKept
<1>8. CountsOwn'
  BY <1>1, <1>4 DEF CountsOwn
<1>9. CountsEnough' /\ CountsExact' /\ Covered'
  BY <1>1, <1>5, <1>6 DEF CountsEnough, CountsExact, Covered
<1>10. ViewsHaveOwner'
  <2> SUFFICES ASSUME NEW b \in Addrs \ shared, ViewsAt(b) # {}
               PROVE  \E x \in Objs : Owns(x, b)'
    BY <1>1, <1>6 DEF ViewsHaveOwner
  <2>1. PICK x \in Objs : Owns(x, b)
    BY DEF ViewsHaveOwner
  <2>2. x # o
    BY <1>1, <2>1, ViewsAreFinite DEF Covered
  <2>3. QED
    BY <1>5, <2>1, <2>2
<1>11. QED
  BY <1>1, <1>7, <1>8, <1>9, <1>10

(* In the final pass a handle that is reset takes views from a parent, and   *)
(* leaves its count.                                                         *)
LEMMA ResetView ==
  ASSUME OwnerInv, ViewInv, NEW o \in Objs, NEW gone \in BOOLEAN, ~running, ~running',
         parent_' = [x \in Objs |-> IF gone /\ parent_[x] = o THEN "reset" ELSE parent_[x]],
         UNCHANGED <<wrapper, data_, childCount_, shared>>
  PROVE  ViewInv'
<1> USE DEF ViewInv
<1>1. o # "null" /\ o # "reset" /\ Types
  BY MemoryAssumption DEF OwnerInv
<1>2. /\ \A x : Live(x)' <=> Live(x)
      /\ \A x \in Objs : parent_'[x] = "null" <=> parent_[x] = "null"
      /\ \A x \in Objs : parent_'[x] = parent_[x] \/ parent_'[x] = "reset"
  BY <1>1 DEF Live
<1>3. /\ \A b : ViewsAt(b)' = ViewsAt(b)
      /\ \A x \in Objs, b \in Addrs : Owns(x, b)' <=> Owns(x, b)
  BY <1>2 DEF ViewsAt, Owns
<1>4. ASSUME NEW x \in Objs PROVE Cardinality(Views(x)') <= Cardinality(Views(x))
  <2>1. x # "reset"
    BY MemoryAssumption
  <2>2. Views(x)' \in SUBSET Views(x)
    BY <1>2, <2>1 DEF Views
  <2>3. QED
    BY <2>2, ViewsAreFinite, FS_Subset
<1>5. CountsEnough'
  <2> SUFFICES ASSUME NEW x \in Objs PROVE childCount_[x] >= Cardinality(Views(x)')
    BY DEF CountsEnough
  <2>1. Views(x)' \in SUBSET Objs
    BY DEF Views
  <2>2. Cardinality(Views(x)') \in Nat /\ Cardinality(Views(x)) \in Nat
    BY <2>1, MemoryAssumption, FS_Subset, FS_CardinalityType, ViewsAreFinite
  <2>3. QED
    BY <1>4, <2>2 DEF CountsEnough
<1>6. ParentIsOwner'
  <2> SUFFICES ASSUME NEW v \in Objs, NEW p \in Objs, NEW a \in Addrs,
                      Live(v), parent_'[v] = p, data_[v] = a
               PROVE  Owns(p, a)
    BY <1>2, <1>3 DEF ParentIsOwner
  <2>1. p # "reset"
    BY MemoryAssumption
  <2>2. QED
    BY <1>2, <2>1 DEF ParentIsOwner
<1>7. ParentIsKept' /\ CountsOwn' /\ CountsExact' /\ Covered' /\ ViewsHaveOwner'
  BY <1>2, <1>3 DEF ParentIsKept, CountsOwn, CountsExact, Covered, ViewsHaveOwner
<1>8. QED
  BY <1>5, <1>6, <1>7

(* The handles are visited once the isolate no longer runs. *)
LEMMA NotYetStep ==
  ASSUME NotYet, [Next]_vars
  PROVE  NotYet'
<1> USE DEF NotYet
<1>1. CASE UNCHANGED isolate
  BY <1>1 DEF isolate
<1>2. CASE running' = FALSE
  BY <1>2
<1>3. ASSUME NEW o \in Objs, NEW handle, VisitStruct(o, handle) PROVE NotYet'
  BY <1>3 DEF VisitStruct
<1>4. [Next]_vars => \/ UNCHANGED isolate \/ running' = FALSE
                     \/ \E o \in Objs, handle \in {"empty", "registered"} : VisitStruct(o, handle)
  BY DEF Next, vars, NewStruct, StructOverPointer, CopyStruct, ViewField, CopyField,
         DropReference, FinalizerCallback, HandleOf, Alloc, NativeBuffer, Adopt, Free,
         VisitPointer, DestroyRuntime
<1>5. QED
  BY <1>1, <1>2, <1>3, <1>4

(* A handle that DisposerPHV visits: one of the three cases above. *)
LEMMA VisitStructView ==
  ASSUME OwnerInv, ViewInv, NotYet, NEW o \in Objs, NEW handle, VisitStruct(o, handle)
  PROVE  ViewInv'
<1>1. ~running /\ UNCHANGED running
  BY DEF VisitStruct, NotYet
<1>2. CASE DisposeView(o) \/ DisposeOwner(o)
  BY <1>1, <1>2, DisposeViewView, DisposeOwnerView
<1>3. CASE ~(DisposeView(o) \/ DisposeOwner(o))
  <2>1. PICK gone \in BOOLEAN : gone = (handle = "registered")
    OBVIOUS
  <2>2. /\ parent_' = [x \in Objs |-> IF gone /\ parent_[x] = o THEN "reset" ELSE parent_[x]]
        /\ UNCHANGED <<wrapper, data_, childCount_, shared>>
    BY <1>3, <2>1 DEF VisitStruct, blocks
  <2>3. QED
    BY <1>1, <2>2, ResetView
<1>4. QED
  BY <1>2, <1>3

(* A copy of a struct is an owner, if it gets a wrapper at all. *)
LEMMA CopyStructView ==
  ASSUME OwnerInv, ViewInv, NEW o \in Objs, NEW a \in Addrs, NEW name \in Names,
         CopyStruct(o, a, name)
  PROVE  ViewInv'
<1>1. running /\ UNCHANGED <<running, childCount_>> /\ Malloc(a)
  BY DEF CopyStruct, isolate
<1>2. CASE StructInstances[<<a, name>>] = "none"
  BY <1>1, <1>2, NewOwnerView DEF CopyStruct
<1>3. CASE StructInstances[<<a, name>>] # "none"
  <2>1. UNCHANGED <<wrapper, data_, parent_>>
    BY <1>3 DEF CopyStruct
  <2>2. \A b \in shared \ shared' : b \in Addrs => running /\ Owners(b) = {}
    BY <1>1 DEF Malloc
  <2>3. QED
    BY <1>1, <2>1, <2>2, OthersView
<1>4. QED
  BY <1>2, <1>3

(* Initially there are no views and nothing to visit. *)
LEMMA ViewInvInit == Init => ViewInv /\ NotYet
<1> SUFFICES ASSUME Init PROVE ViewInv /\ NotYet
  OBVIOUS
<1>1. \A x : ~(x \in Objs /\ Live(x))
  BY DEF Init, Live
<1>2. \A x : Views(x) = {} /\ ViewsAt(x) = {} /\ (x \in Objs => \A b : ~Owns(x, b))
  BY <1>1 DEF Views, ViewsAt, Owns
<1>3. \A x : Cardinality(Views(x)) = 0 /\ Cardinality(ViewsAt(x)) = 0
  BY <1>2, FS_EmptySet
<1>4. ParentIsOwner /\ ParentIsKept /\ CountsOwn
  BY <1>1 DEF Init, ParentIsOwner, ParentIsKept, CountsOwn
<1>5. CountsEnough /\ CountsExact /\ Covered /\ ViewsHaveOwner
  BY <1>2, <1>3 DEF Init, CountsEnough, CountsExact, Covered, ViewsHaveOwner
<1>6. QED
  BY <1>4, <1>5 DEF Init, ViewInv, NotYet

(* Every step keeps the counts and the views in agreement. *)
LEMMA ViewInvStep ==
  ASSUME OwnerInv, ViewInv, NotYet, [Next]_vars
  PROVE  ViewInv'
<1>1. ASSUME NEW o \in Objs, NEW a \in Addrs, NEW name \in Names,
             NewStruct(o, a, name) \/ StructOverPointer(o, a, name)
      PROVE  ViewInv'
  BY <1>1, NewOwnerView DEF NewStruct, StructOverPointer, isolate
<1>2. ASSUME NEW o \in Objs, NEW a \in Addrs, NEW name \in Names, CopyStruct(o, a, name)
      PROVE  ViewInv'
  BY <1>2, CopyStructView
<1>3. ASSUME NEW o \in Objs, NEW v \in Objs, ViewField(o, v) PROVE ViewInv'
  BY <1>3, ViewFieldView
<1>4. ASSUME NEW o \in Objs, NEW v \in Objs, NEW b \in Addrs, CopyField(o, v, b)
      PROVE  ViewInv'
  BY <1>4, CopyStructView DEF CopyField, Names
<1>5. ASSUME NEW o \in Objs, FinalizerCallback(o) PROVE ViewInv'
  BY <1>5, DisposeViewView, DisposeOwnerView DEF FinalizerCallback, isolate
<1>6. ASSUME NEW o \in Objs, NEW handle, VisitStruct(o, handle) PROVE ViewInv'
  BY <1>6, VisitStructView
<1>7. ASSUME NEW a \in Addrs,
             Alloc(a) \/ NativeBuffer(a) \/ Adopt(a) \/ Free(a) \/ VisitPointer(a)
      PROVE  ViewInv'
  <2>1. UNCHANGED <<wrapper, data_, parent_, childCount_, running>>
    BY <1>7 DEF Alloc, NativeBuffer, Adopt, Free, VisitPointer, structs, isolate
  <2>2. \A b \in shared \ shared' : running /\ Owners(b) = {}
    BY <1>7 DEF Alloc, NativeBuffer, Adopt, Free, VisitPointer, Malloc
  <2>3. QED
    BY <2>1, <2>2, OthersView
<1>8. ASSUME NEW o \in Objs, DropReference(o) \/ HandleOf(o) PROVE ViewInv'
  BY <1>8, OthersView DEF DropReference, HandleOf, structs, blocks, isolate
<1>9. CASE DestroyRuntime \/ UNCHANGED vars
  BY <1>9, OthersView DEF DestroyRuntime, vars, structs, blocks, isolate
<1>10. QED
  BY <1>1, <1>2, <1>3, <1>4, <1>5, <1>6, <1>7, <1>8, <1>9 DEF Next

(* ViewsKeepTheirBlock for every set of addresses and objects: in memory     *)
(* with one owner a view never looks into a freed block, and a parent counts *)
(* exactly its views while the isolate runs.                                 *)
THEOREM ViewsAreSafe == Spec => []ViewsKeepTheirBlock
<1>1. ASSUME OwnerInv, ViewInv PROVE ViewsKeepTheirBlock
  <2> SUFFICES ASSUME NEW o \in Objs, Live(o), data_[o] \notin shared
               PROVE  /\ parent_[o] # "null" => data_[o] \in allocated
                      /\ running => childCount_[o] = Cardinality(Views(o))
    BY DEF ViewsKeepTheirBlock
  <2> USE <1>1 DEF OwnerInv, ViewInv
  <2>1. PICK a \in Addrs \ shared : a = data_[o]
    BY DEF Types
  <2>2. CASE parent_[o] = "null"
    BY <2>1, <2>2 DEF CountsExact, Owns
  <2>3. CASE parent_[o] # "null"
    <3>1. o \in ViewsAt(a)
      BY <2>1, <2>3 DEF ViewsAt
    <3>2. PICK x \in Objs : Owns(x, a)
      BY <3>1 DEF ViewsHaveOwner
    <3>3. a \in allocated
      BY <3>2, OwnersAre DEF OwnedOnce
    <3>4. Views(o) = {}
      BY <2>3 DEF Views, ParentIsOwner, Owns, Types
    <3>5. childCount_[o] = 0 /\ Cardinality(Views(o)) = 0
      BY <2>3, <3>4, ViewsAreFinite DEF CountsOwn
    <3>6. QED
      BY <2>1, <2>3, <3>3, <3>5
  <2>4. QED
    BY <2>2, <2>3
<1>2. OwnerInv /\ ViewInv /\ NotYet /\ [Next]_vars => (OwnerInv /\ ViewInv /\ NotYet)'
  BY OwnerInvStep, ViewInvStep, NotYetStep
<1>3. Init => OwnerInv /\ ViewInv /\ NotYet
  BY OwnerInvInit, ViewInvInit
<1>4. QED
  BY <1>1, <1>2, <1>3, PTL DEF Spec

-----------------------------------------------------------------------------
(* The final pass.  Owners that will not free their block any more are       *)
(* structs passed over by DisposerPHV, and those had views.                  *)
CountedHadViews == ~running => \A o \in Objs : childCount_[o] > 0 => o \in hadViews

PassedOver ==
  ~running => \A o \in Objs : Live(o) /\ parent_[o] = "null" /\ toVisit[o] = {}
                                => o \in hadViews

FinalInv == CountedHadViews /\ PassedOver

(* Visiting a handle: the struct goes, or it has views and stays. *)
LEMMA VisitStructFinal ==
  ASSUME OwnerInv, ViewInv, FinalInv, ~running, NEW o \in Objs, NEW handle,
         VisitStruct(o, handle)
  PROVE  FinalInv'
<1>1. /\ toVisit' = [toVisit EXCEPT ![o] = @ \ {handle}]
      /\ ~running' /\ hadViews' = hadViews
  BY DEF VisitStruct
<1>2. /\ childCount_ \in [Objs -> Nat] /\ wrapper \in [Objs -> Names \cup {"none"}]
      /\ parent_ \in [Objs -> Objs \cup {"null", "reset"}]
  BY DEF ViewInv, OwnerInv, Types
<1>3. CASE DisposeView(o) \/ DisposeOwner(o)
  <2>1. \A x \in Objs : childCount_'[x] > 0 => childCount_[x] > 0
    BY <1>2, <1>3 DEF DisposeView, DisposeOwner
  <2>2. /\ ~Live(o)'
        /\ \A x \in Objs : x # o => Live(x)' = Live(x) /\ (parent_'[x] = "null" => parent_[x] = "null")
    BY <1>2, <1>3, Zenon DEF DisposeView, DisposeOwner, DeleteWrapper, Live
  <2>3. \A x \in Objs : x # o => toVisit'[x] = toVisit[x]
    BY <1>1
  <2>4. CountedHadViews'
    BY <1>1, <2>1 DEF FinalInv, CountedHadViews
  <2>5. PassedOver'
    BY <1>1, <2>2, <2>3 DEF FinalInv, PassedOver
  <2>6. QED
    BY <2>4, <2>5 DEF FinalInv
<1>4. CASE ~(DisposeView(o) \/ DisposeOwner(o))
  <2>1. /\ Live(o) => childCount_[o] > 0
        /\ parent_' = [x \in Objs |-> IF handle = "registered" /\ parent_[x] = o
                                      THEN "reset" ELSE parent_[x]]
        /\ UNCHANGED <<wrapper, childCount_>>
    BY <1>4 DEF VisitStruct
  <2>2. \A x \in Objs : parent_'[x] = "null" => parent_[x] = "null"
    BY <2>1
  <2>3. \A x \in Objs : x # o => toVisit'[x] = toVisit[x]
    BY <1>1
  <2>4. QED
    BY <1>1, <2>1, <2>2, <2>3 DEF FinalInv, CountedHadViews, PassedOver, Live
<1>5. QED
  BY <1>3, <1>4

(* ~Runtime notes the structs with views, and every owner has handles then. *)
LEMMA DestroyFinal ==
  ASSUME DestroyRuntime
  PROVE  FinalInv'
<1>1. CountedHadViews'
  BY DEF DestroyRuntime, CountedHadViews
<1>2. \A o \in Objs : Live(o) /\ parent_[o] = "null" => toVisit'[o] = {"empty", "registered"}
  <2>1. ASSUME NEW o \in Objs, Live(o), parent_[o] = "null"
        PROVE  (CASE ~Live(o) -> {}
                  [] Live(o) /\ parent_[o] = "null" -> {"empty", "registered"}
                  [] OTHER -> {"empty"}) = {"empty", "registered"}
    BY <2>1, Zenon
  <2>2. QED
    BY <2>1 DEF DestroyRuntime
<1>3. PassedOver'
  BY <1>2 DEF DestroyRuntime, PassedOver, Live
<1>4. QED
  BY <1>1, <1>3 DEF FinalInv

(* Every other step is one of a running isolate, or touches neither structs *)
(* nor handles.                                                             *)
LEMMA FinalInvStep ==
  ASSUME OwnerInv, ViewInv, NotYet, FinalInv, [Next]_vars
  PROVE  FinalInv'
<1>1. CASE running'
  BY <1>1 DEF FinalInv, CountedHadViews, PassedOver
<1>2. CASE DestroyRuntime
  BY <1>2, DestroyFinal
<1>3. ASSUME NEW o \in Objs, NEW handle, VisitStruct(o, handle) PROVE FinalInv'
  BY <1>3, VisitStructFinal DEF NotYet, VisitStruct
<1>4. CASE UNCHANGED <<wrapper, childCount_, parent_, isolate>>
  BY <1>4 DEF FinalInv, CountedHadViews, PassedOver, Live, isolate
<1>5. ASSUME NEW a \in Addrs, VisitPointer(a) PROVE FinalInv'
  BY <1>4, <1>5 DEF VisitPointer, structs
<1>6. CASE UNCHANGED vars
  BY <1>4, <1>6 DEF vars, structs
<1>7. CASE running /\ running' = running
  BY <1>1, <1>7
<1>8. [Next]_vars => \/ running /\ running' = running
                     \/ DestroyRuntime \/ UNCHANGED vars
                     \/ \E a \in Addrs : VisitPointer(a)
                     \/ \E o \in Objs, handle \in {"empty", "registered"} : VisitStruct(o, handle)
  BY DEF Next, isolate, NewStruct, StructOverPointer, CopyStruct, ViewField, CopyField,
         DropReference, FinalizerCallback, HandleOf, Alloc, NativeBuffer, Adopt, Free
<1>9. QED
  BY <1>2, <1>3, <1>5, <1>6, <1>7, <1>8

(* OneOwner for every set of addresses and objects: a block that was not put *)
(* under two owners is never freed twice nor after it was freed, and what    *)
(* nobody will free any more is the block of a struct that had views when    *)
(* ~Runtime began and that the final pass has passed over.                   *)
THEOREM BlocksHaveOneOwner == Spec => []OneOwner
<1>1. ASSUME OwnerInv, FinalInv PROVE OneOwner
  <2> SUFFICES ASSUME NEW a \in Addrs, a \notin shared
               PROVE  /\ Cardinality(WillFree(a)) <= 1
                      /\ WillFree(a) # {} => a \in allocated
                      /\ a \in allocated /\ WillFree(a) = {}
                           => ~running /\ \E o \in hadViews : Live(o) /\ data_[o] = a
    BY DEF OneOwner
  <2>1. IF a \in allocated THEN \E x : Owners(a) = {x} ELSE Owners(a) = {}
    BY <1>1 DEF OwnerInv, OwnedOnce
  <2>2. CASE a \notin allocated
    <3>1. WillFree(a) = {}
      BY <2>1, <2>2 DEF WillFree
    <3>2. QED
      BY <2>2, <3>1, FS_EmptySet
  <2>3. CASE a \in allocated
    <3>1. PICK x : Owners(a) = {x}
      BY <2>1, <2>3
    <3>2. WillFree(a) = {} \/ WillFree(a) = {x}
      BY <3>1 DEF WillFree
    <3>3. Cardinality(WillFree(a)) <= 1
      <4>1. CASE WillFree(a) = {}
        BY <4>1, FS_EmptySet
      <4>2. CASE WillFree(a) = {x}
        <5>1. Cardinality({x}) = 1
          BY FS_Singleton
        <5>2. QED
          BY <4>2, <5>1
      <4>3. QED
        BY <3>2, <4>1, <4>2
    <3>4. ASSUME WillFree(a) = {}
          PROVE  ~running /\ \E o \in hadViews : Live(o) /\ data_[o] = a
      <4>1. x \in Objs /\ ~running /\ toVisit[x] = {}
        BY <3>1, <3>4 DEF WillFree
      <4>2. Owns(x, a)
        BY <3>1, <4>1, OwnersAre
      <4>3. QED
        BY <1>1, <4>1, <4>2 DEF FinalInv, PassedOver, Owns
    <3>5. QED
      BY <2>3, <3>3, <3>4
  <2>4. QED
    BY <2>2, <2>3
<1>2. OwnerInv /\ ViewInv /\ NotYet /\ FinalInv /\ [Next]_vars
        => (OwnerInv /\ ViewInv /\ NotYet /\ FinalInv)'
  BY OwnerInvStep, ViewInvStep, NotYetStep, FinalInvStep
<1>3. Init => FinalInv
  BY DEF Init, FinalInv, CountedHadViews, PassedOver
<1>4. QED
  BY <1>1, <1>2, <1>3, OwnerInvInit, ViewInvInit, PTL DEF Spec

-----------------------------------------------------------------------------
(* What TypeOK says beside Types: the blocks and the Pointers have addresses *)
(* of the heap, the counts stay within their bound, and JavaScript refers    *)
(* only to objects that have a wrapper, of which handleof takes the address. *)
BlockTypes ==
  /\ allocated \subseteq Addrs /\ shared \subseteq Addrs
  /\ PointerInstances \subseteq Addrs /\ isAdopted_ \subseteq PointerInstances

CountTypes == \A o \in Objs : childCount_[o] <= MaxViews

ReachableLives == reachable \subseteq Objs /\ \A o \in reachable : Live(o)

IsolateTypes == /\ running \in BOOLEAN
                /\ toVisit \in [Objs -> SUBSET {"empty", "registered"}]
                /\ hadViews \subseteq Objs

TypesInv == BlockTypes /\ CountTypes /\ ReachableLives /\ IsolateTypes

(* malloc returns an address of the heap. *)
LEMMA MallocTypes ==
  ASSUME BlockTypes, NEW a \in Addrs, Malloc(a)
  PROVE  allocated' \subseteq Addrs /\ shared' \subseteq Addrs
BY DEF BlockTypes, Malloc

(* Every step keeps the blocks and the Pointers at addresses of the heap. *)
LEMMA BlockTypesStep ==
  ASSUME OwnerInv, BlockTypes, ReachableLives, [Next]_vars
  PROVE  BlockTypes'
<1> USE DEF BlockTypes, pointers, blocks
<1>1. ASSUME NEW o \in Objs, NEW a \in Addrs, NEW name \in Names,
             NewStruct(o, a, name) \/ CopyStruct(o, a, name)
      PROVE  BlockTypes'
  BY <1>1, MallocTypes DEF NewStruct, CopyStruct
<1>2. ASSUME NEW o \in Objs, NEW a \in Addrs, NEW name \in Names, StructOverPointer(o, a, name)
      PROVE  BlockTypes'
  BY <1>2 DEF StructOverPointer
<1>3. ASSUME NEW o \in Objs, NEW v \in Objs, NEW b \in Addrs, CopyField(o, v, b)
      PROVE  BlockTypes'
  BY <1>1, <1>3 DEF CopyField, Names
<1>4. ASSUME NEW o \in Objs, DropReference(o) \/ \E v \in Objs : ViewField(o, v)
      PROVE  BlockTypes'
  BY <1>4 DEF ViewField, DropReference
<1>5. ASSUME NEW o \in Objs, DisposeView(o) \/ DisposeOwner(o), UNCHANGED pointers
      PROVE  BlockTypes'
  BY <1>5 DEF DisposeView, DisposeOwner
<1>6. ASSUME NEW o \in Objs, FinalizerCallback(o) \/ \E handle : VisitStruct(o, handle)
      PROVE  BlockTypes'
  BY <1>5, <1>6 DEF FinalizerCallback, VisitStruct
<1>7. ASSUME NEW o \in Objs, HandleOf(o) PROVE BlockTypes'
  <2>1. data_[o] \in Addrs
    BY <1>7 DEF HandleOf, ReachableLives, OwnerInv, Types
  <2>2. QED
    BY <1>7, <2>1 DEF HandleOf, PointerTo
<1>8. ASSUME NEW a \in Addrs, Alloc(a) \/ NativeBuffer(a) PROVE BlockTypes'
  BY <1>8, MallocTypes DEF Alloc, NativeBuffer, PointerTo
<1>9. ASSUME NEW a \in Addrs, Adopt(a) \/ Free(a) \/ VisitPointer(a) PROVE BlockTypes'
  BY <1>9 DEF Adopt, Free, VisitPointer
<1>10. CASE DestroyRuntime \/ UNCHANGED vars
  BY <1>10 DEF DestroyRuntime, vars
<1>11. QED
  BY <1>1, <1>2, <1>3, <1>4, <1>6, <1>7, <1>8, <1>9, <1>10 DEF Next

(* A parent counts another view only below the bound, and one less when a    *)
(* view goes.                                                                *)
LEMMA CountTypesStep ==
  ASSUME OwnerInv, ViewInv, CountTypes, [Next]_vars
  PROVE  CountTypes'
<1>1. \A x \in Objs : childCount_[x] \in Nat /\ childCount_[x] <= MaxViews
  BY DEF ViewInv, CountTypes
<1>2. CASE UNCHANGED childCount_
  BY <1>2 DEF CountTypes
<1>3. ASSUME NEW o \in Objs, DisposeView(o) PROVE CountTypes'
  <2> SUFFICES ASSUME NEW x \in Objs PROVE childCount_'[x] <= MaxViews
    BY DEF CountTypes
  <2>1. childCount_'[x] = childCount_[x] \/ childCount_'[x] = childCount_[x] - 1
    BY <1>3 DEF DisposeView
  <2>2. QED
    BY <1>1, <2>1, MemoryAssumption
<1>4. ASSUME NEW o \in Objs, NEW v \in Objs, ViewField(o, v) PROVE CountTypes'
  <2> SUFFICES ASSUME NEW x \in Objs PROVE childCount_'[x] <= MaxViews
    BY DEF CountTypes
  <2>1. \/ childCount_'[x] = childCount_[x]
        \/ childCount_[x] < MaxViews /\ childCount_'[x] = childCount_[x] + 1
    BY <1>4 DEF ViewField, ViewInv
  <2>2. QED
    BY <1>1, <2>1, MemoryAssumption
<1>5. [Next]_vars => \/ UNCHANGED childCount_
                     \/ \E o \in Objs : DisposeView(o) \/ \E v \in Objs : ViewField(o, v)
  BY DEF Next, vars, structs, NewStruct, StructOverPointer, CopyStruct, CopyField,
         DropReference, FinalizerCallback, DisposeOwner, HandleOf, Alloc, NativeBuffer,
         Adopt, Free, VisitStruct, VisitPointer, DestroyRuntime
<1>6. QED
  BY <1>2, <1>3, <1>4, <1>5

(* An object that is given out is new, or the owner StructInstances has; the *)
(* finalizer deletes the wrapper of an object nobody refers to, and in the   *)
(* final pass nothing is reachable any more.                                 *)
LEMMA ReachableLivesStep ==
  ASSUME OwnerInv, ReachableLives, [Next]_vars
  PROVE  ReachableLives'
<1> USE DEF ReachableLives
<1>1. ASSUME NEW o \in Objs, NEW a, NEW name \in Names, NEW parent,
             Wrap(o, a, name, parent)
      PROVE  ReachableLives'
  BY <1>1 DEF Wrap, Live, Names, OwnerInv, Types
<1>2. ASSUME NEW a \in Addrs, NEW name \in Names, StructInstances[<<a, name>>] # "none",
             reachable' = reachable \cup {StructInstances[<<a, name>>]},
             UNCHANGED wrapper
      PROVE  ReachableLives'
  <2>1. PICK w \in Objs : w = StructInstances[<<a, name>>]
    BY <1>2 DEF OwnerInv, Types
  <2>2. Live(w)
    BY <2>1 DEF OwnerInv, EntryIsOwner, Owns
  <2>3. QED
    BY <1>2, <2>1, <2>2 DEF Live
<1>3. ASSUME NEW o \in Objs, NEW a \in Addrs, NEW name \in Names,
             \/ NewStruct(o, a, name) \/ StructOverPointer(o, a, name)
             \/ CopyStruct(o, a, name)
      PROVE  ReachableLives'
  BY <1>1, <1>2, <1>3 DEF NewStruct, StructOverPointer, CopyStruct
<1>4. ASSUME NEW o \in Objs, NEW v \in Objs, NEW b \in Addrs, CopyField(o, v, b)
      PROVE  ReachableLives'
  BY <1>3, <1>4 DEF CopyField, Names
<1>5. ASSUME NEW p \in Objs, NEW v \in Objs, ViewField(p, v) PROVE ReachableLives'
  <2>1. data_[p] \in Addrs /\ "Inner" \in Names
    BY <1>5 DEF ViewField, OwnerInv, Types, Names
  <2>2. QED
    BY <1>1, <1>2, <1>5, <2>1 DEF ViewField
<1>6. ASSUME NEW o \in Objs, DisposeView(o) \/ DisposeOwner(o) PROVE ReachableLives'
  BY <1>6, DeleteOwns DEF DisposeView, DisposeOwner, DeleteWrapper, OwnerInv
<1>7. CASE UNCHANGED wrapper /\ reachable' \subseteq reachable
  BY <1>7 DEF Live
<1>8. ASSUME NEW o \in Objs, FinalizerCallback(o) \/ \E handle : VisitStruct(o, handle)
      PROVE  ReachableLives'
  BY <1>6, <1>7, <1>8 DEF FinalizerCallback, VisitStruct
<1>9. ASSUME NEW a \in Addrs,
             Alloc(a) \/ NativeBuffer(a) \/ Adopt(a) \/ Free(a) \/ VisitPointer(a)
      PROVE  ReachableLives'
  BY <1>7, <1>9 DEF Alloc, NativeBuffer, Adopt, Free, VisitPointer, structs
<1>10. ASSUME NEW o \in Objs, DropReference(o) \/ HandleOf(o) PROVE ReachableLives'
  BY <1>7, <1>10 DEF DropReference, HandleOf, structs
<1>11. CASE DestroyRuntime \/ UNCHANGED vars
  BY <1>7, <1>11 DEF DestroyRuntime, vars, structs
<1>12. QED
  BY <1>3, <1>4, <1>5, <1>8, <1>9, <1>10, <1>11 DEF Next

(* The handles that ~Runtime finds are visited one by one. *)
LEMMA IsolateTypesStep ==
  ASSUME IsolateTypes, [Next]_vars
  PROVE  IsolateTypes'
<1> USE DEF IsolateTypes
<1>1. CASE UNCHANGED isolate
  BY <1>1 DEF isolate
<1>2. CASE DestroyRuntime
  <2>1. \A o \in Objs : (CASE ~Live(o) -> {}
                           [] Live(o) /\ parent_[o] = "null" -> {"empty", "registered"}
                           [] OTHER -> {"empty"}) \in SUBSET {"empty", "registered"}
    BY Zenon
  <2>2. QED
    BY <1>2, <2>1 DEF DestroyRuntime
<1>3. ASSUME NEW o \in Objs, NEW handle, VisitStruct(o, handle) PROVE IsolateTypes'
  BY <1>3 DEF VisitStruct
<1>4. [Next]_vars => \/ UNCHANGED isolate \/ DestroyRuntime
                     \/ \E o \in Objs, handle \in {"empty", "registered"} : VisitStruct(o, handle)
  BY DEF Next, vars, NewStruct, StructOverPointer, CopyStruct, ViewField, CopyField,
         DropReference, FinalizerCallback, HandleOf, Alloc, NativeBuffer, Adopt, Free,
         VisitPointer
<1>5. QED
  BY <1>1, <1>2, <1>3, <1>4

(* TypeOK for every set of addresses and objects: a view's parent never      *)
(* counts below zero or above the bound, the block that handleof makes a     *)
(* Pointer for is one that malloc returned, and JavaScript never holds an    *)
(* object whose wrapper DisposeValue has deleted.                            *)
THEOREM MemoryTypes == Spec => []TypeOK
<1>1. ASSUME OwnerInv, ViewInv, TypesInv PROVE TypeOK
  <2> USE <1>1 DEF OwnerInv, Types, TypesInv
  <2>1. childCount_ \in [Objs -> 0..MaxViews]
    BY MemoryAssumption DEF ViewInv, CountTypes
  <2>2. reachable \in SUBSET {o \in Objs : wrapper[o] # "none"}
    BY DEF ReachableLives, Live
  <2>3. QED
    BY <2>1, <2>2 DEF TypeOK, BlockTypes, IsolateTypes
<1>2. ASSUME Init PROVE TypesInv
  BY <1>2, MemoryAssumption
     DEF Init, TypesInv, BlockTypes, CountTypes, ReachableLives, IsolateTypes
<1>3. OwnerInv /\ ViewInv /\ NotYet /\ TypesInv /\ [Next]_vars
        => (OwnerInv /\ ViewInv /\ NotYet /\ TypesInv)'
  BY OwnerInvStep, ViewInvStep, NotYetStep, BlockTypesStep, CountTypesStep,
     ReachableLivesStep, IsolateTypesStep DEF TypesInv
<1>4. Init => OwnerInv /\ ViewInv /\ NotYet /\ TypesInv
  BY <1>2, OwnerInvInit, ViewInvInit
<1>5. QED
  BY <1>1, <1>3, <1>4, PTL DEF Spec

=============================================================================
