------------------------- MODULE HttpModulesProofs -------------------------
(***************************************************************************)
(* Proofs about HttpModules, for any URLs, imports and numbers of modules  *)
(* and calls: a URL is in flight exactly while one call or one reaction    *)
(* owns it, at most one module of a URL is ever evaluated, a promise is    *)
(* settled once and resolved only with a module that has run, and the      *)
(* state stays well typed.                                                 *)
(*                                                                         *)
(* Three structures carry the argument.  The registry and V8's modules     *)
(* belong together (Paired): a module that is linked, running or done is   *)
(* the entry of its URL.  The stack is a pile of import() calls, each with *)
(* the modules its evaluation has entered and not finished (Evaluations).  *)
(* And every promise that is pending is answered from one place (Holders)  *)
(* and forgotten by none (Remembered).                                     *)
(***************************************************************************)
EXTENDS HttpModules, FiniteSetTheorems, SequenceTheorems, TLAPS

Active == {"linked", "evaluating", "async", "evaluated"}
Kind == {"import", "module"}
How == {"cached", "fetched", "file"}

ModuleOf(n) == [key : Keys, status : Status, deps : SUBSET (1..n), waits : BOOLEAN]
Frame == [kind : Kind, module : Nat, phase : How \cup {"deps", "body"}, key : Keys,
          promise : Nat, entered : Seq(Nat)]
Job == [how : How, key : Keys, module : Nat, promise : Nat]
PromiseRecord == [key : Keys, state : {"pending", "resolved", "rejected"}, module : Nat]

(* A registry and the modules it names. *)
Paired(reg, ms) ==
  /\ ms \in Seq(ModuleOf(Len(ms)))
  /\ reg \in [Keys -> 0..Len(ms)]
  /\ \A k \in Keys : reg[k] # None => ms[reg[k]].key = k
  /\ \A m \in 1..Len(ms) :
       ms[m].status \in Active /\ ms[m].key \notin SfcBase => reg[ms[m].key] = m

Shapes ==
  /\ inFlight \subseteq Keys
  /\ waiters \in [Keys -> SUBSET (1..Len(promises))]
  /\ promises \in Seq(PromiseRecord)
  /\ stack \in Seq(Frame)
  /\ jobs \subseteq Job
  /\ aborted \in BOOLEAN
  /\ \A i \in 1..Len(stack) : stack[i].module \in 1..Len(mods)
  /\ \A j \in jobs : j.module \in 1..Len(mods)

IsImport(i) == i \in 1..Len(stack) /\ stack[i].kind = "import"

(* Frame i evaluates a module for the import() call at c. *)
Within(c, i) == /\ IsImport(c) /\ i \in c + 1 .. Len(stack)
                /\ \A j \in c + 1 .. i : stack[j].kind = "module"

(* The stack is import() calls with evaluations on top of them; a call is made by *)
(* the code of a module.                                                          *)
Pile ==
  /\ \A i \in 1..Len(stack) : stack[i].kind = "module" => \E c \in 1..Len(stack) : Within(c, i)
  /\ \A i \in 1..Len(stack) : IsImport(i) => stack[i].phase \in How
  /\ \A i \in 1..Len(stack) : IsImport(i) /\ i > 1 => stack[i - 1].kind = "module"

(* The calls whose evaluation is under way. *)
UnderEvaluation(c) == IsImport(c) /\ c < Len(stack)

(* What an evaluation has entered is being evaluated by nobody else. *)
EnteredOnce ==
  /\ \A c \in 1..Len(stack) : UnderEvaluation(c) =>
       \A a \in 1..Len(stack[c].entered) :
         /\ stack[c].entered[a] \in 1..Len(mods)
         /\ mods[stack[c].entered[a]].status = "evaluating"
  /\ \A c, d \in 1..Len(stack) : UnderEvaluation(c) /\ UnderEvaluation(d) =>
       \A a \in 1..Len(stack[c].entered), b \in 1..Len(stack[d].entered) :
         stack[c].entered[a] = stack[d].entered[b] => c = d /\ a = b

(* The modules on the stack were entered in the order they are on it. *)
EnteredInOrder ==
  /\ \A c, i \in 1..Len(stack) : Within(c, i) =>
       \E a \in 1..Len(stack[c].entered) : stack[c].entered[a] = stack[i].module
  /\ \A c, i, j \in 1..Len(stack) : Within(c, i) /\ Within(c, j) /\ i < j =>
       \A a, b \in 1..Len(stack[c].entered) :
         stack[c].entered[a] = stack[i].module /\ stack[c].entered[b] = stack[j].module
           => a < b

Evaluations == Pile /\ EnteredOnce /\ EnteredInOrder

FrameOwns(i, k) == IsImport(i) /\ stack[i].key = k /\ stack[i].phase # "file"
JobOwns(j, k) == j \in jobs /\ j.key = k /\ j.how # "file"

(* A URL in flight has one owner, a call or a reaction. *)
Flight ==
  \A k \in Keys :
    /\ ~aborted => (k \in inFlight <=> \/ \E i \in 1..Len(stack) : FrameOwns(i, k)
                                       \/ \E j \in jobs : JobOwns(j, k))
    /\ waiters[k] # {} => k \in inFlight
    /\ \A i, l \in 1..Len(stack) : FrameOwns(i, k) /\ FrameOwns(l, k) => i = l
    /\ \A j, l \in jobs : JobOwns(j, k) /\ JobOwns(l, k) => j = l
    /\ \A i \in 1..Len(stack), j \in jobs : ~(FrameOwns(i, k) /\ JobOwns(j, k))

(* A promise that somebody is going to settle is pending, and if two are, they *)
(* are the owner of a URL and the list of its waiters.                         *)
Holders ==
  /\ \A i \in 1..Len(stack) : IsImport(i) => Pending(stack[i].promise)
  /\ \A j \in jobs : Pending(j.promise)
  /\ \A k \in Keys : \A p \in waiters[k] : Pending(p)
  /\ \A i, l \in 1..Len(stack) :
       IsImport(i) /\ IsImport(l) /\ stack[i].promise = stack[l].promise => i = l
  /\ \A j, l \in jobs : j.promise = l.promise => j = l
  /\ \A i \in 1..Len(stack), j \in jobs : IsImport(i) => stack[i].promise # j.promise
  /\ \A k, l \in Keys : k # l => waiters[k] \cap waiters[l] = {}
  /\ \A k \in Keys, i \in 1..Len(stack) :
       IsImport(i) /\ stack[i].promise \in waiters[k] => FrameOwns(i, k)
  /\ \A k \in Keys, j \in jobs : j.promise \in waiters[k] => JobOwns(j, k)

IInv == Paired(registry, mods) /\ Shapes /\ Evaluations /\ Flight /\ Holders

-----------------------------------------------------------------------------
(* What Evaluations says of the modules that were entered. *)

(* They are being evaluated. *)
LEMMA EvaluatingOf ==
  ASSUME Evaluations, NEW c \in 1..Len(stack), UnderEvaluation(c),
         NEW a \in 1..Len(stack[c].entered)
  PROVE  /\ stack[c].entered[a] \in 1..Len(mods)
         /\ mods[stack[c].entered[a]].status = "evaluating"
BY DEF Evaluations, EnteredOnce

(* No module is entered twice. *)
LEMMA OnceOf ==
  ASSUME Evaluations, NEW c \in 1..Len(stack), NEW d \in 1..Len(stack),
         UnderEvaluation(c), UnderEvaluation(d),
         NEW a \in 1..Len(stack[c].entered), NEW b \in 1..Len(stack[d].entered),
         stack[c].entered[a] = stack[d].entered[b]
  PROVE  c = d /\ a = b
BY DEF Evaluations, EnteredOnce

(* A module above another on the stack was entered after it. *)
LEMMA OrderOf ==
  ASSUME Evaluations, NEW c \in 1..Len(stack), NEW i \in 1..Len(stack), NEW j \in 1..Len(stack),
         Within(c, i), Within(c, j), i < j,
         NEW a \in 1..Len(stack[c].entered), NEW b \in 1..Len(stack[c].entered),
         stack[c].entered[a] = stack[i].module, stack[c].entered[b] = stack[j].module
  PROVE  a < b
BY DEF Evaluations, EnteredInOrder

-----------------------------------------------------------------------------
(* Registering modules. *)

(* SetToSeq lists a finite set without repetition. *)
LEMMA SetToSeqLists ==
  ASSUME NEW S, IsFiniteSet(S)
  PROVE  /\ Cardinality(S) \in Nat
         /\ SetToSeq(S) \in [1..Cardinality(S) -> S]
         /\ \A x \in S : \E i \in 1..Cardinality(S) : SetToSeq(S)[i] = x
         /\ \A i, j \in 1..Cardinality(S) : SetToSeq(S)[i] = SetToSeq(S)[j] => i = j
<1> DEFINE n == Cardinality(S)
<1>1. n \in Nat /\ ExistsBijection(1..n, S)
  BY FS_CardinalityType
<1>2. \E f \in [1..n -> S] : IsInjective(f)
  BY <1>1 DEF ExistsBijection, Bijection, Injection
<1>3. SetToSeq(S) \in [1..n -> S] /\ IsInjective(SetToSeq(S))
  BY <1>2, Zenon DEF SetToSeq
<1>4. SetToSeq(S) \in Injection(1..n, S)
  BY <1>3 DEF Injection
<1>5. Cardinality(1..n) = n
  BY <1>1, FS_Interval
<1>6. SetToSeq(S) \in Surjection(1..n, S)
  BY <1>4, <1>5, FS_Injection
<1>7. \A x \in S : \E i \in 1..n : SetToSeq(S)[i] = x
  BY <1>6 DEF Surjection
<1>8. \A i, j \in 1..n : SetToSeq(S)[i] = SetToSeq(S)[j] => i = j
  BY <1>3 DEF IsInjective
<1>9. QED
  BY <1>1, <1>3, <1>7, <1>8

(* The records of freshly compiled modules. *)
Compiled(k) == [key |-> k, status |-> "compiled", deps |-> {}, waits |-> FALSE]

(* What Register returns: the old modules, then one compiled module for each URL. *)
Registered(reg, ms, ks, r) ==
  /\ Len(ms) \in Nat /\ Len(r.ms) \in Nat /\ Len(r.ms) >= Len(ms)
  /\ r.ms \in Seq(ModuleOf(Len(r.ms)))
  /\ \A m \in 1..Len(ms) : r.ms[m] = ms[m]
  /\ \A m \in Len(ms) + 1 .. Len(r.ms) : \E k \in ks : r.ms[m] = Compiled(k)
  /\ \A k \in ks : /\ r.reg[k] \in Len(ms) + 1 .. Len(r.ms)
                   /\ r.ms[r.reg[k]] = Compiled(k)
  /\ \A k \in Keys \ ks : r.reg[k] = reg[k]
  /\ DOMAIN r.reg = Keys /\ r.reg = [k \in Keys |-> r.reg[k]]

(* Register returns that. *)
LEMMA RegisterResult ==
  ASSUME NEW reg, NEW ms, NEW ks \in SUBSET Keys, ms \in Seq(ModuleOf(Len(ms)))
  PROVE  Registered(reg, ms, ks, Register(reg, ms, ks))
<1> DEFINE r == Register(reg, ms, ks)
           order == SetToSeq(ks)
           n == Cardinality(ks)
           number(k) == Len(ms) + CHOOSE i \in DOMAIN order : order[i] = k
           new == [i \in DOMAIN order |-> Compiled(order[i])]
<1>1. IsFiniteSet(ks)
  BY FS_Subset, HttpModulesAssumption
<1>2. /\ n \in Nat /\ order \in [1..n -> ks] /\ DOMAIN order = 1..n
      /\ \A k \in ks : \E i \in 1..n : order[i] = k
  BY <1>1, SetToSeqLists
<1>3. Len(ms) \in Nat
  OBVIOUS
<1>4. r.reg = [k \in Keys |-> IF k \in ks THEN number(k) ELSE reg[k]] /\ r.ms = ms \o new
  BY DEF Register, Compiled
<1> HIDE DEF r, number
<1>5. new \in Seq(ModuleOf(Len(ms) + n)) /\ Len(new) = n /\ \A i \in 1..n : new[i] = Compiled(order[i])
  <2>1. \A i \in 1..n : Compiled(order[i]) \in ModuleOf(Len(ms) + n)
    BY <1>2 DEF Compiled, ModuleOf, Status
  <2>2. DOMAIN new = 1..n /\ \A i \in 1..n : new[i] = Compiled(order[i])
    BY <1>2
  <2>3. new \in [1..n -> ModuleOf(Len(ms) + n)]
    BY <2>1, <1>2
  <2>4. QED
    BY <2>2, <2>3, <1>2
<1>6. ms \in Seq(ModuleOf(Len(ms) + n))
  <2>1. ModuleOf(Len(ms)) \subseteq ModuleOf(Len(ms) + n)
    <3>1. 1..Len(ms) \subseteq 1..(Len(ms) + n)
      BY <1>2, <1>3
    <3>2. SUBSET (1..Len(ms)) \subseteq SUBSET (1..(Len(ms) + n))
      BY <3>1
    <3>3. QED
      BY <3>2 DEF ModuleOf
  <2>2. QED
    BY <2>1
<1>7. /\ ms \o new \in Seq(ModuleOf(Len(ms) + n)) /\ Len(ms \o new) = Len(ms) + n
      /\ \A i \in 1..Len(ms) + n : (ms \o new)[i] = IF i <= Len(ms) THEN ms[i] ELSE new[i - Len(ms)]
  BY <1>5, <1>6, ConcatProperties
<1>8. /\ Len(r.ms) = Len(ms) + n
      /\ \A m \in 1..Len(ms) : r.ms[m] = ms[m]
      /\ \A i \in 1..n : r.ms[Len(ms) + i] = Compiled(order[i])
  BY <1>2, <1>3, <1>4, <1>5, <1>7
<1>9. \A k \in ks : \E i \in 1..n : number(k) = Len(ms) + i /\ order[i] = k
  BY <1>2 DEF number
<1>10. \A k \in ks : /\ r.reg[k] \in Len(ms) + 1 .. Len(r.ms) /\ r.ms[r.reg[k]] = Compiled(k)
  <2> SUFFICES ASSUME NEW k \in ks
               PROVE  r.reg[k] \in Len(ms) + 1 .. Len(r.ms) /\ r.ms[r.reg[k]] = Compiled(k)
    OBVIOUS
  <2>1. PICK i \in 1..n : number(k) = Len(ms) + i /\ order[i] = k
    BY <1>9
  <2>2. r.reg[k] = Len(ms) + i
    BY <1>4, <2>1
  <2>3. QED
    BY <2>1, <2>2, <1>2, <1>3, <1>8
<1>11. \A m \in Len(ms) + 1 .. Len(r.ms) : \E k \in ks : r.ms[m] = Compiled(k)
  <2> SUFFICES ASSUME NEW m \in Len(ms) + 1 .. Len(r.ms) PROVE \E k \in ks : r.ms[m] = Compiled(k)
    OBVIOUS
  <2>1. m - Len(ms) \in 1..n /\ Len(ms) + (m - Len(ms)) = m
    BY <1>2, <1>3, <1>8
  <2>2. r.ms[m] = Compiled(order[m - Len(ms)]) /\ order[m - Len(ms)] \in ks
    BY <2>1, <1>2, <1>8
  <2>3. QED
    BY <2>2
<1>12. \A k \in Keys \ ks : r.reg[k] = reg[k]
  BY <1>4
<1>13. DOMAIN r.reg = Keys /\ r.reg = [k \in Keys |-> r.reg[k]]
  BY <1>4
<1>14. Len(r.ms) \in Nat /\ Len(r.ms) >= Len(ms) /\ r.ms \in Seq(ModuleOf(Len(r.ms)))
  BY <1>2, <1>3, <1>4, <1>7, <1>8
<1>15. QED
  BY <1>3, <1>8, <1>10, <1>11, <1>12, <1>13, <1>14 DEF Registered, r

(* The fields of a freshly compiled module. *)
LEMMA CompiledFields ==
  \A k : /\ Compiled(k).key = k /\ Compiled(k).status = "compiled"
         /\ Compiled(k).deps = {} /\ Compiled(k).status \notin Active
BY DEF Compiled, Active

(* y is the record of module x with a new status. *)
Restatus(n, x, y, s) == y \in ModuleOf(n) /\ y.status = s /\ y.key = x.key

(* Records of modules stay such records. *)
LEMMA LinkedModule ==
  ASSUME NEW n, NEW x \in ModuleOf(n), NEW deps \in SUBSET (1..n)
  PROVE  Restatus(n, x, [x EXCEPT !.status = "linked", !.deps = deps], "linked")
BY DEF Restatus, ModuleOf, Status

(* The same for a change of the status, of the await, and of both. *)
LEMMA ModuleUpdates ==
  ASSUME NEW n, NEW x \in ModuleOf(n), NEW s \in Status, NEW w \in BOOLEAN
  PROVE  /\ Restatus(n, x, [x EXCEPT !.status = s, !.waits = w], s)
         /\ Restatus(n, x, [x EXCEPT !.status = s], s)
         /\ Restatus(n, x, [x EXCEPT !.waits = w], x.status)
BY DEF Restatus, ModuleOf

(* What Paired says of one module and of one entry. *)
LEMMA PairedFacts ==
  ASSUME NEW reg, NEW ms, Paired(reg, ms)
  PROVE  /\ Len(ms) \in Nat /\ DOMAIN ms = 1..Len(ms)
         /\ \A m \in 1..Len(ms) :
              /\ ms[m] \in ModuleOf(Len(ms)) /\ ms[m].key \in Keys
              /\ ms[m].status \in Status /\ ms[m].deps \subseteq 1..Len(ms)
              /\ ms[m].waits \in BOOLEAN
         /\ \A k \in Keys : /\ reg[k] \in 0..Len(ms)
                            /\ reg[k] # None => reg[k] \in 1..Len(ms)
                            /\ reg[k] # None => ms[reg[k]].key = k
         /\ \A m \in 1..Len(ms) :
              ms[m].status \in Active /\ ms[m].key \notin SfcBase
                => reg[ms[m].key] = m /\ m # None
<1>1. /\ ms \in Seq(ModuleOf(Len(ms))) /\ reg \in [Keys -> 0..Len(ms)]
      /\ \A k \in Keys : reg[k] # None => ms[reg[k]].key = k
      /\ \A m \in 1..Len(ms) :
           ms[m].status \in Active /\ ms[m].key \notin SfcBase => reg[ms[m].key] = m
  BY DEF Paired
<1>2. Len(ms) \in Nat /\ DOMAIN ms = 1..Len(ms)
  BY <1>1
<1>3. ASSUME NEW m \in 1..Len(ms)
      PROVE  /\ ms[m] \in ModuleOf(Len(ms)) /\ ms[m].key \in Keys
             /\ ms[m].status \in Status /\ ms[m].deps \subseteq 1..Len(ms)
             /\ ms[m].waits \in BOOLEAN
  <2>1. ms[m] \in ModuleOf(Len(ms))
    BY <1>1, <1>2, ElementOfSeq
  <2>2. QED
    BY <2>1 DEF ModuleOf
<1>4. \A k \in Keys : reg[k] \in 0..Len(ms) /\ (reg[k] # None => reg[k] \in 1..Len(ms))
  BY <1>1, <1>2 DEF None
<1>5. \A m \in 1..Len(ms) : m # None
  BY <1>2 DEF None
<1>6. QED
  BY <1>1, <1>2, <1>3, <1>4, <1>5

(* The modules of ms2 are those of ms1, some compiled ones linked since, and *)
(* perhaps more.                                                             *)
Extends(ms1, ms2) ==
  /\ Len(ms1) \in Nat /\ Len(ms2) \in Nat /\ Len(ms1) <= Len(ms2)
  /\ \A m \in 1..Len(ms1) :
       /\ ms2[m].key = ms1[m].key
       /\ \/ ms2[m].status = ms1[m].status
          \/ ms1[m].status = "compiled" /\ ms2[m].status = "linked"

(* URLs that have to be fetched can be registered: no module that runs loses its *)
(* entry.                                                                        *)
LEMMA RegisterPairs ==
  ASSUME NEW reg, NEW ms, Paired(reg, ms), NEW ks \in SUBSET NeedsFetch(reg, ms)
  PROVE  LET r == Register(reg, ms, ks) IN Paired(r.reg, r.ms) /\ Extends(ms, r.ms)
<1> DEFINE r == Register(reg, ms, ks)
<1>1. ks \in SUBSET Keys /\ ms \in Seq(ModuleOf(Len(ms)))
  BY DEF NeedsFetch, Paired
<1>2. /\ Len(ms) \in Nat /\ Len(r.ms) \in Nat /\ Len(r.ms) >= Len(ms)
      /\ r.ms \in Seq(ModuleOf(Len(r.ms)))
      /\ \A m \in 1..Len(ms) : r.ms[m] = ms[m]
      /\ \A m \in Len(ms) + 1 .. Len(r.ms) : \E k \in ks : r.ms[m] = Compiled(k)
      /\ \A k \in ks : r.reg[k] \in Len(ms) + 1 .. Len(r.ms) /\ r.ms[r.reg[k]] = Compiled(k)
      /\ \A k \in Keys \ ks : r.reg[k] = reg[k]
      /\ DOMAIN r.reg = Keys /\ r.reg = [k \in Keys |-> r.reg[k]]
  <2>1. Registered(reg, ms, ks, r)
    BY <1>1, RegisterResult
  <2>2. QED
    BY <2>1 DEF Registered
<1>a. /\ \A m \in 1..Len(ms) : ms[m].key \in Keys
      /\ \A k \in Keys : /\ reg[k] \in 0..Len(ms)
                         /\ reg[k] # None => reg[k] \in 1..Len(ms)
                         /\ reg[k] # None => ms[reg[k]].key = k
      /\ \A m \in 1..Len(ms) :
           ms[m].status \in Active /\ ms[m].key \notin SfcBase
             => reg[ms[m].key] = m /\ m # None
  BY PairedFacts
<1> HIDE DEF r
<1>3. r.reg \in [Keys -> 0..Len(r.ms)]
  <2>1. \A k \in Keys : r.reg[k] \in 0..Len(r.ms)
    <3> SUFFICES ASSUME NEW k \in Keys PROVE r.reg[k] \in 0..Len(r.ms)
      OBVIOUS
    <3>1. CASE k \in ks
      <4>1. r.reg[k] \in Len(ms) + 1 .. Len(r.ms)
        BY <1>2, <3>1
      <4>2. QED
        BY <4>1, <1>2
    <3>2. CASE k \notin ks
      <4>1. r.reg[k] = reg[k] /\ reg[k] \in 0..Len(ms)
        BY <1>2, <1>a, <3>2
      <4>2. QED
        BY <4>1, <1>2
    <3>3. QED
      BY <3>1, <3>2
  <2>2. QED
    BY <2>1, <1>2
<1>4. \A k \in Keys : r.reg[k] # None => r.ms[r.reg[k]].key = k
  <2> SUFFICES ASSUME NEW k \in Keys, r.reg[k] # None PROVE r.ms[r.reg[k]].key = k
    OBVIOUS
  <2>1. CASE k \in ks
    <3>1. r.ms[r.reg[k]] = Compiled(k)
      BY <1>2, <2>1
    <3>2. QED
      BY <3>1, CompiledFields
  <2>2. CASE k \notin ks
    <3>1. r.reg[k] = reg[k] /\ reg[k] \in 1..Len(ms)
      BY <1>2, <1>a, <2>2
    <3>2. QED
      BY <3>1, <1>2, <1>a
  <2>3. QED
    BY <2>1, <2>2
<1>5. ASSUME NEW m \in 1..Len(r.ms), r.ms[m].status \in Active, r.ms[m].key \notin SfcBase
      PROVE  r.reg[r.ms[m].key] = m
  <2>1. m \in 1..Len(ms)
    <3>1. \A k : Compiled(k).status \notin Active
      BY CompiledFields
    <3>2. m \notin Len(ms) + 1 .. Len(r.ms)
      BY <3>1, <1>2, <1>5
    <3>3. QED
      BY <3>2, <1>2
  <2>2. r.ms[m] = ms[m] /\ reg[ms[m].key] = m /\ ms[m].key \in Keys
    BY <2>1, <1>2, <1>5, <1>a
  <2>3. ms[m].key \notin ks
    <3>1. m # None /\ ms[m].status # "errored"
      BY <2>1, <2>2, <1>2, <1>5, <1>a DEF Active
    <3>2. QED
      BY <3>1, <2>2 DEF NeedsFetch
  <2>4. QED
    BY <2>2, <2>3, <1>2
<1>6. Extends(ms, r.ms)
  BY <1>2 DEF Extends
<1>7. QED
  BY <1>2, <1>3, <1>4, <1>5, <1>6 DEF Paired, r

(* An entry can be dropped when its module does not run. *)
LEMMA DropPairs ==
  ASSUME NEW reg, NEW ms, Paired(reg, ms), NEW k \in Keys,
         \/ k \in SfcBase
         \/ reg[k] = None
         \/ ms[reg[k]].status \in {"errored", "compiled"}
  PROVE  Paired([reg EXCEPT ![k] = None], ms)
<1> DEFINE r == [reg EXCEPT ![k] = None]
<1>1. Len(ms) \in Nat
  BY DEF Paired
<1>2. r \in [Keys -> 0..Len(ms)] /\ r[k] = None /\ \A x \in Keys \ {k} : r[x] = reg[x]
  BY <1>1 DEF Paired, None
<1>3. \A x \in Keys : r[x] # None => ms[r[x]].key = x
  BY <1>2 DEF Paired
<1>4. ASSUME NEW m \in 1..Len(ms), ms[m].status \in Active, ms[m].key \notin SfcBase
      PROVE  r[ms[m].key] = m
  <2>1. ms[m].key \in Keys /\ reg[ms[m].key] = m
    BY <1>4, PairedFacts
  <2>2. ms[m].key # k
    <3>1. m # None /\ ms[m].status \notin {"errored", "compiled"}
      BY <1>4, <1>1 DEF Active, None
    <3>2. QED
      BY <3>1, <2>1, <1>4
  <2>3. QED
    BY <2>1, <2>2, <1>2
<1>5. QED
  BY <1>2, <1>3, <1>4 DEF Paired

(* The statuses of modules may change, as long as the ones that come to run are *)
(* the entries of their URLs.                                                   *)
LEMMA RestatusPairs ==
  ASSUME NEW reg, NEW ms, NEW ms2, Paired(reg, ms), ms2 \in Seq(ModuleOf(Len(ms))),
         Len(ms2) = Len(ms),
         \A m \in 1..Len(ms) :
           /\ ms2[m].key = ms[m].key
           /\ ms2[m].status \in Active => ms[m].status \in Active \/ reg[ms[m].key] = m
  PROVE  Paired(reg, ms2)
<1>1. Len(ms) \in Nat
  BY DEF Paired
<1>2. \A k \in Keys : reg[k] # None => ms2[reg[k]].key = k
  <2> SUFFICES ASSUME NEW k \in Keys, reg[k] # None PROVE ms2[reg[k]].key = k
    OBVIOUS
  <2>1. reg[k] \in 1..Len(ms)
    BY <1>1 DEF Paired, None
  <2>2. QED
    BY <2>1 DEF Paired
<1>3. \A m \in 1..Len(ms2) :
        ms2[m].status \in Active /\ ms2[m].key \notin SfcBase => reg[ms2[m].key] = m
  BY DEF Paired
<1>4. QED
  BY <1>2, <1>3 DEF Paired

(* Every URL that V8 asks for is there after linking, and the ones imported by a *)
(* URL it follows are asked for.                                                 *)
LEMMA AskedFollows ==
  ASSUME NEW root \in Keys, NEW through
  PROVE  /\ root \in Asked(root, through)
         /\ Asked(root, through) \subseteq Keys
         /\ \A k \in Asked(root, through) \cap through :
              Imports[k] \subseteq Asked(root, through)
<1>1. root \in Asked(root, through) /\ Asked(root, through) \subseteq Keys
  BY DEF Asked
<1>2. ASSUME NEW k \in Asked(root, through) \cap through, NEW d \in Imports[k]
      PROVE  d \in Asked(root, through)
  <2>1. k \in Keys /\ d \in Keys
    BY <1>1, HttpModulesAssumption
  <2>2. ASSUME NEW urls \in SUBSET Keys, root \in urls, Follows(urls, through)
        PROVE  d \in urls
    <3>1. k \in urls
      BY <2>2 DEF Asked
    <3>2. QED
      BY <3>1, <2>2 DEF Follows
  <2>3. QED
    BY <2>1, <2>2 DEF Asked
<1>3. QED
  BY <1>1, <1>2

(* Extends is transitive. *)
LEMMA ExtendsTwice ==
  ASSUME NEW a, NEW b, NEW c, Extends(a, b), Extends(b, c)
  PROVE  Extends(a, c)
<1>1. /\ Len(a) \in Nat /\ Len(b) \in Nat /\ Len(c) \in Nat
      /\ Len(a) <= Len(b) /\ Len(b) <= Len(c) /\ Len(a) <= Len(c)
  BY DEF Extends
<1>2. \A m \in 1..Len(a) : m \in 1..Len(b)
  BY <1>1
<1>3. ASSUME NEW m \in 1..Len(a)
      PROVE  /\ c[m].key = a[m].key
             /\ \/ c[m].status = a[m].status
                \/ a[m].status = "compiled" /\ c[m].status = "linked"
  <2>1. /\ b[m].key = a[m].key
        /\ b[m].status = a[m].status \/ (a[m].status = "compiled" /\ b[m].status = "linked")
    BY DEF Extends
  <2>2. /\ c[m].key = b[m].key
        /\ c[m].status = b[m].status \/ (b[m].status = "compiled" /\ c[m].status = "linked")
    BY <1>2 DEF Extends
  <2>3. QED
    BY <2>1, <2>2
<1>4. QED
  BY <1>1, <1>3 DEF Extends

(* One URL without an entry is fetched, compiled and registered. *)
LEMMA FetchedPairs ==
  ASSUME NEW reg, NEW ms, Paired(reg, ms), NEW k \in Keys, reg[k] = None
  PROVE  LET f == Fetched(reg, ms, k) IN
         /\ Paired(f.reg, f.ms) /\ Extends(ms, f.ms)
         /\ f.reg[k] \in Len(ms) + 1 .. Len(f.ms) /\ f.reg[k] # None
         /\ f.ms[f.reg[k]].status = "compiled"
<1> DEFINE f == Register(reg, ms, {k})
<1>1. {k} \in SUBSET NeedsFetch(reg, ms) /\ {k} \in SUBSET Keys
  BY DEF NeedsFetch
<1>2. Paired(f.reg, f.ms) /\ Extends(ms, f.ms)
  BY <1>1, RegisterPairs
<1>3. ms \in Seq(ModuleOf(Len(ms)))
  BY DEF Paired
<1>4. f.reg[k] \in Len(ms) + 1 .. Len(f.ms) /\ f.ms[f.reg[k]] = Compiled(k)
  <2>1. Registered(reg, ms, {k}, f)
    BY <1>1, <1>3, RegisterResult
  <2>2. QED
    BY <2>1 DEF Registered
<1>5. f.ms[f.reg[k]].status = "compiled"
  BY <1>4, CompiledFields
<1>6. f.reg[k] # None
  BY <1>2, <1>4 DEF Extends, None
<1>7. QED
  BY <1>2, <1>4, <1>5, <1>6 DEF Fetched

(* A module that is there and could not be linked stays as it is. *)
LEMMA NotLinkedPairs ==
  ASSUME NEW reg, NEW ms, Paired(reg, ms), NEW root \in Keys, reg[root] # None,
         ms[reg[root]].status = "compiled", NEW n \in NotLinked(reg, ms, root)
  PROVE  /\ Paired(n.reg, n.ms) /\ Extends(ms, n.ms)
         /\ n.reg[root] # None /\ n.ms[n.reg[root]].status = "compiled"
<1>1. PICK g \in SUBSET NeedsFetch(reg, ms) : n = Register(reg, ms, g)
  BY DEF NotLinked
<1>2. Paired(n.reg, n.ms) /\ Extends(ms, n.ms)
  BY <1>1, RegisterPairs
<1>3. g \in SUBSET Keys /\ root \notin g /\ ms \in Seq(ModuleOf(Len(ms)))
  BY DEF NeedsFetch, Paired
<1>4. n.reg[root] = reg[root] /\ \A m \in 1..Len(ms) : n.ms[m] = ms[m]
  <2>1. Registered(reg, ms, g, n)
    BY <1>1, <1>3, RegisterResult
  <2>2. QED
    BY <2>1, <1>3 DEF Registered
<1>5. reg[root] \in 1..Len(ms)
  BY PairedFacts
<1>6. QED
  BY <1>2, <1>4, <1>5

(* Linking registers what is missing and links what is compiled, and every module *)
(* it links finds the modules it imports.                                         *)
LEMMA LinkedPairs ==
  ASSUME NEW reg, NEW ms, Paired(reg, ms), NEW root \in Keys, reg[root] # None,
         ms[reg[root]].status = "compiled"
  PROVE  LET l == Linked(reg, ms, root) IN
         /\ Paired(l.reg, l.ms) /\ Extends(ms, l.ms)
         /\ l.reg[root] = reg[root] /\ l.ms[l.reg[root]].status = "linked"
<1> DEFINE missing == NeedsFetch(reg, ms)
           through == missing \cup IsCompiled(reg, ms)
           visited == Asked(root, through)
           r == Register(reg, ms, visited \cap missing)
           fresh == {r.reg[k] : k \in visited \cap IsCompiled(r.reg, r.ms)}
           link(m) == [r.ms[m] EXCEPT !.status = "linked",
                                      !.deps = {r.reg[d] : d \in Imports[r.ms[m].key]}]
           lms == [m \in DOMAIN r.ms |-> IF m \in fresh THEN link(m) ELSE r.ms[m]]
           l == Linked(reg, ms, root)
<1>1. l.reg = r.reg /\ l.ms = lms
  BY DEF Linked
<1>2. /\ root \in visited /\ visited \subseteq Keys
      /\ \A k \in visited \cap through : Imports[k] \subseteq visited
  BY AskedFollows
<1>3. visited \cap missing \in SUBSET missing /\ visited \cap missing \in SUBSET Keys
  BY <1>2
<1>4. Paired(r.reg, r.ms) /\ Extends(ms, r.ms)
  BY <1>3, RegisterPairs
<1>5. ms \in Seq(ModuleOf(Len(ms)))
  BY DEF Paired
<1>6. /\ Len(ms) \in Nat /\ Len(r.ms) \in Nat /\ Len(r.ms) >= Len(ms)
      /\ \A m \in 1..Len(ms) : r.ms[m] = ms[m]
      /\ \A k \in visited \cap missing : /\ r.reg[k] \in Len(ms) + 1 .. Len(r.ms)
                                         /\ r.ms[r.reg[k]] = Compiled(k)
      /\ \A k \in Keys \ (visited \cap missing) : r.reg[k] = reg[k]
  <2>1. Registered(reg, ms, visited \cap missing, r)
    BY <1>3, <1>5, RegisterResult
  <2>2. QED
    BY <2>1 DEF Registered
<1>7. \A k \in Keys : /\ reg[k] # None => reg[k] \in 1..Len(ms)
                      /\ k \in missing <=> (reg[k] # None => ms[reg[k]].status = "errored")
                      /\ k \in IsCompiled(reg, ms)
                           <=> (reg[k] # None /\ ms[reg[k]].status = "compiled")
                      /\ k \in IsCompiled(r.reg, r.ms)
                           <=> (r.reg[k] # None /\ r.ms[r.reg[k]].status = "compiled")
  BY PairedFacts DEF NeedsFetch, IsCompiled
<1> HIDE DEF missing, through, visited, r, l
<1>8. /\ DOMAIN r.ms = 1..Len(r.ms)
      /\ \A m \in 1..Len(r.ms) :
           /\ r.ms[m] \in ModuleOf(Len(r.ms)) /\ r.ms[m].key \in Keys
           /\ r.ms[m].waits \in BOOLEAN /\ r.ms[m].status \in Status
      /\ \A k \in Keys : /\ r.reg[k] # None => r.reg[k] \in 1..Len(r.ms)
                         /\ r.reg[k] # None => r.ms[r.reg[k]].key = k
  BY <1>4, PairedFacts
<1>9. \A d \in visited : r.reg[d] # None
  <2> SUFFICES ASSUME NEW d \in visited PROVE r.reg[d] # None
    OBVIOUS
  <2>1. CASE d \in missing
    BY <2>1, <1>6 DEF None
  <2>2. CASE d \notin missing
    BY <2>2, <1>2, <1>6, <1>7
  <2>3. QED
    BY <2>1, <2>2
<1>10. ASSUME NEW m \in fresh
       PROVE  /\ m \in 1..Len(r.ms) /\ r.ms[m].status = "compiled"
              /\ r.reg[r.ms[m].key] = m
              /\ {r.reg[d] : d \in Imports[r.ms[m].key]} \subseteq 1..Len(r.ms)
  <2>1. PICK k \in visited \cap IsCompiled(r.reg, r.ms) : m = r.reg[k]
    OBVIOUS
  <2>2. k \in Keys /\ m \in 1..Len(r.ms) /\ r.ms[m].key = k /\ r.ms[m].status = "compiled"
    BY <2>1, <1>2, <1>7, <1>8
  <2>3. k \in through
    <3>1. CASE k \in missing
      BY <3>1 DEF through
    <3>2. CASE k \notin missing
      <4>1. r.reg[k] = reg[k] /\ reg[k] # None /\ reg[k] \in 1..Len(ms)
        BY <3>2, <2>2, <1>6, <1>7
      <4>2. ms[reg[k]].status = "compiled"
        BY <4>1, <2>1, <2>2, <1>6
      <4>3. QED
        BY <4>1, <4>2, <2>2, <1>7 DEF through
    <3>3. QED
      BY <3>1, <3>2
  <2>4. Imports[k] \subseteq visited
    BY <2>1, <2>3, <1>2
  <2>5. \A d \in Imports[k] : r.reg[d] \in 1..Len(r.ms)
    BY <2>4, <1>2, <1>8, <1>9
  <2>6. QED
    BY <2>1, <2>2, <2>5
<1>11. \A m \in 1..Len(r.ms) :
         /\ lms[m] \in ModuleOf(Len(r.ms)) /\ lms[m].key = r.ms[m].key
         /\ m \in fresh => lms[m].status = "linked"
         /\ m \notin fresh => lms[m].status = r.ms[m].status
  <2> SUFFICES ASSUME NEW m \in 1..Len(r.ms)
               PROVE  /\ lms[m] \in ModuleOf(Len(r.ms)) /\ lms[m].key = r.ms[m].key
                      /\ m \in fresh => lms[m].status = "linked"
                      /\ m \notin fresh => lms[m].status = r.ms[m].status
    OBVIOUS
  <2>1. CASE m \in fresh
    <3>1. lms[m] = link(m)
      BY <2>1, <1>8
    <3>2. {r.reg[d] : d \in Imports[r.ms[m].key]} \in SUBSET (1..Len(r.ms))
      BY <2>1, <1>10
    <3> DEFINE deps == {r.reg[d] : d \in Imports[r.ms[m].key]}
    <3>3. deps \in SUBSET (1..Len(r.ms))
      BY <3>2
    <3>a. link(m) = [r.ms[m] EXCEPT !.status = "linked", !.deps = deps]
      BY Zenon
    <3> HIDE DEF deps
    <3>4. /\ link(m) \in ModuleOf(Len(r.ms)) /\ link(m).status = "linked"
          /\ link(m).key = r.ms[m].key
      <4>1. r.ms[m] \in ModuleOf(Len(r.ms)) 
        BY <1>8
      <4>2. Restatus(Len(r.ms), r.ms[m], link(m), "linked")
        BY <3>3, <3>a, <4>1, LinkedModule, Zenon
      <4>3. QED
        BY <4>2, Zenon DEF Restatus
    <3>5. QED
      BY <3>1, <3>4, <2>1
  <2>2. CASE m \notin fresh
    BY <2>2, <1>8
  <2>3. QED
    BY <2>1, <2>2
<1>12. lms \in Seq(ModuleOf(Len(r.ms))) /\ Len(lms) = Len(r.ms)
  <2>1. lms \in [1..Len(r.ms) -> ModuleOf(Len(r.ms))]
    BY <1>8, <1>11
  <2> HIDE DEF lms
  <2>2. QED
    BY <2>1, <1>6
<1> HIDE DEF lms, fresh
<1>13. Paired(r.reg, lms)
  <2>1. \A m \in 1..Len(r.ms) :
          /\ lms[m].key = r.ms[m].key
          /\ lms[m].status \in Active
               => r.ms[m].status \in Active \/ r.reg[r.ms[m].key] = m
    BY <1>10, <1>11
  <2>2. QED
    BY <2>1, <1>4, <1>12, RestatusPairs
<1>14. Extends(r.ms, lms)
  BY <1>6, <1>10, <1>11, <1>12 DEF Extends
<1>15. r.reg[root] = reg[root] /\ reg[root] \in 1..Len(ms)
  <2>1. root \notin missing
    BY <1>7
  <2>2. QED
    BY <2>1, <1>6, <1>7
<1>16. lms[reg[root]].status = "linked"
  <2>1. reg[root] \in 1..Len(r.ms) /\ r.ms[reg[root]].status = "compiled"
    BY <1>6, <1>15
  <2>2. reg[root] \in fresh
    BY <2>1, <1>2, <1>7, <1>15 DEF fresh
  <2>3. QED
    BY <2>1, <2>2, <1>11
<1>17. Extends(ms, lms)
  BY <1>4, <1>14, ExtendsTwice
<1>18. QED
  BY <1>1, <1>13, <1>15, <1>16, <1>17 DEF l, lms

-----------------------------------------------------------------------------
(* What import() does to the registry and to the modules. *)

(* An import that is not answered from the registry may drop the entry of its URL. *)
LEMMA NotCachedPairs ==
  ASSUME Paired(registry, mods), NEW k \in Keys, NotCached(k)
  PROVE  /\ Paired([registry EXCEPT ![k] = None], mods)
         /\ [registry EXCEPT ![k] = None][k] = None
<1>1. registry \in [Keys -> 0..Len(mods)]
  BY DEF Paired
<1>2. \/ k \in SfcBase
      \/ registry[k] = None
      \/ mods[registry[k]].status \in {"errored", "compiled"}
  BY <1>1 DEF NotCached, Dropped
<1>3. QED
  BY <1>1, <1>2, DropPairs

(* The modules of a state with k's module new in it, linked, at m. *)
NewModule(ms, k, r, s) ==
  /\ Paired(r.reg, r.ms) /\ Extends(ms, r.ms)
  /\ r.reg[k] \in Len(ms) + 1 .. Len(r.ms) /\ r.ms[r.reg[k]].status = s

(* A URL without an entry is fetched and linked. *)
LEMMA FetchedAndLinked ==
  ASSUME NEW reg, NEW ms, Paired(reg, ms), NEW k \in Keys, reg[k] = None
  PROVE  LET f == Fetched(reg, ms, k) IN NewModule(ms, k, Linked(f.reg, f.ms, k), "linked")
<1> DEFINE f == Fetched(reg, ms, k)
           l == Linked(f.reg, f.ms, k)
<1>1. /\ Paired(f.reg, f.ms) /\ Extends(ms, f.ms)
      /\ f.reg[k] \in Len(ms) + 1 .. Len(f.ms) /\ f.reg[k] # None
      /\ f.ms[f.reg[k]].status = "compiled"
  BY FetchedPairs
<1> HIDE DEF f
<1>2. /\ Paired(l.reg, l.ms) /\ Extends(f.ms, l.ms)
      /\ l.reg[k] = f.reg[k] /\ l.ms[l.reg[k]].status = "linked"
  BY <1>1, LinkedPairs
<1> HIDE DEF l
<1>3. Extends(ms, l.ms)
  BY <1>1, <1>2, ExtendsTwice
<1>4. l.reg[k] \in Len(ms) + 1 .. Len(l.ms)
  BY <1>1, <1>2 DEF Extends
<1>5. QED
  BY <1>2, <1>3, <1>4 DEF NewModule, l, f

(* A URL without an entry is fetched and not linked. *)
LEMMA FetchedNotLinked ==
  ASSUME NEW reg, NEW ms, Paired(reg, ms), NEW k \in Keys, reg[k] = None,
         NEW n \in NotLinked(Fetched(reg, ms, k).reg, Fetched(reg, ms, k).ms, k)
  PROVE  /\ Paired(n.reg, n.ms) /\ Extends(ms, n.ms)
         /\ n.reg[k] # None /\ n.ms[n.reg[k]].status = "compiled"
<1> DEFINE f == Fetched(reg, ms, k)
<1>1. /\ Paired(f.reg, f.ms) /\ Extends(ms, f.ms)
      /\ f.reg[k] \in Len(ms) + 1 .. Len(f.ms) /\ f.reg[k] # None
      /\ f.ms[f.reg[k]].status = "compiled"
  BY FetchedPairs
<1>2. n \in NotLinked(f.reg, f.ms, k)
  OBVIOUS
<1> HIDE DEF f
<1>3. /\ Paired(n.reg, n.ms) /\ Extends(f.ms, n.ms)
      /\ n.reg[k] # None /\ n.ms[n.reg[k]].status = "compiled"
  BY <1>1, <1>2, NotLinkedPairs
<1>4. QED
  BY <1>1, <1>3, ExtendsTwice

(* Extends is reflexive. *)
LEMMA ExtendsItself ==
  ASSUME NEW reg, NEW ms, Paired(reg, ms) PROVE Extends(ms, ms)
BY PairedFacts DEF Extends

(* After a first attempt that failed the URL has no entry. *)
LEMMA FirstAttemptPairs ==
  ASSUME Paired(registry, mods), NEW k \in Keys, NotCached(k),
         NEW first \in FirstAttemptFails(k)
  PROVE  Paired(first.reg, first.ms) /\ Extends(mods, first.ms) /\ first.reg[k] = None
<1> DEFINE reg == [registry EXCEPT ![k] = None]
           f == Fetched(reg, mods, k)
<1>1. Paired(reg, mods) /\ reg[k] = None
  BY NotCachedPairs
<1>2. \/ first = [reg |-> reg, ms |-> mods]
      \/ \E n \in NotLinked(f.reg, f.ms, k) :
           first = [reg |-> [n.reg EXCEPT ![k] = None], ms |-> n.ms]
  BY Zenon DEF FirstAttemptFails
<1> HIDE DEF reg
<1>3. CASE first = [reg |-> reg, ms |-> mods]
  BY <1>1, <1>3, ExtendsItself
<1>4. CASE \E n \in NotLinked(f.reg, f.ms, k) :
             first = [reg |-> [n.reg EXCEPT ![k] = None], ms |-> n.ms]
  <2>1. PICK n \in NotLinked(f.reg, f.ms, k) :
          first = [reg |-> [n.reg EXCEPT ![k] = None], ms |-> n.ms]
    BY <1>4
  <2>2. /\ Paired(n.reg, n.ms) /\ Extends(mods, n.ms)
        /\ n.ms[n.reg[k]].status = "compiled"
    BY <1>1, <2>1, FetchedNotLinked
  <2>3. Paired([n.reg EXCEPT ![k] = None], n.ms)
    BY <2>2, DropPairs
  <2>4. n.reg \in [Keys -> 0..Len(n.ms)]
    BY <2>2 DEF Paired
  <2>5. [n.reg EXCEPT ![k] = None][k] = None
    BY <2>4
  <2>6. first.reg = [n.reg EXCEPT ![k] = None] /\ first.ms = n.ms
    BY <2>1
  <2>7. QED
    BY <2>2, <2>3, <2>5, <2>6
<1>5. QED
  BY <1>2, <1>3, <1>4

(* A linked module starts to run. *)
LEMMA EvaluatePairs ==
  ASSUME NEW reg, NEW ms, Paired(reg, ms), NEW m \in 1..Len(ms), ms[m].status = "linked"
  PROVE  LET e == [ms EXCEPT ![m].status = "evaluating"] IN
         /\ Paired(reg, e) /\ Len(e) = Len(ms)
         /\ e[m].status = "evaluating"
         /\ \A x \in 1..Len(ms) : x # m => e[x] = ms[x]
<1> DEFINE e == [ms EXCEPT ![m].status = "evaluating"]
<1>1. /\ Len(ms) \in Nat /\ DOMAIN ms = 1..Len(ms) /\ ms \in Seq(ModuleOf(Len(ms)))
      /\ \A x \in 1..Len(ms) : ms[x] \in ModuleOf(Len(ms))
  BY PairedFacts DEF Paired
<1>2. Restatus(Len(ms), ms[m], [ms[m] EXCEPT !.status = "evaluating"], "evaluating")
  <2>1. ms[m] \in ModuleOf(Len(ms)) /\ "evaluating" \in Status /\ TRUE \in BOOLEAN
    BY <1>1 DEF Status
  <2>2. QED
    BY <2>1, ModuleUpdates, Zenon
<1>3. /\ [ms[m] EXCEPT !.status = "evaluating"] \in ModuleOf(Len(ms))
      /\ [ms[m] EXCEPT !.status = "evaluating"].status = "evaluating"
      /\ [ms[m] EXCEPT !.status = "evaluating"].key = ms[m].key
  BY <1>2, Zenon DEF Restatus
<1>4. /\ e \in Seq(ModuleOf(Len(ms))) /\ Len(e) = Len(ms)
      /\ e[m] = [ms[m] EXCEPT !.status = "evaluating"]
      /\ \A x \in 1..Len(ms) : x # m => e[x] = ms[x]
  BY <1>1, <1>3
<1>5. /\ e[m].status = "evaluating" /\ e[m].key = ms[m].key
  BY <1>3, <1>4, Zenon
<1> HIDE DEF e
<1>6. \A x \in 1..Len(ms) :
        /\ e[x].key = ms[x].key
        /\ e[x].status \in Active => ms[x].status \in Active \/ reg[ms[x].key] = x
  BY <1>4, <1>5 DEF Active
<1>7. Paired(reg, e)
  BY <1>4, <1>6, RestatusPairs
<1>8. QED
  BY <1>4, <1>5, <1>7 DEF e

-----------------------------------------------------------------------------
(* The stack. *)

(* The fields of a frame. *)
LEMMA FrameFields ==
  ASSUME NEW f \in Frame
  PROVE  /\ f.kind \in Kind /\ f.module \in Nat /\ f.phase \in How \cup {"deps", "body"}
         /\ f.key \in Keys /\ f.promise \in Nat /\ f.entered \in Seq(Nat)
         /\ Len(f.entered) \in Nat /\ DOMAIN f.entered = 1..Len(f.entered)
<1>1. /\ f.kind \in Kind /\ f.module \in Nat /\ f.phase \in How \cup {"deps", "body"}
      /\ f.key \in Keys /\ f.promise \in Nat /\ f.entered \in Seq(Nat)
  BY DEF Frame
<1>2. QED
  BY <1>1

(* What a stack of frames is. *)
LEMMA FramesOf ==
  ASSUME NEW s \in Seq(Frame)
  PROVE  /\ Len(s) \in Nat /\ DOMAIN s = 1..Len(s)
         /\ \A i \in 1..Len(s) : s[i] \in Frame
         /\ s # <<>> => Len(s) \in 1..Len(s) /\ Last(s) = s[Len(s)]
<1>1. Len(s) \in Nat /\ DOMAIN s = 1..Len(s)
  OBVIOUS
<1>2. \A i \in 1..Len(s) : s[i] \in Frame
  BY <1>1, ElementOfSeq
<1>3. s # <<>> => Len(s) \in 1..Len(s) /\ Last(s) = s[Len(s)]
  BY <1>1 DEF Last
<1>4. QED
  BY <1>1, <1>2, <1>3

(* A frame evaluates for one call. *)
LEMMA WithinOne ==
  ASSUME stack \in Seq(Frame), NEW c, NEW d, NEW i, Within(c, i), Within(d, i)
  PROVE  c = d
<1>1. Len(stack) \in Nat /\ c \in 1..Len(stack) /\ d \in 1..Len(stack) /\ i \in 1..Len(stack)
  BY DEF Within, IsImport
<1>2. /\ stack[c].kind = "import" /\ stack[d].kind = "import" /\ c < i /\ d < i
      /\ \A j \in c + 1 .. i : stack[j].kind = "module"
      /\ \A j \in d + 1 .. i : stack[j].kind = "module"
  BY <1>1 DEF Within, IsImport
<1>3. ~(c < d)
  <2>1. c < d => d \in c + 1 .. i
    BY <1>1, <1>2
  <2>2. QED
    BY <2>1, <1>2
<1>4. ~(d < c)
  <2>1. d < c => c \in d + 1 .. i
    BY <1>1, <1>2
  <2>2. QED
    BY <2>1, <1>2
<1>5. QED
  BY <1>1, <1>3, <1>4

(* The call of the innermost evaluation is on the stack. *)
LEMMA CallerIs ==
  ASSUME stack \in Seq(Frame), Pile, stack # <<>>, Top.kind = "module"
  PROVE  /\ Len(stack) \in 1..Len(stack) /\ Len(stack) \in Nat /\ Top = stack[Len(stack)]
         /\ Caller \in 1..Len(stack) /\ Caller < Len(stack) /\ IsImport(Caller)
         /\ Within(Caller, Len(stack))
         /\ \A j \in 1..Len(stack) : j > Caller => stack[j].kind = "module"
<1>1. /\ Len(stack) \in 1..Len(stack) /\ Len(stack) \in Nat /\ Top = stack[Len(stack)]
      /\ DOMAIN stack = 1..Len(stack)
  BY FramesOf DEF Top
<1>2. PICK c \in 1..Len(stack) : Within(c, Len(stack))
  BY <1>1 DEF Pile
<1>3. /\ c \in DOMAIN stack /\ stack[c].kind = "import"
      /\ \A j \in DOMAIN stack : j > c => stack[j].kind = "module"
  BY <1>1, <1>2 DEF Within, IsImport
<1>4. /\ Caller \in DOMAIN stack /\ stack[Caller].kind = "import"
      /\ \A j \in DOMAIN stack : j > Caller => stack[j].kind = "module"
  BY <1>3 DEF Caller
<1>5. Caller \in 1..Len(stack) /\ IsImport(Caller)
  BY <1>1, <1>4 DEF IsImport
<1>6. Caller # Len(stack)
  BY <1>1, <1>4
<1>7. Caller < Len(stack)
  <2>1. \A n \in Nat : \A x \in 1..n : x # n => x < n
    OBVIOUS
  <2>2. QED
    BY <2>1, <1>1, <1>5, <1>6, Zenon
<1>8. Within(Caller, Len(stack))
  BY <1>1, <1>4, <1>5, <1>7 DEF Within
<1>9. QED
  BY <1>1, <1>4, <1>5, <1>7, <1>8

(* The stack keeps its frames or loses the innermost ones, and the lists of what *)
(* was entered keep what is still on the stack and being evaluated.              *)
LEMMA Shortened ==
  ASSUME stack \in Seq(Frame), stack' \in Seq(Frame), Evaluations,
         Len(stack') <= Len(stack),
         \A i \in 1..Len(stack') :
           /\ stack'[i].kind = stack[i].kind /\ stack'[i].module = stack[i].module
           /\ stack'[i].kind = "import" => stack'[i].phase = stack[i].phase,
         \A c \in 1..Len(stack') : IsImport(c) /\ c < Len(stack') =>
           /\ Len(stack'[c].entered) <= Len(stack[c].entered)
           /\ \A a \in 1..Len(stack'[c].entered) :
                /\ stack'[c].entered[a] = stack[c].entered[a]
                /\ stack[c].entered[a] \in 1..Len(mods')
                /\ mods'[stack[c].entered[a]].status = "evaluating",
         \A c, i \in 1..Len(stack') : Within(c, i) =>
           \A a \in 1..Len(stack[c].entered) :
             stack[c].entered[a] = stack[i].module => a <= Len(stack'[c].entered)
  PROVE  Evaluations'
<1>1. Len(stack) \in Nat /\ Len(stack') \in Nat
  OBVIOUS
<1>2. \A i \in 1..Len(stack') : i \in 1..Len(stack)
  BY <1>1
<1>3. \A i : IsImport(i)' <=> i \in 1..Len(stack') /\ IsImport(i)
  BY <1>2 DEF IsImport
<1>4. \A c, i \in 1..Len(stack') : Within(c, i)' <=> Within(c, i)
  <2> SUFFICES ASSUME NEW c \in 1..Len(stack'), NEW i \in 1..Len(stack')
               PROVE  Within(c, i)' <=> Within(c, i)
    OBVIOUS
  <2>1. i \in c + 1 .. Len(stack') <=> i \in c + 1 .. Len(stack)
    BY <1>1
  <2>2. \A j \in c + 1 .. i : j \in 1..Len(stack')
    BY <1>1
  <2>3. (\A j \in c + 1 .. i : stack'[j].kind = "module")
          <=> (\A j \in c + 1 .. i : stack[j].kind = "module")
    BY <2>2
  <2>4. QED
    BY <2>1, <2>3, <1>3 DEF Within
<1>5. \A c \in 1..Len(stack') : UnderEvaluation(c)' =>
        /\ IsImport(c) /\ c < Len(stack') /\ UnderEvaluation(c)
  BY <1>1, <1>3 DEF UnderEvaluation
<1>6. \A c \in 1..Len(stack') : /\ stack'[c].entered \in Seq(Nat) /\ stack[c].entered \in Seq(Nat)
                                /\ Len(stack'[c].entered) \in Nat
                                /\ Len(stack[c].entered) \in Nat
  BY <1>2, FramesOf, FrameFields
<1>a. ASSUME NEW c \in 1..Len(stack'), IsImport(c), c < Len(stack'),
             NEW a \in 1..Len(stack'[c].entered)
      PROVE  a \in 1..Len(stack[c].entered) /\ stack'[c].entered[a] = stack[c].entered[a]
  <2>1. Len(stack'[c].entered) <= Len(stack[c].entered)
    BY <1>a
  <2>2. a \in 1..Len(stack[c].entered)
    BY <2>1, <1>6
  <2>3. stack'[c].entered[a] = stack[c].entered[a]
    BY <1>a
  <2>4. QED
    BY <2>2, <2>3
<1>7. Pile'
  <2>1. ASSUME NEW i \in 1..Len(stack'), stack'[i].kind = "module"
        PROVE  \E c \in 1..Len(stack') : Within(c, i)'
    <3>1. PICK c \in 1..Len(stack) : Within(c, i)
      BY <2>1, <1>2 DEF Evaluations, Pile
    <3>2. c \in 1..Len(stack')
      BY <3>1, <1>1 DEF Within
    <3>3. QED
      BY <3>1, <3>2, <1>4
  <2>2. ASSUME NEW i \in 1..Len(stack'), IsImport(i)'
        PROVE  stack'[i].phase \in How
    BY <2>2, <1>2, <1>3 DEF IsImport, Evaluations, Pile
  <2>3. ASSUME NEW i \in 1..Len(stack'), IsImport(i)', i > 1
        PROVE  stack'[i - 1].kind = "module"
    <3>1. i - 1 \in 1..Len(stack')
      BY <2>3, <1>1
    <3>2. QED
      BY <2>3, <3>1, <1>2, <1>3 DEF Evaluations, Pile
  <2>4. QED
    BY <2>1, <2>2, <2>3 DEF Pile
<1>8. EnteredOnce'
  <2>1. ASSUME NEW c \in 1..Len(stack'), UnderEvaluation(c)',
               NEW a \in 1..Len(stack'[c].entered)
        PROVE  /\ stack'[c].entered[a] \in 1..Len(mods')
               /\ mods'[stack'[c].entered[a]].status = "evaluating"
    BY <2>1, <1>5, ZenonT(40)
  <2>2. ASSUME NEW c \in 1..Len(stack'), NEW d \in 1..Len(stack'),
               UnderEvaluation(c)', UnderEvaluation(d)',
               NEW a \in 1..Len(stack'[c].entered), NEW b \in 1..Len(stack'[d].entered),
               stack'[c].entered[a] = stack'[d].entered[b]
        PROVE  c = d /\ a = b
    <3>1. /\ UnderEvaluation(c) /\ UnderEvaluation(d)
          /\ c \in 1..Len(stack) /\ d \in 1..Len(stack)
      BY <2>2, <1>2, <1>5
    <3>2. /\ a \in 1..Len(stack[c].entered) /\ stack'[c].entered[a] = stack[c].entered[a]
          /\ b \in 1..Len(stack[d].entered) /\ stack'[d].entered[b] = stack[d].entered[b]
      BY <2>2, <1>5, <1>a
    <3>3. stack[c].entered[a] = stack[d].entered[b]
      BY <2>2, <3>2
    <3>4. QED
      BY <3>1, <3>2, <3>3 DEF Evaluations, EnteredOnce
  <2>3. QED
    BY <2>1, <2>2 DEF EnteredOnce
<1>9. EnteredInOrder'
  <2>1. ASSUME NEW c \in 1..Len(stack'), NEW i \in 1..Len(stack'), Within(c, i)
        PROVE  c < Len(stack') /\ IsImport(c)
    BY <2>1, <1>1 DEF Within
  <2>2. ASSUME NEW c \in 1..Len(stack'), NEW i \in 1..Len(stack'), Within(c, i)'
        PROVE  \E a \in 1..Len(stack'[c].entered) : stack'[c].entered[a] = stack'[i].module
    <3>1. Within(c, i)
      BY <2>2, <1>4
    <3>2. PICK a \in 1..Len(stack[c].entered) : stack[c].entered[a] = stack[i].module
      BY <3>1, <1>2 DEF Evaluations, EnteredInOrder
    <3>3. a \in 1..Len(stack'[c].entered)
      BY <3>1, <3>2, <1>6
    <3>4. QED
      BY <3>1, <3>2, <3>3, <2>1
  <2>3. ASSUME NEW c \in 1..Len(stack'), NEW i \in 1..Len(stack'), NEW j \in 1..Len(stack'),
               Within(c, i)', Within(c, j)', i < j,
               NEW a \in 1..Len(stack'[c].entered), NEW b \in 1..Len(stack'[c].entered),
               stack'[c].entered[a] = stack'[i].module, stack'[c].entered[b] = stack'[j].module
        PROVE  a < b
    <3>1. Within(c, i) /\ Within(c, j)
      BY <2>3, <1>4
    <3>2. /\ a \in 1..Len(stack[c].entered) /\ stack'[c].entered[a] = stack[c].entered[a]
          /\ b \in 1..Len(stack[c].entered) /\ stack'[c].entered[b] = stack[c].entered[b]
      BY <3>1, <2>1, <1>a
    <3>3. stack[c].entered[a] = stack[i].module /\ stack[c].entered[b] = stack[j].module
      BY <2>3, <3>2
    <3>4. QED
      BY <3>1, <3>2, <3>3, <2>3, <1>2 DEF Evaluations, EnteredInOrder
  <2>4. QED
    BY <2>2, <2>3 DEF EnteredInOrder
<1>10. QED
  BY <1>7, <1>8, <1>9 DEF Evaluations

(* A call and the evaluation it starts are put on the stack. *)
Started(k, m, how) ==
  /\ stack' \in Seq(Frame) /\ Len(stack') = Len(stack) + 2
  /\ \A i \in 1..Len(stack) : stack'[i] = stack[i]
  /\ LET f == stack'[Len(stack) + 1] IN
       /\ f.kind = "import" /\ f.module = m /\ f.phase = how /\ f.key = k
       /\ f.promise = Len(promises') /\ f.entered = <<m>>
  /\ LET f == stack'[Len(stack) + 2] IN f.kind = "module" /\ f.module = m

(* Evaluate does so. *)
LEMMA EvaluateStarts ==
  ASSUME stack \in Seq(Frame), NEW ms, NEW k \in Keys, NEW m \in Nat, NEW how \in How,
         Len(promises') \in Nat, Evaluate(ms, k, m, how)
  PROVE  Started(k, m, how)
<1> DEFINE F == [kind |-> "import", module |-> m, phase |-> how,
                 key |-> k, promise |-> Len(promises'), entered |-> <<m>>]
           G == [kind |-> "module", module |-> m, phase |-> "deps",
                 key |-> k, promise |-> None, entered |-> <<>>]
<1>1. stack' = stack \o <<F, G>>
  BY DEF Evaluate
<1>2. <<m>> \in Seq(Nat) /\ <<>> \in Seq(Nat) /\ None \in Nat
  BY DEF None
<1>3. F \in Frame /\ G \in Frame
  BY <1>2 DEF Frame, Kind, How
<1>4. /\ F.kind = "import" /\ F.module = m /\ F.phase = how /\ F.key = k
      /\ F.promise = Len(promises') /\ F.entered = <<m>>
      /\ G.kind = "module" /\ G.module = m
  OBVIOUS
<1> HIDE DEF F, G
<1>5. <<F, G>> \in Seq(Frame) /\ Len(<<F, G>>) = 2 /\ <<F, G>>[1] = F /\ <<F, G>>[2] = G
  BY <1>3
<1>6. /\ stack' \in Seq(Frame) /\ Len(stack') = Len(stack) + 2 /\ Len(stack) \in Nat
      /\ \A i \in 1..Len(stack) + 2 :
           stack'[i] = IF i <= Len(stack) THEN stack[i] ELSE <<F, G>>[i - Len(stack)]
  BY <1>1, <1>5, ConcatProperties
<1>7. \A i \in 1..Len(stack) : stack'[i] = stack[i]
  BY <1>6
<1>8. stack'[Len(stack) + 1] = F /\ stack'[Len(stack) + 2] = G
  <2>1. stack'[Len(stack) + 1] = <<F, G>>[1] /\ stack'[Len(stack) + 2] = <<F, G>>[2]
    BY <1>6
  <2>2. QED
    BY <2>1, <1>5
<1>9. QED
  BY <1>4, <1>6, <1>7, <1>8 DEF Started

(* What a call that starts an evaluation makes of the evaluations under way: its *)
(* module is entered by nobody else, since it is not being evaluated.            *)
LEMMA StartedEvaluations ==
  ASSUME stack \in Seq(Frame), Evaluations, JSRuns,
         NEW k, NEW m \in 1..Len(mods'), NEW how \in How, Started(k, m, how),
         Len(mods) \in Nat, Len(mods') \in Nat, Len(mods) <= Len(mods'),
         mods'[m].status = "evaluating",
         m \in 1..Len(mods) => mods[m].status # "evaluating",
         \A x \in 1..Len(mods) : mods[x].status = "evaluating" => mods'[x].status = "evaluating"
  PROVE  Evaluations'
<1>0. PICK n \in Nat : n = Len(stack)
  OBVIOUS
<1> DEFINE one == <<m>>
<1>1. /\ n \in Nat /\ Len(stack') = n + 2 /\ n + 1 \in 1..n + 2 /\ n + 2 \in 1..n + 2
      /\ \A i \in 1..n : i \in 1..n + 2
      /\ \A i \in 1..n + 2 : i \in 1..n \/ i = n + 1 \/ i = n + 2
  <2>1. Len(stack') = n + 2
    BY <1>0 DEF Started
  <2>2. QED
    BY <2>1
<1>2. /\ \A i \in 1..n : stack'[i] = stack[i]
      /\ stack'[n + 1].kind = "import" /\ stack'[n + 1].phase = how
      /\ stack'[n + 1].module = m /\ stack'[n + 1].entered = one
      /\ stack'[n + 2].kind = "module" /\ stack'[n + 2].module = m
  BY <1>0 DEF Started
<1>3. n \in 1..n => stack[n].kind = "module"
  <2>1. stack # <<>> => stack[n].kind = "module"
    BY <1>0, FramesOf DEF JSRuns, Top
  <2>2. QED
    BY <1>0, <2>1
<1>a. Len(one) = 1 /\ one[1] = m /\ 1..Len(one) = {1}
  OBVIOUS
<1> HIDE DEF one
<1>4. /\ \A i \in 1..n : IsImport(i)' <=> IsImport(i)
      /\ IsImport(n + 1)' /\ ~IsImport(n + 2)'
  BY <1>0, <1>1, <1>2 DEF IsImport
<1>5. \A c, i \in 1..n : Within(c, i) => Within(c, i)'
  <2> SUFFICES ASSUME NEW c \in 1..n, NEW i \in 1..n, Within(c, i) PROVE Within(c, i)'
    OBVIOUS
  <2>1. IsImport(c)' /\ i \in c + 1 .. n /\ \A j \in c + 1 .. i : stack[j].kind = "module"
    BY <1>0, <1>4 DEF Within
  <2>2. i \in c + 1 .. Len(stack') /\ \A j \in c + 1 .. i : j \in 1..n
    BY <2>1, <1>1
  <2>3. QED
    BY <2>1, <2>2, <1>2 DEF Within
<1>6. Within(n + 1, n + 2)'
  <2>1. n + 2 \in n + 1 + 1 .. Len(stack') /\ \A j \in n + 1 + 1 .. n + 2 : j = n + 2
    BY <1>1
  <2>2. QED
    BY <2>1, <1>2, <1>4 DEF Within
<1>7. ASSUME NEW c \in 1..n + 2, NEW i \in 1..n + 2, Within(c, i)'
      PROVE  \/ c \in 1..n /\ i \in 1..n /\ Within(c, i)
             \/ c = n + 1 /\ i = n + 2
  <2>1. IsImport(c)' /\ c < i /\ \A j \in c + 1 .. i : stack'[j].kind = "module"
    BY <1>7, <1>1 DEF Within
  <2>2. CASE c \in 1..n
    <3>1. i \notin n + 1 .. n + 2
      <4>1. i \in n + 1 .. n + 2 => n + 1 \in c + 1 .. i
        BY <1>1, <2>2
      <4>2. QED
        BY <4>1, <2>1, <1>2
    <3>2. i \in 1..n
      BY <3>1, <1>1
    <3>3. i \in c + 1 .. n /\ \A j \in c + 1 .. i : j \in 1..n
      BY <3>2, <2>1, <2>2, <1>1
    <3>4. \A j \in c + 1 .. i : stack[j].kind = "module"
      BY <3>3, <2>1, <1>2
    <3>5. QED
      BY <1>0, <3>2, <3>3, <3>4, <2>1, <2>2, <1>4 DEF Within
  <2>3. CASE c = n + 1
    BY <2>3, <2>1, <1>1
  <2>4. QED
    BY <2>1, <2>2, <2>3, <1>1, <1>4
<1>8. ASSUME NEW c \in 1..n + 2, UnderEvaluation(c)'
      PROVE  c = n + 1 \/ (c \in 1..n /\ UnderEvaluation(c))
  <2>1. IsImport(c)' /\ c # n + 2
    BY <1>8, <1>1 DEF UnderEvaluation
  <2>2. ASSUME c \in 1..n PROVE IsImport(c) /\ c # n
    BY <2>1, <2>2, <1>3, <1>4 DEF IsImport
  <2>3. ASSUME c \in 1..n, c # n PROVE c < n
    BY <2>3, <1>1
  <2>4. QED
    BY <1>0, <2>1, <2>2, <2>3, <1>1 DEF UnderEvaluation
<1>9. Pile'
  <2>1. ASSUME NEW i \in 1..n + 2, stack'[i].kind = "module"
        PROVE  \E c \in 1..n + 2 : Within(c, i)'
    <3>1. CASE i \in 1..n
      <4>1. PICK c \in 1..n : Within(c, i)
        BY <1>0, <3>1, <2>1, <1>2 DEF Evaluations, Pile
      <4>2. QED
        BY <4>1, <3>1, <1>1, <1>5
    <3>2. CASE i = n + 1
      BY <3>2, <2>1, <1>2
    <3>3. CASE i = n + 2
      BY <3>3, <1>1, <1>6
    <3>4. QED
      BY <3>1, <3>2, <3>3, <1>1
  <2>2. ASSUME NEW i \in 1..n + 2, IsImport(i)' PROVE stack'[i].phase \in How
    <3>1. CASE i \in 1..n
      BY <1>0, <3>1, <2>2, <1>2, <1>4 DEF Evaluations, Pile
    <3>2. CASE i = n + 1
      BY <3>2, <1>2
    <3>3. QED
      BY <3>1, <3>2, <2>2, <1>1, <1>4
  <2>3. ASSUME NEW i \in 1..n + 2, IsImport(i)', i > 1 PROVE stack'[i - 1].kind = "module"
    <3>1. CASE i \in 1..n
      <4>1. i - 1 \in 1..n /\ stack[i - 1].kind = "module"
        BY <1>0, <3>1, <2>3, <1>1, <1>4 DEF Evaluations, Pile
      <4>2. QED
        BY <4>1, <1>2
    <3>2. CASE i = n + 1
      <4>1. i - 1 = n /\ n \in 1..n
        BY <3>2, <2>3, <1>1
      <4>2. QED
        BY <4>1, <1>2, <1>3
    <3>3. QED
      BY <3>1, <3>2, <2>3, <1>1, <1>4
  <2>4. QED
    BY <2>1, <2>2, <2>3, <1>1 DEF Pile
<1>10. ASSUME NEW c \in 1..n, UnderEvaluation(c), NEW a \in 1..Len(stack[c].entered)
       PROVE  /\ stack[c].entered[a] \in 1..Len(mods) /\ stack[c].entered[a] \in 1..Len(mods')
              /\ mods'[stack[c].entered[a]].status = "evaluating"
              /\ stack[c].entered[a] # m
  <2>1. /\ stack[c].entered[a] \in 1..Len(mods)
        /\ mods[stack[c].entered[a]].status = "evaluating"
    BY <1>0, <1>10 DEF Evaluations, EnteredOnce
  <2>2. stack[c].entered[a] \in 1..Len(mods')
    BY <2>1
  <2>3. QED
    BY <2>1, <2>2
<1>11. EnteredOnce'
  <2>1. ASSUME NEW c \in 1..n + 2, UnderEvaluation(c)', NEW a \in 1..Len(stack'[c].entered)
        PROVE  /\ stack'[c].entered[a] \in 1..Len(mods')
               /\ mods'[stack'[c].entered[a]].status = "evaluating"
    <3>1. CASE c = n + 1
      BY <3>1, <1>2, <1>a
    <3>2. CASE c \in 1..n /\ UnderEvaluation(c)
      BY <3>2, <1>2, <1>10
    <3>3. QED
      BY <3>1, <3>2, <2>1, <1>8
  <2>2. ASSUME NEW c \in 1..n + 2, NEW d \in 1..n + 2,
               UnderEvaluation(c)', UnderEvaluation(d)',
               NEW a \in 1..Len(stack'[c].entered), NEW b \in 1..Len(stack'[d].entered),
               stack'[c].entered[a] = stack'[d].entered[b]
        PROVE  c = d /\ a = b
    <3>1. CASE c = n + 1 /\ d = n + 1
      BY <3>1, <1>2, <1>a
    <3>2. CASE c = n + 1 /\ d \in 1..n /\ UnderEvaluation(d)
      <4>1. stack'[c].entered[a] = m
        BY <3>2, <1>2, <1>a
      <4>2. stack'[d].entered[b] # m
        BY <3>2, <1>2, <1>10
      <4>3. QED
        BY <4>1, <4>2, <2>2
    <3>3. CASE d = n + 1 /\ c \in 1..n /\ UnderEvaluation(c)
      <4>1. stack'[d].entered[b] = m
        BY <3>3, <1>2, <1>a
      <4>2. stack'[c].entered[a] # m
        BY <3>3, <1>2, <1>10
      <4>3. QED
        BY <4>1, <4>2, <2>2
    <3>4. CASE c \in 1..n /\ UnderEvaluation(c) /\ d \in 1..n /\ UnderEvaluation(d)
      <4>1. stack'[c] = stack[c] /\ stack'[d] = stack[d]
        BY <3>4, <1>2
      <4>2. /\ a \in 1..Len(stack[c].entered) /\ b \in 1..Len(stack[d].entered)
            /\ stack[c].entered[a] = stack[d].entered[b]
        BY <4>1, <2>2
      <4>3. QED
        <5>1. c \in 1..Len(stack) /\ d \in 1..Len(stack)
          BY <1>0, <3>4
        <5>2. QED
          BY <5>1, <3>4, <4>2, OnceOf, SMTT(20)
    <3>5. QED
      BY <3>1, <3>2, <3>3, <3>4, <2>2, <1>8
  <2>3. QED
    BY <2>1, <2>2, <1>1 DEF EnteredOnce
<1>12. EnteredInOrder'
  <2>1. ASSUME NEW c \in 1..n + 2, NEW i \in 1..n + 2, Within(c, i)'
        PROVE  \E a \in 1..Len(stack'[c].entered) : stack'[c].entered[a] = stack'[i].module
    <3>1. CASE c \in 1..n /\ i \in 1..n /\ Within(c, i)
      <4>1. stack'[c] = stack[c] /\ stack'[i] = stack[i]
        BY <3>1, <1>2
      <4>2. \E a \in 1..Len(stack[c].entered) : stack[c].entered[a] = stack[i].module
        BY <1>0, <3>1 DEF Evaluations, EnteredInOrder
      <4>3. QED
        BY <4>1, <4>2
    <3>2. CASE c = n + 1 /\ i = n + 2
      BY <3>2, <1>2, <1>a
    <3>3. QED
      BY <3>1, <3>2, <2>1, <1>7
  <2>2. ASSUME NEW c \in 1..n + 2, NEW i \in 1..n + 2, NEW j \in 1..n + 2,
               Within(c, i)', Within(c, j)', i < j,
               NEW a \in 1..Len(stack'[c].entered), NEW b \in 1..Len(stack'[c].entered),
               stack'[c].entered[a] = stack'[i].module, stack'[c].entered[b] = stack'[j].module
        PROVE  a < b
    <3>1. c \in 1..n /\ i \in 1..n /\ j \in 1..n /\ Within(c, i) /\ Within(c, j)
      <4>1. \/ c \in 1..n /\ i \in 1..n /\ Within(c, i)
            \/ c = n + 1 /\ i = n + 2
        BY <2>2, <1>7
      <4>2. \/ c \in 1..n /\ j \in 1..n /\ Within(c, j)
            \/ c = n + 1 /\ j = n + 2
        BY <2>2, <1>7
      <4>3. n + 1 \notin 1..n
        BY <1>1
      <4>4. i # j
        BY <2>2
      <4>5. QED
        BY <4>1, <4>2, <4>3, <4>4
    <3>2. QED
      <4>1. stack'[c] = stack[c] /\ stack'[i] = stack[i] /\ stack'[j] = stack[j]
        BY <3>1, <1>2
      <4>2. /\ a \in 1..Len(stack[c].entered) /\ b \in 1..Len(stack[c].entered)
            /\ stack[c].entered[a] = stack[i].module /\ stack[c].entered[b] = stack[j].module
        BY <4>1, <2>2
      <4>3. QED
        <5>1. c \in 1..Len(stack) /\ i \in 1..Len(stack) /\ j \in 1..Len(stack)
          BY <1>0, <3>1
        <5>2. QED
          BY <5>1, <3>1, <2>2, <4>2, OrderOf
  <2>3. QED
    BY <2>1, <2>2, <1>1 DEF EnteredInOrder
<1>13. QED
  BY <1>9, <1>11, <1>12 DEF Evaluations

(* An evaluation goes on to a module that was not entered: it is put on the stack *)
(* and at the end of what its call, at C, has entered.                            *)
Deeper(n, C, d) ==
  /\ stack \in Seq(Frame) /\ stack' \in Seq(Frame) /\ n = Len(stack) /\ Len(stack') = n + 1
  /\ IsImport(C) /\ \A j \in 1..n : j > C => stack[j].kind = "module"
  /\ \A i \in 1..n : /\ stack'[i].kind = stack[i].kind /\ stack'[i].phase = stack[i].phase
                     /\ stack'[i].module = stack[i].module
                     /\ i # C => stack'[i].entered = stack[i].entered
  /\ stack'[C].entered = Append(stack[C].entered, d)
  /\ stack'[n + 1].kind = "module" /\ stack'[n + 1].module = d
  /\ Len(mods) \in Nat /\ Len(mods') = Len(mods)
  /\ mods[d].status # "evaluating" /\ mods'[d].status = "evaluating"
  /\ \A x \in 1..Len(mods) : x # d => mods'[x].status = mods[x].status

(* Evaluations stay in order when one of them goes deeper. *)
LEMMA Descended ==
  ASSUME NEW n \in Nat, NEW C \in 1..n, C < n, NEW d \in 1..Len(mods), Evaluations,
         Deeper(n, C, d)
  PROVE  Evaluations'
<1>1. /\ n + 1 \in 1..n + 1 /\ n \in 1..n /\ \A i \in 1..n : i \in 1..n + 1
      /\ \A i \in 1..n + 1 : i \in 1..n \/ i = n + 1
  <2>1. n >= 1
    OBVIOUS
  <2>2. QED
    BY <2>1
<1>a. /\ stack \in Seq(Frame) /\ stack' \in Seq(Frame) /\ n = Len(stack) /\ Len(stack') = n + 1
  BY DEF Deeper
<1>b. IsImport(C) /\ \A j \in 1..n : j > C => stack[j].kind = "module"
  BY DEF Deeper
<1>c. \A i \in 1..n : /\ stack'[i].kind = stack[i].kind /\ stack'[i].phase = stack[i].phase
                      /\ stack'[i].module = stack[i].module
  BY DEF Deeper
<1>d. /\ \A i \in 1..n : i # C => stack'[i].entered = stack[i].entered
      /\ stack'[C].entered = Append(stack[C].entered, d)
  BY DEF Deeper
<1>e. stack'[n + 1].kind = "module" /\ stack'[n + 1].module = d
  BY DEF Deeper
<1>f. /\ Len(mods) \in Nat /\ Len(mods') = Len(mods)
      /\ mods[d].status # "evaluating" /\ mods'[d].status = "evaluating"
      /\ \A x \in 1..Len(mods) : x # d => mods'[x].status = mods[x].status
  BY DEF Deeper
<1>2. \A i \in 1..n : /\ stack[i].entered \in Seq(Nat) /\ Len(stack[i].entered) \in Nat
  BY <1>a, FramesOf, FrameFields
<1>3. PICK e \in Seq(Nat) : e = stack[C].entered
  BY <1>2
<1>4. PICK q \in Nat : q = Len(e)
  BY <1>3
<1>5. /\ Len(stack'[C].entered) = q + 1 /\ stack'[C].entered[q + 1] = d
      /\ \A a \in 1..q : stack'[C].entered[a] = e[a]
  <2>1. d \in Nat
    BY <1>f
  <2>2. QED
    BY <2>1, <1>d, <1>3, <1>4, AppendProperties
<1>6. \A i \in 1..n : IsImport(i)' <=> IsImport(i)
  BY <1>1, <1>a, <1>c DEF IsImport
<1>7. ~IsImport(n + 1)'
  BY <1>e DEF IsImport
<1>8. \A c, i \in 1..n : Within(c, i)' <=> Within(c, i)
  <2> SUFFICES ASSUME NEW c \in 1..n, NEW i \in 1..n PROVE Within(c, i)' <=> Within(c, i)
    OBVIOUS
  <2>1. i \in c + 1 .. n + 1 <=> i \in c + 1 .. n
    OBVIOUS
  <2>2. \A j \in c + 1 .. i : j \in 1..n
    OBVIOUS
  <2>3. (\A j \in c + 1 .. i : stack'[j].kind = "module")
          <=> (\A j \in c + 1 .. i : stack[j].kind = "module")
    BY <2>2, <1>c
  <2>4. QED
    BY <2>1, <2>3, <1>6, <1>a DEF Within
<1>9. Within(C, n + 1)'
  <2>1. n + 1 \in C + 1 .. n + 1
    OBVIOUS
  <2>a. \A j \in C + 1 .. n + 1 : j = n + 1 \/ (j \in 1..n /\ j > C)
    OBVIOUS
  <2>2. \A j \in C + 1 .. n + 1 : stack'[j].kind = "module"
    BY <2>a, <1>b, <1>c, <1>e
  <2>3. QED
    BY <2>1, <2>2, <1>6, <1>a, <1>b DEF Within
<1>10. ASSUME NEW c \in 1..n + 1, NEW i \in 1..n + 1, Within(c, i)'
       PROVE  \/ c \in 1..n /\ i \in 1..n /\ Within(c, i)
              \/ c = C /\ i = n + 1
  <2>1. c \in 1..n
    BY <1>10, <1>1, <1>7 DEF Within
  <2>2. CASE i \in 1..n
    BY <2>1, <2>2, <1>8, <1>10
  <2>3. CASE i = n + 1
    <3>1. ~(c > C)
      BY <2>1, <1>6, <1>10, <1>b DEF Within, IsImport
    <3>2. ~(c < C)
      <4>1. c < C => C \in c + 1 .. n + 1
        BY <2>1
      <4>2. QED
        BY <4>1, <2>3, <1>b, <1>c, <1>6, <1>10 DEF Within, IsImport
    <3>3. QED
      BY <2>1, <2>3, <3>1, <3>2
  <2>4. QED
    BY <2>2, <2>3, <1>1
<1>11. ASSUME NEW c \in 1..n + 1, UnderEvaluation(c)'
       PROVE  c \in 1..n /\ IsImport(c) /\ UnderEvaluation(c)
  <2>1. c \in 1..n /\ IsImport(c)
    BY <1>1, <1>6, <1>7, <1>11 DEF UnderEvaluation
  <2>2. c # n
    BY <2>1, <1>1, <1>b DEF IsImport
  <2>3. QED
    BY <2>1, <2>2, <1>a DEF UnderEvaluation
<1>12. Pile'
  <2>1. ASSUME NEW i \in 1..n + 1, stack'[i].kind = "module"
        PROVE  \E c \in 1..n + 1 : Within(c, i)'
    <3>1. CASE i \in 1..n
      <4>1. PICK c \in 1..n : Within(c, i)
        BY <3>1, <2>1, <1>a, <1>c DEF Evaluations, Pile
      <4>2. QED
        BY <4>1, <3>1, <1>1, <1>8
    <3>2. CASE i = n + 1
      BY <3>2, <1>1, <1>9
    <3>3. QED
      BY <3>1, <3>2, <1>1
  <2>2. ASSUME NEW i \in 1..n + 1, IsImport(i)' PROVE stack'[i].phase \in How
    <3>1. i \in 1..n
      BY <2>2, <1>1, <1>7
    <3>2. QED
      BY <3>1, <2>2, <1>6, <1>a, <1>c DEF Evaluations, Pile
  <2>3. ASSUME NEW i \in 1..n + 1, IsImport(i)', i > 1 PROVE stack'[i - 1].kind = "module"
    <3>1. i \in 1..n /\ i - 1 \in 1..n
      <4>1. i # n + 1
        BY <2>3, <1>7
      <4>2. i \in 1..n
        BY <4>1, <1>1
      <4>3. QED
        BY <4>2, <2>3
    <3>2. QED
      <4>1. stack[i - 1].kind = "module"
        BY <3>1, <2>3, <1>6, <1>a DEF Evaluations, Pile
      <4>2. QED
        BY <3>1, <4>1, <1>c
  <2>4. QED
    BY <2>1, <2>2, <2>3, <1>a DEF Pile
<1>13. ASSUME NEW c \in 1..n, UnderEvaluation(c), NEW a \in 1..Len(stack[c].entered)
       PROVE  /\ stack[c].entered[a] \in 1..Len(mods)
              /\ mods'[stack[c].entered[a]].status = "evaluating"
              /\ stack[c].entered[a] # d
  <2>1. /\ stack[c].entered[a] \in 1..Len(mods)
        /\ mods[stack[c].entered[a]].status = "evaluating"
    BY <1>13, <1>a DEF Evaluations, EnteredOnce
  <2>2. QED
    BY <2>1, <1>f
<1>14. UnderEvaluation(C)
  BY <1>a, <1>b DEF UnderEvaluation
<1>15. ASSUME NEW c \in 1..n, NEW a \in 1..Len(stack'[c].entered)
       PROVE  \/ a \in 1..Len(stack[c].entered) /\ stack'[c].entered[a] = stack[c].entered[a]
              \/ c = C /\ a = q + 1 /\ stack'[c].entered[a] = d
  <2>1. CASE c # C
    BY <2>1, <1>d
  <2>2. CASE c = C
    <3>1. a \in 1..q \/ a = q + 1
      BY <2>2, <1>5
    <3>2. QED
      BY <3>1, <2>2, <1>3, <1>4, <1>5
  <2>3. QED
    BY <2>1, <2>2
<1>16. EnteredOnce'
  <2>1. ASSUME NEW c \in 1..n + 1, UnderEvaluation(c)', NEW a \in 1..Len(stack'[c].entered)
        PROVE  /\ stack'[c].entered[a] \in 1..Len(mods')
               /\ mods'[stack'[c].entered[a]].status = "evaluating"
    <3>1. c \in 1..n /\ UnderEvaluation(c)
      BY <2>1, <1>11
    <3>2. CASE a \in 1..Len(stack[c].entered) /\ stack'[c].entered[a] = stack[c].entered[a]
      BY <3>1, <3>2, <1>13, <1>f
    <3>3. CASE stack'[c].entered[a] = d
      BY <3>3, <1>f
    <3>4. QED
      BY <3>1, <3>2, <3>3, <1>15
  <2>2. ASSUME NEW c \in 1..n + 1, NEW b \in 1..n + 1,
               UnderEvaluation(c)', UnderEvaluation(b)',
               NEW x \in 1..Len(stack'[c].entered), NEW y \in 1..Len(stack'[b].entered),
               stack'[c].entered[x] = stack'[b].entered[y]
        PROVE  c = b /\ x = y
    <3>1. c \in 1..n /\ UnderEvaluation(c) /\ b \in 1..n /\ UnderEvaluation(b)
      BY <2>2, <1>11
    <3>2. \/ x \in 1..Len(stack[c].entered) /\ stack'[c].entered[x] = stack[c].entered[x]
          \/ c = C /\ x = q + 1 /\ stack'[c].entered[x] = d
      BY <3>1, <1>15
    <3>3. \/ y \in 1..Len(stack[b].entered) /\ stack'[b].entered[y] = stack[b].entered[y]
          \/ b = C /\ y = q + 1 /\ stack'[b].entered[y] = d
      BY <3>1, <1>15
    <3>4. CASE /\ x \in 1..Len(stack[c].entered) /\ stack'[c].entered[x] = stack[c].entered[x]
               /\ y \in 1..Len(stack[b].entered) /\ stack'[b].entered[y] = stack[b].entered[y]
      <4>1. stack[c].entered[x] = stack[b].entered[y]
        BY <3>4, <2>2
      <4>2. QED
        BY <3>1, <3>4, <4>1, <1>a DEF Evaluations, EnteredOnce
    <3>5. /\ \A a \in 1..Len(stack[c].entered) : stack[c].entered[a] # d
          /\ \A a \in 1..Len(stack[b].entered) : stack[b].entered[a] # d
      BY <3>1, <1>13
    <3>6. QED
      BY <3>2, <3>3, <3>4, <3>5, <2>2
  <2>3. QED
    BY <2>1, <2>2, <1>a DEF EnteredOnce
<1>17. ASSUME NEW c \in 1..n, NEW i \in 1..n, Within(c, i)
       PROVE  /\ stack[i].module # d
              /\ \E a \in 1..Len(stack[c].entered) : stack[c].entered[a] = stack[i].module
  <2>1. PICK a \in 1..Len(stack[c].entered) : stack[c].entered[a] = stack[i].module
    BY <1>17, <1>a DEF Evaluations, EnteredInOrder
  <2>2. UnderEvaluation(c)
    BY <1>17, <1>a DEF Within, UnderEvaluation
  <2>3. QED
    BY <2>1, <2>2, <1>13
<1>18. EnteredInOrder'
  <2>1. ASSUME NEW c \in 1..n + 1, NEW i \in 1..n + 1, Within(c, i)'
        PROVE  \E a \in 1..Len(stack'[c].entered) : stack'[c].entered[a] = stack'[i].module
    <3>1. CASE c = C /\ i = n + 1
      <4>1. q + 1 \in 1..Len(stack'[c].entered) /\ stack'[c].entered[q + 1] = d
        BY <3>1, <1>5
      <4>2. QED
        BY <4>1, <3>1, <1>e
    <3>2. CASE c \in 1..n /\ i \in 1..n /\ Within(c, i)
      <4>1. PICK a \in 1..Len(stack[c].entered) : stack[c].entered[a] = stack[i].module
        BY <3>2, <1>17
      <4>2. a \in 1..Len(stack'[c].entered) /\ stack'[c].entered[a] = stack[c].entered[a]
        <5>1. CASE c # C
          BY <5>1, <3>2, <4>1, <1>d
        <5>2. CASE c = C
          BY <5>2, <4>1, <1>3, <1>4, <1>5
        <5>3. QED
          BY <5>1, <5>2
      <4>3. QED
        BY <4>1, <4>2, <3>2, <1>c
    <3>3. QED
      BY <3>1, <3>2, <2>1, <1>10
  <2>2. ASSUME NEW c \in 1..n + 1, NEW i \in 1..n + 1, NEW j \in 1..n + 1,
               Within(c, i)', Within(c, j)', i < j,
               NEW a \in 1..Len(stack'[c].entered), NEW b \in 1..Len(stack'[c].entered),
               stack'[c].entered[a] = stack'[i].module, stack'[c].entered[b] = stack'[j].module
        PROVE  a < b
    <3>1. c \in 1..n /\ i \in 1..n /\ Within(c, i)
      <4>1. i # n + 1
        BY <2>2
      <4>2. QED
        BY <4>1, <2>2, <1>10
    <3>2. a \in 1..Len(stack[c].entered) /\ stack[c].entered[a] = stack[i].module
      <4>1. stack[i].module # d /\ stack'[i].module = stack[i].module
        BY <3>1, <1>17, <1>c
      <4>2. QED
        BY <4>1, <3>1, <2>2, <1>15
    <3>3. CASE j = n + 1
      <4>1. c = C /\ stack'[c].entered[b] = d
        <5>1. n + 1 \notin 1..n
          OBVIOUS
        <5>2. QED
          BY <5>1, <3>3, <2>2, <1>10, <1>e
      <4>2. b = q + 1
        <5>1. \A x \in 1..Len(stack[C].entered) : stack[C].entered[x] # d
          BY <1>13, <1>14
        <5>2. C \in 1..n /\ b \in 1..Len(stack'[C].entered)
          BY <4>1
        <5>3. \/ b \in 1..Len(stack[C].entered) /\ stack'[C].entered[b] = stack[C].entered[b]
              \/ b = q + 1
          BY <5>2, <1>15
        <5>4. QED
          BY <4>1, <5>1, <5>3
      <4>3. a \in 1..q
        BY <3>2, <4>1, <1>3, <1>4
      <4>4. QED
        BY <4>2, <4>3
    <3>4. CASE j \in 1..n /\ Within(c, j)
      <4>1. stack[j].module # d /\ stack'[j].module = stack[j].module
        BY <3>1, <3>4, <1>17, <1>c
      <4>2. b \in 1..Len(stack[c].entered) /\ stack[c].entered[b] = stack[j].module
        BY <4>1, <3>1, <2>2, <1>15
      <4>3. QED
        <5>1. i < j /\ c \in 1..Len(stack) /\ i \in 1..Len(stack) /\ j \in 1..Len(stack)
          BY <2>2, <3>1, <3>4, <1>a
        <5>2. QED
          BY <3>1, <3>2, <3>4, <4>2, <5>1, OrderOf
    <3>5. QED
      BY <3>3, <3>4, <2>2, <1>10
  <2>3. QED
    <3>1. 1..n + 1 = 1..Len(stack')
      BY <1>a
    <3>2. QED
      BY <2>1, <2>2, <3>1, ZenonT(60) DEF EnteredInOrder
<1>19. QED
  BY <1>12, <1>16, <1>18 DEF Evaluations

-----------------------------------------------------------------------------
(* The steps of an evaluation. *)

(* y is frame f, but for what was entered. *)
SameFrame(f, y) ==
  /\ y \in Frame /\ y.kind = f.kind /\ y.module = f.module /\ y.phase = f.phase
  /\ y.key = f.key /\ y.promise = f.promise

(* Records of frames stay such records. *)
LEMMA FrameUpdates ==
  ASSUME NEW f \in Frame
  PROVE  /\ \A e \in Seq(Nat) : /\ SameFrame(f, [f EXCEPT !.entered = e])
                                /\ [f EXCEPT !.entered = e].entered = e
BY DEF Frame, SameFrame

(* y is a frame for module d. *)
FrameFor(f, y, d) == y \in Frame /\ y.kind = f.kind /\ y.module = d

(* The frame of an import is one. *)
LEMMA DependencyFrame ==
  ASSUME NEW f \in Frame, NEW d \in Nat, NEW k \in Keys
  PROVE  FrameFor(f, [f EXCEPT !.module = d, !.key = k], d)
BY DEF Frame, FrameFor

(* So is that of a module whose code begins to run. *)
LEMMA BodyFrame ==
  ASSUME NEW f \in Frame
  PROVE  FrameFor(f, [f EXCEPT !.phase = "body"], f.module)
BY DEF Frame, FrameFor

(* s with another list at call c. *)
Relisted(s, t, c, e) ==
  /\ t \in Seq(Frame) /\ Len(t) = Len(s) /\ Len(s) \in Nat
  /\ \A i \in 1..Len(s) : SameFrame(s[i], t[i]) /\ (i # c => t[i] = s[i])
  /\ t[c].entered = e

(* Changing the list of a call changes nothing else. *)
LEMMA EnteredUpdate ==
  ASSUME NEW s \in Seq(Frame), NEW c \in 1..Len(s), NEW e \in Seq(Nat)
  PROVE  Relisted(s, [s EXCEPT ![c].entered = e], c, e)
<1> DEFINE y == [s[c] EXCEPT !.entered = e]
           t == [s EXCEPT ![c] = y]
<1>1. Len(s) \in Nat /\ \A i \in 1..Len(s) : s[i] \in Frame
  BY FramesOf
<1>2. SameFrame(s[c], y) /\ y.entered = e
  BY <1>1, FrameUpdates, Zenon
<1>3. y \in Frame
  BY <1>2 DEF SameFrame
<1> HIDE DEF y
<1>4. /\ t \in Seq(Frame) /\ Len(t) = Len(s) /\ t[c] = y
      /\ \A i \in 1..Len(s) : i # c => t[i] = s[i]
  BY <1>1, <1>3
<1>5. \A i \in 1..Len(s) : SameFrame(s[i], s[i])
  BY <1>1 DEF SameFrame
<1>6. Relisted(s, t, c, e)
  <2>1. \A i \in 1..Len(s) : SameFrame(s[i], t[i])
    BY <1>2, <1>4, <1>5, Zenon
  <2> HIDE DEF t
  <2>2. QED
    BY <1>1, <1>2, <1>4, <2>1 DEF Relisted
<1>7. QED
  BY <1>6 DEF y

(* Statuses gives the modules of a set a status, and leaves the others alone. *)
Restatused(ms, e, xs, s) ==
  /\ Paired(registry, e) /\ Len(e) = Len(ms) /\ Len(ms) \in Nat
  /\ \A x \in 1..Len(ms) : e[x].status = IF x \in xs THEN s ELSE ms[x].status

(* It keeps the registry and the modules together. *)
LEMMA StatusesPairs ==
  ASSUME Paired(registry, mods), NEW xs, NEW s \in Status,
         s \in Active => \A x \in 1..Len(mods) : x \in xs => mods[x].status \in Active
  PROVE  Restatused(mods, Statuses(xs, s), xs, s)
<1> DEFINE e == Statuses(xs, s)
           up(x) == [mods[x] EXCEPT !.status = s, !.waits = FALSE]
<1>1. /\ Len(mods) \in Nat /\ DOMAIN mods = 1..Len(mods)
      /\ \A x \in 1..Len(mods) : mods[x] \in ModuleOf(Len(mods))
  BY PairedFacts
<1>2. \A x \in 1..Len(mods) : Restatus(Len(mods), mods[x], up(x), s)
  <2>1. FALSE \in BOOLEAN
    OBVIOUS
  <2>2. QED
    BY <2>1, <1>1, ModuleUpdates, Zenon
<1>3. \A x \in 1..Len(mods) :
        up(x) \in ModuleOf(Len(mods)) /\ up(x).status = s /\ up(x).key = mods[x].key
  BY <1>2, Zenon DEF Restatus
<1>4. e = [x \in 1..Len(mods) |-> IF x \in xs THEN up(x) ELSE mods[x]]
  BY <1>1, Zenon DEF Statuses
<1> HIDE DEF e, up
<1>5. e \in [1..Len(mods) -> ModuleOf(Len(mods))]
  BY <1>1, <1>3, <1>4
<1>6. e \in Seq(ModuleOf(Len(mods))) /\ Len(e) = Len(mods)
  BY <1>1, <1>5
<1>7. \A x \in 1..Len(mods) : /\ e[x].key = mods[x].key
                              /\ e[x].status = IF x \in xs THEN s ELSE mods[x].status
  BY <1>3, <1>4
<1>8. \A x \in 1..Len(mods) :
        /\ e[x].key = mods[x].key
        /\ e[x].status \in Active => mods[x].status \in Active \/ registry[mods[x].key] = x
  BY <1>7
<1>9. Paired(registry, e)
  BY <1>6, <1>8, RestatusPairs
<1>10. QED
  BY <1>1, <1>6, <1>7, <1>9 DEF Restatused, e

(* The import() calls on the stack are left alone. *)
CallsKept ==
  /\ \A i : IsImport(i)' <=> IsImport(i)
  /\ \A i : IsImport(i) => /\ stack'[i].key = stack[i].key /\ stack'[i].phase = stack[i].phase
                           /\ stack'[i].promise = stack[i].promise

(* What a step of V8 inside an evaluation does. *)
EvaluationStep ==
  /\ Paired(registry, mods') /\ Len(mods') = Len(mods)
  /\ stack' \in Seq(Frame) /\ \A i \in 1..Len(stack') : stack'[i].module \in 1..Len(mods)
  /\ CallsKept /\ Evaluations'

(* Such a step keeps the invariant: who answers whom does not change. *)
LEMMA EvaluationStepKeeps ==
  ASSUME IInv, EvaluationStep, UnchangedLoader
  PROVE  IInv'
<1>1. /\ registry' = registry /\ inFlight' = inFlight /\ waiters' = waiters
      /\ promises' = promises /\ jobs' = jobs /\ aborted' = aborted
  BY DEF UnchangedLoader
<1>2. Paired(registry, mods)' /\ Evaluations'
  BY <1>1 DEF EvaluationStep
<1>3. Shapes'
  <2>1. Shapes
    BY DEF IInv
  <2>2. QED
    BY <1>1, <2>1 DEF EvaluationStep, Shapes
<1>4. /\ stack \in Seq(Frame) /\ stack' \in Seq(Frame)
      /\ \A i : IsImport(i)' <=> IsImport(i)
      /\ \A i : IsImport(i) => i \in 1..Len(stack) /\ i \in 1..Len(stack')
      /\ \A i : IsImport(i) => /\ stack'[i].key = stack[i].key
                               /\ stack'[i].phase = stack[i].phase
                               /\ stack'[i].promise = stack[i].promise
  BY DEF EvaluationStep, CallsKept, IInv, Shapes, IsImport
<1>5. \A i, k : FrameOwns(i, k)' <=> FrameOwns(i, k)
  BY <1>4 DEF FrameOwns
<1>6. \A j, k : JobOwns(j, k)' <=> JobOwns(j, k)
  BY <1>1 DEF JobOwns
<1>7. \A k : (\E i \in 1..Len(stack') : FrameOwns(i, k)')
               <=> (\E i \in 1..Len(stack) : FrameOwns(i, k))
  BY <1>4, <1>5 DEF FrameOwns
<1>8. Flight'
  <2>1. Flight
    BY DEF IInv
  <2> SUFFICES ASSUME NEW k \in Keys
               PROVE  /\ ~aborted' => (k \in inFlight' <=>
                            \/ \E i \in 1..Len(stack') : FrameOwns(i, k)'
                            \/ \E j \in jobs' : JobOwns(j, k)')
                      /\ waiters'[k] # {} => k \in inFlight'
                      /\ \A i, l \in 1..Len(stack') :
                           FrameOwns(i, k)' /\ FrameOwns(l, k)' => i = l
                      /\ \A j, l \in jobs' : JobOwns(j, k)' /\ JobOwns(l, k)' => j = l
                      /\ \A i \in 1..Len(stack'), j \in jobs' :
                           ~(FrameOwns(i, k)' /\ JobOwns(j, k)')
    BY DEF Flight
  <2>2. ~aborted => (k \in inFlight <=> \/ \E i \in 1..Len(stack) : FrameOwns(i, k)
                                        \/ \E j \in jobs : JobOwns(j, k))
    BY <2>1 DEF Flight
  <2>3. /\ waiters[k] # {} => k \in inFlight
        /\ \A i, l : FrameOwns(i, k) /\ FrameOwns(l, k) => i = l
        /\ \A j, l : JobOwns(j, k) /\ JobOwns(l, k) => j = l
        /\ \A i, j : ~(FrameOwns(i, k) /\ JobOwns(j, k))
    BY <2>1 DEF Flight, FrameOwns, JobOwns, IsImport
  <2>4. ~aborted' => (k \in inFlight' <=> \/ \E i \in 1..Len(stack') : FrameOwns(i, k)'
                                          \/ \E j \in jobs' : JobOwns(j, k)')
    BY <2>2, <1>1, <1>6, <1>7
  <2>5. QED
    BY <2>3, <2>4, <1>1, <1>5, <1>6
<1>9. Holders'
  <2>1. Holders
    BY DEF IInv
  <2>2. \A p : Pending(p)' <=> Pending(p)
    BY <1>1 DEF Pending
  <2>3. /\ \A i \in 1..Len(stack') : IsImport(i)' => Pending(stack[i].promise)
        /\ \A i, l \in 1..Len(stack') :
             IsImport(i)' /\ IsImport(l)' /\ stack'[i].promise = stack'[l].promise => i = l
        /\ \A i \in 1..Len(stack'), j \in jobs' : IsImport(i)' => stack'[i].promise # j.promise
    BY <2>1, <1>1, <1>4 DEF Holders
  <2>4. \A k \in Keys, i \in 1..Len(stack') :
          IsImport(i)' /\ stack'[i].promise \in waiters'[k] => FrameOwns(i, k)'
    BY <2>1, <1>1, <1>4, <1>5 DEF Holders
  <2>5. \A i \in 1..Len(stack') : IsImport(i)' => Pending(stack[i].promise)'
    <3> SUFFICES ASSUME NEW i \in 1..Len(stack'), IsImport(i)'
                 PROVE  stack'[i].promise \in DOMAIN promises'
                        /\ promises'[stack'[i].promise].state = "pending"
      BY DEF Pending
    <3>1. Pending(stack[i].promise) /\ stack'[i].promise = stack[i].promise
      BY <2>3, <1>4
    <3>2. QED
      BY <3>1, <1>1 DEF Pending
  <2>6. /\ \A j \in jobs' : Pending(j.promise)'
        /\ \A k \in Keys : \A p \in waiters'[k] : Pending(p)'
        /\ \A j, l \in jobs' : j.promise = l.promise => j = l
        /\ \A k, l \in Keys : k # l => waiters'[k] \cap waiters'[l] = {}
        /\ \A k \in Keys, j \in jobs' : j.promise \in waiters'[k] => JobOwns(j, k)'
    BY <2>1, <2>2, <1>1, <1>6 DEF Holders
  <2>7. QED
    BY <2>3, <2>4, <2>5, <2>6 DEF Holders
<1>10. QED
  BY <1>2, <1>3, <1>8, <1>9 DEF IInv

(* What is known when V8 evaluates the innermost module. *)
LEMMA Innermost ==
  ASSUME IInv, Evaluating
  PROVE  /\ stack \in Seq(Frame) /\ Len(stack) \in Nat /\ Len(stack) \in 1..Len(stack)
         /\ Top = stack[Len(stack)] /\ Top \in Frame /\ Top.kind = "module"
         /\ Top.module \in 1..Len(mods)
         /\ Caller \in 1..Len(stack) /\ Caller < Len(stack) /\ IsImport(Caller)
         /\ Within(Caller, Len(stack))
         /\ \A j \in 1..Len(stack) : j > Caller => stack[j].kind = "module"
         /\ stack[Caller].entered \in Seq(Nat) /\ Len(stack[Caller].entered) \in Nat
         /\ Paired(registry, mods) /\ Len(mods) \in Nat /\ Evaluations
<1>1. stack \in Seq(Frame) /\ Pile /\ stack # <<>> /\ Top.kind = "module"
  BY DEF IInv, Shapes, Evaluations, Evaluating
<1>2. /\ Len(stack) \in 1..Len(stack) /\ Len(stack) \in Nat /\ Top = stack[Len(stack)]
      /\ Caller \in 1..Len(stack) /\ Caller < Len(stack) /\ IsImport(Caller)
      /\ Within(Caller, Len(stack))
      /\ \A j \in 1..Len(stack) : j > Caller => stack[j].kind = "module"
  BY <1>1, CallerIs
<1>3. stack[Len(stack)] \in Frame /\ stack[Caller] \in Frame
  BY <1>1, <1>2, FramesOf
<1>4. stack[Caller].entered \in Seq(Nat) /\ Len(stack[Caller].entered) \in Nat
  BY <1>3, FrameFields
<1>5. Paired(registry, mods) /\ Evaluations /\ stack[Len(stack)].module \in 1..Len(mods)
  BY <1>2 DEF IInv, Shapes
<1>6. Len(mods) \in Nat
  BY <1>5, PairedFacts
<1>7. QED
  BY <1>1, <1>2, <1>3, <1>4, <1>5, <1>6

(* V8 goes on to an import of the innermost module. *)
LEMMA DependencyStep ==
  ASSUME IInv, EvaluateDependency
  PROVE  EvaluationStep
<1>0. Evaluating
  BY DEF EvaluateDependency
<1>1. PICK d \in Deps(Top.module, "linked") :
        /\ mods' = Statuses({d}, "evaluating")
        /\ stack' = Append([stack EXCEPT ![Caller].entered = Append(@, d)],
                           [Top EXCEPT !.module = d, !.key = mods[d].key])
  BY DEF EvaluateDependency
<1>2. /\ stack \in Seq(Frame) /\ Top \in Frame /\ Top.kind = "module"
      /\ Top.module \in 1..Len(mods) /\ Caller \in 1..Len(stack) /\ Caller < Len(stack)
      /\ IsImport(Caller) /\ stack[Caller].entered \in Seq(Nat)
      /\ \A j \in 1..Len(stack) : j > Caller => stack[j].kind = "module"
      /\ Paired(registry, mods) /\ Len(mods) \in Nat /\ Evaluations
  BY <1>0, Innermost
<1>3. PICK n \in Nat : n = Len(stack)
  BY <1>2
<1>4. PICK C \in 1..n : C = Caller
  BY <1>2, <1>3
<1>5. d \in 1..Len(mods) /\ d \in Nat /\ mods[d].status = "linked" /\ mods[d].key \in Keys
  <2>1. d \in mods[Top.module].deps /\ mods[d].status = "linked"
    BY <1>1 DEF Deps
  <2>2. mods[Top.module].deps \subseteq 1..Len(mods)
    BY <1>2, PairedFacts
  <2>3. d \in 1..Len(mods)
    BY <2>1, <2>2
  <2>4. mods[d].key \in Keys
    BY <2>3, <1>2, PairedFacts
  <2>5. QED
    BY <2>1, <2>3, <2>4
<1> DEFINE e == Append(stack[C].entered, d)
           s == [stack EXCEPT ![C].entered = e]
           G == [Top EXCEPT !.module = d, !.key = mods[d].key]
<1>6. stack' = Append(s, G)
  BY <1>1, <1>4
<1>7. e \in Seq(Nat)
  BY <1>2, <1>4, <1>5
<1>8. Relisted(stack, s, C, e)
  <2> HIDE DEF e
  <2>1. QED
    BY <1>2, <1>3, <1>7, EnteredUpdate
<1>9. G \in Frame /\ G.kind = "module" /\ G.module = d
  <2>1. FrameFor(Top, G, d)
    BY <1>2, <1>5, DependencyFrame, Zenon
  <2> HIDE DEF G
  <2>2. QED
    BY <2>1, <1>2 DEF FrameFor
<1> HIDE DEF s, G, e
<1>10. s \in Seq(Frame) /\ Len(s) = n
  BY <1>3, <1>8 DEF Relisted
<1>11. /\ stack' \in Seq(Frame) /\ Len(stack') = n + 1 /\ stack'[n + 1] = G
       /\ \A i \in 1..n : stack'[i] = s[i]
  BY <1>6, <1>9, <1>10, AppendProperties
<1>12. /\ \A i \in 1..n : /\ stack'[i].kind = stack[i].kind /\ stack'[i].phase = stack[i].phase
                          /\ stack'[i].module = stack[i].module /\ stack'[i].key = stack[i].key
                          /\ stack'[i].promise = stack[i].promise
                          /\ i # C => stack'[i].entered = stack[i].entered
       /\ stack'[C].entered = Append(stack[C].entered, d)
  BY <1>3, <1>8, <1>11 DEF Relisted, SameFrame, e
<1>13. Restatused(mods, mods', {d}, "evaluating")
  <2>1. "evaluating" \in Status /\ \A x \in 1..Len(mods) : x \in {d} => mods[x].status \in Active
    BY <1>5 DEF Status, Active
  <2>2. QED
    BY <2>1, <1>1, <1>2, StatusesPairs
<1>14. /\ Paired(registry, mods') /\ Len(mods') = Len(mods) /\ mods'[d].status = "evaluating"
       /\ \A x \in 1..Len(mods) : x # d => mods'[x].status = mods[x].status
  BY <1>5, <1>13 DEF Restatused
<1>15. Deeper(n, C, d)
  BY <1>2, <1>3, <1>4, <1>5, <1>9, <1>11, <1>12, <1>14 DEF Deeper
<1>16. Evaluations'
  <2>1. C < n
    BY <1>2, <1>3, <1>4
  <2>2. QED
    BY <2>1, <1>2, <1>5, <1>15, Descended
<1>17. CallsKept
  <2>1. \A i \in 1..n + 1 : i \in 1..n \/ i = n + 1
    OBVIOUS
  <2>2. n + 1 \notin 1..n /\ \A i \in 1..n : i \in 1..n + 1
    OBVIOUS
  <2>3. \A i : IsImport(i)' <=> IsImport(i)
    BY <2>1, <2>2, <1>3, <1>9, <1>11, <1>12 DEF IsImport
  <2>4. \A i : IsImport(i) => i \in 1..n
    BY <1>3 DEF IsImport
  <2>5. QED
    BY <2>3, <2>4, <1>12 DEF CallsKept
<1>18. \A i \in 1..Len(stack') : stack'[i].module \in 1..Len(mods)
  <2> SUFFICES ASSUME NEW i \in 1..n + 1 PROVE stack'[i].module \in 1..Len(mods)
    BY <1>11
  <2>1. CASE i = n + 1
    BY <2>1, <1>5, <1>9, <1>11
  <2>2. CASE i \in 1..n
    BY <2>2, <1>3, <1>12 DEF IInv, Shapes
  <2>3. QED
    BY <2>1, <2>2
<1>19. QED
  BY <1>11, <1>14, <1>16, <1>17, <1>18 DEF EvaluationStep

(* Steps that shorten the stack down to a call, or not at all. *)
LEMMA ShorteningStep ==
  ASSUME IInv, Evaluating, stack' \in Seq(Frame), Len(stack') <= Len(stack),
         Caller <= Len(stack'),
         \A i \in 1..Len(stack') :
           /\ stack'[i].kind = stack[i].kind /\ stack'[i].module = stack[i].module
           /\ stack'[i].kind = "import" =>
                /\ stack'[i].phase = stack[i].phase /\ stack'[i].key = stack[i].key
                /\ stack'[i].promise = stack[i].promise
  PROVE  /\ CallsKept /\ \A i \in 1..Len(stack') : stack'[i].module \in 1..Len(mods)
         /\ \A i \in 1..Len(stack') : i \in 1..Len(stack)
<1>1. /\ Len(stack) \in Nat /\ Len(stack') \in Nat /\ Caller \in 1..Len(stack)
      /\ \A j \in 1..Len(stack) : j > Caller => stack[j].kind = "module"
  BY Innermost
<1>2. \A i \in 1..Len(stack') : i \in 1..Len(stack)
  BY <1>1
<1>3. \A i : IsImport(i) => i \in 1..Len(stack')
  <2> SUFFICES ASSUME NEW i, IsImport(i) PROVE i \in 1..Len(stack')
    OBVIOUS
  <2>1. i \in 1..Len(stack) /\ ~(i > Caller)
    BY <1>1 DEF IsImport
  <2>2. QED
    BY <2>1, <1>1
<1>4. \A i : IsImport(i)' <=> IsImport(i)
  BY <1>2, <1>3 DEF IsImport
<1>5. CallsKept
  BY <1>3, <1>4 DEF CallsKept, IsImport
<1>6. \A i \in 1..Len(stack') : stack'[i].module \in 1..Len(mods)
  BY <1>2 DEF IInv, Shapes
<1>7. QED
  BY <1>2, <1>5, <1>6

(* The first k elements of a sequence. *)
LEMMA CutAt ==
  ASSUME NEW S, NEW s \in Seq(S), NEW k \in 0..Len(s)
  PROVE  /\ SubSeq(s, 1, k) \in Seq(S) /\ Len(SubSeq(s, 1, k)) = k
         /\ \A i \in 1..k : SubSeq(s, 1, k)[i] = s[i]
<1>1. Len(s) \in Nat
  OBVIOUS
<1>2. SubSeq(s, 1, k) = [i \in 1..k |-> s[i]]
  BY <1>1
<1>3. \A i \in 1..k : s[i] \in S
  BY <1>1, ElementOfSeq
<1>4. QED
  BY <1>1, <1>2, <1>3

(* The code of the innermost module begins to run. *)
LEMMA RunBodyStep ==
  ASSUME IInv, RunBody
  PROVE  EvaluationStep
<1>0. Evaluating /\ mods' = mods /\ stack' = [stack EXCEPT ![Len(stack)].phase = "body"]
  BY DEF RunBody
<1>1. /\ stack \in Seq(Frame) /\ Len(stack) \in Nat /\ Len(stack) \in 1..Len(stack)
      /\ Top = stack[Len(stack)] /\ Top \in Frame /\ Top.kind = "module"
      /\ Caller \in 1..Len(stack) /\ Caller < Len(stack)
      /\ Paired(registry, mods) /\ Evaluations
  BY <1>0, Innermost
<1>2. FrameFor(Top, [Top EXCEPT !.phase = "body"], Top.module)
  BY <1>1, BodyFrame
<1>a. [Top EXCEPT !.phase = "body"].entered = Top.entered
  BY <1>1 DEF Frame
<1> DEFINE G == [Top EXCEPT !.phase = "body"]
<1>3. G \in Frame /\ G.kind = "module" /\ G.module = Top.module
  BY <1>1, <1>2 DEF FrameFor
<1>4. stack' = [stack EXCEPT ![Len(stack)] = G]
  BY <1>0, <1>1
<1> HIDE DEF G
<1>5. /\ stack' \in Seq(Frame) /\ Len(stack') = Len(stack) /\ stack'[Len(stack)] = G
      /\ \A i \in 1..Len(stack) : i # Len(stack) => stack'[i] = stack[i]
  BY <1>1, <1>3, <1>4
<1>6. \A i \in 1..Len(stack') :
        /\ stack'[i].kind = stack[i].kind /\ stack'[i].module = stack[i].module
        /\ stack'[i].entered = stack[i].entered
        /\ stack'[i].kind = "import" =>
             /\ stack'[i].phase = stack[i].phase /\ stack'[i].key = stack[i].key
             /\ stack'[i].promise = stack[i].promise
  <2> SUFFICES ASSUME NEW i \in 1..Len(stack)
               PROVE  /\ stack'[i].kind = stack[i].kind /\ stack'[i].module = stack[i].module
                      /\ stack'[i].entered = stack[i].entered
                      /\ stack'[i].kind = "import" =>
                           /\ stack'[i].phase = stack[i].phase /\ stack'[i].key = stack[i].key
                           /\ stack'[i].promise = stack[i].promise
    BY <1>5
  <2>1. CASE i = Len(stack)
    <3>1. G.entered = Top.entered
      BY <1>a DEF G
    <3>2. QED
      BY <2>1, <3>1, <1>1, <1>3, <1>5
  <2>2. CASE i # Len(stack)
    BY <2>2, <1>5
  <2>3. QED
    BY <2>1, <2>2
<1>7. Len(stack') <= Len(stack) /\ Caller <= Len(stack')
  BY <1>1, <1>5
<1>8. CallsKept /\ \A i \in 1..Len(stack') : stack'[i].module \in 1..Len(mods)
  <2>1. /\ CallsKept /\ \A i \in 1..Len(stack') : stack'[i].module \in 1..Len(mods)
        /\ \A i \in 1..Len(stack') : i \in 1..Len(stack)
    BY <1>0, <1>5, <1>6, <1>7, ShorteningStep
  <2>2. QED
    BY <2>1
<1>9. Evaluations'
  <2>1. \A c \in 1..Len(stack') : Len(stack[c].entered) \in Nat
    BY <1>1, <1>5, FramesOf, FrameFields
  <2>2. \A c \in 1..Len(stack') : IsImport(c) /\ c < Len(stack') =>
          /\ Len(stack'[c].entered) <= Len(stack[c].entered)
          /\ \A a \in 1..Len(stack'[c].entered) :
               /\ stack'[c].entered[a] = stack[c].entered[a]
               /\ stack[c].entered[a] \in 1..Len(mods')
               /\ mods'[stack[c].entered[a]].status = "evaluating"
    <3> SUFFICES ASSUME NEW c \in 1..Len(stack'), IsImport(c), c < Len(stack')
                 PROVE  /\ Len(stack'[c].entered) <= Len(stack[c].entered)
                        /\ \A a \in 1..Len(stack'[c].entered) :
                             /\ stack'[c].entered[a] = stack[c].entered[a]
                             /\ stack[c].entered[a] \in 1..Len(mods')
                             /\ mods'[stack[c].entered[a]].status = "evaluating"
      OBVIOUS
    <3>1. UnderEvaluation(c) /\ c \in 1..Len(stack) /\ stack'[c].entered = stack[c].entered
      BY <1>5, <1>6 DEF UnderEvaluation
    <3>2. \A a \in 1..Len(stack[c].entered) :
            /\ stack[c].entered[a] \in 1..Len(mods)
            /\ mods[stack[c].entered[a]].status = "evaluating"
      BY <3>1, <1>1 DEF Evaluations, EnteredOnce
    <3>3. QED
      BY <3>1, <3>2, <2>1, <1>0
  <2>3. \A c, i \in 1..Len(stack') : Within(c, i) =>
          \A a \in 1..Len(stack[c].entered) :
            stack[c].entered[a] = stack[i].module => a <= Len(stack'[c].entered)
    BY <2>1, <1>6
  <2>4. \A i \in 1..Len(stack') :
          /\ stack'[i].kind = stack[i].kind /\ stack'[i].module = stack[i].module
          /\ stack'[i].kind = "import" => stack'[i].phase = stack[i].phase
    BY <1>6
  <2>5. QED
    BY <2>2, <2>3, <2>4, <1>1, <1>5, <1>7, Shortened
<1>10. QED
  BY <1>0, <1>1, <1>5, <1>8, <1>9 DEF EvaluationStep

(* The evaluation fails: what it has entered is errored, and the call goes on. *)
LEMMA ThrowsStep ==
  ASSUME IInv, BodyThrows
  PROVE  EvaluationStep
<1>0. /\ Evaluating /\ mods' = Statuses(ToSet(stack[Caller].entered), "errored")
      /\ stack' = SubSeq(stack, 1, Caller)
  BY DEF BodyThrows
<1>1. /\ stack \in Seq(Frame) /\ Len(stack) \in Nat
      /\ Caller \in 1..Len(stack) /\ Caller < Len(stack) /\ IsImport(Caller)
      /\ stack[Caller].entered \in Seq(Nat)
      /\ Paired(registry, mods) /\ Len(mods) \in Nat /\ Evaluations
  BY <1>0, Innermost
<1>2. PICK C \in 1..Len(stack) : C = Caller
  BY <1>1
<1>3. /\ stack' \in Seq(Frame) /\ Len(stack') = C
      /\ \A i \in 1..C : stack'[i] = stack[i]
  <2>1. C \in 0..Len(stack)
    BY <1>1
  <2>2. QED
    BY <2>1, <1>0, <1>1, <1>2, CutAt
<1>4. PICK e \in Seq(Nat) : e = stack[C].entered
  BY <1>1, <1>2
<1>5. Restatused(mods, mods', ToSet(e), "errored")
  <2>1. "errored" \in Status /\ "errored" \notin Active
    BY DEF Status, Active
  <2>2. QED
    BY <2>1, <1>0, <1>1, <1>2, <1>4, StatusesPairs
<1>6. /\ Paired(registry, mods') /\ Len(mods') = Len(mods)
      /\ \A x \in 1..Len(mods) : x \notin ToSet(e) => mods'[x].status = mods[x].status
  BY <1>5 DEF Restatused
<1>7. ToSet(e) = {e[a] : a \in 1..Len(e)}
  BY <1>4 DEF ToSet
<1>8. \A i \in 1..Len(stack') :
        /\ stack'[i].kind = stack[i].kind /\ stack'[i].module = stack[i].module
        /\ stack'[i].entered = stack[i].entered
        /\ stack'[i].kind = "import" =>
             /\ stack'[i].phase = stack[i].phase /\ stack'[i].key = stack[i].key
             /\ stack'[i].promise = stack[i].promise
  BY <1>3
<1>9. Len(stack') <= Len(stack) /\ Caller <= Len(stack')
  BY <1>1, <1>2, <1>3
<1>10. /\ CallsKept /\ \A i \in 1..Len(stack') : stack'[i].module \in 1..Len(mods)
       /\ \A i \in 1..Len(stack') : i \in 1..Len(stack)
  BY <1>0, <1>3, <1>8, <1>9, ShorteningStep
<1>11. Evaluations'
  <2>1. \A c \in 1..Len(stack') : Len(stack[c].entered) \in Nat
    BY <1>1, <1>10, FramesOf, FrameFields
  <2>2. \A c \in 1..Len(stack') : IsImport(c) /\ c < Len(stack') =>
          /\ Len(stack'[c].entered) <= Len(stack[c].entered)
          /\ \A a \in 1..Len(stack'[c].entered) :
               /\ stack'[c].entered[a] = stack[c].entered[a]
               /\ stack[c].entered[a] \in 1..Len(mods')
               /\ mods'[stack[c].entered[a]].status = "evaluating"
    <3> SUFFICES ASSUME NEW c \in 1..Len(stack'), IsImport(c), c < Len(stack')
                 PROVE  /\ Len(stack'[c].entered) <= Len(stack[c].entered)
                        /\ \A a \in 1..Len(stack'[c].entered) :
                             /\ stack'[c].entered[a] = stack[c].entered[a]
                             /\ stack[c].entered[a] \in 1..Len(mods')
                             /\ mods'[stack[c].entered[a]].status = "evaluating"
      OBVIOUS
    <3>1. /\ UnderEvaluation(c) /\ c \in 1..Len(stack) /\ stack'[c].entered = stack[c].entered
          /\ c # C
      BY <1>1, <1>3, <1>8, <1>10 DEF UnderEvaluation
    <3>2. UnderEvaluation(C)
      BY <1>1, <1>2 DEF UnderEvaluation
    <3>3. ASSUME NEW a \in 1..Len(stack[c].entered)
          PROVE  /\ stack[c].entered[a] \in 1..Len(mods')
                 /\ mods'[stack[c].entered[a]].status = "evaluating"
      <4>1. /\ stack[c].entered[a] \in 1..Len(mods)
            /\ mods[stack[c].entered[a]].status = "evaluating"
        BY <3>1, <1>1 DEF Evaluations, EnteredOnce
      <4>2. \A b \in 1..Len(e) : stack[c].entered[a] # e[b]
        BY <3>1, <3>2, <1>1, <1>4 DEF Evaluations, EnteredOnce
      <4>3. stack[c].entered[a] \notin ToSet(e)
        BY <4>2, <1>7
      <4>4. QED
        BY <4>1, <4>3, <1>6
    <3>4. QED
      BY <3>1, <3>3, <2>1
  <2>3. \A c, i \in 1..Len(stack') : Within(c, i) =>
          \A a \in 1..Len(stack[c].entered) :
            stack[c].entered[a] = stack[i].module => a <= Len(stack'[c].entered)
    BY <2>1, <1>8
  <2>4. \A i \in 1..Len(stack') :
          /\ stack'[i].kind = stack[i].kind /\ stack'[i].module = stack[i].module
          /\ stack'[i].kind = "import" => stack'[i].phase = stack[i].phase
    BY <1>8
  <2>5. QED
    BY <2>2, <2>3, <2>4, <1>1, <1>3, <1>9, Shortened
<1>12. QED
  BY <1>3, <1>6, <1>10, <1>11 DEF EvaluationStep

(* ms are the modules, but for what is noted of awaits. *)
SameStatuses(ms) ==
  /\ ms \in Seq(ModuleOf(Len(mods))) /\ Len(ms) = Len(mods) /\ DOMAIN ms = 1..Len(mods)
  /\ \A x \in 1..Len(mods) : /\ ms[x].key = mods[x].key /\ ms[x].status = mods[x].status
                             /\ ms[x] \in ModuleOf(Len(mods))

(* Noting an await changes nothing else. *)
LEMMA WaitsPairs ==
  ASSUME Paired(registry, mods), NEW t \in 1..Len(mods), NEW w \in BOOLEAN
  PROVE  SameStatuses([mods EXCEPT ![t].waits = w])
<1> DEFINE y == [mods[t] EXCEPT !.waits = w]
           ms == [mods EXCEPT ![t] = y]
<1>1. /\ Len(mods) \in Nat /\ DOMAIN mods = 1..Len(mods) /\ mods \in Seq(ModuleOf(Len(mods)))
      /\ \A x \in 1..Len(mods) : mods[x] \in ModuleOf(Len(mods))
  BY PairedFacts DEF Paired
<1>2. Restatus(Len(mods), mods[t], y, mods[t].status)
  <2>1. mods[t] \in ModuleOf(Len(mods)) /\ "linked" \in Status
    BY <1>1 DEF Status
  <2>2. QED
    BY <2>1, ModuleUpdates, Zenon
<1>3. y \in ModuleOf(Len(mods)) /\ y.status = mods[t].status /\ y.key = mods[t].key
  BY <1>2, Zenon DEF Restatus
<1> HIDE DEF y
<1>4. /\ ms \in Seq(ModuleOf(Len(mods))) /\ Len(ms) = Len(mods) /\ DOMAIN ms = 1..Len(mods)
      /\ ms[t] = y /\ \A x \in 1..Len(mods) : x # t => ms[x] = mods[x]
  BY <1>1, <1>3
<1>5. \A x \in 1..Len(mods) : /\ ms[x].key = mods[x].key /\ ms[x].status = mods[x].status
                              /\ ms[x] \in ModuleOf(Len(mods))
  BY <1>1, <1>3, <1>4
<1>6. QED
  BY <1>4, <1>5 DEF y, SameStatuses

(* The innermost module is left.  C is its call, and what C keeps of its list are *)
(* the first t; nothing but what comes after them stops being evaluated.          *)
Left(C, t) ==
  /\ stack' \in Seq(Frame) /\ Len(stack') = Len(stack) - 1
  /\ \A i \in 1..Len(stack') : SameFrame(stack[i], stack'[i])
                               /\ (i # C => stack'[i].entered = stack[i].entered)
  /\ t \in 0..Len(stack[C].entered)
  /\ Len(stack'[C].entered) = t
  /\ \A a \in 1..t : stack'[C].entered[a] = stack[C].entered[a]
  /\ t = Len(stack[C].entered) \/ stack[C].entered[t + 1] = Top.module
  /\ Paired(registry, mods') /\ Len(mods') = Len(mods)
  /\ \A x \in 1..Len(mods) :
       (\A a \in 1..Len(stack[C].entered) : stack[C].entered[a] = x => a <= t)
         => mods'[x].status = mods[x].status

(* Leaving a module is a step of the evaluation. *)
LEMMA LeftStep ==
  ASSUME IInv, Evaluating, NEW t, Left(Caller, t)
  PROVE  EvaluationStep
<1>1. /\ stack \in Seq(Frame) /\ Len(stack) \in Nat /\ Len(stack) \in 1..Len(stack)
      /\ Top = stack[Len(stack)]
      /\ Caller \in 1..Len(stack) /\ Caller < Len(stack) /\ IsImport(Caller)
      /\ Within(Caller, Len(stack))
      /\ stack[Caller].entered \in Seq(Nat) /\ Len(stack[Caller].entered) \in Nat
      /\ Paired(registry, mods) /\ Len(mods) \in Nat /\ Evaluations
  BY Innermost
<1>2. PICK C \in 1..Len(stack) : C = Caller
  BY <1>1
<1>3. Left(C, t)
  BY <1>2
<1>4. /\ stack' \in Seq(Frame) /\ Len(stack') = Len(stack) - 1 /\ Len(stack') \in Nat
      /\ \A i \in 1..Len(stack') : SameFrame(stack[i], stack'[i])
      /\ \A i \in 1..Len(stack') : i # C => stack'[i].entered = stack[i].entered
  BY <1>1, <1>3 DEF Left
<1>5. /\ t \in 0..Len(stack[C].entered) /\ t \in Nat /\ Len(stack'[C].entered) = t
      /\ \A a \in 1..t : stack'[C].entered[a] = stack[C].entered[a]
      /\ t = Len(stack[C].entered) \/ stack[C].entered[t + 1] = stack[Len(stack)].module
  BY <1>1, <1>3 DEF Left
<1>6. /\ Paired(registry, mods') /\ Len(mods') = Len(mods)
      /\ \A x \in 1..Len(mods) :
           (\A a \in 1..Len(stack[C].entered) : stack[C].entered[a] = x => a <= t)
             => mods'[x].status = mods[x].status
  BY <1>3 DEF Left
<1>7. \A i \in 1..Len(stack') :
        /\ stack'[i].kind = stack[i].kind /\ stack'[i].module = stack[i].module
        /\ stack'[i].phase = stack[i].phase /\ stack'[i].key = stack[i].key
        /\ stack'[i].promise = stack[i].promise
  BY <1>4 DEF SameFrame
<1>8. Len(stack') <= Len(stack) /\ C <= Len(stack')
  BY <1>1, <1>2, <1>4
<1>9. /\ CallsKept /\ \A i \in 1..Len(stack') : stack'[i].module \in 1..Len(mods)
      /\ \A i \in 1..Len(stack') : i \in 1..Len(stack)
  BY <1>2, <1>4, <1>7, <1>8, ShorteningStep
<1>10. \A c \in 1..Len(stack') : Len(stack[c].entered) \in Nat
  BY <1>1, <1>9, FramesOf, FrameFields
<1>11. UnderEvaluation(C) /\ IsImport(C)
  BY <1>1, <1>2 DEF UnderEvaluation
<1>12. ASSUME NEW c \in 1..Len(stack'), IsImport(c), c < Len(stack'),
              NEW a \in 1..Len(stack'[c].entered)
       PROVE  /\ a \in 1..Len(stack[c].entered)
              /\ stack'[c].entered[a] = stack[c].entered[a]
              /\ stack[c].entered[a] \in 1..Len(mods')
              /\ mods'[stack[c].entered[a]].status = "evaluating"
  <2>1. UnderEvaluation(c) /\ c \in 1..Len(stack)
    BY <1>1, <1>4, <1>9, <1>12 DEF UnderEvaluation
  <2>2. /\ a \in 1..Len(stack[c].entered) /\ stack'[c].entered[a] = stack[c].entered[a]
        /\ c = C => a <= t
    <3>1. CASE c = C
      BY <3>1, <1>2, <1>5, <1>10
    <3>2. CASE c # C
      BY <3>2, <1>4
    <3>3. QED
      BY <3>1, <3>2
  <2>3. /\ stack[c].entered[a] \in 1..Len(mods)
        /\ mods[stack[c].entered[a]].status = "evaluating"
    BY <2>1, <2>2, <1>1 DEF Evaluations, EnteredOnce
  <2>4. \A b \in 1..Len(stack[C].entered) : stack[C].entered[b] = stack[c].entered[a] => b <= t
    <3> SUFFICES ASSUME NEW b \in 1..Len(stack[C].entered),
                        stack[C].entered[b] = stack[c].entered[a]
                 PROVE  b <= t
      OBVIOUS
    <3>1. EnteredOnce
      BY <1>1 DEF Evaluations
    <3>2. c = C /\ a = b
      BY <3>1, <2>1, <2>2, <1>11 DEF EnteredOnce
    <3>3. QED
      BY <3>2, <2>2
  <2>5. QED
    BY <2>2, <2>3, <2>4, <1>6
<1>13. ASSUME NEW c \in 1..Len(stack'), NEW i \in 1..Len(stack'), Within(c, i),
              NEW a \in 1..Len(stack[c].entered), stack[c].entered[a] = stack[i].module
       PROVE  a <= Len(stack'[c].entered)
  <2>1. CASE c # C
    BY <2>1, <1>4, <1>10
  <2>2. CASE c = C /\ t = Len(stack[C].entered)
    BY <2>2, <1>5, <1>10
  <2>3. CASE c = C /\ stack[C].entered[t + 1] = stack[Len(stack)].module /\ t < Len(stack[C].entered)
    <3>1. i < Len(stack) /\ i \in 1..Len(stack) /\ t + 1 \in 1..Len(stack[C].entered)
      <4>1. Len(stack') = Len(stack) - 1 /\ Len(stack) \in Nat /\ i \in 1..Len(stack')
        BY <1>1, <1>4
      <4>2. i < Len(stack) /\ i \in 1..Len(stack)
        BY <4>1
      <4>3. t + 1 \in 1..Len(stack[C].entered)
        BY <2>3, <1>5, <1>10
      <4>4. QED
        BY <4>2, <4>3
    <3>2. EnteredInOrder
      BY <1>1 DEF Evaluations
    <3>3. a < t + 1
      <4>1. Within(C, i) /\ Within(C, Len(stack)) /\ Len(stack) \in 1..Len(stack)
        BY <2>3, <1>1, <1>2, <1>13
      <4>2. \A x, y \in 1..Len(stack[C].entered) :
              /\ stack[C].entered[x] = stack[i].module
              /\ stack[C].entered[y] = stack[Len(stack)].module
              => x < y
        BY <3>1, <3>2, <4>1 DEF EnteredInOrder
      <4>3. a \in 1..Len(stack[C].entered) /\ stack[C].entered[a] = stack[i].module
        BY <2>3, <1>13
      <4>4. QED
        BY <2>3, <3>1, <4>2, <4>3
    <3>4. QED
      BY <2>3, <3>3, <1>5
  <2>4. t = Len(stack[C].entered) \/ t < Len(stack[C].entered)
    BY <1>1, <1>2, <1>5
  <2>5. QED
    BY <2>1, <2>2, <2>3, <2>4, <1>5
<1>14. Evaluations'
  <2>1. \A c \in 1..Len(stack') : IsImport(c) /\ c < Len(stack') =>
          /\ Len(stack'[c].entered) <= Len(stack[c].entered)
          /\ \A a \in 1..Len(stack'[c].entered) :
               /\ stack'[c].entered[a] = stack[c].entered[a]
               /\ stack[c].entered[a] \in 1..Len(mods')
               /\ mods'[stack[c].entered[a]].status = "evaluating"
    <3>1. \A c \in 1..Len(stack') : Len(stack'[c].entered) <= Len(stack[c].entered)
      <4> SUFFICES ASSUME NEW c \in 1..Len(stack')
                   PROVE  Len(stack'[c].entered) <= Len(stack[c].entered)
        OBVIOUS
      <4>1. CASE c = C
        BY <4>1, <1>1, <1>2, <1>5
      <4>2. CASE c # C
        BY <4>2, <1>4, <1>10
      <4>3. QED
        BY <4>1, <4>2
    <3>2. QED
      BY <3>1, <1>12
  <2>2. \A c, i \in 1..Len(stack') : Within(c, i) =>
          \A a \in 1..Len(stack[c].entered) :
            stack[c].entered[a] = stack[i].module => a <= Len(stack'[c].entered)
    BY <1>13
  <2>3. \A i \in 1..Len(stack') :
          /\ stack'[i].kind = stack[i].kind /\ stack'[i].module = stack[i].module
          /\ stack'[i].kind = "import" => stack'[i].phase = stack[i].phase
    BY <1>7
  <2>4. QED
    BY <2>1, <2>2, <2>3, <1>1, <1>4, <1>8, Shortened
<1>15. QED
  BY <1>4, <1>6, <1>9, <1>14 DEF EvaluationStep

(* The innermost module is done: it is left, alone or with its import cycle. *)
LEMMA DoneStep ==
  ASSUME IInv, Evaluating, NEW w \in BOOLEAN, ModuleDone(w)
  PROVE  EvaluationStep
<1>1. /\ stack \in Seq(Frame) /\ Len(stack) \in Nat /\ Len(stack) \in 1..Len(stack)
      /\ Top = stack[Len(stack)] /\ Top.module \in 1..Len(mods)
      /\ Caller \in 1..Len(stack) /\ Caller < Len(stack) /\ IsImport(Caller)
      /\ Within(Caller, Len(stack))
      /\ stack[Caller].entered \in Seq(Nat) /\ Len(stack[Caller].entered) \in Nat
      /\ Paired(registry, mods) /\ Len(mods) \in Nat /\ Evaluations
  BY Innermost
<1>2. PICK C \in 1..Len(stack) : C = Caller
  BY <1>1
<1>3. PICK e \in Seq(Nat) : e = stack[C].entered
  BY <1>1, <1>2
<1> DEFINE entered == stack[Caller].entered
           from == CHOOSE i \in DOMAIN entered : entered[i] = Top.module
           finished == {entered[i] : i \in from .. Len(entered)}
           ms == [mods EXCEPT ![Top.module].waits = w]
           inCycle == (UnderWay \ {Top.module}) \cap Reach(Top.module) # {}
           done(m) == [ms[m] EXCEPT !.status = IF ms[m].waits THEN "async" ELSE "evaluated"]
           ms2 == [m \in DOMAIN ms |-> IF m \notin finished THEN ms[m] ELSE done(m)]
           s == [stack EXCEPT ![Caller].entered = SubSeq(@, 1, from - 1)]
<1>4. /\ mods' = IF inCycle THEN ms ELSE ms2
      /\ stack' = Front(IF inCycle THEN stack ELSE s)
  BY Zenon DEF ModuleDone
<1>a. entered = e
  BY <1>2, <1>3
<1>5. from \in 1..Len(e) /\ e[from] = Top.module /\ Len(e) \in Nat
  <2>1. \E a \in 1..Len(e) : e[a] = Top.module
    BY <1>1, <1>2, <1>3 DEF Evaluations, EnteredInOrder
  <2>2. DOMAIN e = 1..Len(e) /\ Len(e) \in Nat
    BY <1>3
  <2>3. QED
    BY <2>1, <2>2, <1>a
<1>6. /\ ms \in Seq(ModuleOf(Len(mods))) /\ Len(ms) = Len(mods) /\ DOMAIN ms = 1..Len(mods)
      /\ \A x \in 1..Len(mods) : /\ ms[x].key = mods[x].key
                                 /\ ms[x].status = mods[x].status
                                 /\ ms[x] \in ModuleOf(Len(mods))
  <2>1. SameStatuses(ms)
    BY <1>1, WaitsPairs, Zenon
  <2>2. QED
    BY <2>1, Zenon DEF SameStatuses
<1> HIDE DEF entered, from, ms, inCycle
<1>7. CASE inCycle
  <2>1. mods' = ms /\ stack' = SubSeq(stack, 1, Len(stack) - 1)
    BY <1>4, <1>7 DEF Front
  <2>2. /\ stack' \in Seq(Frame) /\ Len(stack') = Len(stack) - 1
        /\ \A i \in 1..Len(stack) - 1 : stack'[i] = stack[i]
    <3>1. Len(stack) - 1 \in 0..Len(stack)
      BY <1>1
    <3>2. QED
      BY <2>1, <3>1, <1>1, CutAt
  <2>3. \A i \in 1..Len(stack') : SameFrame(stack[i], stack'[i]) /\ stack'[i].entered = stack[i].entered
    <3>1. \A i \in 1..Len(stack') : i \in 1..Len(stack) /\ stack'[i] = stack[i]
      BY <2>2, <1>1
    <3>2. \A i \in 1..Len(stack) : stack[i] \in Frame
      BY <1>1, FramesOf
    <3>3. QED
      BY <3>1, <3>2 DEF SameFrame
  <2>4. Paired(registry, mods')
    <3>1. \A x \in 1..Len(mods) :
            /\ ms[x].key = mods[x].key
            /\ ms[x].status \in Active => mods[x].status \in Active \/ registry[mods[x].key] = x
      BY <1>6
    <3>2. QED
      BY <3>1, <2>1, <1>1, <1>6, RestatusPairs
  <2>5. C \in 1..Len(stack')
    BY <1>1, <1>2, <2>2
  <2>6. Left(C, Len(e))
    <3>1. stack'[C].entered = e
      BY <2>3, <2>5, <1>3
    <3>2. Len(e) \in 0..Len(e)
      BY <1>5
    <3>3. QED
      BY <2>1, <2>2, <2>3, <2>4, <3>1, <3>2, <1>3, <1>6 DEF Left
  <2>7. QED
    BY <2>6, <1>2, LeftStep
<1>8. CASE ~inCycle
  <2>1. mods' = ms2 /\ stack' = SubSeq(s, 1, Len(s) - 1)
    BY <1>4, <1>8 DEF Front
  <2>2. /\ SubSeq(e, 1, from - 1) \in Seq(Nat) /\ Len(SubSeq(e, 1, from - 1)) = from - 1
        /\ \A a \in 1..from - 1 : SubSeq(e, 1, from - 1)[a] = e[a]
    <3>1. from - 1 \in 0..Len(e)
      BY <1>5
    <3>2. QED
      BY <3>1, <1>3, CutAt
  <2>3. PICK u \in Seq(Nat) : /\ u = SubSeq(e, 1, from - 1) /\ Len(u) = from - 1
                              /\ \A a \in 1..from - 1 : u[a] = e[a]
    BY <2>2
  <2>4. Relisted(stack, s, C, u)
    <3>1. s = [stack EXCEPT ![C].entered = u]
      BY <2>3, <1>1, <1>2, <1>3
    <3>2. QED
      BY <3>1, <1>1, EnteredUpdate
  <2> HIDE DEF s
  <2>5. /\ s \in Seq(Frame) /\ Len(s) = Len(stack) /\ s[C].entered = u
        /\ \A i \in 1..Len(stack) : SameFrame(stack[i], s[i]) /\ (i # C => s[i] = stack[i])
    BY <2>4 DEF Relisted
  <2>6. /\ stack' \in Seq(Frame) /\ Len(stack') = Len(stack) - 1
        /\ \A i \in 1..Len(stack) - 1 : stack'[i] = s[i]
    <3>1. Len(s) - 1 \in 0..Len(s)
      BY <1>1, <2>5
    <3>2. QED
      BY <2>1, <2>5, <3>1, CutAt
  <2>7. \A i \in 1..Len(stack') : SameFrame(stack[i], stack'[i])
                                  /\ (i # C => stack'[i].entered = stack[i].entered)
    <3>1. \A i \in 1..Len(stack') : i \in 1..Len(stack) /\ stack'[i] = s[i]
      BY <2>6, <1>1
    <3>2. QED
      BY <3>1, <2>5
  <2>8. C \in 1..Len(stack') /\ stack'[C].entered = u
    <3>1. C \in 1..Len(stack) - 1
      BY <1>1, <1>2
    <3>2. QED
      BY <3>1, <2>5, <2>6
  <2>9. \A x \in finished : x \in 1..Len(mods) /\ mods[x].status = "evaluating"
    <3> SUFFICES ASSUME NEW i \in from .. Len(e)
                 PROVE  e[i] \in 1..Len(mods) /\ mods[e[i]].status = "evaluating"
      BY <1>a, Zenon
    <3>1. i \in 1..Len(stack[C].entered)
      BY <1>3, <1>5
    <3>2. UnderEvaluation(C)
      BY <1>1, <1>2 DEF UnderEvaluation
    <3>3. QED
      BY <3>1, <3>2, <1>1, <1>3 DEF Evaluations, EnteredOnce
  <2> HIDE DEF finished
  <2>10. \A x \in 1..Len(mods) : /\ done(x) \in ModuleOf(Len(mods)) /\ done(x).key = mods[x].key
                                 /\ done(x).status \in {"async", "evaluated"}
    <3> SUFFICES ASSUME NEW x \in 1..Len(mods)
                 PROVE  /\ done(x) \in ModuleOf(Len(mods)) /\ done(x).key = mods[x].key
                        /\ done(x).status \in {"async", "evaluated"}
      OBVIOUS
    <3>1. PICK st \in {"async", "evaluated"} : st = IF ms[x].waits THEN "async" ELSE "evaluated"
      OBVIOUS
    <3>2. done(x) = [ms[x] EXCEPT !.status = st]
      BY <3>1
    <3> HIDE DEF done
    <3>3. ms[x] \in ModuleOf(Len(mods)) /\ st \in Status /\ TRUE \in BOOLEAN
      BY <1>6 DEF Status
    <3>4. Restatus(Len(mods), ms[x], [ms[x] EXCEPT !.status = st], st)
      BY <3>3, ModuleUpdates, Zenon
    <3>5. QED
      BY <3>2, <3>4, <1>6 DEF Restatus
  <2> HIDE DEF done
  <2>11. ms2 \in [1..Len(mods) -> ModuleOf(Len(mods))]
    BY <1>6, <2>10
  <2>12. \A x \in 1..Len(mods) :
           /\ ms2[x].key = mods[x].key
           /\ x \notin finished => ms2[x].status = mods[x].status
    BY <1>6, <2>10
  <2> HIDE DEF ms2
  <2>13. ms2 \in Seq(ModuleOf(Len(mods))) /\ Len(ms2) = Len(mods)
    <3>1. Len(mods) \in Nat
      BY <1>1
    <3>2. QED
      BY <2>11, <3>1
  <2>14. \A x \in 1..Len(mods) :
           /\ ms2[x].key = mods[x].key
           /\ ms2[x].status \in Active => mods[x].status \in Active \/ registry[mods[x].key] = x
    BY <2>9, <2>12 DEF Active
  <2>15. Paired(registry, mods')
    BY <2>1, <2>13, <2>14, <1>1, RestatusPairs
  <2>16. ASSUME NEW x \in 1..Len(mods), \A a \in 1..Len(e) : e[a] = x => a <= from - 1
         PROVE  mods'[x].status = mods[x].status
    <3>1. x \notin finished
      <4> SUFFICES ASSUME NEW i \in from .. Len(e), e[i] = x PROVE FALSE
        BY <1>a, Zenon DEF finished
      <4>1. i \in 1..Len(e) /\ ~(i <= from - 1)
        BY <1>5
      <4>2. QED
        BY <4>1, <2>16
    <3>2. QED
      BY <3>1, <2>1, <2>12
  <2>17. Left(C, from - 1)
    <3>1. /\ from - 1 \in 0..Len(e) /\ from - 1 + 1 = from
      BY <1>5
    <3>2. Len(stack'[C].entered) = from - 1 /\ \A a \in 1..from - 1 : stack'[C].entered[a] = e[a]
      BY <2>3, <2>8
    <3>3. Len(mods') = Len(mods)
      BY <2>1, <2>13
    <3>4. QED
      BY <2>6, <2>7, <2>15, <2>16, <3>1, <3>2, <3>3, <1>3, <1>5 DEF Left
  <2>18. QED
    BY <2>17, <1>2, LeftStep
<1>9. QED
  BY <1>7, <1>8

(* A top-level await is over: nothing is on the stack. *)
LEMMA AwaitStep ==
  ASSUME IInv, NEW m \in DOMAIN mods, AwaitSettles(m)
  PROVE  EvaluationStep
<1>1. stack = <<>> /\ stack' = stack /\ mods[m].status = "async"
  BY DEF AwaitSettles
<1>2. PICK s \in {"evaluated", "errored"} : mods' = Statuses({m}, s)
  BY DEF AwaitSettles
<1>3. Paired(registry, mods) /\ DOMAIN mods = 1..Len(mods)
  BY PairedFacts DEF IInv
<1>4. Restatused(mods, mods', {m}, s)
  <2>1. s \in Status /\ \A x \in 1..Len(mods) : x \in {m} => mods[x].status \in Active
    BY <1>1 DEF Status, Active
  <2>2. QED
    BY <2>1, <1>2, <1>3, StatusesPairs
<1>5. Paired(registry, mods') /\ Len(mods') = Len(mods)
  BY <1>4 DEF Restatused
<1>6. stack' \in Seq(Frame) /\ 1..Len(stack') = {} /\ 1..Len(stack) = {}
  BY <1>1
<1>7. CallsKept
  BY <1>6 DEF CallsKept, IsImport
<1>8. Evaluations'
  BY <1>6 DEF Evaluations, Pile, EnteredOnce, EnteredInOrder
<1>9. QED
  BY <1>5, <1>6, <1>7, <1>8 DEF EvaluationStep

-----------------------------------------------------------------------------
(* import(). *)

(* A call put itself on the stack. *)
Called(k) ==
  LET i == Len(stack) + 1 IN
  /\ i \in 1..Len(stack') /\ stack'[i].kind = "import" /\ stack'[i].key = k
  /\ stack'[i].promise = Len(promises')

(* What a call of import() does to the promises and to those who settle them: *)
(* there is a new promise, and perhaps somebody who is going to settle it.    *)
Imported(k) ==
  /\ promises' \in Seq(PromiseRecord) /\ Len(promises') = Len(promises) + 1
  /\ \A p \in 1..Len(promises) : promises'[p] = promises[p]
  /\ jobs' = jobs
  /\ stack' \in Seq(Frame) /\ Len(stack) <= Len(stack')
  /\ \A i \in 1..Len(stack) : stack'[i] = stack[i]
  /\ \A i \in 1..Len(stack') : stack'[i].kind = "import" /\ i \notin 1..Len(stack)
       => i = Len(stack) + 1 /\ Called(k) /\ promises'[Len(promises')].state = "pending"
  /\ \/ waiters' = waiters
     \/ /\ waiters' = [waiters EXCEPT ![k] = @ \cup {Len(promises')}]
        /\ promises'[Len(promises')].state = "pending"
        /\ Called(k) => stack'[Len(stack) + 1].phase # "file"

(* And to what is in flight: nothing, or the call loads the URL, or V8 ends the *)
(* process.                                                                     *)
Boarded(k) ==
  \/ /\ inFlight' = inFlight /\ aborted' = aborted
     /\ Called(k) => stack'[Len(stack) + 1].phase = "file"
     /\ waiters' = waiters \/ k \in inFlight
  \/ /\ k \notin inFlight /\ ~aborted /\ aborted' = FALSE /\ inFlight' = inFlight \cup {k}
     /\ Called(k) /\ stack'[Len(stack) + 1].phase # "file"
  \/ /\ k \notin inFlight /\ inFlight' = inFlight \cup {k} /\ aborted' = TRUE
     /\ stack' = stack

(* The calls after such a step are those before it and perhaps the new one. *)
LEMMA CallsAfter ==
  ASSUME stack \in Seq(Frame), NEW k, Imported(k), NEW n \in Nat, n = Len(stack)
  PROVE  /\ \A i : IsImport(i) => IsImport(i)' /\ i \in 1..n /\ stack'[i] = stack[i]
         /\ \A i : IsImport(i)' => IsImport(i) \/ (i = n + 1 /\ Called(k))
         /\ Called(k) => IsImport(n + 1)'
         /\ ~IsImport(n + 1)
<1>1. /\ \A i \in 1..n : i \in 1..Len(stack') /\ stack'[i] = stack[i]
      /\ n + 1 \notin 1..n
  BY DEF Imported
<1>2. \A i \in 1..Len(stack') : stack'[i].kind = "import" /\ i \notin 1..n
        => i = n + 1 /\ Called(k)
  BY DEF Imported
<1>3. Called(k) => n + 1 \in 1..Len(stack') /\ stack'[n + 1].kind = "import"
  BY DEF Called
<1>4. QED
  BY <1>1, <1>2, <1>3 DEF IsImport

(* Every promise still has the settlers it should have. *)
LEMMA ImportedHolders ==
  ASSUME IInv, NEW k \in Keys, Imported(k)
  PROVE  Holders'
<1>1. PICK L \in Nat : L = Len(promises)
  BY DEF IInv, Shapes
<1>2. PICK n \in Nat : n = Len(stack)
  BY DEF IInv, Shapes
<1>3. /\ stack \in Seq(Frame) /\ waiters \in [Keys -> SUBSET (1..L)] /\ Holders
      /\ DOMAIN promises = 1..L
  BY <1>1 DEF IInv, Shapes
<1>4. /\ Len(promises') = L + 1 /\ DOMAIN promises' = 1..L + 1 /\ jobs' = jobs
      /\ \A p \in 1..L : promises'[p] = promises[p]
  BY <1>1 DEF Imported
<1>5. /\ \A i : IsImport(i) => IsImport(i)' /\ i \in 1..n /\ stack'[i] = stack[i]
      /\ \A i : IsImport(i)' => IsImport(i) \/ (i = n + 1 /\ Called(k))
      /\ ~IsImport(n + 1)
  BY <1>2, <1>3, CallsAfter
<1>6. ASSUME NEW i, IsImport(i)'
      PROVE  \/ IsImport(i) /\ stack'[i] = stack[i]
             \/ /\ i = n + 1 /\ ~IsImport(i) /\ stack'[i].promise = L + 1 /\ stack'[i].key = k
                /\ Called(k) /\ promises'[L + 1].state = "pending"
  <2>1. CASE IsImport(i)
    BY <2>1, <1>5
  <2>2. CASE ~IsImport(i)
    <3>1. i = n + 1 /\ Called(k)
      BY <2>2, <1>5, <1>6
    <3>2. stack'[i].promise = L + 1 /\ stack'[i].key = k
      BY <3>1, <1>2, <1>4 DEF Called
    <3>3. i \in 1..Len(stack') /\ stack'[i].kind = "import" /\ i \notin 1..n
      BY <3>1, <1>6 DEF IsImport
    <3>4. promises'[L + 1].state = "pending"
      BY <3>3, <1>2, <1>4 DEF Imported
    <3>5. QED
      BY <2>2, <3>1, <3>2, <3>4
  <2>3. QED
    BY <2>1, <2>2
<1>7. ASSUME NEW x \in Keys, NEW p \in waiters'[x]
      PROVE  \/ p \in waiters[x]
             \/ /\ x = k /\ p = L + 1 /\ promises'[L + 1].state = "pending"
                /\ Called(k) => stack'[n + 1].phase # "file"
  <2>1. CASE waiters' = waiters
    BY <2>1
  <2>2. CASE /\ waiters' = [waiters EXCEPT ![k] = @ \cup {L + 1}]
             /\ promises'[L + 1].state = "pending"
             /\ Called(k) => stack'[n + 1].phase # "file"
    BY <2>2, <1>3
  <2>3. QED
    BY <2>1, <2>2, <1>2, <1>4 DEF Imported
<1>8. \A p : Pending(p) => Pending(p)' /\ p \in 1..L /\ p # L + 1
  BY <1>1, <1>3, <1>4 DEF Pending
<1>9. promises'[L + 1].state = "pending" => Pending(L + 1)'
  BY <1>1, <1>4 DEF Pending
<1>10. /\ \A i : IsImport(i) => Pending(stack[i].promise)
       /\ \A j \in jobs : Pending(j.promise)
       /\ \A x \in Keys : \A p \in waiters[x] : Pending(p)
       /\ \A i, l : IsImport(i) /\ IsImport(l) /\ stack[i].promise = stack[l].promise => i = l
  BY <1>3 DEF Holders, IsImport
<1>11. /\ \A j, l \in jobs : j.promise = l.promise => j = l
       /\ \A i : \A j \in jobs : IsImport(i) => stack[i].promise # j.promise
       /\ \A x, y \in Keys : x # y => waiters[x] \cap waiters[y] = {}
       /\ \A x \in Keys : \A i : IsImport(i) /\ stack[i].promise \in waiters[x] => FrameOwns(i, x)
       /\ \A x \in Keys, j \in jobs : j.promise \in waiters[x] => JobOwns(j, x)
  BY <1>3 DEF Holders, IsImport
<1>12. \A i : IsImport(i)' => Pending(stack[i].promise)'
  <2> SUFFICES ASSUME NEW i, IsImport(i)' PROVE Pending(stack[i].promise)'
    OBVIOUS
  <2>1. PICK p : p = stack'[i].promise
    OBVIOUS
  <2>2. Pending(p)'
    BY <2>1, <1>6, <1>8, <1>9, <1>10
  <2>3. QED
    BY <2>1, <2>2 DEF Pending
<1>13. \A j \in jobs' : Pending(j.promise)'
  BY <1>4, <1>8, <1>10
<1>14. \A x \in Keys : \A p \in waiters'[x] : Pending(p)'
  BY <1>7, <1>8, <1>9, <1>10
<1>15. ASSUME NEW i, NEW l, IsImport(i)', IsImport(l)', stack'[i].promise = stack'[l].promise
       PROVE  i = l
  BY <1>15, <1>6, <1>8, <1>10
<1>16. \A j, l \in jobs' : j.promise = l.promise => j = l
  BY <1>4, <1>11
<1>17. ASSUME NEW i, NEW j \in jobs', IsImport(i)' PROVE stack'[i].promise # j.promise
  BY <1>17, <1>4, <1>6, <1>8, <1>10, <1>11
<1>18. ASSUME NEW x \in Keys, NEW y \in Keys, x # y PROVE waiters'[x] \cap waiters'[y] = {}
  BY <1>18, <1>7, <1>8, <1>10, <1>11
<1>19. ASSUME NEW x \in Keys, NEW i, IsImport(i)', stack'[i].promise \in waiters'[x]
       PROVE  FrameOwns(i, x)'
  <2>1. CASE IsImport(i) /\ stack'[i] = stack[i]
    <3>1. stack[i].promise \in waiters[x]
      BY <2>1, <1>7, <1>8, <1>10, <1>19
    <3>2. FrameOwns(i, x)
      BY <2>1, <3>1, <1>11
    <3>3. QED
      BY <2>1, <3>2, <1>19 DEF FrameOwns
  <2>2. CASE /\ i = n + 1 /\ ~IsImport(i) /\ stack'[i].promise = L + 1 /\ stack'[i].key = k
             /\ Called(k)
    <3>1. x = k /\ stack'[n + 1].phase # "file"
      BY <2>2, <1>7, <1>8, <1>10, <1>19
    <3>2. QED
      BY <2>2, <3>1, <1>19 DEF FrameOwns
  <2>3. QED
    BY <2>1, <2>2, <1>6, <1>19
<1>20. ASSUME NEW x \in Keys, NEW j \in jobs', j.promise \in waiters'[x]
       PROVE  JobOwns(j, x)'
  <2>1. j.promise \in waiters[x]
    BY <1>20, <1>4, <1>7, <1>8, <1>10
  <2>2. JobOwns(j, x)
    BY <2>1, <1>4, <1>11
  <2>3. QED
    BY <2>2, <1>4 DEF JobOwns
<1>21. QED
  BY <1>12, <1>13, <1>14, <1>15, <1>16, <1>17, <1>18, <1>19, <1>20 DEF Holders

(* And a URL in flight still has its one owner. *)
LEMMA ImportedFlight ==
  ASSUME IInv, NEW k \in Keys, Imported(k), Boarded(k)
  PROVE  Flight'
<1>1. PICK n \in Nat : n = Len(stack)
  BY DEF IInv, Shapes
<1>2. /\ stack \in Seq(Frame) /\ waiters \in [Keys -> SUBSET (1..Len(promises))] /\ Flight
      /\ jobs' = jobs /\ inFlight \subseteq Keys
  BY DEF IInv, Shapes, Imported
<1>3. /\ \A i : IsImport(i) => IsImport(i)' /\ i \in 1..n /\ stack'[i] = stack[i]
      /\ \A i : IsImport(i)' => IsImport(i) \/ (i = n + 1 /\ Called(k))
      /\ Called(k) => IsImport(n + 1)'
      /\ ~IsImport(n + 1)
  BY <1>1, <1>2, CallsAfter
<1>4. Called(k) => stack'[n + 1].key = k
  BY <1>1 DEF Called
<1> DEFINE Owner == Called(k) /\ stack'[n + 1].phase # "file"
<1>5. \A i, x : FrameOwns(i, x)' <=> FrameOwns(i, x) \/ (i = n + 1 /\ x = k /\ Owner)
  BY <1>3, <1>4 DEF FrameOwns
<1>6. \A i, x : FrameOwns(i, x) => i # n + 1 /\ i \in 1..Len(stack)
  BY <1>1, <1>3 DEF FrameOwns
<1>a. \A i, x : FrameOwns(i, x)' => i \in 1..Len(stack')
  BY DEF FrameOwns, IsImport
<1>7. \A j, x : JobOwns(j, x)' <=> JobOwns(j, x)
  BY <1>2 DEF JobOwns
<1>8. \A x \in Keys : waiters'[x] # {} => waiters[x] # {} \/ (x = k /\ waiters' # waiters)
  BY <1>2 DEF Imported
<1>9. ASSUME NEW x \in Keys
      PROVE  /\ ~aborted => (x \in inFlight <=> \/ \E i : FrameOwns(i, x)
                                                \/ \E j : JobOwns(j, x))
             /\ waiters[x] # {} => x \in inFlight
             /\ \A i, l : FrameOwns(i, x) /\ FrameOwns(l, x) => i = l
             /\ \A j, l : JobOwns(j, x) /\ JobOwns(l, x) => j = l
             /\ \A i, j : ~(FrameOwns(i, x) /\ JobOwns(j, x))
  <2>1. \A j : JobOwns(j, x) => j \in jobs
    BY DEF JobOwns
  <2>2. QED
    BY <2>1, <1>2, <1>6 DEF Flight
<1> HIDE DEF Owner
<1>10. ASSUME NEW x \in Keys
       PROVE  /\ ~aborted' => (x \in inFlight' <=> \/ \E i : FrameOwns(i, x)'
                                                   \/ \E j : JobOwns(j, x)')
              /\ waiters'[x] # {} => x \in inFlight'
              /\ \A i, l : FrameOwns(i, x)' /\ FrameOwns(l, x)' => i = l
              /\ \A j, l : JobOwns(j, x)' /\ JobOwns(l, x)' => j = l
              /\ \A i, j : ~(FrameOwns(i, x)' /\ JobOwns(j, x)')
  <2>1. CASE /\ inFlight' = inFlight /\ aborted' = aborted
             /\ Called(k) => stack'[Len(stack) + 1].phase = "file"
             /\ waiters' = waiters \/ k \in inFlight
    <3>1. ~Owner
      BY <2>1, <1>1 DEF Owner
    <3>2. \A i : FrameOwns(i, x)' <=> FrameOwns(i, x)
      BY <3>1, <1>5
    <3>3. (waiters'[x] # {} => x \in inFlight')
      BY <2>1, <1>8, <1>9
    <3>4. QED
      BY <2>1, <3>2, <3>3, <1>7, <1>9
  <2>2. CASE /\ k \notin inFlight /\ ~aborted /\ aborted' = FALSE /\ inFlight' = inFlight \cup {k}
             /\ Called(k) /\ stack'[Len(stack) + 1].phase # "file"
    <3>1. Owner
      BY <2>2, <1>1 DEF Owner
    <3>2. /\ waiters'[x] # {} => x \in inFlight'
          /\ x = k => (\A i : ~FrameOwns(i, k)) /\ (\A j : ~JobOwns(j, k))
      BY <2>2, <1>8, <1>9
    <3>3. CASE x = k
      BY <3>1, <3>2, <3>3, <2>2, <1>5, <1>7
    <3>4. CASE x # k
      BY <3>2, <3>4, <2>2, <1>5, <1>7, <1>9
    <3>5. QED
      BY <3>3, <3>4
  <2>3. CASE k \notin inFlight /\ inFlight' = inFlight \cup {k} /\ aborted' = TRUE /\ stack' = stack
    <3>1. \A i : FrameOwns(i, x)' <=> FrameOwns(i, x)
      BY <2>3 DEF FrameOwns, IsImport
    <3>2. waiters'[x] # {} => x \in inFlight'
      BY <2>3, <1>8, <1>9
    <3>3. QED
      BY <2>3, <3>1, <3>2, <1>7, <1>9
  <2>4. QED
    BY <2>1, <2>2, <2>3 DEF Boarded
<1>11. \A j, x : JobOwns(j, x)' => j \in jobs'
  BY DEF JobOwns
<1>12. QED
  BY <1>10, <1>11, <1>a DEF Flight

(* A new promise, at the end. *)
LEMMA PromiseAppended ==
  ASSUME promises \in Seq(PromiseRecord), NEW k \in Keys,
         NEW state \in {"pending", "resolved", "rejected"}, NEW m \in Nat,
         promises' = NewPromise(k, state, m)
  PROVE  /\ promises' \in Seq(PromiseRecord) /\ Len(promises') = Len(promises) + 1
         /\ Len(promises') \in Nat /\ Len(promises) \in Nat
         /\ \A p \in 1..Len(promises) : promises'[p] = promises[p]
         /\ promises'[Len(promises')].state = state
         /\ promises'[Len(promises')].module = m
<1> DEFINE r == [key |-> k, state |-> state, module |-> m]
<1>1. r \in PromiseRecord /\ r.state = state /\ r.module = m
  BY DEF PromiseRecord
<1>2. promises' = Append(promises, r)
  BY DEF NewPromise
<1> HIDE DEF r
<1>3. /\ promises' \in Seq(PromiseRecord) /\ Len(promises') = Len(promises) + 1
      /\ promises'[Len(promises) + 1] = r
      /\ \A p \in 1..Len(promises) : promises'[p] = promises[p]
  BY <1>1, <1>2, AppendProperties
<1>4. Len(promises) \in Nat
  OBVIOUS
<1>5. QED
  BY <1>1, <1>3, <1>4

(* An import keeps the invariant, if it keeps the registry, the modules and the *)
(* evaluations in order.                                                        *)
LEMMA ImportedKeeps ==
  ASSUME IInv, NEW k \in Keys, Imported(k), Boarded(k), Paired(registry', mods'),
         Len(mods) <= Len(mods'), Evaluations',
         \A i \in 1..Len(stack') : i \notin 1..Len(stack) => stack'[i].module \in 1..Len(mods')
  PROVE  IInv'
<1>1. Shapes /\ Len(mods) \in Nat /\ Len(mods') \in Nat
  BY PairedFacts DEF IInv
<1>2. Flight' /\ Holders'
  BY ImportedFlight, ImportedHolders
<1>3. \A i \in 1..Len(stack') : stack'[i].module \in 1..Len(mods')
  <2> SUFFICES ASSUME NEW i \in 1..Len(stack'), i \in 1..Len(stack)
               PROVE  stack'[i].module \in 1..Len(mods')
    OBVIOUS
  <2>1. stack[i].module \in 1..Len(mods) /\ stack'[i] = stack[i]
    BY <1>1 DEF Shapes, Imported
  <2>2. QED
    BY <2>1, <1>1
<1>4. \A j \in jobs' : j.module \in 1..Len(mods')
  <2>1. \A j \in jobs : j.module \in 1..Len(mods)
    BY <1>1 DEF Shapes
  <2>2. QED
    BY <2>1, <1>1 DEF Imported
<1>5. waiters' \in [Keys -> SUBSET (1..Len(promises'))]
  <2>1. /\ waiters \in [Keys -> SUBSET (1..Len(promises))] /\ Len(promises) \in Nat
        /\ Len(promises') = Len(promises) + 1
    BY <1>1 DEF Shapes, Imported
  <2>2. /\ Len(promises') \in 1..Len(promises')
        /\ \A p \in 1..Len(promises) : p \in 1..Len(promises')
    BY <2>1
  <2>3. CASE waiters' = waiters
    BY <2>1, <2>2, <2>3
  <2>4. CASE waiters' = [waiters EXCEPT ![k] = @ \cup {Len(promises')}]
    BY <2>1, <2>2, <2>4
  <2>5. QED
    BY <2>3, <2>4 DEF Imported
<1>6. inFlight' \subseteq Keys /\ aborted' \in BOOLEAN
  <2>1. inFlight \subseteq Keys /\ aborted \in BOOLEAN
    BY <1>1 DEF Shapes
  <2>2. (inFlight' = inFlight \/ inFlight' = inFlight \cup {k})
    BY DEF Boarded
  <2>3. aborted' = aborted \/ aborted' = FALSE \/ aborted' = TRUE
    BY DEF Boarded
  <2>4. aborted' \in BOOLEAN
    BY <2>1, <2>3, Zenon
  <2>5. QED
    BY <2>1, <2>2, <2>4
<1>7. Shapes'
  BY <1>1, <1>3, <1>4, <1>5, <1>6 DEF Shapes, Imported
<1>8. QED
  BY <1>2, <1>7 DEF IInv

(* An import that leaves the stack alone. *)
LEMMA QuietImport ==
  ASSUME IInv, NEW k \in Keys, NEW state \in {"pending", "resolved", "rejected"}, NEW m \in Nat,
         promises' = NewPromise(k, state, m), Paired(registry', mods'), Extends(mods, mods'),
         stack' = stack, jobs' = jobs, Boarded(k),
         \/ waiters' = waiters
         \/ /\ waiters' = [waiters EXCEPT ![k] = @ \cup {Len(promises')}]
            /\ state = "pending"
  PROVE  IInv'
<1>1. /\ stack \in Seq(Frame) /\ promises \in Seq(PromiseRecord) /\ Evaluations
      /\ Len(stack) \in Nat
  BY DEF IInv, Shapes
<1>2. /\ promises' \in Seq(PromiseRecord) /\ Len(promises') = Len(promises) + 1
      /\ \A p \in 1..Len(promises) : promises'[p] = promises[p]
      /\ promises'[Len(promises')].state = state
  BY <1>1, PromiseAppended
<1>3. ~Called(k)
  <2>1. Len(stack) + 1 \notin 1..Len(stack)
    BY <1>1
  <2>2. QED
    BY <2>1 DEF Called
<1>4. Imported(k)
  BY <1>1, <1>2, <1>3 DEF Imported
<1>5. Len(mods) \in Nat /\ Len(mods') \in Nat /\ Len(mods) <= Len(mods')
  BY DEF Extends
<1>6. Evaluations'
  <2>1. \A c \in 1..Len(stack) : Len(stack[c].entered) \in Nat
    BY <1>1, FramesOf, FrameFields
  <2>2. ASSUME NEW c \in 1..Len(stack), IsImport(c), c < Len(stack),
               NEW a \in 1..Len(stack[c].entered)
        PROVE  /\ stack[c].entered[a] \in 1..Len(mods')
               /\ mods'[stack[c].entered[a]].status = "evaluating"
    <3>1. UnderEvaluation(c)
      BY <2>2 DEF UnderEvaluation
    <3>2. /\ stack[c].entered[a] \in 1..Len(mods)
          /\ mods[stack[c].entered[a]].status = "evaluating"
      BY <3>1, <2>2, <1>1, EvaluatingOf
    <3>3. QED
      <4>1. PICK x \in 1..Len(mods) : x = stack[c].entered[a]
        BY <3>2
      <4>2. mods[x].status = "evaluating"
        BY <4>1, <3>2, Zenon
      <4>3. mods'[x].status = mods[x].status \/ mods[x].status = "compiled"
        BY Zenon DEF Extends
      <4>4. x \in 1..Len(mods')
        BY <1>5
      <4>5. QED
        BY <4>1, <4>2, <4>3, <4>4, Zenon
  <2>3. \A c \in 1..Len(stack') : IsImport(c) /\ c < Len(stack') =>
          /\ Len(stack'[c].entered) <= Len(stack[c].entered)
          /\ \A a \in 1..Len(stack'[c].entered) :
               /\ stack'[c].entered[a] = stack[c].entered[a]
               /\ stack[c].entered[a] \in 1..Len(mods')
               /\ mods'[stack[c].entered[a]].status = "evaluating"
    BY <2>1, <2>2
  <2>4. \A c, i \in 1..Len(stack') : Within(c, i) =>
          \A a \in 1..Len(stack[c].entered) :
            stack[c].entered[a] = stack[i].module => a <= Len(stack'[c].entered)
    BY <2>1
  <2>5. Len(stack') <= Len(stack) /\ stack' \in Seq(Frame)
    BY <1>1
  <2>6. QED
    BY <2>3, <2>4, <2>5, <1>1, Shortened
<1>7. QED
  BY <1>4, <1>5, <1>6, ImportedKeeps

(* An import that starts an evaluation. *)
LEMMA StartedImport ==
  ASSUME IInv, NEW k \in Keys, JSRuns, NEW ms, NEW m \in 1..Len(ms), NEW how \in How,
         Paired(registry', ms), Extends(mods, ms), ms[m].status = "linked",
         promises' = NewPromise(k, "pending", None), Evaluate(ms, k, m, how), jobs' = jobs,
         \/ how = "file" /\ waiters' = waiters /\ inFlight' = inFlight /\ aborted' = aborted
         \/ /\ how # "file" /\ k \notin inFlight /\ inFlight' = inFlight \cup {k}
            /\ ~aborted /\ aborted' = FALSE
            /\ \/ waiters' = waiters
               \/ waiters' = [waiters EXCEPT ![k] = @ \cup {Len(promises')}]
  PROVE  IInv'
<1>1. /\ stack \in Seq(Frame) /\ promises \in Seq(PromiseRecord) /\ Evaluations
      /\ Paired(registry, mods) /\ Len(stack) \in Nat
  BY DEF IInv, Shapes
<1>2. /\ promises' \in Seq(PromiseRecord) /\ Len(promises') = Len(promises) + 1
      /\ Len(promises') \in Nat
      /\ \A p \in 1..Len(promises) : promises'[p] = promises[p]
      /\ promises'[Len(promises')].state = "pending"
  <2>1. None \in Nat
    BY DEF None
  <2>2. QED
    BY <2>1, <1>1, PromiseAppended
<1>3. Len(mods) \in Nat /\ Len(ms) \in Nat /\ Len(mods) <= Len(ms) /\ m \in Nat
  BY DEF Extends
<1>4. Started(k, m, how)
  BY <1>1, <1>2, <1>3, EvaluateStarts
<1>5. mods' = [ms EXCEPT ![m].status = "evaluating"]
  BY DEF Evaluate
<1>6. /\ Paired(registry', mods') /\ Len(mods') = Len(ms) /\ mods'[m].status = "evaluating"
      /\ \A x \in 1..Len(ms) : x # m => mods'[x] = ms[x]
  BY <1>5, EvaluatePairs
<1>7. /\ m \in 1..Len(mods) => mods[m].status # "evaluating"
      /\ \A x \in 1..Len(mods) : mods[x].status = "evaluating" => mods'[x].status = "evaluating"
  <2>1. \A x \in 1..Len(mods) : x \in 1..Len(ms)
    BY <1>3
  <2>2. \A x \in 1..Len(mods) : mods[x].status = "evaluating" => ms[x].status = "evaluating"
    BY DEF Extends
  <2>3. QED
    BY <2>1, <2>2, <1>6
<1>8. Evaluations'
  <2>1. m \in 1..Len(mods') /\ Len(mods') \in Nat /\ Len(mods) <= Len(mods')
    BY <1>3, <1>6
  <2>2. QED
    BY <2>1, <1>1, <1>3, <1>4, <1>6, <1>7, StartedEvaluations
<1>9. /\ stack' \in Seq(Frame) /\ Len(stack') = Len(stack) + 2
      /\ \A i \in 1..Len(stack) : stack'[i] = stack[i]
      /\ stack'[Len(stack) + 1].kind = "import" /\ stack'[Len(stack) + 1].phase = how
      /\ stack'[Len(stack) + 1].key = k /\ stack'[Len(stack) + 1].promise = Len(promises')
      /\ stack'[Len(stack) + 1].module = m
      /\ stack'[Len(stack) + 2].kind = "module" /\ stack'[Len(stack) + 2].module = m
  BY <1>4 DEF Started
<1>10. /\ Len(stack) + 1 \in 1..Len(stack') /\ Len(stack) <= Len(stack')
       /\ \A i \in 1..Len(stack') :
            i \notin 1..Len(stack) => i = Len(stack) + 1 \/ i = Len(stack) + 2
  BY <1>1, <1>9
<1>11. Called(k)
  BY <1>9, <1>10 DEF Called
<1>12. Imported(k)
  BY <1>2, <1>9, <1>10, <1>11 DEF Imported
<1>13. Boarded(k)
  BY <1>9, <1>11 DEF Boarded
<1>14. \A i \in 1..Len(stack') : i \notin 1..Len(stack) => stack'[i].module \in 1..Len(mods')
  BY <1>6, <1>9, <1>10
<1>15. Len(mods) <= Len(mods')
  BY <1>3, <1>6
<1>16. QED
  BY <1>6, <1>8, <1>12, <1>13, <1>14, <1>15, ImportedKeeps

(* import() keeps the invariant. *)
LEMMA ImportKeeps ==
  ASSUME IInv, NEW k \in Keys, Import(k)
  PROVE  IInv'
<1>1. /\ JSRuns /\ ~aborted /\ Paired(registry, mods) /\ registry \in [Keys -> 0..Len(mods)]
      /\ aborted \in BOOLEAN /\ Extends(mods, mods) /\ None \in Nat
  BY ExtendsItself DEF Import, JSRuns, IInv, Paired, Shapes, None
<1>a. aborted = FALSE
  BY <1>1, Zenon
<1>2. CASE ImportCoalesced(k)
  <2>1. /\ k \in inFlight /\ registry' = Dropped(k) /\ promises' = NewPromise(k, "pending", None)
        /\ waiters' = [waiters EXCEPT ![k] = @ \cup {Len(promises')}]
        /\ inFlight' = inFlight /\ mods' = mods /\ stack' = stack /\ jobs' = jobs
        /\ aborted' = aborted
    BY <1>2 DEF ImportCoalesced
  <2>2. Paired(registry', mods')
    <3>1. CASE k \in SfcBase
      BY <2>1, <3>1, <1>1, DropPairs DEF Dropped
    <3>2. CASE k \notin SfcBase
      BY <2>1, <3>2, <1>1 DEF Dropped
    <3>3. QED
      BY <3>1, <3>2
  <2>3. ~Called(k)
    <3>1. Len(stack) \in Nat
      BY DEF IInv, Shapes
    <3>2. Len(stack) + 1 \notin 1..Len(stack')
      BY <2>1, <3>1
    <3>3. QED
      BY <3>2 DEF Called
  <2>4. Boarded(k)
    BY <2>1, <2>3 DEF Boarded
  <2>5. Extends(mods, mods')
    BY <2>1, <1>1
  <2>6. QED
    BY <2>1, <2>2, <2>4, <2>5, <1>1, QuietImport
<1>3. CASE ImportEvaluated(k)
  <2>1. /\ promises' = NewPromise(k, "resolved", registry[k])
        /\ registry' = registry /\ waiters' = waiters
        /\ inFlight' = inFlight /\ mods' = mods /\ stack' = stack /\ jobs' = jobs
        /\ aborted' = aborted
    BY <1>3 DEF ImportEvaluated
  <2>2. registry[k] \in Nat /\ Len(stack) \in Nat
    BY <1>1, PairedFacts DEF IInv, Shapes
  <2>3. ~Called(k)
    <3>1. Len(stack) + 1 \notin 1..Len(stack')
      BY <2>1, <2>2
    <3>2. QED
      BY <3>1 DEF Called
  <2>4. Boarded(k)
    BY <2>1, <2>3 DEF Boarded
  <2>5. Extends(mods, mods') /\ Paired(registry', mods')
    BY <2>1, <1>1
  <2>6. QED
    BY <2>1, <2>2, <2>4, <2>5, QuietImport
<1>4. CASE ImportCached(k)
  <2>1. /\ k \notin inFlight /\ Dropped(k)[k] # None /\ inFlight' = inFlight \cup {k}
        /\ promises' = NewPromise(k, "pending", None)
        /\ waiters' = [waiters EXCEPT ![k] = @ \cup {Len(promises')}]
        /\ registry' = registry /\ jobs' = jobs
    BY <1>4 DEF ImportCached
  <2>2. CASE mods[registry[k]].status = "linked"
    <3>1. Evaluate(mods, k, registry[k], "cached") /\ aborted' = FALSE
      BY <1>4, <2>2 DEF ImportCached
    <3>2. registry[k] # None
      BY <2>1, <1>1 DEF Dropped
    <3>3. registry[k] \in 1..Len(mods)
      BY <3>2, <1>1, PairedFacts
    <3>4. "cached" \in How /\ "cached" # "file"
      BY DEF How
    <3>5. QED
      BY <2>1, <2>2, <3>1, <3>3, <3>4, <1>1, StartedImport
  <2>3. CASE mods[registry[k]].status # "linked"
    <3>1. aborted' = TRUE /\ mods' = mods /\ stack' = stack
      BY <1>4, <2>3 DEF ImportCached
    <3>2. Boarded(k)
      BY <2>1, <3>1 DEF Boarded
    <3>3. Extends(mods, mods') /\ Paired(registry', mods')
      BY <2>1, <3>1, <1>1
    <3>4. QED
      BY <2>1, <3>1, <3>2, <3>3, <1>1, QuietImport
  <2>4. QED
    BY <2>2, <2>3
<1>5. CASE ImportFetched(k)
  <2> DEFINE reg == [registry EXCEPT ![k] = None]
             f == Fetched(reg, mods, k)
             l == Linked(f.reg, f.ms, k)
  <2>1. /\ NotCached(k) /\ inFlight' = inFlight \cup {k}
        /\ promises' = NewPromise(k, "pending", None) /\ registry' = l.reg
        /\ Evaluate(l.ms, k, l.reg[k], "fetched")
        /\ waiters' = waiters /\ jobs' = jobs /\ aborted' = aborted
    BY <1>5, Zenon DEF ImportFetched
  <2>2. Paired(reg, mods) /\ reg[k] = None
    BY <2>1, <1>1, NotCachedPairs
  <2> HIDE DEF reg
  <2>3. NewModule(mods, k, l, "linked")
    BY <2>2, FetchedAndLinked
  <2> HIDE DEF l
  <2>4. /\ Paired(registry', l.ms) /\ Extends(mods, l.ms) /\ l.reg[k] \in 1..Len(l.ms)
        /\ l.ms[l.reg[k]].status = "linked"
    <3>1. /\ Paired(l.reg, l.ms) /\ Extends(mods, l.ms)
          /\ l.reg[k] \in Len(mods) + 1 .. Len(l.ms) /\ l.ms[l.reg[k]].status = "linked"
      BY <2>3 DEF NewModule
    <3>2. QED
      BY <2>1, <3>1 DEF Extends
  <2>5. "fetched" \in How /\ "fetched" # "file" /\ k \notin inFlight /\ aborted' = FALSE
    BY <2>1, <1>a DEF How, NotCached
  <2>6. QED
    BY <2>1, <2>4, <2>5, <1>1, StartedImport
<1>6. CASE ImportRetried(k)
  <2>1. /\ NotCached(k) /\ inFlight' = inFlight /\ waiters' = waiters /\ jobs' = jobs
        /\ aborted' = aborted
    BY <1>6 DEF ImportRetried
  <2>2. PICK first \in FirstAttemptFails(k) :
          LET f == Fetched(first.reg, first.ms, k)
              l == Linked(f.reg, f.ms, k)
          IN  /\ promises' = NewPromise(k, "pending", None) /\ registry' = l.reg
              /\ Evaluate(l.ms, k, l.reg[k], "file")
    BY <1>6, Zenon DEF ImportRetried
  <2> DEFINE f == Fetched(first.reg, first.ms, k)
             l == Linked(f.reg, f.ms, k)
  <2>3. Paired(first.reg, first.ms) /\ Extends(mods, first.ms) /\ first.reg[k] = None
    BY <2>1, <1>1, FirstAttemptPairs
  <2>4. NewModule(first.ms, k, l, "linked")
    BY <2>3, FetchedAndLinked
  <2>5. /\ promises' = NewPromise(k, "pending", None) /\ registry' = l.reg
        /\ Evaluate(l.ms, k, l.reg[k], "file")
    BY <2>2, Zenon
  <2> HIDE DEF l
  <2>6. /\ Paired(registry', l.ms) /\ Extends(first.ms, l.ms) /\ l.reg[k] \in 1..Len(l.ms)
        /\ l.ms[l.reg[k]].status = "linked"
    <3>1. /\ Paired(l.reg, l.ms) /\ Extends(first.ms, l.ms)
          /\ l.reg[k] \in Len(first.ms) + 1 .. Len(l.ms) /\ l.ms[l.reg[k]].status = "linked"
      BY <2>4 DEF NewModule
    <3>2. QED
      BY <2>5, <3>1 DEF Extends
  <2>7. Extends(mods, l.ms)
    BY <2>3, <2>6, ExtendsTwice
  <2>8. "file" \in How
    BY DEF How
  <2>9. QED
    BY <2>1, <2>5, <2>6, <2>7, <2>8, <1>1, StartedImport
<1>7. CASE ImportFails(k)
  <2>1. /\ NotCached(k) /\ promises' = NewPromise(k, "rejected", None) /\ inFlight' = inFlight
        /\ waiters' = waiters /\ stack' = stack /\ jobs' = jobs /\ aborted' = aborted
    BY <1>7 DEF ImportFails
  <2>2. PICK first \in FirstAttemptFails(k) :
          LET f == Fetched(first.reg, first.ms, k)
          IN  \E second \in {first} \cup NotLinked(f.reg, f.ms, k) :
                registry' = second.reg /\ mods' = second.ms
    BY <1>7, Zenon DEF ImportFails
  <2> DEFINE f == Fetched(first.reg, first.ms, k)
  <2>3. PICK second \in {first} \cup NotLinked(f.reg, f.ms, k) :
          registry' = second.reg /\ mods' = second.ms
    BY <2>2, Zenon
  <2>4. Paired(first.reg, first.ms) /\ Extends(mods, first.ms) /\ first.reg[k] = None
    BY <2>1, <1>1, FirstAttemptPairs
  <2>5. Paired(second.reg, second.ms) /\ Extends(mods, second.ms)
    <3>1. CASE second = first
      BY <3>1, <2>4
    <3>2. CASE second \in NotLinked(f.reg, f.ms, k)
      <4>1. Paired(second.reg, second.ms) /\ Extends(first.ms, second.ms)
        BY <3>2, <2>4, FetchedNotLinked
      <4>2. QED
        BY <4>1, <2>4, ExtendsTwice
    <3>3. QED
      BY <2>3, <3>1, <3>2
  <2>6. ~Called(k)
    <3>1. Len(stack) \in Nat
      BY DEF IInv, Shapes
    <3>2. Len(stack) + 1 \notin 1..Len(stack')
      BY <2>1, <3>1
    <3>3. QED
      BY <3>2 DEF Called
  <2>7. Boarded(k)
    BY <2>1, <2>6 DEF Boarded
  <2>8. Paired(registry', mods') /\ Extends(mods, mods')
    BY <2>3, <2>5
  <2>9. QED
    BY <2>1, <2>7, <2>8, <1>1, QuietImport
<1>8. QED
  BY <1>2, <1>3, <1>4, <1>5, <1>6, <1>7 DEF Import

-----------------------------------------------------------------------------
(* import() goes on, and reactions run. *)

(* The promises in ps are settled, the others are left alone. *)
Settled(ps, state, m) ==
  /\ promises' \in Seq(PromiseRecord) /\ Len(promises') = Len(promises)
  /\ \A p \in 1..Len(promises) : IF p \in ps
       THEN promises'[p].state = state /\ promises'[p].module = m
       ELSE promises'[p] = promises[p]

(* Settle does that. *)
LEMMA SettleResult ==
  ASSUME promises \in Seq(PromiseRecord), NEW ps, NEW m \in Nat,
         NEW state \in {"pending", "resolved", "rejected"}, Settle(ps, state, m)
  PROVE  Settled(ps, state, m)
<1> DEFINE up(p) == [promises[p] EXCEPT !.state = state, !.module = m]
<1>1. /\ Len(promises) \in Nat /\ DOMAIN promises = 1..Len(promises)
      /\ \A p \in 1..Len(promises) : promises[p] \in PromiseRecord
  BY ElementOfSeq
<1>2. \A r \in PromiseRecord :
        LET y == [r EXCEPT !.state = state, !.module = m] IN
        y \in PromiseRecord /\ y.state = state /\ y.module = m
  BY DEF PromiseRecord
<1>3. \A p \in 1..Len(promises) :
        up(p) \in PromiseRecord /\ up(p).state = state /\ up(p).module = m
  BY <1>1, <1>2, Zenon
<1>4. promises' = [p \in 1..Len(promises) |-> IF p \in ps THEN up(p) ELSE promises[p]]
  BY <1>1, Zenon DEF Settle
<1> HIDE DEF up
<1>5. promises' \in [1..Len(promises) -> PromiseRecord]
  BY <1>1, <1>3, <1>4
<1>6. promises' \in Seq(PromiseRecord) /\ Len(promises') = Len(promises)
  BY <1>1, <1>5
<1>7. \A p \in 1..Len(promises) : IF p \in ps
        THEN promises'[p].state = state /\ promises'[p].module = m
        ELSE promises'[p] = promises[p]
  BY <1>3, <1>4
<1>8. QED
  BY <1>6, <1>7 DEF Settled

(* Those who settle a promise after the step did so before, and their promises *)
(* were not settled by the step.                                               *)
Fewer(ps) ==
  /\ \A i : IsImport(i)' => IsImport(i) /\ stack'[i] = stack[i] /\ stack[i].promise \notin ps
  /\ jobs' \subseteq jobs /\ \A j \in jobs' : j.promise \notin ps
  /\ \A k \in Keys : waiters'[k] \subseteq waiters[k] /\ waiters'[k] \cap ps = {}

(* So every promise still has the settlers it should have. *)
LEMMA FewerHolders ==
  ASSUME IInv, NEW ps, NEW state, NEW m, Settled(ps, state, m), Fewer(ps)
  PROVE  Holders'
<1>1. Holders /\ promises \in Seq(PromiseRecord)
  BY DEF IInv, Shapes
<1>2. \A p : Pending(p) /\ p \notin ps => Pending(p)'
  BY <1>1 DEF Settled, Pending
<1>3. \A i : IsImport(i)' => IsImport(i) /\ stack'[i] = stack[i] /\ stack[i].promise \notin ps
  BY DEF Fewer
<1>4. /\ \A j \in jobs' : j \in jobs /\ j.promise \notin ps
      /\ \A k \in Keys : \A p \in waiters'[k] : p \in waiters[k] /\ p \notin ps
  BY DEF Fewer
<1>5. /\ \A i : IsImport(i) => Pending(stack[i].promise)
      /\ \A j \in jobs : Pending(j.promise)
      /\ \A k \in Keys : \A p \in waiters[k] : Pending(p)
      /\ \A i, l : IsImport(i) /\ IsImport(l) /\ stack[i].promise = stack[l].promise => i = l
      /\ \A j, l \in jobs : j.promise = l.promise => j = l
  BY <1>1 DEF Holders, IsImport
<1>6. /\ \A i : \A j \in jobs : IsImport(i) => stack[i].promise # j.promise
      /\ \A k, l \in Keys : k # l => waiters[k] \cap waiters[l] = {}
      /\ \A k \in Keys : \A i : IsImport(i) /\ stack[i].promise \in waiters[k] => FrameOwns(i, k)
      /\ \A k \in Keys, j \in jobs : j.promise \in waiters[k] => JobOwns(j, k)
  BY <1>1 DEF Holders, IsImport
<1>7. \A i : IsImport(i)' => Pending(stack[i].promise)'
  <2> SUFFICES ASSUME NEW i, IsImport(i)' PROVE Pending(stack[i].promise)'
    OBVIOUS
  <2>1. PICK p : p = stack'[i].promise
    OBVIOUS
  <2>2. Pending(p)'
    BY <2>1, <1>2, <1>3, <1>5
  <2>3. QED
    BY <2>1, <2>2 DEF Pending
<1>8. /\ \A j \in jobs' : Pending(j.promise)'
      /\ \A k \in Keys : \A p \in waiters'[k] : Pending(p)'
  BY <1>2, <1>4, <1>5
<1>9. /\ \A i, l : IsImport(i)' /\ IsImport(l)' /\ stack'[i].promise = stack'[l].promise => i = l
      /\ \A j, l \in jobs' : j.promise = l.promise => j = l
      /\ \A i : \A j \in jobs' : IsImport(i)' => stack'[i].promise # j.promise
  BY <1>3, <1>4, <1>5, <1>6
<1>10. \A k, l \in Keys : k # l => waiters'[k] \cap waiters'[l] = {}
  BY <1>4, <1>6
<1>11. ASSUME NEW k \in Keys, NEW i, IsImport(i)', stack'[i].promise \in waiters'[k]
       PROVE  FrameOwns(i, k)'
  <2>1. FrameOwns(i, k)
    BY <1>11, <1>3, <1>4, <1>6
  <2>2. QED
    BY <2>1, <1>11, <1>3 DEF FrameOwns
<1>12. ASSUME NEW k \in Keys, NEW j \in jobs', j.promise \in waiters'[k]
       PROVE  JobOwns(j, k)'
  <2>1. JobOwns(j, k)
    BY <1>12, <1>4, <1>6
  <2>2. QED
    BY <2>1, <1>12 DEF JobOwns
<1>13. QED
  BY <1>7, <1>8, <1>9, <1>10, <1>11, <1>12 DEF Holders

(* What Flight says of one URL, for all frames and jobs. *)
LEMMA FlightOf ==
  ASSUME Flight, NEW x \in Keys
  PROVE  /\ ~aborted => (x \in inFlight <=> \/ \E i : FrameOwns(i, x)
                                            \/ \E j : JobOwns(j, x))
         /\ waiters[x] # {} => x \in inFlight
         /\ \A i, l : FrameOwns(i, x) /\ FrameOwns(l, x) => i = l
         /\ \A j, l : JobOwns(j, x) /\ JobOwns(l, x) => j = l
         /\ \A i, j : ~(FrameOwns(i, x) /\ JobOwns(j, x))
<1>1. /\ \A i : FrameOwns(i, x) => i \in 1..Len(stack)
      /\ \A j : JobOwns(j, x) => j \in jobs
  BY DEF FrameOwns, IsImport, JobOwns
<1>2. QED
  BY <1>1 DEF Flight

(* The owner of k answers, and k is not in flight any more. *)
LEMMA LandedFlight ==
  ASSUME IInv, NEW k \in Keys, aborted' = aborted, inFlight' = inFlight \ {k},
         waiters' = [waiters EXCEPT ![k] = {}],
         \A i, x : FrameOwns(i, x)' <=> FrameOwns(i, x) /\ x # k,
         \A j, x : JobOwns(j, x)' <=> JobOwns(j, x) /\ x # k
  PROVE  Flight'
<1>1. Flight /\ waiters \in [Keys -> SUBSET (1..Len(promises))]
  BY DEF IInv, Shapes
<1>2. ASSUME NEW x \in Keys
      PROVE  /\ ~aborted' => (x \in inFlight' <=> \/ \E i : FrameOwns(i, x)'
                                                  \/ \E j : JobOwns(j, x)')
             /\ waiters'[x] # {} => x \in inFlight'
             /\ \A i, l : FrameOwns(i, x)' /\ FrameOwns(l, x)' => i = l
             /\ \A j, l : JobOwns(j, x)' /\ JobOwns(l, x)' => j = l
             /\ \A i, j : ~(FrameOwns(i, x)' /\ JobOwns(j, x)')
  <2>1. CASE x = k
    BY <2>1, <1>1
  <2>2. CASE x # k
    <3>1. /\ ~aborted => (x \in inFlight <=> \/ \E i : FrameOwns(i, x)
                                             \/ \E j : JobOwns(j, x))
          /\ waiters[x] # {} => x \in inFlight
          /\ \A i, l : FrameOwns(i, x) /\ FrameOwns(l, x) => i = l
          /\ \A j, l : JobOwns(j, x) /\ JobOwns(l, x) => j = l
          /\ \A i, j : ~(FrameOwns(i, x) /\ JobOwns(j, x))
      BY <1>1, FlightOf
    <3>2. waiters'[x] = waiters[x]
      BY <2>2, <1>1
    <3>3. QED
      BY <2>2, <3>1, <3>2
  <2>3. QED
    BY <2>1, <2>2
<1>3. /\ \A i, x : FrameOwns(i, x)' => i \in 1..Len(stack')
      /\ \A j, x : JobOwns(j, x)' => j \in jobs'
  BY DEF FrameOwns, IsImport, JobOwns
<1>4. QED
  BY <1>2, <1>3 DEF Flight

(* The call on top of the stack returns. *)
Popped ==
  /\ stack' \in Seq(Frame) /\ Len(stack') = Len(stack) - 1
  /\ \A i : IsImport(i)' <=> IsImport(i) /\ i # Len(stack)
  /\ \A i : IsImport(i)' => stack'[i] = stack[i]
  /\ \A i \in 1..Len(stack') : stack'[i].module \in 1..Len(mods)
  /\ Evaluations'

(* A call that returns leaves the evaluations under it as they are. *)
LEMMA PopKeeps ==
  ASSUME IInv, Returning, stack' = Front(stack), mods' = mods
  PROVE  /\ Popped /\ IsImport(Len(stack)) /\ Top = stack[Len(stack)] /\ Top \in Frame
         /\ Len(stack) \in 1..Len(stack) /\ Top.module \in 1..Len(mods) /\ Top.phase \in How
<1>1. /\ stack \in Seq(Frame) /\ Evaluations /\ stack # <<>> /\ Top.kind = "import"
      /\ \A i \in 1..Len(stack) : stack[i].module \in 1..Len(mods)
  BY DEF IInv, Shapes, Returning
<1>2. /\ Len(stack) \in Nat /\ Len(stack) \in 1..Len(stack) /\ Top = stack[Len(stack)]
      /\ \A i \in 1..Len(stack) : stack[i] \in Frame
  BY <1>1, FramesOf DEF Top
<1>3. /\ stack' \in Seq(Frame) /\ Len(stack') = Len(stack) - 1
      /\ \A i \in 1..Len(stack') : stack'[i] = stack[i]
  <2>1. Len(stack) - 1 \in 0..Len(stack)
    BY <1>2
  <2>2. stack' = SubSeq(stack, 1, Len(stack) - 1)
    BY DEF Front
  <2>3. QED
    BY <2>1, <2>2, <1>1, CutAt
<1>4. \A i : i \in 1..Len(stack') <=> i \in 1..Len(stack) /\ i # Len(stack)
  BY <1>2, <1>3
<1>5. /\ \A i : IsImport(i)' <=> IsImport(i) /\ i # Len(stack)
      /\ \A i : IsImport(i)' => stack'[i] = stack[i]
  BY <1>3, <1>4 DEF IsImport
<1>6. Evaluations'
  <2>1. \A c \in 1..Len(stack') : Len(stack[c].entered) \in Nat
    BY <1>2, <1>4, FrameFields
  <2>2. ASSUME NEW c \in 1..Len(stack'), IsImport(c), c < Len(stack'),
               NEW a \in 1..Len(stack[c].entered)
        PROVE  /\ stack[c].entered[a] \in 1..Len(mods')
               /\ mods'[stack[c].entered[a]].status = "evaluating"
    <3>1. UnderEvaluation(c) /\ c \in 1..Len(stack)
      BY <2>2, <1>2, <1>3, <1>4 DEF UnderEvaluation
    <3>2. QED
      BY <3>1, <1>1 DEF Evaluations, EnteredOnce
  <2>3. \A c \in 1..Len(stack') : IsImport(c) /\ c < Len(stack') =>
          /\ Len(stack'[c].entered) <= Len(stack[c].entered)
          /\ \A a \in 1..Len(stack'[c].entered) :
               /\ stack'[c].entered[a] = stack[c].entered[a]
               /\ stack[c].entered[a] \in 1..Len(mods')
               /\ mods'[stack[c].entered[a]].status = "evaluating"
    BY <2>1, <2>2, <1>3
  <2>4. \A c, i \in 1..Len(stack') : Within(c, i) =>
          \A a \in 1..Len(stack[c].entered) :
            stack[c].entered[a] = stack[i].module => a <= Len(stack'[c].entered)
    BY <2>1, <1>3
  <2>5. /\ Len(stack') <= Len(stack)
        /\ \A i \in 1..Len(stack') :
             /\ stack'[i].kind = stack[i].kind /\ stack'[i].module = stack[i].module
             /\ stack'[i].kind = "import" => stack'[i].phase = stack[i].phase
    BY <1>2, <1>3
  <2>6. QED
    BY <2>3, <2>4, <2>5, <1>1, <1>3, Shortened
<1>7. IsImport(Len(stack))
  BY <1>1, <1>2 DEF IsImport
<1>8. Top.phase \in How
  BY <1>1, <1>2, <1>7 DEF Evaluations, Pile
<1>9. \A i \in 1..Len(stack') : stack'[i].module \in 1..Len(mods)
  BY <1>1, <1>3, <1>4
<1>10. Popped
  BY <1>3, <1>5, <1>6, <1>9 DEF Popped
<1>11. QED
  BY <1>1, <1>2, <1>7, <1>8, <1>10

(* The call that fetched a module answers everybody. *)
LEMMA ResolveNowKeeps ==
  ASSUME IInv, ResolveNow
  PROVE  IInv' /\ Settled({Top.promise} \cup waiters[Top.key], "resolved", Top.module)
         /\ mods' = mods /\ ReportedEvaluated(Top.module)
<1>1. /\ Returning /\ Top.phase = "fetched" /\ ReportedEvaluated(Top.module)
      /\ Settle({Top.promise} \cup waiters[Top.key], "resolved", Top.module)
      /\ waiters' = [waiters EXCEPT ![Top.key] = {}] /\ inFlight' = inFlight \ {Top.key}
      /\ stack' = Front(stack) /\ registry' = registry /\ mods' = mods /\ jobs' = jobs
      /\ aborted' = aborted
  BY DEF ResolveNow
<1>2. PICK n : n = Len(stack)
  OBVIOUS
<1>3. /\ Popped /\ IsImport(n) /\ Top = stack[n] /\ Top \in Frame
      /\ n \in 1..n /\ Top.module \in 1..Len(mods) /\ Top.phase \in How
  BY <1>1, <1>2, PopKeeps
<1>4. PICK k \in Keys : k = Top.key
  BY <1>3, FrameFields
<1>5. /\ promises \in Seq(PromiseRecord) /\ waiters \in [Keys -> SUBSET (1..Len(promises))]
      /\ Flight /\ Holders /\ Paired(registry, mods) /\ inFlight \subseteq Keys
      /\ jobs \subseteq Job /\ aborted \in BOOLEAN
      /\ \A j \in jobs : j.module \in 1..Len(mods)
  BY DEF IInv, Shapes
<1>6. PICK ps : ps = {stack[n].promise} \cup waiters[k]
  OBVIOUS
<1>7. Settled(ps, "resolved", Top.module)
  <2>1. Top.module \in Nat
    BY <1>3, FrameFields
  <2>2. QED
    BY <2>1, <1>1, <1>3, <1>4, <1>5, <1>6, SettleResult
<1>8. FrameOwns(n, k)
  BY <1>1, <1>3, <1>4 DEF FrameOwns
<1>9. /\ \A i : FrameOwns(i, k) => i = n
      /\ \A j : ~JobOwns(j, k)
  BY <1>5, <1>8, FlightOf
<1>10. /\ \A i : IsImport(i)' <=> IsImport(i) /\ i # n
       /\ \A i : IsImport(i)' => stack'[i] = stack[i]
  BY <1>2, <1>3 DEF Popped
<1>11. \A x : waiters'[x] = IF x = k /\ x \in Keys THEN {} ELSE waiters[x]
  BY <1>1, <1>4, <1>5
<1>12. Fewer(ps)
  <2>1. ASSUME NEW i, IsImport(i)' PROVE stack[i].promise \notin ps
    <3>1. IsImport(i) /\ i # n /\ i \in 1..Len(stack) /\ n \in 1..Len(stack)
      BY <2>1, <1>2, <1>3, <1>10 DEF IsImport
    <3>2. stack[i].promise # stack[n].promise
      BY <3>1, <1>3, <1>5 DEF Holders
    <3>3. stack[i].promise \notin waiters[k]
      BY <3>1, <1>5, <1>9 DEF Holders
    <3>4. QED
      BY <3>2, <3>3, <1>6
  <2>2. ASSUME NEW j \in jobs PROVE j.promise \notin ps
    <3>1. stack[n].promise # j.promise
      BY <1>2, <1>3, <1>5 DEF Holders
    <3>2. j.promise \notin waiters[k]
      BY <1>5, <1>9 DEF Holders
    <3>3. QED
      BY <3>1, <3>2, <1>6
  <2>3. ASSUME NEW x \in Keys PROVE waiters'[x] \subseteq waiters[x] /\ waiters'[x] \cap ps = {}
    <3>1. CASE x = k
      BY <3>1, <1>11
    <3>2. CASE x # k
      <4>1. waiters'[x] = waiters[x]
        BY <3>2, <1>11
      <4>2. waiters[x] \cap waiters[k] = {}
        BY <3>2, <1>5 DEF Holders
      <4>3. stack[n].promise \notin waiters[x]
        <5>1. stack[n].promise \in waiters[x] => FrameOwns(n, x)
          BY <1>2, <1>3, <1>5 DEF Holders
        <5>2. ~FrameOwns(n, x)
          BY <3>2, <1>3, <1>4 DEF FrameOwns
        <5>3. QED
          BY <5>1, <5>2
      <4>4. QED
        BY <4>1, <4>2, <4>3, <1>6
    <3>3. QED
      BY <3>1, <3>2
  <2>4. QED
    BY <2>1, <2>2, <2>3, <1>1, <1>10 DEF Fewer
<1>13. Holders'
  BY <1>7, <1>12, FewerHolders
<1>14. Flight'
  <2>1. \A i, x : FrameOwns(i, x)' <=> FrameOwns(i, x) /\ x # k
    <3>1. \A i, x : FrameOwns(i, x)' <=> FrameOwns(i, x) /\ i # n
      BY <1>10 DEF FrameOwns
    <3>2. \A x : FrameOwns(n, x) => x = k
      BY <1>3, <1>4 DEF FrameOwns
    <3>3. QED
      BY <3>1, <3>2, <1>9
  <2>2. \A j, x : JobOwns(j, x)' <=> JobOwns(j, x) /\ x # k
    BY <1>1, <1>9 DEF JobOwns
  <2>3. QED
    BY <2>1, <2>2, <1>1, <1>4, LandedFlight
<1>15. Shapes'
  <2>1. waiters' \in [Keys -> SUBSET (1..Len(promises'))]
    BY <1>1, <1>5, <1>7 DEF Settled
  <2>2. QED
    BY <2>1, <1>1, <1>3, <1>5, <1>7 DEF Shapes, Settled, Popped
<1>16. IInv'
  BY <1>1, <1>3, <1>5, <1>13, <1>14, <1>15 DEF IInv, Popped
<1>17. QED
  BY <1>1, <1>3, <1>4, <1>6, <1>7, <1>16

(* The call hands its duty to a reaction. *)
LEMMA AttachKeeps ==
  ASSUME IInv, AttachReactions
  PROVE  IInv'
<1>1. /\ Returning /\ stack' = Front(stack) /\ registry' = registry /\ inFlight' = inFlight
      /\ waiters' = waiters /\ mods' = mods /\ promises' = promises /\ aborted' = aborted
  BY DEF AttachReactions
<1>2. PICK n : n = Len(stack)
  OBVIOUS
<1>3. /\ Popped /\ IsImport(n) /\ Top = stack[n] /\ Top \in Frame
      /\ n \in 1..Len(stack) /\ Top.module \in 1..Len(mods) /\ Top.phase \in How
  BY <1>1, <1>2, PopKeeps
<1>4. PICK new : new = [how |-> Top.phase, key |-> Top.key,
                        module |-> Top.module, promise |-> Top.promise]
  OBVIOUS
<1>5. jobs' = jobs \cup {new}
  BY <1>4 DEF AttachReactions
<1>6. /\ new \in Job /\ new.how = stack[n].phase /\ new.key = stack[n].key
      /\ new.module \in 1..Len(mods) /\ new.promise = stack[n].promise
  <2>1. Top.key \in Keys /\ Top.module \in Nat /\ Top.promise \in Nat
    BY <1>3, FrameFields
  <2>2. QED
    BY <2>1, <1>3, <1>4 DEF Job
<1>7. Shapes /\ Flight /\ Holders /\ Paired(registry, mods)
  BY DEF IInv
<1>8. /\ \A i : IsImport(i)' <=> IsImport(i) /\ i # n
      /\ \A i : IsImport(i)' => stack'[i] = stack[i]
      /\ \A i : IsImport(i)' => i \in 1..Len(stack')
  BY <1>2, <1>3 DEF Popped, IsImport
<1>9. /\ \A i, x : FrameOwns(i, x)' <=> FrameOwns(i, x) /\ i # n
      /\ \A j, x : JobOwns(j, x)' <=> JobOwns(j, x) \/ (j = new /\ FrameOwns(n, x))
  <2>1. \A i, x : FrameOwns(i, x)' <=> FrameOwns(i, x) /\ i # n
    BY <1>8 DEF FrameOwns
  <2>2. \A x : FrameOwns(n, x) <=> new.key = x /\ new.how # "file"
    BY <1>3, <1>6 DEF FrameOwns
  <2>3. \A j, x : JobOwns(j, x)' <=> JobOwns(j, x) \/ (j = new /\ FrameOwns(n, x))
    BY <2>2, <1>5 DEF JobOwns
  <2>4. QED
    BY <2>1, <2>3
<1>10. Flight'
  <2>1. ASSUME NEW x \in Keys
        PROVE  /\ ~aborted' => (x \in inFlight' <=> \/ \E i : FrameOwns(i, x)'
                                                    \/ \E j : JobOwns(j, x)')
               /\ waiters'[x] # {} => x \in inFlight'
               /\ \A i, l : FrameOwns(i, x)' /\ FrameOwns(l, x)' => i = l
               /\ \A j, l : JobOwns(j, x)' /\ JobOwns(l, x)' => j = l
               /\ \A i, j : ~(FrameOwns(i, x)' /\ JobOwns(j, x)')
    <3>1. /\ ~aborted => (x \in inFlight <=> \/ \E i : FrameOwns(i, x)
                                             \/ \E j : JobOwns(j, x))
          /\ waiters[x] # {} => x \in inFlight
          /\ \A i, l : FrameOwns(i, x) /\ FrameOwns(l, x) => i = l
          /\ \A j, l : JobOwns(j, x) /\ JobOwns(l, x) => j = l
          /\ \A i, j : ~(FrameOwns(i, x) /\ JobOwns(j, x))
      BY <1>7, FlightOf
    <3>2. CASE FrameOwns(n, x)
      BY <3>1, <3>2, <1>1, <1>9
    <3>3. CASE ~FrameOwns(n, x)
      <4>1. \A i : FrameOwns(i, x)' <=> FrameOwns(i, x)
        BY <3>3, <1>9
      <4>2. \A j : JobOwns(j, x)' <=> JobOwns(j, x)
        BY <3>3, <1>9
      <4>3. QED
        BY <3>1, <4>1, <4>2, <1>1
    <3>4. QED
      BY <3>2, <3>3
  <2>2. /\ \A i, x : FrameOwns(i, x)' => i \in 1..Len(stack')
        /\ \A j, x : JobOwns(j, x)' => j \in jobs'
    BY DEF FrameOwns, IsImport, JobOwns
  <2>3. QED
    BY <2>1, <2>2 DEF Flight
<1>11. Holders'
  <2>1. /\ \A i : IsImport(i) => Pending(stack[i].promise)
        /\ \A j \in jobs : Pending(j.promise)
        /\ \A k \in Keys : \A p \in waiters[k] : Pending(p)
        /\ \A i, l : IsImport(i) /\ IsImport(l) /\ stack[i].promise = stack[l].promise => i = l
        /\ \A j, l \in jobs : j.promise = l.promise => j = l
    BY <1>7 DEF Holders, IsImport
  <2>2. /\ \A i : \A j \in jobs : IsImport(i) => stack[i].promise # j.promise
        /\ \A k, l \in Keys : k # l => waiters[k] \cap waiters[l] = {}
        /\ \A k \in Keys : \A i : IsImport(i) /\ stack[i].promise \in waiters[k] => FrameOwns(i, k)
        /\ \A k \in Keys, j \in jobs : j.promise \in waiters[k] => JobOwns(j, k)
    BY <1>7 DEF Holders, IsImport
  <2>3. \A p : Pending(p)' <=> Pending(p)
    BY <1>1 DEF Pending
  <2>4. \A i : IsImport(i)' => Pending(stack[i].promise)'
    <3> SUFFICES ASSUME NEW i, IsImport(i)' PROVE Pending(stack[i].promise)'
      OBVIOUS
    <3>1. PICK p : p = stack'[i].promise
      OBVIOUS
    <3>2. Pending(p)'
      BY <3>1, <2>1, <2>3, <1>8
    <3>3. QED
      BY <3>1, <3>2 DEF Pending
  <2>5. /\ \A j \in jobs' : Pending(j.promise)'
        /\ \A k \in Keys : \A p \in waiters'[k] : Pending(p)'
    BY <2>1, <2>3, <1>1, <1>3, <1>5, <1>6
  <2>6. \A i, l : IsImport(i)' /\ IsImport(l)' /\ stack'[i].promise = stack'[l].promise => i = l
    BY <2>1, <1>8
  <2>7. \A j, l \in jobs' : j.promise = l.promise => j = l
    BY <2>1, <2>2, <1>3, <1>5, <1>6
  <2>8. \A i : \A j \in jobs' : IsImport(i)' => stack'[i].promise # j.promise
    BY <2>1, <2>2, <1>3, <1>5, <1>6, <1>8
  <2>9. \A k, l \in Keys : k # l => waiters'[k] \cap waiters'[l] = {}
    BY <2>2, <1>1
  <2>10. \A k \in Keys : \A i : IsImport(i)' /\ stack'[i].promise \in waiters'[k]
           => FrameOwns(i, k)'
    BY <2>2, <1>1, <1>8, <1>9
  <2>11. \A k \in Keys, j \in jobs' : j.promise \in waiters'[k] => JobOwns(j, k)'
    BY <2>2, <1>1, <1>3, <1>5, <1>6, <1>9
  <2>12. QED
    BY <2>4, <2>5, <2>6, <2>7, <2>8, <2>9, <2>10, <2>11 DEF Holders
<1>12. Shapes'
  BY <1>1, <1>3, <1>5, <1>6, <1>7 DEF Shapes, Popped
<1>13. QED
  BY <1>1, <1>3, <1>7, <1>10, <1>11, <1>12 DEF IInv, Popped

(* A reaction runs and answers its own promise, and the waiters if it owns a URL. *)
LEMMA ReactionKeeps ==
  ASSUME IInv, NEW j \in jobs, Reaction(j)
  PROVE  IInv' /\ mods' = mods /\ \E ps, state :
           /\ Settled(ps, state, j.module) /\ \A p \in ps : Pending(p)
           /\ state = "resolved" => mods[j.module].status = "evaluated"
<1>1. /\ registry' = registry /\ mods' = mods /\ stack' = stack /\ aborted' = aborted
      /\ jobs' = jobs \ {j}
  BY DEF Reaction
<1>2. /\ promises \in Seq(PromiseRecord) /\ waiters \in [Keys -> SUBSET (1..Len(promises))]
      /\ Flight /\ Holders /\ Paired(registry, mods) /\ inFlight \subseteq Keys /\ Evaluations
      /\ jobs \subseteq Job /\ aborted \in BOOLEAN /\ stack \in Seq(Frame)
      /\ \A l \in jobs : l.module \in 1..Len(mods)
      /\ \A i \in 1..Len(stack) : stack[i].module \in 1..Len(mods)
  BY DEF IInv, Shapes
<1>3. j \in Job /\ j.key \in Keys /\ j.module \in Nat
  BY <1>2 DEF Job
<1>4. PICK k \in Keys : k = j.key
  BY <1>3
<1>5. PICK ps : ps = {j.promise} \cup (IF j.how = "file" THEN {} ELSE waiters[k])
  OBVIOUS
<1>6. PICK state \in {"resolved", "rejected"} :
        state = IF mods[j.module].status = "evaluated" THEN "resolved" ELSE "rejected"
  OBVIOUS
<1>7. Settled(ps, state, j.module)
  <2>1. Settle(ps, state, j.module)
    BY <1>4, <1>5, <1>6 DEF Reaction
  <2>2. QED
    BY <2>1, <1>2, <1>3, <1>6, SettleResult
<1>8. \A p \in ps : Pending(p)
  BY <1>2, <1>5 DEF Holders
<1>9. \A i, x : FrameOwns(i, x)' <=> FrameOwns(i, x)
  BY <1>1 DEF FrameOwns, IsImport
<1>10. \A l, x : JobOwns(l, x)' <=> JobOwns(l, x) /\ l # j
  BY <1>1 DEF JobOwns
<1>11. \A i : IsImport(i)' <=> IsImport(i)
  BY <1>1 DEF IsImport
<1>12. /\ \A i : IsImport(i) => stack[i].promise # j.promise
       /\ \A l \in jobs' : l \in jobs /\ l.promise # j.promise
       /\ \A x \in Keys : j.promise \in waiters[x] => JobOwns(j, x)
  BY <1>1, <1>2 DEF Holders, IsImport
<1>13. CASE j.how = "file"
  <2>1. inFlight' = inFlight /\ waiters' = waiters /\ ps = {j.promise}
    BY <1>5, <1>13 DEF Reaction
  <2>2. \A x : ~JobOwns(j, x)
    BY <1>13 DEF JobOwns
  <2>3. Fewer(ps)
    BY <2>1, <2>2, <1>1, <1>11, <1>12 DEF Fewer
  <2>4. Holders'
    BY <2>3, <1>7, FewerHolders
  <2>5. \A l, x : JobOwns(l, x)' <=> JobOwns(l, x)
    BY <2>2, <1>10
  <2>6. Flight'
    <3>1. ASSUME NEW x \in Keys
          PROVE  /\ ~aborted' => (x \in inFlight' <=> \/ \E i : FrameOwns(i, x)'
                                                      \/ \E l : JobOwns(l, x)')
                 /\ waiters'[x] # {} => x \in inFlight'
                 /\ \A i, l : FrameOwns(i, x)' /\ FrameOwns(l, x)' => i = l
                 /\ \A a, l : JobOwns(a, x)' /\ JobOwns(l, x)' => a = l
                 /\ \A i, l : ~(FrameOwns(i, x)' /\ JobOwns(l, x)')
      <4>1. /\ ~aborted => (x \in inFlight <=> \/ \E i : FrameOwns(i, x)
                                               \/ \E l : JobOwns(l, x))
            /\ waiters[x] # {} => x \in inFlight
            /\ \A i, l : FrameOwns(i, x) /\ FrameOwns(l, x) => i = l
            /\ \A a, l : JobOwns(a, x) /\ JobOwns(l, x) => a = l
            /\ \A i, l : ~(FrameOwns(i, x) /\ JobOwns(l, x))
        BY <1>2, FlightOf
      <4>2. QED
        BY <4>1, <2>1, <2>5, <1>1, <1>9
    <3>2. /\ \A i, x : FrameOwns(i, x)' => i \in 1..Len(stack')
          /\ \A l, x : JobOwns(l, x)' => l \in jobs'
      BY DEF FrameOwns, IsImport, JobOwns
    <3>3. QED
      BY <3>1, <3>2 DEF Flight
  <2>7. Shapes'
    BY <2>1, <1>1, <1>2, <1>7 DEF Shapes, Settled
  <2>8. Evaluations'
    BY <1>1, <1>2 DEF Evaluations, Pile, EnteredOnce, EnteredInOrder, Within, IsImport,
                      UnderEvaluation
  <2>9. IInv'
    BY <2>4, <2>6, <2>7, <2>8, <1>1, <1>2 DEF IInv
  <2>10. QED
    BY <2>9, <1>1, <1>6, <1>7, <1>8
<1>14. CASE j.how # "file"
  <2>1. /\ inFlight' = inFlight \ {k} /\ waiters' = [waiters EXCEPT ![k] = {}]
        /\ ps = {j.promise} \cup waiters[k]
    BY <1>4, <1>5, <1>14 DEF Reaction
  <2>2. JobOwns(j, k) /\ \A x : JobOwns(j, x) => x = k
    BY <1>4, <1>14 DEF JobOwns
  <2>3. /\ \A i : ~FrameOwns(i, k)
        /\ \A l : JobOwns(l, k) => l = j
    BY <2>2, <1>2, FlightOf
  <2>4. \A x \in Keys : waiters'[x] = IF x = k THEN {} ELSE waiters[x]
    BY <2>1, <1>2
  <2>5. Fewer(ps)
    <3>1. \A i : IsImport(i)' => stack[i].promise \notin ps
      <4> SUFFICES ASSUME NEW i, IsImport(i) PROVE stack[i].promise \notin ps
        BY <1>11
      <4>1. stack[i].promise \notin waiters[k]
        BY <2>3, <1>2 DEF Holders, IsImport
      <4>2. QED
        BY <4>1, <2>1, <1>12
    <3>2. \A l \in jobs' : l \in jobs /\ l.promise \notin ps
      <4> SUFFICES ASSUME NEW l \in jobs' PROVE l \in jobs /\ l.promise \notin ps
        OBVIOUS
      <4>1. l \in jobs /\ l # j /\ l.promise # j.promise
        BY <1>1, <1>12
      <4>2. l.promise \notin waiters[k]
        BY <4>1, <2>3, <1>2 DEF Holders
      <4>3. QED
        BY <4>1, <4>2, <2>1
    <3>3. ASSUME NEW x \in Keys PROVE waiters'[x] \subseteq waiters[x] /\ waiters'[x] \cap ps = {}
      <4>1. CASE x = k
        BY <4>1, <2>4
      <4>2. CASE x # k
        <5>1. waiters'[x] = waiters[x]
          BY <4>2, <2>4
        <5>2. waiters[x] \cap waiters[k] = {}
          BY <4>2, <1>2 DEF Holders
        <5>3. j.promise \notin waiters[x]
          BY <4>2, <2>2, <1>12
        <5>4. QED
          BY <5>1, <5>2, <5>3, <2>1
      <4>3. QED
        BY <4>1, <4>2
    <3>4. QED
      BY <3>1, <3>2, <3>3, <1>1, <1>11 DEF Fewer
  <2>6. Holders'
    BY <2>5, <1>7, FewerHolders
  <2>7. Flight'
    <3>1. \A i, x : FrameOwns(i, x)' <=> FrameOwns(i, x) /\ x # k
      BY <2>3, <1>9
    <3>2. \A l, x : JobOwns(l, x)' <=> JobOwns(l, x) /\ x # k
      BY <2>2, <2>3, <1>10
    <3>3. QED
      BY <3>1, <3>2, <2>1, <1>1, LandedFlight
  <2>8. Shapes'
    <3>1. waiters' \in [Keys -> SUBSET (1..Len(promises'))]
      BY <2>1, <1>2, <1>7 DEF Settled
    <3>2. QED
      BY <3>1, <2>1, <1>1, <1>2, <1>7 DEF Shapes, Settled
  <2>9. Evaluations'
    BY <1>1, <1>2 DEF Evaluations, Pile, EnteredOnce, EnteredInOrder, Within, IsImport,
                      UnderEvaluation
  <2>10. IInv'
    BY <2>6, <2>7, <2>8, <2>9, <1>1, <1>2 DEF IInv
  <2>11. QED
    BY <2>10, <1>1, <1>6, <1>7, <1>8
<1>15. QED
  BY <1>13, <1>14

-----------------------------------------------------------------------------
(* The invariant. *)

(* It holds before the first import(). *)
LEMMA InitInvariant == Init => IInv
<1> SUFFICES ASSUME Init PROVE IInv
  OBVIOUS
<1>1. /\ registry = [k \in Keys |-> None] /\ inFlight = {} /\ waiters = [k \in Keys |-> {}]
      /\ mods = <<>> /\ promises = <<>> /\ stack = <<>> /\ jobs = {} /\ aborted = FALSE
  BY DEF Init
<1>2. /\ Len(mods) = 0 /\ 1..Len(mods) = {} /\ 1..Len(stack) = {} /\ 1..Len(promises) = {}
      /\ DOMAIN promises = {}
  BY <1>1
<1>3. Paired(registry, mods)
  <2>1. \A S : <<>> \in Seq(S)
    OBVIOUS
  <2>2. mods \in Seq(ModuleOf(Len(mods)))
    BY <2>1, <1>1
  <2>3. registry \in [Keys -> 0..Len(mods)] /\ \A k \in Keys : registry[k] = None
    BY <1>1, <1>2 DEF None
  <2>4. QED
    BY <2>2, <2>3, <1>2 DEF Paired
<1>4. Shapes
  <2>1. \A S : <<>> \in Seq(S)
    OBVIOUS
  <2>2. promises \in Seq(PromiseRecord) /\ stack \in Seq(Frame)
    BY <2>1, <1>1
  <2>3. waiters \in [Keys -> SUBSET (1..Len(promises))]
    BY <1>1
  <2>4. aborted \in BOOLEAN
    BY <1>1
  <2>5. QED
    BY <2>2, <2>3, <2>4, <1>1, <1>2 DEF Shapes
<1>5. Evaluations
  BY <1>2 DEF Evaluations, Pile, EnteredOnce, EnteredInOrder
<1>6. Flight
  <2>1. \A k \in Keys : waiters[k] = {}
    BY <1>1
  <2>2. QED
    BY <2>1, <1>1, <1>2 DEF Flight
<1>7. Holders
  <2>1. \A k \in Keys : waiters[k] = {}
    BY <1>1
  <2>2. QED
    BY <2>1, <1>1, <1>2 DEF Holders
<1>8. QED
  BY <1>3, <1>4, <1>5, <1>6, <1>7 DEF IInv

(* Every step keeps it. *)
LEMMA NextInvariant == IInv /\ [Next]_vars => IInv'
<1> SUFFICES ASSUME IInv, [Next]_vars PROVE IInv'
  OBVIOUS
<1>1. ASSUME NEW k \in Keys, Import(k) PROVE IInv'
  BY <1>1, ImportKeeps
<1>2. CASE EvaluateDependency
  BY <1>2, DependencyStep, EvaluationStepKeeps DEF EvaluateDependency
<1>3. CASE RunBody
  BY <1>3, RunBodyStep, EvaluationStepKeeps DEF RunBody
<1>4. CASE BodyReturns
  <2>1. Evaluating /\ ModuleDone(FALSE) /\ FALSE \in BOOLEAN
    BY <1>4 DEF BodyReturns
  <2>2. UnchangedLoader
    BY <2>1, Zenon DEF ModuleDone
  <2>3. QED
    BY <2>1, <2>2, DoneStep, EvaluationStepKeeps
<1>5. CASE BodyAwaits
  <2>1. Evaluating /\ ModuleDone(TRUE) /\ TRUE \in BOOLEAN
    BY <1>5 DEF BodyAwaits
  <2>2. UnchangedLoader
    BY <2>1, Zenon DEF ModuleDone
  <2>3. QED
    BY <2>1, <2>2, DoneStep, EvaluationStepKeeps
<1>6. CASE BodyThrows
  BY <1>6, ThrowsStep, EvaluationStepKeeps DEF BodyThrows
<1>7. CASE ResolveNow
  BY <1>7, ResolveNowKeeps
<1>8. CASE AttachReactions
  BY <1>8, AttachKeeps
<1>9. ASSUME NEW m \in DOMAIN mods, AwaitSettles(m) PROVE IInv'
  BY <1>9, AwaitStep, EvaluationStepKeeps DEF AwaitSettles
<1>10. ASSUME NEW j \in jobs, Reaction(j) PROVE IInv'
  BY <1>10, ReactionKeeps
<1>11. CASE UNCHANGED vars
  <2>1. /\ registry' = registry /\ inFlight' = inFlight /\ waiters' = waiters /\ mods' = mods
        /\ promises' = promises /\ stack' = stack /\ jobs' = jobs /\ aborted' = aborted
    BY <1>11 DEF vars
  <2>2. /\ Paired(registry, mods) /\ Shapes /\ Evaluations
    BY DEF IInv
  <2>5. Evaluations'
    <3>1. Pile'
      BY <2>1, <2>2 DEF Evaluations, Pile, Within, IsImport
    <3>2. EnteredOnce'
      BY <2>1, <2>2 DEF Evaluations, EnteredOnce, UnderEvaluation, IsImport
    <3>3. EnteredInOrder'
      <4>1. \A c, i : Within(c, i)' <=> Within(c, i)
        BY <2>1 DEF Within, IsImport
      <4>2. QED
        BY <2>1, <2>2, <4>1 DEF Evaluations, EnteredInOrder
    <3>4. QED
      BY <3>1, <3>2, <3>3 DEF Evaluations
  <2>6. EvaluationStep
    <3>1. CallsKept
      BY <2>1 DEF CallsKept, IsImport
    <3>2. QED
      BY <3>1, <2>1, <2>2, <2>5 DEF EvaluationStep, Shapes
  <2>7. QED
    BY <2>1, <2>6, EvaluationStepKeeps DEF UnchangedLoader
<1>12. QED
  BY <1>1, <1>2, <1>3, <1>4, <1>5, <1>6, <1>7, <1>8, <1>9, <1>10, <1>11 DEF Next, Evaluation

(* The registry and the modules belong together, the evaluations are properly *)
(* nested, a URL in flight has one owner and a promise one settler.           *)
THEOREM Invariant == Spec => []IInv
  BY InitInvariant, NextInvariant, PTL DEF Spec

-----------------------------------------------------------------------------
(* What follows from it. *)

(* The registry names modules of its own URLs, and every frame, reaction and *)
(* waiter names a module and a promise that exist.                           *)
THEOREM Typing == Spec => []TypeOK
<1>1. ASSUME IInv PROVE TypeOK
  <2>1. Paired(registry, mods) /\ Shapes /\ Holders
    BY <1>1 DEF IInv
  <2>2. /\ Len(mods) \in Nat /\ DOMAIN mods = 1..Len(mods)
        /\ \A k \in Keys : registry[k] # None => mods[registry[k]].key = k
    BY <2>1, PairedFacts
  <2>3. registry \in [Keys -> {None} \cup DOMAIN mods]
    <3>1. registry \in [Keys -> 0..Len(mods)]
      BY <2>1 DEF Paired
    <3>2. 0..Len(mods) = {None} \cup DOMAIN mods
      BY <2>2 DEF None
    <3>3. QED
      BY <3>1, <3>2
  <2>4. mods \in Seq([key : Keys, status : Status, deps : SUBSET DOMAIN mods,
                      waits : BOOLEAN])
    <3>1. mods \in Seq(ModuleOf(Len(mods)))
      BY <2>1 DEF Paired
    <3>2. ModuleOf(Len(mods)) = [key : Keys, status : Status, deps : SUBSET DOMAIN mods,
                                 waits : BOOLEAN]
      BY <2>2, Zenon DEF ModuleOf
    <3>3. QED
      BY <3>1, <3>2
  <2>5. /\ promises \in Seq(PromiseRecord) /\ stack \in Seq(Frame)
        /\ DOMAIN promises = 1..Len(promises) /\ DOMAIN stack = 1..Len(stack)
    BY <2>1 DEF Shapes
  <2>6. \A p \in DOMAIN promises : promises[p].state \in {"pending", "resolved", "rejected"}
    <3>1. \A p \in DOMAIN promises : promises[p] \in PromiseRecord
      BY <2>5, ElementOfSeq
    <3>2. QED
      BY <3>1 DEF PromiseRecord
  <2>7. \A i \in DOMAIN stack : stack[i].module \in DOMAIN mods
    BY <2>1, <2>2, <2>5 DEF Shapes
  <2>8. \A j \in jobs : j.module \in DOMAIN mods /\ j.promise \in DOMAIN promises
    <3>1. \A j \in jobs : Pending(j.promise)
      BY <2>1 DEF Holders
    <3>2. QED
      BY <3>1, <2>1, <2>2 DEF Shapes, Pending
  <2>9. /\ inFlight \subseteq Keys /\ aborted \in BOOLEAN
        /\ waiters \in [Keys -> SUBSET DOMAIN promises]
    BY <2>1, <2>5 DEF Shapes
  <2>10. QED
    BY <2>2, <2>3, <2>4, <2>6, <2>7, <2>8, <2>9 DEF TypeOK
<1>2. QED
  BY <1>1, Invariant, PTL

(* A URL is in flight exactly while one import() call or one reaction is going to *)
(* answer its waiters: g_modulesInFlight is never left behind, and no URL has two *)
(* loads that would both answer.                                                  *)
THEOREM FlightIsOwned == Spec => []InFlightIsOwned
<1>1. ASSUME IInv PROVE InFlightIsOwned
  <2> SUFFICES ASSUME ~aborted, NEW k \in Keys
               PROVE  /\ k \in inFlight <=> Owners(k) # {}
                      /\ Cardinality(Owners(k)) <= 1
                      /\ waiters[k] # {} => k \in inFlight
    BY DEF InFlightIsOwned
  <2>1. Flight /\ stack \in Seq(Frame) /\ DOMAIN stack = 1..Len(stack)
    BY <1>1 DEF IInv, Shapes
  <2>2. /\ k \in inFlight <=> (\E i : FrameOwns(i, k)) \/ (\E j : JobOwns(j, k))
        /\ waiters[k] # {} => k \in inFlight
        /\ \A i, l : FrameOwns(i, k) /\ FrameOwns(l, k) => i = l
        /\ \A j, l : JobOwns(j, k) /\ JobOwns(l, k) => j = l
        /\ \A i, j : ~(FrameOwns(i, k) /\ JobOwns(j, k))
    BY <2>1, FlightOf
  <2>3. \A x : x \in Owners(k) <=> FrameOwns(x, k) \/ JobOwns(x, k)
    BY <2>1, Zenon DEF Owners, FrameOwns, IsImport, JobOwns
  <2>4. k \in inFlight <=> Owners(k) # {}
    BY <2>2, <2>3
  <2>5. Cardinality(Owners(k)) <= 1
    <3>1. CASE Owners(k) = {}
      <4>1. Cardinality(Owners(k)) = 0
        BY <3>1, FS_EmptySet
      <4>2. QED
        BY <4>1
    <3>2. CASE Owners(k) # {}
      <4>1. PICK x : x \in Owners(k)
        BY <3>2
      <4>2. \A y \in Owners(k) : y = x
        BY <4>1, <2>2, <2>3
      <4>3. Owners(k) = {x}
        BY <4>1, <4>2
      <4>4. Cardinality(Owners(k)) = 1
        BY <4>3, FS_Singleton
      <4>5. QED
        BY <4>4
    <3>3. QED
      BY <3>1, <3>2
  <2>6. QED
    BY <2>2, <2>4, <2>5
<1>2. QED
  BY <1>1, Invariant, PTL

(* Whatever failed and was fetched again, at most one module of a URL runs. *)
THEOREM OneInstanceOfAUrl == Spec => []OneInstance
<1>1. ASSUME IInv PROVE OneInstance
  <2> SUFFICES ASSUME NEW m \in DOMAIN mods, NEW n \in DOMAIN mods,
                      mods[m].key = mods[n].key, mods[m].key \notin SfcBase,
                      {mods[m].status, mods[n].status}
                        \subseteq {"evaluating", "async", "evaluated"}
               PROVE  m = n
    BY DEF OneInstance
  <2>1. mods[m].status \in Active /\ mods[n].status \in Active
    BY DEF Active
  <2>2. /\ m \in 1..Len(mods) /\ n \in 1..Len(mods)
        /\ registry[mods[m].key] = m /\ registry[mods[n].key] = n
    BY <1>1, <2>1, PairedFacts DEF IInv
  <2>3. QED
    BY <2>2
<1>2. QED
  BY <1>1, Invariant, PTL

(* What AnsweredOnce says of a step. *)
Honest ==
  \A p \in DOMAIN promises' :
    IF p \in DOMAIN promises /\ promises[p].state # "pending"
    THEN promises'[p] = promises[p]
    ELSE promises'[p].state = "resolved"
           => mods'[promises'[p].module].status \in {"async", "evaluated"}

(* A step that settles nothing. *)
LEMMA HonestSilence ==
  ASSUME IInv, promises' = promises
  PROVE  Honest
<1>1. \A p \in DOMAIN promises : promises[p].state = "pending" => promises[p].state # "resolved"
  OBVIOUS
<1>2. QED
  BY <1>1 DEF Honest

(* A step that settles promises that are pending, the resolved ones with a module *)
(* that has run.                                                                  *)
LEMMA HonestSettling ==
  ASSUME IInv, NEW ps, NEW state, NEW m, Settled(ps, state, m), \A p \in ps : Pending(p),
         state = "resolved" => mods'[m].status \in {"async", "evaluated"}
  PROVE  Honest
<1>1. promises \in Seq(PromiseRecord)
  BY DEF IInv, Shapes
<1>2. /\ promises' \in Seq(PromiseRecord) /\ Len(promises') = Len(promises)
      /\ \A p \in 1..Len(promises) : IF p \in ps
           THEN promises'[p].state = state /\ promises'[p].module = m
           ELSE promises'[p] = promises[p]
  BY DEF Settled
<1>3. DOMAIN promises = 1..Len(promises) /\ DOMAIN promises' = 1..Len(promises)
  BY <1>1, <1>2
<1>4. \A p \in ps : promises[p].state = "pending"
  BY DEF Pending
<1>5. QED
  BY <1>2, <1>3, <1>4 DEF Honest

(* A step that adds a promise, which is resolved only with a module that has run. *)
LEMMA HonestImport ==
  ASSUME IInv, NEW k \in Keys, NEW state \in {"pending", "resolved", "rejected"}, NEW m \in Nat,
         promises' = NewPromise(k, state, m),
         state = "resolved" => mods'[m].status \in {"async", "evaluated"}
  PROVE  Honest
<1>1. promises \in Seq(PromiseRecord)
  BY DEF IInv, Shapes
<1>2. /\ promises' \in Seq(PromiseRecord) /\ Len(promises') = Len(promises) + 1
      /\ Len(promises') \in Nat /\ Len(promises) \in Nat
      /\ \A p \in 1..Len(promises) : promises'[p] = promises[p]
      /\ promises'[Len(promises')].state = state
      /\ promises'[Len(promises')].module = m
  BY <1>1, PromiseAppended
<1>3. DOMAIN promises = 1..Len(promises) /\ DOMAIN promises' = 1..Len(promises')
  BY <1>1, <1>2
<1>4. \A p \in DOMAIN promises' : p \in DOMAIN promises \/ p = Len(promises')
  BY <1>2, <1>3
<1>5. Len(promises') \notin DOMAIN promises
  BY <1>2, <1>3
<1>6. QED
  BY <1>2, <1>3, <1>4, <1>5 DEF Honest

(* Every kind of import() does the one or the other. *)
LEMMA ImportIsHonest ==
  ASSUME IInv, NEW k \in Keys, Import(k)
  PROVE  Honest
<1>1. None \in Nat
  BY DEF None
<1>2. CASE ImportEvaluated(k)
  <2>1. /\ promises' = NewPromise(k, "resolved", registry[k]) /\ mods' = mods
        /\ ReportedEvaluated(registry[k])
    BY <1>2 DEF ImportEvaluated
  <2>2. registry[k] \in Nat
    BY PairedFacts DEF IInv
  <2>3. mods'[registry[k]].status \in {"async", "evaluated"}
    BY <2>1 DEF ReportedEvaluated
  <2>4. QED
    BY <2>1, <2>2, <2>3, HonestImport
<1>3. CASE promises' = NewPromise(k, "pending", None)
  BY <1>1, <1>3, HonestImport
<1>4. CASE promises' = NewPromise(k, "rejected", None)
  BY <1>1, <1>4, HonestImport
<1>5. ImportCoalesced(k) => promises' = NewPromise(k, "pending", None)
  BY DEF ImportCoalesced
<1>6. ImportCached(k) => promises' = NewPromise(k, "pending", None)
  BY DEF ImportCached
<1>7. ImportFetched(k) => promises' = NewPromise(k, "pending", None)
  BY Zenon DEF ImportFetched
<1>8. ImportRetried(k) => promises' = NewPromise(k, "pending", None)
  BY Zenon DEF ImportRetried
<1>9. ImportFails(k) => promises' = NewPromise(k, "rejected", None)
  BY Zenon DEF ImportFails
<1>10. QED
  BY <1>2, <1>3, <1>4, <1>5, <1>6, <1>7, <1>8, <1>9 DEF Import

(* So does every step. *)
LEMMA NextIsHonest == IInv /\ [Next]_vars => Honest
<1> SUFFICES ASSUME IInv, [Next]_vars PROVE Honest
  OBVIOUS
<1>1. ASSUME NEW k \in Keys, Import(k) PROVE Honest
  BY <1>1, ImportIsHonest
<1>2. CASE EvaluateDependency \/ RunBody \/ BodyThrows
  BY <1>2, HonestSilence DEF EvaluateDependency, RunBody, BodyThrows, UnchangedLoader
<1>3. CASE BodyReturns \/ BodyAwaits
  <2>1. UnchangedLoader
    BY <1>3, Zenon DEF BodyReturns, BodyAwaits, ModuleDone
  <2>2. QED
    BY <2>1, HonestSilence DEF UnchangedLoader
<1>4. CASE ResolveNow
  <2>1. /\ Settled({Top.promise} \cup waiters[Top.key], "resolved", Top.module)
        /\ mods' = mods /\ ReportedEvaluated(Top.module)
    BY <1>4, ResolveNowKeeps
  <2>2. Returning /\ stack' = Front(stack)
    BY <1>4 DEF ResolveNow
  <2>3. /\ IsImport(Len(stack)) /\ Top = stack[Len(stack)] /\ Top \in Frame
        /\ Len(stack) \in 1..Len(stack)
    BY <2>1, <2>2, PopKeeps
  <2>4. Top.key \in Keys
    BY <2>3, FrameFields
  <2>5. Pending(Top.promise) /\ \A p \in waiters[Top.key] : Pending(p)
    BY <2>3, <2>4 DEF IInv, Holders
  <2>6. \A p \in {Top.promise} \cup waiters[Top.key] : Pending(p)
    BY <2>5
  <2>7. mods'[Top.module].status \in {"async", "evaluated"}
    BY <2>1 DEF ReportedEvaluated
  <2>8. QED
    BY <2>1, <2>6, <2>7, HonestSettling
<1>5. CASE AttachReactions
  BY <1>5, HonestSilence DEF AttachReactions
<1>6. ASSUME NEW m \in DOMAIN mods, AwaitSettles(m) PROVE Honest
  BY <1>6, HonestSilence DEF AwaitSettles, UnchangedLoader
<1>7. ASSUME NEW j \in jobs, Reaction(j) PROVE Honest
  <2>1. PICK ps, state :
          /\ Settled(ps, state, j.module) /\ \A p \in ps : Pending(p)
          /\ state = "resolved" => mods[j.module].status = "evaluated"
    BY <1>7, ReactionKeeps
  <2>2. mods' = mods
    BY <1>7 DEF Reaction
  <2>3. QED
    BY <2>1, <2>2, HonestSettling
<1>8. CASE UNCHANGED vars
  BY <1>8, HonestSilence DEF vars
<1>9. QED
  BY <1>1, <1>2, <1>3, <1>4, <1>5, <1>6, <1>7, <1>8 DEF Next, Evaluation

(* A promise is resolved only with a module that V8 reports as evaluated, and once *)
(* settled it is never settled again, by a reaction, a call or a list of waiters.  *)
THEOREM ImportsAnsweredOnce == Spec => AnsweredOnce
<1>1. IInv /\ [Next]_vars => [Honest]_vars
  BY NextIsHonest
<1>2. Spec => [][Honest]_vars
  BY <1>1, Invariant, PTL DEF Spec
<1>3. QED
  BY <1>2 DEF AnsweredOnce, Honest

-----------------------------------------------------------------------------
(* No promise is forgotten. *)

(* A call, a reaction or a list of waiters has the promise. *)
CallHas(i, p) == IsImport(i) /\ stack[i].promise = p
JobHas(j, p) == j \in jobs /\ j.promise = p
ListHas(k, p) == k \in Keys /\ p \in waiters[k]

(* Every pending promise is had by somebody: the converse of Holders. *)
Remembered ==
  \A p : Pending(p) => (\E i : CallHas(i, p)) \/ (\E j : JobHas(j, p)) \/ (\E k : ListHas(k, p))

(* import() makes a promise that is settled already, or remembers it. *)
LEMMA ImportRemembers ==
  ASSUME IInv, Remembered, NEW k \in Keys, NEW state \in {"pending", "resolved", "rejected"},
         NEW m \in Nat, promises' = NewPromise(k, state, m), jobs' = jobs,
         \/ waiters' = waiters
         \/ waiters' = [waiters EXCEPT ![k] = @ \cup {Len(promises')}],
         \A i : IsImport(i) => IsImport(i)' /\ stack'[i] = stack[i],
         \/ state # "pending"
         \/ waiters' = [waiters EXCEPT ![k] = @ \cup {Len(promises')}]
         \/ \E i : IsImport(i)' /\ stack'[i].promise = Len(promises')
  PROVE  Remembered'
<1>1. promises \in Seq(PromiseRecord) /\ waiters \in [Keys -> SUBSET (1..Len(promises))]
  BY DEF IInv, Shapes
<1>2. /\ Len(promises') = Len(promises) + 1 /\ Len(promises) \in Nat
      /\ promises' \in Seq(PromiseRecord)
      /\ \A p \in 1..Len(promises) : promises'[p] = promises[p]
      /\ promises'[Len(promises')].state = state
  BY <1>1, PromiseAppended
<1>3. \A p : Pending(p)' => Pending(p) \/ (p = Len(promises') /\ state = "pending")
  BY <1>1, <1>2 DEF Pending
<1>4. /\ \A i, p : CallHas(i, p) => CallHas(i, p)'
      /\ \A j, p : JobHas(j, p) => JobHas(j, p)'
  BY DEF CallHas, JobHas
<1>5. \A x, p : ListHas(x, p) => ListHas(x, p)'
  BY <1>1 DEF ListHas
<1>6. \A p : p = Len(promises') /\ state = "pending"
               => (\E i : CallHas(i, p)') \/ (\E x : ListHas(x, p)')
  <2>1. CASE waiters' = [waiters EXCEPT ![k] = @ \cup {Len(promises')}]
    BY <2>1, <1>1 DEF ListHas
  <2>2. CASE \E i : IsImport(i)' /\ stack'[i].promise = Len(promises')
    BY <2>2 DEF CallHas
  <2>3. QED
    BY <2>1, <2>2
<1>7. QED
  BY <1>3, <1>4, <1>5, <1>6 DEF Remembered

(* The stack of a call that starts an evaluation. *)
LEMMA StartedCalls ==
  ASSUME stack \in Seq(Frame), NEW ms, NEW k, NEW m, NEW how, Evaluate(ms, k, m, how)
  PROVE  /\ \A i : IsImport(i) => IsImport(i)' /\ stack'[i] = stack[i]
         /\ \E i : IsImport(i)' /\ stack'[i].promise = Len(promises')
<1> DEFINE F == [kind |-> "import", module |-> m, phase |-> how,
                 key |-> k, promise |-> Len(promises'), entered |-> <<m>>]
           G == [kind |-> "module", module |-> m, phase |-> "deps",
                 key |-> k, promise |-> None, entered |-> <<>>]
<1>1. stack' = stack \o <<F, G>>
  BY DEF Evaluate
<1>2. F.kind = "import" /\ F.promise = Len(promises')
  OBVIOUS
<1> HIDE DEF F, G
<1> DEFINE S == Frame \cup {F, G}
<1>3. stack \in Seq(S) /\ <<F, G>> \in Seq(S) /\ Len(<<F, G>>) = 2 /\ <<F, G>>[1] = F
  OBVIOUS
<1> HIDE DEF S
<1>4. /\ Len(stack') = Len(stack) + 2 /\ Len(stack) \in Nat
      /\ \A i \in 1..Len(stack) + 2 :
           stack'[i] = IF i <= Len(stack) THEN stack[i] ELSE <<F, G>>[i - Len(stack)]
  BY <1>1, <1>3, ConcatProperties
<1>5. \A i \in 1..Len(stack) : i \in 1..Len(stack') /\ stack'[i] = stack[i]
  BY <1>4
<1>6. Len(stack) + 1 \in 1..Len(stack') /\ stack'[Len(stack) + 1] = F
  <2>1. stack'[Len(stack) + 1] = <<F, G>>[1]
    BY <1>4
  <2>2. QED
    BY <2>1, <1>3, <1>4
<1>7. QED
  BY <1>2, <1>5, <1>6 DEF IsImport

(* Every kind of import() does so. *)
LEMMA ImportKeepsRemembered ==
  ASSUME IInv, Remembered, NEW k \in Keys, Import(k)
  PROVE  Remembered'
<1>1. /\ None \in Nat /\ registry[k] \in Nat /\ stack \in Seq(Frame)
      /\ "pending" \in {"pending", "resolved", "rejected"}
      /\ "resolved" \in {"pending", "resolved", "rejected"}
      /\ "rejected" \in {"pending", "resolved", "rejected"}
  BY PairedFacts DEF IInv, Shapes, None
<1>2. stack' = stack => \A i : IsImport(i) => IsImport(i)' /\ stack'[i] = stack[i]
  BY DEF IsImport
<1>3. CASE ImportCoalesced(k)
  <2>1. /\ promises' = NewPromise(k, "pending", None) /\ stack' = stack /\ jobs' = jobs
        /\ waiters' = [waiters EXCEPT ![k] = @ \cup {Len(promises')}]
    BY <1>3 DEF ImportCoalesced
  <2>2. QED
    BY <2>1, <1>1, <1>2, ImportRemembers
<1>4. CASE ImportEvaluated(k)
  <2>1. /\ promises' = NewPromise(k, "resolved", registry[k]) /\ stack' = stack
        /\ jobs' = jobs /\ waiters' = waiters
    BY <1>4 DEF ImportEvaluated
  <2>2. QED
    BY <2>1, <1>1, <1>2, ImportRemembers
<1>5. CASE ImportCached(k)
  <2>1. /\ promises' = NewPromise(k, "pending", None) /\ jobs' = jobs
        /\ waiters' = [waiters EXCEPT ![k] = @ \cup {Len(promises')}]
        /\ stack' = stack \/ Evaluate(mods, k, registry[k], "cached")
    BY <1>5 DEF ImportCached
  <2>2. \A i : IsImport(i) => IsImport(i)' /\ stack'[i] = stack[i]
    BY <2>1, <1>1, <1>2, StartedCalls
  <2>3. QED
    BY <2>1, <2>2, <1>1, ImportRemembers
<1>6. CASE ImportFetched(k) \/ ImportRetried(k)
  <2>1. /\ promises' = NewPromise(k, "pending", None) /\ jobs' = jobs /\ waiters' = waiters
        /\ \E ms, m, how : Evaluate(ms, k, m, how)
    BY <1>6, Zenon DEF ImportFetched, ImportRetried
  <2>2. /\ \A i : IsImport(i) => IsImport(i)' /\ stack'[i] = stack[i]
        /\ \E i : IsImport(i)' /\ stack'[i].promise = Len(promises')
    BY <2>1, <1>1, StartedCalls
  <2>3. QED
    BY <2>1, <2>2, <1>1, ImportRemembers
<1>7. CASE ImportFails(k)
  <2>1. /\ promises' = NewPromise(k, "rejected", None) /\ stack' = stack
        /\ jobs' = jobs /\ waiters' = waiters
    BY <1>7 DEF ImportFails
  <2>2. QED
    BY <2>1, <1>1, <1>2, ImportRemembers
<1>8. QED
  BY <1>3, <1>4, <1>5, <1>6, <1>7 DEF Import

(* A step that leaves promises, reactions and waiters alone and keeps the calls. *)
LEMMA CallsRemember ==
  ASSUME Remembered, promises' = promises, jobs' = jobs, waiters' = waiters, CallsKept
  PROVE  Remembered'
<1>1. \A p : Pending(p)' <=> Pending(p)
  BY DEF Pending
<1>2. /\ \A i, p : CallHas(i, p) => CallHas(i, p)'
      /\ \A j, p : JobHas(j, p) => JobHas(j, p)'
      /\ \A k, p : ListHas(k, p) => ListHas(k, p)'
  BY DEF CallHas, JobHas, ListHas, CallsKept
<1>3. QED
  BY <1>1, <1>2 DEF Remembered

(* The promises that a step settles are those that its call, its reaction or its *)
(* list of waiters had; whoever has another promise keeps it.                     *)
LEMMA SettlingRemembers ==
  ASSUME IInv, Remembered, NEW ps, NEW state, NEW m, Settled(ps, state, m),
         state # "pending",
         \A i, p : CallHas(i, p) /\ p \notin ps => CallHas(i, p)',
         \A j, p : JobHas(j, p) /\ p \notin ps => JobHas(j, p)',
         \A k, p : ListHas(k, p) /\ p \notin ps => ListHas(k, p)'
  PROVE  Remembered'
<1>1. promises \in Seq(PromiseRecord)
  BY DEF IInv, Shapes
<1>2. \A p : Pending(p)' => Pending(p) /\ p \notin ps
  BY <1>1 DEF Settled, Pending
<1>3. QED
  BY <1>2 DEF Remembered

(* The call that answers everybody settles what it takes away. *)
LEMMA ResolveNowRemembers ==
  ASSUME IInv, Remembered, ResolveNow
  PROVE  Remembered'
<1>1. /\ Returning /\ stack' = Front(stack) /\ mods' = mods /\ jobs' = jobs
      /\ waiters' = [waiters EXCEPT ![Top.key] = {}]
  BY DEF ResolveNow
<1>2. Settled({Top.promise} \cup waiters[Top.key], "resolved", Top.module)
  BY ResolveNowKeeps
<1>3. PICK n : n = Len(stack)
  OBVIOUS
<1>4. Popped /\ Top = stack[n] /\ Top \in Frame
  BY <1>1, <1>3, PopKeeps
<1>5. PICK k \in Keys : k = Top.key
  BY <1>4, FrameFields
<1>6. PICK ps : ps = {stack[n].promise} \cup waiters[k]
  OBVIOUS
<1>7. Settled(ps, "resolved", Top.module)
  BY <1>2, <1>4, <1>5, <1>6
<1>8. waiters \in [Keys -> SUBSET (1..Len(promises))]
  BY DEF IInv, Shapes
<1>9. \A i, p : CallHas(i, p) /\ p \notin ps => CallHas(i, p)'
  <2>1. /\ \A i : IsImport(i)' <=> IsImport(i) /\ i # n
        /\ \A i : IsImport(i)' => stack'[i] = stack[i]
    BY <1>3, <1>4 DEF Popped
  <2>2. QED
    BY <2>1, <1>6 DEF CallHas
<1>10. \A j, p : JobHas(j, p) /\ p \notin ps => JobHas(j, p)'
  BY <1>1 DEF JobHas
<1>11. \A x, p : ListHas(x, p) /\ p \notin ps => ListHas(x, p)'
  BY <1>1, <1>5, <1>6, <1>8 DEF ListHas
<1>12. QED
  BY <1>7, <1>9, <1>10, <1>11, SettlingRemembers

(* A call hands its promise to a reaction. *)
LEMMA AttachRemembers ==
  ASSUME IInv, Remembered, AttachReactions
  PROVE  Remembered'
<1>1. /\ Returning /\ stack' = Front(stack) /\ mods' = mods
      /\ waiters' = waiters /\ promises' = promises
  BY DEF AttachReactions
<1>2. PICK n : n = Len(stack)
  OBVIOUS
<1>3. Popped /\ Top = stack[n]
  BY <1>1, <1>2, PopKeeps
<1>4. PICK new : new = [how |-> Top.phase, key |-> Top.key,
                        module |-> Top.module, promise |-> Top.promise]
  OBVIOUS
<1>5. jobs' = jobs \cup {new} /\ new.promise = stack[n].promise
  BY <1>3, <1>4 DEF AttachReactions
<1>6. \A p : Pending(p)' <=> Pending(p)
  BY <1>1 DEF Pending
<1>7. \A i, p : CallHas(i, p) => CallHas(i, p)' \/ JobHas(new, p)'
  <2>1. /\ \A i : IsImport(i)' <=> IsImport(i) /\ i # n
        /\ \A i : IsImport(i)' => stack'[i] = stack[i]
    BY <1>2, <1>3 DEF Popped
  <2>2. QED
    BY <2>1, <1>5 DEF CallHas, JobHas
<1>8. /\ \A j, p : JobHas(j, p) => JobHas(j, p)'
      /\ \A k, p : ListHas(k, p) => ListHas(k, p)'
  BY <1>1, <1>5 DEF JobHas, ListHas
<1>9. QED
  BY <1>6, <1>7, <1>8 DEF Remembered

(* A reaction settles its own promise, and the list it empties. *)
LEMMA ReactionRemembers ==
  ASSUME IInv, Remembered, NEW j \in jobs, Reaction(j)
  PROVE  Remembered'
<1>1. stack' = stack /\ jobs' = jobs \ {j}
  BY DEF Reaction
<1>2. /\ promises \in Seq(PromiseRecord) /\ waiters \in [Keys -> SUBSET (1..Len(promises))]
      /\ j \in Job
  BY DEF IInv, Shapes
<1>3. PICK k \in Keys : k = j.key
  BY <1>2 DEF Job
<1>4. PICK ps : ps = {j.promise} \cup (IF j.how = "file" THEN {} ELSE waiters[k])
  OBVIOUS
<1>5. PICK state \in {"resolved", "rejected"} :
        state = IF mods[j.module].status = "evaluated" THEN "resolved" ELSE "rejected"
  OBVIOUS
<1>6. Settled(ps, state, j.module)
  <2>1. Settle(ps, state, j.module)
    BY <1>3, <1>4, <1>5 DEF Reaction
  <2>2. j.module \in Nat
    BY <1>2 DEF Job
  <2>3. QED
    BY <2>1, <2>2, <1>2, <1>5, SettleResult
<1>7. \A i, p : CallHas(i, p) => CallHas(i, p)'
  BY <1>1 DEF CallHas, IsImport
<1>8. \A l, p : JobHas(l, p) /\ p \notin ps => JobHas(l, p)'
  BY <1>1, <1>4 DEF JobHas
<1>9. \A x, p : ListHas(x, p) /\ p \notin ps => ListHas(x, p)'
  <2>1. CASE j.how = "file"
    <3>1. waiters' = waiters
      BY <2>1 DEF Reaction
    <3>2. QED
      BY <3>1 DEF ListHas
  <2>2. CASE j.how # "file"
    <3>1. waiters' = [waiters EXCEPT ![k] = {}] /\ ps = {j.promise} \cup waiters[k]
      BY <2>2, <1>3, <1>4 DEF Reaction
    <3>2. QED
      BY <3>1, <1>2 DEF ListHas
  <2>3. QED
    BY <2>1, <2>2
<1>10. QED
  BY <1>5, <1>6, <1>7, <1>8, <1>9, SettlingRemembers

(* So does every step. *)
LEMMA NextRemembers == IInv /\ Remembered /\ [Next]_vars => Remembered'
<1> SUFFICES ASSUME IInv, Remembered, [Next]_vars PROVE Remembered'
  OBVIOUS
<1>0. EvaluationStep /\ UnchangedLoader => Remembered'
  BY CallsRemember DEF EvaluationStep, UnchangedLoader
<1>1. ASSUME NEW k \in Keys, Import(k) PROVE Remembered'
  BY <1>1, ImportKeepsRemembered
<1>2. CASE EvaluateDependency
  BY <1>0, <1>2, DependencyStep DEF EvaluateDependency
<1>3. CASE RunBody
  BY <1>0, <1>3, RunBodyStep DEF RunBody
<1>4. CASE BodyReturns
  <2>1. Evaluating /\ ModuleDone(FALSE) /\ FALSE \in BOOLEAN
    BY <1>4 DEF BodyReturns
  <2>2. UnchangedLoader
    BY <2>1, Zenon DEF ModuleDone
  <2>3. QED
    BY <2>1, <2>2, <1>0, DoneStep
<1>5. CASE BodyAwaits
  <2>1. Evaluating /\ ModuleDone(TRUE) /\ TRUE \in BOOLEAN
    BY <1>5 DEF BodyAwaits
  <2>2. UnchangedLoader
    BY <2>1, Zenon DEF ModuleDone
  <2>3. QED
    BY <2>1, <2>2, <1>0, DoneStep
<1>6. CASE BodyThrows
  BY <1>0, <1>6, ThrowsStep DEF BodyThrows
<1>7. CASE ResolveNow
  BY <1>7, ResolveNowRemembers
<1>8. CASE AttachReactions
  BY <1>8, AttachRemembers
<1>9. ASSUME NEW m \in DOMAIN mods, AwaitSettles(m) PROVE Remembered'
  BY <1>0, <1>9, AwaitStep DEF AwaitSettles
<1>10. ASSUME NEW j \in jobs, Reaction(j) PROVE Remembered'
  BY <1>10, ReactionRemembers
<1>11. CASE UNCHANGED vars
  <2>1. CallsKept
    BY <1>11 DEF vars, CallsKept, IsImport
  <2>2. QED
    BY <2>1, <1>11, CallsRemember DEF vars
<1>12. QED
  BY <1>1, <1>2, <1>3, <1>4, <1>5, <1>6, <1>7, <1>8, <1>9, <1>10, <1>11 DEF Next, Evaluation

(* A call or a reaction is going to settle p: it has p itself, or p waits for *)
(* the URL it loads.                                                          *)
Answered(p) ==
  \/ \E i \in 1..Len(stack) :
       /\ stack[i].kind = "import"
       /\ \/ stack[i].promise = p
          \/ stack[i].phase # "file" /\ p \in waiters[stack[i].key]
  \/ \E j \in jobs : j.promise = p \/ (j.how # "file" /\ p \in waiters[j.key])

(* No import() is forgotten: as long as its promise is pending and V8 has not *)
(* ended the process, a call on the stack or a reaction is going to settle it, *)
(* also when it waits for a URL that somebody else loads.  EveryImportSettles  *)
(* rests on this and on those calls and reactions getting their turn.          *)
THEOREM PendingIsAnswered == Spec => [](~aborted => \A p : Pending(p) => Answered(p))
<1>1. Init => Remembered
  <2> SUFFICES ASSUME Init PROVE \A p : ~Pending(p)
    BY DEF Remembered
  <2>1. DOMAIN promises = {}
    BY DEF Init
  <2>2. QED
    BY <2>1 DEF Pending
<1>2. ASSUME IInv, Remembered, ~aborted, NEW p, Pending(p) PROVE Answered(p)
  <2>1. CASE \E i : CallHas(i, p)
    BY <2>1 DEF CallHas, IsImport, Answered
  <2>2. CASE \E j : JobHas(j, p)
    BY <2>2 DEF JobHas, Answered
  <2>3. CASE \E k : ListHas(k, p)
    <3>1. PICK k \in Keys : p \in waiters[k]
      BY <2>3 DEF ListHas
    <3>2. (\E i : FrameOwns(i, k)) \/ (\E j : JobOwns(j, k))
      BY <1>2, <3>1, FlightOf DEF IInv
    <3>3. CASE \E i : FrameOwns(i, k)
      BY <3>1, <3>3 DEF FrameOwns, IsImport, Answered
    <3>4. CASE \E j : JobOwns(j, k)
      BY <3>1, <3>4 DEF JobOwns, Answered
    <3>5. QED
      BY <3>2, <3>3, <3>4
  <2>4. QED
    BY <1>2, <2>1, <2>2, <2>3 DEF Remembered
<1>3. IInv /\ Remembered => (~aborted => \A p : Pending(p) => Answered(p))
  BY <1>2
<1>4. QED
  BY <1>1, <1>3, Invariant, NextRemembers, PTL DEF Spec
=============================================================================
