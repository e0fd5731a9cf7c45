---------------------------- MODULE HttpModules ----------------------------
(***************************************************************************)
(* ES modules that one isolate loads over HTTP                             *)
(* (NativeScript/runtime/ModuleInternalCallbacks.mm): import() of a URL,   *)
(* and the resolution of the static imports of what it loads, in a debug   *)
(* build.                                                                  *)
(*                                                                         *)
(* Fetching is synchronous, so a whole import() runs inside the call, but  *)
(* evaluating a module runs its code, which may call import() again, and a *)
(* module with a top-level await finishes later.  The loader's own state   *)
(* is g_moduleRegistry, g_modulesInFlight and g_httpDynamicWaiters; the    *)
(* module records, their statuses and the order of evaluation are V8's.    *)
(* Modules are numbered in the order they are compiled, promises in the    *)
(* order of the import() calls.                                            *)
(***************************************************************************)
EXTENDS Integers, Sequences, FiniteSets, SequencesExt

CONSTANTS
    Keys,       \* the canonical URLs (CanonicalizeHttpUrlKey)
    Imports,    \* the URLs a module imports statically
    SfcBase,    \* the URLs of component bases, which are always fetched anew
    MaxModules, \* bound: modules compiled
    MaxImports  \* bound: import() calls

ASSUME HttpModulesAssumption ==
    /\ IsFiniteSet(Keys)
    /\ Imports \in [Keys -> SUBSET Keys]
    /\ SfcBase \subseteq Keys
    /\ MaxModules \in Nat /\ MaxImports \in Nat

VARIABLES
    registry, \* g_moduleRegistry: URL -> module, or None
    inFlight, \* g_modulesInFlight
    waiters,  \* g_httpDynamicWaiters: URL -> promises
    mods,     \* V8's modules
    promises, \* one per import()
    stack,    \* import() calls and evaluations under way, the innermost last
    jobs,     \* the reactions attached with Then that have not run
    aborted   \* V8 has ended the process

vars == <<registry, inFlight, waiters, mods, promises, stack, jobs, aborted>>

None == 0
Module == 1 .. MaxModules
Promise == 1 .. MaxImports

Init ==
    /\ registry = [k \in Keys |-> None]
    /\ inFlight = {}
    /\ waiters = [k \in Keys |-> {}]
    /\ mods = <<>>
    /\ promises = <<>>
    /\ stack = <<>>
    /\ jobs = {}
    /\ aborted = FALSE

-----------------------------------------------------------------------------
\* V8.  The statuses are those of v8::Module; "async" is a module whose
\* evaluation waits for a top-level await, its own or of one it imports, and
\* which GetStatus calls kEvaluated.  waits says that there is such an await.

ReportedEvaluated(m) == mods[m].status \in {"async", "evaluated"}

\* Mutant for TypeOK: every URL is bound to the first of the modules compiled.
Register_First(reg, ms, ks) ==
    LET order == SetToSeq(ks)
    IN  [reg |-> [k \in Keys |-> IF k \in ks THEN Len(ms) + 1 ELSE reg[k]],
         ms  |-> ms \o [i \in DOMAIN order |->
                           [key |-> order[i], status |-> "compiled",
                            deps |-> {}, waits |-> FALSE]]]

\* Modules are registered when they are compiled, by import() before they are
\* linked and by ResolveModuleCallback while V8 links their importer.
Register(reg, ms, ks) ==
    LET order == SetToSeq(ks)
        number(k) == Len(ms) + CHOOSE i \in DOMAIN order : order[i] = k
    IN  [reg |-> [k \in Keys |-> IF k \in ks THEN number(k) ELSE reg[k]],
         ms  |-> ms \o [i \in DOMAIN order |->
                           [key |-> order[i], status |-> "compiled",
                            deps |-> {}, waits |-> FALSE]]]

\* What ResolveModuleCallback fetches: no entry, or an errored one, which it
\* drops.  Any other entry is handed to V8 as it is.
NeedsFetch(reg, ms) ==
    {k \in Keys : reg[k] # None => ms[reg[k]].status = "errored"}
IsCompiled(reg, ms) ==
    {k \in Keys : reg[k] # None /\ ms[reg[k]].status = "compiled"}

\* The URLs V8 asks for when it links root, if it follows the imports of the
\* modules of through: root, and what is imported by a URL asked for.
Follows(urls, through) == \A k \in urls \cap through : Imports[k] \subseteq urls
Asked(root, through) ==
    {k \in Keys : \A urls \in SUBSET Keys :
                     root \in urls /\ Follows(urls, through) => k \in urls}

\* InstantiateModule on root, whose entry is compiled.  It succeeds when every
\* URL asked for is there or can be fetched and compiled; the modules visited
\* are then linked to the modules found.
Linked(reg, ms, root) ==
    LET missing == NeedsFetch(reg, ms)
        visited == Asked(root, missing \cup IsCompiled(reg, ms))
        r == Register(reg, ms, visited \cap missing)
        fresh == {r.reg[k] : k \in visited \cap IsCompiled(r.reg, r.ms)}
    IN  [reg |-> r.reg,
         ms  |-> [m \in DOMAIN r.ms |->
                    IF m \in fresh
                    THEN [r.ms[m] EXCEPT !.status = "linked",
                                         !.deps = {r.reg[d] : d \in Imports[r.ms[m].key]}]
                    ELSE r.ms[m]]]

\* InstantiateModule fails: a fetch, a compilation or the match of an export
\* fails after some of the URLs asked for were fetched.  Those stay registered,
\* compiled and not linked.
NotLinked(reg, ms, root) ==
    LET missing == NeedsFetch(reg, ms)
        through(got) == {root} \cup got \cup IsCompiled(reg, ms)
        got == {g \in SUBSET missing : g \subseteq Asked(root, through(g))}
    IN  {Register(reg, ms, g) : g \in got}

\* A URL fetched and compiled, then linked or not.
Fetched(reg, ms, k) == Register(reg, ms, {k})

-----------------------------------------------------------------------------
\* import() of a URL.

Top == Last(stack)

JSRuns ==
    /\ ~aborted
    /\ stack # <<>> => Top.kind = "module" /\ Top.phase = "body"

NewPromise(k, state, m) == Append(promises, [key |-> k, state |-> state, module |-> m])

\* Settles the promises in ps and those of the URL's waiters.
Settle(ps, state, m) ==
    promises' = [p \in DOMAIN promises |->
                    IF p \in ps THEN [promises[p] EXCEPT !.state = state, !.module = m]
                    ELSE promises[p]]

\* Module::Evaluate on a linked module, called by import(): the evaluation and
\* the call that waits for it are on the stack.  entered lists the modules this
\* evaluation has entered and not finished.
Evaluate(ms, k, m, how) ==
    /\ mods' = [ms EXCEPT ![m].status = "evaluating"]
    /\ stack' = stack \o <<[kind |-> "import", module |-> m, phase |-> how,
                            key |-> k, promise |-> Len(promises'), entered |-> <<m>>],
                           [kind |-> "module", module |-> m, phase |-> "deps",
                            key |-> k, promise |-> None, entered |-> <<>>]>>

\* The entry of a component base is dropped before anything else.
Dropped(k) == IF k \in SfcBase THEN [registry EXCEPT ![k] = None] ELSE registry

\* Somebody loads the URL: wait for them.
ImportCoalesced(k) ==
    /\ k \in inFlight
    /\ registry' = Dropped(k)
    /\ promises' = NewPromise(k, "pending", None)
    /\ waiters' = [waiters EXCEPT ![k] = @ \cup {Len(promises')}]
    /\ UNCHANGED <<inFlight, mods, stack, jobs, aborted>>

\* Mutant for AnsweredOnce: any entry is the answer.
ImportEvaluated_Any(k) ==
    /\ k \notin inFlight
    /\ Dropped(k)[k] # None
    /\ promises' = NewPromise(k, "resolved", registry[k])
    /\ UNCHANGED <<registry, inFlight, waiters, mods, stack, jobs, aborted>>

\* The entry V8 reports as evaluated is the answer.
ImportEvaluated(k) ==
    /\ k \notin inFlight
    /\ Dropped(k)[k] # None /\ ReportedEvaluated(registry[k])
    /\ promises' = NewPromise(k, "resolved", registry[k])
    /\ UNCHANGED <<registry, inFlight, waiters, mods, stack, jobs, aborted>>

\* Any other entry is evaluated here, whatever its status.  V8 evaluates a
\* linked module, and ends the process for one that is not linked or is being
\* evaluated.
ImportCached(k) ==
    LET m == registry[k] IN
    /\ k \notin inFlight
    /\ Dropped(k)[k] # None
    /\ mods[m].status \in {"compiled", "linked", "evaluating"}
    /\ inFlight' = inFlight \cup {k}
    /\ promises' = NewPromise(k, "pending", None)
    /\ waiters' = [waiters EXCEPT ![k] = @ \cup {Len(promises')}]
    /\ IF mods[m].status = "linked"
       THEN Evaluate(mods, k, m, "cached") /\ aborted' = FALSE
       ELSE aborted' = TRUE /\ UNCHANGED <<mods, stack>>
    /\ UNCHANGED <<registry, jobs>>

\* Mutant for OneInstance: every entry that is not evaluated is dropped.
NotCached_Unfinished(k) ==
    /\ k \notin inFlight
    /\ Dropped(k)[k] = None \/ (registry[k] # None /\ ~ReportedEvaluated(registry[k]))

\* No entry, or an errored one, which is dropped.
NotCached(k) ==
    /\ k \notin inFlight
    /\ Dropped(k)[k] = None \/ (registry[k] # None /\ mods[registry[k]].status = "errored")

\* Fetch, CompileModuleFromSourceRegisterFirst: registered, linked, evaluated.
\* The URL is in flight until the evaluation is over.
ImportFetched(k) ==
    LET f == Fetched([registry EXCEPT ![k] = None], mods, k)
        l == Linked(f.reg, f.ms, k)
    IN  /\ NotCached(k)
        /\ Len(l.ms) <= MaxModules
        /\ inFlight' = inFlight \cup {k}
        /\ promises' = NewPromise(k, "pending", None)
        /\ registry' = l.reg
        /\ Evaluate(l.ms, k, l.reg[k], "fetched")
        /\ UNCHANGED <<waiters, jobs, aborted>>

\* The first attempt fails: nothing fetched or compiled, or not linked and so
\* taken out of the registry again.  What it leaves behind.
FirstAttemptFails(k) ==
    LET reg == [registry EXCEPT ![k] = None]
        f == Fetched(reg, mods, k)
    IN  {[reg |-> reg, ms |-> mods]}
        \cup {[reg |-> [n.reg EXCEPT ![k] = None], ms |-> n.ms] :
                  n \in NotLinked(f.reg, f.ms, k)}

\* The URL is no longer in flight, and import() goes on as it does for a file:
\* ResolveModuleCallback fetches the URL again and registers it, import() links
\* and evaluates it.
ImportRetried(k) ==
    /\ NotCached(k)
    /\ \E first \in FirstAttemptFails(k) :
           LET f == Fetched(first.reg, first.ms, k)
               l == Linked(f.reg, f.ms, k)
           IN  /\ Len(l.ms) <= MaxModules
               /\ promises' = NewPromise(k, "pending", None)
               /\ registry' = l.reg
               /\ Evaluate(l.ms, k, l.reg[k], "file")
    /\ UNCHANGED <<inFlight, waiters, jobs, aborted>>

\* The second attempt fails as well and the promise is rejected.  A module that
\* could be fetched and not linked stays in the registry.
ImportFails(k) ==
    /\ NotCached(k)
    /\ \E first \in FirstAttemptFails(k) :
           LET f == Fetched(first.reg, first.ms, k)
           IN  \E second \in {first} \cup NotLinked(f.reg, f.ms, k) :
                   /\ Len(second.ms) <= MaxModules
                   /\ registry' = second.reg
                   /\ mods' = second.ms
    /\ promises' = NewPromise(k, "rejected", None)
    /\ UNCHANGED <<inFlight, waiters, stack, jobs, aborted>>

Import(k) ==
    /\ JSRuns
    /\ Len(promises) < MaxImports
    /\ \/ ImportCoalesced(k)
       \/ ImportEvaluated(k)
       \/ ImportCached(k)
       \/ ImportFetched(k)
       \/ ImportRetried(k)
       \/ ImportFails(k)

-----------------------------------------------------------------------------
\* V8 evaluates: first what a module imports, then its own code.

Evaluating == ~aborted /\ stack # <<>> /\ Top.kind = "module"

Statuses(ms, s) ==
    [m \in DOMAIN mods |->
        IF m \in ms THEN [mods[m] EXCEPT !.status = s, !.waits = FALSE] ELSE mods[m]]

Deps(m, s) == {d \in mods[m].deps : mods[d].status = s}
AwaitedDeps(m) == {d \in mods[m].deps : mods[d].waits}

UnchangedLoader == UNCHANGED <<registry, inFlight, waiters, promises, jobs, aborted>>

\* Where the import() call of the innermost evaluation is on the stack, and the
\* modules that evaluation has under way.
Caller == CHOOSE i \in DOMAIN stack :
              /\ stack[i].kind = "import"
              /\ \A j \in DOMAIN stack : j > i => stack[j].kind = "module"
UnderWay == {stack[i].module : i \in Caller + 1 .. Len(stack)}

EvaluateDependency ==
    /\ Evaluating /\ Top.phase = "deps"
    /\ \E d \in Deps(Top.module, "linked") :
           /\ mods' = Statuses({d}, "evaluating")
           /\ stack' = Append([stack EXCEPT ![Caller].entered = Append(@, d)],
                             [Top EXCEPT !.module = d, !.key = mods[d].key])
    /\ UnchangedLoader

RunBody ==
    /\ Evaluating /\ Top.phase = "deps"
    /\ Deps(Top.module, "linked") \cup Deps(Top.module, "errored") = {}
    /\ AwaitedDeps(Top.module) = {}
    /\ stack' = [stack EXCEPT ![Len(stack)].phase = "body"]
    /\ UNCHANGED mods /\ UnchangedLoader

\* The modules a module reaches through its imports, itself included.
Reach(m) ==
    LET Step[n \in 0 .. Len(mods)] ==
            IF n = 0 THEN {m} ELSE Step[n - 1] \cup UNION {mods[d].deps : d \in Step[n - 1]}
    IN  Step[Len(mods)]

\* The innermost module is done, with an await or without.  The modules of an
\* import cycle get their new status together, when the first of them to be
\* entered is done.
ModuleDone(waits) ==
    LET entered == stack[Caller].entered
        from == CHOOSE i \in DOMAIN entered : entered[i] = Top.module
        finished == {entered[i] : i \in from .. Len(entered)}
        ms == [mods EXCEPT ![Top.module].waits = waits]
        inCycle == (UnderWay \ {Top.module}) \cap Reach(Top.module) # {}
    IN  /\ mods' = IF inCycle THEN ms
                   ELSE [m \in DOMAIN ms |->
                           IF m \notin finished THEN ms[m]
                           ELSE [ms[m] EXCEPT !.status =
                                    IF ms[m].waits THEN "async" ELSE "evaluated"]]
        /\ stack' = Front(IF inCycle THEN stack
                          ELSE [stack EXCEPT ![Caller].entered = SubSeq(@, 1, from - 1)])
        /\ UnchangedLoader

BodyReturns ==
    /\ Evaluating /\ Top.phase = "body"
    /\ ModuleDone(FALSE)

\* The module waits: for its own top-level await, or for one of a module it
\* imports, before its code runs.
BodyAwaits ==
    /\ Evaluating
    /\ \/ Top.phase = "body"
       \/ /\ Top.phase = "deps"
          /\ Deps(Top.module, "linked") \cup Deps(Top.module, "errored") = {}
          /\ AwaitedDeps(Top.module) # {}
    /\ ModuleDone(TRUE)

\* The code throws, or something imported has already failed: every module
\* of this evaluation that is not finished becomes errored.
BodyThrows ==
    /\ Evaluating
    /\ \/ Top.phase = "body"
       \/ Top.phase = "deps" /\ Deps(Top.module, "errored") # {}
    /\ mods' = Statuses(ToSet(stack[Caller].entered), "errored")
    /\ stack' = SubSeq(stack, 1, Caller)
    /\ UnchangedLoader

\* A top-level await is over and so is the code after it.  A module waits for
\* what it imports; those of one cycle settle in any order.
AwaitSettles(m) ==
    /\ ~aborted /\ stack = <<>>
    /\ mods[m].status = "async"
    /\ \A d \in AwaitedDeps(m) : m \in Reach(d)
    /\ \E s \in {"evaluated", "errored"} :
           /\ Deps(m, "errored") # {} => s = "errored"
           /\ mods' = Statuses({m}, s)
    /\ UNCHANGED stack /\ UnchangedLoader

-----------------------------------------------------------------------------
\* import() goes on when Evaluate has returned a promise.

Returning == ~aborted /\ stack # <<>> /\ Top.kind = "import"

\* Mutant for InFlightIsOwned: the URL stays in flight.
ResolveNow_InFlight ==
    /\ Returning /\ Top.phase = "fetched"
    /\ ReportedEvaluated(Top.module)
    /\ Settle({Top.promise} \cup waiters[Top.key], "resolved", Top.module)
    /\ waiters' = [waiters EXCEPT ![Top.key] = {}]
    /\ stack' = Front(stack)
    /\ UNCHANGED <<registry, inFlight, mods, jobs, aborted>>

\* The module fetched is reported evaluated: everybody is answered at once.
ResolveNow ==
    /\ Returning /\ Top.phase = "fetched"
    /\ ReportedEvaluated(Top.module)
    /\ Settle({Top.promise} \cup waiters[Top.key], "resolved", Top.module)
    /\ waiters' = [waiters EXCEPT ![Top.key] = {}]
    /\ inFlight' = inFlight \ {Top.key}
    /\ stack' = Front(stack)
    /\ UNCHANGED <<registry, mods, jobs, aborted>>

\* Otherwise reactions are attached to the promise of the evaluation.  A module
\* that was just fetched and is errored is evaluated again, which gives the
\* rejected promise of the first time.
AttachReactions ==
    /\ Returning
    /\ Top.phase = "fetched" => ~ReportedEvaluated(Top.module)
    /\ jobs' = jobs \cup {[how |-> Top.phase, key |-> Top.key,
                           module |-> Top.module, promise |-> Top.promise]}
    /\ stack' = Front(stack)
    /\ UNCHANGED <<registry, inFlight, waiters, mods, promises, aborted>>

\* Mutant for EveryImportSettles: the waiters are dropped without an answer.
Reaction_DropsWaiters(j) ==
    /\ ~aborted /\ stack = <<>>
    /\ mods[j.module].status \in {"evaluated", "errored"}
    /\ Settle({j.promise},
              IF mods[j.module].status = "evaluated" THEN "resolved" ELSE "rejected",
              j.module)
    /\ waiters' = [waiters EXCEPT ![j.key] = {}]
    /\ inFlight' = inFlight \ {j.key}
    /\ jobs' = jobs \ {j}
    /\ UNCHANGED <<registry, mods, stack, aborted>>

\* A reaction runs: onFulfilled or onRejected.  Those of a URL in flight answer
\* its waiters and take it out of flight, that of a file only its own promise.
Reaction(j) ==
    /\ ~aborted /\ stack = <<>>
    /\ mods[j.module].status \in {"evaluated", "errored"}
    /\ Settle({j.promise} \cup (IF j.how = "file" THEN {} ELSE waiters[j.key]),
              IF mods[j.module].status = "evaluated" THEN "resolved" ELSE "rejected",
              j.module)
    /\ IF j.how = "file"
       THEN UNCHANGED <<inFlight, waiters>>
       ELSE /\ waiters' = [waiters EXCEPT ![j.key] = {}]
            /\ inFlight' = inFlight \ {j.key}
    /\ jobs' = jobs \ {j}
    /\ UNCHANGED <<registry, mods, stack, aborted>>

Evaluation ==
    \/ EvaluateDependency
    \/ RunBody
    \/ BodyReturns
    \/ BodyAwaits
    \/ BodyThrows
    \/ ResolveNow
    \/ AttachReactions

Next ==
    \/ \E k \in Keys : Import(k)
    \/ Evaluation
    \/ \E m \in DOMAIN mods : AwaitSettles(m)
    \/ \E j \in jobs : Reaction(j)

\* Running code ends, reactions of settled promises run, and the awaits of the
\* program are answered.
Fairness ==
    /\ WF_vars(Evaluation)
    /\ WF_vars(\E m \in DOMAIN mods : AwaitSettles(m))
    /\ WF_vars(\E j \in jobs : Reaction(j))

Spec == Init /\ [][Next]_vars /\ Fairness

-----------------------------------------------------------------------------
Status == {"compiled", "linked", "evaluating", "async", "evaluated", "errored"}

\* TypeOK: the shape of the state; registry entries, frames and reactions name
\* modules and promises that exist, and an entry is a module of its own URL.
TypeOK ==
    /\ registry \in [Keys -> {None} \cup DOMAIN mods]
    /\ \A k \in Keys : registry[k] # None => mods[registry[k]].key = k
    /\ inFlight \subseteq Keys
    /\ waiters \in [Keys -> SUBSET DOMAIN promises]
    /\ mods \in Seq([key : Keys, status : Status, deps : SUBSET DOMAIN mods,
                     waits : BOOLEAN])
    /\ \A p \in DOMAIN promises : promises[p].state \in {"pending", "resolved", "rejected"}
    /\ \A i \in DOMAIN stack : stack[i].module \in DOMAIN mods
    /\ \A j \in jobs : j.module \in DOMAIN mods /\ j.promise \in DOMAIN promises
    /\ aborted \in BOOLEAN

\* The calls and reactions that answer the waiters of a URL.
Owners(k) ==
    {i \in DOMAIN stack : stack[i].kind = "import" /\ stack[i].key = k
                          /\ stack[i].phase # "file"}
    \cup {j \in jobs : j.key = k /\ j.how # "file"}

\* InFlightIsOwned: a URL is in flight exactly while one import() call or one
\* reaction is going to answer its waiters, and only then has it waiters
\* (g_modulesInFlight and g_httpDynamicWaiters over nested and later calls).
InFlightIsOwned ==
    ~aborted => \A k \in Keys :
        /\ k \in inFlight <=> Owners(k) # {}
        /\ Cardinality(Owners(k)) <= 1
        /\ waiters[k] # {} => k \in inFlight

\* OneInstance: at most one module of a URL is being or has been evaluated,
\* except for component bases, whatever failed and was retried before.
OneInstance ==
    \A m, n \in DOMAIN mods :
        /\ mods[m].key = mods[n].key
        /\ mods[m].key \notin SfcBase
        /\ {mods[m].status, mods[n].status} \subseteq {"evaluating", "async", "evaluated"}
        => m = n

\* AnsweredOnce: the promise of an import() is settled at most once, by the call,
\* a reaction or another call's answer to its waiters, and never resolved with a
\* module that is not evaluated as far as V8 reports (one still linked, under
\* evaluation or errored).  V8 reports as evaluated also what waits for a
\* top-level await: see ResolvedAfterSettling.
AnsweredOnce ==
    [][\A p \in DOMAIN promises' :
           IF p \in DOMAIN promises /\ promises[p].state # "pending"
           THEN promises'[p] = promises[p]
           ELSE promises'[p].state = "resolved"
                => mods'[promises'[p].module].status \in {"async", "evaluated"}]_vars

\* ResolvedAfterSettling: a promise is resolved only with a module whose
\* evaluation is over, top-level awaits included, as the comments at
\* ModuleInternalCallbacks.mm:1977, :2001 and :2103 say.  The code goes by
\* kEvaluated, which V8 also reports while an await is pending.
ResolvedAfterSettling ==
    [][\A p \in DOMAIN promises' :
           /\ promises'[p].state = "resolved"
           /\ p \in DOMAIN promises => promises[p].state # "resolved"
           => mods'[promises'[p].module].status = "evaluated"]_vars

Pending(p) == p \in DOMAIN promises /\ promises[p].state = "pending"

\* EveryImportSettles: every import() is answered, if the top-level awaits of
\* the program are and V8 does not end the process.
EveryImportSettles == \A p \in Promise : Pending(p) ~> (~Pending(p) \/ aborted)

=============================================================================
