----------------------------- MODULE CommonJS -----------------------------
(***************************************************************************)
(* The CommonJS loader of one isolate (class ModuleInternal).  JavaScript  *)
(* runs on one thread, but a module's body calls require() while it is     *)
(* itself being loaded, so the loader is a stack of half-done loads over   *)
(* one cache, loadedModules_, that all of them change.                     *)
(*                                                                         *)
(* The cache has two kinds of key: the path of the file, and the cache key *)
(* LoadImpl builds from the request, the directory and the name without    *)
(* its last extension.  An instance is the object a load makes; instances  *)
(* are numbered in the order they are made.                                *)
(***************************************************************************)
EXTENDS ModulePaths

CONSTANTS
    Debug,        \* RuntimeConfig.IsDebug
    InitialFiles, \* the files when the isolate starts
    SyncedFiles,  \* the files live sync may add or remove
    Requests,     \* the arguments the program calls require() with
    Entries,      \* the ES module files RunModule may be started with
    MaxInstances, \* bound: instances made
    MaxSyncs      \* bound: changes by live sync

ASSUME CommonJSAssumption ==
    /\ Debug \in BOOLEAN
    /\ MaxInstances \in Nat
    /\ MaxSyncs \in Nat
    /\ Entries \subseteq Path
    /\ \A request \in Requests :
           /\ request.form \in {"main", "url", "relative", "tilde", "bare", "absolute"}
           /\ request.form \notin {"main", "url"} => request.to \in Path
           /\ request.form = "relative" => request.up \in Nat

VARIABLES
    files,   \* the files on the device
    syncs,   \* how often live sync changed them
    loaded,  \* loadedModules_: key -> instance
    made,    \* history: the instances, in order
    stack,   \* the loads under way, the innermost last
    last     \* history: what the latest require() answered

vars == <<files, syncs, loaded, made, stack, last>>

-----------------------------------------------------------------------------
\* The cache.

PathKey(path) == [kind |-> "path", dir |-> Front(path), name |-> Last(path)]

\* LoadImpl's cacheKey: everything from the last '.' of the name is cut off.
CacheKey(path) ==
    LET name == Last(path)
    IN  [kind |-> "cache", dir |-> Front(path),
         name |-> IF Len(name) > 1 THEN Front(name) ELSE name]

\* unordered_map::emplace leaves an entry that is there.
Emplace(map, keys, value) ==
    [k \in DOMAIN map \cup keys |-> IF k \in DOMAIN map THEN map[k] ELSE value]

Erase(map, keys) == [k \in DOMAIN map \ keys |-> map[k]]

NoInstance == 0

\* What require() hands to its caller: nothing, the exports of an instance, or
\* the instance itself (RequireCallback's isData).
Answer(path, resolved, how, instance) ==
    [path |-> path, resolved |-> resolved, how |-> how, instance |-> instance]

NewInstance(path, kind, state) ==
    Append(made, [path |-> path, kind |-> kind, state |-> state])

Init ==
    /\ files = InitialFiles
    /\ syncs = 0
    /\ loaded = [k \in {} |-> NoInstance]
    /\ made = <<>>
    /\ stack = <<>>
    /\ last = Answer(ApplicationPath, Absent, "undefined", NoInstance)

-----------------------------------------------------------------------------
\* require(), called by whatever JavaScript runs now: the body of the
\* innermost load, or a callback when nothing is being loaded.  Every module
\* has a require function bound to its directory and may give it away.

JSRuns == stack # <<>> => Last(stack).phase = "body"

CallingDirs == {ApplicationPath} \cup {Front(made[i].path) : i \in DOMAIN made}

Return(path, resolved, how, instance) ==
    /\ last' = Answer(path, resolved, how, instance)
    /\ UNCHANGED <<files, syncs, stack>>

\* A URL is refused before anything is looked up.
RequireUrl(request) ==
    /\ JSRuns
    /\ request.form = "url"
    /\ Return(ApplicationPath, Absent, "throws", NoInstance)
    /\ UNCHANGED <<loaded, made>>

\* The first lookup, before the name is resolved: an entry under the cache key
\* is returned as a module, its exports are the answer.
RequireCached(path) ==
    /\ CacheKey(path) \in DOMAIN loaded
    /\ Return(path, ResolvePath(files, Front(path), Last(path)), "exports",
              loaded[CacheKey(path)])
    /\ UNCHANGED <<loaded, made>>

\* ResolvePath throws, or finds nothing where LoadImpl does not accept that.
RequireMissing(path, resolved) ==
    /\ \/ resolved = Throws
       \/ resolved = Absent /\ Front(path) = <<>>
    /\ Return(path, resolved, "throws", NoInstance)
    /\ UNCHANGED <<loaded, made>>

\* Mutant for TypeOK: the entry is the number of the next instance.
RequirePlaceholder_Next(path, resolved) ==
    /\ resolved = Absent
    /\ Front(path) # <<>>
    /\ Len(made) < MaxInstances
    /\ made' = NewInstance(path, "placeholder", "done")
    /\ loaded' = Emplace(loaded, {CacheKey(path)}, Len(made') + 1)
    /\ Return(path, resolved, "exports", Len(made'))

\* CreatePlaceholderModule: a module that throws when it is used stands in for
\* the missing one, and is cached under the cache key.
RequirePlaceholder(path, resolved) ==
    /\ resolved = Absent
    /\ Front(path) # <<>>
    /\ Len(made) < MaxInstances
    /\ made' = NewInstance(path, "placeholder", "done")
    /\ loaded' = Emplace(loaded, {CacheKey(path)}, Len(made'))
    /\ Return(path, resolved, "exports", Len(made'))

\* The second lookup, by the path of the file.
RequireLoaded(path, resolved) ==
    /\ PathKey(resolved) \in DOMAIN loaded
    /\ Return(path, resolved,
              IF Extension(resolved) = "json" THEN "whole" ELSE "exports",
              loaded[PathKey(resolved)])
    /\ UNCHANGED <<loaded, made>>

\* Mutant for SharedInstance: TempModule enters the module under the cache key only, so
\* that another name of the same file does not find it.
LoadModule_OneKey(path, resolved) ==
    /\ PathKey(resolved) \notin DOMAIN loaded
    /\ Extension(resolved) \in {"js", "mjs"}
    /\ Len(made) < MaxInstances
    /\ made' = NewInstance(resolved, "module", "loading")
    /\ loaded' = Emplace(loaded, {CacheKey(path)}, Len(made'))
    /\ stack' = Append(stack, [asked |-> path, path |-> resolved,
                               keys |-> {CacheKey(path)},
                               instance |-> Len(made'), phase |-> "script"])
    /\ UNCHANGED <<files, syncs, last>>

\* LoadModule up to LoadScript: TempModule puts the new module under both keys
\* before any of its code runs.
LoadModule(path, resolved) ==
    /\ PathKey(resolved) \notin DOMAIN loaded
    /\ Extension(resolved) \in {"js", "mjs"}
    /\ Len(made) < MaxInstances
    /\ made' = NewInstance(resolved, "module", "loading")
    /\ loaded' = Emplace(loaded, {PathKey(resolved), CacheKey(path)}, Len(made'))
    /\ stack' = Append(stack, [asked |-> path, path |-> resolved,
                               keys |-> {PathKey(resolved), CacheKey(path)},
                               instance |-> Len(made'), phase |-> "script"])
    /\ UNCHANGED <<files, syncs, last>>

\* Mutant for DataWhole: the parsed object is also cached under the key of the first
\* lookup, which answers before isData is set.
LoadData_BothKeys(path, resolved) ==
    /\ PathKey(resolved) \notin DOMAIN loaded
    /\ Extension(resolved) = "json"
    /\ Len(made) < MaxInstances
    /\ made' = NewInstance(resolved, "data", "done")
    /\ loaded' = Emplace(loaded, {PathKey(resolved), CacheKey(path)}, Len(made'))
    /\ Return(path, resolved, "whole", Len(made'))

\* LoadData: the parsed JSON is cached by path and answered as it is; a text
\* that is not a JSON object throws and leaves nothing.
LoadData(path, resolved) ==
    /\ PathKey(resolved) \notin DOMAIN loaded
    /\ Extension(resolved) = "json"
    /\ \/ /\ Len(made) < MaxInstances
          /\ made' = NewInstance(resolved, "data", "done")
          /\ loaded' = Emplace(loaded, {PathKey(resolved)}, Len(made'))
          /\ Return(path, resolved, "whole", Len(made'))
       \/ /\ Return(path, resolved, "throws", NoInstance)
          /\ UNCHANGED <<loaded, made>>

\* Any other file, and a directory without an index.
RequireUnsupported(path, resolved) ==
    /\ PathKey(resolved) \notin DOMAIN loaded
    /\ Extension(resolved) \notin {"js", "mjs", "json"}
    /\ Return(path, resolved, "throws", NoInstance)
    /\ UNCHANGED <<loaded, made>>

\* Mutant for LoadedStays: LoadImpl goes on to resolve a name whose cache key is there.
RequireResolved_NoFirstLookup(path, resolved) ==
    \/ RequireMissing(path, resolved)
    \/ RequirePlaceholder(path, resolved)
    \/ /\ resolved \notin {Absent, Throws, Never}
       /\ \/ RequireLoaded(path, resolved)
          \/ LoadModule(path, resolved)
          \/ LoadData(path, resolved)
          \/ RequireUnsupported(path, resolved)

\* LoadImpl once the first lookup has failed.  Where ResolvePath never returns,
\* neither does require().
RequireResolved(path, resolved) ==
    /\ CacheKey(path) \notin DOMAIN loaded
    /\ \/ RequireMissing(path, resolved)
       \/ RequirePlaceholder(path, resolved)
       \/ /\ resolved \notin {Absent, Throws, Never}
          /\ \/ RequireLoaded(path, resolved)
             \/ LoadModule(path, resolved)
             \/ LoadData(path, resolved)
             \/ RequireUnsupported(path, resolved)

\* A request for the root of the file system, which has no name to split off,
\* is left out.
RequireFile(request, callingDir) ==
    LET path == FullPath(files, request, callingDir)
    IN  /\ JSRuns
        /\ request.form # "url"
        /\ path # <<>>
        /\ \/ RequireCached(path)
           \/ RequireResolved(path, ResolvePath(files, Front(path), Last(path)))

-----------------------------------------------------------------------------
\* The innermost load.

Top == Last(stack)

\* ~TempModule after SaveToCache: the module stays under both keys.
Keep ==
    /\ made' = [made EXCEPT ![Top.instance].state = "done"]
    /\ stack' = Front(stack)
    /\ last' = Answer(Top.asked, Top.path, "exports", Top.instance)
    /\ UNCHANGED <<files, syncs, loaded>>

\* Mutant for NothingBroken: ~TempModule erases the path and forgets the cache key.
Dispose_PathOnly(how) ==
    /\ made' = [made EXCEPT ![Top.instance].state = "failed"]
    /\ loaded' = Erase(loaded, {k \in Top.keys : k.kind = "path"})
    /\ stack' = Front(stack)
    /\ last' = Answer(Top.asked, Top.path, how, NoInstance)
    /\ UNCHANGED <<files, syncs>>

\* ~TempModule without it: both keys are erased.
Dispose(how) ==
    /\ made' = [made EXCEPT ![Top.instance].state = "failed"]
    /\ loaded' = Erase(loaded, Top.keys)
    /\ stack' = Front(stack)
    /\ last' = Answer(Top.asked, Top.path, how, NoInstance)
    /\ UNCHANGED <<files, syncs>>

IsBundle(path) == path = JoinPath(ApplicationPath, <<"bundle", "js">>)

\* LoadScript gets as far as the module's own code: LoadClassicScript refuses
\* what is not a regular file, then the compiler accepts the text.
ScriptLoads ==
    /\ stack # <<>> /\ Top.phase = "script"
    /\ Top.path \in files
    /\ stack' = [stack EXCEPT ![Len(stack)].phase = "body"]
    /\ UNCHANGED <<files, syncs, loaded, made, last>>

\* It does not.  A text that does not compile is an exception in a release
\* build and an empty value, which require() answers with undefined, in a
\* debug build; a missing file is always an exception.
ScriptFails ==
    /\ stack # <<>> /\ Top.phase = "script"
    /\ \/ Top.path \notin files /\ Dispose("throws")
       \/ Top.path \in files /\ Dispose(IF Debug THEN "undefined" ELSE "throws")

\* The module's code runs to its end.
BodyReturns ==
    /\ stack # <<>> /\ Top.phase = "body"
    /\ Keep

\* It throws.  A CommonJS body is called by LoadModule, which passes the
\* exception on; an ES module and the application bundle run inside
\* LoadScript, which in a debug build reports it and returns an empty value.
BodyThrows ==
    /\ stack # <<>> /\ Top.phase = "body"
    /\ Dispose(IF Debug /\ (IsESModule(Top.path) \/ IsBundle(Top.path))
               THEN "undefined" ELSE "throws")

\* RunModule on an ES module (a worker's script, the inspector's modules):
\* LoadESModule is called directly, past loadedModules_.  Any other script goes
\* through the global require.
RunModule(path) ==
    /\ stack = <<>>
    /\ Len(made) < MaxInstances
    /\ made' = NewInstance(path, "entry", "loading")
    /\ stack' = <<[asked |-> path, path |-> path, keys |-> {},
                   instance |-> Len(made'), phase |-> "script"]>>
    /\ UNCHANGED <<files, syncs, loaded, last>>

\* Live sync writes to the application's folder while the program runs.  A file
\* that goes away between its resolution and its reading, one synchronous
\* call, is left out.
LiveSync ==
    /\ JSRuns
    /\ syncs < MaxSyncs
    /\ syncs' = syncs + 1
    /\ \E f \in SyncedFiles : files' = IF f \in files THEN files \ {f} ELSE files \cup {f}
    /\ UNCHANGED <<loaded, made, stack, last>>

Next ==
    \/ \E request \in Requests : RequireUrl(request)
    \/ \E request \in Requests, dir \in CallingDirs : RequireFile(request, dir)
    \/ ScriptLoads
    \/ ScriptFails
    \/ BodyReturns
    \/ BodyThrows
    \/ \E path \in Entries : RunModule(path)
    \/ LiveSync

Spec == Init /\ [][Next]_vars

-----------------------------------------------------------------------------
Key == [kind : {"path", "cache"}, dir : Path, name : Seq(STRING)]
Instance == [path : Path, kind : {"module", "data", "placeholder", "entry"},
             state : {"loading", "done", "failed"}]
Load == [asked : Path, path : Path, keys : SUBSET Key,
         instance : 1 .. MaxInstances, phase : {"script", "body"}]

\* TypeOK: the shape of the state, and that every entry of the cache and every
\* load names an instance that was made.
TypeOK ==
    /\ \A f \in files : f \in InitialFiles \cup SyncedFiles
    /\ syncs \in 0 .. MaxSyncs
    /\ made \in Seq(Instance)
    /\ DOMAIN loaded \subseteq Key
    /\ \A k \in DOMAIN loaded : loaded[k] \in DOMAIN made
    /\ stack \in Seq(Load)
    /\ \A i \in DOMAIN stack : stack[i].instance \in DOMAIN made
    /\ last.how \in {"undefined", "throws", "exports", "whole"}
    /\ last.instance \in {NoInstance} \cup DOMAIN made

Alive(i) == made[i].state # "failed"

\* SharedInstance: at most one instance of a file is ever loading or loaded,
\* whatever names it is required by and however the requires are nested
\* (LoadImpl's two lookups and TempModule's early entries).  Neither a
\* placeholder nor the script RunModule starts with is a required file.
SharedInstance ==
    \A i, j \in DOMAIN made :
        /\ made[i].path = made[j].path
        /\ {made[i].kind, made[j].kind} \subseteq {"module", "data"}
        /\ Alive(i) /\ Alive(j)
        => i = j

\* NothingBroken: the cache never offers a module whose load failed, under
\* either key: an instance that is not done is one a load on the stack is
\* still working on (~TempModule erases both keys).
NothingBroken ==
    \A k \in DOMAIN loaded :
        \/ made[loaded[k]].state = "done"
        \/ \E i \in DOMAIN stack : stack[i].instance = loaded[k]

\* LoadedStays: a module that was loaded stays in the cache as the same
\* instance, also when a later load that shares a key with it fails.
LoadedStays ==
    [][\A k \in DOMAIN loaded :
           made[loaded[k]].state = "done"
           => k \in DOMAIN loaded' /\ loaded'[k] = loaded[k]]_vars

\* DataWhole: require() answers a JSON file with the parsed object itself, and
\* anything else with its exports (RequireCallback's isData, which LoadImpl
\* sets only after its first lookup).
DataWhole ==
    last.instance # NoInstance =>
        (last.how = "whole" <=> made[last.instance].kind = "data")

=============================================================================
