---------------------------- MODULE ModulePaths ----------------------------
(***************************************************************************)
(* How require() turns the string it is given into a file                  *)
(* (NativeScript/runtime/ModuleInternal.mm).  A name is the sequence of    *)
(* its dot-separated parts, so that "app.module.js" is                     *)
(* <<"app", "module", "js">>; a path is the sequence of its names.  The    *)
(* file system is two sets of paths: the directories are fixed, the files  *)
(* are an argument of every operator, because live sync changes them while *)
(* the program runs.                                                       *)
(***************************************************************************)
EXTENDS Integers, Sequences, SequencesExt

CONSTANTS
    Directories,   \* the directories on the device
    ApplicationPath, \* RuntimeConfig.ApplicationPath
    AppMain,       \* the "main" of the application's package.json, a path
    PackageMain    \* a directory that has a package.json -> its "main"

\* What PackageMain holds for a package.json that does not parse, and for one
\* without "main".
Corrupt == <<"corrupt">>
NoMain  == <<"no main">>

Path == Seq(Seq(STRING))

\* The last conjunct is true of any strings; TLAPS has to be told.
ASSUME PathsAssumption ==
    /\ Directories \subseteq Path
    /\ ApplicationPath \in Directories \ {<<>>}
    /\ AppMain \in Path
    /\ DOMAIN PackageMain \subseteq Directories
    /\ \A d \in DOMAIN PackageMain :
           \/ PackageMain[d] = Corrupt
           \/ PackageMain[d] = NoMain
           \/ PackageMain[d] \in Path
    /\ {"index", "js", "mjs", "tns_modules", "tns-core-modules"} \subseteq STRING

JoinPath(dir, name) == Append(dir, name)

\* stringByAppendingPathExtension
WithExtension(path, ext) == Append(Front(path), Append(Last(path), ext))

\* pathExtension
Extension(path) == IF Len(Last(path)) > 1 THEN Last(Last(path)) ELSE ""

\* tns::Exists: a regular file or a directory.
Exists(files, path) == path \in files \cup Directories

\* A module name without a separator that starts with no '.' or '~'.  The name
\* LoadImpl passes is the last component of a path, which has no separator.
IsLikelyOptionalModule(name) == Head(name) # ""

IsESModule(path) == Extension(path) = "mjs"

\* The path itself, path.js and path.mjs.
Forms(path) == {path, WithExtension(path, "js"), WithExtension(path, "mjs")}

\* The first of them that is in there.
FirstWithExtension(path, there, otherwise) ==
    IF path \in there THEN path
    ELSE IF WithExtension(path, "js") \in there THEN WithExtension(path, "js")
    ELSE IF WithExtension(path, "mjs") \in there THEN WithExtension(path, "mjs")
    ELSE otherwise

\* The first of index.js and index.mjs in a directory that is there.
IndexOf(files, dir, otherwise) ==
    LET js  == JoinPath(dir, <<"index", "js">>)
        mjs == JoinPath(dir, <<"index", "mjs">>)
    IN  IF js \in files THEN js
        ELSE IF mjs \in files THEN mjs
        ELSE otherwise

ResolveMainEntryFromPackageJson(files) ==
    LET base == ApplicationPath \o AppMain
    IN  FirstWithExtension(base, files \cup Directories,
                           WithExtension(base, "js"))

\* What ResolvePath answers besides a path: nothing, an exception, or no answer
\* because it never returns.
Absent == <<"absent">>
Throws == <<"throws">>
Never  == <<"never">>

\* The path the package.json of directory dir leads to.
MainBase(dir) ==
    dir \o (IF PackageMain[dir] = NoMain THEN << <<"index">> >> ELSE PackageMain[dir])

\* That path is no file but a directory with a package.json of its own, for
\* which the code calls itself.
Follows(files, dir) ==
    /\ PackageMain[dir] # Corrupt
    /\ MainBase(dir) \in DOMAIN PackageMain
    /\ Forms(MainBase(dir)) \cap files = {}

\* The directories whose package.json is read for dir: the least set that has
\* dir in it and, with a directory, the one it leads to.
PackagesRead(files, dir) ==
    {d \in DOMAIN PackageMain :
        \A read \in SUBSET DOMAIN PackageMain :
            /\ dir \in read
            /\ \A r \in read : Follows(files, r) => MainBase(r) \in read
            => d \in read}

\* The entry a package.json names that leads to no other, or Corrupt.
EntryOf(files, dir) ==
    LET base  == MainBase(dir)
        whole == WithExtension(base, "js")
    IN  IF PackageMain[dir] = Corrupt THEN Corrupt
        ELSE FirstWithExtension(base, files,
                 IF base \in Directories THEN IndexOf(files, base, whole) ELSE whole)

\* The entry the package.json of directory dir names, directly or through
\* others.  The code bounds neither the depth nor revisits: where "main" leads
\* back to a package.json already read (its own, for "."), it recurses for ever.
ResolvePathFromPackageJson(files, dir) ==
    LET ends == {d \in PackagesRead(files, dir) : ~Follows(files, d)}
    IN  IF ends = {} THEN Never
        ELSE EntryOf(files, CHOOSE d \in ends : TRUE)

\* ResolvePath: the path itself, with .js, with .mjs; then a directory's
\* package.json, index.js, index.mjs or the directory itself.
ResolvePath(files, dir, name) ==
    LET path  == JoinPath(dir, name)
        index == IndexOf(files, path, path)
        folder ==
            IF path \notin DOMAIN PackageMain THEN index
            ELSE IF ResolvePathFromPackageJson(files, path) = Corrupt THEN Throws
            ELSE ResolvePathFromPackageJson(files, path)
        missing == IF IsLikelyOptionalModule(name) THEN Absent ELSE Throws
    IN  FirstWithExtension(path, files,
                           IF path \in Directories THEN folder ELSE missing)

\* The path RequireCallback builds from its argument before LoadImpl splits
\* it: "./" is the application's entry, a relative name starts at the
\* directory of the calling module, "~/" at the application, a bare name in
\* tns_modules and then in tns-core-modules, and a leading "/" is absolute.
FullPath(files, request, callingDir) ==
    LET tns == ApplicationPath \o << <<"tns_modules">> >>
        shared == tns \o request.to
        core == tns \o << <<"tns-core-modules">> >> \o request.to
    IN  CASE request.form = "main" -> ResolveMainEntryFromPackageJson(files)
          [] request.form = "relative" ->
                 SubSeq(callingDir, 1, Len(callingDir) - request.up) \o request.to
          [] request.form = "tilde" -> ApplicationPath \o request.to
          [] request.form = "bare" ->
                 IF \E p \in Forms(shared) : Exists(files, p) THEN shared ELSE core
          [] OTHER -> request.to

=============================================================================
