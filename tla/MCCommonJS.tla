---------------------------- MODULE MCCommonJS ----------------------------
(***************************************************************************)
(* A small application for TLC: a package whose "main" is a directory with *)
(* a package.json of its own, names that differ only after a dot, a JSON   *)
(* file next to a script of the same name, a missing file that live sync   *)
(* brings, a file required as itself and through the package, a            *)
(* package.json that does not parse and one whose "main" is ".".           *)
(***************************************************************************)
EXTENDS CommonJS

App == << <<"app">> >>
In(dir, name) == Append(dir, name)
Lib == In(App, <<"lib">>)
Src == In(Lib, <<"src">>)
Bad == In(App, <<"bad">>)
Loop == In(App, <<"loop">>)

MCDirectories == {App, Lib, Src, Bad, Loop}
MCPackageMain ==
    [d \in {Lib, Src, Bad, Loop} |->
        CASE d = Lib -> << <<"src">> >>
          [] d = Src -> << <<"core">> >>
          [] d = Bad -> Corrupt
          [] d = Loop -> <<>>]
MCAppMain == << <<"main">> >>

MCFiles == {In(App, <<"main", "js">>), In(Src, <<"core", "js">>),
            In(App, <<"lib", "json">>), In(App, <<"view", "mjs">>),
            In(App, <<"notes", "txt">>)}
MCSynced == {In(App, <<"lib", "extra", "js">>)}

Relative(name) == [form |-> "relative", up |-> 0, to |-> <<name>>]
MCRequests ==
    {[form |-> "main"], [form |-> "url"],
     Relative(<<"lib">>),
     Relative(<<"lib", "json">>),
     Relative(<<"lib", "extra">>),
     [form |-> "tilde", to |-> << <<"lib">>, <<"src">>, <<"core">> >>],
     [form |-> "bare", to |-> << <<"view">> >>],
     [form |-> "absolute", to |-> << <<"gone">> >>],
     [form |-> "absolute", to |-> << <<"app">>, <<"view", "mjs">> >>],
     Relative(<<"notes", "txt">>),
     Relative(<<"bad">>),
     Relative(<<"loop">>)}

MCEntries == {In(App, <<"view", "mjs">>)}

=============================================================================
