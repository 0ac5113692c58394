------------------------------- MODULE MCOpts -------------------------------
(***************************************************************************)
(* Instances of Opts for TLC.  An int has 16 values, -8 .. 7.              *)
(***************************************************************************)
EXTENDS Opts, SequencesExt

\* "x" and "17x" are what atoi() makes something of; "16" is too long for an
\* int, and has nothing in its low bits.
MCNumber == "0" :> 0 @@ "1" :> 1 @@ "3" :> 3 @@ "5" :> 5 @@ "16" :> 16
            @@ "17x" :> 17 @@ "-1" :> -1
MCTexts == {"", "x", "true", "TRUE", "none", "tkf", "tkm", "kcf", "dir", "file", "gone"}
           \cup DOMAIN MCNumber
MCEngines == {"none", "tkf", "tkm"}

Line(name, value) == [name |-> name, value |-> value]
A(opt, a) == [opt |-> opt, arg |-> a]
S(opt)    == [opt |-> opt, arg |-> NotGiven]

\* Every name with values that are taken, let stand, or thrown at; then two
\* lines with one name, and whole files.
Lines ==
    {Line(n, v) : n \in {"datdir", "locsfile", "kvdir"}, v \in {"", "dir", "file"}}
    \cup {Line("kvtype", v) : v \in {"", "none", "tkf", "kcf"}}
    \cup {Line(n, v) : n \in {"tune", "verbose", "logby"},
                       v \in {"", "x", "0", "3", "16", "-1"}}
    \cup {Line(n, v) : n \in {"out", "stdin", "mt"}, v \in {"true", "TRUE", "x"}}
    \cup {Line("#", "dir"), Line("from", "3")}
Whole(stdin, engine, verbose) ==
    <<Line("datdir", "dir"), Line("locsfile", "file"), Line("kvdir", "dir"),
      Line("stdin", stdin), Line("kvtype", engine), Line("verbose", verbose)>>
MCConfigs ==
    {<<>>} \cup {<<l>> : l \in Lines}
    \cup {<<l, m>> \in Lines \X Lines :
             l.name = m.name /\ l.name \in {"locsfile", "logby", "kvtype", "stdin"}}
    \cup {Whole(s, e, v) : s \in {"true", "x"}, e \in {"tkf", "kcf"}, v \in {"0", "3"}}
FewConfigs == {<<>>} \cup {Whole(s, "tkf", "3") : s \in {"true", "x"}}

Switches == {S("c"), S("o"), S("m"), S("i"), S("h"), S("?"), S("v")}
Sources  == {S("c"), A("d", "dir"), A("d", "gone"), A("l", "file")}
Args ==
    Switches \cup Sources
    \cup {A(o, a) : o \in {"f", "n", "s", "t"},
                    a \in {"x", "0", "1", "5", "16", "17x", "-1"}}
    \cup {A("v", a) : a \in {"x", "1", "5"}} \cup {A("k", "dir"), A("k", "gone")}
    \cup {A("e", a) : a \in {"none", "tkm", "kcf"}}
Few == Sources \cup {A("f", "1"), A("f", "5"), A("e", "tkm"), A("v", "1"), S("o")}
MCCommands == SeqOf(Args, 1) \cup SeqOf(Few, 2) \cup SeqOf(Sources, 3)

World(dirs, files, file) ==
    [dirs |-> dirs, exists |-> dirs \cup files, file |-> file]
MCWorlds == {World({"dir"}, {"file"}, FALSE), World({"dir"}, {"file"}, TRUE),
             World({}, {"dir"}, FALSE)}
=============================================================================
