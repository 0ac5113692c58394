-------------------------------- MODULE Opts --------------------------------
(***************************************************************************)
(* load_opts(): the config file ~/.bce2.cfg, line by line, then the command*)
(* line, argument by argument as getopt() delivers it, then a look at what *)
(* the options name.  All three work on the one record OPTS.               *)
(***************************************************************************)
EXTENDS Integers, Sequences, FiniteSets

CONSTANTS
    Texts,       \* what a line or an argument may give as a value
    Number,      \* the number a text begins with; other texts are not in it
    IntSpan,     \* an int and a uint32_t have so many values
    MaxBlocks,   \* 999999
    MaxLogStep,  \* 100000
    Engines,     \* kv_type_name
    Configs,     \* config files: lines [name, value] without their blanks; a
                 \* comment and a line without '=' have a name nobody asks for
    Commands,    \* command lines: what getopt() returns, [opt, arg]
    Worlds,      \* what the options meet: [exists, dirs : SUBSET Texts,
                 \* file : BOOLEAN], file being whether stdin is one
    NotGiven     \* in place of a text

Empty == ""
DBG_MAX == 3
Omitted == IntSpan - 1   \* OPTS.from without -f

Names == {"datdir", "locsfile", "kvdir", "kvtype", "tune", "verbose", "out",
          "stdin", "mt", "logby"}
Letters == {"h", "f", "n", "d", "l", "k", "e", "t", "s", "c", "o", "m", "i",
            "v", "?"}

Int32 == -(IntSpan \div 2) .. (IntSpan \div 2) - 1
U32   == 0 .. IntSpan - 1

ASSUME OptsAssumption ==
    /\ IntSpan \in Nat /\ IntSpan > 4 /\ IntSpan % 2 = 0
    /\ MaxBlocks \in Nat \ {0} /\ MaxBlocks < IntSpan - 1
    /\ MaxLogStep \in Nat /\ MaxLogStep < IntSpan
    /\ DOMAIN Number \subseteq Texts
    /\ \A t \in DOMAIN Number : Number[t] \in Int
    /\ Empty \in Texts /\ Empty \notin DOMAIN Number
    /\ Engines \subseteq Texts /\ "none" \in Engines /\ Empty \notin Engines
    /\ NotGiven \notin Texts \cup {"true", "True", "TRUE"}
    /\ Configs \subseteq Seq([name : STRING, value : Texts])
    /\ Commands \subseteq Seq([opt : Letters, arg : Texts \cup {NotGiven}])
    /\ \A c \in Commands : \A i \in DOMAIN c :
          c[i].arg = NotGiven => c[i].opt \in {"h", "c", "o", "m", "i", "v", "?"}
    /\ Worlds \subseteq [exists : SUBSET Texts, dirs : SUBSET Texts, file : BOOLEAN]

VARIABLES
    step,          \* where load_opts() is, or what became of it
    config, line,  \* the config file, and the line that is read next
    data,          \* the map in ReadFile(), of the names that are asked for
    args, optind,  \* the command line, and the argument getopt() takes next
    direct,        \* the flag in cli()
    OPTS

ovars == <<step, config, line, data, args, optind, direct, OPTS>>
cfgvars == <<config, line, data>>

Defaults ==
    [datdir |-> Empty, locsfile |-> Empty, kvdir |-> Empty, kvngin |-> "none",
     verbose |-> 0, kvtune |-> 0, from |-> Omitted, num |-> 1, logstep |-> 1,
     fromcin |-> FALSE, out |-> FALSE, mt |-> FALSE, info |-> FALSE]

OptsInit ==
    /\ step = "cfg"
    /\ config \in Configs /\ line = 1 /\ data = [n \in Names |-> NotGiven]
    /\ args \in Commands /\ optind = 1 /\ direct = FALSE
    /\ OPTS = Defaults

-----------------------------------------------------------------------------
\* Conversions.  An int that is too small for a number keeps its low bits.
Low(n)  == ((n + IntSpan \div 2) % IntSpan) - (IntSpan \div 2)
Atol(t) == IF t \in DOMAIN Number THEN Number[t] ELSE 0
Atoi(t) == Low(Atol(t))

\* std::stoi() and std::stoul() throw; stoul() takes a sign.
StoiThrows(t)  == t \in DOMAIN Number => Number[t] \notin Int32
StoulThrows(t) == t \notin DOMAIN Number
Stoul(t)       == Number[t] % (IntSpan * IntSpan)
\* In whatever case.
IsTrue(t)      == t \in {"true", "True", "TRUE"}

-----------------------------------------------------------------------------
\* load_cfg().

\* Mutant: the first line with a name is kept.
ReadLineFirst ==
    /\ step = "cfg" /\ line <= Len(config)
    /\ LET l == config[line]
       IN  data' = IF l.name \in Names /\ data[l.name] = NotGiven
                     THEN [data EXCEPT ![l.name] = l.value] ELSE data
    /\ line' = line + 1
    /\ UNCHANGED <<step, config, args, optind, direct, OPTS>>

ReadLine ==
    /\ step = "cfg" /\ line <= Len(config)
    /\ LET l == config[line]
       IN  data' = IF l.name \in Names THEN [data EXCEPT ![l.name] = l.value]
                                       ELSE data
    /\ line' = line + 1
    /\ UNCHANGED <<step, config, args, optind, direct, OPTS>>

Has(name) == data[name] # NotGiven

\* A value that is no number: nobody catches the exception.
CfgThrows ==
    \/ Has("verbose") /\ StoiThrows(data["verbose"])
    \/ \E n \in {"tune", "logby"} : Has(n) /\ StoulThrows(data[n])

\* What a name sets, and what stays without it.  An empty text, a verbosity
\* below 0 and a step of 0 are as if not given.
TextOf(name, old) == IF data[name] \in {NotGiven, Empty} THEN old ELSE data[name]
BoolOf(name, old) == IF Has(name) THEN IsTrue(data[name]) ELSE old
Verbose == IF Has("verbose") /\ Number[data["verbose"]] >= 0
             THEN Number[data["verbose"]] ELSE OPTS.verbose
LogStep == IF Has("logby") /\ Stoul(data["logby"]) > 0
             THEN Stoul(data["logby"]) % IntSpan ELSE OPTS.logstep
Engine  == TextOf("kvtype", OPTS.kvngin)

Assigned ==
    [OPTS EXCEPT !.datdir = TextOf("datdir", @), !.locsfile = TextOf("locsfile", @),
                 !.kvdir = TextOf("kvdir", @),
                 !.kvngin = IF Engine \in Engines THEN Engine ELSE @,
                 !.kvtune = IF Has("tune") THEN Stoul(data["tune"]) ELSE @,
                 !.verbose = Verbose, !.logstep = LogStep,
                 !.out = BoolOf("out", @), !.fromcin = BoolOf("stdin", @),
                 !.mt = BoolOf("mt", @)]

CfgEnd == step = "cfg" /\ line > Len(config)

\* An engine that is not known is an error only if messages are wanted.
LoadCfg ==
    /\ CfgEnd /\ ~CfgThrows
    /\ OPTS' = Assigned
    /\ step' = IF Engine \notin Engines /\ Verbose # 0 THEN "refused" ELSE "cli"
    /\ UNCHANGED <<cfgvars, args, optind, direct>>

CfgAborts ==
    /\ CfgEnd /\ CfgThrows
    /\ step' = "aborted"
    /\ UNCHANGED <<cfgvars, args, optind, direct, OPTS>>

-----------------------------------------------------------------------------
\* cli().
arg == args[optind].arg

Take(letter) ==
    /\ step = "cli" /\ optind <= Len(args)
    /\ args[optind].opt = letter
    /\ optind' = optind + 1
    /\ UNCHANGED <<cfgvars, args>>

\* An option sets something, or is refused.
Set(letter, valid, new) ==
    /\ Take(letter)
    /\ IF valid THEN OPTS' = new /\ UNCHANGED step
                ELSE step' = "refused" /\ UNCHANGED OPTS
    /\ UNCHANGED direct

OptFrom == Set("f", Atoi(arg) \in 0 .. MaxBlocks, [OPTS EXCEPT !.from = Atoi(arg)])

\* Mutant: -n 0 is taken for no block.
OptNumZero == Set("n", Atoi(arg) \in 0 .. MaxBlocks, [OPTS EXCEPT !.num = Atoi(arg)])

OptNum  == Set("n", Atoi(arg) \in 0 .. MaxBlocks,
               [OPTS EXCEPT !.num = IF Atoi(arg) = 0 THEN MaxBlocks ELSE Atoi(arg)])
OptStep == Set("s", Atoi(arg) \in 1 .. MaxLogStep, [OPTS EXCEPT !.logstep = Atoi(arg)])
OptTune == Set("t", Atol(arg) >= 0, [OPTS EXCEPT !.kvtune = Atol(arg)])
OptEngine == Set("e", arg \in Engines, [OPTS EXCEPT !.kvngin = arg])
OptKvdir  == Set("k", TRUE, [OPTS EXCEPT !.kvdir = arg])
OptOut    == Set("o", TRUE, [OPTS EXCEPT !.out = TRUE])
OptMt     == Set("m", TRUE, [OPTS EXCEPT !.mt = TRUE])
OptInfo   == Set("i", TRUE, [OPTS EXCEPT !.info = TRUE])
OptHelp   == Set("h", FALSE, OPTS)
OptBad    == Set("?", FALSE, OPTS)

\* Only what is written together with -v is its argument; atoi() is called
\* without one as well.
OptVerbose ==
    /\ Set("v", Atoi(arg) \in 0 .. DBG_MAX, [OPTS EXCEPT !.verbose = Atoi(arg)])
    /\ arg # NotGiven
OptVerboseUndefined ==
    /\ Take("v") /\ arg = NotGiven
    /\ step' = "undefined"
    /\ UNCHANGED <<direct, OPTS>>

\* The sources of blocks: a folder and a table, or stdin.
OptDirect(letter, new) ==
    /\ Take(letter)
    /\ IF OPTS.fromcin
         THEN step' = "conflict" /\ UNCHANGED <<direct, OPTS>>
         ELSE OPTS' = new /\ direct' = TRUE /\ UNCHANGED step

\* Mutant: -l does not count for a later -c.
OptLocsUncounted ==
    /\ Take("l")
    /\ IF OPTS.fromcin
         THEN step' = "conflict" /\ UNCHANGED <<direct, OPTS>>
         ELSE OPTS' = [OPTS EXCEPT !.locsfile = arg] /\ UNCHANGED <<direct, step>>

OptDatdir == OptDirect("d", [OPTS EXCEPT !.datdir = arg])
OptLocs   == OptDirect("l", [OPTS EXCEPT !.locsfile = arg])

OptStdin ==
    /\ Take("c")
    /\ IF direct THEN step' = "conflict" /\ UNCHANGED OPTS
                 ELSE OPTS' = [OPTS EXCEPT !.fromcin = TRUE] /\ UNCHANGED step
    /\ UNCHANGED direct

Cli ==
    \/ OptFrom \/ OptNum \/ OptStep \/ OptTune \/ OptEngine \/ OptKvdir
    \/ OptOut \/ OptMt \/ OptInfo \/ OptHelp \/ OptBad
    \/ OptVerbose \/ OptVerboseUndefined \/ OptDatdir \/ OptLocs \/ OptStdin

-----------------------------------------------------------------------------
\* What load_opts() asks of the outside.  The position of stdin can be told
\* iff it is a file, whatever is in it, and that is taken for an empty one.
Usable(w) ==
    /\ IF OPTS.fromcin THEN ~w.file
                       ELSE OPTS.datdir \in w.dirs /\ OPTS.locsfile \in w.exists
    /\ OPTS.kvngin # "none" => OPTS.kvdir \in w.dirs

PostCheck ==
    /\ step = "cli" /\ optind > Len(args)
    /\ \E w \in Worlds : step' = IF Usable(w) THEN "ready" ELSE "refused"
    /\ UNCHANGED <<cfgvars, args, optind, direct, OPTS>>

OptsNext == ReadLine \/ LoadCfg \/ CfgAborts \/ Cli \/ PostCheck

OptsSpec == OptsInit /\ [][OptsNext]_ovars
-----------------------------------------------------------------------------
OptRecord ==
    [datdir : Texts, locsfile : Texts, kvdir : Texts, kvngin : Engines,
     verbose : Nat, kvtune : Nat, from : 0 .. MaxBlocks \cup {Omitted},
     num : 1 .. MaxBlocks, logstep : U32, fromcin : BOOLEAN, out : BOOLEAN,
     mt : BOOLEAN, info : BOOLEAN]

\* Types of the variables.  The module Loader takes from and num to be so, and
\* the loop of main() runs at least once.
OptsTypeOK ==
    /\ step \in {"cfg", "cli", "ready", "refused", "conflict", "aborted", "undefined"}
    /\ config \in Configs /\ line \in 1 .. Len(config) + 1
    /\ data \in [Names -> Texts \cup {NotGiven}]
    /\ args \in Commands /\ optind \in 1 .. Len(args) + 1
    /\ direct \in BOOLEAN /\ OPTS \in OptRecord

\* Where an option stands on the command line and a name in the config file, in
\* what was taken of them so far, and what they say last.
ArgsOf(letter) == {i \in 1 .. optind - 1 : args[i].opt = letter}
LinesOf(name)  == {i \in 1 .. line - 1 : config[i].name = name}
Latest(S) == CHOOSE x \in S : \A y \in S : y <= x

Named(letter)   == ArgsOf(letter) # {}
LastArg(letter) == args[Latest(ArgsOf(letter))].arg
LastValue(name) == IF LinesOf(name) = {} THEN NotGiven
                                         ELSE config[Latest(LinesOf(name))].value

\* The reference: what is said last counts, and the command line is said after
\* the config file; there is no way to take back a switch.
Wanted(letter, name, Valid(_), default) ==
    CASE Named(letter)                -> LastArg(letter)
      [] ~Named(letter) /\ LastValue(name) # NotGiven /\ Valid(LastValue(name))
                                      -> LastValue(name)
      [] OTHER                        -> default
Switched(letter, name) == Named(letter) \/ IsTrue(LastValue(name))

NotEmpty(t) == t # Empty
Known(t)    == t \in Engines
Positive(t) == Number[t] % (IntSpan * IntSpan) # 0
NotBelow0(t) == Number[t] >= 0
Given(t)    == t # NotGiven
WantedNumber(letter, name, Valid(_), default) ==
    IF Named(letter) \/ (LastValue(name) # NotGiven /\ Valid(LastValue(name)))
      THEN Atol(Wanted(letter, name, Valid, Empty)) ELSE default
SameLow(a, b) == (a - b) % IntSpan = 0

\* The variables that the options set, and what was said last of each.
Fields == [d |-> "datdir", l |-> "locsfile", k |-> "kvdir", e |-> "kvngin",
           v |-> "verbose", t |-> "kvtune", s |-> "logstep", o |-> "out",
           m |-> "mt", i |-> "info", f |-> "from", n |-> "num"]
Said(letter, value) ==
    CASE letter = "d" -> value = Wanted("d", "datdir", NotEmpty, Empty)
      [] letter = "l" -> value = Wanted("l", "locsfile", NotEmpty, Empty)
      [] letter = "k" -> value = Wanted("k", "kvdir", NotEmpty, Empty)
      [] letter = "e" -> value = Wanted("e", "kvtype", Known, "none")
      [] letter = "v" -> SameLow(value, WantedNumber("v", "verbose", NotBelow0, 0))
      [] letter = "t" -> SameLow(value, WantedNumber("t", "tune", Given, 0))
      [] letter = "s" -> SameLow(value, WantedNumber("s", "logby", Positive, 1))
      [] letter = "o" -> value = Switched("o", "out")
      [] letter = "m" -> value = Switched("m", "mt")
      [] letter = "i" -> value = Named("i")
      [] letter = "f" -> value = IF Named("f") THEN Atoi(LastArg("f")) ELSE Omitted
      [] letter = "n" -> value % MaxBlocks =
                         (IF Named("n") THEN Atoi(LastArg("n")) ELSE 1) % MaxBlocks

\* What main() is given is what was said last, though ten names are bound to
\* ten variables by their places in two lists, some through adaptors that let
\* the old value stand, and the arguments then change the same record; and
\* nothing that was said is left out.
LastSaidCounts ==
    step \in {"cli", "ready"} =>
        /\ line > Len(config)
        /\ step = "ready" => optind > Len(args)
        /\ \A letter \in DOMAIN Fields : Said(letter, OPTS[Fields[letter]])

\* A command line with both sources of blocks is refused in whatever order it
\* names them and whatever is in between, and the source that is left is the
\* one that was named: blocks never come from stdin with -d or -l given.
OneSource ==
    /\ step \in {"cli", "ready"} =>
          /\ ~(Named("c") /\ (Named("d") \/ Named("l")))
          /\ OPTS.fromcin <=> Named("c") \/ IsTrue(data["stdin"])
          /\ OPTS.fromcin => ~(Named("d") \/ Named("l"))
    /\ step = "conflict" =>
          /\ Named("d") \/ Named("l")
          /\ Named("c") \/ IsTrue(data["stdin"])

\* Only the command line can conflict with itself: it overwrites the config.
CommandLineOverwrites == step = "conflict" => Named("c")
=============================================================================
