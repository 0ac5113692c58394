----------------------------- MODULE OptsProofs -----------------------------
(***************************************************************************)
(* Proofs about Opts, for all config files, command lines, texts and       *)
(* widths of numbers.                                                      *)
(***************************************************************************)
EXTENDS Opts, TLAPS

LEMMA ElementType == ASSUME NEW S, NEW s \in Seq(S), NEW i \in DOMAIN s
                     PROVE  s[i] \in S
  OBVIOUS

LEMMA ModType == \A n \in Int, m \in Nat \ {0} : n % m \in 0 .. m - 1
  OBVIOUS

\* IntSpan * IntSpan is a positive number.
LEMMA SpanSquare == IntSpan * IntSpan \in Nat \ {0}
<1> DEFINE s == IntSpan
<1>1. s \in Nat /\ s > 0
  BY OptsAssumption
<1> HIDE DEF s
<1>2. s * s \in Nat /\ s * s > 0
  BY <1>1
<1> QED
  BY <1>2 DEF s

\* What std::stoul() makes of a number.
LEMMA StoulType == ASSUME NEW t \in DOMAIN Number
                   PROVE  Stoul(t) \in Nat /\ Stoul(t) % IntSpan \in U32
<1>1. Number[t] \in Int
  BY OptsAssumption
<1>2. Stoul(t) \in Nat
  BY <1>1, SpanSquare, ModType DEF Stoul
<1>3. IntSpan \in Nat \ {0}
  BY OptsAssumption
<1>4. Stoul(t) % IntSpan \in U32
  BY <1>2, <1>3, ModType DEF U32
<1> QED
  BY <1>2, <1>4

\* The options that a config file leaves are of their types.
LEMMA AssignedType ==
    ASSUME OPTS \in OptRecord, data \in [Names -> Texts \cup {NotGiven}], ~CfgThrows
    PROVE  Assigned \in OptRecord
<1>1. \A n \in Names : data[n] \in Texts \cup {NotGiven}
  OBVIOUS
<1>2. \A n \in Names, old \in Texts : TextOf(n, old) \in Texts
  BY <1>1 DEF TextOf
<1>3. \A n \in Names, old \in BOOLEAN : BoolOf(n, old) \in BOOLEAN
  <2> SUFFICES ASSUME NEW n \in Names, NEW old \in BOOLEAN
               PROVE  BoolOf(n, old) \in BOOLEAN
    OBVIOUS
  <2>1. CASE Has(n)
    <3>1. BoolOf(n, old) = IsTrue(data[n])
      BY <2>1, Zenon DEF BoolOf
    <3>2. IsTrue(data[n]) \in BOOLEAN
      BY DEF IsTrue
    <3> QED
      BY <3>1, <3>2, Zenon
  <2>2. CASE ~Has(n)
    BY <2>2, Zenon DEF BoolOf
  <2> QED
    BY <2>1, <2>2
<1>4. Verbose \in Nat
  <2>1. CASE Has("verbose") /\ data["verbose"] \in DOMAIN Number
    <3>1. Number[data["verbose"]] \in Int
      BY <2>1, OptsAssumption
    <3> QED
      BY <3>1 DEF Verbose, OptRecord
  <2>2. CASE ~Has("verbose")
    BY <2>2 DEF Verbose, OptRecord
  <2> QED
    BY <2>1, <2>2 DEF CfgThrows, StoiThrows
<1>5. LogStep \in U32
  <2>1. CASE Has("logby")
    <3>1. data["logby"] \in DOMAIN Number
      BY <2>1 DEF CfgThrows, StoulThrows
    <3>2. Stoul(data["logby"]) % IntSpan \in U32
      BY <3>1, StoulType
    <3> QED
      BY <3>2 DEF LogStep, OptRecord
  <2>2. CASE ~Has("logby")
    BY <2>2 DEF LogStep, OptRecord
  <2> QED
    BY <2>1, <2>2
<1>6. Has("tune") => Stoul(data["tune"]) \in Nat
  BY StoulType DEF CfgThrows, StoulThrows
<1>7. TextOf("datdir", OPTS.datdir) \in Texts /\ TextOf("locsfile", OPTS.locsfile) \in Texts
      /\ TextOf("kvdir", OPTS.kvdir) \in Texts
  BY <1>2 DEF OptRecord, Names
<1>8. /\ BoolOf("out", OPTS.out) \in BOOLEAN /\ BoolOf("stdin", OPTS.fromcin) \in BOOLEAN
      /\ BoolOf("mt", OPTS.mt) \in BOOLEAN
  BY <1>3 DEF OptRecord, Names
<1>9. /\ (IF Engine \in Engines THEN Engine ELSE OPTS.kvngin) \in Engines
      /\ (IF Has("tune") THEN Stoul(data["tune"]) ELSE OPTS.kvtune) \in Nat
  BY <1>6 DEF OptRecord
<1> HIDE DEF Engine, Verbose, LogStep, TextOf, BoolOf, Has, Stoul
<1> DEFINE dd == TextOf("datdir", OPTS.datdir)  lf == TextOf("locsfile", OPTS.locsfile)
           kd == TextOf("kvdir", OPTS.kvdir)
           e  == IF Engine \in Engines THEN Engine ELSE OPTS.kvngin
           t  == IF Has("tune") THEN Stoul(data["tune"]) ELSE OPTS.kvtune
           o  == BoolOf("out", OPTS.out)  c == BoolOf("stdin", OPTS.fromcin)
           m  == BoolOf("mt", OPTS.mt)
<1>10. Assigned = [OPTS EXCEPT !.datdir = dd, !.locsfile = lf, !.kvdir = kd,
                               !.kvngin = e, !.kvtune = t, !.verbose = Verbose,
                               !.logstep = LogStep, !.out = o, !.fromcin = c, !.mt = m]
  BY Zenon DEF Assigned
<1>11. /\ dd \in Texts /\ lf \in Texts /\ kd \in Texts /\ e \in Engines /\ t \in Nat
       /\ o \in BOOLEAN /\ c \in BOOLEAN /\ m \in BOOLEAN
  BY <1>7, <1>8, <1>9
<1> HIDE DEF dd, lf, kd, e, t, o, c, m, Engine
<1>12. [OPTS EXCEPT !.datdir = dd, !.locsfile = lf, !.kvdir = kd, !.kvngin = e,
                    !.kvtune = t, !.verbose = Verbose, !.logstep = LogStep, !.out = o,
                    !.fromcin = c, !.mt = m] \in OptRecord
  BY <1>4, <1>5, <1>11, ZenonT(60) DEF OptRecord
<1> QED
  BY <1>10, <1>12

-----------------------------------------------------------------------------
\* What an argument is.
LEMMA ArgType == ASSUME args \in Commands, optind \in 1 .. Len(args)
                 PROVE  /\ args[optind].opt \in Letters
                        /\ arg \in Texts \cup {NotGiven}
                        /\ arg = NotGiven =>
                              args[optind].opt \in {"h", "c", "o", "m", "i", "v", "?"}
<1>1. args \in Seq([opt : Letters, arg : Texts \cup {NotGiven}])
  BY OptsAssumption
<1>2. optind \in DOMAIN args
  BY <1>1
<1>3. args[optind] \in [opt : Letters, arg : Texts \cup {NotGiven}]
  BY <1>1, <1>2, ElementType
<1> QED
  BY <1>2, <1>3, OptsAssumption DEF arg

\* An argument is taken and what it changes is of its type.
LEMMA TakeType ==
    ASSUME NEW letter, OptsTypeOK, Take(letter), OPTS' \in OptRecord,
           step' \in {"cli", "refused", "conflict", "undefined"}, direct' \in BOOLEAN
    PROVE  OptsTypeOK'
<1>1. args \in Seq([opt : Letters, arg : Texts \cup {NotGiven}])
  BY OptsAssumption DEF OptsTypeOK
<1>2. optind' \in 1 .. Len(args') + 1
  BY <1>1 DEF Take, OptsTypeOK
<1> QED
  BY <1>2 DEF Take, OptsTypeOK, cfgvars

LEMMA CliType == OptsTypeOK /\ Cli => OptsTypeOK'
<1> SUFFICES ASSUME OptsTypeOK, Cli PROVE OptsTypeOK'
  OBVIOUS
<1> USE DEF Letters
<1>1. OPTS \in OptRecord /\ MaxBlocks \in Nat \ {0} /\ MaxBlocks < IntSpan - 1
      /\ MaxLogStep \in Nat /\ MaxLogStep < IntSpan /\ IntSpan \in Nat
  BY OptsAssumption DEF OptsTypeOK
<1>2. optind \in Nat /\ Len(args) \in Nat /\ args \in Commands
  <2>1. args \in Seq([opt : Letters, arg : Texts \cup {NotGiven}])
    BY OptsAssumption DEF OptsTypeOK
  <2> QED
    BY <2>1 DEF OptsTypeOK
<1>3. optind \in 1 .. Len(args) /\ args[optind].opt \notin {"h", "c", "o", "m", "i", "v", "?"}
        => arg \in Texts
  BY <1>2, ArgType
<1>4. ASSUME NEW letter, Take(letter), letter \notin {"h", "c", "o", "m", "i", "v", "?"}
      PROVE  arg \in Texts
  BY <1>2, <1>3, <1>4 DEF Take, OptsTypeOK
<1>5. CASE OptFrom
  <2>1. Atoi(arg) \in 0 .. MaxBlocks => [OPTS EXCEPT !.from = Atoi(arg)] \in OptRecord
    BY <1>1 DEF OptRecord
  <2>9. /\ Take("f") /\ OPTS' \in OptRecord /\ direct' \in BOOLEAN
        /\ step' \in {"cli", "refused", "conflict"}
    BY <1>5, <2>1, <1>1 DEF OptFrom, Set, Take, OptsTypeOK
  <2> QED
    BY <2>9, TakeType
<1>6. CASE OptNum
  <2>1. Atoi(arg) \in 0 .. MaxBlocks =>
          [OPTS EXCEPT !.num = IF Atoi(arg) = 0 THEN MaxBlocks ELSE Atoi(arg)] \in OptRecord
    BY <1>1 DEF OptRecord
  <2>9. /\ Take("n") /\ OPTS' \in OptRecord /\ direct' \in BOOLEAN
        /\ step' \in {"cli", "refused", "conflict"}
    BY <1>6, <2>1, <1>1 DEF OptNum, Set, Take, OptsTypeOK
  <2> QED
    BY <2>9, TakeType
<1>7. CASE OptStep
  <2>1. Atoi(arg) \in 1 .. MaxLogStep => [OPTS EXCEPT !.logstep = Atoi(arg)] \in OptRecord
    BY <1>1 DEF OptRecord, U32
  <2>9. /\ Take("s") /\ OPTS' \in OptRecord /\ direct' \in BOOLEAN
        /\ step' \in {"cli", "refused", "conflict"}
    BY <1>7, <2>1, <1>1 DEF OptStep, Set, Take, OptsTypeOK
  <2> QED
    BY <2>9, TakeType
<1>8. CASE OptTune
  <2>1. Atol(arg) \in Int
    BY OptsAssumption DEF Atol
  <2>2. Atol(arg) >= 0 => [OPTS EXCEPT !.kvtune = Atol(arg)] \in OptRecord
    BY <1>1, <2>1 DEF OptRecord
  <2>9. /\ Take("t") /\ OPTS' \in OptRecord /\ direct' \in BOOLEAN
        /\ step' \in {"cli", "refused", "conflict"}
    BY <1>8, <2>2, <1>1 DEF OptTune, Set, Take, OptsTypeOK
  <2> QED
    BY <2>9, TakeType
<1>9. CASE OptEngine
  <2>1. arg \in Engines => [OPTS EXCEPT !.kvngin = arg] \in OptRecord
    BY <1>1 DEF OptRecord
  <2>9. /\ Take("e") /\ OPTS' \in OptRecord /\ direct' \in BOOLEAN
        /\ step' \in {"cli", "refused", "conflict"}
    BY <1>9, <2>1, <1>1 DEF OptEngine, Set, Take, OptsTypeOK
  <2> QED
    BY <2>9, TakeType
<1>10. CASE OptKvdir
  <2>1. arg \in Texts
    BY <1>4, <1>10 DEF OptKvdir, Set
  <2>2. [OPTS EXCEPT !.kvdir = arg] \in OptRecord
    BY <1>1, <2>1 DEF OptRecord
  <2>9. /\ Take("k") /\ OPTS' \in OptRecord /\ direct' \in BOOLEAN
        /\ step' \in {"cli", "refused", "conflict"}
    BY <1>10, <2>2, <1>1 DEF OptKvdir, Set, Take, OptsTypeOK
  <2> QED
    BY <2>9, TakeType
<1>11. CASE OptOut \/ OptMt \/ OptInfo
  <2>1. /\ [OPTS EXCEPT !.out = TRUE] \in OptRecord
        /\ [OPTS EXCEPT !.mt = TRUE] \in OptRecord
        /\ [OPTS EXCEPT !.info = TRUE] \in OptRecord
    BY <1>1 DEF OptRecord
  <2> QED
    BY <1>1, <1>11, <2>1, TakeType DEF OptOut, OptMt, OptInfo, Set, Take, OptsTypeOK
<1>12. CASE OptHelp \/ OptBad
  BY <1>1, <1>12, TakeType DEF OptHelp, OptBad, Set, Take, OptsTypeOK
<1>13. CASE OptVerbose
  <2>1. Atoi(arg) \in 0 .. DBG_MAX => [OPTS EXCEPT !.verbose = Atoi(arg)] \in OptRecord
    BY <1>1 DEF OptRecord, DBG_MAX
  <2>9. /\ Take("v") /\ OPTS' \in OptRecord /\ direct' \in BOOLEAN
        /\ step' \in {"cli", "refused", "conflict"}
    BY <1>13, <2>1, <1>1 DEF OptVerbose, Set, Take, OptsTypeOK
  <2> QED
    BY <2>9, TakeType
<1>14. CASE OptVerboseUndefined
  BY <1>1, <1>14, TakeType DEF OptVerboseUndefined, OptsTypeOK
<1>15. CASE OptDatdir
  <2>1. arg \in Texts
    BY <1>4, <1>15 DEF OptDatdir, OptDirect
  <2>2. [OPTS EXCEPT !.datdir = arg] \in OptRecord
    BY <1>1, <2>1 DEF OptRecord
  <2>9. /\ Take("d") /\ OPTS' \in OptRecord /\ direct' \in BOOLEAN
        /\ step' \in {"cli", "refused", "conflict"}
    BY <1>15, <2>2, <1>1 DEF OptDatdir, OptDirect, Take, OptsTypeOK
  <2> QED
    BY <2>9, TakeType
<1>16. CASE OptLocs
  <2>1. arg \in Texts
    BY <1>4, <1>16 DEF OptLocs, OptDirect
  <2>2. [OPTS EXCEPT !.locsfile = arg] \in OptRecord
    BY <1>1, <2>1 DEF OptRecord
  <2>9. /\ Take("l") /\ OPTS' \in OptRecord /\ direct' \in BOOLEAN
        /\ step' \in {"cli", "refused", "conflict"}
    BY <1>16, <2>2, <1>1 DEF OptLocs, OptDirect, Take, OptsTypeOK
  <2> QED
    BY <2>9, TakeType
<1>17. CASE OptStdin
  <2>1. [OPTS EXCEPT !.fromcin = TRUE] \in OptRecord
    BY <1>1 DEF OptRecord
  <2> QED
    BY <1>1, <1>17, <2>1, TakeType DEF OptStdin, Take, OptsTypeOK
<1> QED
  BY <1>5, <1>6, <1>7, <1>8, <1>9, <1>10, <1>11, <1>12, <1>13, <1>14, <1>15,
     <1>16, <1>17 DEF Cli

LEMMA ReadLineType == OptsTypeOK /\ ReadLine => OptsTypeOK'
<1> SUFFICES ASSUME OptsTypeOK, ReadLine PROVE OptsTypeOK'
  OBVIOUS
<1>1. config \in Seq([name : STRING, value : Texts])
  BY OptsAssumption DEF OptsTypeOK
<1>2. line \in DOMAIN config
  BY <1>1 DEF ReadLine, OptsTypeOK
<1>3. config[line].value \in Texts
  <2>1. config[line] \in [name : STRING, value : Texts]
    BY <1>1, <1>2, ElementType
  <2> QED
    BY <2>1
<1>4. data' \in [Names -> Texts \cup {NotGiven}]
  BY <1>3 DEF ReadLine, OptsTypeOK
<1>5. line' \in 1 .. Len(config') + 1
  BY <1>1 DEF ReadLine, OptsTypeOK
<1> QED
  BY <1>4, <1>5 DEF ReadLine, OptsTypeOK

LEMMA OptsInitType == OptsInit => OptsTypeOK
<1> SUFFICES ASSUME OptsInit PROVE OptsTypeOK
  OBVIOUS
<1>1. /\ config \in Seq([name : STRING, value : Texts])
      /\ args \in Seq([opt : Letters, arg : Texts \cup {NotGiven}])
  BY OptsAssumption DEF OptsInit
<1>2. Defaults \in OptRecord
  BY OptsAssumption DEF Defaults, OptRecord, U32
<1>3. line \in 1 .. Len(config) + 1 /\ optind \in 1 .. Len(args) + 1
  BY <1>1 DEF OptsInit
<1>4. data \in [Names -> Texts \cup {NotGiven}]
  BY DEF OptsInit
<1> QED
  BY <1>2, <1>3, <1>4 DEF OptsInit, OptsTypeOK

LEMMA OptsStepType == OptsTypeOK /\ [OptsNext]_ovars => OptsTypeOK'
<1> SUFFICES ASSUME OptsTypeOK, [OptsNext]_ovars PROVE OptsTypeOK'
  OBVIOUS
<1>1. CASE LoadCfg
  BY <1>1, AssignedType DEF LoadCfg, OptsTypeOK, cfgvars
<1>2. CASE CfgAborts
  BY <1>2 DEF CfgAborts, OptsTypeOK, cfgvars
<1>3. CASE PostCheck
  BY <1>3 DEF PostCheck, OptsTypeOK, cfgvars
<1>4. CASE UNCHANGED ovars
  BY <1>4 DEF ovars, OptsTypeOK
<1> QED
  BY <1>1, <1>2, <1>3, <1>4, ReadLineType, CliType DEF OptsNext

\* The options that main() and the loader are given are of their types: in
\* particular the height is in the table's range or was not given, and at least
\* one block is to be processed, whatever the config file and the command line
\* say and however wide their numbers are.
THEOREM OptsTypeCorrect == OptsSpec => []OptsTypeOK
  BY OptsInitType, OptsStepType, PTL DEF OptsSpec

-----------------------------------------------------------------------------
\* What makes OneSource inductive: the flag direct remembers -d and -l, stdin is
\* the source only if nothing was remembered, and before the command line is
\* looked at nothing is set.
SourceInv ==
    /\ OptsTypeOK
    /\ step = "cfg" => optind = 1 /\ ~direct /\ OPTS.fromcin = FALSE
    /\ step \in {"cli", "ready"} =>
          /\ OPTS.fromcin <=> Named("c") \/ IsTrue(data["stdin"])
          /\ direct <=> Named("d") \/ Named("l")
          /\ ~(OPTS.fromcin /\ direct)
    /\ step = "conflict" =>
          /\ Named("d") \/ Named("l")
          /\ Named("c") \/ IsTrue(data["stdin"])

LEMMA SourceEnough == SourceInv => OneSource
  BY DEF SourceInv, OneSource

\* What the command line has named grows by the option that is taken.
LEMMA NamedGrows ==
    ASSUME OptsTypeOK, NEW letter, Take(letter), NEW other
    PROVE  Named(other)' <=> Named(other) \/ other = letter
<1>1. optind \in Nat /\ optind >= 1 /\ optind' = optind + 1 /\ args' = args
      /\ args[optind].opt = letter
  <2>1. args \in Seq([opt : Letters, arg : Texts \cup {NotGiven}])
    BY OptsAssumption DEF OptsTypeOK
  <2> QED
    BY <2>1 DEF Take, OptsTypeOK
<1>2. 1 .. optind' - 1 = 1 .. optind - 1 \cup {optind}
  BY <1>1
<1> QED
  BY <1>1, <1>2 DEF Named, ArgsOf

\* An option that is not a source of blocks.
LEMMA OtherSource ==
    ASSUME SourceInv, OptsTypeOK', NEW letter, Take(letter), letter \notin {"c", "d", "l"},
           direct' = direct, OPTS'.fromcin = OPTS.fromcin, step' \in {"cli", "refused", "undefined"}
    PROVE  SourceInv'
<1>1. step = "cli" /\ data' = data
  BY DEF Take, cfgvars
<1>2. \A other \in {"c", "d", "l"} : Named(other)' <=> Named(other)
  BY NamedGrows DEF SourceInv
<1> QED
  BY <1>1, <1>2 DEF SourceInv

LEMMA CliSource == SourceInv /\ Cli => SourceInv'
<1> SUFFICES ASSUME SourceInv, Cli PROVE SourceInv'
  OBVIOUS
<1>1. OptsTypeOK /\ OptsTypeOK' /\ OPTS \in OptRecord
  BY CliType DEF SourceInv, OptsTypeOK
<1>2. CASE OptFrom \/ OptNum \/ OptStep \/ OptTune \/ OptEngine \/ OptKvdir
           \/ OptOut \/ OptMt \/ OptInfo \/ OptHelp \/ OptBad \/ OptVerbose
           \/ OptVerboseUndefined
  <2>1. /\ direct' = direct /\ step' \in {"cli", "refused", "undefined"}
        /\ \E letter \in Letters \ {"c", "d", "l"} : Take(letter)
    BY <1>2 DEF OptFrom, OptNum, OptStep, OptTune, OptEngine, OptKvdir, OptOut,
       OptMt, OptInfo, OptHelp, OptBad, OptVerbose, OptVerboseUndefined, Set, Take, Letters
  <2>2. OPTS'.fromcin = OPTS.fromcin
    BY <1>1, <1>2 DEF OptFrom, OptNum, OptStep, OptTune, OptEngine, OptKvdir, OptOut,
       OptMt, OptInfo, OptHelp, OptBad, OptVerbose, OptVerboseUndefined, Set, OptRecord
  <2> QED
    BY <1>1, <2>1, <2>2, OtherSource
<1>3. ASSUME NEW letter \in {"d", "l"}, NEW field \in {"datdir", "locsfile"},
             OptDirect(letter, [OPTS EXCEPT ![field] = arg])
      PROVE  SourceInv'
  <2>1. Take(letter) /\ step = "cli" /\ data' = data
    BY <1>3 DEF OptDirect, Take, cfgvars
  <2>2. /\ Named("c")' <=> Named("c")
        /\ Named("d")' \/ Named("l")'
        /\ \A other \in {"d", "l"} : other # letter => (Named(other)' <=> Named(other))
    BY <1>1, <2>1, NamedGrows
  <2>3. CASE OPTS.fromcin
    BY <1>1, <1>3, <2>1, <2>2, <2>3 DEF OptDirect, SourceInv
  <2>4. CASE ~OPTS.fromcin
    <3>1. OPTS' = [OPTS EXCEPT ![field] = arg] /\ direct' = TRUE /\ step' = "cli"
      BY <1>3, <2>1, <2>4 DEF OptDirect
    <3>2. OPTS'.fromcin = OPTS.fromcin
      BY <1>1, <3>1 DEF OptRecord
    <3> QED
      BY <1>1, <2>1, <2>2, <2>4, <3>1, <3>2 DEF SourceInv
  <2> QED
    BY <2>3, <2>4
<1>4. CASE OptDatdir
  BY <1>3, <1>4 DEF OptDatdir
<1>5. CASE OptLocs
  BY <1>3, <1>5 DEF OptLocs
<1>6. CASE OptStdin
  <2>1. Take("c") /\ step = "cli" /\ data' = data /\ direct' = direct
    BY <1>6 DEF OptStdin, Take, cfgvars
  <2>2. /\ Named("c")'
        /\ Named("d")' <=> Named("d")
        /\ Named("l")' <=> Named("l")
    BY <1>1, <2>1, NamedGrows
  <2>3. CASE direct
    BY <1>1, <1>6, <2>1, <2>2, <2>3 DEF OptStdin, SourceInv
  <2>4. CASE ~direct
    <3>1. OPTS' = [OPTS EXCEPT !.fromcin = TRUE] /\ step' = "cli"
      BY <1>6, <2>1, <2>4 DEF OptStdin
    <3>2. OPTS'.fromcin
      BY <1>1, <3>1 DEF OptRecord
    <3> QED
      BY <1>1, <2>1, <2>2, <2>4, <3>1, <3>2 DEF SourceInv
  <2> QED
    BY <2>3, <2>4
<1> QED
  BY <1>2, <1>4, <1>5, <1>6 DEF Cli

\* Blocks come from one source, the one that was named, whatever else the config
\* file and the command line say and in whatever order.
THEOREM OneSourceCorrect == OptsSpec => []OneSource
<1>1. OptsInit => SourceInv
  <2> SUFFICES ASSUME OptsInit PROVE SourceInv
    OBVIOUS
  <2>1. OptsTypeOK
    BY OptsInitType
  <2> QED
    BY <2>1 DEF OptsInit, SourceInv, Defaults
<1>2. SourceInv /\ [OptsNext]_ovars => SourceInv'
  <2> SUFFICES ASSUME SourceInv, [OptsNext]_ovars PROVE SourceInv'
    OBVIOUS
  <2>1. OptsTypeOK /\ OptsTypeOK'
    BY OptsStepType DEF SourceInv
  <2>2. CASE ReadLine
    BY <2>1, <2>2 DEF ReadLine, SourceInv
  <2>3. CASE LoadCfg
    <3>1. step = "cfg" /\ data' = data /\ direct' = FALSE /\ optind' = 1 /\ OPTS' = Assigned
      BY <2>1, <2>3 DEF LoadCfg, CfgEnd, SourceInv, cfgvars, OptsTypeOK
    <3>2. Assigned.fromcin <=> IsTrue(data["stdin"])
      <4>1. Assigned.fromcin = BoolOf("stdin", OPTS.fromcin)
        BY <2>1 DEF Assigned, OptsTypeOK, OptRecord
      <4>2. OPTS.fromcin = FALSE
        BY <3>1 DEF SourceInv
      <4>3. ~IsTrue(NotGiven)
        BY OptsAssumption DEF IsTrue
      <4> QED
        BY <4>1, <4>2, <4>3 DEF BoolOf, Has
    <3>3. \A letter : ~Named(letter)'
      BY <3>1 DEF Named, ArgsOf
    <3>4. step' \in {"cli", "refused"}
      BY <2>3 DEF LoadCfg
    <3> QED
      BY <2>1, <3>1, <3>2, <3>3, <3>4 DEF SourceInv
  <2>4. CASE CfgAborts
    BY <2>1, <2>4 DEF CfgAborts, SourceInv
  <2>5. CASE PostCheck
    <3>1. step = "cli" /\ step' \in {"ready", "refused"} /\ UNCHANGED <<data, args, optind, direct, OPTS>>
      BY <2>5 DEF PostCheck, cfgvars
    <3>2. \A letter : Named(letter)' <=> Named(letter)
      BY <3>1 DEF Named, ArgsOf
    <3> QED
      BY <2>1, <3>1, <3>2 DEF SourceInv
  <2>6. CASE UNCHANGED ovars
    BY <2>1, <2>6 DEF ovars, SourceInv, Named, ArgsOf
  <2> QED
    BY <2>2, <2>3, <2>4, <2>5, <2>6, CliSource DEF OptsNext
<1> QED
  BY <1>1, <1>2, SourceEnough, PTL DEF OptsSpec

-----------------------------------------------------------------------------
\* What is said last.

\* Numbers up to n, with n: n is the latest.
LEMMA LatestIs ==
    ASSUME NEW n \in Nat, NEW S, S \subseteq 1 .. n, n \in S
    PROVE  Latest(S) = n
<1>1. \A y \in S : y <= n
  OBVIOUS
<1>2. \A x \in S : (\A y \in S : y <= x) => x = n
  BY <1>1
<1> QED
  BY <1>1, <1>2 DEF Latest

\* An option that is taken is said last of its kind, and nothing else is.
LEMMA TakenLast ==
    ASSUME OptsTypeOK, NEW letter, Take(letter)
    PROVE  /\ Named(letter)' /\ LastArg(letter)' = arg
           /\ \A other : other # letter =>
                 Named(other)' = Named(other) /\ LastArg(other)' = LastArg(other)
           /\ \A name : LastValue(name)' = LastValue(name)
<1>1. optind \in Nat /\ optind >= 1 /\ optind' = optind + 1 /\ args' = args
      /\ args[optind].opt = letter /\ config' = config /\ line' = line
  <2>1. args \in Seq([opt : Letters, arg : Texts \cup {NotGiven}])
    BY OptsAssumption DEF OptsTypeOK
  <2> QED
    BY <2>1 DEF Take, OptsTypeOK, cfgvars
<1>2. 1 .. optind' - 1 = 1 .. optind - 1 \cup {optind}
  BY <1>1
<1>3. ArgsOf(letter)' \subseteq 1 .. optind /\ optind \in ArgsOf(letter)'
  BY <1>1, <1>2 DEF ArgsOf
<1>4. LastArg(letter)' = arg
  <2>1. Latest(ArgsOf(letter)') = optind
    BY <1>1, <1>3, LatestIs
  <2>2. LastArg(letter)' = args'[Latest(ArgsOf(letter)')].arg
    BY DEF LastArg, Latest
  <2> QED
    BY <1>1, <2>1, <2>2 DEF arg
<1>5. ASSUME NEW other, other # letter
      PROVE  Named(other)' = Named(other) /\ LastArg(other)' = LastArg(other)
  <2>1. ArgsOf(other)' = ArgsOf(other)
    BY <1>1, <1>2, <1>5 DEF ArgsOf
  <2> QED
    BY <1>1, <2>1 DEF Named, LastArg, Latest
<1>6. ASSUME NEW name PROVE LastValue(name)' = LastValue(name)
  <2>1. LinesOf(name)' = LinesOf(name)
    BY <1>1 DEF LinesOf
  <2> QED
    BY <1>1, <2>1 DEF LastValue, Latest
<1> QED
  BY <1>3, <1>4, <1>5, <1>6 DEF Named

-----------------------------------------------------------------------------
\* Numbers that are cut to a width keep their low bits.
LEMMA Division ==
    ASSUME NEW n \in Int, NEW s \in Nat \ {0}
    PROVE  \E q \in Int : n = q * s + (n % s) /\ n % s \in 0 .. s - 1
<1>1. n = s * (n \div s) + (n % s)
  BY Z3
<1>2. n \div s \in Int /\ n % s \in 0 .. s - 1
  BY Z3
<1> DEFINE q == n \div s
<1> HIDE DEF q
<1>3. q \in Int /\ n = q * s + (n % s)
  BY <1>1, <1>2, Z3 DEF q
<1> QED
  BY <1>2, <1>3

LEMMA Multiple ==
    ASSUME NEW s \in Nat \ {0}, NEW q \in Int
    PROVE  (q * s) % s = 0
<1> DEFINE r == (q * s) % s
<1>1. PICK p \in Int : q * s = p * s + r /\ r \in 0 .. s - 1
  <2>1. q * s \in Int
    OBVIOUS
  <2> QED
    BY <2>1, Division
<1> HIDE DEF r
<1> DEFINE d == q - p
<1>2. d \in Int /\ d * s = r
  <2>1. (q - p) * s = q * s - p * s
    BY Z3
  <2> QED
    BY <1>1, <2>1, Z3
<1> HIDE DEF d
<1>3. CASE d >= 1
  <2>1. d * s >= s
    BY <1>2, <1>3, Z3
  <2> QED
    BY <1>1, <1>2, <2>1
<1>4. CASE d <= -1
  <2>1. d * s <= -s
    BY <1>2, <1>4, Z3
  <2> QED
    BY <1>1, <1>2, <2>1
<1>5. CASE d = 0
  BY <1>2, <1>5 DEF r
<1> QED
  BY <1>2, <1>3, <1>4, <1>5

LEMMA LowByMultiple ==
    ASSUME NEW a \in Int, NEW b \in Int, NEW q \in Int, a - b = q * IntSpan
    PROVE  SameLow(a, b)
<1>1. IntSpan \in Nat \ {0}
  BY OptsAssumption
<1>2. (q * IntSpan) % IntSpan = 0
  BY <1>1, Multiple
<1> QED
  BY <1>2 DEF SameLow

LEMMA CutKeepsLow ==
    ASSUME NEW n \in Int
    PROVE  /\ SameLow(n, n) /\ SameLow(Low(n), n)
           /\ SameLow(n % (IntSpan * IntSpan), n)
           /\ SameLow((n % (IntSpan * IntSpan)) % IntSpan, n)
<1> DEFINE s == IntSpan
           h == s \div 2
           m == n % (s * s)
<1>0. s \in Nat \ {0} /\ h \in Int
  BY OptsAssumption
<1> HIDE DEF s, h
<1>1. s * s \in Nat \ {0}
  BY <1>0, Z3
<1>2. SameLow(n, n)
  <2>1. n - n = 0 * IntSpan
    BY OptsAssumption
  <2> QED
    BY <2>1, LowByMultiple
<1>3. SameLow(Low(n), n)
  <2> DEFINE x == n + h
  <2>0. x \in Int
    BY <1>0
  <2> HIDE DEF x
  <2>1. PICK q \in Int : x = q * s + (x % s) /\ x % s \in 0 .. s - 1
    BY <1>0, <2>0, Division
  <2>2. Low(n) = (x % s) - h
    BY DEF Low, s, h, x
  <2>3. Low(n) \in Int /\ -q \in Int /\ Low(n) - n = (-q) * s
    <3>1. (-q) * s = -(q * s) /\ q * s \in Int
      BY <1>0, Z3
    <3>2. x = n + h /\ x % s \in Int
      BY <1>0, <2>1 DEF x
    <3> QED
      BY <1>0, <2>1, <2>2, <3>1, <3>2, Z3
  <2> QED
    BY <2>3, LowByMultiple DEF s
<1>4. PICK p \in Int : n = p * (s * s) + m /\ m \in 0 .. s * s - 1
  <2> DEFINE w == s * s
  <2> HIDE DEF w
  <2>1. \E p \in Int : n = p * w + (n % w) /\ n % w \in 0 .. w - 1
    BY <1>1, Division DEF w
  <2> QED
    BY <2>1 DEF w
<1>40. m \in Int
  BY <1>1, <1>4
<1> HIDE DEF m
<1>5. m - n = (-(p * s)) * s /\ p * s \in Int
  <2>1. (-(p * s)) * s = -(p * (s * s)) /\ p * s \in Int /\ p * (s * s) \in Int
    BY <1>0, Z3
  <2> QED
    BY <1>4, <1>40, <2>1
<1>6. SameLow(m, n)
  <2>1. -(p * s) \in Int
    BY <1>5
  <2> QED
    BY <1>40, <1>5, <2>1, LowByMultiple DEF s
<1>7. SameLow(m % s, n)
  <2>1. PICK q \in Int : m = q * s + (m % s) /\ m % s \in 0 .. s - 1
    BY <1>0, <1>40, Division
  <2>2. (m % s) - n = (-(p * s) - q) * s
    <3>1. (-(p * s) - q) * s = (-(p * s)) * s - q * s /\ q * s \in Int
      BY <1>0, <1>5, Z3
    <3> QED
      BY <1>0, <1>40, <1>5, <2>1, <3>1, Z3
  <2>3. m % s \in Int /\ -(p * s) - q \in Int
    BY <1>0, <1>5, <2>1
  <2> QED
    BY <2>2, <2>3, LowByMultiple DEF s
<1> QED
  BY <1>2, <1>3, <1>6, <1>7 DEF m, s

-----------------------------------------------------------------------------
\* What makes LastSaidCounts inductive: the map of ReadFile() has what the lines
\* that were read say last, and before load_cfg() ends nothing is set.
SaidInv ==
    /\ OptsTypeOK
    /\ step = "cfg" => optind = 1 /\ OPTS = Defaults
    /\ \A name \in Names : data[name] = LastValue(name)
    /\ LastSaidCounts

LEMMA ReadLineSays == SaidInv /\ ReadLine => SaidInv'
<1> SUFFICES ASSUME SaidInv, ReadLine PROVE SaidInv'
  OBVIOUS
<1>1. /\ OptsTypeOK /\ OptsTypeOK' /\ config' = config /\ line' = line + 1
      /\ step = "cfg" /\ step' = "cfg" /\ optind' = optind /\ OPTS' = OPTS
  BY ReadLineType DEF SaidInv, ReadLine
<1>2. line \in Nat \ {0} /\ data \in [Names -> Texts \cup {NotGiven}]
  <2>1. config \in Seq([name : STRING, value : Texts])
    BY <1>1, OptsAssumption DEF OptsTypeOK
  <2> QED
    BY <1>1, <2>1 DEF OptsTypeOK
<1>3. 1 .. line' - 1 = 1 .. line - 1 \cup {line}
  BY <1>1, <1>2
<1>4. ASSUME NEW name \in Names PROVE data'[name] = LastValue(name)'
  <2>1. CASE config[line].name = name
    <3>1. LinesOf(name)' \subseteq 1 .. line /\ line \in LinesOf(name)'
      BY <1>1, <1>2, <1>3, <2>1 DEF LinesOf
    <3>2. Latest(LinesOf(name)') = line
      BY <1>2, <3>1, LatestIs
    <3>3. LastValue(name)' = IF LinesOf(name)' = {} THEN NotGiven
                               ELSE config'[Latest(LinesOf(name)')].value
      BY DEF LastValue, Latest
    <3>4. LastValue(name)' = config[line].value
      BY <1>1, <3>1, <3>2, <3>3
    <3>5. data' = [data EXCEPT ![name] = config[line].value]
      BY <2>1 DEF ReadLine
    <3> QED
      BY <1>2, <3>4, <3>5
  <2>2. CASE config[line].name # name
    <3>1. LinesOf(name)' = LinesOf(name)
      BY <1>1, <1>3, <2>2 DEF LinesOf
    <3>2. LastValue(name)' = LastValue(name)
      BY <1>1, <3>1 DEF LastValue, Latest
    <3>3. data'[name] = data[name]
      BY <1>2, <2>2 DEF ReadLine
    <3> QED
      BY <3>2, <3>3 DEF SaidInv
  <2> QED
    BY <2>1, <2>2
<1> QED
  BY <1>1, <1>4 DEF SaidInv, LastSaidCounts

\* What the config file leaves is what its lines say last.
LEMMA AssignedSays ==
    ASSUME SaidInv, CfgEnd, ~CfgThrows, NEW letter \in DOMAIN Fields
    PROVE  Said(letter, Assigned[Fields[letter]])
<1>1. /\ OptsTypeOK /\ OPTS = Defaults /\ optind = 1
      /\ \A name \in Names : data[name] = LastValue(name)
  BY DEF SaidInv, CfgEnd
<1>2. \A l : ~Named(l)
  BY <1>1 DEF Named, ArgsOf
<1>3. \A name \in Names : data[name] \in Texts \cup {NotGiven}
  BY <1>1 DEF OptsTypeOK
<1>4. /\ Assigned.datdir = TextOf("datdir", Empty) /\ Assigned.locsfile = TextOf("locsfile", Empty)
      /\ Assigned.kvdir = TextOf("kvdir", Empty)
      /\ Assigned.kvngin = IF Engine \in Engines THEN Engine ELSE "none"
      /\ Assigned.kvtune = IF Has("tune") THEN Stoul(data["tune"]) ELSE 0
      /\ Assigned.verbose = Verbose /\ Assigned.logstep = LogStep
      /\ Assigned.out = BoolOf("out", FALSE) /\ Assigned.mt = BoolOf("mt", FALSE)
      /\ Assigned.info = FALSE /\ Assigned.from = Omitted /\ Assigned.num = 1
  BY <1>1 DEF Assigned, Defaults
<1> HIDE DEF SaidInv, CfgEnd
<1>5. CASE letter = "d"
  BY <1>1, <1>2, <1>4, <1>5 DEF Fields, Said, Wanted, TextOf, NotEmpty, Names
<1>6. CASE letter = "l"
  BY <1>1, <1>2, <1>4, <1>6 DEF Fields, Said, Wanted, TextOf, NotEmpty, Names
<1>7. CASE letter = "k"
  BY <1>1, <1>2, <1>4, <1>7 DEF Fields, Said, Wanted, TextOf, NotEmpty, Names
<1>8. CASE letter = "e"
  BY <1>1, <1>2, <1>4, <1>8, OptsAssumption
     DEF Fields, Said, Wanted, TextOf, Engine, Known, Names, Defaults
<1>9. CASE letter = "v"
  <2>1. Assigned[Fields[letter]] = Verbose
    BY <1>4, <1>9 DEF Fields
  <2> DEFINE t == data["verbose"]
  <2>2. t = LastValue("verbose")
    BY <1>1 DEF Names
  <2>3. CASE t # NotGiven
    <3>1. t \in DOMAIN Number /\ Number[t] \in Int /\ Atol(t) = Number[t]
      BY <2>3, OptsAssumption DEF CfgThrows, Has, StoiThrows, Atol
    <3>2. CASE Number[t] >= 0
      <4>1. Verbose = Number[t]
        BY <2>3, <3>2 DEF Verbose, Has
      <4>2. WantedNumber("v", "verbose", NotBelow0, 0) = Number[t]
        BY <1>2, <2>2, <2>3, <3>1, <3>2 DEF WantedNumber, Wanted, NotBelow0
      <4> QED
        BY <1>9, <2>1, <3>1, <4>1, <4>2, CutKeepsLow DEF Said
    <3>3. CASE ~ (Number[t] >= 0)
      <4>1. Verbose = 0
        BY <1>1, <3>3 DEF Verbose, Defaults
      <4>2. WantedNumber("v", "verbose", NotBelow0, 0) = 0
        BY <1>2, <2>2, <3>3 DEF WantedNumber, NotBelow0
      <4> QED
        BY <1>9, <2>1, <4>1, <4>2, CutKeepsLow DEF Said
    <3> QED
      BY <3>2, <3>3
  <2>4. CASE t = NotGiven
    <3>1. Verbose = 0
      BY <1>1, <2>4 DEF Verbose, Has, Defaults
    <3>2. WantedNumber("v", "verbose", NotBelow0, 0) = 0
      BY <1>2, <2>2, <2>4 DEF WantedNumber
    <3> QED
      BY <1>9, <2>1, <3>1, <3>2, CutKeepsLow DEF Said
  <2> QED
    BY <2>3, <2>4
<1>10. CASE letter = "t"
  <2>1. Assigned[Fields[letter]] = IF Has("tune") THEN Stoul(data["tune"]) ELSE 0
    BY <1>4, <1>10 DEF Fields
  <2> DEFINE t == data["tune"]
  <2>2. t = LastValue("tune")
    BY <1>1 DEF Names
  <2>3. CASE t # NotGiven
    <3>1. t \in DOMAIN Number /\ Number[t] \in Int /\ Atol(t) = Number[t]
      BY <2>3, OptsAssumption DEF CfgThrows, Has, StoulThrows, Atol
    <3>2. WantedNumber("t", "tune", Given, 0) = Number[t]
      BY <1>2, <2>2, <2>3, <3>1 DEF WantedNumber, Wanted, Given
    <3>3. SameLow(Stoul(t), Number[t])
      BY <3>1, CutKeepsLow DEF Stoul
    <3> QED
      BY <1>10, <2>1, <2>3, <3>2, <3>3 DEF Said, Has
  <2>4. CASE t = NotGiven
    <3>1. WantedNumber("t", "tune", Given, 0) = 0
      BY <1>2, <2>2, <2>4 DEF WantedNumber
    <3> QED
      BY <1>10, <2>1, <2>4, <3>1, CutKeepsLow DEF Said, Has
  <2> QED
    BY <2>3, <2>4
<1>11. CASE letter = "s"
  <2>1. Assigned[Fields[letter]] = LogStep
    BY <1>4, <1>11 DEF Fields
  <2> DEFINE t == data["logby"]
  <2>2. t = LastValue("logby")
    BY <1>1 DEF Names
  <2>3. CASE t # NotGiven
    <3>1. t \in DOMAIN Number /\ Number[t] \in Int /\ Atol(t) = Number[t]
      BY <2>3, OptsAssumption DEF CfgThrows, Has, StoulThrows, Atol
    <3>2. CASE Stoul(t) > 0
      <4>1. LogStep = Stoul(t) % IntSpan
        BY <2>3, <3>2 DEF LogStep, Has
      <4>2. WantedNumber("s", "logby", Positive, 1) = Number[t]
        BY <1>2, <2>2, <2>3, <3>1, <3>2 DEF WantedNumber, Wanted, Positive, Stoul
      <4>3. SameLow(Stoul(t) % IntSpan, Number[t])
        BY <3>1, CutKeepsLow DEF Stoul
      <4> QED
        BY <1>11, <2>1, <4>1, <4>2, <4>3 DEF Said
    <3>3. CASE ~ (Stoul(t) > 0)
      <4>1. LogStep = 1
        BY <1>1, <3>3 DEF LogStep, Defaults
      <4>2. Stoul(t) = 0
        <5>1. IntSpan * IntSpan \in Nat \ {0}
          <6>1. IntSpan \in Nat \ {0}
            BY OptsAssumption
          <6> QED
            BY <6>1, Z3
        <5>2. Stoul(t) \in Nat
          BY <3>1, <5>1, Z3 DEF Stoul
        <5> QED
          BY <3>3, <5>2
      <4>3. WantedNumber("s", "logby", Positive, 1) = 1
        BY <1>2, <2>2, <4>2 DEF WantedNumber, Positive, Stoul
      <4> QED
        BY <1>11, <2>1, <4>1, <4>3, CutKeepsLow DEF Said
    <3> QED
      BY <3>2, <3>3
  <2>4. CASE t = NotGiven
    <3>1. LogStep = 1
      BY <1>1, <2>4 DEF LogStep, Has, Defaults
    <3>2. WantedNumber("s", "logby", Positive, 1) = 1
      BY <1>2, <2>2, <2>4 DEF WantedNumber
    <3> QED
      BY <1>11, <2>1, <3>1, <3>2, CutKeepsLow DEF Said
  <2> QED
    BY <2>3, <2>4
<1>12. ASSUME NEW l, NEW name \in Names
       PROVE  BoolOf(name, FALSE) = Switched(l, name)
  <2>1. ~IsTrue(NotGiven) /\ data[name] = LastValue(name) /\ ~Named(l)
    BY <1>1, <1>2, OptsAssumption DEF IsTrue
  <2>2. CASE IsTrue(data[name])
    BY <2>1, <2>2 DEF BoolOf, Has, Switched, IsTrue
  <2>3. CASE ~IsTrue(data[name])
    <3>1. BoolOf(name, FALSE) = FALSE
      BY <2>3 DEF BoolOf, IsTrue
    <3>2. Switched(l, name) = FALSE
      BY <2>1, <2>3 DEF Switched
    <3> QED
      BY <3>1, <3>2
  <2> QED
    BY <2>2, <2>3
<1>13. CASE letter = "o"
  <2>1. BoolOf("out", FALSE) = Switched("o", "out")
    BY <1>12 DEF Names
  <2> QED
    BY <1>4, <1>13, <2>1 DEF Fields, Said
<1>16. CASE letter = "m"
  <2>1. BoolOf("mt", FALSE) = Switched("m", "mt")
    BY <1>12 DEF Names
  <2> QED
    BY <1>4, <1>16, <2>1 DEF Fields, Said
<1>14. CASE letter = "i"
  <2>1. Named("i") = FALSE
    BY <1>2 DEF Named
  <2> QED
    BY <1>4, <1>14, <2>1 DEF Fields, Said
<1>15. CASE letter = "f"
  BY <1>2, <1>4, <1>15 DEF Fields, Said
<1>17. CASE letter = "n"
  BY <1>2, <1>4, <1>17 DEF Fields, Said
<1> QED
  BY <1>5, <1>6, <1>7, <1>8, <1>9, <1>10, <1>11, <1>13, <1>14, <1>15, <1>16,
     <1>17 DEF Fields

\* What was said of the other options stays as it is.
LEMMA OthersSaid ==
    ASSUME OptsTypeOK, NEW letter, Take(letter), NEW other \in DOMAIN Fields, other # letter,
           OPTS'[Fields[other]] = OPTS[Fields[other]], Said(other, OPTS[Fields[other]])
    PROVE  Said(other, OPTS[Fields[other]])'
<1>1. Named(other)' = Named(other) /\ LastArg(other)' = LastArg(other)
  BY TakenLast
<1>2. \A name : LastValue(name)' = LastValue(name)
  BY TakenLast
<1>3. CASE other = "d"
  BY <1>1, <1>2, <1>3 DEF Said, Fields, Wanted
<1>7. CASE other = "l"
  BY <1>1, <1>2, <1>7 DEF Said, Fields, Wanted
<1>8. CASE other = "k"
  BY <1>1, <1>2, <1>8 DEF Said, Fields, Wanted
<1>9. CASE other = "e"
  BY <1>1, <1>2, <1>9 DEF Said, Fields, Wanted
<1>10. CASE other = "v"
  BY <1>1, <1>2, <1>10 DEF Said, Fields, WantedNumber, Wanted
<1>11. CASE other = "t"
  BY <1>1, <1>2, <1>11 DEF Said, Fields, WantedNumber, Wanted
<1>12. CASE other = "s"
  BY <1>1, <1>2, <1>12 DEF Said, Fields, WantedNumber, Wanted
<1>13. CASE other = "o"
  BY <1>1, <1>2, <1>13 DEF Said, Fields, Switched
<1>14. CASE other = "m"
  BY <1>1, <1>2, <1>14 DEF Said, Fields, Switched
<1>15. CASE other = "i"
  BY <1>1, <1>2, <1>15 DEF Said, Fields
<1>16. CASE other = "f"
  BY <1>1, <1>2, <1>16 DEF Said, Fields
<1>17. CASE other = "n"
  BY <1>1, <1>2, <1>17 DEF Said, Fields
<1> QED
  BY <1>3, <1>7, <1>8, <1>9, <1>10, <1>11, <1>12, <1>13, <1>14, <1>15, <1>16,
     <1>17 DEF Fields

\* An option that is taken changes what it says, and nothing else.
LEMMA TakenSaid ==
    ASSUME SaidInv, OptsTypeOK', NEW letter, Take(letter),
           step' \in {"cli", "refused", "conflict", "undefined"},
           step' = "cli" =>
              /\ \A other \in DOMAIN Fields :
                    other # letter => OPTS'[Fields[other]] = OPTS[Fields[other]]
              /\ letter \in DOMAIN Fields => Said(letter, OPTS[Fields[letter]])'
    PROVE  SaidInv'
<1>1. OptsTypeOK /\ step = "cli" /\ data' = data /\ config' = config /\ line' = line
  BY DEF SaidInv, Take, cfgvars
<1>2. \A name \in Names : data'[name] = LastValue(name)'
  BY <1>1, TakenLast DEF SaidInv
<1>3. ASSUME step' = "cli" PROVE LastSaidCounts'
  <2>1. line > Len(config) /\ \A other \in DOMAIN Fields : Said(other, OPTS[Fields[other]])
    BY <1>1 DEF SaidInv, LastSaidCounts
  <2>2. ASSUME NEW other \in DOMAIN Fields PROVE Said(other, OPTS[Fields[other]])'
    <3>1. CASE other = letter
      BY <1>3, <3>1
    <3>2. CASE other # letter
      BY <1>1, <1>3, <2>1, <3>2, OthersSaid
    <3> QED
      BY <3>1, <3>2
  <2>3. DOMAIN Fields' = DOMAIN Fields
    BY DEF Fields
  <2> QED
    BY <1>1, <1>3, <2>1, <2>2, <2>3 DEF LastSaidCounts
<1>4. CASE step' # "cli"
  BY <1>2, <1>4 DEF SaidInv, LastSaidCounts
<1> QED
  BY <1>2, <1>3, <1>4 DEF SaidInv

\* Two options never set the same variable.
LEMMA OneField ==
    ASSUME OPTS \in OptRecord, NEW letter \in DOMAIN Fields, NEW e,
           OPTS' = [OPTS EXCEPT ![Fields[letter]] = e]
    PROVE  /\ OPTS'[Fields[letter]] = e
           /\ \A other \in DOMAIN Fields :
                 other # letter => OPTS'[Fields[other]] = OPTS[Fields[other]]
<1>1. \A l \in DOMAIN Fields : Fields[l] \in DOMAIN OPTS
  BY DEF Fields, OptRecord
<1>2. \A l1, l2 \in DOMAIN Fields : Fields[l1] = Fields[l2] => l1 = l2
  BY DEF Fields
<1> QED
  BY <1>1, <1>2

LEMMA SetSays ==
    ASSUME SaidInv, OptsTypeOK', NEW letter \in DOMAIN Fields, NEW valid, NEW e,
           Set(letter, valid, [OPTS EXCEPT ![Fields[letter]] = e]),
           valid => Said(letter, e)'
    PROVE  SaidInv'
<1>1. OPTS \in OptRecord /\ step = "cli" /\ Take(letter)
  BY DEF SaidInv, OptsTypeOK, Set, Take
<1>2. CASE valid
  <2>1. OPTS' = [OPTS EXCEPT ![Fields[letter]] = e] /\ step' = "cli"
    BY <1>1, <1>2 DEF Set
  <2>2. /\ OPTS'[Fields[letter]] = e
        /\ \A other \in DOMAIN Fields :
              other # letter => OPTS'[Fields[other]] = OPTS[Fields[other]]
    BY <1>1, <2>1, OneField
  <2>3. Said(letter, OPTS[Fields[letter]])'
    BY <1>2, <2>2
  <2> QED
    BY <1>1, <2>1, <2>2, <2>3, TakenSaid
<1>3. CASE ~valid
  <2>1. step' = "refused"
    BY <1>3 DEF Set
  <2> QED
    BY <1>1, <2>1, TakenSaid
<1> QED
  BY <1>2, <1>3

LEMMA CliSays == SaidInv /\ Cli => SaidInv'
<1> SUFFICES ASSUME SaidInv, Cli PROVE SaidInv'
  OBVIOUS
<1>1. OptsTypeOK /\ OptsTypeOK' /\ OPTS \in OptRecord
  BY CliType DEF SaidInv, OptsTypeOK
<1>2. ASSUME NEW letter, Take(letter), NEW x, x = arg
      PROVE  Named(letter)' /\ LastArg(letter)' = x
  BY <1>1, <1>2, TakenLast
<1>3. \A letter \in DOMAIN Fields : Fields[letter] \in DOMAIN OPTS
  BY <1>1 DEF Fields, OptRecord
<1>4. PICK x : x = arg
  OBVIOUS
<1>21. SameLow(Atoi(x), Atol(x)) /\ SameLow(Atol(x), Atol(x))
  <2>1. Atol(x) \in Int
    BY OptsAssumption DEF Atol
  <2> QED
    BY <2>1, CutKeepsLow DEF Atoi
<1>5. CASE OptFrom
  <2>1. Set("f", Atoi(x) \in 0 .. MaxBlocks, [OPTS EXCEPT ![Fields["f"]] = Atoi(x)])
    BY <1>4, <1>5 DEF OptFrom, Fields
  <2>2. Said("f", Atoi(x))'
    BY <1>2, <1>4, <2>1 DEF Said, Set
  <2> QED
    BY <1>1, <2>1, <2>2, SetSays DEF Fields
<1>6. CASE OptNum
  <2> DEFINE e == IF Atoi(x) = 0 THEN MaxBlocks ELSE Atoi(x)
  <2>1. Set("n", Atoi(x) \in 0 .. MaxBlocks, [OPTS EXCEPT ![Fields["n"]] = e])
    BY <1>4, <1>6 DEF OptNum, Fields
  <2>2. e % MaxBlocks = Atoi(x) % MaxBlocks
    <3>1. MaxBlocks \in Nat \ {0} /\ (1 * MaxBlocks) % MaxBlocks = 0 /\ (0 * MaxBlocks) % MaxBlocks = 0
      BY OptsAssumption, Multiple
    <3> QED
      BY <3>1
  <2>3. Said("n", e)'
    BY <1>2, <1>4, <2>1, <2>2 DEF Said, Set
  <2> QED
    BY <1>1, <2>1, <2>3, SetSays DEF Fields
<1>7. CASE OptStep
  <2>1. Set("s", Atoi(x) \in 1 .. MaxLogStep, [OPTS EXCEPT ![Fields["s"]] = Atoi(x)])
    BY <1>4, <1>7 DEF OptStep, Fields
  <2>2. Said("s", Atoi(x))'
    BY <1>2, <1>4, <1>21, <2>1 DEF Said, Set, WantedNumber, Wanted
  <2> QED
    BY <1>1, <2>1, <2>2, SetSays DEF Fields
<1>8. CASE OptTune
  <2>1. Set("t", Atol(x) >= 0, [OPTS EXCEPT ![Fields["t"]] = Atol(x)])
    BY <1>4, <1>8 DEF OptTune, Fields
  <2>2. Said("t", Atol(x))'
    BY <1>2, <1>4, <1>21, <2>1 DEF Said, Set, WantedNumber, Wanted
  <2> QED
    BY <1>1, <2>1, <2>2, SetSays DEF Fields
<1>9. CASE OptEngine
  <2>1. Set("e", x \in Engines, [OPTS EXCEPT ![Fields["e"]] = x])
    BY <1>4, <1>9 DEF OptEngine, Fields
  <2>2. Said("e", x)'
    BY <1>2, <1>4, <2>1 DEF Said, Set, Wanted
  <2> QED
    BY <1>1, <2>1, <2>2, SetSays DEF Fields
<1>10. CASE OptKvdir
  <2>1. Set("k", TRUE, [OPTS EXCEPT ![Fields["k"]] = x])
    BY <1>4, <1>10 DEF OptKvdir, Fields
  <2>2. Said("k", x)'
    BY <1>2, <1>4, <2>1 DEF Said, Set, Wanted
  <2> QED
    BY <1>1, <2>1, <2>2, SetSays DEF Fields
<1>11. CASE OptOut
  <2>1. Set("o", TRUE, [OPTS EXCEPT ![Fields["o"]] = TRUE])
    BY <1>11 DEF OptOut, Fields
  <2>2. Said("o", TRUE)'
    BY <1>2, <1>4, <2>1 DEF Said, Set, Switched
  <2> QED
    BY <1>1, <2>1, <2>2, SetSays DEF Fields
<1>12. CASE OptMt
  <2>1. Set("m", TRUE, [OPTS EXCEPT ![Fields["m"]] = TRUE])
    BY <1>12 DEF OptMt, Fields
  <2>2. Said("m", TRUE)'
    BY <1>2, <1>4, <2>1 DEF Said, Set, Switched
  <2> QED
    BY <1>1, <2>1, <2>2, SetSays DEF Fields
<1>13. CASE OptInfo
  <2>1. Set("i", TRUE, [OPTS EXCEPT ![Fields["i"]] = TRUE])
    BY <1>13 DEF OptInfo, Fields
  <2>2. Said("i", TRUE)'
    <3>1. Named("i")' = TRUE
      BY <1>2, <1>4, <2>1 DEF Set, Named
    <3> QED
      BY <3>1 DEF Said
  <2> QED
    BY <1>1, <2>1, <2>2, SetSays DEF Fields
<1>14. CASE OptHelp \/ OptBad
  <2>1. PICK letter \in {"h", "?"} : Take(letter) /\ step' = "refused"
    BY <1>14 DEF OptHelp, OptBad, Set
  <2> QED
    BY <1>1, <2>1, TakenSaid
<1>15. CASE OptVerbose
  <2>1. Set("v", Atoi(x) \in 0 .. DBG_MAX, [OPTS EXCEPT ![Fields["v"]] = Atoi(x)])
    BY <1>4, <1>15 DEF OptVerbose, Fields
  <2>2. Said("v", Atoi(x))'
    BY <1>2, <1>4, <1>21, <2>1 DEF Said, Set, WantedNumber, Wanted
  <2> QED
    BY <1>1, <2>1, <2>2, SetSays DEF Fields
<1>16. CASE OptVerboseUndefined
  <2>1. Take("v") /\ step' = "undefined"
    BY <1>16 DEF OptVerboseUndefined
  <2> QED
    BY <1>1, <2>1, TakenSaid
<1>17. ASSUME NEW letter \in {"d", "l"}, OptDirect(letter, [OPTS EXCEPT ![Fields[letter]] = x])
       PROVE  SaidInv'
  <2>1. Take(letter) /\ letter \in DOMAIN Fields /\ step = "cli"
    BY <1>17 DEF OptDirect, Fields, Take
  <2>2. CASE OPTS.fromcin
    BY <1>1, <1>17, <2>1, <2>2, TakenSaid DEF OptDirect
  <2>3. CASE ~OPTS.fromcin
    <3>1. OPTS' = [OPTS EXCEPT ![Fields[letter]] = x] /\ step' = "cli"
      BY <1>17, <2>1, <2>3 DEF OptDirect
    <3>2. /\ OPTS'[Fields[letter]] = x
          /\ \A other \in DOMAIN Fields :
                other # letter => OPTS'[Fields[other]] = OPTS[Fields[other]]
      BY <1>1, <2>1, <3>1, OneField
    <3>3. Said(letter, x)'
      <4>1. CASE letter = "d"
        BY <1>2, <1>4, <2>1, <4>1 DEF Said, Wanted
      <4>2. CASE letter = "l"
        BY <1>2, <1>4, <2>1, <4>2 DEF Said, Wanted
      <4> QED
        BY <4>1, <4>2
    <3>4. Said(letter, OPTS[Fields[letter]])'
      BY <3>2, <3>3
    <3> QED
      BY <1>1, <2>1, <3>1, <3>2, <3>4, TakenSaid
  <2> QED
    BY <2>2, <2>3
<1>18. CASE OptDatdir
  BY <1>4, <1>17, <1>18 DEF OptDatdir, Fields
<1>19. CASE OptLocs
  BY <1>4, <1>17, <1>19 DEF OptLocs, Fields
<1>20. CASE OptStdin
  <2>1. Take("c") /\ "c" \notin DOMAIN Fields /\ step = "cli"
    BY <1>20 DEF OptStdin, Fields, Take
  <2>2. CASE direct
    BY <1>1, <1>20, <2>1, <2>2, TakenSaid DEF OptStdin
  <2>3. CASE ~direct
    <3>1. OPTS' = [OPTS EXCEPT !.fromcin = TRUE] /\ step' = "cli"
      BY <1>20, <2>1, <2>3 DEF OptStdin
    <3>2. \A other \in DOMAIN Fields : OPTS'[Fields[other]] = OPTS[Fields[other]]
      BY <1>3, <3>1 DEF Fields
    <3> QED
      BY <1>1, <2>1, <3>1, <3>2, TakenSaid
  <2> QED
    BY <2>2, <2>3
<1> QED
  BY <1>5, <1>6, <1>7, <1>8, <1>9, <1>10, <1>11, <1>12, <1>13, <1>14, <1>15,
     <1>16, <1>18, <1>19, <1>20 DEF Cli

\* What was said stays as it is while nothing is read.
LEMMA SaidStays ==
    ASSUME UNCHANGED <<cfgvars, args, optind>>, NEW letter \in DOMAIN Fields, NEW value,
           Said(letter, value), OPTS'[Fields[letter]] = value
    PROVE  Said(letter, OPTS[Fields[letter]])'
<1>1. ASSUME NEW l PROVE (Named(l)' <=> Named(l)) /\ LastArg(l)' = LastArg(l)
  <2>1. ArgsOf(l)' = ArgsOf(l)
    BY DEF ArgsOf
  <2> QED
    BY <2>1 DEF Named, LastArg, Latest
<1>2. ASSUME NEW name PROVE LastValue(name)' = LastValue(name)
  <2>1. LinesOf(name)' = LinesOf(name) /\ config' = config
    BY DEF LinesOf, cfgvars
  <2> QED
    BY <2>1 DEF LastValue, Latest
<1>3. CASE letter = "d"
  BY <1>1, <1>2, <1>3 DEF Said, Fields, Wanted
<1>4. CASE letter = "l"
  BY <1>1, <1>2, <1>4 DEF Said, Fields, Wanted
<1>5. CASE letter = "k"
  BY <1>1, <1>2, <1>5 DEF Said, Fields, Wanted
<1>6. CASE letter = "e"
  BY <1>1, <1>2, <1>6 DEF Said, Fields, Wanted
<1>7. CASE letter = "v"
  BY <1>1, <1>2, <1>7 DEF Said, Fields, WantedNumber, Wanted
<1>10. CASE letter = "t"
  BY <1>1, <1>2, <1>10 DEF Said, Fields, WantedNumber, Wanted
<1>11. CASE letter = "s"
  BY <1>1, <1>2, <1>11 DEF Said, Fields, WantedNumber, Wanted
<1>8. CASE letter \in {"o", "m"}
  BY <1>1, <1>2, <1>8 DEF Said, Fields, Switched
<1>9. CASE letter = "i"
  <2>1. value = Named("i") /\ OPTS'.info = value
    BY <1>9 DEF Said, Fields
  <2>2. Named("i")' = Named("i")
    BY <1>1 DEF Named
  <2>3. OPTS'.info = Named("i")'
    BY <2>1, <2>2
  <2> QED
    BY <1>9, <2>3 DEF Said, Fields
<1>12. CASE letter = "f"
  BY <1>1, <1>12 DEF Said, Fields
<1>13. CASE letter = "n"
  BY <1>1, <1>13 DEF Said, Fields
<1> QED
  BY <1>3, <1>4, <1>5, <1>6, <1>7, <1>8, <1>9,
     <1>10, <1>11, <1>12, <1>13 DEF Fields

\* And so does what the config file said.
LEMMA ValuesStay ==
    ASSUME SaidInv, UNCHANGED cfgvars
    PROVE  \A name \in Names : data'[name] = LastValue(name)'
<1> SUFFICES ASSUME NEW name \in Names PROVE data'[name] = LastValue(name)'
  OBVIOUS
<1>1. LinesOf(name)' = LinesOf(name) /\ config' = config /\ data' = data
  BY DEF LinesOf, cfgvars
<1>2. LastValue(name)' = LastValue(name)
  BY <1>1 DEF LastValue, Latest
<1> QED
  BY <1>1, <1>2 DEF SaidInv

\* What main() gets is what was said last, of every variable, for all config
\* files and command lines and however wide an int is.
THEOREM LastSaidCorrect == OptsSpec => []LastSaidCounts
<1>1. OptsInit => SaidInv
  <2> SUFFICES ASSUME OptsInit PROVE SaidInv
    OBVIOUS
  <2>1. OptsTypeOK
    BY OptsInitType
  <2>2. \A name \in Names : data[name] = LastValue(name)
    BY DEF OptsInit, LastValue, LinesOf
  <2> QED
    BY <2>1, <2>2 DEF OptsInit, SaidInv, LastSaidCounts
<1>2. SaidInv /\ [OptsNext]_ovars => SaidInv'
  <2> SUFFICES ASSUME SaidInv, [OptsNext]_ovars PROVE SaidInv'
    OBVIOUS
  <2>1. OptsTypeOK /\ OptsTypeOK'
    BY OptsStepType DEF SaidInv
  <2>2. UNCHANGED cfgvars => \A name \in Names : data'[name] = LastValue(name)'
    BY ValuesStay
  <2>3. CASE LoadCfg
    <3>1. OPTS' = Assigned /\ step' \in {"cli", "refused"} /\ UNCHANGED <<cfgvars, args, optind>>
      BY <2>3 DEF LoadCfg
    <3>2. \A letter \in DOMAIN Fields : Said(letter, Assigned[Fields[letter]])
      BY <2>3, AssignedSays DEF LoadCfg
    <3>3. \A letter \in DOMAIN Fields : Said(letter, OPTS[Fields[letter]])'
      BY <3>1, <3>2, SaidStays DEF Fields
    <3>4. line > Len(config)
      BY <2>3 DEF LoadCfg, CfgEnd
    <3> QED
      BY <2>1, <2>2, <3>1, <3>3, <3>4 DEF SaidInv, LastSaidCounts, cfgvars
  <2>4. CASE CfgAborts
    BY <2>1, <2>2, <2>4 DEF CfgAborts, SaidInv, LastSaidCounts
  <2>5. CASE PostCheck
    <3>1. /\ step = "cli" /\ step' \in {"ready", "refused"} /\ optind > Len(args)
          /\ UNCHANGED <<cfgvars, args, optind, OPTS>>
      BY <2>5 DEF PostCheck
    <3>2. \A letter \in DOMAIN Fields : Said(letter, OPTS[Fields[letter]])'
      BY <3>1, SaidStays DEF SaidInv, LastSaidCounts, Fields
    <3> QED
      BY <2>1, <2>2, <3>1, <3>2 DEF SaidInv, LastSaidCounts, cfgvars
  <2>6. CASE UNCHANGED ovars
    <3>1. step' = step /\ UNCHANGED <<cfgvars, args, optind, OPTS>>
      BY <2>6 DEF ovars, cfgvars
    <3>2. step \in {"cli", "ready"} =>
             \A letter \in DOMAIN Fields : Said(letter, OPTS[Fields[letter]])'
      BY <3>1, SaidStays DEF SaidInv, LastSaidCounts, Fields
    <3> QED
      BY <2>1, <2>2, <3>1, <3>2 DEF SaidInv, LastSaidCounts, cfgvars
  <2> QED
    BY <2>3, <2>4, <2>5, <2>6, ReadLineSays, CliSays DEF OptsNext
<1>3. SaidInv => LastSaidCounts
  BY DEF SaidInv
<1> QED
  BY <1>1, <1>2, <1>3, PTL DEF OptsSpec
=============================================================================
