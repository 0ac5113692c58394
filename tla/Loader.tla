------------------------------- MODULE Loader -------------------------------
(***************************************************************************)
(* Loading of blocks, one after another: directly from the blk*.dat files  *)
(* (load_bk over the table FOFF and the window of open files of DATFARM_T) *)
(* or as hex lines from stdin (stdin_bk), and the loop of main around it.  *)
(* A file is a sequence of 4-byte words and offsets count words.  Every    *)
(* call of DATFARM_T::read is a step.                                      *)
(***************************************************************************)
EXTENDS Integers, Sequences, FiniteSets

CONSTANTS
    WinSize,     \* WIN_SIZE: how many dat-files are open at once
    MaxBkSize,   \* MAX_BK_SIZE, in words or in bytes of a hex line
    MaxLocs,     \* the most entries a locs-file may have
    OffWrap,     \* an offset is computed modulo this
    Sign,        \* BK_SIGN
    Disk,        \* the dat-files that can be opened, by number
    LocsFiles,   \* locs-files: [bytes, table]; one that cannot be opened is
                 \* treated as one that is empty
    Garbage,     \* entries that may lie in memory past the table
    Inputs,      \* what stdin may hold: lines [chars, nl]
    Omitted,     \* OPTS.from without -f
    Options      \* the command lines: [from, num, fromcin]

Entry == [fileno : Nat, offset : 0 .. OffWrap - 1]
Line  == [chars : Nat, nl : BOOLEAN]

ASSUME LoaderAssumption ==
    /\ WinSize \in Nat \ {0} /\ MaxBkSize \in Nat \ {0} /\ MaxLocs \in Nat \ {0}
    /\ OffWrap \in Nat /\ OffWrap > 2 /\ Omitted \notin Nat
    /\ DOMAIN Disk \subseteq Nat
    /\ \A no \in DOMAIN Disk : /\ Disk[no] \in Seq(Nat)
                               /\ Len(Disk[no]) + 2 < OffWrap
    /\ LocsFiles \subseteq [bytes : Nat, table : Seq(Entry)]
    /\ \A f \in LocsFiles : Len(f.table) = f.bytes \div 8
    /\ Garbage \subseteq Entry
    /\ Inputs \subseteq Seq(Line \ {[chars |-> 0, nl |-> FALSE]})
    /\ Options \subseteq [from : Nat \cup {Omitted}, num : Nat, fromcin : BOOLEAN]

VARIABLES
    step,      \* where main() and the loader are
    OPTS, bk,  \* the options, with num counting down; COUNT.bk
    FOFF,      \* the table, with DATFARM_T::qty its length
    entry,     \* fileno and offset in load_bk()
    size,      \* size in load_bk()
    streams,   \* the members of DATFARM_T::file that are open
    opened,    \* the queue of the open files, oldest first
    stdin,     \* the lines that are not read yet
    loaded     \* history: the blocks given to main()

window == <<streams, opened>>
lvars  == <<step, OPTS, bk, FOFF, entry, size, window, stdin, loaded>>

NoEntry == [fileno |-> 0, offset |-> 0]

LoaderInit ==
    /\ step = "init"
    /\ OPTS \in Options /\ bk = 0
    /\ FOFF = <<>> /\ entry = NoEntry /\ size = 0
    /\ streams = {} /\ opened = <<>>
    /\ stdin \in IF OPTS.fromcin THEN Inputs ELSE {<<>>}
    /\ loaded = <<>>

Qty == Len(FOFF)

-----------------------------------------------------------------------------
\* init_bkloader(), and the check of -f against the table.
LocsRefused(f) ==
    f.bytes % 8 # 0 \/ f.bytes > 8 * MaxLocs \/ f.bytes = 0

From == IF OPTS.from = Omitted THEN 0 ELSE OPTS.from

TakeTable(f) ==
    /\ step = "init" /\ ~OPTS.fromcin
    /\ ~LocsRefused(f) /\ FOFF' = f.table
    /\ IF OPTS.from # Omitted /\ Len(FOFF') <= OPTS.from
         THEN step' = "refused" /\ UNCHANGED bk
         ELSE step' = "loop" /\ bk' = From
    /\ UNCHANGED <<OPTS, entry, size, window, stdin, loaded>>

RefuseTable(f) ==
    /\ step = "init" /\ ~OPTS.fromcin
    /\ LocsRefused(f)
    /\ step' = "refused"
    /\ UNCHANGED <<OPTS, bk, FOFF, entry, size, window, stdin, loaded>>

InitLoader == step = "init" /\ \E f \in LocsFiles : TakeTable(f)
InitFails  == step = "init" /\ \E f \in LocsFiles : RefuseTable(f)

InitStdin ==
    /\ step = "init" /\ OPTS.fromcin
    /\ step' = "loop" /\ bk' = From
    /\ UNCHANGED <<OPTS, FOFF, entry, size, window, stdin, loaded>>

-----------------------------------------------------------------------------
\* DATFARM_T::open() and DATFARM_T::read().

\* The window once there is room for one more file: the oldest is closed.
Full        == Len(opened) >= WinSize
KeptStreams == IF Full THEN streams \ {Head(opened)} ELSE streams
KeptOpened  == IF Full THEN Tail(opened) ELSE opened

\* Mutant: a file that is open is put into the queue again.
OpenAgain(no) ==
    /\ no < Qty
    /\ no \in streams \cup DOMAIN Disk
    /\ streams' = KeptStreams \cup {no}
    /\ opened' = Append(KeptOpened, no)

\* The file is open, or is opened.
Open(no) ==
    /\ no < Qty
    /\ IF no \in streams
         THEN UNCHANGED window
         ELSE /\ no \in DOMAIN Disk
              /\ streams' = KeptStreams \cup {no}
              /\ opened' = Append(KeptOpened, no)

\* Mutant: a window that is full is a failure.
OpenFailsFull(no) ==
    /\ \/ no > Qty
       \/ no < Qty /\ no \notin streams /\ (Full \/ no \notin DOMAIN Disk)
    /\ UNCHANGED window

\* The number is too big; or there is no such file, which turns out only
\* after room is made for it.
OpenFails(no) ==
    \/ no > Qty /\ UNCHANGED window
    \/ /\ no < Qty /\ no \notin streams \cup DOMAIN Disk
       /\ streams' = KeptStreams /\ opened' = KeptOpened

InFile(no, offset, n) == offset + n <= Len(Disk[no])
Words(no, offset, n)  == SubSeq(Disk[no], offset + 1, offset + n)

Read(no, offset, n) == Open(no) /\ InFile(no, offset, n)
ReadFails(no, offset, n) ==
    OpenFails(no) \/ (Open(no) /\ ~InFile(no, offset, n))

-----------------------------------------------------------------------------
\* load_bk().

\* Mutant: -n is not looked at.
LoopForever == step = "loop"

Loop == step = "loop" /\ OPTS.num # 0

\* The entry at the height; nothing compares the height with the table.
Locate ==
    /\ Loop /\ ~OPTS.fromcin
    /\ entry' \in IF bk < Qty THEN {FOFF[bk + 1]} ELSE Garbage
    /\ step' = "sig"
    /\ UNCHANGED <<OPTS, bk, FOFF, size, window, stdin, loaded>>

\* The place n words before the block; an offset that is less than n wraps.
Before(n) == IF entry.offset >= n THEN entry.offset - n
                                  ELSE entry.offset - n + OffWrap

\* Mutant: any signature is good.
ReadSigUnchecked ==
    /\ step = "sig"
    /\ Read(entry.fileno, Before(2), 1)
    /\ step' = "size"
    /\ UNCHANGED <<OPTS, bk, FOFF, entry, size, stdin, loaded>>

ReadSig ==
    /\ step = "sig"
    /\ Read(entry.fileno, Before(2), 1)
    /\ step' = IF Words(entry.fileno, Before(2), 1)[1] = Sign THEN "size"
                                                              ELSE "stopped"
    /\ UNCHANGED <<OPTS, bk, FOFF, entry, size, stdin, loaded>>

ReadSize ==
    /\ step = "size"
    /\ Read(entry.fileno, Before(1), 1)
    /\ size' = Words(entry.fileno, Before(1), 1)[1]
    /\ step' = IF size' > MaxBkSize THEN "stopped" ELSE "body"
    /\ UNCHANGED <<OPTS, bk, FOFF, entry, stdin, loaded>>

\* A block without a word is the end, as if there were none.
ReadBody ==
    /\ step = "body"
    /\ Read(entry.fileno, entry.offset, size)
    /\ IF size = 0
         THEN step' = "stopped" /\ UNCHANGED loaded
         ELSE /\ step' = "given"
              /\ loaded' = Append(loaded, Words(entry.fileno, entry.offset, size))
    /\ UNCHANGED <<OPTS, bk, FOFF, entry, size, stdin>>

LoadFails ==
    /\ \/ step = "sig" /\ ReadFails(entry.fileno, Before(2), 1)
       \/ step = "size" /\ ReadFails(entry.fileno, Before(1), 1)
       \/ step = "body" /\ ReadFails(entry.fileno, entry.offset, size)
    /\ step' = "stopped"
    /\ UNCHANGED <<OPTS, bk, FOFF, entry, size, stdin, loaded>>

\* Undefined behaviour: the table is read where there is no memory, or
\* DATFARM_T::file is used at its size, which open() lets through.
Undefined ==
    /\ \/ Loop /\ ~OPTS.fromcin /\ bk >= Qty
       \/ step \in {"sig", "size", "body"} /\ entry.fileno = Qty
    /\ step' = "undefined"
    /\ UNCHANGED <<OPTS, bk, FOFF, entry, size, window, stdin, loaded>>

-----------------------------------------------------------------------------
\* stdin_bk().

BufSize == 2 * MaxBkSize + 3

\* What fgets() delivers of a line, and that without the newline.
LineLen(l) == LET n == l.chars + (IF l.nl THEN 1 ELSE 0)
              IN  IF n < BufSize - 1 THEN n ELSE BufSize - 1
HexLen(l)  == IF l.nl /\ LineLen(l) > l.chars THEN LineLen(l) - 1 ELSE LineLen(l)

\* Mutant: the length is taken with the newline.
LineOKUntrimmed(l) ==
    LineLen(l) >= 2 /\ LineLen(l) < BufSize - 1 /\ LineLen(l) % 2 = 0

LineOK(l) == LineLen(l) >= 2 /\ LineLen(l) < BufSize - 1 /\ HexLen(l) % 2 = 0

ReadLine ==
    /\ Loop /\ OPTS.fromcin
    /\ stdin # <<>> /\ LineOK(Head(stdin))
    /\ stdin' = Tail(stdin)
    /\ loaded' = Append(loaded, HexLen(Head(stdin)) \div 2)
    /\ step' = "given"
    /\ UNCHANGED <<OPTS, bk, FOFF, entry, size, window>>

\* Mutant: the end of stdin is waited over.
LineFailsWaits ==
    /\ Loop /\ OPTS.fromcin
    /\ stdin # <<>> /\ ~LineOK(Head(stdin))
    /\ step' = "stopped"
    /\ stdin' = Tail(stdin)
    /\ UNCHANGED <<OPTS, bk, FOFF, entry, size, window, loaded>>

LineFails ==
    /\ Loop /\ OPTS.fromcin
    /\ ~(stdin # <<>> /\ LineOK(Head(stdin)))
    /\ step' = "stopped"
    /\ stdin' = IF stdin = <<>> THEN stdin ELSE Tail(stdin)
    /\ UNCHANGED <<OPTS, bk, FOFF, entry, size, window, loaded>>

-----------------------------------------------------------------------------
\* main(): the block went through all other phases, or failed in one.
GoOn ==
    /\ step = "given"
    /\ bk' = bk + 1
    /\ OPTS' = [OPTS EXCEPT !.num = @ - 1]
    /\ step' = "loop"
    /\ UNCHANGED <<FOFF, entry, size, window, stdin, loaded>>

OtherPhaseFails ==
    /\ step = "given"
    /\ step' = "done"
    /\ UNCHANGED <<OPTS, bk, FOFF, entry, size, window, stdin, loaded>>

NumDone ==
    /\ step = "loop" /\ OPTS.num = 0
    /\ step' = "done"
    /\ UNCHANGED <<OPTS, bk, FOFF, entry, size, window, stdin, loaded>>

LoaderNext ==
    \/ InitLoader \/ InitFails \/ InitStdin
    \/ Locate \/ ReadSig \/ ReadSize \/ ReadBody \/ LoadFails \/ Undefined
    \/ ReadLine \/ LineFails
    \/ GoOn \/ OtherPhaseFails \/ NumDone

LoaderSpec == LoaderInit /\ [][LoaderNext]_lvars

-----------------------------------------------------------------------------
Steps == {"init", "refused", "loop", "sig", "size", "body", "given",
          "stopped", "undefined", "done"}
Over  == {"refused", "stopped", "undefined", "done"}

\* Types of the variables.
LoaderTypeOK ==
    /\ step \in Steps
    /\ OPTS \in [from : Nat \cup {Omitted}, num : Nat, fromcin : BOOLEAN]
    /\ bk \in Nat /\ size \in Nat
    /\ FOFF \in Seq(Entry)
    /\ entry \in Entry
    /\ streams \subseteq Nat /\ opened \in Seq(Nat)
    /\ stdin \in Seq(Line)

\* The queue of DATFARM_T holds each open file once and no other, whatever
\* was opened, closed and opened again or could not be opened: none is left
\* open for good, none is closed twice, and no more than WIN_SIZE are open.
WindowOK ==
    /\ streams = {opened[i] : i \in DOMAIN opened}
    /\ \A i, j \in DOMAIN opened : opened[i] = opened[j] => i = j
    /\ Len(opened) <= WinSize
    /\ \A no \in streams : no < Qty /\ no \in DOMAIN Disk

\* What an entry of the table is meant to be: the place of a block, after its
\* signature and its size.
Names(e) ==
    /\ e.fileno \in DOMAIN Disk /\ e.fileno < Qty
    /\ LET f == Disk[e.fileno] IN
          /\ e.offset \in 2 .. Len(f)
          /\ f[e.offset - 1] = Sign
          /\ f[e.offset] \in 1 .. MaxBkSize
          /\ e.offset + f[e.offset] <= Len(f)
Body(e) == LET f == Disk[e.fileno] IN
               [i \in 1 .. f[e.offset] |-> f[e.offset + i]]

\* Blocks come in the order of the table, and each is the one that its entry
\* names, in whatever order they lie in however many files: none comes from
\* an entry that names no block.
LoadedRight ==
    \A i \in DOMAIN loaded :
        (~OPTS.fromcin /\ From + i <= Qty) =>
            Names(FOFF[From + i]) /\ loaded[i] = Body(FOFF[From + i])

\* load_bk() does not fail for a block that is there: that a file was closed
\* to make room for another one, or is asked for again, is not to be noticed.
NeverStopsShort ==
    [][(step' = "stopped" /\ ~OPTS.fromcin) =>
          bk >= Qty \/ ~Names(FOFF[bk + 1])]_lvars

\* A line of stdin is taken iff it is a whole block of at most MAX_BK_SIZE
\* bytes, with or without a newline at its end, though stdin_bk() looks at
\* the length before and after the newline is cut.
WholeBlock(l) == \E n \in 1 .. MaxBkSize : l.chars = 2 * n
LineTakenIffWhole ==
    [][(Loop /\ OPTS.fromcin) =>
          (step' = "given" <=> (stdin # <<>> /\ WholeBlock(Head(stdin))))]_lvars

\* The loop of main() ends, with -n 0 too.
LoopEnds == step = "init" ~> step \in Over

\* No block is located past the end of the table.
StaysInTable == step = "sig" => bk < Qty
=============================================================================
