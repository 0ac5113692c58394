----------------------------- MODULE LoaderProofs -----------------------------
(***************************************************************************)
(* Proofs about the loader: the window of open files, for any size of it,  *)
(* any files and any table.  Then about btcbklocs, for every index, every  *)
(* file of hashes and every limit; and about btcbklocs and bce2 together,  *)
(* where the proofs about each of them are put to one.                     *)
(***************************************************************************)
EXTENDS LocsLoader, SequenceTheorems, TLAPS

\* A queue of different files that is short enough, with the set of them.
Queue(s, q, bound) ==
    /\ s \subseteq Nat /\ q \in Seq(Nat)
    /\ s = {q[i] : i \in DOMAIN q}
    /\ \A i, j \in DOMAIN q : q[i] = q[j] => i = j
    /\ Len(q) <= bound

\* WindowOK with what its being kept rests on: the types; that the table is
\* read before any file is opened; that -n is counted down from 1 or more.
WindowInv ==
    /\ LoaderTypeOK
    /\ Queue(streams, opened, WinSize)
    /\ \A no \in streams : no < Qty /\ no \in DOMAIN Disk
    /\ step = "init" => streams = {} /\ opened = <<>>
    /\ step \in {"sig", "size", "body", "given"} => OPTS.num # 0

\* Without its first element a queue is a queue of the others.
LEMMA TailQueue ==
    ASSUME NEW s, NEW q, NEW n \in Nat, Queue(s, q, n), q # <<>>
    PROVE  Queue(s \ {Head(q)}, Tail(q), n - 1)
<1>1. /\ q \in Seq(Nat) /\ Len(q) \in Nat \ {0} /\ Tail(q) \in Seq(Nat)
      /\ Len(Tail(q)) = Len(q) - 1 /\ Head(q) = q[1]
      /\ \A i \in 1 .. Len(q) - 1 : Tail(q)[i] = q[i + 1]
      /\ DOMAIN q = 1 .. Len(q) /\ DOMAIN Tail(q) = 1 .. Len(q) - 1
  BY DEF Queue
<1>2. s \ {Head(q)} = {Tail(q)[i] : i \in DOMAIN Tail(q)}
  <2>1. ASSUME NEW x \in s \ {Head(q)}
        PROVE  \E i \in DOMAIN Tail(q) : x = Tail(q)[i]
    <3>1. PICK i \in DOMAIN q : x = q[i]
      BY DEF Queue
    <3>2. i # 1 /\ i - 1 \in 1 .. Len(q) - 1
      BY <1>1, <3>1
    <3>3. QED
      BY <1>1, <3>1, <3>2
  <2>2. ASSUME NEW i \in DOMAIN Tail(q)
        PROVE  Tail(q)[i] \in s \ {Head(q)}
    <3>1. i + 1 \in DOMAIN q /\ 1 \in DOMAIN q /\ i + 1 # 1
      BY <1>1
    <3>2. q[i + 1] \in s /\ q[i + 1] # q[1]
      BY <3>1 DEF Queue
    <3>3. QED
      BY <1>1, <3>2
  <2>3. QED
    BY <2>1, <2>2
<1>3. \A i, j \in DOMAIN Tail(q) : Tail(q)[i] = Tail(q)[j] => i = j
  BY <1>1, SMTT(30) DEF Queue
<1>4. QED
  BY <1>1, <1>2, <1>3 DEF Queue

\* A queue with something new at its end is a queue.
LEMMA AppendQueue ==
    ASSUME NEW s, NEW q, NEW n \in Nat, NEW x \in Nat \ s, Queue(s, q, n)
    PROVE  Queue(s \cup {x}, Append(q, x), n + 1)
<1>1. /\ q \in Seq(Nat) /\ Len(q) \in Nat /\ Append(q, x) \in Seq(Nat)
      /\ Len(Append(q, x)) = Len(q) + 1
      /\ \A i \in 1 .. Len(q) : Append(q, x)[i] = q[i]
      /\ Append(q, x)[Len(q) + 1] = x
      /\ DOMAIN q = 1 .. Len(q) /\ DOMAIN Append(q, x) = 1 .. Len(q) + 1
  BY DEF Queue
<1>2. s \cup {x} = {Append(q, x)[i] : i \in DOMAIN Append(q, x)}
  <2>1. ASSUME NEW y \in s \cup {x}
        PROVE  \E i \in DOMAIN Append(q, x) : y = Append(q, x)[i]
    <3>1. CASE y = x
      BY <1>1, <3>1
    <3>2. CASE y \in s
      <4>1. PICK i \in DOMAIN q : y = q[i]
        BY <3>2 DEF Queue
      <4>2. QED
        BY <1>1, <4>1
    <3>3. QED
      BY <3>1, <3>2
  <2>2. ASSUME NEW i \in DOMAIN Append(q, x)
        PROVE  Append(q, x)[i] \in s \cup {x}
    BY <1>1 DEF Queue
  <2>3. QED
    BY <2>1, <2>2
<1>3. ASSUME NEW i \in DOMAIN Append(q, x), NEW j \in DOMAIN Append(q, x),
             Append(q, x)[i] = Append(q, x)[j]
      PROVE  i = j
  BY <1>1, <1>3 DEF Queue
<1>4. QED
  BY <1>1, <1>2, <1>3 DEF Queue

\* What is kept leaves room for one.
LEMMA Room ==
    ASSUME Queue(streams, opened, WinSize)
    PROVE  Queue(KeptStreams, KeptOpened, WinSize - 1) /\ KeptStreams \subseteq streams
<1>1. WinSize \in Nat /\ WinSize - 1 \in Nat /\ opened \in Seq(Nat)
      /\ Len(opened) \in Nat
  BY LoaderAssumption DEF Queue
<1>2. CASE Full
  <2>1. opened # <<>>
    BY <1>1, <1>2 DEF Full
  <2>2. Queue(streams \ {Head(opened)}, Tail(opened), WinSize - 1)
    BY <1>1, <2>1, TailQueue
  <2>3. QED
    BY <1>2, <2>2 DEF KeptStreams, KeptOpened
<1>3. CASE ~Full
  BY <1>1, <1>3 DEF Full, KeptStreams, KeptOpened, Queue
<1>4. QED
  BY <1>2, <1>3

\* The window as the two that change it leave it.
LEMMA WindowKept ==
    ASSUME WindowInv, FOFF' = FOFF, NEW no \in Nat, Open(no) \/ OpenFails(no)
    PROVE  Queue(streams', opened', WinSize)
           /\ \A x \in streams' : x < Qty' /\ x \in DOMAIN Disk
<1>1. /\ Qty' = Qty
      /\ Queue(KeptStreams, KeptOpened, WinSize - 1)
      /\ KeptStreams \subseteq streams
  BY Room DEF WindowInv, Qty
<1>2. CASE UNCHANGED window
  BY <1>1, <1>2 DEF WindowInv, window
<1>3. CASE /\ no < Qty /\ no \notin streams /\ no \in DOMAIN Disk
           /\ streams' = KeptStreams \cup {no}
           /\ opened' = Append(KeptOpened, no)
  <2>1. WinSize - 1 \in Nat /\ no \in Nat \ KeptStreams /\ (WinSize - 1) + 1 = WinSize
    BY <1>1, <1>3, LoaderAssumption
  <2>2. Queue(KeptStreams \cup {no}, Append(KeptOpened, no), (WinSize - 1) + 1)
    BY <1>1, <2>1, AppendQueue
  <2>3. Queue(streams', opened', WinSize)
    BY <1>3, <2>1, <2>2
  <2>4. \A x \in streams' : x < Qty' /\ x \in DOMAIN Disk
    BY <1>1, <1>3 DEF WindowInv
  <2>5. QED
    BY <2>3, <2>4
<1>4. CASE streams' = KeptStreams /\ opened' = KeptOpened
  <2>1. Queue(streams', opened', WinSize)
    BY <1>1, <1>4, LoaderAssumption DEF Queue
  <2>2. \A x \in streams' : x < Qty' /\ x \in DOMAIN Disk
    BY <1>1, <1>4 DEF WindowInv
  <2>3. QED
    BY <2>1, <2>2
<1>5. QED
  BY <1>2, <1>3, <1>4 DEF Open, OpenFails

\* A word that is read is a number.
LEMMA WordType ==
    ASSUME WindowInv, NEW no \in Nat, NEW offset \in Nat, Read(no, offset, 1)
    PROVE  Words(no, offset, 1)[1] \in Nat
<1>1. no \in DOMAIN Disk
  BY DEF Read, Open, WindowInv
<1>2. Disk[no] \in Seq(Nat) /\ offset + 1 \in 1 .. Len(Disk[no])
  BY <1>1, LoaderAssumption DEF Read, InFile
<1>3. QED
  BY <1>2 DEF Words

LEMMA WindowInit == LoaderInit => WindowInv
<1> SUFFICES ASSUME LoaderInit
             PROVE  WindowInv
  OBVIOUS
<1>1. stdin \in Seq(Line)
  <2>1. CASE OPTS.fromcin
    <3>1. stdin \in Seq(Line \ {[chars |-> 0, nl |-> FALSE]})
      BY <2>1, LoaderAssumption DEF LoaderInit
    <3>2. QED
      BY <3>1
  <2>2. CASE ~OPTS.fromcin
    BY <2>2 DEF LoaderInit
  <2>3. QED
    BY <2>1, <2>2
<1>2. LoaderTypeOK
  BY <1>1, LoaderAssumption DEF LoaderInit, LoaderTypeOK, Steps, Entry, NoEntry
<1>3. QED
  BY <1>2, LoaderAssumption DEF LoaderInit, WindowInv, Queue

LEMMA WindowStep == WindowInv /\ [LoaderNext]_lvars => WindowInv'
<1> SUFFICES ASSUME WindowInv, [LoaderNext]_lvars
             PROVE  WindowInv'
  OBVIOUS
<1> USE DEF WindowInv
<1> DEFINE no == entry.fileno
<1>a. no \in Nat /\ entry.offset \in Nat /\ Before(1) \in Nat /\ Before(2) \in Nat
  <2>1. no \in Nat /\ entry.offset \in 0 .. OffWrap - 1 /\ OffWrap \in Nat /\ OffWrap > 2
    BY LoaderAssumption DEF LoaderTypeOK, Entry
  <2>2. QED
    BY <2>1, SMTT(30) DEF Before
<1>b. From \in Nat
  BY DEF LoaderTypeOK, From
<1>c. ASSUME Queue(streams', opened', WinSize)
      PROVE  streams' \subseteq Nat /\ opened' \in Seq(Nat)
  BY <1>c DEF Queue
<1>1. CASE InitLoader
  <2>1. PICK f \in LocsFiles : FOFF' = f.table
    BY <1>1 DEF InitLoader, TakeTable
  <2>2. FOFF' \in Seq(Entry)
    BY <2>1, LoaderAssumption
  <2>3. LoaderTypeOK'
    BY <1>1, <1>b, <2>2 DEF InitLoader, TakeTable, LoaderTypeOK, Steps, window
  <2>4. QED
    BY <1>1, <2>3 DEF InitLoader, TakeTable, window
<1>2. CASE Locate
  <2>1. entry' \in Entry
    BY <1>2, LoaderAssumption DEF Locate, Qty, LoaderTypeOK
  <2>2. LoaderTypeOK'
    BY <1>2, <2>1 DEF Locate, LoaderTypeOK, Steps, window
  <2>3. QED
    BY <1>2, <2>2 DEF Locate, Loop, window, Qty
<1>3. CASE ReadSig
  <2>1. Queue(streams', opened', WinSize)
        /\ \A x \in streams' : x < Qty' /\ x \in DOMAIN Disk
    BY <1>3, <1>a, WindowKept DEF ReadSig, Read
  <2>2. LoaderTypeOK'
    BY <1>3, <1>c, <2>1 DEF ReadSig, LoaderTypeOK, Steps
  <2>3. QED
    BY <1>3, <2>1, <2>2 DEF ReadSig
<1>4. CASE ReadSize
  <2>1. Queue(streams', opened', WinSize)
        /\ \A x \in streams' : x < Qty' /\ x \in DOMAIN Disk
    BY <1>4, <1>a, WindowKept DEF ReadSize, Read
  <2>2. size' \in Nat
    BY <1>4, <1>a, WordType DEF ReadSize
  <2>3. LoaderTypeOK'
    BY <1>4, <1>c, <2>1, <2>2 DEF ReadSize, LoaderTypeOK, Steps
  <2>4. QED
    BY <1>4, <2>1, <2>3 DEF ReadSize
<1>5. CASE ReadBody
  <2>1. Queue(streams', opened', WinSize)
        /\ \A x \in streams' : x < Qty' /\ x \in DOMAIN Disk
    BY <1>5, <1>a, WindowKept DEF ReadBody, Read
  <2>2. LoaderTypeOK'
    BY <1>5, <1>c, <2>1 DEF ReadBody, LoaderTypeOK, Steps
  <2>3. QED
    BY <1>5, <2>1, <2>2 DEF ReadBody
<1>6. CASE LoadFails
  <2>1. Open(no) \/ OpenFails(no)
    BY <1>6 DEF LoadFails, ReadFails
  <2>2. Queue(streams', opened', WinSize)
        /\ \A x \in streams' : x < Qty' /\ x \in DOMAIN Disk
    BY <1>6, <1>a, <2>1, WindowKept DEF LoadFails
  <2>3. LoaderTypeOK'
    BY <1>6, <1>c, <2>2 DEF LoadFails, LoaderTypeOK, Steps
  <2>4. QED
    BY <1>6, <2>2, <2>3 DEF LoadFails
<1>7. CASE ReadLine \/ LineFails
  <2>1. stdin \in Seq(Line) /\ (stdin # <<>> => Tail(stdin) \in Seq(Line))
    BY DEF LoaderTypeOK
  <2>2. LoaderTypeOK'
    BY <1>7, <2>1 DEF ReadLine, LineFails, LoaderTypeOK, Steps, window
  <2>3. QED
    BY <1>7, <2>2 DEF ReadLine, LineFails, Loop, window, Qty
<1>8. CASE InitFails \/ InitStdin
  <2>1. LoaderTypeOK'
    BY <1>8, <1>b DEF InitFails, RefuseTable, InitStdin, LoaderTypeOK, Steps, window
  <2>2. QED
    BY <1>8, <2>1 DEF InitFails, RefuseTable, InitStdin, window, Qty
<1>9. CASE GoOn
  <2>1. OPTS.num - 1 \in Nat /\ bk + 1 \in Nat
    BY <1>9 DEF GoOn, LoaderTypeOK
  <2>2. LoaderTypeOK'
    BY <1>9, <2>1 DEF GoOn, LoaderTypeOK, Steps, window
  <2>3. QED
    BY <1>9, <2>2 DEF GoOn, window, Qty
<1>10. CASE Undefined \/ OtherPhaseFails \/ NumDone \/ UNCHANGED lvars
  <2>1. LoaderTypeOK'
    BY <1>10 DEF Undefined, OtherPhaseFails, NumDone, lvars, LoaderTypeOK,
                 Steps, window
  <2>2. QED
    BY <1>10, <2>1 DEF Undefined, OtherPhaseFails, NumDone, lvars, window, Qty
<1>11. QED
  BY <1>1, <1>2, <1>3, <1>4, <1>5, <1>6, <1>7, <1>8, <1>9, <1>10 DEF LoaderNext

\* The variables of the loader keep their types, for any files and tables.
THEOREM LoaderTypeCorrect == LoaderSpec => []LoaderTypeOK
<1>1. WindowInv => LoaderTypeOK
  BY DEF WindowInv
<1>2. QED
  BY <1>1, WindowInit, WindowStep, PTL DEF LoaderSpec

\* The queue of DATFARM_T::open() is exactly the set of open files, without
\* repeats and never longer than WIN_SIZE, for any WIN_SIZE, any files, any
\* table and whatever fails.
THEOREM WindowCorrect == LoaderSpec => []WindowOK
<1>1. WindowInv => WindowOK
  BY DEF WindowInv, WindowOK, Queue
<1>2. QED
  BY <1>1, WindowInit, WindowStep, PTL DEF LoaderSpec

-----------------------------------------------------------------------------
\* What load_bk() has found out about the entry it works on.
EntryInv ==
    /\ step \in {"sig", "size", "body"} =>
          ~OPTS.fromcin /\ (bk < Qty => entry = FOFF[bk + 1])
    /\ step \in {"size", "body"} =>
          /\ entry.fileno < Qty /\ entry.fileno \in DOMAIN Disk
          /\ InFile(entry.fileno, Before(2), 1)
          /\ Words(entry.fileno, Before(2), 1)[1] = Sign
    /\ step = "body" =>
          /\ InFile(entry.fileno, Before(1), 1)
          /\ Words(entry.fileno, Before(1), 1)[1] = size
          /\ size <= MaxBkSize

\* COUNT.bk counts the blocks.
CountInv ==
    /\ loaded \in Seq(Nat \cup Seq(Nat))
    /\ step = "init" => loaded = <<>>
    /\ step \in {"loop", "sig", "size", "body"} => bk = From + Len(loaded)
    /\ step = "given" => bk + 1 = From + Len(loaded)

LoadInv == EntryInv /\ CountInv /\ LoadedRight

\* The words before a block are where they are looked for, if the entry
\* names a block, and only then is anything found there.
LEMMA Header ==
    ASSUME WindowInv, entry.fileno \in DOMAIN Disk, NEW n \in 1 .. 2,
           InFile(entry.fileno, Before(n), 1)
    PROVE  /\ entry.offset \in n .. Len(Disk[entry.fileno]) + n
           /\ Before(n) = entry.offset - n
           /\ Words(entry.fileno, Before(n), 1)[1]
                = Disk[entry.fileno][entry.offset - n + 1]
<1>1. /\ entry.offset \in 0 .. OffWrap - 1 /\ OffWrap \in Nat
      /\ Disk[entry.fileno] \in Seq(Nat)
      /\ Len(Disk[entry.fileno]) + 2 < OffWrap
      /\ Len(Disk[entry.fileno]) \in Nat
  BY LoaderAssumption DEF WindowInv, LoaderTypeOK, Entry
<1>2. entry.offset >= n
  BY <1>1 DEF InFile, Before
<1>3. Before(n) = entry.offset - n /\ entry.offset <= Len(Disk[entry.fileno]) + n - 1
  BY <1>1, <1>2 DEF InFile, Before
<1>4. \A f \in Seq(Nat) : \A k \in 1 .. Len(f) : SubSeq(f, k, k)[1] = f[k]
  OBVIOUS
<1>5. entry.offset - n + 1 \in 1 .. Len(Disk[entry.fileno])
  BY <1>1, <1>2, <1>3, SMTT(30)
<1>6. Words(entry.fileno, Before(n), 1)
        = SubSeq(Disk[entry.fileno], entry.offset - n + 1, entry.offset - n + 1)
  BY <1>1, <1>3 DEF Words
<1>7. entry.offset \in n .. Len(Disk[entry.fileno]) + n
  BY <1>1, <1>2, <1>3
<1>8. QED
  BY <1>1, <1>3, <1>4, <1>5, <1>6, <1>7

\* A part of a file, as a function.
LEMMA PartOfFile ==
    ASSUME NEW f \in Seq(Nat), NEW m \in Nat, NEW n \in Nat, m + n <= Len(f)
    PROVE  /\ SubSeq(f, m + 1, m + n) = [i \in 1 .. n |-> f[m + i]]
           /\ SubSeq(f, m + 1, m + n) \in Seq(Nat)
<1>1. \A i \in (m + 1) .. (m + n) : i \in 1 .. Len(f)
  OBVIOUS
<1>2. /\ SubSeq(f, m + 1, m + n) \in Seq(Nat)
      /\ Len(SubSeq(f, m + 1, m + n)) = n
      /\ \A i \in 1 .. n : SubSeq(f, m + 1, m + n)[i] = f[m + 1 + i - 1]
  BY <1>1, SubSeqProperties
<1> DEFINE g == SubSeq(f, m + 1, m + n)
<1> HIDE DEF g
<1>3. g \in Seq(Nat) /\ Len(g) = n
  BY <1>2 DEF g
<1>4. \A i \in 1 .. n : g[i] = f[m + i]
  <2>1. \A i \in 1 .. n : m + 1 + i - 1 = m + i
    OBVIOUS
  <2>2. QED
    BY <1>2, <2>1 DEF g
<1>5. g = [i \in 1 .. n |-> f[m + i]]
  BY <1>3, <1>4
<1>6. QED
  BY <1>3, <1>5 DEF g

\* An entry that led to a body names a block.
LEMMA BodyNamed ==
    ASSUME WindowInv, EntryInv, step = "body", size # 0,
           InFile(entry.fileno, entry.offset, size)
    PROVE  /\ Names(entry)
           /\ Words(entry.fileno, entry.offset, size) = Body(entry)
           /\ Body(entry) \in Seq(Nat)
<1> DEFINE f == Disk[entry.fileno]
<1>1. /\ entry.fileno \in DOMAIN Disk /\ entry.fileno < Qty
      /\ size \in 1 .. MaxBkSize /\ size \in Nat
      /\ f \in Seq(Nat) /\ Len(f) \in Nat
  BY LoaderAssumption DEF EntryInv, WindowInv, LoaderTypeOK
<1>2. /\ entry.offset \in 2 .. Len(f) + 2 /\ f[entry.offset - 1] = Sign
  <2>1. InFile(entry.fileno, Before(2), 1) /\ Words(entry.fileno, Before(2), 1)[1] = Sign
    BY DEF EntryInv
  <2>2. entry.offset \in Int
    BY <1>1, <2>1, Header
  <2>3. entry.offset - 2 + 1 = entry.offset - 1
    BY <2>2
  <2>4. QED
    BY <1>1, <2>1, <2>3, Header
<1>3. f[entry.offset] = size
  <2>1. InFile(entry.fileno, Before(1), 1) /\ Words(entry.fileno, Before(1), 1)[1] = size
    BY DEF EntryInv
  <2>2. entry.offset - 1 + 1 = entry.offset
    BY <1>2
  <2>3. QED
    BY <1>1, <2>1, <2>2, Header
<1>4. entry.offset + size <= Len(f)
  BY DEF InFile
<1>5. entry.offset \in 2 .. Len(f) /\ entry.offset \in Nat
  BY <1>1, <1>2, <1>4, SMTT(30)
<1>6. Names(entry)
  BY <1>1, <1>2, <1>3, <1>4, <1>5 DEF Names
<1>7. Words(entry.fileno, entry.offset, size) = Body(entry) /\ Body(entry) \in Seq(Nat)
  <2>1. Words(entry.fileno, entry.offset, size)
          = SubSeq(f, entry.offset + 1, entry.offset + size)
    BY DEF Words
  <2>2. Body(entry) = [i \in 1 .. size |-> f[entry.offset + i]]
    BY <1>3 DEF Body
  <2>3. /\ SubSeq(f, entry.offset + 1, entry.offset + size)
             = [i \in 1 .. size |-> f[entry.offset + i]]
        /\ SubSeq(f, entry.offset + 1, entry.offset + size) \in Seq(Nat)
    <3> HIDE DEF f
    <3>1. QED
      BY <1>1, <1>4, <1>5, PartOfFile
  <2>4. QED
    <3> HIDE DEF f
    <3>1. QED
      BY <2>1, <2>2, <2>3
<1>8. QED
  BY <1>6, <1>7

LEMMA LoadInit == LoaderInit => LoadInv
  BY DEF LoaderInit, LoadInv, EntryInv, CountInv, LoadedRight

LEMMA EntryStep == WindowInv /\ EntryInv /\ [LoaderNext]_lvars => EntryInv'
<1> SUFFICES ASSUME WindowInv, EntryInv, [LoaderNext]_lvars
             PROVE  EntryInv'
  OBVIOUS
<1> USE DEF EntryInv
<1>1. CASE Locate
  <2>1. bk < Qty => entry' = FOFF[bk + 1]
    BY <1>1 DEF Locate
  <2>2. QED
    BY <1>1, <2>1 DEF Locate, Loop, Qty
<1>2. CASE ReadSig
  <2>1. /\ entry.fileno < Qty /\ entry.fileno \in DOMAIN Disk
        /\ InFile(entry.fileno, Before(2), 1)
    BY <1>2 DEF ReadSig, Read, Open, WindowInv
  <2>2. QED
    BY <1>2, <2>1 DEF ReadSig, Qty, Words, Before, InFile
<1>3. CASE ReadSize
  <2>1. InFile(entry.fileno, Before(1), 1)
    BY <1>3 DEF ReadSize, Read
  <2>2. size' \in Nat /\ MaxBkSize \in Nat
    BY WindowStep, LoaderAssumption DEF WindowInv, LoaderTypeOK
  <2>3. step' = "body" => size' <= MaxBkSize
    BY <1>3, <2>2 DEF ReadSize
  <2>4. QED
    BY <1>3, <2>1, <2>3 DEF ReadSize, Qty, Words, Before, InFile
<1>4. CASE UNCHANGED lvars
  BY <1>4 DEF lvars, Qty, Words, Before, InFile
<1>5. CASE \/ InitLoader \/ InitFails \/ InitStdin \/ ReadBody \/ LoadFails
           \/ Undefined \/ ReadLine \/ LineFails \/ GoOn \/ OtherPhaseFails \/ NumDone
  <2>1. step' \notin {"sig", "size", "body"}
    BY <1>5 DEF InitLoader, TakeTable, InitFails, RefuseTable, InitStdin, ReadBody, LoadFails,
                Undefined, ReadLine, LineFails, GoOn, OtherPhaseFails, NumDone
  <2>2. QED
    BY <2>1
<1>6. QED
  BY <1>1, <1>2, <1>3, <1>4, <1>5 DEF LoaderNext

\* -f stays what it is.
LEMMA FromKept ==
    ASSUME WindowInv, [LoaderNext]_lvars
    PROVE  /\ From' = From /\ From \in Nat /\ OPTS'.fromcin = OPTS.fromcin
           /\ step # "init" => FOFF' = FOFF
<1>1. OPTS'.from = OPTS.from /\ OPTS'.fromcin = OPTS.fromcin
  BY DEF LoaderNext, lvars, InitLoader, TakeTable, InitFails, RefuseTable, InitStdin, Locate,
         ReadSig, ReadSize, ReadBody, LoadFails, Undefined, ReadLine, LineFails, GoOn,
         OtherPhaseFails, NumDone, WindowInv, LoaderTypeOK
<1>2. From' = From /\ From \in Nat
  BY <1>1 DEF From, WindowInv, LoaderTypeOK
<1>3. step # "init" => FOFF' = FOFF
  BY DEF LoaderNext, lvars, InitLoader, TakeTable, InitFails, RefuseTable, InitStdin, Locate,
         ReadSig, ReadSize, ReadBody, LoadFails, Undefined, ReadLine, LineFails, GoOn,
         OtherPhaseFails, NumDone
<1>4. QED
  BY <1>1, <1>2, <1>3

\* What a step adds to the blocks.
LEMMA Growth ==
    ASSUME WindowInv, EntryInv, CountInv, [LoaderNext]_lvars
    PROVE  \/ loaded' = loaded
           \/ /\ step = "body" /\ ReadBody /\ Names(entry)
              /\ loaded' = Append(loaded, Body(entry)) /\ Body(entry) \in Seq(Nat)
           \/ /\ OPTS.fromcin /\ ReadLine
              /\ \E n \in Nat : loaded' = Append(loaded, n)
<1>1. CASE ReadBody
  <2>1. CASE size = 0
    BY <1>1, <2>1 DEF ReadBody
  <2>2. CASE size # 0
    <3>1. /\ Names(entry) /\ Words(entry.fileno, entry.offset, size) = Body(entry)
          /\ Body(entry) \in Seq(Nat)
      BY <1>1, <2>2, BodyNamed DEF ReadBody, Read
    <3>2. QED
      BY <1>1, <2>2, <3>1 DEF ReadBody
  <2>3. QED
    BY <2>1, <2>2
<1>2. CASE ReadLine
  <2>1. stdin \in Seq(Line) /\ stdin # <<>> /\ BufSize \in Nat
    BY <1>2, LoaderAssumption DEF ReadLine, WindowInv, LoaderTypeOK, BufSize
  <2>2. Head(stdin) \in Line
    BY <2>1
  <2>3. LineLen(Head(stdin)) \in Nat /\ LineLen(Head(stdin)) >= 2
    BY <1>2, <2>1, <2>2 DEF ReadLine, LineOK, LineLen, Line
  <2>4. HexLen(Head(stdin)) \in Nat
    BY <2>3 DEF HexLen
  <2>5. HexLen(Head(stdin)) \div 2 \in Nat
    BY <2>4
  <2>6. QED
    BY <1>2, <2>5 DEF ReadLine, Loop
<1>3. QED
  BY <1>1, <1>2 DEF LoaderNext, lvars, InitLoader, TakeTable, InitFails, RefuseTable, InitStdin,
     Locate, ReadSig, ReadSize, LoadFails, Undefined, LineFails, GoOn, OtherPhaseFails, NumDone

LEMMA CountStep == WindowInv /\ EntryInv /\ CountInv /\ [LoaderNext]_lvars => CountInv'
<1> SUFFICES ASSUME WindowInv, EntryInv, CountInv, [LoaderNext]_lvars
             PROVE  CountInv'
  OBVIOUS
<1> USE DEF CountInv
<1>1. /\ From' = From /\ From \in Nat /\ bk \in Nat /\ Len(loaded) \in Nat
  BY FromKept DEF WindowInv, LoaderTypeOK
<1>2. CASE /\ \E x \in Nat \cup Seq(Nat) : loaded' = Append(loaded, x)
           /\ ReadBody \/ ReadLine
  <2>1. loaded' \in Seq(Nat \cup Seq(Nat)) /\ Len(loaded') = Len(loaded) + 1
    BY <1>2
  <2>2. step' \in {"given", "stopped"} /\ bk' = bk /\ step \in {"body", "loop"}
    BY <1>2 DEF ReadBody, ReadLine, Loop
  <2>3. bk = From + Len(loaded)
    BY <2>2
  <2>4. bk' + 1 = From' + Len(loaded')
    BY <1>1, <2>1, <2>2, <2>3
  <2>5. QED
    BY <2>1, <2>2, <2>4
<1>3. CASE loaded' = loaded
  <2>1. CASE InitLoader \/ InitStdin
    BY <1>1, <1>3, <2>1 DEF InitLoader, TakeTable, InitStdin
  <2>2. CASE Locate \/ ReadSig \/ ReadSize \/ UNCHANGED lvars
    BY <1>1, <1>3, <2>2 DEF Locate, Loop, ReadSig, ReadSize, lvars
  <2>3. CASE GoOn
    BY <1>1, <1>3, <2>3 DEF GoOn
  <2>4. CASE \/ InitFails \/ LoadFails \/ Undefined \/ LineFails \/ OtherPhaseFails
             \/ NumDone
    BY <1>1, <1>3, <2>4 DEF InitFails, RefuseTable, LoadFails, Undefined, LineFails,
                            OtherPhaseFails, NumDone
  <2>5. CASE ReadBody
    <3>1. Append(loaded, Words(entry.fileno, entry.offset, size)) # loaded
      <4>1. ASSUME NEW x PROVE Append(loaded, x) # loaded
        OBVIOUS
      <4>2. QED
        BY <4>1
    <3>2. size = 0
      BY <1>3, <2>5, <3>1 DEF ReadBody
    <3>3. QED
      BY <1>1, <1>3, <2>5, <3>2 DEF ReadBody
  <2>6. CASE ReadLine
    <3>1. ASSUME NEW x PROVE Append(loaded, x) # loaded
      OBVIOUS
    <3>2. QED
      BY <1>3, <2>6, <3>1 DEF ReadLine
  <2>7. QED
    BY <2>1, <2>2, <2>3, <2>4, <2>5, <2>6 DEF LoaderNext
<1>4. QED
  BY <1>2, <1>3, Growth

LEMMA RightStep == WindowInv /\ LoadInv /\ [LoaderNext]_lvars => LoadedRight'
<1> SUFFICES ASSUME WindowInv, EntryInv, CountInv, LoadedRight, [LoaderNext]_lvars
             PROVE  LoadedRight'
  BY DEF LoadInv
<1>1. /\ From' = From /\ From \in Nat /\ OPTS'.fromcin = OPTS.fromcin
      /\ loaded \in Seq(Nat \cup Seq(Nat)) /\ Len(loaded) \in Nat
  BY FromKept DEF CountInv
<1>2. CASE step = "init"
  <2>1. loaded' = <<>>
    BY <1>2, Growth DEF CountInv, ReadLine, Loop
  <2>2. QED
    BY <2>1 DEF LoadedRight
<1>3. CASE step # "init"
  <2>1. FOFF' = FOFF /\ Qty' = Qty
    BY <1>3, FromKept DEF Qty
  <2>2. CASE OPTS.fromcin
    BY <1>1, <2>2 DEF LoadedRight
  <2>3. CASE ~OPTS.fromcin /\ loaded' = loaded
    BY <1>1, <2>1, <2>3 DEF LoadedRight, Names, Body
  <2>4. CASE /\ ~OPTS.fromcin /\ step = "body" /\ Names(entry)
             /\ loaded' = Append(loaded, Body(entry))
    <3> DEFINE n == Len(loaded) + 1
    <3>1. SUFFICES ASSUME NEW i \in DOMAIN loaded', From + i <= Qty
                   PROVE  Names(FOFF[From + i]) /\ loaded'[i] = Body(FOFF[From + i])
      BY <1>1, <2>1 DEF LoadedRight, Names, Body
    <3>2. i \in 1 .. n /\ i \in Nat
      BY <1>1, <2>4, <3>1
    <3>3. CASE i = n
      <4>1. bk + 1 = From + n /\ bk \in Nat
        BY <1>1, <2>4 DEF CountInv, WindowInv, LoaderTypeOK
      <4>2. bk < Qty
        BY <3>1, <3>3, <4>1 DEF Qty, WindowInv, LoaderTypeOK
      <4>3. entry = FOFF[From + n]
        BY <2>4, <4>1, <4>2 DEF EntryInv
      <4>4. loaded'[n] = Body(entry)
        BY <1>1, <2>4
      <4>5. QED
        BY <2>4, <3>3, <4>3, <4>4
    <3>4. CASE i # n
      <4>1. i \in DOMAIN loaded /\ loaded'[i] = loaded[i]
        BY <1>1, <2>4, <3>2, <3>4
      <4>2. QED
        BY <2>4, <3>1, <4>1 DEF LoadedRight
    <3>5. QED
      BY <3>3, <3>4
  <2>5. QED
    BY <2>2, <2>3, <2>4, Growth
<1>4. QED
  BY <1>2, <1>3

LEMMA LoadStep == WindowInv /\ LoadInv /\ [LoaderNext]_lvars => LoadInv'
  BY EntryStep, CountStep, RightStep DEF LoadInv

\* Whatever lies in the files and in the table, and however many files are
\* wanted open: each block that load_bk() gives is the one that the entry of
\* its height names, and no block comes from an entry that names none.
THEOREM LoadedRightCorrect == LoaderSpec => []LoadedRight
<1>1. LoaderInit => WindowInv /\ LoadInv
  BY WindowInit, LoadInit
<1>2. WindowInv /\ LoadInv /\ [LoaderNext]_lvars => WindowInv' /\ LoadInv'
  BY WindowStep, LoadStep
<1>3. LoadInv => LoadedRight
  BY DEF LoadInv
<1>4. QED
  BY <1>1, <1>2, <1>3, PTL DEF LoaderSpec

\* Of a block that an entry names, each part is found.
LEMMA NamedIsFound ==
    ASSUME WindowInv, Names(entry)
    PROVE  /\ InFile(entry.fileno, Before(2), 1)
           /\ Words(entry.fileno, Before(2), 1)[1] = Sign
           /\ InFile(entry.fileno, Before(1), 1)
           /\ Words(entry.fileno, Before(1), 1)[1] \in 1 .. MaxBkSize
           /\ InFile(entry.fileno, entry.offset, Words(entry.fileno, Before(1), 1)[1])
<1> DEFINE f == Disk[entry.fileno]
<1>1. /\ entry.fileno \in DOMAIN Disk /\ f \in Seq(Nat) /\ Len(f) \in Nat
      /\ entry.offset \in 2 .. Len(f)
      /\ f[entry.offset - 1] = Sign /\ f[entry.offset] \in 1 .. MaxBkSize
      /\ entry.offset + f[entry.offset] <= Len(f)
  BY LoaderAssumption DEF Names
<1>2. /\ InFile(entry.fileno, Before(2), 1) /\ InFile(entry.fileno, Before(1), 1)
      /\ entry.offset - 2 + 1 = entry.offset - 1
      /\ entry.offset - 1 + 1 = entry.offset
  <2>1. entry.offset \in Int /\ entry.offset >= 2 /\ entry.offset <= Len(f)
    BY <1>1
  <2>2. Before(2) = entry.offset - 2 /\ Before(1) = entry.offset - 1
    BY <2>1 DEF Before
  <2>3. /\ InFile(entry.fileno, entry.offset - 2, 1)
        /\ InFile(entry.fileno, entry.offset - 1, 1)
    <3>1. Len(f) \in Nat
      BY <1>1
    <3>2. QED
      BY <2>1, <3>1 DEF InFile
  <2>4. QED
    BY <2>1, <2>2, <2>3
<1>3. /\ Words(entry.fileno, Before(2), 1)[1] = f[entry.offset - 1]
      /\ Words(entry.fileno, Before(1), 1)[1] = f[entry.offset]
  <2>1. Words(entry.fileno, Before(2), 1)[1] = f[entry.offset - 2 + 1]
    BY <1>1, <1>2, Header
  <2>2. Words(entry.fileno, Before(1), 1)[1] = f[entry.offset - 1 + 1]
    BY <1>1, <1>2, Header
  <2>3. QED
    BY <1>2, <2>1, <2>2
<1>4. QED
  BY <1>1, <1>2, <1>3 DEF InFile

LEMMA StopReason ==
    ASSUME WindowInv, EntryInv, LoaderNext, step' = "stopped", ~OPTS.fromcin,
           bk < Qty
    PROVE  ~Names(FOFF[bk + 1])
<1> SUFFICES ASSUME Names(FOFF[bk + 1])
             PROVE  FALSE
  OBVIOUS
<1>1. ReadSig \/ ReadSize \/ ReadBody \/ LoadFails
  BY DEF LoaderNext, InitLoader, TakeTable, InitFails, RefuseTable, InitStdin, Locate,
         Undefined, ReadLine, LineFails, Loop, GoOn, OtherPhaseFails, NumDone
<1>2. Names(entry)
  BY <1>1 DEF ReadSig, ReadSize, ReadBody, LoadFails, EntryInv
<1>3. entry.fileno \in Nat /\ Qty \in Nat
  BY DEF WindowInv, LoaderTypeOK, Entry, Qty
<1>4. CASE ReadSig
  BY <1>2, <1>4, NamedIsFound DEF ReadSig
<1>5. CASE ReadSize
  <2>1. size' \in 1 .. MaxBkSize
    BY <1>2, <1>5, NamedIsFound DEF ReadSize
  <2>2. QED
    BY <1>5, <2>1, LoaderAssumption DEF ReadSize
<1>6. CASE ReadBody
  <2>1. size \in 1 .. MaxBkSize
    BY <1>2, <1>6, NamedIsFound DEF ReadBody, EntryInv
  <2>2. QED
    BY <1>6, <2>1 DEF ReadBody
<1>7. CASE LoadFails
  <2>1. ~OpenFails(entry.fileno)
    BY <1>2, <1>3 DEF OpenFails, Names
  <2>2. step = "body" => size = Words(entry.fileno, Before(1), 1)[1]
    BY DEF EntryInv
  <2>3. QED
    BY <1>2, <1>7, <2>1, <2>2, NamedIsFound DEF LoadFails, ReadFails
<1>8. QED
  BY <1>1, <1>4, <1>5, <1>6, <1>7

\* load_bk() fails for no block that an entry of the table names, whatever
\* was opened and closed before, for any WIN_SIZE.
THEOREM NeverStopsShortCorrect == LoaderSpec => NeverStopsShort
<1>1. LoaderInit => WindowInv /\ LoadInv
  BY WindowInit, LoadInit
<1>2. WindowInv /\ LoadInv /\ [LoaderNext]_lvars => WindowInv' /\ LoadInv'
  BY WindowStep, LoadStep
<1>3. WindowInv /\ LoadInv /\ [LoaderNext]_lvars =>
        [(step' = "stopped" /\ ~OPTS.fromcin) =>
            bk >= Qty \/ ~Names(FOFF[bk + 1])]_lvars
  <2>1. SUFFICES ASSUME WindowInv, EntryInv, LoaderNext, step' = "stopped",
                        ~OPTS.fromcin
                 PROVE  bk >= Qty \/ ~Names(FOFF[bk + 1])
    BY DEF LoadInv
  <2>2. bk \in Nat /\ Qty \in Nat
    BY <2>1 DEF WindowInv, LoaderTypeOK, Qty
  <2>3. QED
    BY <2>1, <2>2, StopReason
<1>4. QED
  BY <1>1, <1>2, <1>3, PTL DEF LoaderSpec, NeverStopsShort
\* The limits of a line are those of a block: the length with the newline, which
\* the buffer may have cut, and without it.
LEMMA LineIsBlock ==
    ASSUME NEW l \in Line
    PROVE  LineOK(l) <=> WholeBlock(l)
<1> DEFINE c == l.chars  b == BufSize
<1>1. c \in Nat /\ l.nl \in BOOLEAN /\ MaxBkSize \in Nat /\ b = 2 * MaxBkSize + 3
  BY LoaderAssumption DEF Line, BufSize
<1>2. LineOK(l) <=> c >= 2 /\ c < b - 2 /\ c % 2 = 0
  <2>1. CASE l.nl
    <3>1. CASE c + 1 < b - 1
      <4>1. LineLen(l) = c + 1 /\ HexLen(l) = c
        BY <1>1, <2>1, <3>1 DEF LineLen, HexLen
      <4> QED  BY <1>1, <3>1, <4>1 DEF LineOK
    <3>2. CASE ~ (c + 1 < b - 1)
      <4>1. LineLen(l) = b - 1
        BY <1>1, <2>1, <3>2 DEF LineLen
      <4> QED  BY <1>1, <3>2, <4>1 DEF LineOK
    <3> QED  BY <3>1, <3>2
  <2>2. CASE ~l.nl
    <3>1. CASE c < b - 1
      <4>1. LineLen(l) = c /\ HexLen(l) = c
        BY <1>1, <2>2, <3>1 DEF LineLen, HexLen
      <4> QED  BY <1>1, <3>1, <4>1 DEF LineOK
    <3>2. CASE ~ (c < b - 1)
      <4>1. LineLen(l) = b - 1
        BY <1>1, <2>2, <3>2 DEF LineLen
      <4> QED  BY <1>1, <3>2, <4>1 DEF LineOK
    <3> QED  BY <3>1, <3>2
  <2> QED  BY <1>1, <2>1, <2>2
<1>3. WholeBlock(l) <=> \E n \in 1 .. MaxBkSize : c = 2 * n
  BY DEF WholeBlock
<1> HIDE DEF c, b
<1>4. (c >= 2 /\ c < b - 2 /\ c % 2 = 0) <=> \E n \in 1 .. MaxBkSize : c = 2 * n
  <2>1. ASSUME c >= 2, c < b - 2, c % 2 = 0
        PROVE  \E n \in 1 .. MaxBkSize : c = 2 * n
    <3>1. c \div 2 \in 1 .. MaxBkSize /\ c = 2 * (c \div 2)
      BY <1>1, <2>1
    <3> QED  BY <3>1
  <2>2. ASSUME NEW n \in 1 .. MaxBkSize, c = 2 * n
        PROVE  c >= 2 /\ c < b - 2 /\ c % 2 = 0
    BY <1>1, <2>2
  <2> QED  BY <2>1, <2>2
<1> QED  BY <1>2, <1>3, <1>4

\* stdin_bk() takes a line iff it is a whole block of at most MAX_BK_SIZE bytes, for
\* any MAX_BK_SIZE and any line.
THEOREM LineTakenCorrect == LoaderSpec => LineTakenIffWhole
<1>1. LoaderInit => WindowInv
  BY WindowInit
<1>2. WindowInv /\ [LoaderNext]_lvars => WindowInv'
  BY WindowStep
<1>3. WindowInv /\ [LoaderNext]_lvars =>
        [(Loop /\ OPTS.fromcin) =>
            (step' = "given" <=> (stdin # <<>> /\ WholeBlock(Head(stdin))))]_lvars
  <2>1. SUFFICES ASSUME WindowInv, LoaderNext, Loop, OPTS.fromcin
                 PROVE  step' = "given" <=> (stdin # <<>> /\ WholeBlock(Head(stdin)))
    OBVIOUS
  <2>2. ReadLine \/ LineFails
    BY <2>1 DEF LoaderNext, InitLoader, TakeTable, InitFails, RefuseTable, InitStdin, Locate,
       ReadSig, ReadSize, ReadBody, LoadFails, Undefined, Loop, GoOn, OtherPhaseFails, NumDone
  <2>3. step' = "given" <=> (stdin # <<>> /\ LineOK(Head(stdin)))
    BY <2>2 DEF ReadLine, LineFails
  <2>4. stdin # <<>> => Head(stdin) \in Line
    BY <2>1 DEF WindowInv, LoaderTypeOK
  <2> QED  BY <2>3, <2>4, LineIsBlock
<1>4. QED
  BY <1>1, <1>2, <1>3, PTL DEF LoaderSpec, LineTakenIffWhole

-----------------------------------------------------------------------------
\* What the records of an index are taken for is what they are meant to say.
PlacesRight ==
    \A h \in DOMAIN Places \cap DOMAIN Ldb :
        Decoded[h].ok => /\ Decoded[h].h = Places[h].height
                         /\ Decoded[h].f = Places[h].fileno
                         /\ Decoded[h].d = Places[h].offset

\* The entry of a record.
EntryOf(h) == [fileno |-> Decoded[h].f, offset |-> Decoded[h].d]

\* Entry n was made of line n, and of no other record than the one it names.
EntriesInv ==
    /\ Len(table) <= Len(hashes)
    /\ \A n \in DOMAIN table :
          /\ hashes[n].nl /\ hashes[n].hash # Unreadable
          /\ Usable(hashes[n].hash)
          /\ Decoded[hashes[n].hash].h = n - 1
          /\ table[n] = EntryOf(hashes[n].hash)

\* What is left in the key is the hash of the last entry, whose height is not
\* that of the next one.
KeyInv ==
    key = IF table = <<>> THEN Unreadable ELSE hashes[Len(table)].hash

LocsInv ==
    /\ tool = "off" => table = <<>> /\ locs = <<>> /\ cut = FALSE
    /\ Len(locs) <= Len(table) /\ locs = SubSeq(table, 1, Len(locs))
    /\ cut => Len(locs) < Len(table)
    /\ tool = "ok" => ~HasLine

ToolInv == ToolTypeOK /\ EntriesInv /\ KeyInv /\ LocsInv

LEMMA LineType == ASSUME hashes \in Seq(HashLine), NEW n \in DOMAIN hashes
                  PROVE  hashes[n] \in HashLine
  OBVIOUS

\* A record that is accepted fits an entry of the table.
LEMMA EntryType == ASSUME NEW h, Usable(h) PROVE EntryOf(h) \in LocsEntry
<1> DEFINE numbers == Numbers(Ldb[h])
           At(i) == IF i <= Len(numbers) THEN numbers[i] ELSE 0
           data == HaveData(At(3))
           undo == HaveUndo(At(3))
           f == IF data \/ undo THEN At(5) ELSE 0
           d == IF data THEN At(6) ELSE 0
           u == At(IF data THEN 7 ELSE 6)
           good == FileOK(f) /\ (data => OffsetOK(d)) /\ (undo => OffsetOK(u))
<1>1. Decoded[h] = [h |-> At(2), f |-> f, d |-> d, ok |-> good]
  BY Zenon DEF Usable, Decoded, DecodeRec
<1>2. good
  <2>1. Decoded[h].ok
    BY DEF Usable
  <2> HIDE DEF At, f, d, good
  <2> QED
    BY <1>1, <2>1
<1>3. f \in 0 .. MaxFileNo
  BY <1>2 DEF FileOK
<1>4. d \in 0 .. MaxOffset
  BY <1>2, BkLocsAssumption DEF OffsetOK
<1>5. EntryOf(h) = [fileno |-> f, offset |-> d]
  <2> HIDE DEF f, d, good
  <2> QED
    BY <1>1 DEF EntryOf
<1> QED
  BY <1>3, <1>4, <1>5 DEF LocsEntry

\* A line is accepted for what is on it, never for what was left in the key.
LEMMA AcceptedOwn ==
    ASSUME ToolInv, HasLine, LineAccepted
    PROVE  /\ NewKey = hashes[bk_no + 1].hash
           /\ hashes[bk_no + 1].hash # Unreadable
<1>1. SUFFICES ASSUME hashes[bk_no + 1].hash = Unreadable PROVE FALSE
  BY DEF NewKey
<1>2. NewKey = key /\ Usable(key) /\ Decoded[key].h = Len(table)
  BY <1>1 DEF NewKey, LineAccepted, bk_no
<1>3. table # <<>>
  BY <1>2, BkLocsAssumption DEF ToolInv, KeyInv, Usable
<1>4. Len(table) \in DOMAIN table /\ Len(table) \in Nat
  BY <1>3 DEF ToolInv, ToolTypeOK
<1>5. Decoded[key].h = Len(table) - 1
  BY <1>3, <1>4 DEF ToolInv, KeyInv, EntriesInv
<1> QED
  BY <1>2, <1>4, <1>5

LEMMA WriteStep == ASSUME ToolInv, WriteEntry PROVE ToolInv'
<1> DEFINE n == Len(table) + 1
           h == hashes[n].hash
<1>1. /\ tool = "read" /\ tool' = tool /\ hashes' = hashes /\ locs' = locs /\ cut' = cut
      /\ NewKey = h /\ h # Unreadable
      /\ table' = Append(table, EntryOf(h)) /\ key' = h
      /\ Usable(h) /\ Decoded[h].h = Len(table)
  BY AcceptedOwn DEF WriteEntry, LineAccepted, EntryOf, bk_no
<1>2. /\ Len(table) \in Nat /\ n <= Len(hashes) /\ hashes[n].nl
      /\ hashes \in Seq(HashLine) /\ n \in DOMAIN hashes
  BY DEF WriteEntry, HasLine, bk_no, ToolInv, ToolTypeOK
<1>3. EntryOf(h) \in LocsEntry
  BY <1>1, EntryType
<1>4. /\ table' \in Seq(LocsEntry) /\ Len(table') = n
      /\ \A m \in DOMAIN table : table'[m] = table[m]
      /\ table'[n] = EntryOf(h)
      /\ DOMAIN table' = DOMAIN table \cup {n}
  BY <1>1, <1>2, <1>3 DEF ToolInv, ToolTypeOK
<1>5. hashes[n] \in HashLine
  BY <1>2, LineType
<1>6. ToolTypeOK'
  BY <1>1, <1>4, <1>5 DEF ToolInv, ToolTypeOK, HashLine
<1>7. EntriesInv'
  BY <1>1, <1>2, <1>4 DEF ToolInv, EntriesInv, Usable
<1>8. KeyInv'
  BY <1>1, <1>2, <1>4 DEF ToolInv, KeyInv
<1>9. LocsInv'
  <2>1. SubSeq(table', 1, Len(locs)) = SubSeq(table, 1, Len(locs))
    BY <1>1, <1>2, <1>4 DEF ToolInv, LocsInv, ToolTypeOK
  <2> QED
    BY <1>1, <1>2, <1>4, <2>1 DEF ToolInv, LocsInv, ToolTypeOK
<1> QED
  BY <1>6, <1>7, <1>8, <1>9 DEF ToolInv

\* What the stream left on the disk is a beginning of what was written, and
\* whatever was lost, the lines are used up where the tool says that it is done.
LEMMA FlushedStep ==
    ASSUME ToolInv, Flushed, tool' = "failed" \/ (tool' = "ok" /\ ~HasLine),
           UNCHANGED <<hashes, key, table>>
    PROVE  ToolInv'
<1>1. PICK n \in 0 .. Len(table) : locs' = SubSeq(table, 1, n)
  BY DEF Flushed, bk_no
<1>2. locs' \in Seq(LocsEntry) /\ Len(locs') = n
  BY <1>1 DEF ToolInv, ToolTypeOK
<1>3. cut' \in BOOLEAN /\ (cut' => Len(locs') < Len(table))
  BY Zenon DEF Flushed, bk_no
<1>4. HasLine' = HasLine
  BY DEF HasLine, bk_no
<1> QED
  BY <1>1, <1>2, <1>3, <1>4 DEF ToolInv, ToolTypeOK, EntriesInv, KeyInv, LocsInv

LEMMA ToolStepInv == ToolInv /\ [ToolNext]_tvars => ToolInv'
<1> SUFFICES ASSUME ToolInv, [ToolNext]_tvars PROVE ToolInv'
  OBVIOUS
<1>1. CASE ToolStarts
  <2>1. table = <<>> /\ table' = <<>> /\ locs' = <<>> /\ cut' = FALSE /\ key' = key
        /\ tool' \in {"read", "failed"} /\ hashes' \in Seq(HashLine)
    BY <1>1, BkLocsAssumption DEF ToolStarts, ToolInv, LocsInv
  <2>2. locs' \in Seq(LocsEntry) /\ Len(locs') = 0 /\ locs' = SubSeq(table', 1, Len(locs'))
    BY <2>1
  <2>3. LocsInv'
    <3>1. ~ cut' /\ tool' \notin {"off", "ok"} /\ Len(locs') <= Len(table')
      BY <2>1, <2>2
    <3> QED
      BY <2>2, <3>1, Zenon DEF LocsInv
  <2>4. EntriesInv' /\ KeyInv'
    BY <2>1 DEF ToolInv, ToolTypeOK, EntriesInv, KeyInv
  <2>5. ToolTypeOK'
    BY <2>1, <2>2, Zenon DEF ToolInv, ToolTypeOK
  <2> QED
    BY <2>3, <2>4, <2>5 DEF ToolInv
<1>2. CASE WriteEntry
  BY <1>2, WriteStep
<1>3. CASE ToolExits \/ ToolKilled \/ ToolDone
  BY <1>3, FlushedStep DEF ToolExits, ToolKilled, ToolDone
<1>4. CASE UNCHANGED tvars
  BY <1>4 DEF tvars, ToolInv, ToolTypeOK, EntriesInv, KeyInv, LocsInv, HasLine, bk_no
<1> QED
  BY <1>1, <1>2, <1>3, <1>4 DEF ToolNext

LEMMA ToolInitInv == ToolInit => ToolInv
<1> SUFFICES ASSUME ToolInit PROVE ToolInv
  OBVIOUS
<1>1. /\ tool = "off" /\ hashes = <<>> /\ key = Unreadable /\ table = <<>> /\ locs = <<>>
      /\ cut = FALSE /\ Unreadable \in STRING
  BY BkLocsAssumption DEF ToolInit
<1>2. /\ locs \in Seq(LocsEntry) /\ table \in Seq(LocsEntry) /\ hashes \in Seq(HashLine)
      /\ Len(locs) <= Len(table) /\ locs = SubSeq(table, 1, Len(locs))
  BY <1>1
<1>3. ToolTypeOK
  BY <1>1, <1>2, Zenon DEF ToolTypeOK
<1>4. EntriesInv /\ KeyInv
  BY <1>1 DEF EntriesInv, KeyInv
<1>5. LocsInv
  <2>1. ~ cut /\ tool # "ok"
    BY <1>1
  <2> QED
    BY <1>1, <1>2, <2>1, Zenon DEF LocsInv
<1> QED
  BY <1>3, <1>4, <1>5 DEF ToolInv

\* The table fits what the loader takes for one, whatever the index holds.
THEOREM ToolTypeCorrect == ToolSpec => []ToolTypeOK
<1>1. ToolInv => ToolTypeOK
  BY DEF ToolInv
<1> QED
  BY <1>1, ToolInitInv, ToolStepInv, PTL DEF ToolSpec

-----------------------------------------------------------------------------
\* All lines that end were taken once there is none left.
LEMMA AllTaken == ASSUME ToolInv, ~HasLine PROVE DOMAIN table = Ended
<1>1. /\ table \in Seq(LocsEntry) /\ hashes \in Seq(HashLine)
      /\ Len(table) <= Len(hashes)
      /\ Len(table) = Len(hashes) \/ ~hashes[Len(table) + 1].nl
  BY DEF ToolInv, ToolTypeOK, EntriesInv, HasLine, bk_no
<1>2. \A n \in DOMAIN table : n \in Ended
  BY <1>1 DEF Ended, ToolInv, EntriesInv
<1>3. \A n \in Ended : n \in DOMAIN table
  BY <1>1 DEF Ended
<1> QED
  BY <1>2, <1>3

LEMMA LocsEnough == ASSUME PlacesRight, ToolInv PROVE LocsRight
<1>1. ASSUME NEW n \in DOMAIN table, hashes[n].hash \in DOMAIN Places
      PROVE  /\ Places[hashes[n].hash].height = n - 1
             /\ table[n] = [fileno |-> Places[hashes[n].hash].fileno,
                            offset |-> Places[hashes[n].hash].offset]
  BY <1>1 DEF PlacesRight, ToolInv, EntriesInv, Usable, EntryOf
<1>2. \A n \in DOMAIN table : hashes[n].hash # Unreadable
  BY DEF ToolInv, EntriesInv
<1>3. tool = "ok" => DOMAIN table = Ended
  BY AllTaken DEF ToolInv, LocsInv
<1> QED
  BY <1>1, <1>2, <1>3 DEF LocsRight, ToolInv, LocsInv

\* If records are decoded to what they are meant to say, the locs-file has the
\* places of the blocks on the lines, from the first on and nothing else: for
\* every index, every file of hashes, wherever the tool stops and whatever is
\* lost of what it writes; and it says that it is done only after it has found
\* the blocks of all lines.
THEOREM LocsCorrect == PlacesRight => (ToolSpec => []LocsRight)
<1>1. PlacesRight /\ ToolInv => LocsRight
  BY LocsEnough
<1>2. SUFFICES ASSUME PlacesRight PROVE ToolSpec => []LocsRight
  OBVIOUS
<1>3. ToolInv => LocsRight
  BY <1>1, <1>2
<1> QED
  BY <1>3, ToolInitInv, ToolStepInv, PTL DEF ToolSpec

-----------------------------------------------------------------------------
\* The table of a run that begins with the tool is what the tool has left.
TableInv ==
    (tool # "off" /\ ~OPTS.fromcin) =>
        IF step \in {"init", "refused"} THEN loaded = <<>> ELSE FOFF = locs

PipeInv == ToolInv /\ WindowInv /\ LoadInv /\ TableInv

LEMMA PipeInitInv == PipeInit => PipeInv
<1> SUFFICES ASSUME PipeInit PROVE PipeInv
  OBVIOUS
<1>1. ToolInv /\ WindowInv /\ LoadInv
  BY ToolInitInv, WindowInit, LoadInit DEF PipeInit
<1> QED
  BY <1>1 DEF PipeInit, ToolInit, PipeInv, TableInv

\* What the tool writes has the form of a table.
LEMMA MadeType == ToolTypeOK => Made.table \in Seq(Entry) /\ Made.table = locs
<1>1. LocsEntry \subseteq Entry
  <2>1. /\ MaxFileNo \in Nat /\ MaxOffset \in Nat /\ OffWrap \in Nat
        /\ MaxOffset < OffWrap
    BY BkLocsAssumption, LoaderAssumption, LocsLoaderAssumption
  <2>2. 0 .. MaxFileNo \subseteq Nat /\ 0 .. MaxOffset \subseteq 0 .. OffWrap - 1
    BY <2>1
  <2> QED
    BY <2>2 DEF LocsEntry, Entry
<1> QED
  BY <1>1 DEF ToolTypeOK, Made

\* The tool is not used once bce2 is started, and before that nothing is loaded.
LEMMA ToolKeeps == ASSUME PipeInv, ToolStep PROVE PipeInv'
<1>1. ToolInv'
  BY ToolStepInv DEF ToolStep, PipeInv
<1>2. WindowInv' /\ LoadInv'
  BY WindowStep, LoadStep DEF ToolStep, PipeInv
<1>3. step = "init" /\ step' = step /\ loaded' = <<>>
  BY DEF ToolStep, lvars, PipeInv, LoadInv, CountInv
<1> QED
  BY <1>1, <1>2, <1>3 DEF PipeInv, TableInv

LEMMA TakeMadeKeeps == ASSUME PipeInv, TakeMade PROVE PipeInv'
<1>1. ToolInv' /\ locs' = locs /\ tool' = tool
  BY ToolStepInv DEF TakeMade, PipeInv, tvars
<1>2. Made.table \in Seq(Entry) /\ Made.table = locs
  BY MadeType DEF PipeInv, ToolInv
<1>3. /\ step = "init" /\ step' \in {"loop", "refused"} /\ ~OPTS.fromcin
      /\ UNCHANGED <<OPTS, entry, size, window, stdin, loaded>>
      /\ FOFF' \in {locs, FOFF} /\ (step' = "loop" => FOFF' = locs)
      /\ bk' \in {bk, From} /\ (step' = "loop" => bk' = From)
  BY <1>2 DEF TakeMade, TakeTable, RefuseTable
<1>4. From \in Nat /\ From' = From
  BY <1>3 DEF PipeInv, WindowInv, LoaderTypeOK, From
<1>5. WindowInv'
  <2>1. LoaderTypeOK'
    BY <1>2, <1>3, <1>4 DEF PipeInv, WindowInv, LoaderTypeOK, Steps, window
  <2> QED
    BY <1>3, <2>1 DEF PipeInv, WindowInv, Queue, window
<1>6. loaded = <<>> /\ loaded' = <<>>
  BY <1>3 DEF PipeInv, LoadInv, CountInv
<1>7. LoadInv'
  BY <1>3, <1>4, <1>6 DEF PipeInv, LoadInv, EntryInv, CountInv, LoadedRight
<1> QED
  BY <1>1, <1>3, <1>5, <1>6, <1>7 DEF PipeInv, TableInv

LEMMA LoaderKeeps == ASSUME PipeInv, LoaderStep PROVE PipeInv'
<1>1. ToolInv' /\ locs' = locs /\ tool' = tool
  BY ToolStepInv DEF LoaderStep, PipeInv, tvars
<1>2. WindowInv' /\ LoadInv'
  BY WindowStep, LoadStep DEF LoaderStep, PipeInv
<1>3. OPTS'.fromcin = OPTS.fromcin /\ (step # "init" => FOFF' = FOFF)
  BY FromKept DEF LoaderStep, PipeInv
<1>4. ASSUME tool # "off", ~OPTS.fromcin
      PROVE  /\ step \notin {"init", "refused"}
             /\ step' \notin {"init", "refused"}
  <2>1. step # "init"
    BY <1>4 DEF LoaderStep
  <2> QED
    BY <2>1 DEF LoaderStep, LoaderNext, InitLoader, InitFails, InitStdin, Locate,
       ReadSig, ReadSize, ReadBody, LoadFails, Undefined, ReadLine, LineFails,
       Loop, GoOn, OtherPhaseFails, NumDone
<1> QED
  BY <1>1, <1>2, <1>3, <1>4 DEF PipeInv, TableInv

LEMMA PipeStep == PipeInv /\ [PipeNext]_pipevars => PipeInv'
<1> SUFFICES ASSUME PipeInv, [PipeNext]_pipevars PROVE PipeInv'
  OBVIOUS
<1>1. CASE UNCHANGED pipevars
  <2>1. ToolInv' /\ WindowInv' /\ LoadInv'
    BY <1>1, ToolStepInv, WindowStep, LoadStep DEF pipevars, PipeInv
  <2> QED
    BY <1>1, <2>1 DEF pipevars, tvars, lvars, PipeInv, TableInv
<1> QED
  BY <1>1, ToolKeeps, TakeMadeKeeps, LoaderKeeps DEF PipeNext

LEMMA AskedEnough == ASSUME PlacesRight, PipeInv PROVE LoadedAsAsked
<1> SUFFICES ASSUME tool # "off", ~OPTS.fromcin, NEW i \in DOMAIN loaded,
                    From + i <= Qty, hashes[From + i].hash \in DOMAIN Places
             PROVE  /\ Stored(hashes[From + i].hash)
                    /\ loaded[i] = Body(Places[hashes[From + i].hash])
                    /\ Places[hashes[From + i].hash].height = From + i - 1
  BY DEF LoadedAsAsked
<1> DEFINE n == From + i
           h == hashes[n].hash
           p == Places[h]
<1>1. From \in Nat /\ i \in Nat /\ i >= 1 /\ Qty \in Nat
  <2>1. loaded \in Seq(Nat \cup Seq(Nat))
    BY DEF PipeInv, LoadInv, CountInv
  <2> QED
    BY <2>1 DEF PipeInv, WindowInv, LoaderTypeOK, From, Qty
<1>2. FOFF = locs
  BY DEF PipeInv, TableInv
<1>3. n \in DOMAIN locs /\ n \in DOMAIN table /\ locs[n] = table[n]
  <2>1. /\ locs \in Seq(LocsEntry) /\ table \in Seq(LocsEntry)
        /\ Len(locs) <= Len(table) /\ locs = SubSeq(table, 1, Len(locs))
    BY DEF PipeInv, ToolInv, ToolTypeOK, LocsInv
  <2>2. n \in 1 .. Len(locs)
    BY <1>1, <1>2 DEF Qty
  <2> QED
    BY <2>1, <2>2
<1>4. LocsRight
  BY LocsEnough DEF PipeInv
<1>5. /\ p.height = n - 1
      /\ FOFF[n] = [fileno |-> p.fileno, offset |-> p.offset]
  BY <1>2, <1>3, <1>4 DEF LocsRight
<1>6. Names(FOFF[n]) /\ loaded[i] = Body(FOFF[n])
  BY DEF PipeInv, LoadInv, LoadedRight
<1>7. Body(FOFF[n]) = Body(p)
  BY <1>5 DEF Body
<1>8. Stored(h)
  BY <1>5, <1>6 DEF Stored
<1>9. loaded[i] = Body(p)
  BY <1>6, <1>7
<1> QED
  BY <1>1, <1>5, <1>8, <1>9

\* Whatever lies in the dat-files, the index and the file of hashes, and
\* wherever the tool stopped: if records are decoded to what they are meant to
\* say, the n-th block that bce2 is given is the one on line -f + n.
THEOREM LoadedAsAskedCorrect == PlacesRight => (PipeSpec => []LoadedAsAsked)
<1>1. SUFFICES ASSUME PlacesRight PROVE PipeSpec => []LoadedAsAsked
  OBVIOUS
<1>2. PipeInv => LoadedAsAsked
  BY <1>1, AskedEnough
<1> QED
  BY <1>2, PipeInitInv, PipeStep, PTL DEF PipeSpec

\* bce2 started after the tool keeps everything it keeps when it is started
\* alone: its window is the one asked for, and each block it is given is the
\* one that its table names.
THEOREM PipeLoaderCorrect == PipeSpec => [](LoaderTypeOK /\ WindowOK /\ LoadedRight)
<1>1. PipeInv => LoaderTypeOK /\ WindowOK /\ LoadedRight
  BY DEF PipeInv, WindowInv, WindowOK, Queue, LoadInv
<1> QED
  BY <1>1, PipeInitInv, PipeStep, PTL DEF PipeSpec
=============================================================================
