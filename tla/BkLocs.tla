------------------------------- MODULE BkLocs -------------------------------
(***************************************************************************)
(* btcbklocs: the tool that makes the locs-file.  For each line of a file  *)
(* of block hashes, in order of height, it looks the block up in the index *)
(* of bitcoind and writes the place of the block: file number and offset.  *)
(***************************************************************************)
EXTENDS Integers, Sequences
LOCAL INSTANCE SequencesExt

CONSTANTS
    MaxFileNo, MinOffset, MaxOffset,  \* 2999, 8 bytes, 256 MB
    Ldb,         \* the index: from hashes to records, which are bytes
    Unreadable,  \* a line of 64 symbols that are no hex digits
    HashFiles,   \* files of hashes: lines [hash, len, nl]
    Places       \* reference: what the records that are whole say of a
                 \* block that is stored, [height, fileno, offset]

HashLine == [hash : STRING, len : Nat, nl : BOOLEAN]

ASSUME BkLocsAssumption ==
    /\ MaxFileNo \in Nat /\ MinOffset \in Nat /\ MaxOffset \in Nat
    /\ \A h \in DOMAIN Ldb : Ldb[h] \in Seq(0 .. 255)
    /\ Unreadable \in STRING /\ Unreadable \notin DOMAIN Ldb
    /\ HashFiles \subseteq Seq(HashLine)

VARIABLES
    tool,    \* where the tool is
    hashes,  \* the file of hashes
    key,     \* key: the hash that is looked up
    table,   \* the entries that were written to the stream; bk_no of them
    locs,    \* the entries of the locs-file that are whole
    cut      \* whether it ends with a part of one

tvars == <<tool, hashes, key, table, locs, cut>>

\* What is in key before the first line is no key of the index.
ToolInit ==
    /\ tool = "off" /\ hashes = <<>>
    /\ key = Unreadable /\ table = <<>> /\ locs = <<>>
    /\ cut = FALSE

bk_no == Len(table)

-----------------------------------------------------------------------------
\* get_varint(), called until a record is used up: groups of 7 bits, the
\* highest first; a byte of 128 or more says that another one follows.  The
\* byte behind the record is 0 and belongs to the string.

\* Mutant: a byte that goes on adds nothing of its own.
TakeBytePlain(got, byte) ==
    LET n == 128 * got.part + (byte % 128)
    IN  IF byte < 128 THEN [numbers |-> Append(got.numbers, n), part |-> 0]
                      ELSE [got EXCEPT !.part = n]

TakeByte(got, byte) ==
    LET n == 128 * got.part + (byte % 128)
    IN  IF byte < 128 THEN [numbers |-> Append(got.numbers, n), part |-> 0]
                      ELSE [got EXCEPT !.part = n + 1]

Numbers(rec) ==
    FoldLeft(TakeByte, [numbers |-> <<>>, part |-> 0], rec \o <<0>>).numbers

HaveData(status) == (status \div 8) % 2 = 1
HaveUndo(status) == (status \div 16) % 2 = 1

\* Mutant: MAXFILENO is the number of files.
FileOKNext(no) == no \in 0 .. MaxFileNo + 1

FileOK(no)     == no \in 0 .. MaxFileNo
OffsetOK(pos)  == pos \in MinOffset .. MaxOffset

\* decode_rec(): version, height, status, number of transactions, and then
\* what the status says there is.  Behind the record all numbers are 0.
DecodeRec(rec) ==
    LET numbers == Numbers(rec)
        At(i)   == IF i <= Len(numbers) THEN numbers[i] ELSE 0
        data == HaveData(At(3))
        undo == HaveUndo(At(3))
        f == IF data \/ undo THEN At(5) ELSE 0
        d == IF data THEN At(6) ELSE 0
        u == At(IF data THEN 7 ELSE 6)
    IN  [h |-> At(2), f |-> f, d |-> d,
         ok |-> FileOK(f) /\ (data => OffsetOK(d)) /\ (undo => OffsetOK(u))]

-----------------------------------------------------------------------------
\* main().

\* The output is emptied; the index or the file of hashes may not be there,
\* and then it is not.
ToolStarts ==
    /\ tool = "off" /\ hashes' \in HashFiles
    /\ \/ tool' = "read" /\ locs' = <<>> /\ cut' = FALSE
       \/ tool' = "failed" /\ UNCHANGED <<locs, cut>>
    /\ UNCHANGED <<key, table>>

\* getline() finds a line that ends.
HasLine == bk_no < Len(hashes) /\ hashes[bk_no + 1].nl

\* sscanf() leaves the key as it was where it finds no digits.
NewKey == IF hashes[bk_no + 1].hash = Unreadable THEN key ELSE hashes[bk_no + 1].hash

\* What the records say, by hash.
Decoded == [h \in DOMAIN Ldb |-> DecodeRec(Ldb[h])]
Usable(k) == k \in DOMAIN Ldb /\ Decoded[k].ok

\* Mutant: the height in the record is not looked at.
LineAcceptedAnyHeight == hashes[bk_no + 1].len = 64 /\ Usable(NewKey)

LineAccepted ==
    /\ hashes[bk_no + 1].len = 64
    /\ Usable(NewKey) /\ Decoded[NewKey].h = bk_no

WriteEntry ==
    /\ tool = "read" /\ HasLine /\ LineAccepted
    /\ key' = NewKey
    /\ table' = Append(table, [fileno |-> Decoded[NewKey].f,
                               offset |-> Decoded[NewKey].d])
    /\ UNCHANGED <<tool, hashes, locs, cut>>

\* What the file has of the stream: the first entries, all of them or not, and
\* maybe a part of the next one.  The buffer is lost when the stream is not
\* closed; and on a disk that is full what is written is cut off.
Flushed ==
    /\ \E n \in 0 .. bk_no : locs' = SubSeq(table, 1, n)
    /\ cut' \in BOOLEAN /\ (cut' => Len(locs') < bk_no)

\* A line that is not accepted: exit().
ToolExits ==
    /\ tool = "read" /\ HasLine /\ ~LineAccepted
    /\ tool' = "failed"
    /\ Flushed
    /\ UNCHANGED <<hashes, key, table>>

ToolKilled ==
    /\ tool = "read"
    /\ tool' = "failed"
    /\ Flushed
    /\ UNCHANGED <<hashes, key, table>>

\* The lines are used up.  Whether write() and close() failed is not looked at.
ToolDone ==
    /\ tool = "read" /\ ~HasLine
    /\ tool' = "ok"
    /\ Flushed
    /\ UNCHANGED <<hashes, key, table>>

ToolNext == ToolStarts \/ WriteEntry \/ ToolExits \/ ToolKilled \/ ToolDone

ToolSpec == ToolInit /\ [][ToolNext]_tvars
-----------------------------------------------------------------------------
LocsEntry == [fileno : 0 .. MaxFileNo, offset : 0 .. MaxOffset]

\* Types of the variables.
ToolTypeOK ==
    /\ tool \in {"off", "read", "failed", "ok"}
    /\ hashes \in Seq(HashLine)
    /\ key \in STRING
    /\ table \in Seq(LocsEntry) /\ locs \in Seq(LocsEntry)
    /\ cut \in BOOLEAN

\* The lines that end.
Ended == {n \in DOMAIN hashes : \A m \in 1 .. n : hashes[m].nl}

\* The n-th entry is the place of the block that line n names, by a record
\* that is of height n, whatever the widths of the numbers in the record and
\* whatever other records are cut off.  The file has these entries from the
\* first on, in order and none else, however the tool ends.  If it says that
\* the records are ok, there was an entry for every line that ends: but the
\* file can have fewer of them even then.
LocsRight ==
    /\ \A n \in DOMAIN table :
          /\ hashes[n].hash # Unreadable
          /\ hashes[n].hash \in DOMAIN Places =>
                LET p == Places[hashes[n].hash]
                IN  /\ p.height = n - 1
                    /\ table[n] = [fileno |-> p.fileno, offset |-> p.offset]
    /\ Len(locs) <= Len(table) /\ locs = SubSeq(table, 1, Len(locs))
    /\ cut => Len(locs) < Len(table)
    /\ tool = "ok" => DOMAIN table = Ended
=============================================================================
