------------------------------ MODULE MCLoader ------------------------------
(***************************************************************************)
(* Instances of LocsLoader for TLC.  A word is 0 .. 9, 7 is the signature. *)
(***************************************************************************)
EXTENDS LocsLoader, SequencesExt

\* File 0 holds two blocks, the words of the second one look like a header.
\* File 1 begins with a block, then one that is too big; file 2 ends early,
\* and has a block without a word; file 4 does not exist.
MCDisk ==
    0 :> <<7, 2, 1, 2, 7, 3, 7, 1, 5>> @@ 1 :> <<7, 1, 3, 7, 4, 1, 1, 1, 1>> @@
    2 :> <<7, 0, 7, 3, 4>> @@ 3 :> <<7, 1, 6>>

E(fileno, offset) == [fileno |-> fileno, offset |-> offset]

\* Blocks in four files, one of two blocks that overlap, and entries that
\* name none: too big, empty, cut off, between blocks, before the first word,
\* without a file, with too big a number.
Good == {E(0, 2), E(0, 6), E(0, 8), E(1, 2), E(3, 2)}
Bad  == {E(1, 5), E(2, 2), E(2, 4), E(0, 4), E(0, 1), E(4, 2), E(6, 2)}

Table(t)  == [bytes |-> 8 * Len(t), table |-> t]
MCTables  ==
    {Table(t) : t \in [1 .. 4 -> Good]}
    \cup {Table(<<E(0, 2), E(1, 2), E(3, 2), x, E(0, 2)>>) : x \in Bad}
    \cup {Table(<<E(3, 2), x, E(1, 2)>>) : x \in Good}
    \cup {Table(<<>>), Table([i \in 1 .. 6 |-> E(0, 2)]),
          [bytes |-> 12, table |-> <<E(0, 2)>>]}
SmallTables == {Table(t) : t \in [1 .. 2 -> {E(0, 2), E(0, 6), E(1, 2)}]}
MCGarbage == {E(0, 6), E(2, 0)}

Text(chars, nl) == [chars |-> chars, nl |-> nl]
MCInputs ==
    {<<Text(4, TRUE), Text(n, nl)>> : n \in 1 .. 9, nl \in BOOLEAN}
    \cup {<<Text(2, TRUE), Text(0, TRUE), Text(6, FALSE)>>, <<>>}

\* -n 0 becomes a number larger than any table; this one is larger than these.
All == 7

Opt(from, num, fromcin) == [from |-> from, num |-> num, fromcin |-> fromcin]
MCOptions == {Opt(f, n, FALSE) : f \in {Omitted, 1, 4}, n \in {2, All}}
             \cup {Opt(Omitted, All, TRUE)}
AllOption == {Opt(Omitted, All, FALSE)}

\* What bitcoind writes: its numbers and its records.
VarInt[n \in Nat] ==
    IF n < 128 THEN <<n>>
    ELSE LET high == VarInt[(n \div 128) - 1]
         IN  [i \in DOMAIN high |-> IF i = Len(high) THEN high[i] + 128 ELSE high[i]]
             \o <<n % 128>>
Record(version, status, ntx, p, undo) ==
    VarInt[version] \o VarInt[p.height] \o VarInt[status] \o VarInt[ntx]
    \o (IF HaveData(status) \/ HaveUndo(status) THEN VarInt[p.fileno] ELSE <<>>)
    \o (IF HaveData(status) THEN VarInt[p.offset] ELSE <<>>)
    \o (IF HaveUndo(status) THEN VarInt[undo] ELSE <<>>)
P(height, fileno, offset) == [height |-> height, fileno |-> fileno, offset |-> offset]

\* Four blocks of the dat-files in another order than they lie there, with
\* numbers of one to three bytes before their places; two places where there is
\* no block.  Then records of blocks that are not stored (yet), or not whole.
MCPlaces ==
    "a" :> P(0, 0, 6) @@ "b" :> P(1, 3, 2) @@ "c" :> P(2, 1, 2) @@ "d" :> P(3, 0, 2)
    @@ "empty" :> P(2, 2, 2) @@ "deep" :> P(0, 4, 16511)
Off(height) == P(height, 2, 0)
MCLdb ==
    "a" :> Record(1, 29, 1, MCPlaces["a"], 8) @@
    "b" :> Record(259900, 157, 127, MCPlaces["b"], 128) @@
    "c" :> Record(128, 8, 16511, MCPlaces["c"], 0) @@
    "d" :> Record(16512, 157, 300, MCPlaces["d"], 16511) @@
    "empty" :> Record(2, 29, 128, MCPlaces["empty"], 8) @@
    "deep" :> Record(2, 29, 1, MCPlaces["deep"], 8) @@
    "header" :> Record(2, 3, 0, Off(2), 0) @@
    "undo" :> Record(2, 19, 1, Off(1), 8) @@
    "low" :> Record(2, 11, 1, P(0, 1, 1), 0) @@
    "far" :> Record(2, 11, 1, P(1, 6, 2), 0) @@
    "high" :> Record(2, 27, 1, P(1, 1, 2), 20001) @@
    "cut" :> SubSeq(Record(2, 11, 127, P(2, 1, 2), 0), 1, 4)

H(hash) == [hash |-> hash, len |-> 64, nl |-> TRUE]
Asked == <<H("a"), H("b"), H("c"), H("d")>>
MCHashFiles ==
    {Asked, <<>>, <<H("d"), H("a")>>, <<H("a"), H("c")>>, <<H("a"), H("b"), H("b")>>}
    \cup {[Asked EXCEPT ![i].hash = h] : i \in 1 .. 4,
             h \in {Unreadable, "no such"} \cup (DOMAIN MCLdb \ {"a", "b", "c", "d"})}
    \cup {[Asked EXCEPT ![i].len = 63] : i \in {1, 4}}
    \cup {[Asked EXCEPT ![4].nl = FALSE]}
OneHashFile == {<<>>}
=============================================================================
