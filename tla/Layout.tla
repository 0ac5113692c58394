-------------------------------- MODULE Layout --------------------------------
(***************************************************************************)
(* When bytes are those of a block, without a recursion over its parts: a  *)
(* layout l is a table of places (offsets into the bytes), and between a   *)
(* place and the next one stands the part that it is the place of.  A part *)
(* may have any content and a number any width that a node may write.      *)
(* Parse is proved right for every block that has a layout; WireFormat     *)
(* puts such blocks together for TLC.                                      *)
(* l.txs[i] is the place of the i-th transaction and x = l.parts[i] holds  *)
(* those of its parts: x.vins, x.vouts, x.wits and, for each witness,      *)
(* x.items; the last place of each table is where the last part ends.      *)
(***************************************************************************)
EXTENDS Integers, Sequences

Octets    == 0 .. 255
HeaderLen == 80

\* The bytes s stand at p.
At(b, p, s) == /\ p + Len(s) <= Len(b.bytes)
               /\ \A i \in 1 .. Len(s) : b.bytes[p + i] = s[i]

\* What stands from p to q.
Between(b, p, q) == SubSeq(b.bytes, p + 1, q)

\* The number n, in one byte or, little-endian, in two or four behind a prefix.
Coded(n) ==
    (IF n < 253 THEN {<<n>>} ELSE {})
    \cup {<<253, n % 256, n \div 256>>,
          <<254, n % 256, (n \div 256) % 256, (n \div 65536) % 256, n \div 16777216>>}
NumberAt(b, p, q, n) == \E s \in Coded(n) : At(b, p, s) /\ q = p + Len(s)

\* The prefix of a number of eight bytes, which take_varuint() refuses.
Refused(b, p) == At(b, p, <<255>>)
CountAt(b, p, q, n) == n \in Nat /\ (NumberAt(b, p, q, n) \/ Refused(b, p))

\* Bytes with their length before them.
CountedAt(b, p, q, s) ==
    /\ s \in Seq(Octets) /\ q \in Nat
    /\ CountAt(b, p, q - Len(s), Len(s)) /\ At(b, q - Len(s), s)

-----------------------------------------------------------------------------
\* The parts of a transaction: an input, an output, a witness.
VinAt(b, p, q, r) ==
    /\ r.tx_hash \in [1 .. 32 -> Octets] /\ At(b, p, r.tx_hash)
    /\ r.vout \in [1 .. 4 -> Octets] /\ At(b, p + 32, r.vout)
    /\ CountedAt(b, p + 36, q - 4, r.script) /\ q \in Nat /\ q <= Len(b.bytes)

VoutAt(b, p, q, r) ==
    /\ r.satoshi \in [1 .. 8 -> Octets] /\ At(b, p, r.satoshi)
    /\ CountedAt(b, p + 8, q, r.script)

WitAt(b, p, q, r, items) ==
    /\ CountAt(b, p, items[1], Len(r))
    /\ \A k \in 1 .. Len(r) : CountedAt(b, items[k], items[k + 1], r[k])
    /\ q = items[Len(r) + 1]

Marker == <<0, 1>>
BodyOf(p, r) == p + 4 + (IF r.segwit THEN 2 ELSE 0)

\* Where numbers stand none is refused, and the inputs are not counted as 0.
TxSound(b, p, r, x) ==
    /\ ~Refused(b, BodyOf(p, r)) /\ ~At(b, BodyOf(p, r), <<0>>)
    /\ \A j \in 1 .. Len(r.vins) : ~Refused(b, x.vins[j] + 36)
    /\ ~Refused(b, x.vins[Len(r.vins) + 1])
    /\ \A j \in 1 .. Len(r.vouts) : ~Refused(b, x.vouts[j] + 8)
    /\ \A w \in 1 .. Len(r.wits) :
          /\ ~Refused(b, x.wits[w])
          /\ \A k \in 1 .. Len(r.wits[w]) : ~Refused(b, x.items[w][k])

\* The transaction r from p to q: a version, the marker, inputs, outputs,
\* witnesses and a locktime.  Where inputs are counted there may be a 0.
TxAt(b, p, q, r, x) ==
    /\ r.segwit \in BOOLEAN /\ (r.segwit <=> At(b, p + 4, Marker))
    /\ Len(r.vins) > 0 /\ Len(r.wits) = IF r.segwit THEN Len(r.vins) ELSE 0
    /\ \/ CountAt(b, BodyOf(p, r), x.vins[1], Len(r.vins))
       \/ At(b, BodyOf(p, r), <<0>>)
    /\ \A j \in 1 .. Len(r.vins) : VinAt(b, x.vins[j], x.vins[j + 1], r.vins[j])
    /\ CountAt(b, x.vins[Len(r.vins) + 1], x.vouts[1], Len(r.vouts))
    /\ \A j \in 1 .. Len(r.vouts) : VoutAt(b, x.vouts[j], x.vouts[j + 1], r.vouts[j])
    /\ x.wits[1] = x.vouts[Len(r.vouts) + 1] /\ x.wits[1] \in 0 .. Len(b.bytes)
    /\ \A w \in 1 .. Len(r.wits) :
          WitAt(b, x.wits[w], x.wits[w + 1], r.wits[w], x.items[w])
    /\ q = x.wits[Len(r.wits) + 1] + 4 /\ q \in 4 .. Len(b.bytes)
    /\ TxSound(b, p, r, x) =>
          r.stripped = Between(b, p, p + 4) \o Between(b, BodyOf(p, r), x.wits[1])
                       \o Between(b, q - 4, q)

\* The block b has the layout l, and it is good iff there is nothing to refuse.
Laid(b, l) ==
    /\ CountAt(b, HeaderLen, l.txs[1], Len(b.txs))
    /\ \A i \in 1 .. Len(b.txs) :
          TxAt(b, l.txs[i], l.txs[i + 1], b.txs[i], l.parts[i])
    /\ l.txs[Len(b.txs) + 1] = Len(b.bytes)
    /\ b.good <=> /\ ~Refused(b, HeaderLen)
                  /\ \A i \in 1 .. Len(b.txs) :
                        TxSound(b, l.txs[i], b.txs[i], l.parts[i])
=============================================================================
