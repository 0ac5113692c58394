----------------------------- MODULE ParseProofs -----------------------------
(***************************************************************************)
(* Proofs about Parse: types; every hash is complete when the              *)
(* transaction's parse() returns; and, for every block that has a layout,  *)
(* the walk finds what is in it and mk_hash() hashes what it should.       *)
(***************************************************************************)
EXTENDS Parse, Layout, SequenceTheorems, TLAPS

\* All that can be hashed: mk_hash() cuts by offsets that are numbers, no more.
Source    == Octets \cup {b.bytes[k] : b \in Blocks, k \in Int}
Hashes    == {Hash256(s) : s \in Seq(Source)} \cup {NoHash}
\* All that can be decoded.
Memory    == {SubSeq(b.bytes, k, Len(b.bytes)) \o Behind :
                b \in Blocks, k \in Nat}
Addresses == {Decode(m, n) : m \in Memory, n \in Nat} \cup {NoAddress}
VinT  == [tx_hash : Nat, vout : Seq(Octets), script : ScriptView]
VoutT == [satoshi : Seq(Octets), script : ScriptView, addr : Addresses]
TxT   == [beg : Nat, size : Int, segwit : BOOLEAN, wit_offset : Int,
          vins : Seq(VinT), vouts : Seq(VoutT), wits : Nat, hash : Hashes]

\* What the walk knows of the transaction under construction.
Walking == step \in {"head", "tx", "vin", "vout", "wit", "built"}
TxsInv  == \A i \in DOMAIN txs : /\ txs[i].wits <= Len(txs[i].vins)
                                 /\ txs[i].size >= 0 /\ txs[i].wit_offset >= 0
WalkInv ==
    /\ step = "head" => Len(txs) = 0
    /\ step \in {"vin", "vout", "wit"} => Len(txs) > 0 /\ tx.beg <= ptr
    /\ step = "vin" => Len(tx.vins) <= vin_count
    /\ step \in {"vout", "wit"} => Len(tx.vins) = vin_count

\* What parse() knows of the threads: there is one at most, that of the
\* transaction whose outputs are parsed.
ThreadInv ==
    /\ Walking => ti = 1
    /\ step # "addr" => hashing = {}
    /\ step = "addr" => ti \in DOMAIN txs /\ hashing \subseteq {ti}
    /\ Hashed => \A i \in Parsed : Complete(i)
    /\ (Hashed /\ step = "addr" /\ ti \notin hashing) => Complete(ti)

Types ==
    /\ OPTS \in Options /\ block \in Blocks /\ step \in ParseSteps
    /\ ptr \in Nat /\ tx_count \in Nat /\ vin_count \in Nat /\ vout_count \in Nat
    /\ items \in Nat
    /\ txs \in Seq(TxT) /\ Len(txs) <= tx_count
    /\ ti \in 1 .. Len(txs) + 1 /\ vi \in Nat \ {0}

PInv == Types /\ TxsInv /\ WalkInv /\ ThreadInv
-----------------------------------------------------------------------------
\* What UNIPTR_T reads are bytes, and numbers made of them.
LEMMA ByteType ==
    ASSUME block \in Blocks, NEW p \in Nat
    PROVE  Byte(p) \in Octets
<1>1. block.bytes \in Seq(Octets)
    BY ParseAssumption DEF Octets
<1>2. CASE p < Len(block.bytes)
    <2>1. p + 1 \in 1 .. Len(block.bytes)
        BY <1>1, <1>2
    <2> QED  BY <1>1, <1>2, <2>1, ElementOfSeq DEF Byte
<1>3. CASE ~(p < Len(block.bytes))
    BY <1>3 DEF Byte, Octets
<1> QED  BY <1>2, <1>3

LEMMA SliceType ==
    ASSUME block \in Blocks, NEW p \in Nat, NEW n \in Nat
    PROVE  Slice(p, n) \in Seq(Octets)
<1>1. \A i \in 1 .. n : Byte(p + i - 1) \in Octets
    BY ByteType
<1>2. Slice(p, n) \in [1 .. n -> Octets]
    BY <1>1 DEF Slice
<1>3. Seq(Octets) = UNION {[1 .. k -> Octets] : k \in Nat}
    BY SeqDef
<1> QED  BY <1>2, <1>3

\* A varuint takes one, three or five bytes.
LEMMA VarUintType ==
    ASSUME block \in Blocks, NEW p \in Nat
    PROVE  VarUint(p) \in Nat /\ After(p) \in Nat /\ After(p) > p
<1>1. /\ Byte(p) \in 0 .. 255 /\ Byte(p + 1) \in 0 .. 255 /\ Byte(p + 2) \in 0 .. 255
      /\ Byte(p + 3) \in 0 .. 255 /\ Byte(p + 4) \in 0 .. 255
    BY ByteType DEF Octets
<1> DEFINE a == Byte(p + 1)  b == Byte(p + 2)  c == Byte(p + 3)  d == Byte(p + 4)
<1>2. /\ \/ VarUint(p) = Byte(p)
         \/ VarUint(p) = a + 256 * b
         \/ VarUint(p) = a + 256 * b + 65536 * (c + 256 * d)
      /\ a \in 0 .. 255 /\ b \in 0 .. 255 /\ c \in 0 .. 255 /\ d \in 0 .. 255
    BY <1>1 DEF VarUint
<1> HIDE DEF a, b, c, d
<1>4. VarUint(p) \in Nat
    <2>1. a + 256 * b \in Nat /\ a + 256 * b + 65536 * (c + 256 * d) \in Nat
        BY <1>2
    <2>2. Byte(p) \in Nat
        BY <1>1
    <2> QED  BY <1>2, <2>1, <2>2
<1>3. VarSize(p) \in {1, 3, 5}
    BY <1>1 DEF VarSize
<1> QED  BY <1>3, <1>4 DEF After

LEMMA ViewType ==
    ASSUME block \in Blocks, NEW p \in Nat
    PROVE  View(p) \in ScriptView /\ End(View(p)) \in Nat /\ End(View(p)) > p
BY VarUintType DEF View, End, ScriptView

-----------------------------------------------------------------------------
LEMMA InitHolds == ParseInit => PInv
<1> SUFFICES ASSUME ParseInit PROVE PInv
    OBVIOUS
<1> USE DEF ParseInit
<1>1. txs \in Seq(TxT) /\ Len(txs) = 0 /\ DOMAIN txs = {}
    OBVIOUS
<1>2. Types
    BY <1>1 DEF Types, ParseSteps
<1>3. TxsInv /\ WalkInv
    BY <1>1 DEF TxsInv, WalkInv
<1>4. ThreadInv
    BY <1>1 DEF ThreadInv, Walking, Parsed
<1> QED  BY <1>2, <1>3, <1>4 DEF PInv

\* A step of the walk changes the last transaction only, and parse() has not
\* begun.
LEMMA WalkThreads ==
    ASSUME PInv, Walking, UNCHANGED <<OPTS, block, place, hashing>>,
           step' # "addr"
    PROVE  ThreadInv'
<1>1. ti' = 1 /\ hashing' = {}
    BY DEF PInv, ThreadInv, Walking, place
<1> QED  BY <1>1 DEF ThreadInv, Walking, Parsed

\* The last transaction is replaced by t.
LEMMA SetLast ==
    ASSUME PInv, Len(txs) > 0, NEW t \in TxT, SetTx(t),
           t.wits <= Len(t.vins), t.size >= 0, t.wit_offset >= 0
    PROVE  /\ txs' \in Seq(TxT) /\ Len(txs') = Len(txs) /\ tx' = t
           /\ \A i \in DOMAIN txs \ {Len(txs)} : txs'[i] = txs[i]
           /\ TxsInv'
<1> DEFINE n == Len(txs)
<1>1. txs \in Seq(TxT) /\ n \in DOMAIN txs /\ txs' = [txs EXCEPT ![n] = t]
    BY DEF PInv, Types, SetTx
<1>2. txs' \in Seq(TxT) /\ Len(txs') = n /\ DOMAIN txs' = DOMAIN txs
    BY <1>1
<1>3. \A i \in DOMAIN txs : txs'[i] = IF i = n THEN t ELSE txs[i]
    BY <1>1
<1>4. tx' = t
    BY <1>1, <1>2, <1>3 DEF tx
<1>5. TxsInv'
    BY <1>2, <1>3 DEF PInv, TxsInv
<1> QED  BY <1>2, <1>3, <1>4, <1>5

LEMMA LastType ==
    ASSUME PInv, Len(txs) > 0
    PROVE  tx \in TxT /\ tx.wits <= Len(tx.vins) /\ tx.size >= 0 /\ tx.wit_offset >= 0
<1>1. txs \in Seq(TxT) /\ Len(txs) \in DOMAIN txs
    BY DEF PInv, Types
<1> QED  BY <1>1, ElementOfSeq DEF tx, PInv, TxsInv

LEMMA ReadHeadStep == ASSUME PInv, ReadHead PROVE PInv'
<1> USE DEF ReadHead
<1>1. Walking /\ step' # "addr"
    BY DEF Walking
<1>2. ThreadInv'
    BY <1>1, WalkThreads
<1>3. HeadSize \in Nat /\ VarUint(HeadSize) \in Nat /\ After(HeadSize) \in Nat
    BY VarUintType DEF HeadSize, PInv, Types
<1>4. Types'
    BY <1>3 DEF PInv, Types, WalkInv, ParseSteps, place
<1>5. TxsInv' /\ WalkInv'
    BY DEF PInv, TxsInv, WalkInv
<1> QED  BY <1>2, <1>4, <1>5 DEF PInv

LEMMA ReadTxStep == ASSUME PInv, ReadTx PROVE PInv'
<1> USE DEF ReadTx
<1>1. ThreadInv'
    BY WalkThreads DEF Walking
<1>2. VinsAt \in Nat /\ VinsAt > ptr /\ ptr \in Nat /\ block \in Blocks
    BY DEF PInv, Types, VinsAt
<1>3. vin_count' \in Nat /\ ptr' \in Nat /\ ptr' > ptr
    BY <1>2, VarUintType
<1> DEFINE t == NewTx(Segwit)
<1>4. t \in TxT /\ t.beg = ptr /\ t.wits = 0 /\ t.size = 0 /\ t.wit_offset = 0
      /\ Len(t.vins) = 0
    BY <1>2 DEF NewTx, Segwit, TxT, Hashes, NoHash
<1> HIDE DEF t
<1>5. txs \in Seq(TxT) /\ txs' = Append(txs, t)
    BY DEF PInv, Types, t
<1>6. /\ txs' \in Seq(TxT) /\ Len(txs') = Len(txs) + 1
      /\ txs'[Len(txs) + 1] = t
      /\ \A i \in DOMAIN txs : txs'[i] = txs[i]
      /\ DOMAIN txs' = DOMAIN txs \cup {Len(txs) + 1}
    BY <1>4, <1>5
<1>7. Types'
    BY <1>1, <1>3, <1>6 DEF PInv, Types, ParseSteps, place
<1>8. TxsInv'
    BY <1>4, <1>6 DEF PInv, TxsInv
<1>9. tx' = t /\ Len(txs') > 0 /\ step' = "vin"
    BY <1>5, <1>6 DEF tx
<1>10. WalkInv'
    BY <1>2, <1>3, <1>4, <1>9 DEF WalkInv
<1> QED  BY <1>1, <1>7, <1>8, <1>10 DEF PInv

LEMMA ReadVinStep == ASSUME PInv, ReadVin PROVE PInv'
<1> USE DEF ReadVin
<1>1. ThreadInv'
    BY WalkThreads DEF Walking
<1>2. ptr \in Nat /\ block \in Blocks /\ vin_count \in Nat /\ Len(txs) > 0
      /\ tx.beg <= ptr
    BY DEF PInv, Types, WalkInv
<1> DEFINE v == [tx_hash |-> ptr, vout |-> Slice(ptr + 32, 4),
                 script |-> View(ptr + 36)]
           t == [tx EXCEPT !.vins = Append(@, v)]
<1>3. v \in VinT /\ ptr' \in Nat /\ ptr' > ptr
    <2>1. ptr + 32 \in Nat /\ ptr + 36 \in Nat
        BY <1>2
    <2>2. Slice(ptr + 32, 4) \in Seq(Octets)
        BY <1>2, <2>1, SliceType
    <2>3. /\ View(ptr + 36) \in ScriptView /\ End(View(ptr + 36)) \in Nat
          /\ End(View(ptr + 36)) > ptr + 36
        BY <1>2, <2>1, ViewType
    <2> QED  BY <1>2, <2>2, <2>3 DEF VinT
<1> HIDE DEF v
<1>4. /\ tx \in TxT /\ tx.vins \in Seq(VinT)
      /\ tx.wits <= Len(tx.vins) /\ tx.size >= 0 /\ tx.wit_offset >= 0
    BY <1>2, LastType DEF TxT
<1>5. /\ Append(tx.vins, v) \in Seq(VinT)
      /\ Len(Append(tx.vins, v)) = Len(tx.vins) + 1 /\ Len(tx.vins) \in Nat
    BY <1>3, <1>4
<1>6. /\ t \in TxT /\ t.vins = Append(tx.vins, v) /\ t.beg = tx.beg
      /\ t.wits = tx.wits /\ t.size = tx.size /\ t.wit_offset = tx.wit_offset
    BY <1>4, <1>5 DEF TxT
<1>7. SetTx(t)
    BY DEF v
<1> HIDE DEF t
<1>8. tx.wits \in Nat /\ t.wits <= Len(t.vins)
    BY <1>4, <1>5, <1>6 DEF TxT
<1>9. txs' \in Seq(TxT) /\ Len(txs') = Len(txs) /\ tx' = t /\ TxsInv'
    BY <1>2, <1>4, <1>6, <1>7, <1>8, SetLast
<1>10. Types'
    BY <1>3, <1>9 DEF PInv, Types, ParseSteps, place, counts
<1>11. tx.beg \in Nat /\ tx'.beg <= ptr'
    BY <1>2, <1>3, <1>4, <1>6, <1>9, SMTT(30) DEF TxT
<1>12. WalkInv'
    BY <1>2, <1>5, <1>6, <1>9, <1>11 DEF WalkInv, counts
<1> QED  BY <1>1, <1>9, <1>10, <1>12 DEF PInv

\* A step of the walk that leaves the transactions alone.
LEMMA ReadVoutCountStep == ASSUME PInv, ReadVoutCount PROVE PInv'
<1> USE DEF ReadVoutCount
<1>1. ThreadInv'
    BY WalkThreads DEF Walking
<1>2. ptr \in Nat /\ block \in Blocks
    BY DEF PInv, Types
<1>3. vout_count' \in Nat /\ ptr' \in Nat /\ ptr' > ptr
    BY <1>2, VarUintType
<1>4. Types' /\ TxsInv'
    BY <1>3 DEF PInv, Types, TxsInv, ParseSteps, place
<1>5. Len(txs) > 0 /\ tx \in TxT /\ tx' = tx /\ tx.beg <= ptr
    BY LastType DEF PInv, WalkInv, tx
<1>6. WalkInv'
    BY <1>2, <1>3, <1>5 DEF WalkInv, TxT
<1> QED  BY <1>1, <1>4, <1>6 DEF PInv

LEMMA ReadVoutStep == ASSUME PInv, ReadVout PROVE PInv'
<1> USE DEF ReadVout
<1>1. ThreadInv'
    BY WalkThreads DEF Walking
<1>2. ptr \in Nat /\ block \in Blocks /\ Len(txs) > 0 /\ tx.beg <= ptr
      /\ Len(tx.vins) = vin_count
    BY DEF PInv, Types, WalkInv
<1> DEFINE v == [satoshi |-> Slice(ptr, 8), script |-> View(ptr + 8),
                 addr |-> NoAddress]
           t == [tx EXCEPT !.vouts = Append(@, v)]
<1>3. v \in VoutT /\ ptr' \in Nat /\ ptr' > ptr
    <2>1. ptr + 8 \in Nat
        BY <1>2
    <2>2. Slice(ptr, 8) \in Seq(Octets)
        BY <1>2, SliceType
    <2>3. /\ View(ptr + 8) \in ScriptView /\ End(View(ptr + 8)) \in Nat
          /\ End(View(ptr + 8)) > ptr + 8
        BY <1>2, <2>1, ViewType
    <2> QED  BY <1>2, <2>2, <2>3 DEF VoutT, Addresses
<1> HIDE DEF v
<1>4. /\ tx \in TxT /\ tx.vouts \in Seq(VoutT)
      /\ tx.wits <= Len(tx.vins) /\ tx.size >= 0 /\ tx.wit_offset >= 0
    BY <1>2, LastType DEF TxT
<1>5. Append(tx.vouts, v) \in Seq(VoutT)
    BY <1>3, <1>4
<1>6. /\ t \in TxT /\ t.vins = tx.vins /\ t.beg = tx.beg
      /\ t.wits = tx.wits /\ t.size = tx.size /\ t.wit_offset = tx.wit_offset
    BY <1>4, <1>5 DEF TxT
<1>7. SetTx(t)
    BY DEF v
<1> HIDE DEF t
<1>8. txs' \in Seq(TxT) /\ Len(txs') = Len(txs) /\ tx' = t /\ TxsInv'
    BY <1>2, <1>4, <1>6, <1>7, SetLast
<1>9. Types'
    BY <1>3, <1>8 DEF PInv, Types, ParseSteps, place, counts
<1>10. tx.beg \in Nat
    BY <1>4 DEF TxT
<1>11. WalkInv'
    BY <1>2, <1>3, <1>6, <1>8, <1>10 DEF WalkInv, counts
<1> QED  BY <1>1, <1>8, <1>9, <1>11 DEF PInv

\* The steps that change a number of the last transaction.
LEMMA EndVoutsStep == ASSUME PInv, EndVouts PROVE PInv'
<1> USE DEF EndVouts
<1>1. ThreadInv'
    BY WalkThreads DEF Walking
<1>2. ptr \in Nat /\ Len(txs) > 0 /\ tx.beg <= ptr /\ Len(tx.vins) = vin_count
    BY DEF PInv, Types, WalkInv
<1>3. tx \in TxT /\ tx.wits <= Len(tx.vins) /\ tx.size >= 0 /\ tx.beg \in Nat
    BY <1>2, LastType DEF TxT
<1> DEFINE t == [tx EXCEPT !.wit_offset = ptr - tx.beg]
<1>4. /\ t \in TxT /\ t.vins = tx.vins /\ t.beg = tx.beg /\ t.wits = tx.wits
      /\ t.size = tx.size /\ t.wit_offset >= 0
    BY <1>2, <1>3, SMTT(30) DEF TxT
<1>5. txs' \in Seq(TxT) /\ Len(txs') = Len(txs) /\ tx' = t /\ TxsInv'
    BY <1>2, <1>3, <1>4, SetLast
<1>6. Types'
    BY <1>5 DEF PInv, Types, ParseSteps, place, walk, counts
<1>7. WalkInv'
    BY <1>2, <1>4, <1>5 DEF WalkInv, walk, counts
<1> QED  BY <1>1, <1>5, <1>6, <1>7 DEF PInv

LEMMA ReadWitStep == ASSUME PInv, ReadWit PROVE PInv'
<1> USE DEF ReadWit
<1>1. ThreadInv'
    BY WalkThreads DEF Walking
<1>2. ptr \in Nat /\ block \in Blocks /\ Len(txs) > 0 /\ tx.beg <= ptr
      /\ Len(tx.vins) = vin_count
    BY DEF PInv, Types, WalkInv
<1>3. /\ tx \in TxT /\ tx.size >= 0 /\ tx.wit_offset >= 0 /\ tx.beg \in Nat
      /\ tx.wits \in Nat /\ tx.wits + 1 <= Len(tx.vins)
    BY <1>2, LastType DEF TxT, PInv, Types
<1>4. items' \in Nat /\ ptr' \in Nat /\ ptr' > ptr
    BY <1>2, VarUintType
<1> DEFINE t == [tx EXCEPT !.wits = @ + 1]
<1>5. /\ t \in TxT /\ t.vins = tx.vins /\ t.beg = tx.beg /\ t.wits = tx.wits + 1
      /\ t.size = tx.size /\ t.wit_offset = tx.wit_offset
    BY <1>3 DEF TxT
<1>6. txs' \in Seq(TxT) /\ Len(txs') = Len(txs) /\ tx' = t /\ TxsInv'
    BY <1>2, <1>3, <1>5, SetLast
<1>7. Types'
    BY <1>4, <1>6 DEF PInv, Types, ParseSteps, place, counts
<1>8. WalkInv'
    BY <1>2, <1>3, <1>4, <1>5, <1>6 DEF WalkInv, counts
<1> QED  BY <1>1, <1>6, <1>7, <1>8 DEF PInv

LEMMA SkipItemStep == ASSUME PInv, SkipItem PROVE PInv'
<1> USE DEF SkipItem
<1>1. ThreadInv'
    BY WalkThreads DEF Walking
<1>2. ptr \in Nat /\ block \in Blocks /\ items - 1 \in Nat
    BY DEF PInv, Types
<1>3. ptr' \in Nat /\ ptr' > ptr
    BY <1>2, ViewType
<1>4. Types' /\ TxsInv'
    BY <1>2, <1>3 DEF PInv, Types, TxsInv, ParseSteps, place, counts
<1>5. Len(txs) > 0 /\ tx \in TxT /\ tx' = tx /\ tx.beg <= ptr
    BY LastType DEF PInv, WalkInv, tx
<1>6. WalkInv'
    BY <1>2, <1>3, <1>5 DEF PInv, WalkInv, TxT, counts
<1> QED  BY <1>1, <1>4, <1>6 DEF PInv

LEMMA EndTxStep == ASSUME PInv, EndTx PROVE PInv'
<1> USE DEF EndTx
<1>1. ThreadInv'
    BY WalkThreads DEF Walking
<1>2. ptr \in Nat /\ Len(txs) > 0 /\ tx.beg <= ptr
    BY DEF PInv, Types, WalkInv
<1>3. /\ tx \in TxT /\ tx.wits <= Len(tx.vins) /\ tx.wit_offset >= 0
      /\ tx.beg \in Nat
    BY <1>2, LastType DEF TxT
<1> DEFINE size == ptr + 4 - tx.beg
           t == [tx EXCEPT !.size = size]
<1>8. size \in Int /\ size >= 0 /\ SetTx(t)
    BY <1>2, <1>3
<1> HIDE DEF size
<1>4. /\ t \in TxT /\ t.vins = tx.vins /\ t.wits = tx.wits
      /\ t.size >= 0 /\ t.wit_offset = tx.wit_offset
    BY <1>3, <1>8 DEF TxT
<1>5. txs' \in Seq(TxT) /\ Len(txs') = Len(txs) /\ TxsInv'
    BY <1>2, <1>3, <1>4, <1>8, SetLast
<1>6. Types'
    BY <1>2, <1>5 DEF PInv, Types, ParseSteps, place, counts
<1>7. WalkInv'
    BY DEF WalkInv
<1> QED  BY <1>1, <1>5, <1>6, <1>7 DEF PInv

\* The walk ends, in one way or the other.
LEMMA WalkEndsStep == ASSUME PInv, EndBlock \/ Throws PROVE PInv'
<1>1. /\ UNCHANGED <<OPTS, block, walk, txs, bkhash, place, hashing>>
      /\ Walking /\ step' \in {"built", "aborted"}
    BY DEF EndBlock, Throws, Walking
<1>2. ThreadInv'
    BY <1>1, WalkThreads
<1>3. Types' /\ TxsInv' /\ WalkInv'
    BY <1>1 DEF PInv, Types, TxsInv, WalkInv, ParseSteps, walk, counts, place
<1> QED  BY <1>2, <1>3 DEF PInv
-----------------------------------------------------------------------------
\* Now parse(), which changes hashes and addresses: neither is a part of what
\* is hashed.
SameWalk(t, u) ==
    /\ u \in TxT
    /\ t.beg = u.beg /\ t.size = u.size /\ t.segwit = u.segwit
    /\ t.wit_offset = u.wit_offset /\ t.vins = u.vins /\ t.wits = u.wits

LEMMA SameHashSrc ==
    ASSUME NEW t, NEW u, SameWalk(t, u)
    PROVE  HashSrc(u) = HashSrc(t)
BY DEF SameWalk, HashSrc

\* One transaction, the i-th, is replaced by u.
LEMMA SetOne ==
    ASSUME PInv, NEW i \in DOMAIN txs, NEW u, SameWalk(txs[i], u),
           txs' = [txs EXCEPT ![i] = u], UNCHANGED <<OPTS, block, walk, ti>>,
           vi' \in Nat \ {0}, step' \in ParseSteps
    PROVE  /\ Types' /\ TxsInv' /\ DOMAIN txs' = DOMAIN txs
           /\ txs'[i] = u /\ \A j \in DOMAIN txs \ {i} : txs'[j] = txs[j]
<1>1. txs \in Seq(TxT) /\ u \in TxT
    BY DEF PInv, Types, SameWalk
<1>2. /\ txs' \in Seq(TxT) /\ Len(txs') = Len(txs) /\ DOMAIN txs' = DOMAIN txs
      /\ txs'[i] = u /\ \A j \in DOMAIN txs \ {i} : txs'[j] = txs[j]
    BY <1>1
<1>3. Types'
    BY <1>2 DEF PInv, Types, walk, counts, place
<1>4. TxsInv'
    BY <1>2 DEF PInv, TxsInv, SameWalk
<1> QED  BY <1>2, <1>3, <1>4

\* What mk_hash() hashes.
LEMMA CutType ==
    ASSUME block \in Blocks, NEW p \in Int, NEW n \in Int
    PROVE  Slice(p, n) \in Seq(Source)
<1>1. \A k \in Int : Byte(k) \in Source
    <2> SUFFICES ASSUME NEW k \in Int PROVE Byte(k) \in Source
        OBVIOUS
    <2>1. k + 1 \in Int /\ 0 \in Octets
        BY DEF Octets
    <2>2. block.bytes[k + 1] \in Source
        BY <2>1 DEF Source
    <2> QED  BY <2>1, <2>2 DEF Byte, Source
<1>2. Slice(p, n) \in [1 .. n -> Source]
    BY <1>1 DEF Slice
<1>3. PICK k \in Nat : 1 .. n = 1 .. k
    <2>1. CASE n \in Nat
        BY <2>1
    <2>2. CASE n \notin Nat
        <3>1. 1 .. n = 1 .. 0
            BY <2>2
        <3> QED  BY <3>1
    <2> QED  BY <2>1, <2>2
<1>4. Seq(Source) = UNION {[1 .. j -> Source] : j \in Nat}
    BY SeqDef
<1> QED  BY <1>2, <1>3, <1>4

LEMMA HashSrcType ==
    ASSUME block \in Blocks, NEW t \in TxT
    PROVE  Hash256(HashSrc(t)) \in Hashes
<1>1. t.beg \in Int /\ t.size \in Int /\ t.wit_offset \in Int
    BY DEF TxT
<1> DEFINE a == Slice(t.beg, 4)
           b == Slice(t.beg + 6, t.wit_offset - 6)
           c == Slice(t.beg + t.size - 4, 4)
           d == Slice(t.beg, t.size)
<1>2. a \in Seq(Source)
    <2>1. 4 \in Int
        OBVIOUS
    <2> QED  BY <1>1, <2>1, CutType
<1>7. d \in Seq(Source)
    BY <1>1, CutType
<1>3. b \in Seq(Source)
    <2>1. t.beg + 6 \in Int /\ t.wit_offset - 6 \in Int
        BY <1>1
    <2> QED  BY <2>1, CutType
<1>4. c \in Seq(Source)
    <2>1. t.beg + t.size - 4 \in Int
        BY <1>1
    <2> QED  BY <2>1, CutType
<1>5. HashSrc(t) = IF t.segwit THEN a \o b \o c ELSE d
    BY DEF HashSrc
<1> HIDE DEF a, b, c, d
<1>6. HashSrc(t) \in Seq(Source)
    BY <1>2, <1>3, <1>4, <1>5, <1>7
<1> QED  BY <1>6 DEF Hashes

\* The bytes stay, so what completes a transaction stays.
LEMMA CompleteNext ==
    ASSUME block' = block, NEW i
    PROVE  Complete(i)' <=> txs'[i].hash = Hash256(HashSrc(txs'[i]))
BY DEF Complete, HashSrc, Slice, Byte

\* mk_hash() of the i-th transaction completes it.
LEMMA MkHashDoes ==
    ASSUME PInv, NEW i \in DOMAIN txs, MkHash(i),
           UNCHANGED <<OPTS, block, walk, ti>>, vi' \in Nat \ {0}, step' \in ParseSteps
    PROVE  /\ Types' /\ TxsInv' /\ DOMAIN txs' = DOMAIN txs
           /\ Complete(i)'
           /\ \A j \in DOMAIN txs : Complete(j) => Complete(j)'
<1> DEFINE h == Hash256(HashSrc(txs[i]))
           u == [txs[i] EXCEPT !.hash = h]
<1>1. txs[i] \in TxT /\ block \in Blocks
    BY ElementOfSeq DEF PInv, Types
<1>2. h \in Hashes
    BY <1>1, HashSrcType
<1>3. txs' = [txs EXCEPT ![i] = u]
    BY DEF MkHash
<1> HIDE DEF h
<1>4. SameWalk(txs[i], u) /\ u.hash = h
    BY <1>1, <1>2 DEF SameWalk, TxT
<1> HIDE DEF u
<1>5. /\ Types' /\ TxsInv' /\ DOMAIN txs' = DOMAIN txs
      /\ txs'[i] = u /\ \A j \in DOMAIN txs \ {i} : txs'[j] = txs[j]
    BY <1>3, <1>4, SetOne
<1>6. block' = block /\ HashSrc(u) = HashSrc(txs[i])
    BY <1>4, SameHashSrc
<1>7. Complete(i)'
    BY <1>4, <1>5, <1>6, CompleteNext DEF h
<1>8. \A j \in DOMAIN txs : Complete(j) => Complete(j)'
    BY <1>5, <1>6, <1>7, CompleteNext DEF Complete
<1> QED  BY <1>5, <1>7, <1>8

LEMMA ParseBlockStep == ASSUME PInv, ParseBlock PROVE PInv'
<1> USE DEF ParseBlock
<1>1. ti = 1 /\ hashing = {} /\ ti' = 1 /\ hashing' = {}
    BY DEF PInv, ThreadInv, Walking, place
<1>2. ThreadInv'
    BY <1>1 DEF ThreadInv, Walking, Parsed
<1>3. Types' /\ TxsInv' /\ WalkInv'
    BY DEF PInv, Types, TxsInv, WalkInv, ParseSteps, walk, counts, place
<1> QED  BY <1>2, <1>3 DEF PInv

\* What a step of parse() keeps of the hashes that are complete.
LEMMA SameCompletes ==
    ASSUME UNCHANGED <<block, txs>>
    PROVE  \A i \in DOMAIN txs : Complete(i) => Complete(i)'
BY CompleteNext DEF Complete

\* The hash is computed, or a thread begins to, or it is not needed.
LEMMA ParseTxStep == ASSUME PInv, ParseTx PROVE PInv'
<1> USE DEF ParseTx
<1>1. /\ ti \in DOMAIN txs /\ hashing = {} /\ Parsed' = Parsed
      /\ Parsed \subseteq DOMAIN txs
      /\ step' \in ParseSteps /\ UNCHANGED <<OPTS, block, walk, ti>>
      /\ vi' \in Nat \ {0}
    BY DEF PInv, Types, ThreadInv, Parsed, ParseSteps
<1>2. Hashed => \A i \in Parsed : Complete(i)
    BY DEF PInv, ThreadInv
<1>3. WalkInv' /\ ~Walking'
    BY DEF WalkInv, Walking
<1>4. CASE MkHash(ti) /\ UNCHANGED hashing
    <2>1. /\ Types' /\ TxsInv' /\ DOMAIN txs' = DOMAIN txs /\ Complete(ti)'
          /\ \A j \in DOMAIN txs : Complete(j) => Complete(j)'
        BY <1>1, <1>4, MkHashDoes
    <2>2. ThreadInv'
        BY <1>1, <1>2, <1>3, <1>4, <2>1 DEF ThreadInv, Hashed
    <2> QED  BY <1>3, <2>1, <2>2 DEF PInv
<1>5. CASE /\ UNCHANGED txs /\ hashing' \subseteq {ti}
           /\ Hashed => hashing' = {ti}
    <2>1. \A i \in DOMAIN txs : Complete(i) => Complete(i)'
        BY <1>1, <1>5, SameCompletes
    <2>2. ThreadInv'
        BY <1>1, <1>2, <1>3, <1>5, <2>1 DEF ThreadInv, Hashed
    <2>3. Types' /\ TxsInv'
        BY <1>1, <1>5 DEF PInv, Types, TxsInv, walk, counts
    <2> QED  BY <1>3, <2>2, <2>3 DEF PInv
<1> QED  BY <1>1, <1>4, <1>5

\* The program is aborted: nobody reads a hash any more.
LEMMA ThreadFailsStep == ASSUME PInv, ThreadFails PROVE PInv'
<1> USE DEF ThreadFails
<1>1. \A i \in DOMAIN txs : Complete(i) => Complete(i)'
    BY SameCompletes
<1>2. Parsed' = Parsed /\ Parsed \subseteq DOMAIN txs
    BY DEF PInv, Types, Parsed, place
<1>3. ThreadInv'
    BY <1>1, <1>2 DEF PInv, ThreadInv, Walking, Hashed, place
<1>4. Types' /\ TxsInv' /\ WalkInv'
    BY DEF PInv, Types, TxsInv, WalkInv, ParseSteps, walk, counts, place
<1> QED  BY <1>3, <1>4 DEF PInv

\* The only thread is that of the transaction in hand.
LEMMA ThreadStep == ASSUME PInv, NEW i, Thread(i) PROVE PInv'
<1> USE DEF Thread
<1>1. /\ step = "addr" /\ i = ti /\ i \in DOMAIN txs /\ hashing' = {}
      /\ Parsed' = Parsed /\ Parsed \subseteq DOMAIN txs
    BY DEF PInv, Types, ThreadInv, Parsed, place
<1>2. step \in ParseSteps /\ ti' = ti /\ vi' \in Nat \ {0}
    BY DEF PInv, Types, place
<1>3. /\ Types' /\ TxsInv' /\ DOMAIN txs' = DOMAIN txs /\ Complete(i)'
      /\ \A j \in DOMAIN txs : Complete(j) => Complete(j)'
    BY <1>1, <1>2, MkHashDoes
<1>4. ThreadInv'
    BY <1>1, <1>3 DEF PInv, ThreadInv, Walking, Hashed, place
<1>5. WalkInv'
    BY <1>1 DEF WalkInv
<1> QED  BY <1>3, <1>4, <1>5 DEF PInv

\* An address is not a part of what is hashed.
LEMMA ParseVoutStep == ASSUME PInv, ParseVout PROVE PInv'
<1> USE DEF ParseVout
<1>1. /\ ti \in DOMAIN txs /\ txs[ti] \in TxT /\ block \in Blocks
      /\ vi \in DOMAIN txs[ti].vouts /\ vi + 1 \in Nat \ {0}
    <2>1. ti \in DOMAIN txs /\ txs[ti] \in TxT /\ block \in Blocks
        BY ElementOfSeq DEF PInv, Types, ThreadInv
    <2>2. txs[ti].vouts \in Seq(VoutT) /\ vi \in Nat \ {0}
        BY <2>1 DEF TxT, PInv, Types
    <2> QED  BY <2>1, <2>2
<1> DEFINE w == txs[ti].vouts[vi]
           a == Decode(Script(w.script), w.script.len)
           u == [txs[ti] EXCEPT !.vouts[vi].addr = a]
<1>2. txs[ti].vouts \in Seq(VoutT) /\ w \in VoutT
    BY <1>1, ElementOfSeq DEF TxT
<1>3. a \in Addresses
    <2> DEFINE s == w.script
    <2>1. s \in ScriptView
        <3> HIDE DEF w
        <3> QED  BY <1>2 DEF VoutT
    <2> HIDE DEF s
    <2>2. s.at + 1 \in Nat /\ s.len \in Nat
        BY <2>1 DEF ScriptView
    <2>3. Script(s) \in Memory
        <3> DEFINE M(b, k) == SubSeq(b.bytes, k, Len(b.bytes)) \o Behind
        <3>1. Memory = {M(b, k) : b \in Blocks, k \in Nat}
            BY DEF Memory
        <3>2. Script(s) = M(block, s.at + 1)
            BY DEF Script
        <3> HIDE DEF M
        <3> QED  BY <1>1, <2>2, <3>1, <3>2
    <2>4. Decode(Script(s), s.len) \in Addresses
        BY <2>2, <2>3 DEF Addresses
    <2> QED  BY <2>4 DEF s
<1>4. txs' = [txs EXCEPT ![ti] = u]
    OBVIOUS
<1> HIDE DEF a
<1>5. SameWalk(txs[ti], u) /\ u.hash = txs[ti].hash
    <2>1. [w EXCEPT !.addr = a] \in VoutT
        BY <1>2, <1>3 DEF VoutT
    <2>2. [txs[ti].vouts EXCEPT ![vi].addr = a] \in Seq(VoutT)
        BY <1>1, <1>2, <2>1
    <2> QED  BY <1>1, <2>2 DEF SameWalk, TxT
<1> HIDE DEF u, w
<1>6. /\ Parsed' = Parsed /\ Parsed \subseteq DOMAIN txs
      /\ step' \in ParseSteps
    BY DEF PInv, Types, Parsed, ParseSteps
<1>7. /\ Types' /\ TxsInv' /\ DOMAIN txs' = DOMAIN txs
      /\ txs'[ti] = u /\ \A j \in DOMAIN txs \ {ti} : txs'[j] = txs[j]
    BY <1>1, <1>4, <1>5, <1>6, SetOne
<1>8. WalkInv'
    BY DEF WalkInv
<1>10. \A j \in DOMAIN txs : Complete(j) => Complete(j)'
    <2>1. HashSrc(u) = HashSrc(txs[ti]) /\ u.hash = txs[ti].hash
        BY <1>5, SameHashSrc
    <2> SUFFICES ASSUME NEW j \in DOMAIN txs, Complete(j) PROVE Complete(j)'
        OBVIOUS
    <2>2. CASE j = ti
        <3>1. txs'[j] = u
            BY <1>7, <2>2
        <3>2. u.hash = Hash256(HashSrc(u))
            BY <2>1, <2>2 DEF Complete
        <3> QED  BY <3>1, <3>2, CompleteNext
    <2>3. CASE j # ti
        <3>1. txs'[j] = txs[j]
            BY <1>7, <2>3
        <3> QED  BY <3>1, CompleteNext DEF Complete
    <2> QED  BY <2>2, <2>3
<1>11. ThreadInv'
    BY <1>1, <1>6, <1>7, <1>10 DEF PInv, ThreadInv, Walking, Hashed
<1> QED  BY <1>7, <1>8, <1>11 DEF PInv

\* The thread is joined: the transaction is complete.
LEMMA EndParseTxStep == ASSUME PInv, EndParseTx PROVE PInv'
<1> USE DEF EndParseTx
<1>1. /\ ti \in DOMAIN txs /\ hashing = {}
      /\ Hashed => Complete(ti) /\ \A i \in Parsed : Complete(i)
    BY DEF PInv, ThreadInv
<1>2. ti + 1 \in 1 .. Len(txs) + 1 /\ Parsed' = Parsed \cup {ti}
      /\ Parsed' \subseteq DOMAIN txs
    BY <1>1 DEF PInv, Types, Parsed
<1>3. \A i \in DOMAIN txs : Complete(i) => Complete(i)'
    BY SameCompletes
<1>4. ThreadInv'
    BY <1>1, <1>2, <1>3 DEF ThreadInv, Walking, Hashed
<1>5. Types' /\ TxsInv' /\ WalkInv'
    BY <1>2 DEF PInv, Types, TxsInv, WalkInv, ParseSteps, walk, counts
<1> QED  BY <1>4, <1>5 DEF PInv

LEMMA EndParseStep == ASSUME PInv, EndParse PROVE PInv'
<1> USE DEF EndParse
<1>1. \A i \in DOMAIN txs : Complete(i) => Complete(i)'
    BY SameCompletes
<1>2. Parsed' = Parsed /\ Parsed \subseteq DOMAIN txs
    BY DEF PInv, Types, Parsed, place
<1>3. ThreadInv'
    BY <1>1, <1>2 DEF PInv, ThreadInv, Walking, Hashed, place
<1>4. Types' /\ TxsInv' /\ WalkInv'
    BY DEF PInv, Types, TxsInv, WalkInv, ParseSteps, walk, counts, place
<1> QED  BY <1>3, <1>4 DEF PInv

LEMMA StutterStep == ASSUME PInv, UNCHANGED pvars PROVE PInv'
<1> USE DEF pvars, walk, counts, place
<1>1. \A i \in DOMAIN txs : Complete(i) => Complete(i)'
    BY SameCompletes
<1>2. Parsed' = Parsed /\ Parsed \subseteq DOMAIN txs
    BY DEF PInv, Types, Parsed
<1>3. ThreadInv'
    BY <1>1, <1>2 DEF PInv, ThreadInv, Walking, Hashed
<1>4. tx' = tx
    BY DEF tx
<1>5. Types' /\ TxsInv' /\ WalkInv'
    BY <1>4 DEF PInv, Types, TxsInv, WalkInv
<1> QED  BY <1>3, <1>5 DEF PInv

LEMMA NextHolds == PInv /\ [ParseNext]_pvars => PInv'
<1> SUFFICES ASSUME PInv, [ParseNext]_pvars PROVE PInv'
    OBVIOUS
<1>1. CASE Main
    BY <1>1, ReadHeadStep, ReadTxStep, ReadVinStep, ReadVoutCountStep,
       ReadVoutStep, EndVoutsStep, ReadWitStep, SkipItemStep, EndTxStep,
       WalkEndsStep, ParseBlockStep, ParseTxStep, ThreadFailsStep,
       ParseVoutStep, EndParseTxStep, EndParseStep DEF Main
<1>2. CASE Threads
    BY <1>2, ThreadStep DEF Threads
<1>3. CASE UNCHANGED pvars
    BY <1>3, StutterStep
<1> QED  BY <1>1, <1>2, <1>3 DEF ParseNext

-----------------------------------------------------------------------------
\* Every number, record and offset of the walk keeps its type, for all blocks
\* that can be loaded, well-formed or not, and all options.
THEOREM ParseTypeCorrect == ParseSpec => []ParseTypeOK
<1>1. PInv => ParseTypeOK
    <2> SUFFICES ASSUME PInv PROVE ParseTypeOK
        OBVIOUS
    <2>1. \A i \in DOMAIN txs : IsTx(txs[i])
        <3> SUFFICES ASSUME NEW i \in DOMAIN txs PROVE IsTx(txs[i])
            OBVIOUS
        <3> DEFINE t == txs[i]
        <3>1. t \in TxT /\ t.wits <= Len(t.vins) /\ t.size >= 0 /\ t.wit_offset >= 0
            BY ElementOfSeq DEF PInv, Types, TxsInv
        <3> HIDE DEF t
        <3>2. t.vins \in Seq(VinT) /\ t.vouts \in Seq(VoutT) /\ t.wits \in Nat
              /\ t.beg \in Nat /\ t.size \in Nat /\ t.wit_offset \in Nat
              /\ t.segwit \in BOOLEAN
            BY <3>1 DEF TxT
        <3>3. \A j \in DOMAIN t.vins : t.vins[j].script \in ScriptView
            <4>1. \A j \in DOMAIN t.vins : t.vins[j] \in VinT
                BY <3>2
            <4> QED  BY <4>1 DEF VinT
        <3>4. \A j \in DOMAIN t.vouts : t.vouts[j].script \in ScriptView
            <4>1. \A j \in DOMAIN t.vouts : t.vouts[j] \in VoutT
                BY <3>2
            <4> QED  BY <4>1 DEF VoutT
        <3>5. t.wits \in 0 .. Len(t.vins)
            BY <3>1, <3>2
        <3> QED  BY <3>2, <3>3, <3>4, <3>5 DEF IsTx, t
    <2>2. hashing \subseteq DOMAIN txs
        BY DEF PInv, ThreadInv
    <2> QED  BY <2>1, <2>2 DEF PInv, Types, ParseTypeOK
<1> QED  BY <1>1, InitHolds, NextHolds, PTL DEF ParseSpec

\* When TX_T::parse() has returned, the hash is complete and no thread writes
\* it, whatever the scheduling: for all blocks and options.
THEOREM HashesReadyCorrect == ParseSpec => []HashesReady
<1>1. PInv => HashesReady
    BY DEF PInv, ThreadInv, HashesReady, Types, Parsed
<1> QED  BY <1>1, InitHolds, NextHolds, PTL DEF ParseSpec
-----------------------------------------------------------------------------
\* The walk of blocks that have a layout.  The layout of the block that is
\* loaded, and what it says of the i-th transaction: what was serialized, its
\* place, the places of its parts, and the place where its inputs are counted.
AllLaid == \A b \in Blocks : \E l : Laid(b, l)
TheLayout == CHOOSE l : Laid(block, l)
Ref(i)   == block.txs[i]
Place(i) == TheLayout.txs[i]
Parts(i) == TheLayout.parts[i]
CountPlace(i) == BodyOf(Place(i), Ref(i))
VinsEnd(i)    == Parts(i).vins[Len(Ref(i).vins) + 1]

\* A script that ends in the block.
Inside(v) == End(v) <= Len(block.bytes)

\* What was found in t, the i-th transaction, until now: nothing was refused.
VinsFound(t, i) ==
    \A j \in DOMAIN t.vins : /\ SameVin(t.vins[j], Ref(i).vins[j])
                             /\ ~Refused(block, Parts(i).vins[j] + 36)
VoutsFound(t, i) ==
    \A j \in DOMAIN t.vouts : /\ SameVout(t.vouts[j], Ref(i).vouts[j])
                              /\ ~Refused(block, Parts(i).vouts[j] + 8)
                              /\ Inside(t.vouts[j].script)
\* The w-th witness, up to its k-th item.
WitFound(i, w, k) ==
    /\ ~Refused(block, Parts(i).wits[w])
    /\ \A m \in 1 .. k : ~Refused(block, Parts(i).items[w][m])

\* Where the walk is in t, with ptr = p, and what it has behind it.
Begun(t, i, p) ==
    /\ t.beg = Place(i) /\ t.segwit = Ref(i).segwit /\ p > CountPlace(i)
    /\ ~Refused(block, CountPlace(i)) /\ ~At(block, CountPlace(i), <<0>>)
    /\ VinsFound(t, i)
AtVin(t, i, p, count) ==
    /\ count = Len(Ref(i).vins) /\ t.vouts = <<>> /\ t.wits = 0
    /\ p = Parts(i).vins[Len(t.vins) + 1]
VinsRead(t, i) ==
    /\ Len(t.vins) = Len(Ref(i).vins) /\ ~Refused(block, VinsEnd(i))
    /\ VoutsFound(t, i)
AtVout(t, i, p, count) ==
    /\ count = Len(Ref(i).vouts) /\ t.wits = 0
    /\ p = Parts(i).vouts[Len(t.vouts) + 1]
VoutsRead(t, i) ==
    /\ Len(t.vouts) = Len(Ref(i).vouts)
    /\ t.wit_offset = Parts(i).wits[1] - Place(i)
    /\ Parts(i).wits[1] > CountPlace(i)
\* rest items of the witness in hand are still to be skipped.
AtWit(t, i, p, rest) ==
    /\ t.wits <= Len(Ref(i).wits)
    /\ \A w \in 1 .. t.wits - 1 : WitFound(i, w, Len(Ref(i).wits[w]))
    /\ IF t.wits = 0
         THEN rest = 0 /\ p = Parts(i).wits[1]
         ELSE LET n == Len(Ref(i).wits[t.wits])
              IN  /\ rest <= n /\ p = Parts(i).items[t.wits][n - rest + 1]
                  /\ WitFound(i, t.wits, n - rest)

\* t is the whole of the i-th transaction.
Built(t, i) ==
    /\ i \in 1 .. Len(block.txs) /\ SameTx(t, Ref(i))
    /\ TxSound(block, Place(i), Ref(i), Parts(i))
    /\ t.beg = Place(i) /\ t.size = Place(i + 1) - Place(i)
    /\ t.wit_offset = Parts(i).wits[1] - Place(i)
    /\ Parts(i).wits[1] > CountPlace(i)
    /\ \A j \in DOMAIN t.vouts : Inside(t.vouts[j].script)

Glitch == block.height \in Glitches
InTx   == step \in {"vin", "vout", "wit"}
Ended  == step \in {"built", "parse", "addr", "parsed"}
GlitchInv ==
    Glitch => Len(txs) = 0 /\ step \in {"head", "built", "parse", "parsed", "aborted"}
CountInv ==
    /\ (~Glitch /\ step \notin {"head", "aborted"}) =>
          tx_count = Len(block.txs) /\ ~Refused(block, HeaderLen)
    /\ step \in {"head", "tx", "vin", "vout"} => items = 0
PlaceInv ==
    /\ step = "tx" => ptr = Place(Len(txs) + 1)
    /\ InTx => Begun(tx, Len(txs), ptr)
    /\ step = "vin" => AtVin(tx, Len(txs), ptr, vin_count)
    /\ step \in {"vout", "wit"} => VinsRead(tx, Len(txs))
    /\ step = "vout" => AtVout(tx, Len(txs), ptr, vout_count)
    /\ step = "wit" => VoutsRead(tx, Len(txs)) /\ AtWit(tx, Len(txs), ptr, items)
\* What is behind the walk is built; what has a hash has the right one.
BuiltInv ==
    step # "aborted" =>
        \A i \in DOMAIN txs : (i < Len(txs) \/ ~InTx) => Built(txs[i], i)
HashInv ==
    \A i \in DOMAIN txs : txs[i].hash # NoHash => Built(txs[i], i) /\ Complete(i)
FreshInv == InTx => tx.hash = NoHash
EndInv ==
    /\ (Ended /\ ~Glitch) => Len(txs) = Len(block.txs) /\ ptr = Len(block.bytes)
    /\ (step = "aborted" /\ ~OPTS.mt) => ~block.good

WInv == /\ GlitchInv /\ CountInv /\ PlaceInv /\ BuiltInv
        /\ HashInv /\ FreshInv /\ EndInv
-----------------------------------------------------------------------------
\* What stands in the block is what UNIPTR_T reads there.
LEMMA BytesType ==
    ASSUME block \in Blocks
    PROVE  block.bytes \in Seq(Octets) /\ Len(block.bytes) \in Nat
BY ParseAssumption DEF Octets

LEMMA ByteAt ==
    ASSUME NEW p \in Nat, NEW s, At(block, p, s), Len(s) \in Nat,
           Len(block.bytes) \in Nat
    PROVE  \A k \in 1 .. Len(s) : \A q : q = p + k - 1 => Byte(q) = s[k]
<1> SUFFICES ASSUME NEW k \in 1 .. Len(s), NEW q, q = p + k - 1
             PROVE  Byte(q) = s[k]
    OBVIOUS
<1>1. p + k <= Len(block.bytes) /\ block.bytes[p + k] = s[k]
    BY DEF At
<1>2. q < Len(block.bytes) /\ q + 1 = p + k
    BY <1>1
<1> QED  BY <1>1, <1>2 DEF Byte

LEMMA RefusedIs ==
    ASSUME block \in Blocks, NEW p \in Nat
    PROVE  TooBig(p) <=> Refused(block, p)
<1>1. Len(<<255>>) = 1 /\ <<255>>[1] = 255 /\ Len(block.bytes) \in Nat
    BY BytesType
<1>2. Refused(block, p) <=> p + 1 <= Len(block.bytes) /\ block.bytes[p + 1] = 255
    BY <1>1 DEF Refused, At
<1> QED  BY <1>1, <1>2 DEF TooBig, Byte

\* A number that stands in the block, in any width, is read as it is, and the
\* walk goes to where it ends.
LEMMA NumberRead ==
    ASSUME block \in Blocks, NEW p \in Nat, NEW q, NEW n,
           CountAt(block, p, q, n), ~TooBig(p)
    PROVE  VarUint(p) = n /\ After(p) = q /\ ~Refused(block, p)
<1>1. ~Refused(block, p) /\ Len(block.bytes) \in Nat
    BY RefusedIs, BytesType
<1>2. n \in Nat
    BY DEF CountAt
<1>3. PICK s \in Coded(n) : At(block, p, s) /\ q = p + Len(s)
    BY <1>1 DEF CountAt, NumberAt
<1> DEFINE B == \A k \in 1 .. Len(s) : \A r : r = p + k - 1 => Byte(r) = s[k]
<1>7. Len(s) \in Nat => B
    BY <1>1, <1>3, ByteAt
<1>4. CASE n < 253 /\ s = <<n>>
    <2>1. Len(s) = 1 /\ s[1] = n /\ 1 \in 1 .. 1 /\ p = p + 1 - 1
        BY <1>4
    <2>2. Byte(p) = n
        BY <1>7, <2>1
    <2> QED  BY <1>1, <1>2, <1>3, <1>4, <2>1, <2>2 DEF VarUint, VarSize, After
<1>5. CASE s = <<253, n % 256, n \div 256>>
    <2>1. Len(s) = 3 /\ s[1] = 253 /\ s[2] = n % 256 /\ s[3] = n \div 256
        BY <1>5
    <2>2. /\ p = p + 1 - 1 /\ p + 1 = p + 2 - 1 /\ p + 2 = p + 3 - 1
          /\ 1 \in 1 .. 3 /\ 2 \in 1 .. 3 /\ 3 \in 1 .. 3
        OBVIOUS
    <2>3. Byte(p) = s[1] /\ Byte(p + 1) = s[2] /\ Byte(p + 2) = s[3]
        BY <1>7, <2>1, <2>2
    <2>5. (n % 256) + 256 * (n \div 256) = n
        BY <1>2
    <2> QED  BY <1>1, <1>3, <2>1, <2>3, <2>5 DEF VarUint, VarSize, After
<1>6. CASE s = <<254, n % 256, (n \div 256) % 256, (n \div 65536) % 256, n \div 16777216>>
    <2> DEFINE a == n % 256  b == (n \div 256) % 256  c == (n \div 65536) % 256
               d == n \div 16777216
    <2>1. Len(s) = 5 /\ s[1] = 254 /\ s[2] = a /\ s[3] = b /\ s[4] = c /\ s[5] = d
        BY <1>6
    <2>2. a + 256 * b + 65536 * (c + 256 * d) = n
        BY <1>2
    <2> HIDE DEF a, b, c, d
    <2>3. /\ p = p + 1 - 1 /\ p + 1 = p + 2 - 1 /\ p + 2 = p + 3 - 1
          /\ p + 3 = p + 4 - 1 /\ p + 4 = p + 5 - 1
          /\ 1 \in 1 .. 5 /\ 2 \in 1 .. 5 /\ 3 \in 1 .. 5 /\ 4 \in 1 .. 5 /\ 5 \in 1 .. 5
        OBVIOUS
    <2>4. /\ Byte(p) = s[1] /\ Byte(p + 1) = s[2] /\ Byte(p + 2) = s[3]
          /\ Byte(p + 3) = s[4] /\ Byte(p + 4) = s[5]
        BY <1>7, <2>1, <2>3
    <2> QED  BY <1>1, <1>3, <2>1, <2>2, <2>4 DEF VarUint, VarSize, After
<1> QED  BY <1>3, <1>4, <1>5, <1>6 DEF Coded

\* Bytes that stand in the block, with their number known or before them.
LEMMA SliceRead ==
    ASSUME block \in Blocks, NEW p \in Nat, NEW n \in Nat, NEW s \in [1 .. n -> Octets],
           At(block, p, s)
    PROVE  Slice(p, n) = s /\ p + n <= Len(block.bytes)
<1>1. Len(s) = n /\ Len(block.bytes) \in Nat
    BY BytesType
<1>2. \A i \in 1 .. n : Byte(p + i - 1) = s[i]
    BY <1>1, ByteAt
<1>3. p + n <= Len(block.bytes)
    BY <1>1 DEF At
<1> QED  BY <1>2, <1>3 DEF Slice

LEMMA CountedRead ==
    ASSUME block \in Blocks, NEW p \in Nat, NEW q, NEW s,
           CountedAt(block, p, q, s), ~TooBig(p)
    PROVE  /\ Text(View(p)) = s /\ End(View(p)) = q
           /\ ~Refused(block, p) /\ q <= Len(block.bytes)
<1> DEFINE n == Len(s)  c == q - n
<1>1. /\ s \in Seq(Octets) /\ n \in Nat /\ q \in Nat
      /\ CountAt(block, p, c, n) /\ At(block, c, s)
    BY DEF CountedAt
<1>6. s \in [1 .. n -> Octets]
    BY <1>1
<1> HIDE DEF c, n
<1>2. VarUint(p) = n /\ After(p) = c /\ ~Refused(block, p)
    BY <1>1, NumberRead
<1>3. c \in Nat
    BY <1>2, VarUintType
<1>4. Slice(c, n) = s /\ c + n <= Len(block.bytes)
    BY <1>1, <1>3, <1>6, SliceRead
<1>5. c + n = q
    BY <1>1 DEF c, CountedAt
<1> QED  BY <1>2, <1>4, <1>5 DEF Text, View, End

LEMMA SliceIsBetween ==
    ASSUME block \in Blocks, NEW p \in Nat, NEW n \in Int, NEW q, q = p + n,
           q <= Len(block.bytes)
    PROVE  Slice(p, n) = Between(block, p, q)
<1>1. Len(block.bytes) \in Nat /\ 1 + q - (p + 1) = n
    BY BytesType
<1>2. \A i \in 1 .. n : p + i - 1 < Len(block.bytes) /\ (p + i - 1) + 1 = i + (p + 1) - 1
    BY <1>1
<1>3. Between(block, p, q) = [i \in 1 .. n |-> block.bytes[i + (p + 1) - 1]]
    BY <1>1 DEF Between
<1>4. Slice(p, n) = [i \in 1 .. n |-> Byte(p + i - 1)]
    BY DEF Slice
<1>5. \A i \in 1 .. n : Byte(p + i - 1) = block.bytes[i + (p + 1) - 1]
    BY <1>2 DEF Byte
<1> QED  BY <1>3, <1>4, <1>5

\* Slices that follow each other make one.
LEMMA SliceJoin ==
    ASSUME block \in Blocks, NEW p \in Nat, NEW m \in Nat, NEW n \in Nat
    PROVE  Slice(p, m) \o Slice(p + m, n) = Slice(p, m + n)
<1> DEFINE a == Slice(p, m)  b == Slice(p + m, n)  c == Slice(p, m + n)
<1>1. a \in Seq(Octets) /\ b \in Seq(Octets) /\ c \in Seq(Octets)
    <2>1. p + m \in Nat /\ m + n \in Nat
        OBVIOUS
    <2> QED  BY <2>1, SliceType
<1>2. Len(a) = m /\ Len(b) = n /\ Len(c) = m + n
    BY DEF Slice
<1>3. /\ \A i \in 1 .. m : a[i] = Byte(p + i - 1)
      /\ \A i \in 1 .. n : b[i] = Byte((p + m) + i - 1)
      /\ \A i \in 1 .. m + n : c[i] = Byte(p + i - 1)
    BY DEF Slice
<1> HIDE DEF a, b, c
<1>4. a \o b \in Seq(Octets) /\ Len(a \o b) = m + n
    BY <1>1, <1>2
<1>5. \A i \in 1 .. m + n : (a \o b)[i] = c[i]
    <2> TAKE i \in 1 .. m + n
    <2>1. CASE i <= m
        <3>1. (a \o b)[i] = a[i]
            BY <1>1, <1>2, <2>1
        <3> QED  BY <1>3, <2>1, <3>1
    <2>2. CASE ~(i <= m)
        <3>1. i - m \in 1 .. n /\ (p + m) + (i - m) - 1 = p + i - 1
            BY <2>2
        <3>2. (a \o b)[i] = b[i - m]
            BY <1>1, <1>2, <2>2, ConcatProperties
        <3> QED  BY <1>3, <3>1, <3>2
    <2> QED  BY <2>1, <2>2
<1>6. a \o b = c
    BY <1>1, <1>2, <1>4, <1>5, SeqEqual
<1> QED  BY <1>6 DEF a, b, c

-----------------------------------------------------------------------------
\* What the layout says of the i-th transaction.
LEMMA TheLayoutIs ==
    ASSUME AllLaid, block \in Blocks
    PROVE  Laid(block, TheLayout)
BY DEF AllLaid, TheLayout

LEMMA BlockLaid ==
    ASSUME AllLaid, block \in Blocks
    PROVE  /\ Len(block.txs) \in Nat
           /\ CountAt(block, HeadSize, Place(1), Len(block.txs))
           /\ Place(Len(block.txs) + 1) = Len(block.bytes)
           /\ block.good <=> /\ ~Refused(block, HeaderLen)
                             /\ \A i \in 1 .. Len(block.txs) :
                                  TxSound(block, Place(i), Ref(i), Parts(i))
           /\ \A i \in 1 .. Len(block.txs) :
                  TxAt(block, Place(i), Place(i + 1), Ref(i), Parts(i))
<1>1. Laid(block, TheLayout)
    BY TheLayoutIs
<1> HIDE DEF TheLayout
<1> QED  BY <1>1 DEF Laid, Place, Ref, Parts, HeaderLen, HeadSize, CountAt

\* The block stays, so what is said of it stays.
LEMMA LayoutNext ==
    ASSUME block' = block
    PROVE  TheLayout' = TheLayout
BY DEF TheLayout

LEMMA PlaceNext ==
    ASSUME block' = block
    PROVE  PlaceInv' <=>
             /\ step' = "tx" => ptr' = Place(Len(txs') + 1)
             /\ InTx' => Begun(tx', Len(txs'), ptr')
             /\ step' = "vin" => AtVin(tx', Len(txs'), ptr', vin_count')
             /\ step' \in {"vout", "wit"} => VinsRead(tx', Len(txs'))
             /\ step' = "vout" => AtVout(tx', Len(txs'), ptr', vout_count')
             /\ step' = "wit" => /\ VoutsRead(tx', Len(txs'))
                                 /\ AtWit(tx', Len(txs'), ptr', items')
<1> DEFINE l == TheLayout
<1>1. TheLayout' = TheLayout
    BY LayoutNext
<1> QED  BY <1>1 DEF PlaceInv, Place, Begun, AtVin, VinsRead, AtVout, VoutsRead, AtWit,
            VinsFound, VoutsFound, WitFound, CountPlace, VinsEnd, Ref, Parts,
            SameVin, SameVout, Text, Slice, Byte, Refused, At, Inside

LEMMA BuiltNext ==
    ASSUME block' = block
    PROVE  /\ BuiltInv' <=> (step' # "aborted" =>
                 \A i \in DOMAIN txs' : (i < Len(txs') \/ ~InTx') => Built(txs'[i], i))
           /\ HashInv' <=> (\A i \in DOMAIN txs' : txs'[i].hash # NoHash =>
                 Built(txs'[i], i) /\ txs'[i].hash = Hash256(HashSrc(txs'[i])))
<1>1. TheLayout' = TheLayout
    BY LayoutNext
<1> QED  BY <1>1 DEF BuiltInv, HashInv, Built, Place, Ref, Parts, CountPlace, SameTx,
            SameVin, SameVout, Text, Slice, Byte, TxSound, Refused, At, Complete, HashSrc,
            Inside

\* The transaction under construction.
LEMMA TxInHand ==
    ASSUME AllLaid, PInv, WInv, InTx
    PROVE  /\ ~Glitch /\ Len(txs) \in 1 .. Len(block.txs) /\ Len(txs) \in DOMAIN txs
           /\ TxAt(block, Place(Len(txs)), Place(Len(txs) + 1), Ref(Len(txs)),
                   Parts(Len(txs)))
           /\ Begun(tx, Len(txs), ptr) /\ tx.hash = NoHash
           /\ tx \in TxT /\ ptr \in Nat /\ block \in Blocks
           /\ CountPlace(Len(txs)) \in Int
<1>1. ~Glitch /\ tx_count = Len(block.txs) /\ Begun(tx, Len(txs), ptr) /\ tx.hash = NoHash
    BY DEF WInv, GlitchInv, CountInv, InTx, PlaceInv, FreshInv
<1>2. Len(txs) > 0 /\ txs \in Seq(TxT) /\ block \in Blocks /\ Len(txs) <= tx_count
      /\ ptr \in Nat
    BY DEF PInv, WalkInv, InTx, Types
<1>3. tx \in TxT
    BY <1>2, LastType
<1>4. CountPlace(Len(txs)) \in Int
    <2>1. Place(Len(txs)) \in Nat
        BY <1>1, <1>3 DEF Begun, TxT
    <2> QED  BY <2>1 DEF CountPlace, BodyOf
<1> QED  BY <1>1, <1>2, <1>3, <1>4, BlockLaid

\* The other transactions stay what they are while this one is changed.
LEMMA OthersKept ==
    ASSUME PInv, WInv, InTx, InTx', block' = block, Len(txs') = Len(txs),
           txs' \in Seq(TxT), tx'.hash = NoHash,
           \A i \in DOMAIN txs \ {Len(txs)} : txs'[i] = txs[i]
    PROVE  BuiltInv' /\ HashInv' /\ FreshInv'
<1>1. txs \in Seq(TxT) /\ DOMAIN txs = 1 .. Len(txs) /\ DOMAIN txs' = 1 .. Len(txs)
    BY DEF PInv, Types
<1>2. tx' = txs'[Len(txs)]
    BY DEF tx
<1>3. \A i \in DOMAIN txs : i < Len(txs) => Built(txs[i], i)
    BY DEF WInv, BuiltInv, InTx
<1>4. BuiltInv'
    BY <1>1, <1>3, BuiltNext
<1>5. \A i \in DOMAIN txs : txs[i].hash # NoHash =>
          Built(txs[i], i) /\ txs[i].hash = Hash256(HashSrc(txs[i]))
    BY DEF WInv, HashInv, Complete
<1>6. HashInv'
    BY <1>1, <1>2, <1>5, BuiltNext
<1> QED  BY <1>4, <1>6 DEF FreshInv

\* The number of transactions is read.
LEMMA ReadHeadRight == ASSUME AllLaid, PInv, WInv, ReadHead PROVE WInv'
<1> USE DEF ReadHead
<1>1. block \in Blocks /\ Len(txs) = 0 /\ txs' = txs /\ block' = block /\ DOMAIN txs = {}
      /\ HeadSize \in Nat
    BY DEF PInv, Types, WalkInv, HeadSize
<1>2. /\ VarUint(HeadSize) = Len(block.txs) /\ After(HeadSize) = Place(1)
      /\ ~Refused(block, HeaderLen)
    BY <1>1, BlockLaid, NumberRead DEF HeaderLen, HeadSize
<1>3. GlitchInv'
    BY <1>1 DEF GlitchInv, Glitch
<1>4. CountInv'
    BY <1>1, <1>2 DEF WInv, CountInv, Refused, At
<1>5. PlaceInv'
    BY <1>1, <1>2, PlaceNext DEF InTx
<1>6. BuiltInv' /\ HashInv' /\ FreshInv'
    BY <1>1, BuiltNext DEF InTx, FreshInv
<1>7. EndInv'
    BY <1>1 DEF EndInv, Ended, Glitch
<1> QED  BY <1>3, <1>4, <1>5, <1>6, <1>7 DEF WInv

\* The transaction that is next: the marker tells whether it has witnesses, and
\* the inputs are counted behind it.
LEMMA NextTx ==
    ASSUME AllLaid, PInv, WInv, step = "tx", Len(txs) < tx_count, NEW n, n = Len(txs) + 1
    PROVE  /\ block \in Blocks /\ ptr \in Nat /\ txs \in Seq(TxT)
           /\ ~Glitch /\ tx_count = Len(block.txs) /\ n \in 1 .. Len(block.txs)
           /\ ~Refused(block, HeaderLen) /\ items = 0 /\ ptr = Place(n)
           /\ TxAt(block, ptr, Place(n + 1), Ref(n), Parts(n))
           /\ Segwit = Ref(n).segwit
           /\ VinsAt = CountPlace(n) /\ VinsAt \in Nat /\ VinsAt >= ptr + 4
<1>1. /\ block \in Blocks /\ ptr \in Nat /\ txs \in Seq(TxT)
      /\ Len(block.bytes) \in Nat /\ Len(txs) \in Nat
    BY BytesType DEF PInv, Types
<1>2. ~Glitch /\ tx_count = Len(block.txs) /\ ptr = Place(n) /\ n \in 1 .. Len(block.txs)
      /\ ~Refused(block, HeaderLen) /\ items = 0
    BY <1>1, BlockLaid DEF WInv, GlitchInv, CountInv, PlaceInv
<1>3. TxAt(block, ptr, Place(n + 1), Ref(n), Parts(n))
    BY <1>1, <1>2, BlockLaid
<1>4. Segwit = Ref(n).segwit
    <2>1. Len(Marker) = 2 /\ Marker[1] = 0 /\ Marker[2] = 1
        BY DEF Marker
    <2>2. At(block, ptr + 4, Marker) <=>
             /\ ptr + 6 <= Len(block.bytes)
             /\ block.bytes[ptr + 5] = 0 /\ block.bytes[ptr + 6] = 1
        BY <1>1, <2>1 DEF At
    <2>3. /\ ptr + 4 < Len(block.bytes) <=> ptr + 5 <= Len(block.bytes)
          /\ ptr + 5 < Len(block.bytes) <=> ptr + 6 <= Len(block.bytes)
          /\ ptr + 4 + 1 = ptr + 5 /\ ptr + 5 + 1 = ptr + 6
          /\ ptr + 6 <= Len(block.bytes) => ptr + 5 <= Len(block.bytes)
        BY <1>1
    <2>4. Segwit <=> At(block, ptr + 4, Marker)
        BY <2>2, <2>3 DEF Segwit, Byte
    <2>5. Segwit \in BOOLEAN /\ Ref(n).segwit \in BOOLEAN
          /\ (Ref(n).segwit <=> At(block, ptr + 4, Marker))
        BY <1>3 DEF TxAt, Segwit
    <2> QED  BY <2>4, <2>5
<1>5. VinsAt = CountPlace(n) /\ VinsAt \in Nat /\ VinsAt >= ptr + 4
    BY <1>1, <1>2, <1>4 DEF VinsAt, CountPlace, BodyOf
<1> QED  BY <1>1, <1>2, <1>3, <1>4, <1>5

\* Where inputs are counted they are, unless nothing or a 0 stands there.
LEMMA VinsCounted ==
    ASSUME AllLaid, PInv, WInv, step = "tx", Len(txs) < tx_count, NEW n, n = Len(txs) + 1,
           ~TooBig(VinsAt), ~At(block, VinsAt, << 0 >>)
    PROVE  /\ VarUint(VinsAt) = Len(Ref(n).vins) /\ After(VinsAt) = Parts(n).vins[1]
           /\ ~Refused(block, VinsAt)
<1>1. /\ block \in Blocks /\ VinsAt \in Nat /\ VinsAt = CountPlace(n) /\ ptr = Place(n)
      /\ TxAt(block, ptr, Place(n + 1), Ref(n), Parts(n))
    BY NextTx
<1>2. CountAt(block, VinsAt, Parts(n).vins[1], Len(Ref(n).vins))
    BY <1>1 DEF TxAt, CountPlace
<1> QED  BY <1>1, <1>2, NumberRead

\* A transaction begins where the one before it ends.
LEMMA ReadTxRight == ASSUME AllLaid, PInv, WInv, ReadTx PROVE WInv'
<1> USE DEF ReadTx
<1> DEFINE n == Len(txs) + 1
<1>1. block' = block /\ Len(block.bytes) \in Nat /\ Len(txs) \in Nat
    BY BytesType DEF PInv, Types
<1>2. /\ block \in Blocks /\ ptr \in Nat /\ txs \in Seq(TxT)
      /\ ~Glitch /\ tx_count = Len(block.txs) /\ n \in 1 .. Len(block.txs)
      /\ ~Refused(block, HeaderLen) /\ items = 0 /\ ptr = Place(n)
      /\ Segwit = Ref(n).segwit
      /\ VinsAt = CountPlace(n) /\ VinsAt \in Nat /\ VinsAt >= ptr + 4
    BY NextTx
<1>6. ~At(block, VinsAt, <<0>>)
    <2>1. Len(<<0>>) = 1 /\ <<0>>[1] = 0
        OBVIOUS
    <2>2. At(block, VinsAt, <<0>>) => Byte(VinsAt) = 0
        BY <1>1, <1>2, <2>1 DEF At, Byte
    <2>3. Byte(VinsAt) = 0 => VarUint(VinsAt) = 0
        BY DEF VarUint
    <2> QED  BY <2>2, <2>3
<1>7. /\ VarUint(VinsAt) = Len(Ref(n).vins) /\ After(VinsAt) = Parts(n).vins[1]
      /\ ~Refused(block, VinsAt)
    BY <1>6, VinsCounted
<1>8. ptr' > VinsAt
    BY <1>2, VarUintType
<1> DEFINE t == NewTx(Segwit)
<1>9. /\ t.beg = ptr /\ t.segwit = Segwit /\ t.vins = <<>> /\ t.vouts = <<>>
      /\ t.wits = 0 /\ t.hash = NoHash
    BY DEF NewTx
<1>10. txs' = Append(txs, t) /\ step' = "vin"
    OBVIOUS
<1>11. txs' \in Seq(TxT) /\ t \in TxT
    <2>1. t \in TxT
        BY <1>2 DEF NewTx, Segwit, TxT, Hashes, NoHash
    <2> HIDE DEF t
    <2> QED  BY <1>2, <1>10, <2>1
<1> HIDE DEF t
<1>12. /\ Len(txs') = n /\ txs'[n] = t /\ DOMAIN txs' = DOMAIN txs \cup {n}
       /\ \A i \in DOMAIN txs : txs'[i] = txs[i] /\ i < n
    BY <1>1, <1>2, <1>10
<1> HIDE DEF n
<1>13. tx' = t
    BY <1>12 DEF tx
<1>14. Begun(t, n, ptr')
    BY <1>2, <1>6, <1>7, <1>8, <1>9 DEF Begun, VinsFound
<1>15. AtVin(t, n, ptr', vin_count')
    BY <1>7, <1>9 DEF AtVin
<1>16. PlaceInv'
    BY <1>1, <1>10, <1>12, <1>13, <1>14, <1>15, PlaceNext
<1>17. BuiltInv' /\ HashInv'
    <2>1. \A i \in DOMAIN txs : Built(txs[i], i)
        BY DEF WInv, BuiltInv, InTx
    <2>2. \A i \in DOMAIN txs : txs[i].hash # NoHash =>
             txs[i].hash = Hash256(HashSrc(txs[i]))
        BY DEF WInv, HashInv, Complete
    <2> QED  BY <1>1, <1>2, <1>9, <1>12, <2>1, <2>2, BuiltNext DEF InTx
<1>18. GlitchInv' /\ CountInv' /\ FreshInv' /\ EndInv'
    BY <1>1, <1>2, <1>9, <1>10, <1>13
       DEF GlitchInv, Glitch, CountInv, FreshInv, EndInv, Ended, Refused, At
<1> QED  BY <1>16, <1>17, <1>18 DEF WInv

\* What a step from one part of a transaction to another leaves to show.
LEMMA InTxStep ==
    ASSUME AllLaid, PInv, WInv, InTx, InTx', UNCHANGED <<OPTS, block, tx_count>>,
           txs' \in Seq(TxT), Len(txs') = Len(txs), tx'.hash = NoHash,
           \A i \in DOMAIN txs \ {Len(txs)} : txs'[i] = txs[i],
           step' # "wit" => items' = 0, PlaceInv'
    PROVE  WInv'
<1>1. BuiltInv' /\ HashInv' /\ FreshInv'
    BY OthersKept
<1>2. GlitchInv' /\ CountInv' /\ EndInv'
    BY TxInHand DEF WInv, InTx, GlitchInv, Glitch, CountInv, EndInv, Ended, Refused, At
<1> QED  BY <1>1, <1>2 DEF WInv

\* An input is read as it stands, and the next one is where it ends.
LEMMA ReadVinRight == ASSUME AllLaid, PInv, WInv, ReadVin PROVE WInv'
<1> USE DEF ReadVin
<1> DEFINE n == Len(txs)  j == Len(tx.vins) + 1
           r == Ref(n).vins[j]
           q == Parts(n).vins[j + 1]
           v == [tx_hash |-> ptr, vout |-> Slice(ptr + 32, 4), script |-> View(ptr + 36)]
           t == [tx EXCEPT !.vins = Append(@, v)]
<1>1. InTx /\ InTx' /\ step' = "vin" /\ block' = block
    BY DEF InTx
<1>2. /\ n \in 1 .. Len(block.txs) /\ Begun(tx, n, ptr) /\ tx.hash = NoHash
      /\ TxAt(block, Place(n), Place(n + 1), Ref(n), Parts(n))
      /\ tx \in TxT /\ ptr \in Nat /\ block \in Blocks /\ CountPlace(n) \in Int
    BY <1>1, TxInHand
<1>3. /\ vin_count = Len(Ref(n).vins) /\ tx.vouts = <<>> /\ tx.wits = 0
      /\ ptr = Parts(n).vins[j] /\ items = 0
    BY DEF WInv, PlaceInv, AtVin, CountInv
<1>4. tx.vins \in Seq(VinT) /\ j \in 1 .. Len(Ref(n).vins)
    <2>1. tx.vins \in Seq(VinT) /\ vin_count \in Nat
        BY <1>2 DEF TxT, PInv, Types
    <2>2. Len(tx.vins) \in Nat /\ Len(tx.vins) < vin_count
        BY <2>1
    <2> QED  BY <1>3, <2>1, <2>2
<1>5. VinAt(block, ptr, q, r)
    BY <1>2, <1>3, <1>4 DEF TxAt
<1> HIDE DEF r, q
<1>6. /\ Text(View(ptr + 36)) = r.script /\ End(View(ptr + 36)) = q - 4
      /\ ~Refused(block, ptr + 36) /\ q \in Nat
    <2>1. CountedAt(block, ptr + 36, q - 4, r.script) /\ q \in Nat
        BY <1>5 DEF VinAt
    <2>2. ptr + 36 \in Nat
        BY <1>2
    <2> QED  BY <1>2, <2>1, <2>2, CountedRead
<1>7. Slice(ptr, 32) = r.tx_hash
    <2>1. r.tx_hash \in [1 .. 32 -> Octets] /\ At(block, ptr, r.tx_hash)
        BY <1>5 DEF VinAt
    <2> QED  BY <1>2, <2>1, SliceRead
<1>8. Slice(ptr + 32, 4) = r.vout
    <2>1. r.vout \in [1 .. 4 -> Octets] /\ At(block, ptr + 32, r.vout)
        BY <1>5 DEF VinAt
    <2>2. ptr + 32 \in Nat
        BY <1>2
    <2> QED  BY <1>2, <2>1, <2>2, SliceRead
<1>9. SameVin(v, r)
    BY <1>6, <1>7, <1>8 DEF SameVin
<1>10. ptr' = q /\ SetTx(t) /\ ptr' > ptr
    <2>1. ptr + 36 \in Nat
        BY <1>2
    <2>2. End(View(ptr + 36)) > ptr + 36
        BY <1>2, <2>1, ViewType
    <2> QED  BY <1>2, <1>6, <2>2
<1>11. v \in VinT
    <2>1. ptr + 32 \in Nat /\ ptr + 36 \in Nat
        BY <1>2
    <2>2. Slice(ptr + 32, 4) \in Seq(Octets) /\ View(ptr + 36) \in ScriptView
        BY <1>2, <2>1, SliceType, ViewType
    <2> QED  BY <1>2, <2>2 DEF VinT
<1> HIDE DEF v
<1>19. Append(tx.vins, v) \in Seq(VinT)
    BY <1>4, <1>11
<1>12. /\ t \in TxT /\ t.vins = Append(tx.vins, v) /\ t.beg = tx.beg
       /\ t.segwit = tx.segwit /\ t.vouts = tx.vouts /\ t.wits = tx.wits
       /\ t.size = tx.size /\ t.wit_offset = tx.wit_offset /\ t.hash = tx.hash
    BY <1>2, <1>19 DEF TxT
<1> HIDE DEF t
<1>13. /\ txs' \in Seq(TxT) /\ Len(txs') = n /\ tx' = t
       /\ \A i \in DOMAIN txs \ {n} : txs'[i] = txs[i]
    <2>1. n > 0 /\ tx.wits <= Len(tx.vins) /\ tx.size >= 0 /\ tx.wit_offset >= 0
        BY <1>1, LastType DEF PInv, WalkInv
    <2>2. t.wits <= Len(t.vins)
        BY <1>3, <1>4, <1>12
    <2> QED  BY <1>10, <1>12, <2>1, <2>2, SetLast
<1>14. /\ DOMAIN t.vins = DOMAIN tx.vins \cup {j} /\ t.vins[j] = v /\ Len(t.vins) = j
       /\ \A i \in DOMAIN tx.vins : t.vins[i] = tx.vins[i]
    BY <1>4, <1>12
<1> HIDE DEF j
<1>15. VinsFound(t, n)
    <2>1. ~Refused(block, Parts(n).vins[j] + 36)
        BY <1>3, <1>6
    <2> QED  BY <1>2, <1>9, <1>14, <2>1 DEF VinsFound, Begun, r
<1>16. Begun(t, n, ptr')
    <2>1. ptr' \in Nat /\ ptr' > CountPlace(n)
        BY <1>2, <1>6, <1>10 DEF Begun
    <2> QED  BY <1>2, <1>12, <1>15, <2>1 DEF Begun
<1>17. AtVin(t, n, ptr', vin_count')
    BY <1>3, <1>10, <1>12, <1>14 DEF AtVin, q, counts
<1>18. PlaceInv'
    BY <1>1, <1>13, <1>16, <1>17, PlaceNext
<1> QED  BY <1>1, <1>2, <1>3, <1>12, <1>13, <1>18, InTxStep DEF counts

\* The outputs are counted where the inputs end.
LEMMA ReadVoutCountRight == ASSUME AllLaid, PInv, WInv, ReadVoutCount PROVE WInv'
<1> USE DEF ReadVoutCount
<1> DEFINE n == Len(txs)
<1>1. InTx /\ InTx' /\ step' = "vout" /\ block' = block /\ txs' = txs /\ tx' = tx
    BY DEF InTx, tx
<1>2. /\ n \in 1 .. Len(block.txs) /\ Begun(tx, n, ptr) /\ tx.hash = NoHash
      /\ TxAt(block, Place(n), Place(n + 1), Ref(n), Parts(n))
      /\ tx \in TxT /\ ptr \in Nat /\ block \in Blocks /\ CountPlace(n) \in Int
    BY <1>1, TxInHand
<1>3. /\ vin_count = Len(Ref(n).vins) /\ tx.vouts = <<>> /\ tx.wits = 0
      /\ ptr = VinsEnd(n) /\ items = 0
    BY DEF WInv, PlaceInv, AtVin, CountInv, VinsEnd
<1>4. CountAt(block, ptr, Parts(n).vouts[1], Len(Ref(n).vouts))
    BY <1>2, <1>3 DEF TxAt, VinsEnd
<1>5. /\ VarUint(ptr) = Len(Ref(n).vouts) /\ After(ptr) = Parts(n).vouts[1]
      /\ ~Refused(block, ptr)
    BY <1>2, <1>4, NumberRead
<1>6. ptr' \in Nat /\ ptr' > ptr
    BY <1>2, VarUintType
<1>7. Begun(tx, n, ptr')
    <2>1. ptr' > CountPlace(n)
        BY <1>2, <1>6 DEF Begun
    <2> QED  BY <1>2, <2>1 DEF Begun
<1>8. VinsRead(tx, n)
    BY <1>3, <1>5 DEF VinsRead, VoutsFound
<1>9. AtVout(tx, n, ptr', vout_count')
    BY <1>3, <1>5 DEF AtVout
<1> HIDE DEF n
<1>10. PlaceInv'
    BY <1>1, <1>7, <1>8, <1>9, PlaceNext DEF n
<1>11. txs' \in Seq(TxT) /\ UNCHANGED <<OPTS, block, tx_count>> /\ items' = 0
    BY <1>1, <1>3 DEF PInv, Types
<1> QED  BY <1>1, <1>2, <1>10, <1>11, InTxStep

\* An output is read as it stands, and the next one is where it ends.
LEMMA ReadVoutRight == ASSUME AllLaid, PInv, WInv, ReadVout PROVE WInv'
<1> USE DEF ReadVout
<1> DEFINE n == Len(txs)  j == Len(tx.vouts) + 1
           r == Ref(n).vouts[j]
           q == Parts(n).vouts[j + 1]
           v == [satoshi |-> Slice(ptr, 8), script |-> View(ptr + 8), addr |-> NoAddress]
           t == [tx EXCEPT !.vouts = Append(@, v)]
<1>1. InTx /\ InTx' /\ step' = "vout" /\ block' = block
    BY DEF InTx
<1>2. /\ n \in 1 .. Len(block.txs) /\ Begun(tx, n, ptr) /\ tx.hash = NoHash
      /\ TxAt(block, Place(n), Place(n + 1), Ref(n), Parts(n))
      /\ tx \in TxT /\ ptr \in Nat /\ block \in Blocks /\ CountPlace(n) \in Int
    BY <1>1, TxInHand
<1>3. /\ vout_count = Len(Ref(n).vouts) /\ tx.wits = 0
      /\ ptr = Parts(n).vouts[j] /\ items = 0 /\ VinsRead(tx, n)
    BY DEF WInv, PlaceInv, AtVout, CountInv
<1>4. tx.vouts \in Seq(VoutT) /\ j \in 1 .. Len(Ref(n).vouts)
    <2>1. tx.vouts \in Seq(VoutT) /\ vout_count \in Nat
        BY <1>2 DEF TxT, PInv, Types
    <2>2. Len(tx.vouts) \in Nat /\ Len(tx.vouts) < vout_count
        BY <2>1
    <2> QED  BY <1>3, <2>1, <2>2
<1>5. VoutAt(block, ptr, q, r)
    BY <1>2, <1>3, <1>4 DEF TxAt
<1> HIDE DEF r, q
<1>6. /\ Text(View(ptr + 8)) = r.script /\ End(View(ptr + 8)) = q
      /\ ~Refused(block, ptr + 8) /\ Inside(View(ptr + 8))
    <2>1. CountedAt(block, ptr + 8, q, r.script)
        BY <1>5 DEF VoutAt
    <2>2. ptr + 8 \in Nat
        BY <1>2
    <2> QED  BY <1>2, <2>1, <2>2, CountedRead DEF Inside
<1>7. Slice(ptr, 8) = r.satoshi
    <2>1. r.satoshi \in [1 .. 8 -> Octets] /\ At(block, ptr, r.satoshi)
        BY <1>5 DEF VoutAt
    <2> QED  BY <1>2, <2>1, SliceRead
<1>9. SameVout(v, r)
    BY <1>6, <1>7 DEF SameVout
<1>10. ptr' = q /\ SetTx(t) /\ ptr' \in Nat /\ ptr' > ptr
    <2>1. ptr + 8 \in Nat
        BY <1>2
    <2>2. End(View(ptr + 8)) > ptr + 8 /\ End(View(ptr + 8)) \in Nat
        BY <1>2, <2>1, ViewType
    <2> QED  BY <1>2, <1>6, <2>2
<1>11. v \in VoutT
    <2>1. ptr + 8 \in Nat
        BY <1>2
    <2>2. Slice(ptr, 8) \in Seq(Octets) /\ View(ptr + 8) \in ScriptView
        BY <1>2, <2>1, SliceType, ViewType
    <2> QED  BY <2>2 DEF VoutT, Addresses
<1> HIDE DEF v
<1>19. Append(tx.vouts, v) \in Seq(VoutT)
    BY <1>4, <1>11
<1>12. /\ t \in TxT /\ t.vouts = Append(tx.vouts, v) /\ t.beg = tx.beg
       /\ t.segwit = tx.segwit /\ t.vins = tx.vins /\ t.wits = tx.wits
       /\ t.size = tx.size /\ t.wit_offset = tx.wit_offset /\ t.hash = tx.hash
    BY <1>2, <1>19 DEF TxT
<1> HIDE DEF t
<1>13. /\ txs' \in Seq(TxT) /\ Len(txs') = n /\ tx' = t
       /\ \A i \in DOMAIN txs \ {n} : txs'[i] = txs[i]
    <2>1. n > 0 /\ tx.wits <= Len(tx.vins) /\ tx.size >= 0 /\ tx.wit_offset >= 0
        BY <1>1, LastType DEF PInv, WalkInv
    <2> QED  BY <1>10, <1>12, <2>1, SetLast
<1>14. /\ DOMAIN t.vouts = DOMAIN tx.vouts \cup {j} /\ t.vouts[j] = v /\ Len(t.vouts) = j
       /\ \A i \in DOMAIN tx.vouts : t.vouts[i] = tx.vouts[i]
    BY <1>4, <1>12
<1> HIDE DEF j
<1>15. VoutsFound(t, n)
    <2>1. ~Refused(block, Parts(n).vouts[j] + 8)
        BY <1>3, <1>6
    <2>2. Inside(v.script)
        BY <1>6 DEF v
    <2> QED  BY <1>3, <1>9, <1>14, <2>1, <2>2 DEF VoutsFound, VinsRead, r
<1>16. Begun(t, n, ptr')
    <2>1. ptr' > CountPlace(n)
        BY <1>2, <1>10 DEF Begun
    <2> QED  BY <1>2, <1>12, <2>1 DEF Begun, VinsFound
<1>17. VinsRead(t, n) /\ AtVout(t, n, ptr', vout_count')
    BY <1>3, <1>10, <1>12, <1>14, <1>15 DEF VinsRead, AtVout, q, counts
<1>18. PlaceInv'
    BY <1>1, <1>13, <1>16, <1>17, PlaceNext
<1> QED  BY <1>1, <1>2, <1>3, <1>12, <1>13, <1>18, InTxStep DEF counts

\* The witnesses, or the locktime, begin where the outputs end.
LEMMA EndVoutsRight == ASSUME AllLaid, PInv, WInv, EndVouts PROVE WInv'
<1> USE DEF EndVouts
<1> DEFINE n == Len(txs)  t == [tx EXCEPT !.wit_offset = ptr - tx.beg]
<1>1. InTx /\ InTx' /\ step' = "wit" /\ block' = block
    BY DEF InTx
<1>2. /\ n \in 1 .. Len(block.txs) /\ Begun(tx, n, ptr) /\ tx.hash = NoHash
      /\ TxAt(block, Place(n), Place(n + 1), Ref(n), Parts(n))
      /\ tx \in TxT /\ ptr \in Nat /\ block \in Blocks /\ CountPlace(n) \in Int
    BY <1>1, TxInHand
<1>3. /\ vout_count = Len(Ref(n).vouts) /\ tx.wits = 0
      /\ ptr = Parts(n).vouts[Len(tx.vouts) + 1] /\ items = 0 /\ VinsRead(tx, n)
    BY DEF WInv, PlaceInv, AtVout, CountInv
<1>4. ptr = Parts(n).wits[1]
    BY <1>2, <1>3 DEF TxAt
<1>5. tx.beg \in Nat /\ ptr - tx.beg \in Int /\ tx.beg <= ptr /\ n > 0
    BY <1>1, <1>2 DEF TxT, PInv, WalkInv
<1>6. /\ t \in TxT /\ t.wit_offset = ptr - tx.beg /\ t.beg = tx.beg
      /\ t.segwit = tx.segwit /\ t.vins = tx.vins /\ t.vouts = tx.vouts
      /\ t.wits = tx.wits /\ t.size = tx.size /\ t.hash = tx.hash
    BY <1>2, <1>5 DEF TxT
<1>7. SetTx(t)
    OBVIOUS
<1> HIDE DEF t
<1>8. /\ txs' \in Seq(TxT) /\ Len(txs') = n /\ tx' = t
      /\ \A i \in DOMAIN txs \ {n} : txs'[i] = txs[i]
    <2>1. tx.wits <= Len(tx.vins) /\ tx.size >= 0 /\ ptr - tx.beg >= 0
        BY <1>1, <1>2, <1>5, LastType
    <2> QED  BY <1>5, <1>6, <1>7, <2>1, SetLast
<1>9. Begun(t, n, ptr) /\ VinsRead(t, n)
    BY <1>2, <1>3, <1>6 DEF Begun, VinsFound, VinsRead, VoutsFound
<1>10. VoutsRead(t, n)
    BY <1>2, <1>3, <1>4, <1>6 DEF VoutsRead, Begun
<1>11. AtWit(t, n, ptr, items)
    <2>1. 0 <= Len(Ref(n).wits)
        <3>1. Len(Ref(n).vins) \in Nat
            BY <1>2, <1>3 DEF VinsRead, TxT
        <3> QED  BY <1>2, <3>1 DEF TxAt
    <2> QED  BY <1>3, <1>4, <1>6, <2>1 DEF AtWit
<1> HIDE DEF n
<1>12. ptr' = ptr /\ items' = items /\ UNCHANGED <<OPTS, block, tx_count>>
    BY DEF walk, counts
<1>13. PlaceInv'
    BY <1>1, <1>8, <1>9, <1>10, <1>11, <1>12, PlaceNext DEF n
<1> QED  BY <1>1, <1>2, <1>6, <1>8, <1>12, <1>13, InTxStep DEF n

\* The next witness begins where the one before it ends; its items are counted.
LEMMA ReadWitRight == ASSUME AllLaid, PInv, WInv, ReadWit PROVE WInv'
<1> USE DEF ReadWit
<1> DEFINE n == Len(txs)  w == tx.wits + 1  t == [tx EXCEPT !.wits = @ + 1]
           m == Len(Ref(n).wits[w])
<1>1. InTx /\ InTx' /\ step' = "wit" /\ block' = block
    BY DEF InTx
<1>2. /\ n \in 1 .. Len(block.txs) /\ Begun(tx, n, ptr) /\ tx.hash = NoHash
      /\ TxAt(block, Place(n), Place(n + 1), Ref(n), Parts(n))
      /\ tx \in TxT /\ ptr \in Nat /\ block \in Blocks /\ CountPlace(n) \in Int
    BY <1>1, TxInHand
<1>3. VinsRead(tx, n) /\ VoutsRead(tx, n) /\ AtWit(tx, n, ptr, items) /\ items = 0
    BY DEF WInv, PlaceInv
<1>4. /\ tx.wits \in Nat /\ tx.wits < Len(tx.vins) /\ Len(tx.vins) \in Nat
      /\ Len(Ref(n).wits) = Len(tx.vins)
    <2>1. tx.wits \in Nat /\ Len(tx.vins) \in Nat
        BY <1>2 DEF TxT
    <2>2. tx.segwit /\ tx.wits < vin_count /\ vin_count = Len(tx.vins)
        BY <1>1 DEF PInv, WalkInv
    <2>3. Len(Ref(n).wits) = IF Ref(n).segwit THEN Len(Ref(n).vins) ELSE 0
        BY <1>2 DEF TxAt
    <2>4. Ref(n).segwit = tx.segwit /\ Len(Ref(n).vins) = Len(tx.vins)
        BY <1>2, <1>3 DEF Begun, VinsRead
    <2> QED  BY <2>1, <2>2, <2>3, <2>4
<1>5. w \in 1 .. Len(Ref(n).wits) /\ w - 1 = tx.wits
    BY <1>4
<1>6. \A k \in 1 .. Len(Ref(n).wits) :
         WitAt(block, Parts(n).wits[k], Parts(n).wits[k + 1], Ref(n).wits[k],
               Parts(n).items[k])
    BY <1>2 DEF TxAt
<1>7. ptr = Parts(n).wits[w] /\ \A k \in 1 .. w - 1 : WitFound(n, k, Len(Ref(n).wits[k]))
    <2>1. CASE tx.wits = 0
        BY <1>3, <1>5, <2>1 DEF AtWit
    <2>2. CASE tx.wits # 0
        <3> DEFINE k == tx.wits  c == Len(Ref(n).wits[k])
        <3>1. k \in 1 .. Len(Ref(n).wits) /\ k + 1 = w
            BY <1>4, <2>2
        <3>2. WitAt(block, Parts(n).wits[k], Parts(n).wits[k + 1], Ref(n).wits[k],
                    Parts(n).items[k])
            BY <1>6, <3>1
        <3>3. c \in Nat /\ Parts(n).wits[w] = Parts(n).items[k][c + 1]
            BY <3>1, <3>2 DEF WitAt, CountAt
        <3>4. ptr = Parts(n).items[k][c - 0 + 1] /\ WitFound(n, k, c - 0)
            BY <1>3, <2>2 DEF AtWit
        <3>5. ptr = Parts(n).wits[w] /\ WitFound(n, k, c)
            <4>1. c - 0 = c
                BY <3>3
            <4> HIDE DEF k, c, w
            <4> QED  BY <3>3, <3>4, <4>1
        <3>6. \A i \in 1 .. k - 1 : WitFound(n, i, Len(Ref(n).wits[i]))
            BY <1>3 DEF AtWit
        <3>7. \A i \in 1 .. w - 1 : i = k \/ i \in 1 .. k - 1
            BY <1>4, <1>5
        <3> QED  BY <3>5, <3>6, <3>7
    <2> QED  BY <2>1, <2>2
<1>8. CountAt(block, ptr, Parts(n).items[w][1], m)
    BY <1>5, <1>6, <1>7 DEF WitAt
<1>9. /\ items' = m /\ ptr' = Parts(n).items[w][1] /\ ~Refused(block, ptr)
      /\ m \in Nat /\ ptr' > ptr /\ ptr' \in Nat
    BY <1>2, <1>8, NumberRead, VarUintType DEF CountAt
<1>10. /\ t \in TxT /\ t.wits = w /\ t.wit_offset = tx.wit_offset /\ t.beg = tx.beg
       /\ t.segwit = tx.segwit /\ t.vins = tx.vins /\ t.vouts = tx.vouts
       /\ t.size = tx.size /\ t.hash = tx.hash
    <2>1. w \in Nat
        BY <1>4
    <2>2. t = [tx EXCEPT !.wits = w]
        OBVIOUS
    <2> HIDE DEF w, t
    <2> QED  BY <1>2, <2>1, <2>2 DEF TxT
<1>11. SetTx(t)
    OBVIOUS
<1> HIDE DEF t
<1>12. /\ txs' \in Seq(TxT) /\ Len(txs') = n /\ tx' = t
       /\ \A i \in DOMAIN txs \ {n} : txs'[i] = txs[i]
    <2>1. n > 0 /\ tx.size >= 0 /\ tx.wit_offset >= 0
        BY <1>1, LastType DEF PInv, WalkInv
    <2>2. t.wits <= Len(t.vins)
        BY <1>4, <1>10
    <2> QED  BY <1>10, <1>11, <2>1, <2>2, SetLast
<1>13. Begun(t, n, ptr')
    <2>1. ptr' > CountPlace(n)
        BY <1>2, <1>9 DEF Begun
    <2> QED  BY <1>2, <1>10, <2>1 DEF Begun, VinsFound
<1>14. VinsRead(t, n) /\ VoutsRead(t, n)
    BY <1>3, <1>10 DEF VinsRead, VoutsFound, VoutsRead
<1>15. AtWit(t, n, ptr', items')
    <2>1. WitFound(n, w, m - m)
        BY <1>7, <1>9 DEF WitFound
    <2>2. w # 0 /\ w <= Len(Ref(n).wits) /\ m <= m /\ m - m + 1 = 1
        BY <1>4, <1>5, <1>9
    <2> HIDE DEF w
    <2> QED  BY <1>7, <1>9, <1>10, <2>1, <2>2 DEF AtWit
<1>16. PlaceInv'
    BY <1>1, <1>12, <1>13, <1>14, <1>15, PlaceNext
<1> QED  BY <1>1, <1>2, <1>10, <1>12, <1>16, InTxStep DEF counts

\* An item of a witness is skipped.
LEMMA SkipItemRight == ASSUME AllLaid, PInv, WInv, SkipItem PROVE WInv'
<1> USE DEF SkipItem
<1> DEFINE n == Len(txs)  w == tx.wits  m == Len(Ref(n).wits[w])
           k == m - items + 1
<1>1. InTx /\ InTx' /\ step' = "wit" /\ block' = block /\ txs' = txs /\ tx' = tx
    BY DEF InTx, tx
<1>2. /\ n \in 1 .. Len(block.txs) /\ Begun(tx, n, ptr) /\ tx.hash = NoHash
      /\ TxAt(block, Place(n), Place(n + 1), Ref(n), Parts(n))
      /\ tx \in TxT /\ ptr \in Nat /\ block \in Blocks /\ CountPlace(n) \in Int
    BY <1>1, TxInHand
<1>3. VinsRead(tx, n) /\ VoutsRead(tx, n) /\ AtWit(tx, n, ptr, items)
    BY DEF WInv, PlaceInv
<1>4. w \in Nat /\ items \in Nat /\ items > 0 /\ w # 0
    BY <1>2, <1>3 DEF TxT, PInv, Types, AtWit
<1>5. /\ w <= Len(Ref(n).wits) /\ items <= m /\ ptr = Parts(n).items[w][k]
      /\ WitFound(n, w, m - items)
      /\ \A i \in 1 .. w - 1 : WitFound(n, i, Len(Ref(n).wits[i]))
    BY <1>3, <1>4 DEF AtWit
<1>6. w \in 1 .. Len(Ref(n).wits)
    <2>1. Len(Ref(n).wits) \in Nat
        <3>1. Len(Ref(n).vins) \in Nat
            BY <1>2, <1>3 DEF VinsRead, TxT
        <3>2. Len(Ref(n).wits) = IF Ref(n).segwit THEN Len(Ref(n).vins) ELSE 0
            BY <1>2 DEF TxAt
        <3> QED  BY <3>1, <3>2
    <2>2. w \in Nat /\ w # 0 /\ w <= Len(Ref(n).wits)
        BY <1>4, <1>5
    <2> HIDE DEF w
    <2> QED  BY <2>1, <2>2
<1>7. WitAt(block, Parts(n).wits[w], Parts(n).wits[w + 1], Ref(n).wits[w],
            Parts(n).items[w])
    BY <1>2, <1>6 DEF TxAt
<1>8. m \in Nat
    BY <1>7 DEF WitAt, CountAt
<1>9. k \in 1 .. m /\ m - (items - 1) + 1 = k + 1 /\ m - (items - 1) = k
      /\ m - items = k - 1 /\ items - 1 <= m /\ items - 1 \in Nat
    <2>1. items \in Nat /\ items > 0 /\ items <= m
        BY <1>4, <1>5
    <2> HIDE DEF m
    <2> QED  BY <1>8, <2>1
<1>10. CountedAt(block, ptr, Parts(n).items[w][k + 1], Ref(n).wits[w][k])
    BY <1>5, <1>7, <1>9 DEF WitAt
<1>11. ptr' = Parts(n).items[w][k + 1] /\ ~Refused(block, ptr)
       /\ ptr' \in Nat /\ ptr' > ptr
    BY <1>2, <1>10, CountedRead, ViewType
<1> HIDE DEF k
<1>12. Begun(tx, n, ptr')
    <2>1. ptr' > CountPlace(n)
        BY <1>2, <1>11 DEF Begun
    <2> QED  BY <1>2, <2>1 DEF Begun
<1>13. WitFound(n, w, k)
    <2>1. \A i \in 1 .. k : i = k \/ i \in 1 .. k - 1
        BY <1>9
    <2> QED  BY <1>5, <1>9, <1>11, <2>1 DEF WitFound
<1>14. AtWit(tx, n, ptr', items')
    BY <1>4, <1>5, <1>9, <1>11, <1>13 DEF AtWit
<1>15. PlaceInv'
    BY <1>1, <1>3, <1>12, <1>14, PlaceNext
<1>16. txs' \in Seq(TxT) /\ UNCHANGED <<OPTS, block, tx_count>>
    BY <1>1 DEF PInv, Types, counts
<1> QED  BY <1>1, <1>2, <1>15, <1>16, InTxStep

\* Behind the locktime the transaction is built and the next one begins.
LEMMA EndTxRight == ASSUME AllLaid, PInv, WInv, EndTx PROVE WInv'
<1> USE DEF EndTx
<1> DEFINE n == Len(txs)  size == ptr + 4 - tx.beg  t == [tx EXCEPT !.size = size]
<1>1. InTx /\ ~InTx' /\ step' = "tx" /\ block' = block
    BY DEF InTx
<1>2. /\ n \in 1 .. Len(block.txs) /\ Begun(tx, n, ptr) /\ tx.hash = NoHash
      /\ TxAt(block, Place(n), Place(n + 1), Ref(n), Parts(n))
      /\ tx \in TxT /\ ptr \in Nat /\ block \in Blocks /\ CountPlace(n) \in Int
      /\ ~Glitch
    BY <1>1, TxInHand
<1>3. VinsRead(tx, n) /\ VoutsRead(tx, n) /\ AtWit(tx, n, ptr, 0) /\ items = 0
    BY DEF WInv, PlaceInv
<1>4. /\ tx.wits \in Nat /\ Len(tx.vins) \in Nat /\ vin_count = Len(tx.vins)
      /\ Len(Ref(n).vins) = Len(tx.vins) /\ tx.beg \in Nat /\ tx.beg <= ptr
    BY <1>1, <1>2, <1>3 DEF TxT, PInv, WalkInv, VinsRead
<1>5. tx.wits = Len(Ref(n).wits)
    <2>1. Len(Ref(n).wits) = IF tx.segwit THEN Len(tx.vins) ELSE 0
        BY <1>2, <1>4 DEF TxAt, Begun
    <2>2. tx.wits <= Len(Ref(n).wits) /\ (tx.segwit => tx.wits = vin_count)
        BY <1>3 DEF AtWit
    <2> QED  BY <1>4, <2>1, <2>2
<1>6. \A k \in 1 .. Len(Ref(n).wits) :
         WitAt(block, Parts(n).wits[k], Parts(n).wits[k + 1], Ref(n).wits[k],
               Parts(n).items[k])
    BY <1>2 DEF TxAt
<1>7. /\ ptr = Parts(n).wits[Len(Ref(n).wits) + 1]
      /\ \A k \in 1 .. Len(Ref(n).wits) : WitFound(n, k, Len(Ref(n).wits[k]))
    <2>1. CASE tx.wits = 0
        BY <1>3, <1>5, <2>1 DEF AtWit
    <2>2. CASE tx.wits # 0
        <3> DEFINE k == tx.wits  c == Len(Ref(n).wits[k])
        <3>1. k \in 1 .. Len(Ref(n).wits)
            BY <1>4, <1>5, <2>2
        <3>2. WitAt(block, Parts(n).wits[k], Parts(n).wits[k + 1], Ref(n).wits[k],
                    Parts(n).items[k])
            BY <1>6, <3>1
        <3>3. c \in Nat /\ Parts(n).wits[k + 1] = Parts(n).items[k][c + 1]
            BY <3>1, <3>2 DEF WitAt, CountAt
        <3>4. ptr = Parts(n).items[k][c - 0 + 1] /\ WitFound(n, k, c - 0)
            BY <1>3, <2>2 DEF AtWit
        <3>5. ptr = Parts(n).wits[k + 1] /\ WitFound(n, k, c)
            <4>1. c - 0 = c
                BY <3>3
            <4> HIDE DEF k, c
            <4> QED  BY <3>3, <3>4, <4>1
        <3>6. \A i \in 1 .. k - 1 : WitFound(n, i, Len(Ref(n).wits[i]))
            BY <1>3 DEF AtWit
        <3>7. \A i \in 1 .. k : i = k \/ i \in 1 .. k - 1
            BY <1>4
        <3> QED  BY <1>5, <3>5, <3>6, <3>7
    <2> QED  BY <2>1, <2>2
<1>8. ptr' = Place(n + 1)
    BY <1>2, <1>7 DEF TxAt
<1>9. size \in Int /\ size >= 0 /\ SetTx(t)
    BY <1>2, <1>4
<1>17. size = Place(n + 1) - Place(n)
    <2>1. tx.beg = Place(n) /\ ptr + 4 = Place(n + 1)
        BY <1>2, <1>8 DEF Begun
    <2>2. tx.beg \in Nat /\ ptr \in Nat
        BY <1>2, <1>4
    <2> QED  BY <2>1, <2>2
<1> HIDE DEF size
<1>10. /\ t \in TxT /\ t.size = size /\ t.beg = tx.beg /\ t.wit_offset = tx.wit_offset
       /\ t.segwit = tx.segwit /\ t.vins = tx.vins /\ t.vouts = tx.vouts
       /\ t.wits = tx.wits /\ t.hash = tx.hash
    BY <1>2, <1>9 DEF TxT
<1> HIDE DEF t
<1>11. /\ txs' \in Seq(TxT) /\ Len(txs') = n /\ tx' = t /\ DOMAIN txs' = DOMAIN txs
       /\ \A i \in DOMAIN txs \ {n} : txs'[i] = txs[i]
    <2>1. n > 0 /\ tx.wits <= Len(tx.vins) /\ tx.wit_offset >= 0
        BY <1>1, LastType DEF PInv, WalkInv
    <2>2. /\ txs' \in Seq(TxT) /\ Len(txs') = n /\ tx' = t
          /\ \A i \in DOMAIN txs \ {n} : txs'[i] = txs[i]
        BY <1>9, <1>10, <2>1, SetLast
    <2>3. txs \in Seq(TxT)
        BY DEF PInv, Types
    <2> QED  BY <2>2, <2>3
<1>12. SameTx(t, Ref(n))
    BY <1>2, <1>3, <1>10
       DEF SameTx, Begun, VinsFound, VinsRead, VoutsRead, VoutsFound
<1>13. TxSound(block, Place(n), Ref(n), Parts(n))
    <2>1. ~Refused(block, CountPlace(n)) /\ ~At(block, CountPlace(n), <<0>>)
        BY <1>2 DEF Begun
    <2>2. tx.vins \in Seq(VinT) /\ tx.vouts \in Seq(VoutT)
        BY <1>2 DEF TxT
    <2>3. \A j \in 1 .. Len(Ref(n).vins) : ~Refused(block, Parts(n).vins[j] + 36)
        <3>1. VinsFound(tx, n)
            BY <1>2 DEF Begun
        <3>2. DOMAIN tx.vins = 1 .. Len(Ref(n).vins)
            BY <1>4, <2>2
        <3> QED  BY <3>1, <3>2 DEF VinsFound
    <2>4. ~Refused(block, VinsEnd(n))
        BY <1>3 DEF VinsRead
    <2>5. \A j \in 1 .. Len(Ref(n).vouts) : ~Refused(block, Parts(n).vouts[j] + 8)
        BY <1>3, <2>2 DEF VinsRead, VoutsRead, VoutsFound
    <2> QED  BY <1>7, <2>1, <2>3, <2>4, <2>5 DEF TxSound, CountPlace, VinsEnd, WitFound
<1>14. Built(t, n)
    <2>1. \A j \in DOMAIN t.vouts : Inside(t.vouts[j].script)
        BY <1>3, <1>10 DEF VinsRead, VoutsFound
    <2> QED  BY <1>2, <1>3, <1>10, <1>12, <1>13, <1>17, <2>1 DEF Built, Begun, VoutsRead
<1>15. BuiltInv' /\ HashInv'
    <2>1. txs \in Seq(TxT) /\ DOMAIN txs = 1 .. n
        BY DEF PInv, Types
    <2>2. txs'[n] = t
        BY <1>11 DEF tx
    <2>3. \A i \in DOMAIN txs : i < n => Built(txs[i], i)
        BY <1>1 DEF WInv, BuiltInv, InTx
    <2>4. \A i \in DOMAIN txs : txs[i].hash # NoHash =>
             txs[i].hash = Hash256(HashSrc(txs[i]))
        BY DEF WInv, HashInv, Complete
    <2>5. \A i \in DOMAIN txs : Built(txs'[i], i)
        <3> TAKE i \in DOMAIN txs
        <3>1. CASE i = n
            BY <1>14, <2>2, <3>1
        <3>2. CASE i # n
            <4>1. i < n /\ txs'[i] = txs[i]
                BY <1>11, <2>1, <3>2
            <4> QED  BY <2>3, <4>1
        <3> QED  BY <3>1, <3>2
    <2>6. \A i \in DOMAIN txs : txs'[i].hash # NoHash =>
             txs'[i].hash = Hash256(HashSrc(txs'[i]))
        BY <1>2, <1>10, <1>11, <2>2, <2>4
    <2> QED  BY <1>1, <1>11, <2>5, <2>6, BuiltNext
<1>16. PlaceInv' /\ FreshInv'
    BY <1>1, <1>8, <1>11, PlaceNext DEF InTx, FreshInv
<1>18. GlitchInv' /\ CountInv' /\ EndInv'
    BY <1>1, <1>2, <1>3 DEF WInv, GlitchInv, Glitch, CountInv, EndInv, Ended, Refused, At,
       counts
<1> QED  BY <1>15, <1>16, <1>18 DEF WInv

\* The walk is at the end when it has as many transactions as were counted.
LEMMA EndBlockRight == ASSUME AllLaid, PInv, WInv, EndBlock PROVE WInv'
<1> USE DEF EndBlock
<1>1. /\ block \in Blocks /\ block' = block /\ txs' = txs /\ ptr' = ptr
      /\ tx_count' = tx_count /\ step' = "built" /\ OPTS' = OPTS /\ items' = items
    BY DEF PInv, Types, walk, counts
<1>2. ~Glitch /\ tx_count = Len(block.txs) /\ ptr = Place(Len(txs) + 1)
      /\ ~Refused(block, HeaderLen)
    BY DEF WInv, GlitchInv, CountInv, PlaceInv
<1>3. ptr = Len(block.bytes)
    BY <1>1, <1>2, BlockLaid
<1>4. BuiltInv' /\ HashInv'
    BY <1>1, BuiltNext DEF WInv, BuiltInv, HashInv, InTx, Complete
<1>5. PlaceInv' /\ FreshInv'
    BY <1>1, PlaceNext DEF InTx, FreshInv
<1>6. GlitchInv' /\ CountInv' /\ EndInv'
    BY <1>1, <1>2, <1>3
       DEF GlitchInv, Glitch, CountInv, EndInv, Ended, Refused, At
<1> QED  BY <1>4, <1>5, <1>6 DEF WInv

\* What take_varuint() or TX_T throws at is not there in a good block.
LEMMA ThrowsRight == ASSUME AllLaid, PInv, WInv, Throws PROVE WInv'
<1>1. /\ block \in Blocks /\ block' = block /\ txs' = txs /\ ptr' = ptr
      /\ step' = "aborted" /\ OPTS' = OPTS
    BY DEF Throws, PInv, Types, walk
<1>2. ~block.good
    <2>1. SUFFICES ASSUME block.good PROVE FALSE
        OBVIOUS
    <2>2. /\ ~Refused(block, HeaderLen)
          /\ \A i \in 1 .. Len(block.txs) : TxSound(block, Place(i), Ref(i), Parts(i))
        BY <1>1, <2>1, BlockLaid
    <2>3. CASE step = "head" /\ TooBig(HeadSize)
        BY <1>1, <2>2, <2>3, RefusedIs DEF HeadSize, HeaderLen
    <2>4. CASE step = "tx" /\ Len(txs) < tx_count
               /\ (TooBig(VinsAt) \/ VarUint(VinsAt) = 0)
        <3> DEFINE n == Len(txs) + 1
        <3>1. /\ VinsAt = CountPlace(n) /\ VinsAt \in Nat /\ n \in 1 .. Len(block.txs)
              /\ TxAt(block, ptr, Place(n + 1), Ref(n), Parts(n))
            BY <2>4, NextTx
        <3>2. ~Refused(block, VinsAt) /\ ~At(block, VinsAt, <<0>>)
            BY <2>2, <3>1 DEF TxSound, CountPlace
        <3>3. ~TooBig(VinsAt)
            BY <1>1, <3>1, <3>2, RefusedIs
        <3>4. VarUint(VinsAt) = Len(Ref(n).vins)
            BY <2>4, <3>2, <3>3, VinsCounted
        <3>5. Len(Ref(n).vins) > 0
            BY <3>1 DEF TxAt
        <3> QED  BY <2>4, <3>3, <3>4, <3>5
    <2> DEFINE n == Len(txs)
    <2>5. InTx => /\ n \in 1 .. Len(block.txs) /\ tx \in TxT /\ ptr \in Nat
                  /\ TxAt(block, Place(n), Place(n + 1), Ref(n), Parts(n))
                  /\ TxSound(block, Place(n), Ref(n), Parts(n))
                  /\ ~Refused(block, ptr) => ~TooBig(ptr)
                  /\ ~Refused(block, ptr + 36) => ~TooBig(ptr + 36)
                  /\ ~Refused(block, ptr + 8) => ~TooBig(ptr + 8)
        <3> SUFFICES ASSUME InTx
                     PROVE  /\ n \in 1 .. Len(block.txs) /\ tx \in TxT /\ ptr \in Nat
                            /\ TxAt(block, Place(n), Place(n + 1), Ref(n), Parts(n))
                            /\ TxSound(block, Place(n), Ref(n), Parts(n))
                            /\ ~Refused(block, ptr) => ~TooBig(ptr)
                            /\ ~Refused(block, ptr + 36) => ~TooBig(ptr + 36)
                            /\ ~Refused(block, ptr + 8) => ~TooBig(ptr + 8)
            OBVIOUS
        <3>1. /\ n \in 1 .. Len(block.txs) /\ tx \in TxT /\ ptr \in Nat
              /\ TxAt(block, Place(n), Place(n + 1), Ref(n), Parts(n))
            BY TxInHand
        <3>2. ptr + 36 \in Nat /\ ptr + 8 \in Nat
            BY <3>1
        <3> QED  BY <1>1, <2>2, <3>1, <3>2, RefusedIs
    <2>6. CASE step = "vin" /\ Len(tx.vins) < vin_count /\ TooBig(ptr + 36)
        <3>1. InTx
            BY <2>6 DEF InTx
        <3>2. vin_count = Len(Ref(n).vins) /\ ptr = Parts(n).vins[Len(tx.vins) + 1]
            BY <2>6 DEF WInv, PlaceInv, AtVin
        <3>3. Len(tx.vins) + 1 \in 1 .. Len(Ref(n).vins)
            <4>1. Len(tx.vins) \in Nat /\ vin_count \in Nat
                BY <2>5, <3>1 DEF TxT, PInv, Types
            <4> QED  BY <2>6, <3>2, <4>1
        <3>4. ~Refused(block, ptr + 36)
            BY <2>5, <3>1, <3>2, <3>3 DEF TxSound
        <3> QED  BY <2>5, <2>6, <3>1, <3>4
    <2>7. CASE step = "vin" /\ Len(tx.vins) = vin_count /\ TooBig(ptr)
        <3>1. InTx
            BY <2>7 DEF InTx
        <3>2. ptr = Parts(n).vins[Len(Ref(n).vins) + 1]
            BY <2>7 DEF WInv, PlaceInv, AtVin
        <3>3. ~Refused(block, ptr)
            BY <2>5, <3>1, <3>2 DEF TxSound
        <3> QED  BY <2>5, <2>7, <3>1, <3>3
    <2>8. CASE step = "vout" /\ Len(tx.vouts) < vout_count /\ TooBig(ptr + 8)
        <3>1. InTx
            BY <2>8 DEF InTx
        <3>2. vout_count = Len(Ref(n).vouts) /\ ptr = Parts(n).vouts[Len(tx.vouts) + 1]
            BY <2>8 DEF WInv, PlaceInv, AtVout
        <3>3. Len(tx.vouts) + 1 \in 1 .. Len(Ref(n).vouts)
            <4>1. Len(tx.vouts) \in Nat /\ vout_count \in Nat
                BY <2>5, <3>1 DEF TxT, PInv, Types
            <4> QED  BY <2>8, <3>2, <4>1
        <3>4. ~Refused(block, ptr + 8)
            BY <2>5, <3>1, <3>2, <3>3 DEF TxSound
        <3> QED  BY <2>5, <2>8, <3>1, <3>4
    <2>9. CASE step = "wit" /\ (items > 0 \/ (tx.segwit /\ tx.wits < vin_count))
               /\ TooBig(ptr)
        <3>1. InTx /\ ~Refused(block, ptr) => FALSE
            BY <2>5, <2>9
        <3>2. InTx
            BY <2>9 DEF InTx
        <3>3. AtWit(tx, n, ptr, items) /\ VinsRead(tx, n) /\ Begun(tx, n, ptr)
            BY <2>9 DEF WInv, PlaceInv, InTx
        <3>4. /\ tx.wits \in Nat /\ items \in Nat /\ Len(tx.vins) \in Nat
              /\ vin_count = Len(tx.vins) /\ Len(Ref(n).vins) = Len(tx.vins)
            BY <2>5, <2>9, <3>2, <3>3 DEF TxT, PInv, Types, WalkInv, VinsRead
        <3>5. Len(Ref(n).wits) = IF tx.segwit THEN Len(tx.vins) ELSE 0
            BY <2>5, <3>2, <3>3, <3>4 DEF TxAt, Begun
        <3>6. \A w \in 1 .. Len(Ref(n).wits) :
                 WitAt(block, Parts(n).wits[w], Parts(n).wits[w + 1], Ref(n).wits[w],
                       Parts(n).items[w])
            BY <2>5, <3>2 DEF TxAt
        <3>7. \A w \in 1 .. Len(Ref(n).wits) :
                 /\ ~Refused(block, Parts(n).wits[w])
                 /\ \A k \in 1 .. Len(Ref(n).wits[w]) :
                       ~Refused(block, Parts(n).items[w][k])
            BY <2>5, <3>2 DEF TxSound
        <3> DEFINE w == tx.wits  m == Len(Ref(n).wits[w])
        <3>8. CASE items > 0
            <4>1. w # 0 /\ items <= m /\ ptr = Parts(n).items[w][m - items + 1]
                  /\ w <= Len(Ref(n).wits)
                BY <3>3, <3>8 DEF AtWit
            <4>2. w \in 1 .. Len(Ref(n).wits)
                BY <3>4, <3>5, <4>1
            <4>3. m \in Nat
                BY <3>6, <4>2 DEF WitAt, CountAt
            <4>4. m - items + 1 \in 1 .. m
                BY <3>4, <3>8, <4>1, <4>3
            <4> QED  BY <3>1, <3>2, <3>7, <4>1, <4>2, <4>4
        <3>9. CASE items = 0 /\ w = 0
            <4>1. 1 \in 1 .. Len(Ref(n).wits)
                BY <2>9, <3>4, <3>5, <3>9
            <4>2. ptr = Parts(n).wits[1]
                BY <3>3, <3>9 DEF AtWit
            <4> QED  BY <3>1, <3>2, <3>7, <4>1, <4>2
        <3>10. CASE items = 0 /\ w # 0
            <4>1. w \in 1 .. Len(Ref(n).wits) /\ w + 1 \in 1 .. Len(Ref(n).wits)
                BY <2>9, <3>4, <3>5, <3>10
            <4>2. m \in Nat /\ Parts(n).wits[w + 1] = Parts(n).items[w][m + 1]
                BY <3>6, <4>1 DEF WitAt, CountAt
            <4>3. ptr = Parts(n).items[w][m - 0 + 1]
                BY <3>3, <3>10 DEF AtWit
            <4>4. ptr = Parts(n).wits[w + 1]
                BY <4>2, <4>3
            <4> QED  BY <3>1, <3>2, <3>7, <4>1, <4>4
        <3> QED  BY <3>4, <3>8, <3>9, <3>10
    <2> QED  BY <2>3, <2>4, <2>6, <2>7, <2>8, <2>9 DEF Throws
<1>3. BuiltInv' /\ HashInv'
    BY <1>1, BuiltNext DEF WInv, BuiltInv, HashInv, Complete
<1>4. PlaceInv' /\ FreshInv'
    BY <1>1, PlaceNext DEF InTx, FreshInv
<1>5. GlitchInv' /\ CountInv' /\ EndInv'
    BY <1>1, <1>2
       DEF WInv, GlitchInv, Glitch, CountInv, EndInv, Ended, Refused, At
<1> QED  BY <1>3, <1>4, <1>5 DEF WInv

\* What parse() changes in a transaction is not what the walk has built.
SameParts(t, u) ==
    /\ t.beg = u.beg /\ t.size = u.size /\ t.segwit = u.segwit
    /\ t.wit_offset = u.wit_offset /\ t.vins = u.vins
    /\ Len(t.vouts) = Len(u.vouts) /\ DOMAIN t.vouts = DOMAIN u.vouts
    /\ \A j \in DOMAIN t.vouts : /\ t.vouts[j].satoshi = u.vouts[j].satoshi
                                 /\ t.vouts[j].script = u.vouts[j].script

LEMMA SameBuilt ==
    ASSUME NEW t, NEW u, NEW i, SameParts(t, u), Built(t, i)
    PROVE  Built(u, i)
<1>1. SameTx(u, Ref(i))
    BY DEF SameParts, Built, SameTx, SameVout
<1> QED  BY <1>1 DEF SameParts, Built

LEMMA ParseKeeps ==
    ASSUME AllLaid, PInv, WInv, Ended, UNCHANGED <<OPTS, block, walk>>,
           step' \in {"parse", "addr", "parsed", "aborted"},
           step' = "aborted" => OPTS.mt, step' = "addr" => Len(txs) > 0,
           txs' \in Seq(TxT), Len(txs') = Len(txs),
           \A i \in DOMAIN txs : SameParts(txs[i], txs'[i]),
           \A i \in DOMAIN txs : txs'[i].hash # NoHash =>
               txs'[i].hash = Hash256(HashSrc(txs'[i]))
    PROVE  WInv'
<1>1. /\ DOMAIN txs' = DOMAIN txs /\ block' = block /\ ptr' = ptr
      /\ tx_count' = tx_count /\ items' = items /\ OPTS' = OPTS
    BY DEF PInv, Types, walk, counts
<1>2. step # "aborted" /\ ~InTx /\ step \notin {"head", "tx"} /\ ~InTx'
      /\ step' \notin {"head", "tx", "built"}
    BY DEF Ended, InTx
<1>3. \A i \in DOMAIN txs : Built(txs'[i], i)
    BY <1>2, SameBuilt DEF WInv, BuiltInv
<1>4. BuiltInv' /\ HashInv'
    BY <1>1, <1>3, BuiltNext
<1>5. PlaceInv' /\ FreshInv'
    BY <1>1, <1>2, PlaceNext DEF FreshInv, InTx
<1>6. GlitchInv' /\ CountInv' /\ EndInv'
    BY <1>1, <1>2
       DEF WInv, GlitchInv, Glitch, CountInv, EndInv, Ended, InTx, Refused, At
<1> QED  BY <1>4, <1>5, <1>6 DEF WInv

\* mk_hash() gives a transaction the hash of what it cuts.
LEMMA MkHashParts ==
    ASSUME PInv, NEW i \in DOMAIN txs, MkHash(i), block' = block
    PROVE  /\ txs' \in Seq(TxT) /\ Len(txs') = Len(txs)
           /\ \A j \in DOMAIN txs : SameParts(txs[j], txs'[j])
           /\ \A j \in DOMAIN txs \ {i} : txs'[j] = txs[j]
           /\ txs'[i].hash = Hash256(HashSrc(txs'[i]))
<1> DEFINE h == Hash256(HashSrc(txs[i]))
           u == [txs[i] EXCEPT !.hash = h]
<1>1. txs \in Seq(TxT) /\ txs[i] \in TxT /\ block \in Blocks
    BY ElementOfSeq DEF PInv, Types
<1>2. h \in Hashes
    BY <1>1, HashSrcType
<1>3. txs' = [txs EXCEPT ![i] = u]
    BY DEF MkHash
<1> HIDE DEF h
<1>4. /\ u \in TxT /\ u.hash = h /\ u.beg = txs[i].beg /\ u.size = txs[i].size
      /\ u.segwit = txs[i].segwit /\ u.wit_offset = txs[i].wit_offset
      /\ u.vins = txs[i].vins /\ u.vouts = txs[i].vouts
    BY <1>1, <1>2 DEF TxT
<1> HIDE DEF u
<1>5. /\ txs' \in Seq(TxT) /\ Len(txs') = Len(txs) /\ txs'[i] = u
      /\ \A j \in DOMAIN txs \ {i} : txs'[j] = txs[j]
    BY <1>1, <1>3, <1>4
<1>6. HashSrc(u) = HashSrc(txs[i])
    BY <1>4 DEF HashSrc
<1> QED  BY <1>4, <1>5, <1>6 DEF SameParts, h

\* The steps of parse() that leave the transactions alone.
LEMMA ParseRestRight ==
    ASSUME AllLaid, PInv, WInv, ParseBlock \/ ThreadFails \/ EndParseTx \/ EndParse
    PROVE  WInv'
<1>1. /\ Ended /\ UNCHANGED <<OPTS, block, walk, txs>>
      /\ step' \in {"parse", "parsed", "aborted"}
      /\ step' = "aborted" => OPTS.mt
    BY DEF ParseBlock, ThreadFails, EndParseTx, EndParse, Ended
<1>2. txs \in Seq(TxT) /\ \A i \in DOMAIN txs : SameParts(txs[i], txs[i])
    BY DEF PInv, Types, SameParts
<1>3. \A i \in DOMAIN txs : txs[i].hash # NoHash =>
          txs[i].hash = Hash256(HashSrc(txs[i]))
    BY DEF WInv, HashInv, Complete
<1>4. /\ txs' \in Seq(TxT) /\ Len(txs') = Len(txs)
      /\ \A i \in DOMAIN txs : SameParts(txs[i], txs'[i])
      /\ \A i \in DOMAIN txs : txs'[i].hash # NoHash =>
             txs'[i].hash = Hash256(HashSrc(txs'[i]))
    BY <1>1, <1>2, <1>3
<1>5. Ended /\ UNCHANGED <<OPTS, block, walk>>
    BY <1>1
<1>6. /\ step' \in {"parse", "addr", "parsed", "aborted"} /\ step' # "addr"
      /\ step' = "aborted" => OPTS.mt
    BY <1>1
<1> HIDE DEF SameParts
<1> QED  BY <1>4, <1>5, <1>6, ParseKeeps

LEMMA HashesStay ==
    ASSUME WInv, NEW i \in DOMAIN txs, MkHash(i),
           txs'[i].hash = Hash256(HashSrc(txs'[i])),
           \A j \in DOMAIN txs \ {i} : txs'[j] = txs[j]
    PROVE  \A j \in DOMAIN txs : txs'[j].hash # NoHash =>
               txs'[j].hash = Hash256(HashSrc(txs'[j]))
BY DEF WInv, HashInv, Complete

LEMMA ParseTxRight == ASSUME AllLaid, PInv, WInv, ParseTx PROVE WInv'
<1> USE DEF ParseTx
<1>1. /\ Ended /\ UNCHANGED <<OPTS, block, walk>> /\ step' = "addr"
      /\ ti \in DOMAIN txs /\ Len(txs) > 0 /\ txs \in Seq(TxT)
    BY DEF Ended, PInv, Types
<1>2. CASE MkHash(ti)
    BY <1>1, <1>2, MkHashParts, HashesStay, ParseKeeps
<1>3. CASE UNCHANGED txs
    <2>1. \A i \in DOMAIN txs : SameParts(txs[i], txs[i])
        BY DEF SameParts
    <2>2. \A i \in DOMAIN txs : txs[i].hash # NoHash =>
              txs[i].hash = Hash256(HashSrc(txs[i]))
        BY DEF WInv, HashInv, Complete
    <2> QED  BY <1>1, <1>3, <2>1, <2>2, ParseKeeps
<1> QED  BY <1>2, <1>3

LEMMA ThreadRight == ASSUME AllLaid, PInv, WInv, NEW i, Thread(i) PROVE WInv'
<1> USE DEF Thread
<1>1. /\ step = "addr" /\ i \in DOMAIN txs /\ Len(txs) > 0 /\ MkHash(i)
      /\ UNCHANGED <<OPTS, block, walk, step>>
    BY DEF PInv, Types, ThreadInv
<1>2. Ended /\ step' = "addr"
    BY <1>1 DEF Ended
<1> QED  BY <1>1, <1>2, MkHashParts, HashesStay, ParseKeeps

LEMMA ParseVoutRight == ASSUME AllLaid, PInv, WInv, ParseVout PROVE WInv'
<1> USE DEF ParseVout
<1> DEFINE w == txs[ti].vouts[vi]
           a == Decode(Script(w.script), w.script.len)
           u == [txs[ti] EXCEPT !.vouts[vi].addr = a]
<1>1. /\ Ended /\ UNCHANGED <<OPTS, block, walk>> /\ step' = "addr"
      /\ ti \in DOMAIN txs /\ Len(txs) > 0 /\ txs \in Seq(TxT) /\ txs[ti] \in TxT
    BY ElementOfSeq DEF Ended, PInv, Types, ThreadInv
<1>2. txs' \in Seq(TxT) /\ Len(txs') = Len(txs)
    <2>1. PInv'
        BY ParseVoutStep
    <2>2. DOMAIN txs' = DOMAIN txs
        OBVIOUS
    <2> QED  BY <1>1, <2>1, <2>2 DEF PInv, Types
<1>3. txs' = [txs EXCEPT ![ti] = u]
    OBVIOUS
<1>4. txs[ti].vouts \in Seq(VoutT) /\ vi \in DOMAIN txs[ti].vouts
    <2>1. txs[ti].vouts \in Seq(VoutT) /\ vi \in Nat \ {0}
        BY <1>1 DEF TxT, PInv, Types
    <2> QED  BY <2>1
<1>5. w \in VoutT
    BY <1>4, ElementOfSeq
<1> HIDE DEF a
<1> DEFINE x == [w EXCEPT !.addr = a]
<1>6. x.satoshi = w.satoshi /\ x.script = w.script
    BY <1>5 DEF VoutT
<1>7. u = [txs[ti] EXCEPT !.vouts = [txs[ti].vouts EXCEPT ![vi] = x]]
    OBVIOUS
<1> HIDE DEF u, x, w
<1> DEFINE V == [txs[ti].vouts EXCEPT ![vi] = x]
<1>8. /\ Len(V) = Len(txs[ti].vouts) /\ DOMAIN V = DOMAIN txs[ti].vouts
      /\ \A j \in DOMAIN V : V[j] = IF j = vi THEN x ELSE txs[ti].vouts[j]
    BY <1>4
<1> HIDE DEF V
<1>9. /\ u.vouts = V /\ u.beg = txs[ti].beg /\ u.size = txs[ti].size
      /\ u.segwit = txs[ti].segwit /\ u.wit_offset = txs[ti].wit_offset
      /\ u.vins = txs[ti].vins /\ u.hash = txs[ti].hash
    BY <1>1, <1>7 DEF TxT, V
<1>10. SameParts(txs[ti], u)
    BY <1>6, <1>8, <1>9 DEF SameParts, w
<1>11. txs'[ti] = u /\ \A j \in DOMAIN txs \ {ti} : txs'[j] = txs[j]
    BY <1>1, <1>3
<1>12. \A j \in DOMAIN txs : SameParts(txs[j], txs'[j])
    BY <1>10, <1>11 DEF SameParts
<1>13. HashSrc(u) = HashSrc(txs[ti])
    BY <1>9 DEF HashSrc
<1>14. \A j \in DOMAIN txs : txs'[j].hash # NoHash =>
          txs'[j].hash = Hash256(HashSrc(txs'[j]))
    BY <1>9, <1>11, <1>13 DEF WInv, HashInv, Complete
<1> QED  BY <1>1, <1>2, <1>12, <1>14, ParseKeeps

LEMMA StutterRight == ASSUME AllLaid, PInv, WInv, UNCHANGED pvars PROVE WInv'
<1>1. /\ block' = block /\ txs' = txs /\ ptr' = ptr /\ step' = step /\ OPTS' = OPTS
      /\ tx_count' = tx_count /\ vin_count' = vin_count /\ vout_count' = vout_count
      /\ items' = items /\ tx' = tx
    BY DEF pvars, walk, counts, tx
<1>2. BuiltInv' /\ HashInv'
    BY <1>1, BuiltNext DEF WInv, BuiltInv, HashInv, InTx, Complete
<1>3. PlaceInv' /\ FreshInv'
    BY <1>1, PlaceNext DEF WInv, PlaceInv, FreshInv, InTx
<1>4. GlitchInv' /\ CountInv' /\ EndInv'
    BY <1>1 DEF WInv, GlitchInv, Glitch, CountInv, EndInv, Ended, Refused, At
<1> QED  BY <1>2, <1>3, <1>4 DEF WInv

LEMMA WalkInit == AllLaid /\ ParseInit => WInv
<1> SUFFICES ASSUME AllLaid, ParseInit PROVE WInv
    OBVIOUS
<1>1. Len(txs) = 0 /\ DOMAIN txs = {}
    BY DEF ParseInit
<1> QED  BY <1>1 DEF ParseInit, WInv, GlitchInv, CountInv, PlaceInv, BuiltInv, HashInv,
            FreshInv, EndInv, InTx, Ended

LEMMA WalkNext == AllLaid /\ PInv /\ WInv /\ [ParseNext]_pvars => WInv'
<1> SUFFICES ASSUME AllLaid, PInv, WInv, [ParseNext]_pvars PROVE WInv'
    OBVIOUS
<1>1. CASE Main
    BY <1>1, ReadHeadRight, ReadTxRight, ReadVinRight, ReadVoutCountRight,
       ReadVoutRight, EndVoutsRight, ReadWitRight, SkipItemRight, EndTxRight,
       EndBlockRight, ThrowsRight, ParseTxRight, ParseVoutRight, ParseRestRight DEF Main
<1>2. CASE Threads
    BY <1>2, ThreadRight DEF Threads
<1>3. CASE UNCHANGED pvars
    BY <1>3, StutterRight
<1> QED  BY <1>1, <1>2, <1>3 DEF ParseNext

\* A block that has a layout is walked to its end and nothing else is found in it
\* than what was serialized; it is refused iff one of its numbers is too wide or
\* counts no inputs: for all such blocks, of any size, and all options.
THEOREM WalkRightCorrect == ASSUME AllLaid PROVE ParseSpec => []WalkRight
<1>1. PInv /\ WInv => WalkRight
    <2> SUFFICES ASSUME PInv, WInv PROVE WalkRight
        OBVIOUS
    <2>1. block \in Blocks /\ txs \in Seq(TxT)
        BY DEF PInv, Types
    <2>2. ASSUME Ended, Glitch PROVE txs = <<>>
        BY <2>1, <2>2 DEF WInv, GlitchInv
    <2>3. ASSUME Ended, ~Glitch
          PROVE  /\ block.good /\ ptr = Len(block.bytes) /\ Len(txs) = Len(block.txs)
                 /\ \A i \in DOMAIN txs : SameTx(txs[i], block.txs[i])
        <3>1. /\ Len(txs) = Len(block.txs) /\ ptr = Len(block.bytes)
              /\ DOMAIN txs = 1 .. Len(txs)
            BY <2>1, <2>3 DEF WInv, EndInv
        <3>2. \A i \in DOMAIN txs : Built(txs[i], i)
            BY <2>3 DEF WInv, BuiltInv, Ended, InTx
        <3>3. ~Refused(block, HeaderLen)
            BY <2>3 DEF WInv, CountInv, Ended
        <3>4. block.good
            BY <2>1, <3>1, <3>2, <3>3, BlockLaid DEF Built
        <3> QED  BY <3>1, <3>2, <3>4 DEF Built, Ref
    <2> QED  BY <2>2, <2>3 DEF WalkRight, Ended, Glitch, WInv, EndInv
<1> QED  BY <1>1, InitHolds, NextHolds, WalkInit, WalkNext, PTL DEF ParseSpec

\* mk_hash() cuts the marker and the witnesses out of a transaction that is
\* built, and nothing else.
LEMMA HashSrcIs ==
    ASSUME AllLaid, block \in Blocks, NEW i, NEW t \in TxT, Built(t, i)
    PROVE  HashSrc(t) = Ref(i).stripped
<1> DEFINE p == t.beg  q == Place(i + 1)  w == Parts(i).wits[1]  c == CountPlace(i)
<1>1. /\ TxAt(block, Place(i), q, Ref(i), Parts(i)) /\ Len(block.bytes) \in Nat
      /\ i \in 1 .. Len(block.txs)
    BY BlockLaid, BytesType DEF Built
<1>2. /\ p = Place(i) /\ p \in Nat /\ t.size = q - p /\ t.wit_offset = w - p
      /\ t.segwit = Ref(i).segwit /\ t.segwit \in BOOLEAN /\ w > c
      /\ TxSound(block, p, Ref(i), Parts(i))
    BY DEF Built, SameTx, TxT
<1>3. Ref(i).stripped = Between(block, p, p + 4) \o Between(block, c, w)
                        \o Between(block, q - 4, q)
    BY <1>1, <1>2 DEF TxAt, CountPlace
<1>4. w \in 0 .. Len(block.bytes) /\ q \in 4 .. Len(block.bytes)
    BY <1>1 DEF TxAt
<1>5. c = IF t.segwit THEN p + 4 + 2 ELSE p + 4 + 0
    BY <1>2 DEF CountPlace, BodyOf
<1>6. ~t.segwit => q = w + 4
    <2> SUFFICES ASSUME ~t.segwit PROVE q = w + 4
        OBVIOUS
    <2>1. Len(Ref(i).wits) = 0 /\ q = Parts(i).wits[Len(Ref(i).wits) + 1] + 4
        BY <1>1, <1>2 DEF TxAt
    <2>2. Len(Ref(i).wits) + 1 = 1
        BY <2>1
    <2> QED  BY <2>1, <2>2
<1> DEFINE z == t.size  o == t.wit_offset
<1>7. HashSrc(t) = IF t.segwit
                   THEN Slice(p, 4) \o Slice(p + 6, o - 6) \o Slice(p + z - 4, 4)
                   ELSE Slice(p, z)
    BY DEF HashSrc
<1>8. p \in Nat /\ z = q - p /\ o = w - p /\ w > c
    BY <1>2
<1> HIDE DEF p, q, w, c, z, o
<1>9. c \in {p + 4, p + 6} /\ Len(block.bytes) \in Nat
    BY <1>1, <1>5, <1>8
<1>10. /\ q - 4 \in Nat /\ p + 4 <= Len(block.bytes) /\ c \in Nat /\ w - c \in Nat
       /\ p + 4 \in Nat /\ q = (q - 4) + 4 /\ w = c + (w - c)
    BY <1>4, <1>8, <1>9
<1>11. Slice(q - 4, 4) = Between(block, q - 4, q)
    BY <1>4, <1>10, SliceIsBetween
<1>12. Slice(p, 4) = Between(block, p, p + 4)
    BY <1>8, <1>10, SliceIsBetween
<1>13. Slice(c, w - c) = Between(block, c, w)
    BY <1>4, <1>10, SliceIsBetween
<1>14. CASE t.segwit
    <2>1. p + 6 = c /\ o - 6 = w - c /\ p + z - 4 = q - 4
        BY <1>4, <1>5, <1>8, <1>14
    <2> QED  BY <1>3, <1>7, <1>11, <1>12, <1>13, <1>14, <2>1
<1>15. CASE ~t.segwit
    <2> DEFINE m == w - c
    <2>1. c = p + 4 /\ q = w + 4
        BY <1>5, <1>6, <1>8, <1>15
    <2>2. m \in Nat /\ w = c + m
        BY <1>10
    <2> HIDE DEF m
    <2>3. /\ m \in Nat /\ c = p + 4 /\ q - 4 = p + (4 + m) /\ 4 + m \in Nat
          /\ z = (4 + m) + 4
        BY <1>4, <1>8, <2>1, <2>2
    <2>4. Slice(p, 4) \o Slice(p + 4, m) = Slice(p, 4 + m)
        BY <1>8, <2>3, SliceJoin
    <2> DEFINE k == 4 + m
    <2>5. k \in Nat /\ 4 \in Nat
        BY <2>3
    <2> HIDE DEF k
    <2>6. Slice(p, k) \o Slice(p + k, 4) = Slice(p, k + 4)
        BY <1>8, <2>5, SliceJoin
    <2>7. Slice(p, 4 + m) \o Slice(p + (4 + m), 4) = Slice(p, (4 + m) + 4)
        BY <2>6 DEF k
    <2>8. Slice(c, m) = Between(block, c, w)
        BY <1>13 DEF m
    <2> QED  BY <1>3, <1>7, <1>11, <1>12, <1>15, <2>3, <2>4, <2>7, <2>8
<1> QED  BY <1>14, <1>15

\* Whatever computes a hash, a thread or parse() itself, what is hashed is the
\* transaction without its marker and its witnesses: for all blocks that have a
\* layout, all options and all schedules of the threads.
THEOREM HashesRightCorrect == ASSUME AllLaid PROVE ParseSpec => []HashesRight
<1>1. PInv /\ WInv => HashesRight
    <2> SUFFICES ASSUME PInv, WInv, NEW i \in DOMAIN txs, txs[i].hash # NoHash
                 PROVE  txs[i].hash = Hash256(block.txs[i].stripped)
        BY DEF HashesRight
    <2>1. block \in Blocks /\ txs[i] \in TxT
        BY ElementOfSeq DEF PInv, Types
    <2>2. Built(txs[i], i) /\ txs[i].hash = Hash256(HashSrc(txs[i]))
        BY DEF WInv, HashInv, Complete
    <2>3. HashSrc(txs[i]) = Ref(i).stripped
        BY <2>1, <2>2, HashSrcIs
    <2> QED  BY <2>2, <2>3 DEF Ref
<1> QED  BY <1>1, InitHolds, NextHolds, WalkInit, WalkNext, PTL DEF ParseSpec
=============================================================================
