----------------------------- MODULE WireFormat -----------------------------
(***************************************************************************)
(* How a node serializes a block: the reference that Parse is compared     *)
(* with.  A transaction is [segwit, vins, vouts, wits]; an output has a    *)
(* form, from which its script and its owner follow.                       *)
(***************************************************************************)
EXTENDS Integers, Sequences, SequencesExt

Fill(b, n) == [i \in 1 .. n |-> b]

\* A number in the least width that holds it, or in a wider one.
Wide16(n) == <<253, n % 256, n \div 256>>
Wide32(n) == <<254, n % 256, n \div 256, 0, 0>>
Number(n) == IF n < 253 THEN <<n>> ELSE Wide16(n)
Counted(s)  == Number(Len(s)) \o s
Each(s, op(_)) == FlattenSeq([i \in 1 .. Len(s) |-> op(s[i])])

VinBytes(v)  == v.tx_hash \o v.vout \o Counted(v.script) \o Fill(255, 4)
VoutBytes(v) == v.satoshi \o Counted(v.script)
WitBytes(w)  == Number(Len(w)) \o Each(w, Counted)

\* The body of a transaction, without marker and witnesses.
Body(t) == Number(Len(t.vins)) \o Each(t.vins, VinBytes)
           \o Number(Len(t.vouts)) \o Each(t.vouts, VoutBytes)
Version  == <<2, 0, 0, 0>>
Locktime == <<9, 8, 7, 6>>

Stripped(t) == Version \o Body(t) \o Locktime
TxBytes(t) == IF t.segwit
                THEN Version \o <<0, 1>> \o Body(t) \o Each(t.wits, WitBytes) \o Locktime
                ELSE Stripped(t)

Head80 == [i \in 1 .. 80 |-> i]
BlockBytes(txs, count) == Head80 \o count \o Each(txs, TxBytes)
-----------------------------------------------------------------------------
\* Public keys: the k-th one, in its short and its long form.
Short(k) == <<2 + (k % 2)>> \o Fill(k, 32)
Long(k)  == <<4>> \o Fill(k, 64)
Hybrid(k) == <<6 + (k % 2)>> \o Fill(k, 64)

Push(s) == <<Len(s)>> \o s

\* Forms of scripts that name an owner.
P2PK(key)      == Push(key) \o <<172>>
P2PKH(hash)    == <<118, 169>> \o Push(hash) \o <<136, 172>>
P2SH(hash)     == <<169>> \o Push(hash) \o <<135>>
P2W(hash)      == <<0>> \o Push(hash)
P2MS(m, keys)  == <<80 + m>> \o Each(keys, Push) \o <<80 + Len(keys), 174>>
=============================================================================
