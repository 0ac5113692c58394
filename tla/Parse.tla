-------------------------------- MODULE Parse --------------------------------
(***************************************************************************)
(* From the bytes of a block to objects: the walk of the constructors of   *)
(* BK_T, TX_T, VIN_T, VOUT_T and WIT_T, which all move the same UNIPTR_T,  *)
(* and then BK_T::parse(), which finds hashes and addresses, with -m the   *)
(* hash of a transaction in a thread of its own.                           *)
(* One action per constructor, per output that is decoded, and per thread  *)
(* that is started, ends its work or is joined.  Left out are fields that  *)
(* are read and never used (ver, seq) and the counters STAT and, without   *)
(* stores, COUNT.tx, which are only printed.                               *)
(***************************************************************************)
EXTENDS Integers, Sequences, Address

CONSTANTS
    Blocks,      \* what may be loaded: [height, bytes, txs, good]; txs is what
                 \* was serialized, good is FALSE if bytes is not that
    Glitches,    \* BK_GLITCH
    Options,     \* the command lines: [out, mt, kv]
    Hash256(_)   \* SHA256 of SHA256 of a sequence of bytes

HeadSize == 80   \* sizeof (BK_HEAD_T)
NoHash   == <<>> \* a hash that is not computed: uint256_t {0}

\* What is loaded is bytes.
ASSUME ParseAssumption ==
    \A b \in Blocks : b.bytes \in Seq(0 .. 255) /\ b.height \in Nat

VARIABLES
    OPTS,        \* the options
    block,       \* the block that was loaded; block.bytes is BK_T::data
    step,        \* where main() is
    ptr,         \* uptr, as an offset into data
    tx_count, vin_count, vout_count,
    items,       \* the items of a witness that are still to be skipped
    txs,         \* BK_T::txs; the last one is under construction
    bkhash,      \* BK_T::hash
    ti, vi,      \* the transaction and the output parse() is at
    hashing      \* the transactions whose mk_hash() runs in a thread

counts == <<tx_count, vin_count, vout_count>>
walk  == <<ptr, counts, items>>
place == <<ti, vi>>
pvars == <<OPTS, block, step, walk, txs, bkhash, place, hashing>>

ParseInit ==
    /\ OPTS \in Options /\ block \in Blocks
    /\ step = "head" /\ ptr = 0
    /\ tx_count = 0 /\ vin_count = 0 /\ vout_count = 0 /\ items = 0
    /\ txs = <<>> /\ bkhash = NoHash
    /\ ti = 1 /\ vi = 1 /\ hashing = {}

-----------------------------------------------------------------------------
\* UNIPTR_T.  What lies behind the block is not in it; here it is zeros.
Byte(p)     == IF p < Len(block.bytes) THEN block.bytes[p + 1] ELSE 0
Slice(p, n) == [i \in 1 .. n |-> Byte(p + i - 1)]

\* take_varuint(): the bytes it takes, and what it returns.
VarSize(p) == CASE Byte(p) = 253 -> 3
                [] Byte(p) = 254 -> 5
                [] OTHER         -> 1

\* Mutant: 0xFC is taken for a prefix.
VarUintFrom252(p) ==
    CASE Byte(p) = 252 -> Byte(p + 1)
      [] Byte(p) = 253 -> Byte(p + 1) + 256 * Byte(p + 2)
      [] OTHER         -> Byte(p)

VarUint(p) ==
    CASE Byte(p) = 253 -> Byte(p + 1) + 256 * Byte(p + 2)
      [] Byte(p) = 254 -> Byte(p + 1) + 256 * Byte(p + 2)
                          + 65536 * (Byte(p + 3) + 256 * Byte(p + 4))
      [] OTHER         -> Byte(p)
TooBig(p)  == Byte(p) = 255
After(p)   == p + VarSize(p)

\* A script at p, after its length: a view of the bytes.
View(p) == [at |-> After(p), len |-> VarUint(p)]
End(v)  == v.at + v.len

-----------------------------------------------------------------------------
\* The constructors.
tx == txs[Len(txs)]
SetTx(t) == txs' = [txs EXCEPT ![Len(txs)] = t]

ReadHead ==
    /\ step = "head" /\ ~TooBig(HeadSize)
    /\ tx_count' = VarUint(HeadSize) /\ ptr' = After(HeadSize)
    /\ step' = IF block.height \in Glitches THEN "built" ELSE "tx"
    /\ UNCHANGED <<OPTS, block, vin_count, vout_count, items, txs, bkhash, place,
                   hashing>>

\* The two bytes after the version, and where the inputs are counted.
Segwit    == Byte(ptr + 4) = 0 /\ Byte(ptr + 5) = 1
VinsAt    == ptr + 4 + (IF Segwit THEN 2 ELSE 0)
NewTx(sw) == [beg |-> ptr, size |-> 0, segwit |-> sw, wit_offset |-> 0,
              vins |-> <<>>, vouts |-> <<>>, wits |-> 0, hash |-> NoHash]

ReadTx ==
    /\ step = "tx" /\ Len(txs) < tx_count
    /\ ~TooBig(VinsAt) /\ VarUint(VinsAt) # 0
    /\ txs' = Append(txs, NewTx(Segwit))
    /\ vin_count' = VarUint(VinsAt) /\ ptr' = After(VinsAt)
    /\ step' = "vin"
    /\ UNCHANGED <<OPTS, block, tx_count, vout_count, items, bkhash, place, hashing>>

ReadVin ==
    /\ step = "vin" /\ Len(tx.vins) < vin_count /\ ~TooBig(ptr + 36)
    /\ SetTx([tx EXCEPT !.vins = Append(@,
                [tx_hash |-> ptr, vout |-> Slice(ptr + 32, 4),
                 script |-> View(ptr + 36)])])
    /\ ptr' = End(View(ptr + 36)) + 4
    /\ UNCHANGED <<OPTS, block, step, counts, items, bkhash, place, hashing>>

ReadVoutCount ==
    /\ step = "vin" /\ Len(tx.vins) = vin_count /\ ~TooBig(ptr)
    /\ vout_count' = VarUint(ptr) /\ ptr' = After(ptr)
    /\ step' = "vout"
    /\ UNCHANGED <<OPTS, block, tx_count, vin_count, items, txs, bkhash, place,
                   hashing>>

ReadVout ==
    /\ step = "vout" /\ Len(tx.vouts) < vout_count /\ ~TooBig(ptr + 8)
    /\ SetTx([tx EXCEPT !.vouts = Append(@,
                [satoshi |-> Slice(ptr, 8), script |-> View(ptr + 8),
                 addr |-> NoAddress])])
    /\ ptr' = End(View(ptr + 8))
    /\ UNCHANGED <<OPTS, block, step, counts, items, bkhash, place, hashing>>

EndVouts ==
    /\ step = "vout" /\ Len(tx.vouts) = vout_count
    /\ SetTx([tx EXCEPT !.wit_offset = ptr - tx.beg])
    /\ step' = "wit"
    /\ UNCHANGED <<OPTS, block, walk, bkhash, place, hashing>>

\* Mutant: one witness too many.
ReadWitOneMore ==
    /\ step = "wit" /\ tx.segwit /\ tx.wits <= vin_count /\ items = 0 /\ ~TooBig(ptr)
    /\ SetTx([tx EXCEPT !.wits = @ + 1])
    /\ items' = VarUint(ptr) /\ ptr' = After(ptr)
    /\ UNCHANGED <<OPTS, block, step, counts, bkhash, place, hashing>>

ReadWit ==
    /\ step = "wit" /\ tx.segwit /\ tx.wits < vin_count /\ items = 0 /\ ~TooBig(ptr)
    /\ SetTx([tx EXCEPT !.wits = @ + 1])
    /\ items' = VarUint(ptr) /\ ptr' = After(ptr)
    /\ UNCHANGED <<OPTS, block, step, counts, bkhash, place, hashing>>

SkipItem ==
    /\ step = "wit" /\ items > 0 /\ ~TooBig(ptr)
    /\ items' = items - 1 /\ ptr' = End(View(ptr))
    /\ UNCHANGED <<OPTS, block, step, counts, txs, bkhash, place, hashing>>

\* The locktime is skipped.
EndTx ==
    /\ step = "wit" /\ (tx.segwit => tx.wits = vin_count) /\ items = 0
    /\ SetTx([tx EXCEPT !.size = ptr + 4 - tx.beg])
    /\ ptr' = ptr + 4
    /\ step' = "tx"
    /\ UNCHANGED <<OPTS, block, counts, items, bkhash, place, hashing>>

EndBlock ==
    /\ step = "tx" /\ Len(txs) = tx_count
    /\ step' = "built"
    /\ UNCHANGED <<OPTS, block, walk, txs, bkhash, place, hashing>>

\* A number too big for take_varuint(), or no inputs: nobody catches it.
Throws ==
    /\ \/ step = "head" /\ TooBig(HeadSize)
       \/ step = "tx" /\ Len(txs) < tx_count
                      /\ (TooBig(VinsAt) \/ VarUint(VinsAt) = 0)
       \/ step = "vin" /\ Len(tx.vins) < vin_count /\ TooBig(ptr + 36)
       \/ step = "vin" /\ Len(tx.vins) = vin_count /\ TooBig(ptr)
       \/ step = "vout" /\ Len(tx.vouts) < vout_count /\ TooBig(ptr + 8)
       \/ step = "wit" /\ (items > 0 \/ (tx.segwit /\ tx.wits < vin_count)) /\ TooBig(ptr)
    /\ step' = "aborted"
    /\ UNCHANGED <<OPTS, block, walk, txs, bkhash, place, hashing>>

-----------------------------------------------------------------------------
\* BK_T::parse() and TX_T::parse().
Hashed == OPTS.out \/ OPTS.kv

ParseBlock ==
    /\ step = "built"
    /\ bkhash' = IF OPTS.out THEN Hash256(Slice(0, HeadSize)) ELSE bkhash
    /\ step' = "parse"
    /\ UNCHANGED <<OPTS, block, walk, txs, place, hashing>>

\* Mutant: the second cut is at the offset in the uncut copy.
HashSrcShifted(t) ==
    IF t.segwit THEN Slice(t.beg, 4) \o Slice(t.beg + 6, t.wit_offset - 4)
                     \o Slice(t.beg + t.size - 4, 4)
                ELSE Slice(t.beg, t.size)

\* mk_hash(): what is hashed of a transaction, without witnesses and marker.
HashSrc(t) ==
    IF t.segwit THEN Slice(t.beg, 4) \o Slice(t.beg + 6, t.wit_offset - 6)
                     \o Slice(t.beg + t.size - 4, 4)
                ELSE Slice(t.beg, t.size)
MkHash(i) == txs' = [txs EXCEPT ![i].hash = Hash256(HashSrc(txs[i]))]

\* TX_T::parse() begins: the hash is computed, or a thread is given it, or it
\* is not needed.
ParseTx ==
    /\ step = "parse" /\ ti <= Len(txs)
    /\ CASE Hashed /\ OPTS.mt  -> hashing' = hashing \cup {ti} /\ UNCHANGED txs
         [] Hashed /\ ~OPTS.mt -> MkHash(ti) /\ UNCHANGED hashing
         [] OTHER              -> UNCHANGED <<txs, hashing>>
    /\ vi' = 1
    /\ step' = "addr"
    /\ UNCHANGED <<OPTS, block, walk, bkhash, ti>>

\* The system gives no thread: std::system_error, which nobody catches.
ThreadFails ==
    /\ step = "parse" /\ ti <= Len(txs) /\ Hashed /\ OPTS.mt
    /\ step' = "aborted"
    /\ UNCHANGED <<OPTS, block, walk, txs, bkhash, place, hashing>>

\* The thread.
Thread(i) ==
    /\ i \in hashing
    /\ MkHash(i)
    /\ hashing' = hashing \ {i}
    /\ UNCHANGED <<OPTS, block, step, walk, bkhash, place>>

\* VOUT_T::parse(), for one output after another.
Behind    == [i \in 1 .. 34 |-> 0]
Script(v) == SubSeq(block.bytes, v.at + 1, Len(block.bytes)) \o Behind
ParseVout ==
    /\ step = "addr" /\ vi <= Len(txs[ti].vouts)
    /\ LET v == txs[ti].vouts[vi].script
       IN  txs' = [txs EXCEPT ![ti].vouts[vi].addr = Decode(Script(v), v.len)]
    /\ vi' = vi + 1
    /\ UNCHANGED <<OPTS, block, step, walk, bkhash, ti, hashing>>

\* Mutant: the thread is not waited for.
EndParseTxUnjoined ==
    /\ step = "addr" /\ vi > Len(txs[ti].vouts)
    /\ ti' = ti + 1
    /\ step' = "parse"
    /\ UNCHANGED <<OPTS, block, walk, txs, bkhash, vi, hashing>>

\* Mutant: the hash is waited for, whether it is computed or not.
EndParseTxHashed ==
    /\ step = "addr" /\ vi > Len(txs[ti].vouts)
    /\ txs[ti].hash # NoHash
    /\ ti' = ti + 1
    /\ step' = "parse"
    /\ UNCHANGED <<OPTS, block, walk, txs, bkhash, vi, hashing>>

\* The thread is joined, if there is one, and TX_T::parse() returns.
EndParseTx ==
    /\ step = "addr" /\ vi > Len(txs[ti].vouts)
    /\ ti \notin hashing
    /\ ti' = ti + 1
    /\ step' = "parse"
    /\ UNCHANGED <<OPTS, block, walk, txs, bkhash, vi, hashing>>

EndParse ==
    /\ step = "parse" /\ ti > Len(txs)
    /\ step' = "parsed"
    /\ UNCHANGED <<OPTS, block, walk, txs, bkhash, place, hashing>>

Main ==
    \/ ReadHead \/ ReadTx \/ ReadVin \/ ReadVoutCount \/ ReadVout \/ EndVouts
    \/ ReadWit \/ SkipItem \/ EndTx \/ EndBlock \/ Throws
    \/ ParseBlock \/ ParseTx \/ ThreadFails \/ ParseVout \/ EndParseTx \/ EndParse

Threads == step # "aborted" /\ \E i \in hashing : Thread(i)

ParseNext == Main \/ Threads
ParseSpec == ParseInit /\ [][ParseNext]_pvars

\* main() takes its next step unless it waits for the thread, and the system
\* lets a thread run.
FairParse == ParseSpec /\ WF_pvars(Main) /\ WF_pvars(Threads)
-----------------------------------------------------------------------------
ParseSteps == {"head", "tx", "vin", "vout", "wit", "built", "parse", "addr",
               "parsed", "aborted"}
ScriptView == [at : Nat, len : Nat]
IsTx(t) ==
    /\ t.beg \in Nat /\ t.size \in Nat /\ t.wit_offset \in Nat
    /\ t.segwit \in BOOLEAN
    /\ \A i \in DOMAIN t.vins : t.vins[i].script \in ScriptView
    /\ \A i \in DOMAIN t.vouts : t.vouts[i].script \in ScriptView
    /\ t.wits \in 0 .. Len(t.vins)

\* Types of the variables.
ParseTypeOK ==
    /\ OPTS \in Options /\ step \in ParseSteps
    /\ ptr \in Nat /\ tx_count \in Nat /\ vin_count \in Nat /\ vout_count \in Nat
    /\ items \in Nat
    /\ Len(txs) <= tx_count /\ \A i \in DOMAIN txs : IsTx(txs[i])
    /\ ti \in 1 .. Len(txs) + 1 /\ vi \in Nat
    /\ hashing \subseteq DOMAIN txs

Text(v) == Slice(v.at, v.len)

\* The objects t and what was serialized, r, are the same.
SameVin(v, r)  == /\ Slice(v.tx_hash, 32) = r.tx_hash /\ v.vout = r.vout
                  /\ Text(v.script) = r.script
SameVout(v, r) == v.satoshi = r.satoshi /\ Text(v.script) = r.script
SameTx(t, r) ==
    /\ t.segwit = r.segwit
    /\ Len(t.vins) = Len(r.vins) /\ Len(t.vouts) = Len(r.vouts)
    /\ \A i \in DOMAIN t.vins : SameVin(t.vins[i], r.vins[i])
    /\ \A i \in DOMAIN t.vouts : SameVout(t.vouts[i], r.vouts[i])

\* The walk ends where the block ends and has found what was put into it,
\* whatever the widths of its numbers and lengths; no such block is refused, and
\* no other one is built.  Every step of it starts where the one before stopped,
\* so that one wrong length anywhere spoils all that follows.
WalkRight ==
    /\ step \in {"built", "parse", "addr", "parsed"} =>
          IF block.height \in Glitches
            THEN txs = <<>>
            ELSE /\ block.good /\ ptr = Len(block.bytes)
                 /\ Len(txs) = Len(block.txs)
                 /\ \A i \in DOMAIN txs : SameTx(txs[i], block.txs[i])
    /\ (step = "aborted" /\ ~OPTS.mt) => ~block.good

\* The transactions whose parse() has returned.
Parsed == 1 .. ti - 1

\* The hash of a transaction is complete when its parse() returns, though a
\* thread may compute it: nobody reads a hash that a thread still writes.
Complete(i) == txs[i].hash = Hash256(HashSrc(txs[i]))
HashesReady == Hashed => \A i \in Parsed : Complete(i) /\ i \notin hashing

\* A hash is that of the serialization without marker and witnesses, which
\* mk_hash() cuts out of the block by three offsets the walk has left.
HashesRight ==
    \A i \in DOMAIN txs :
        txs[i].hash # NoHash => txs[i].hash = Hash256(block.txs[i].stripped)

\* The owners of scripts that name none, and of those that no definition of the
\* forms covers: witness programs of another length than the byte before says.
Nobody      == <<"nobody">>
Unspecified == <<"unspecified">>
Outputs == UNION {{i} \X DOMAIN txs[i].vouts : i \in Parsed}
AddrOf(o)  == txs[o[1]].vouts[o[2]].addr
OwnerOf(o) == block.txs[o[1]].vouts[o[2]].owner

\* An output has an address to be stored iff its script is one of the forms
\* that name owners, and two outputs have the same key iff they have the same
\* owner, whichever forms their scripts have.  Resolve takes this for granted.
AddrsRight ==
    LET known == {o \in Outputs : OwnerOf(o) # Unspecified}
        owned == {o \in known : OwnerOf(o) # Nobody}
    IN  /\ \A o \in known : IsFull(AddrOf(o)) <=> o \in owned
        /\ \A o, p \in owned :
              AsKey(AddrOf(o)) = AsKey(AddrOf(p)) <=> OwnerOf(o) = OwnerOf(p)

\* A block that is loaded gets parsed, or the program aborts.
ParseEnds == step = "head" ~> step \in {"parsed", "aborted"}
=============================================================================
