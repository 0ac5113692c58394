------------------------------- MODULE Session -------------------------------
(***************************************************************************)
(* Runs of bce2 one after another over the same k-v directory: main() with *)
(* set_cache(), the loop over the blocks, and stop_cache() (src/main.cpp,  *)
(* src/kv/kv.cpp).  Between two runs only three files are left: the two    *)
(* stores and the stamp bce2.chk.  A run may end anywhere in a crash.      *)
(***************************************************************************)
EXTENDS Resolve, Numbering

CONSTANTS
    Options,        \* the command lines, see OptionRecord
    SessionFaults,  \* what may fail, of {"open", "clear", "load", "update", "close"}
    MaxSessions,    \* bound on the number of runs
    MaxCrashes,     \* bound on the number of crashes, aborts apart
    Absent          \* the stamp file does not exist

Omitted == MaxU32   \* OPTS.from without -f

\* kv and infile stand for the engine: kv_mode(), and whether it is on file.
OptionRecord == [from : U32, num : Nat, info : BOOLEAN, out : BOOLEAN,
                 kv : BOOLEAN, infile : BOOLEAN]

ASSUME SessionAssumption ==
    /\ Options \subseteq OptionRecord
    /\ SessionFaults \subseteq {"open", "clear", "load", "update", "close"}
    /\ MaxSessions \in Nat /\ MaxCrashes \in Nat
    /\ Absent \notin {<<>>} \cup (U32 \X U32 \X U32)
    /\ Len(Chain) \in U32
    /\ \A n \in DOMAIN Chain : \E b \in Chain[n] : Chain[n] = {b}

VARIABLES
    stage,        \* where main() is
    OPTS,         \* from and num change as main() runs
    txfile, addrfile, stamp, \* the files, as they are when they are closed;
                  \* a stamp is Absent, <<>> (an empty file) or <<bk, tx, addr>>
    file_open,    \* DBSTAMP_T::file is open for writing
    buffered,     \* the stamp in the buffer of that file, or <<>>
    printed_addrs, \* the counter in out_addr()
    printed,      \* history: the rows that were printed for these stores, or
                  \* Absent once a block was not printed
    trusted,      \* history: a session of the loop found the stores empty, and
                  \* since then none has gone on with them unless by a true stamp
    truestamp,    \* history: the stamp, if any, was made from such stores
    sessions, crashes

files   == <<txfile, addrfile, stamp>>
stampfs == <<file_open, buffered>>
outvars == <<printed_addrs, printed>>
trust   == <<trusted, truestamp>>
bounds  == <<sessions, crashes>>
main    == <<stage, OPTS, files, stampfs, outvars, trust, bounds>>
svars   == <<vars, main>>

CanFail(what) == what \in SessionFaults

NoCount == [bk |-> 0, tx |-> 0, addr |-> 0]

\* The globals and the heap of a process that starts, or is gone.
FreshProcess ==
    /\ pc' = "idle"
    /\ txdb' = EmptyStore(TxHash) /\ addrdb' = EmptyStore(AddrKey)
    /\ txdb0' = EmptyStore(TxHash) /\ addrdb0' = EmptyStore(AddrKey)
    /\ COUNT' = NoCount
    /\ NewBlock(<<>>)
    /\ ti' = 1 /\ vi' = 1 /\ retvalue' = TRUE

SessionInit ==
    /\ InitWith([bk |-> 0, tx |-> EmptyStore(TxHash), addr |-> EmptyStore(AddrKey)])
    /\ stage = "off"
    /\ OPTS = [from |-> Omitted, num |-> 1, info |-> FALSE, out |-> FALSE,
               kv |-> FALSE, infile |-> FALSE]
    /\ txfile = EmptyStore(TxHash) /\ addrfile = EmptyStore(AddrKey)
    /\ stamp = Absent
    /\ file_open = FALSE /\ buffered = <<>>
    /\ printed_addrs = 0 /\ printed = <<>>
    /\ trusted = FALSE /\ truestamp = TRUE
    /\ sessions = 0 /\ crashes = 0

Start ==
    /\ stage = "off" /\ sessions < MaxSessions
    /\ OPTS' \in Options
    /\ stage' = IF OPTS'.kv THEN "open" ELSE "plain"
    /\ sessions' = sessions + 1
    /\ printed_addrs' = 0
    /\ UNCHANGED <<vars, files, stampfs, printed, trust, crashes>>

-----------------------------------------------------------------------------
\* set_cache(), step by step.

\* Both stores are opened; those in memory are new.
OpenStores ==
    /\ stage = "open"
    /\ txdb' = IF OPTS.infile THEN txfile ELSE EmptyStore(TxHash)
    /\ addrdb' = IF OPTS.infile THEN addrfile ELSE EmptyStore(AddrKey)
    /\ stage' = "check"
    /\ UNCHANGED <<pc, COUNT, block, ti, vi, retvalue, begun, OPTS, files,
                   stampfs, outvars, trust, bounds>>

\* A store cannot be opened, or is not healthy; one that is open is closed.
OpenFails ==
    /\ stage = "open" /\ CanFail("open")
    /\ stage' = "off"
    /\ UNCHANGED <<vars, OPTS, files, stampfs, outvars, trust, bounds>>

\* chk_kv(): a store can be counted, and its being empty or not fits -f.
ChkKv(db) ==
    /\ Count(db) # NotFound
    /\ \/ OPTS.info
       \/ Count(db) # 0 /\ OPTS.from # Omitted
       \/ Count(db) = 0 /\ OPTS.from \in {0, Omitted}

OneIsEmpty == (Count(txdb) = 0) # (Count(addrdb) = 0)

Acceptable == ChkKv(txdb) /\ ChkKv(addrdb) /\ ~OneIsEmpty

RefuseStores ==
    /\ stage = "check" /\ ~Acceptable
    /\ stage' = "close_tx"
    /\ UNCHANGED <<vars, OPTS, files, stampfs, outvars, trust, bounds>>

AcceptStores ==
    /\ stage = "check" /\ Acceptable
    /\ stage' = IF OPTS.from = 0 THEN "clear_tx" ELSE "stamp"
    /\ UNCHANGED <<vars, OPTS, files, stampfs, outvars, trust, bounds>>

\* clear(): what the engine says is not looked at; a store that it could not
\* clear is as it was.
Cleared(db) == {EmptyStore(DOMAIN db)} \cup (IF CanFail("clear") THEN {db} ELSE {})

ClearTx ==
    /\ stage = "clear_tx"
    /\ txdb' \in Cleared(txdb)
    /\ stage' = "clear_addr"
    /\ UNCHANGED <<pc, addrdb, COUNT, block, ti, vi, retvalue, begun, OPTS,
                   files, stampfs, outvars, trust, bounds>>

ClearAddr ==
    /\ stage = "clear_addr"
    /\ addrdb' \in Cleared(addrdb)
    /\ stage' = "stamp"
    /\ UNCHANGED <<pc, txdb, COUNT, block, ti, vi, retvalue, begun, OPTS,
                   files, stampfs, outvars, trust, bounds>>

\* Mutants: only the counts, or only the height, are compared.
CountsAgreeOnly == SubSeq(stamp, 2, 3) = <<Count(txdb), Count(addrdb)>>
HeightAgreesOnly == Head(stamp) = OPTS.from

\* DBSTAMP_T::check(): whether there is a stamp that must agree, does it.
\* -f omitted is not 0 yet, and no stamp has it as its height.
StampRead   == OPTS.infile /\ OPTS.from # 0 /\ stamp # Absent
StampAgrees == stamp = <<OPTS.from, Count(txdb), Count(addrdb)>>
StampOK     == StampRead => stamp # <<>> /\ (OPTS.info \/ StampAgrees)

RefuseStamp ==
    /\ stage = "stamp" /\ ~StampOK
    /\ COUNT' = [COUNT EXCEPT !.tx = Count(txdb), !.addr = Count(addrdb)]
    /\ stage' = "close_tx"
    /\ UNCHANGED <<pc, stores, block, ti, vi, retvalue, begun, OPTS, files,
                   stampfs, outvars, trust, bounds>>

\* What was there should be cleared, or there is nothing.  With the info option
\* -f can be omitted whatever there is.
FromScratch == OPTS.from = 0 \/ (OPTS.from = Omitted /\ ~OPTS.info)

\* The stores really are new: no clear() has failed.  The code does not look.
NewStores  == txdb = EmptyStore(TxHash) /\ addrdb = EmptyStore(AddrKey)
BegunEmpty == FromScratch /\ NewStores

\* set_cache() succeeds: -f omitted becomes 0, and the loop begins, unless
\* all that was wanted is the info.
AcceptStamp ==
    /\ stage = "stamp" /\ StampOK
    /\ LET from == IF OPTS.from = Omitted THEN 0 ELSE OPTS.from IN
          /\ OPTS' = [OPTS EXCEPT !.from = from]
          /\ COUNT' = [bk |-> IF OPTS.info THEN 0 ELSE from,
                       tx |-> Count(txdb), addr |-> Count(addrdb)]
    /\ stage' = IF OPTS.info THEN "close_tx" ELSE "loop"
    /\ trusted' = \/ OPTS.infile /\ BegunEmpty
                  \/ trusted /\ ((StampRead /\ truestamp) \/ OPTS.info \/ ~OPTS.infile)
    /\ txdb0' = txdb /\ addrdb0' = addrdb
    /\ printed' = IF OPTS.infile /\ COUNT'.addr = 0 THEN <<>> ELSE printed
    /\ UNCHANGED <<pc, stores, block, ti, vi, retvalue, files, stampfs,
                   printed_addrs, truestamp, bounds>>

-----------------------------------------------------------------------------
\* Without an engine: blocks are loaded, parsed and maybe printed, by what they
\* say themselves.

PlainFrom == IF OPTS.from = Omitted THEN 0 ELSE OPTS.from

PlainCache ==
    /\ stage = "plain"
    /\ OPTS' = [OPTS EXCEPT !.from = PlainFrom]
    /\ COUNT' = [COUNT EXCEPT !.bk = IF OPTS.info THEN 0 ELSE PlainFrom]
    /\ stage' = IF OPTS.info THEN "close_stamp" ELSE "plain_loop"
    /\ UNCHANGED <<pc, stores, block, ti, vi, retvalue, begun, files, stampfs,
                   outvars, trust, bounds>>

PlainBlock ==
    /\ stage = "plain_loop" /\ OPTS.num # 0 /\ COUNT.bk < Len(Chain)
    /\ OPTS' = [OPTS EXCEPT !.num = @ - 1]
    /\ COUNT' = [COUNT EXCEPT !.bk = @ + 1]
    /\ UNCHANGED <<pc, stores, block, ti, vi, retvalue, begun, stage, files,
                   stampfs, outvars, trust, bounds>>

PlainEnds ==
    /\ stage = "plain_loop"
    /\ OPTS.num = 0 \/ COUNT.bk >= Len(Chain) \/ CanFail("load")
    /\ stage' = "close_stamp"
    /\ UNCHANGED <<vars, OPTS, files, stampfs, outvars, trust, bounds>>

-----------------------------------------------------------------------------
\* The loop of main() with an engine.

\* Mutant: -n is not looked at.
LoopForever == stage = "loop"

Loop == stage = "loop" /\ OPTS.num # 0

LoadBlock ==
    /\ Loop
    /\ BeginBlock
    /\ UNCHANGED main

\* The loader has no block for this height, or cannot read it.
LoadFails ==
    /\ Loop /\ pc = "idle"
    /\ COUNT.bk >= Len(Chain) \/ CanFail("load")
    /\ stage' = "close_tx"
    /\ UNCHANGED <<vars, OPTS, files, stampfs, outvars, trust, bounds>>

ResolveStep ==
    /\ Loop
    /\ ResolveForward \/ Rollback
    /\ UNCHANGED main

\* Mutant: the failure is not looked at, and no step is left.
ResolveFailsUnseen ==
    /\ Loop /\ pc = "failed"
    /\ UNCHANGED svars

\* resolve() answered false: the loop is left.
ResolveFails ==
    /\ Loop /\ pc = "failed"
    /\ stage' = "close_tx"
    /\ UNCHANGED <<vars, OPTS, files, stampfs, outvars, trust, bounds>>

NumDone ==
    /\ stage = "loop" /\ OPTS.num = 0
    /\ stage' = "close_tx"
    /\ UNCHANGED <<vars, OPTS, files, stampfs, outvars, trust, bounds>>

\* Mutant: the stamp names the block itself, not the next height.
StampOfThis == <<COUNT.bk, COUNT.tx, COUNT.addr>>

NewStamp == <<Inc(COUNT.bk), COUNT.tx, COUNT.addr>>

\* DBSTAMP_T::update().  Opening the file empties it; going back to its
\* begin writes out what was buffered; what is written now is buffered.
Update ==
    /\ Loop /\ pc = "resolved"
    /\ IF OPTS.infile
         THEN /\ stamp' = IF file_open THEN buffered ELSE <<>>
              /\ file_open' = TRUE
              /\ buffered' = NewStamp
              /\ truestamp' = trusted
         ELSE UNCHANGED <<stamp, stampfs, truestamp>>
    /\ stage' = "out"
    /\ UNCHANGED <<vars, OPTS, txfile, addrfile, outvars, trusted, bounds>>

\* The stamp file cannot be opened, or what is buffered cannot be written and
\* may be lost: the loop is left, with the block resolved.
UpdateFails ==
    /\ Loop /\ pc = "resolved" /\ OPTS.infile
    /\ CanFail("update")
    /\ buffered' \in {buffered, <<>>}
    /\ stage' = "close_tx"
    /\ UNCHANGED <<vars, OPTS, files, file_open, outvars, trust, bounds>>

\* Mutant: addr_is_new is not looked at.
OutAddrAny(out, v) ==
    IF addr_id[v] + 1 > out.n
      THEN [n |-> out.n + 1, rows |-> Append(out.rows, <<"a", addr_id[v]>>)]
      ELSE out

\* out_addr(): a new address is printed.
OutAddr(out, v) ==
    IF addr_is_new[v] /\ addr_id[v] + 1 > out.n
      THEN [n |-> out.n + 1, rows |-> Append(out.rows, <<"a", addr_id[v]>>)]
      ELSE out

Row(out, row) == [out EXCEPT !.rows = Append(@, row)]

\* out_vin() and out_vout().
OutVin(out, i, j) ==
    IF InputAt(i, j) = Coinbase THEN out
                                ELSE Row(out, <<"i", vin_id[<<i, j>>], txid[i]>>)
OutVout(out, i, j) ==
    Row(IF AddrAt(i, j) = NoAddr THEN out ELSE OutAddr(out, <<i, j>>),
        <<"o", txid[i], addr_id[<<i, j>>]>>)

\* out_tx(): a row for the transaction, its inputs, its outputs.
OutVins(out, i) ==
    LET rest[j \in 0 .. Len(txs[i].vins)] ==
            IF j = 0 THEN out ELSE OutVin(rest[j - 1], i, j)
    IN  rest[Len(txs[i].vins)]
OutVouts(out, i) ==
    LET rest[j \in 0 .. Len(txs[i].vouts)] ==
            IF j = 0 THEN out ELSE OutVout(rest[j - 1], i, j)
    IN  rest[Len(txs[i].vouts)]
OutTx(out, i) == OutVouts(OutVins(Row(out, <<"t", txid[i]>>), i), i)

\* out_bk(): the transactions, and the counter of out_addr() after them.
OutRows ==
    LET rest[i \in 0 .. Len(txs)] ==
            IF i = 0 THEN [n |-> printed_addrs, rows |-> <<>>]
                     ELSE OutTx(rest[i - 1], i)
    IN  rest[Len(txs)]

\* out_bk(), if it is wanted, and the step to the next block.
OutBlock ==
    /\ stage = "out"
    /\ IF OPTS.out
         THEN LET out == OutRows IN
                /\ printed_addrs' = out.n
                /\ printed' = IF OPTS.infile /\ printed # Absent
                                THEN printed \o out.rows ELSE printed
         ELSE /\ printed' = IF OPTS.infile THEN Absent ELSE printed
              /\ UNCHANGED printed_addrs
    /\ OPTS' = [OPTS EXCEPT !.num = @ - 1]
    /\ NextBlock
    /\ stage' = "loop"
    /\ UNCHANGED <<files, stampfs, trust, bounds>>

-----------------------------------------------------------------------------
\* What may be left of a store that was not closed in order: records are
\* written one after another, and the last ones may be missing.
Truncated(db) ==
    {[k \in DOMAIN db |-> IF db[k] < n THEN db[k] ELSE NotFound] : n \in U32}

\* stop_cache(): three files are closed, and failures are not looked at.
Closed(db) == IF CanFail("close") THEN Truncated(db) ELSE {db}

CloseTx ==
    /\ stage = "close_tx"
    /\ IF OPTS.infile THEN txfile' \in Closed(txdb) ELSE UNCHANGED txfile
    /\ stage' = "close_addr"
    /\ UNCHANGED <<vars, OPTS, addrfile, stamp, stampfs, outvars, trust,
                   bounds>>

CloseAddr ==
    /\ stage = "close_addr"
    /\ IF OPTS.infile THEN addrfile' \in Closed(addrdb) ELSE UNCHANGED addrfile
    /\ stage' = "close_stamp"
    /\ UNCHANGED <<vars, OPTS, txfile, stamp, stampfs, outvars, trust, bounds>>

\* The process ends.  Without an engine there was no file to close.
CloseStamp ==
    /\ stage = "close_stamp"
    /\ stamp' = IF buffered # <<>> THEN buffered ELSE stamp
    /\ file_open' = FALSE /\ buffered' = <<>>
    /\ FreshProcess
    /\ stage' = "off"
    /\ UNCHANGED <<OPTS, txfile, addrfile, outvars, trust, bounds>>

\* The process is gone.  Files of stores that are open lose their last
\* records or none, and what is buffered for the stamp is lost.
OnFile == OPTS.kv /\ OPTS.infile
Gone ==
    /\ IF OnFile /\ stage \notin {"open", "close_addr", "close_stamp"}
         THEN txfile' \in Truncated(txdb) ELSE UNCHANGED txfile
    /\ IF OnFile /\ stage \notin {"open", "close_stamp"}
         THEN addrfile' \in Truncated(addrdb) ELSE UNCHANGED addrfile
    /\ file_open' = FALSE /\ buffered' = <<>>
    /\ FreshProcess
    /\ stage' = "off"
    /\ UNCHANGED <<OPTS, stamp, outvars, trust, sessions>>

\* An exception nobody catches.
Abort ==
    /\ stage = "loop" /\ pc = "aborted"
    /\ Gone
    /\ UNCHANGED crashes

Crash ==
    /\ stage # "off" /\ pc # "aborted"
    /\ crashes < MaxCrashes
    /\ Gone
    /\ crashes' = crashes + 1

SetCache ==
    \/ OpenStores \/ OpenFails \/ RefuseStores \/ AcceptStores
    \/ ClearTx \/ ClearAddr \/ RefuseStamp \/ AcceptStamp

MainLoop ==
    \/ LoadBlock \/ LoadFails \/ ResolveStep \/ ResolveFails \/ NumDone
    \/ Update \/ UpdateFails \/ OutBlock

StopCache == CloseTx \/ CloseAddr \/ CloseStamp

Plain == PlainCache \/ PlainBlock \/ PlainEnds

Process == SetCache \/ MainLoop \/ StopCache \/ Abort \/ Plain

SessionNext == Start \/ Process \/ Crash

SessionSpec == SessionInit /\ [][SessionNext]_svars

\* A process that runs takes its next step; nobody has to start one.
FairSession == SessionSpec /\ WF_svars(Process)

-----------------------------------------------------------------------------
\* The block at a height, without what is skipped.
BlockOf(n) == IF n \in Glitch THEN <<>> ELSE CHOOSE b \in Chain[n + 1] : TRUE

\* What the stores c become with a block, and what they are after the first n
\* blocks of the chain.
AfterBlock(c, b) == [tx   |-> Numbered(c.tx, HashPlaces(b)),
                     addr |-> Numbered(c.addr, AddrPlaces(b, NoAddr))]

Canon[n \in 0 .. Len(Chain)] ==
    IF n = 0 THEN [tx |-> EmptyStore(TxHash), addr |-> EmptyStore(AddrKey)]
             ELSE AfterBlock(Canon[n - 1], BlockOf(n - 1))

Holds(n, tx, addr) == tx = Canon[n].tx /\ addr = Canon[n].addr

Stages == {"off", "open", "check", "clear_tx", "clear_addr", "stamp", "loop",
           "out", "close_tx", "close_addr", "close_stamp", "plain", "plain_loop"}
Rows == {"t", "a"} \X U32 \cup {"i", "o"} \X U32 \X U32
Stamps == {Absent, <<>>} \cup (U32 \X U32 \X U32)

\* Types of the variables that sessions add to those of Resolve.
PrintedTypes == printed_addrs \in Nat /\ (printed = Absent \/ printed \in Seq(Rows))
MainTypes ==
    /\ TypeOK
    /\ stage \in Stages
    /\ OPTS \in OptionRecord
    /\ txfile \in Store(TxHash) /\ addrfile \in Store(AddrKey)
    /\ stamp \in Stamps /\ buffered \in Stamps \ {Absent}
    /\ file_open \in BOOLEAN /\ trusted \in BOOLEAN /\ truestamp \in BOOLEAN
SessionTypeOK == MainTypes /\ PrintedTypes

\* The loop works on the stores of exactly the blocks before COUNT.bk, with
\* every number as in a single undisturbed run, provided that the stores were
\* empty when they were begun, and that since then every session found a stamp,
\* and one that was made from such stores: no crash, failure or wrong -f in any
\* session before gets a damaged store past set_cache().  The stores that a
\* failed clear() left as they were, and a stamp made from them, are not meant.
TrustedCanonical ==
    (stage = "loop" /\ pc = "idle" /\ (trusted \/ ~OPTS.infile)) =>
        Holds(COUNT.bk, txdb, addrdb)

\* What is let in unchecked, for want of a stamp or because a clear() failed:
\* records may be missing from either store, numbers have gaps, addresses are
\* taken for new ones that are not.  The transactions are safe even then.
DamageSparesTxs == stage \in {"loop", "out"} => TxsSafe

\* A session on trusted stores, which were really empty when they were begun,
\* that stops in order after at least one block,
\* even at a block that failed and was undone, leaves files that the next one
\* can resume from: -f with the next height agrees with the stamp and with the
\* stores.
StopIsResumable ==
    [][(CloseStamp /\ file_open /\ trusted
            /\ (pc = "idle" \/ (pc = "failed" /\ UndoneWhole)))
         => /\ stamp' = <<COUNT.bk, Count(txfile), Count(addrfile)>>
            /\ Holds(COUNT.bk, txfile, addrfile)]_svars

\* The ids of a kind of rows are the first ones, each is there once, in order.
OfKind(rows, kind) == {k \in DOMAIN rows : rows[k][1] = kind}
InOrder(rows, kind, count) ==
    /\ {rows[k][2] : k \in OfKind(rows, kind)} = 0 .. count - 1
    /\ \A k, l \in OfKind(rows, kind) : k < l => rows[k][2] < rows[l][2]

\* The ids that a row names have their rows before it.
Named(row) == CASE row[1] = "i" -> {<<"t", row[2]>>, <<"t", row[3]>>}
                [] row[1] = "o" -> {<<"t", row[2]>>} \cup
                      (IF row[3] = NotFound THEN {} ELSE {<<"a", row[3]>>})
                [] OTHER -> {}
Refers(rows, k) == \A row \in Named(rows[k]) : \E l \in 1 .. k - 1 : rows[l] = row

OneOutput(rows, txcount, addrcount) ==
    /\ InOrder(rows, "t", txcount) /\ InOrder(rows, "a", addrcount)
    /\ \A k \in DOMAIN rows : Refers(rows, k)

\* What all sessions on the same stores have printed, one after another, is one
\* output: each transaction and each address has one row, in the order of the
\* ids, and a row names no transaction or address whose row is not there yet,
\* though ids are given by the stores, being new is decided in one session and
\* the counter of the printer begins again in the next.
OutputRefers ==
    (stage = "loop" /\ pc = "idle" /\ OPTS.infile /\ printed # Absent) =>
        OneOutput(printed, COUNT.tx, COUNT.addr)

\* A session that begins ends.
SessionEnds == stage \in {"open", "plain"} ~> stage = "off"

\* The info option prints a state and leaves it as it is.
InfoChangesNothing ==
    (OPTS.info /\ OPTS.infile /\ stage = "close_tx") =>
        txdb = txfile /\ addrdb = addrfile

\* On empty stores -f can be omitted.
OmittedIsAccepted ==
    (stage = "stamp" /\ OPTS.from = Omitted /\ ~OPTS.info) => StampOK

\* It cannot be that one of the stores is empty and the other is not.
NeverOneEmpty == stage = "check" => ~OneIsEmpty
=============================================================================
