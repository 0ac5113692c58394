----------------------------- MODULE SessionInv -----------------------------
(***************************************************************************)
(* The inductive invariant behind the safety properties of Session.  Its   *)
(* core is Near: while the stores are trusted, whatever is left of them    *)
(* after crashes, failures and half-undone blocks can agree in its counts  *)
(* with what they held at a height only by being just that.                *)
(***************************************************************************)
EXTENDS Session, ResolveInv

BeforeLoop == {"off", "open", "check", "clear_tx", "clear_addr", "stamp",
               "plain", "plain_loop"}
Closing == {"close_tx", "close_addr", "close_stamp"}
WithKv  == {"open", "check", "clear_tx", "clear_addr", "stamp", "loop", "out",
            "close_tx", "close_addr"}

\* How many records a store can have that counts can be trusted of.
Sized(db) == Cardinality(Keys(db)) \in U32

SizesOK == Sized(txdb) /\ Sized(addrdb) /\ Sized(txfile) /\ Sized(addrfile)

\* Where a process stands: no block is in hand before the loop, a stamp is
\* written in the loop of a session on file only.
Phases ==
    /\ stage \in BeforeLoop => pc = "idle" /\ txs = <<>> /\ ~file_open
    /\ stage \in WithKv => OPTS.kv
    /\ stage \in {"plain", "plain_loop"} => ~OPTS.kv
    /\ stage = "out" => pc = "resolved" /\ OPTS.num # 0
    /\ buffered # <<>> => file_open
    /\ file_open => OPTS.kv /\ OPTS.infile /\ truestamp = trusted

\* What set_cache() has made sure of when it comes to the stamp: stores in memory
\* are new, and a session on them begins at the first block; so are those on
\* file with which a session begins there, unless they could not be cleared.
Accepted ==
    /\ stage \in {"check", "clear_tx", "clear_addr", "stamp"} /\ ~OPTS.infile => NewStores
    /\ stage \in {"clear_tx", "clear_addr"} => OPTS.from = 0
    /\ stage = "clear_addr" => txdb = EmptyStore(TxHash) \/ CanFail("clear")
    /\ stage = "stamp" => /\ FromScratch => \/ NewStores
                                            \/ OPTS.from = 0 /\ CanFail("clear")
                          /\ ~OPTS.infile => FromScratch \/ OPTS.info

\* The files of the stores, as far as a process that is gone leaves them.
TxKept   == IF OnFile /\ stage \notin {"off", "open", "close_addr", "close_stamp"}
              THEN txdb ELSE txfile
AddrKept == IF OnFile /\ stage \notin {"off", "open", "close_stamp"}
              THEN addrdb ELSE addrfile

\* The heights that the chain can really be resolved up to.
FitStore(K, db) == db \in Store(K) /\ Sized(db) /\ Dense(db) /\ Unique(db)
Fit == {m \in 0 .. Len(Chain) : /\ FitStore(TxHash, Canon[m].tx)
                                /\ FitStore(AddrKey, Canon[m].addr)}

\* All that small holds, and other keys under later numbers; or less.
Within(db, big)   == \A k \in Keys(db) : big[k] = db[k]
Grown(small, big) ==
    /\ Within(small, big)
    /\ \A k \in Keys(big) \ Keys(small) : big[k] >= Cardinality(Keys(small))
Near(db, canon)   == Within(db, canon) \/ Grown(canon, db)

FitStores == {Canon[m] : m \in Fit}
TrustedNear ==
    trusted => \A c \in FitStores : Near(TxKept, c.tx) /\ Near(AddrKept, c.addr)

\* A true stamp names a height and its counts.
StampOf(m) == <<m, Cardinality(Keys(Canon[m].tx)), Cardinality(Keys(Canon[m].addr))>>
FitStamps == {StampOf(m) : m \in Fit}
TrueStamps == truestamp =>
    {stamp, buffered} \subseteq {Absent, <<>>} \cup FitStamps

\* The loop works on trusted stores, or in memory.
Undisturbed == trusted \/ ~OPTS.infile
AtHeight ==
    /\ COUNT.bk \in Fit
    /\ pc = "idle" => Holds(COUNT.bk, txdb, addrdb)
    /\ pc # "idle" => Holds(COUNT.bk, txdb0, addrdb0)
    /\ pc = "resolved" => COUNT.bk + 1 \in Fit /\ Holds(COUNT.bk + 1, txdb, addrdb)

InLoop == stage \in {"loop", "out"}
AfterLoop == stage \in Closing /\ file_open

LoopInv ==
    /\ InLoop => TxInv /\ BlockInHand
    /\ (InLoop \/ AfterLoop) /\ Undisturbed => IInv /\ NumbersAsSeen /\ AtHeight

\* The stamp that is buffered is that of the height the session has come to.
Buffered ==
    /\ stage = "out" /\ OPTS.infile => file_open /\ buffered = NewStamp
    /\ file_open /\ trusted /\ (stage = "loop" \/ (AfterLoop /\ pc # "resolved")) =>
          buffered = <<COUNT.bk, Cardinality(Keys(Canon[COUNT.bk].tx)),
                       Cardinality(Keys(Canon[COUNT.bk].addr))>>

\* Closing in order, the files get what the stores hold.
ClosedWhole ==
    ("close" \notin SessionFaults /\ file_open) =>
        /\ stage \in {"close_addr", "close_stamp"} => txfile = txdb
        /\ stage = "close_stamp" => addrfile = addrdb

\* The inductive invariant: trust in the stores, which main.cpp and kv.cpp
\* base on a stamp alone, is never misplaced.
SInv ==
    /\ SizesOK /\ Phases /\ Accepted
    /\ TrustedNear /\ TrueStamps
    /\ LoopInv /\ Buffered /\ ClosedWhole

-----------------------------------------------------------------------------
\* Output.  Nothing is lost in an orderly run: no call fails that would leave
\* a store and what was printed apart.
Orderly ==
    /\ {"get", "del"} \cap Faults = {}
    /\ {"clear", "update", "close"} \cap SessionFaults = {}
    /\ MaxCrashes = 0

\* The stores on file, without a block that is in hand.
BlockOnFile == InLoop /\ OPTS.infile /\ pc # "idle"
BaseTx   == IF BlockOnFile THEN txdb0 ELSE TxKept
BaseAddr == IF BlockOnFile THEN addrdb0 ELSE AddrKept
BaseEmpty == BaseTx = EmptyStore(TxHash) /\ BaseAddr = EmptyStore(AddrKey)

\* No session on file works without a stamp unless it begins anew.
AlwaysTrusted ==
    /\ truestamp
    /\ InLoop /\ OPTS.infile => trusted
    /\ ~trusted => BaseEmpty
    /\ stamp = Absent => BaseEmpty /\ ~file_open
    /\ stage = "stamp" => ~OneIsEmpty
    /\ stage = "stamp" => FromScratch \/ OPTS.info \/ Count(txdb) # 0

\* The process ends in order, and no block is in hand when its number is up.
EndsInOrder ==
    /\ crashes = 0 /\ pc # "aborted"
    /\ InLoop /\ pc # "idle" => OPTS.num # 0

\* The stores are cleared, and what was printed of them does not count.
BeginsAnew == OnFile /\ OPTS.from = 0 /\ stage \in {"clear_tx", "clear_addr", "stamp"}

PrintedOfBase == (printed # Absent /\ ~BeginsAnew) =>
    OneOutput(printed, Cardinality(Keys(BaseTx)), Cardinality(Keys(BaseAddr)))

\* The counter of out_addr() does not run ahead of the ids.
PrintedAddrs ==
    /\ stage \in BeforeLoop \ {"off"} => printed_addrs = 0
    /\ InLoop /\ OPTS.infile => printed_addrs <= Cardinality(Keys(BaseAddr))

\* With SInv, the inductive invariant behind OutputRefers: what was printed is
\* of the stores as they are without the block in hand (main.cpp's loop).
OutInv ==
    /\ AlwaysTrusted /\ EndsInOrder
    /\ PrintedOfBase /\ PrintedAddrs
    /\ InLoop => IdsNext
=============================================================================
