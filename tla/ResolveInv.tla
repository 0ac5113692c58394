----------------------------- MODULE ResolveInv -----------------------------
(***************************************************************************)
(* The inductive invariant behind the safety properties of Resolve.  Its   *)
(* core is that the ids the block in hand keeps (TX_T::id, and             *)
(* VOUT_T::addr_id where addr_is_new is set) are a log of what the block   *)
(* has added to the stores: rolling back reads nothing else.               *)
(***************************************************************************)
EXTENDS Resolve, Numbering

\* The slots S, each with a key and an id, log how db0 became db: every slot
\* stands for one new record, every new record for one slot, and the records
\* of db0 are as they were.
Log(db, db0, S, key, id) ==
    /\ \A s \in S : key[s] \in DOMAIN db
    /\ \A s \in S : db[key[s]] = id[s] /\ id[s] # NotFound
    /\ \A s \in S : db0[key[s]] = NotFound
    /\ \A k \in Keys(db) \ Keys(db0) : \E s \in S : key[s] = k
    /\ \A s, t \in S : key[s] = key[t] => s = t
    /\ \A k \in Keys(db0) : db[k] = db0[k]

HashOf  == [i \in DOMAIN txs |-> HashAt(i)]
AddrOf  == [v \in VoutsOf(txs) |-> AddrAt(v[1], v[2])]

NewTxs   == {i \in DOMAIN txs : txid[i] # NotFound}
NewAddrs == {v \in VoutsOf(txs) : ToUndo(v)}

TxLog   == Log(txdb, txdb0, NewTxs, HashOf, txid)
AddrLog == /\ Log(addrdb, addrdb0, NewAddrs, AddrOf, addr_id)
           /\ \A v \in NewAddrs : v[1] \in NewTxs

\* What holds of the transactions on whatever stores resolving begins with.
TxInv ==
    /\ TypeOK
    /\ COUNT.tx = Cardinality(Keys(txdb))
    /\ TxLog

\* The stores that orderly runs leave: numbered without gaps or repeats.
FitStarts == \A s \in Starts : /\ Dense(s.tx) /\ Unique(s.tx)
                               /\ Dense(s.addr) /\ Unique(s.addr)

\* Gaps are left by rolling back only.
Numbers ==
    /\ IdsUnique
    /\ Dense(txdb0) /\ Dense(addrdb0)
    /\ pc \notin Back \cup {"failed"} => Dense(txdb) /\ Dense(addrdb)

\* Going forward, addr_is_new is set together with the id, and the
\* transaction in hand has the last number given.
ForwardPhase ==
    /\ pc \in Forward => \A v \in VoutsOf(txs) :
                            addr_is_new[v] => addr_id[v] # NotFound
    /\ pc \in {"vin", "vout"} => txid[ti] # NotFound
    /\ pc = "vin" => txid[ti] = COUNT.tx - 1

\* Going back, the outputs that were passed are undone if retvalue says so;
\* if no deletion may fail, so is everything that was passed.
BackPhase ==
    /\ pc \in Back /\ retvalue =>
          \A v \in NewAddrs : v[1] = ti => v[2] >= vi
    /\ "del" \notin Faults =>
          /\ pc \in Back => retvalue
          /\ pc = "bkback" => \A i \in NewTxs : i >= ti
          /\ pc = "failed" => NewTxs = {}

\* The inputs that are behind, each resolved to an older transaction.
Behind(v) ==
    \/ v[1] < ti
    \/ v[1] = ti /\ pc = "vin" /\ v[2] < vi
    \/ v[1] = ti /\ pc = "vout"

InputResolved(v) ==
    InputAt(v[1], v[2]) # Coinbase =>
       /\ txdb[InputAt(v[1], v[2])] # NotFound
       /\ vin_id[v] = txdb[InputAt(v[1], v[2])]
       /\ vin_id[v] < txid[v[1]]

InputsBehind ==
    /\ pc \in Forward \cup {"resolved"} =>
          \A v \in VinsOf(txs) : Behind(v) => InputResolved(v)
    /\ pc = "resolved" => ti \notin DOMAIN txs

\* The inductive invariant, on fit stores: at every step of resolving and of
\* rolling back (BK_T::resolve, BK_T::rollback), the ids kept in the block
\* are the log of its records and the counters agree with the stores.
IInv ==
    /\ TypeOK
    /\ CountsAgree
    /\ TxLog /\ AddrLog
    /\ Numbers
    /\ ForwardPhase /\ BackPhase
    /\ InputsBehind

-----------------------------------------------------------------------------
\* The keys of the block in hand at the places where they are seen, and the
\* places that resolving has come to.
HashKeys  == HashPlaces(txs)
AddrKeys  == AddrPlaces(txs, NoAddr)
TxPlace   == <<ti, IF pc \in {"vin", "vout"} THEN 1 ELSE 0>>
AddrPlace == <<ti, IF pc = "vout" THEN vi ELSE 0>>

BlocksAt(n) == IF n \in Glitch THEN {<<>>} ELSE Chain[n + 1]

\* The block in hand is that of its height (main.cpp's loop).
BlockInHand == pc # "idle" => COUNT.bk < Len(Chain) /\ txs \in BlocksAt(COUNT.bk)

\* To db0, a store has got exactly the keys seen before a place, each under the
\* number it is meant to get (TK::add, TK::get_or_add).
AsSeen(db, db0, key, p) ==
    /\ Keys(db) = Keys(db0) \cup Seen(key, p)
    /\ \A k \in Keys(db) : db[k] = Numbered(db0, key)[k]

TxsAsSeen ==
    /\ AsSeen(txdb, txdb0, HashKeys, TxPlace)
    /\ \A i \in DOMAIN txs : i < ti => txid[i] # NotFound

AddrsAsSeen == AsSeen(addrdb, addrdb0, AddrKeys, AddrPlace)

\* What a failed block leaves behind is numbered so, too.
AsNumbered ==
    pc # "idle" => /\ \A k \in Keys(txdb) : txdb[k] = Numbered(txdb0, HashKeys)[k]
                   /\ \A k \in Keys(addrdb) : addrdb[k] = Numbered(addrdb0, AddrKeys)[k]

\* With IInv, the inductive invariant behind the refinement of the ledger: the
\* numbers are those of the reference, whatever was there before.
NumbersAsSeen ==
    /\ BlockInHand
    /\ pc \in Forward \cup {"resolved"} => TxsAsSeen /\ AddrsAsSeen
    /\ AsNumbered

-----------------------------------------------------------------------------
\* The ids that a block gives are the next ones, in the order of its places:
\* of the transactions,
TxIdsNext ==
    /\ ti <= Len(txs) + 1
    /\ COUNT.tx = Cardinality(Keys(txdb0)) + (IF pc \in {"vin", "vout"} THEN ti ELSE ti - 1)
    /\ \A i \in DOMAIN txs :
          txid[i] # NotFound => txid[i] = Cardinality(Keys(txdb0)) + i - 1

\* of the addresses that are new,
AddrIdsNext ==
    /\ Cardinality(Keys(addrdb0)) <= COUNT.addr
    /\ {addr_id[v] : v \in NewAddrs} = Cardinality(Keys(addrdb0)) .. COUNT.addr - 1
    /\ \A v, w \in NewAddrs : Earlier(v, w) => addr_id[v] < addr_id[w]

\* while an address that is not has the id of one before it.
AddrIdsKnown == \A v \in VoutsOf(txs) : addr_id[v] # NotFound =>
    \/ addr_id[v] < Cardinality(Keys(addrdb0))
    \/ \E w \in NewAddrs : (w = v \/ Earlier(w, v)) /\ addr_id[w] = addr_id[v]

AddrIdsPassed == \A v \in VoutsOf(txs) :
    addr_id[v] # NotFound <=> Earlier(v, AddrPlace) /\ AddrAt(v[1], v[2]) # NoAddr

\* With IInv, what is printed of a block follows from it (out.cpp).
IdsNext == pc \in Forward \cup {"resolved"} =>
    TxIdsNext /\ AddrIdsNext /\ AddrIdsKnown /\ AddrIdsPassed
=============================================================================
