------------------------------ MODULE Resolve ------------------------------
(***************************************************************************)
(* Resolving one block after another against the two key-value stores      *)
(* (BK_T, TX_T, VIN_T and VOUT_T ::resolve, and ::rollback on a failure).  *)
(* Every call of a store is a step of its own: a store call is what can    *)
(* fail, and what a crash can fall between.                                *)
(***************************************************************************)
EXTENDS KvStore, Sequences

CONSTANTS
    TxHash,    \* hashes of transactions: keys of TxDB
    AddrKey,   \* as_key() of addresses: keys of AddrDB
    Coinbase,  \* an input whose vout is COINBASE_vout
    NoAddr,    \* an output with no address, or with an incomplete one
    Chain,     \* Chain[n+1]: the blocks the loader may deliver at height n
    Glitch,    \* BK_GLITCH: the heights whose transactions are skipped
    Faults,    \* the store calls that may fail, of {"add", "get", "del"}
    Starts     \* what set_cache() may leave main() with: [bk, tx, addr], the
               \* height to begin at and the two stores

VinSpec  == TxHash \cup {Coinbase}
VoutSpec == AddrKey \cup {NoAddr}

\* The hash is over the inputs: no transaction spends itself.
Tx == {t \in [hash : TxHash, vins : Seq(VinSpec), vouts : Seq(VoutSpec)] :
          \A j \in DOMAIN t.vins : t.vins[j] # t.hash}

Block == Seq(Tx)

ASSUME ResolveAssumption ==
    /\ IsFiniteSet(TxHash)
    /\ IsFiniteSet(AddrKey)
    /\ Coinbase \notin TxHash
    /\ NoAddr \notin AddrKey
    /\ Chain \in Seq(SUBSET Block)
    /\ Glitch \subseteq Nat
    /\ Faults \subseteq {"add", "get", "del"}
    /\ Starts \subseteq [bk : Nat, tx : Store(TxHash), addr : Store(AddrKey)]
    /\ \A s \in Starts : /\ Cardinality(Keys(s.tx)) \in U32
                        /\ Cardinality(Keys(s.addr)) \in U32

VARIABLES
    pc,           \* where the resolving stands
    txdb, addrdb, \* TxDB and AddrDB
    COUNT,        \* the counters: bk, tx, addr
    txs,          \* BK_T::txs, the block in hand
    txid,         \* TX_T::id of each transaction
    vin_id,       \* VIN_T::tx_id of each input
    addr_id,      \* VOUT_T::addr_id of each output
    addr_is_new,  \* VOUT_T::addr_is_new of each output
    ti, vi,       \* loop variables: the transaction, its input or output
    retvalue,     \* retvalue of the TX_T::rollback that is running
    txdb0, addrdb0 \* history: the stores when the block was begun

stores == <<txdb, addrdb>>
block  == <<txs, txid, vin_id, addr_id, addr_is_new>>
begun  == <<txdb0, addrdb0>>
vars   == <<pc, stores, COUNT, block, ti, vi, retvalue, begun>>

\* Where main's loop is between two blocks, where the process ends, and the
\* phases of a block: forward through tx, vin and vout, or back.
Between == {"idle", "resolved"}
Ended   == {"failed", "aborted"}
Forward == {"tx", "vin", "vout"}
Back    == {"txback", "bkback"}
PC      == Between \cup Ended \cup Forward \cup Back

VinsOf(b)  == UNION {{i} \X DOMAIN b[i].vins : i \in DOMAIN b}
VoutsOf(b) == UNION {{i} \X DOMAIN b[i].vouts : i \in DOMAIN b}

HashAt(i)     == txs[i].hash
InputAt(i, j) == txs[i].vins[j]
AddrAt(i, j)  == txs[i].vouts[j]

\* Whether a call of the store may fail for a reason of the engine's own.
MayFail(call) == call \in Faults

-----------------------------------------------------------------------------
\* BK_T and its TX_Ts as their constructors leave them.
NewBlock(b) ==
    /\ txs' = b
    /\ txid' = [i \in DOMAIN b |-> NotFound]
    /\ vin_id' = [v \in VinsOf(b) |-> NotFound]
    /\ addr_id' = [v \in VoutsOf(b) |-> NotFound]
    /\ addr_is_new' = [v \in VoutsOf(b) |-> FALSE]

InitWith(s) ==
    /\ pc = "idle"
    /\ txdb = s.tx /\ addrdb = s.addr
    /\ COUNT = [bk |-> s.bk, tx |-> Count(s.tx), addr |-> Count(s.addr)]
    /\ txs = <<>> /\ txid = <<>>
    /\ vin_id = <<>> /\ addr_id = <<>> /\ addr_is_new = <<>>
    /\ ti = 1 /\ vi = 1 /\ retvalue = TRUE
    /\ txdb0 = txdb /\ addrdb0 = addrdb

Init == \E s \in Starts : InitWith(s)

\* Mutant: the glitch heights are not looked at.
BeginBlockGlitch ==
    /\ pc = "idle"
    /\ COUNT.bk < Len(Chain)
    /\ \E b \in Chain[COUNT.bk + 1] : NewBlock(b)
    /\ pc' = "tx" /\ ti' = 1 /\ vi' = 1
    /\ txdb0' = txdb /\ addrdb0' = addrdb
    /\ UNCHANGED <<stores, COUNT, retvalue>>

\* The loop of main: a block is loaded, built and parsed; a block at a
\* glitch height is built without its transactions.
BeginBlock ==
    /\ pc = "idle"
    /\ COUNT.bk < Len(Chain)
    /\ \E b \in Chain[COUNT.bk + 1] :
          NewBlock(IF COUNT.bk \in Glitch THEN <<>> ELSE b)
    /\ pc' = "tx" /\ ti' = 1 /\ vi' = 1
    /\ txdb0' = txdb /\ addrdb0' = addrdb
    /\ UNCHANGED <<stores, COUNT, retvalue>>

\* A resolve that fails rolls its transaction back: TX_T::rollback begins.
Fail ==
    /\ pc' = "txback" /\ vi' = 1 /\ retvalue' = TRUE

-----------------------------------------------------------------------------
\* TX_T::resolve, up to its inputs: the transaction gets its id.  The code
\* compares the id with the counter; a difference fails the transaction.
AddTx ==
    /\ pc = "tx" /\ ti \in DOMAIN txs
    /\ LET id == AddValue(txdb, HashAt(ti)) IN
          /\ id # NotFound
          /\ txdb' = Put(txdb, HashAt(ti), id)
          /\ txid' = [txid EXCEPT ![ti] = id]
          /\ COUNT' = [COUNT EXCEPT !.tx = Inc(@)]
          /\ IF id = Dec(COUNT'.tx)
               THEN pc' = "vin" /\ vi' = 1 /\ UNCHANGED retvalue
               ELSE Fail
    /\ UNCHANGED <<addrdb, txs, vin_id, addr_id, addr_is_new, ti, begun>>

\* TxDB->add() answers NOT_FOUND: the hash is there (a duplicate), the store
\* is full, or the engine failed.
RefuseTx ==
    /\ pc = "tx" /\ ti \in DOMAIN txs
    /\ AddValue(txdb, HashAt(ti)) = NotFound \/ MayFail("add")
    /\ Fail
    /\ UNCHANGED <<stores, COUNT, block, ti, begun>>

\* VIN_T::resolve of an input that spends nothing.
VinCoinbase ==
    /\ pc = "vin" /\ vi \in DOMAIN txs[ti].vins
    /\ InputAt(ti, vi) = Coinbase
    /\ vi' = vi + 1
    /\ UNCHANGED <<pc, stores, COUNT, block, ti, retvalue, begun>>

\* Mutant: what get() answers is taken without a look.
VinUnchecked ==
    /\ pc = "vin" /\ vi \in DOMAIN txs[ti].vins
    /\ InputAt(ti, vi) # Coinbase
    /\ vin_id' = [vin_id EXCEPT ![<<ti, vi>>] = txdb[InputAt(ti, vi)]]
    /\ vi' = vi + 1
    /\ UNCHANGED <<pc, stores, COUNT, txs, txid, addr_id, addr_is_new, ti,
                   retvalue, begun>>

\* VIN_T::resolve of an input whose transaction is in the store.
VinFound ==
    /\ pc = "vin" /\ vi \in DOMAIN txs[ti].vins
    /\ InputAt(ti, vi) # Coinbase
    /\ txdb[InputAt(ti, vi)] # NotFound
    /\ vin_id' = [vin_id EXCEPT ![<<ti, vi>>] = txdb[InputAt(ti, vi)]]
    /\ vi' = vi + 1
    /\ UNCHANGED <<pc, stores, COUNT, txs, txid, addr_id, addr_is_new, ti,
                   retvalue, begun>>

\* VIN_T::resolve of an input whose transaction is not in the store.
VinNotFound ==
    /\ pc = "vin" /\ vi \in DOMAIN txs[ti].vins
    /\ InputAt(ti, vi) # Coinbase
    /\ txdb[InputAt(ti, vi)] = NotFound
    /\ Fail
    /\ UNCHANGED <<stores, COUNT, block, ti, begun>>

\* TxDB->get() throws on an error of the engine.  Nobody catches it: the
\* process aborts, and nothing is rolled back.
VinThrows ==
    /\ pc = "vin" /\ vi \in DOMAIN txs[ti].vins
    /\ InputAt(ti, vi) # Coinbase
    /\ MayFail("get")
    /\ pc' = "aborted"
    /\ UNCHANGED <<stores, COUNT, block, ti, vi, retvalue, begun>>

VinsDone ==
    /\ pc = "vin" /\ vi \notin DOMAIN txs[ti].vins
    /\ pc' = "vout" /\ vi' = 1
    /\ UNCHANGED <<stores, COUNT, block, ti, retvalue, begun>>

\* VOUT_T::resolve of an output without a full address.
VoutNoAddr ==
    /\ pc = "vout" /\ vi \in DOMAIN txs[ti].vouts
    /\ AddrAt(ti, vi) = NoAddr
    /\ vi' = vi + 1
    /\ UNCHANGED <<pc, stores, COUNT, block, ti, retvalue, begun>>

\* VOUT_T::resolve of an output whose address gets a number below the
\* counter: the address was seen before.
VoutKnown ==
    /\ pc = "vout" /\ vi \in DOMAIN txs[ti].vouts
    /\ AddrAt(ti, vi) # NoAddr
    /\ LET id == GetOrAddValue(addrdb, AddrAt(ti, vi)) IN
          /\ id # NotFound
          /\ id < COUNT.addr
          /\ addrdb' = Put(addrdb, AddrAt(ti, vi), id)
          /\ addr_id' = [addr_id EXCEPT ![<<ti, vi>>] = id]
    /\ vi' = vi + 1
    /\ UNCHANGED <<pc, txdb, COUNT, txs, txid, vin_id, addr_is_new, ti,
                   retvalue, begun>>

\* VOUT_T::resolve of an output whose address gets a number not below the
\* counter: it is taken for a new one.
VoutNew ==
    /\ pc = "vout" /\ vi \in DOMAIN txs[ti].vouts
    /\ AddrAt(ti, vi) # NoAddr
    /\ LET id == GetOrAddValue(addrdb, AddrAt(ti, vi)) IN
          /\ id # NotFound
          /\ id >= COUNT.addr
          /\ id = Dec(Inc(COUNT.addr))
          /\ addrdb' = Put(addrdb, AddrAt(ti, vi), id)
          /\ addr_id' = [addr_id EXCEPT ![<<ti, vi>>] = id]
    /\ addr_is_new' = [addr_is_new EXCEPT ![<<ti, vi>>] = TRUE]
    /\ COUNT' = [COUNT EXCEPT !.addr = Inc(@)]
    /\ vi' = vi + 1
    /\ UNCHANGED <<pc, txdb, txs, txid, vin_id, ti, retvalue, begun>>

\* VOUT_T::resolve of an output whose number is above the expected one: the
\* output rolls itself back, which deletes the record it found, and the
\* transaction fails.  Only a store with gaps holds such a number.
VoutMismatch ==
    /\ pc = "vout" /\ vi \in DOMAIN txs[ti].vouts
    /\ AddrAt(ti, vi) # NoAddr
    /\ LET id == GetOrAddValue(addrdb, AddrAt(ti, vi)) IN
          /\ id # NotFound
          /\ id >= COUNT.addr
          /\ id # Dec(Inc(COUNT.addr))
          /\ \E deleted \in IF MayFail("del") THEN BOOLEAN ELSE {TRUE} :
                IF deleted
                  THEN /\ addrdb' = Deleted(addrdb, AddrAt(ti, vi))
                       /\ UNCHANGED <<COUNT, addr_id>>
                  ELSE /\ addrdb' = Put(addrdb, AddrAt(ti, vi), id)
                       /\ addr_id' = [addr_id EXCEPT ![<<ti, vi>>] = id]
                       /\ COUNT' = [COUNT EXCEPT !.addr = Inc(@)]
    /\ addr_is_new' = [addr_is_new EXCEPT ![<<ti, vi>>] = TRUE]
    /\ Fail
    /\ UNCHANGED <<txdb, txs, txid, vin_id, ti, begun>>

\* The branch of VOUT_T::resolve for an address that is taken for a new one.
VoutTakenForNew ==
    /\ pc = "vout" /\ vi \in DOMAIN txs[ti].vouts
    /\ VoutNew \/ VoutMismatch

\* AddrDB->get_or_add() answers NOT_FOUND: the store is full or the engine
\* failed.
VoutRefused ==
    /\ pc = "vout" /\ vi \in DOMAIN txs[ti].vouts
    /\ AddrAt(ti, vi) # NoAddr
    /\ \/ GetOrAddValue(addrdb, AddrAt(ti, vi)) = NotFound
       \/ MayFail("add")
    /\ Fail
    /\ UNCHANGED <<stores, COUNT, block, ti, begun>>

VoutsDone ==
    /\ pc = "vout" /\ vi \notin DOMAIN txs[ti].vouts
    /\ pc' = "tx" /\ ti' = ti + 1 /\ vi' = 1
    /\ UNCHANGED <<stores, COUNT, block, retvalue, begun>>

BlockResolved ==
    /\ pc = "tx" /\ ti \notin DOMAIN txs
    /\ pc' = "resolved"
    /\ UNCHANGED <<stores, COUNT, block, ti, vi, retvalue, begun>>

-----------------------------------------------------------------------------
\* TX_T::rollback is at one of the outputs of a transaction that has an id.
AtVout ==
    /\ pc \in Back /\ ti \in DOMAIN txs
    /\ txid[ti] # NotFound
    /\ vi \in DOMAIN txs[ti].vouts

\* Mutants: a known address is deleted too; the first output is left out.
ToUndoKnown(v)      == addr_id[v] # NotFound
ToUndoFromSecond(v) == addr_id[v] # NotFound /\ addr_is_new[v] /\ v[2] > 1

ToUndo(v) == addr_id[v] # NotFound /\ addr_is_new[v]

\* Mutant: the loop variable is not advanced.
SkipVoutStays ==
    /\ AtVout
    /\ ~ToUndo(<<ti, vi>>)
    /\ UNCHANGED vars

\* VOUT_T::rollback of an output that added no record.
SkipVout ==
    /\ AtVout
    /\ ~ToUndo(<<ti, vi>>)
    /\ vi' = vi + 1
    /\ UNCHANGED <<pc, stores, COUNT, block, ti, retvalue, begun>>

\* Mutant: the output keeps its id.
DelAddrIdStays ==
    /\ AtVout
    /\ ToUndo(<<ti, vi>>)
    /\ Deletable(addrdb, AddrAt(ti, vi))
    /\ addrdb' = Deleted(addrdb, AddrAt(ti, vi))
    /\ COUNT' = [COUNT EXCEPT !.addr = Dec(@)]
    /\ vi' = vi + 1
    /\ UNCHANGED <<pc, txdb, block, ti, retvalue, begun>>

\* VOUT_T::rollback: the record the output added is deleted.
DelAddr ==
    /\ AtVout
    /\ ToUndo(<<ti, vi>>)
    /\ Deletable(addrdb, AddrAt(ti, vi))
    /\ addrdb' = Deleted(addrdb, AddrAt(ti, vi))
    /\ addr_id' = [addr_id EXCEPT ![<<ti, vi>>] = NotFound]
    /\ COUNT' = [COUNT EXCEPT !.addr = Dec(@)]
    /\ vi' = vi + 1
    /\ UNCHANGED <<pc, txdb, txs, txid, vin_id, addr_is_new, ti, retvalue,
                   begun>>

\* Mutant: the failure is not remembered.
DelAddrFailsUnseen ==
    /\ AtVout
    /\ ToUndo(<<ti, vi>>)
    /\ ~Deletable(addrdb, AddrAt(ti, vi)) \/ MayFail("del")
    /\ vi' = vi + 1
    /\ UNCHANGED <<pc, stores, COUNT, block, ti, retvalue, begun>>

\* VOUT_T::rollback: AddrDB->del() fails; the other outputs are still tried.
DelAddrFails ==
    /\ AtVout
    /\ ToUndo(<<ti, vi>>)
    /\ ~Deletable(addrdb, AddrAt(ti, vi)) \/ MayFail("del")
    /\ retvalue' = FALSE
    /\ vi' = vi + 1
    /\ UNCHANGED <<pc, stores, COUNT, block, ti, begun>>

\* Mutant: BK_T::rollback begins at the second transaction.
RollbackFromSecond ==
    /\ pc' = "bkback" /\ vi' = 1 /\ retvalue' = TRUE
    /\ ti' = IF pc = "txback" THEN 2 ELSE ti + 1

\* Mutant: BK_T::rollback goes from the last transaction to the first, by an
\* index that runs past it.
RollbackBackwards ==
    /\ pc' = "bkback" /\ vi' = 1 /\ retvalue' = TRUE
    /\ ti' = IF pc = "txback" THEN Len(txs) ELSE ti - 1

\* TX_T::rollback returns.  The one that TX_T::resolve called is followed by
\* BK_T::rollback, which goes through the transactions from the first on.
RollbackReturns ==
    /\ pc' = "bkback" /\ vi' = 1 /\ retvalue' = TRUE
    /\ ti' = IF pc = "txback" THEN 1 ELSE ti + 1

\* TX_T::rollback is past the outputs of a transaction that has an id.
PastVouts ==
    /\ pc \in Back /\ ti \in DOMAIN txs
    /\ txid[ti] # NotFound
    /\ vi \notin DOMAIN txs[ti].vouts

\* A transaction that has no id is skipped.
SkipTx ==
    /\ pc \in Back /\ ti \in DOMAIN txs
    /\ txid[ti] = NotFound
    /\ RollbackReturns
    /\ UNCHANGED <<stores, COUNT, block, begun>>

\* Every output is rolled back: so is the transaction.
DelTx ==
    /\ PastVouts
    /\ retvalue
    /\ Deletable(txdb, HashAt(ti))
    /\ txdb' = Deleted(txdb, HashAt(ti))
    /\ txid' = [txid EXCEPT ![ti] = NotFound]
    /\ COUNT' = [COUNT EXCEPT !.tx = Dec(@)]
    /\ RollbackReturns
    /\ UNCHANGED <<addrdb, txs, vin_id, addr_id, addr_is_new, begun>>

\* Mutant: the transaction loses its id though its record stays.
DelTxFailsIdGone ==
    /\ PastVouts
    /\ retvalue
    /\ ~Deletable(txdb, HashAt(ti)) \/ MayFail("del")
    /\ txid' = [txid EXCEPT ![ti] = NotFound]
    /\ RollbackReturns
    /\ UNCHANGED <<stores, COUNT, txs, vin_id, addr_id, addr_is_new, begun>>

\* TxDB->del() fails.
DelTxFails ==
    /\ PastVouts
    /\ retvalue
    /\ ~Deletable(txdb, HashAt(ti)) \/ MayFail("del")
    /\ RollbackReturns
    /\ UNCHANGED <<stores, COUNT, block, begun>>

\* An output is not rolled back: the record of its transaction is kept.
KeepTx ==
    /\ PastVouts
    /\ ~retvalue
    /\ RollbackReturns
    /\ UNCHANGED <<stores, COUNT, block, begun>>

\* BK_T::rollback returns; BK_T::resolve answers false and main's loop ends.
BlockFailed ==
    /\ pc = "bkback" /\ ti \notin DOMAIN txs
    /\ pc' = "failed"
    /\ UNCHANGED <<stores, COUNT, block, ti, vi, retvalue, begun>>

ResolveForward ==
    \/ AddTx \/ RefuseTx
    \/ VinCoinbase \/ VinFound \/ VinNotFound \/ VinThrows \/ VinsDone
    \/ VoutNoAddr \/ VoutKnown \/ VoutTakenForNew \/ VoutRefused
    \/ VoutsDone
    \/ BlockResolved

Rollback ==
    \/ SkipVout \/ DelAddr \/ DelAddrFails
    \/ SkipTx \/ DelTx \/ DelTxFails \/ KeepTx
    \/ BlockFailed

\* The loop of main goes on to the next height.
NextBlock ==
    /\ pc = "resolved"
    /\ pc' = "idle"
    /\ COUNT' = [COUNT EXCEPT !.bk = @ + 1]
    /\ UNCHANGED <<stores, block, ti, vi, retvalue, begun>>

Next == BeginBlock \/ ResolveForward \/ Rollback \/ NextBlock

Spec == Init /\ [][Next]_vars

\* The code is sequential and no call blocks: it takes its next step.
FairSpec == Spec /\ WF_vars(Next)

-----------------------------------------------------------------------------
\* Types of the variables.
TypeOK ==
    /\ pc \in PC
    /\ txdb \in Store(TxHash) /\ addrdb \in Store(AddrKey)
    /\ txdb0 \in Store(TxHash) /\ addrdb0 \in Store(AddrKey)
    /\ COUNT \in [bk : Nat, tx : U32, addr : U32]
    /\ txs \in Block
    /\ txid \in [DOMAIN txs -> U32]
    /\ vin_id \in [VinsOf(txs) -> U32]
    /\ addr_id \in [VoutsOf(txs) -> U32]
    /\ addr_is_new \in [VoutsOf(txs) -> BOOLEAN]
    /\ ti \in Nat \ {0} /\ vi \in Nat \ {0}
    /\ pc \in {"vin", "vout"} => ti \in DOMAIN txs
    /\ retvalue \in BOOLEAN

\* COUNT.tx and COUNT.addr, which are counted up and down beside the stores
\* and decide what is new, are the numbers of records at every step.
CountsAgree ==
    /\ COUNT.tx = Cardinality(Keys(txdb))
    /\ COUNT.addr = Cardinality(Keys(addrdb))

\* No number is ever given to two keys, though every number is the count of
\* the store at that moment and rolling back deletes from the front.
IdsUnique == Unique(txdb) /\ Unique(addrdb)

UndoneWhole == \A i \in DOMAIN txs : txid[i] = NotFound

\* Except while a block is being undone, and after it could not be, the
\* numbers in use are 0 to n-1: the next one is free.
NoGaps ==
    \/ pc \in Back
    \/ pc = "failed" /\ ~UndoneWhole
    \/ Dense(txdb) /\ Dense(addrdb)

\* A block that failed, and each of whose transactions says it is rolled
\* back, has left no trace in the stores nor in the counters.
RollbackRestores ==
    (pc = "failed" /\ UndoneWhole)
       => /\ txdb = txdb0 /\ addrdb = addrdb0
          /\ COUNT.tx = Cardinality(Keys(txdb0))
          /\ COUNT.addr = Cardinality(Keys(addrdb0))

\* If no deletion fails for a reason of the engine's own, none fails at all
\* and every failed block is undone whole.
RollbackSucceeds == ("del" \notin Faults /\ pc = "failed") => UndoneWhole

\* Whatever happens to a block, a record of the blocks before it stays, with
\* its number: rolling back takes away only what the block itself added.
KeepsCommitted ==
    /\ \A k \in Keys(txdb0) : txdb[k] = txdb0[k]
    /\ \A k \in Keys(addrdb0) : addrdb[k] = addrdb0[k]

\* Even on stores with gaps, where addresses are taken for new ones that are
\* not and a rollback deletes records of earlier blocks, the transactions
\* are safe: they are counted rightly, none of an earlier block is lost, and
\* a failed block that is undone whole leaves none.
TxsSafe ==
    /\ COUNT.tx = Cardinality(Keys(txdb))
    /\ \A k \in Keys(txdb0) : txdb[k] = txdb0[k]
    /\ (pc = "failed" /\ UndoneWhole) => txdb = txdb0

\* An address that a block added is in the store only together with a
\* transaction of the block that pays to it, even when undoing fails midway.
NoOrphanAddr ==
    \A k \in Keys(addrdb) \ Keys(addrdb0) :
       \E v \in VoutsOf(txs) :
          AddrAt(v[1], v[2]) = k /\ txdb[HashAt(v[1])] # NotFound

\* In a resolved block every input names the record of the transaction it
\* spends, and that transaction is older than the spender.
SpendsEarlier ==
    pc = "resolved" =>
       \A v \in VinsOf(txs) : InputAt(v[1], v[2]) # Coinbase =>
          /\ vin_id[v] = txdb[InputAt(v[1], v[2])]
          /\ vin_id[v] < txid[v[1]]

\* A block that is begun ends: resolved, failed or in an abort.
BlockEnds == pc = "tx" ~> pc \in {"resolved"} \cup Ended
=============================================================================
