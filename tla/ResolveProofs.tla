--------------------------- MODULE ResolveProofs ---------------------------
(***************************************************************************)
(* Theorems about Resolve, for all sets of transactions and addresses, all *)
(* chains, all faults and every greatest uint32: types, and safety.  IInv  *)
(* is shown to be inductive, one lemma per conjunct, and every safety      *)
(* property of Resolve to follow from it.                                  *)
(***************************************************************************)
EXTENDS ResolveInv, FiniteSetTheorems, TLAPS

-----------------------------------------------------------------------------
\* What one call does to a store: lemmas for every finite set of keys.

\* The records of a store can be counted, and the count is a uint32.
LEMMA CountType ==
    ASSUME NEW K, IsFiniteSet(K), NEW db \in Store(K)
    PROVE  /\ IsFiniteSet(Keys(db))
           /\ Cardinality(Keys(db)) \in Nat
           /\ Count(db) \in U32
<1>1. Keys(db) \subseteq K
  BY DEF Store, Keys
<1>2. IsFiniteSet(Keys(db)) /\ Cardinality(Keys(db)) \in Nat
  BY <1>1, FS_Subset, FS_CardinalityType
<1>3. Count(db) \in U32
  BY <1>2, MaxU32Assumption DEF Count, ToU32, U32
<1> QED
  BY <1>2, <1>3

\* Up to MaxU32 records, nothing is cut off.
LEMMA CountExact ==
    ASSUME NEW K, IsFiniteSet(K), NEW db \in Store(K),
           Cardinality(Keys(db)) \in U32
    PROVE  Count(db) = Cardinality(Keys(db))
BY DEF Count, ToU32

\* A new record makes the store one larger.
LEMMA PutNew ==
    ASSUME NEW K, IsFiniteSet(K), NEW db \in Store(K), NEW k \in K,
           db[k] = NotFound, NEW v \in U32, v # NotFound
    PROVE  /\ Put(db, k, v) \in Store(K)
           /\ Keys(Put(db, k, v)) = Keys(db) \cup {k}
           /\ Cardinality(Keys(Put(db, k, v))) = Cardinality(Keys(db)) + 1
<1> DEFINE new == Put(db, k, v)
<1>1. new \in Store(K) /\ new = [db EXCEPT ![k] = v] /\ DOMAIN db = K
  BY DEF Put, Store
<1>2. Keys(new) = Keys(db) \cup {k}
  BY <1>1 DEF Keys, Store
<1>3. k \notin Keys(db)
  BY DEF Keys
<1> QED
  BY <1>1, <1>2, <1>3, CountType, FS_AddElement

\* A deletion makes the store one smaller.
LEMMA DeletedOne ==
    ASSUME NEW K, IsFiniteSet(K), NEW db \in Store(K), NEW k \in K,
           db[k] # NotFound
    PROVE  /\ Deleted(db, k) \in Store(K)
           /\ Keys(Deleted(db, k)) = Keys(db) \ {k}
           /\ Cardinality(Keys(db)) \in Nat \ {0}
           /\ Cardinality(Keys(Deleted(db, k))) = Cardinality(Keys(db)) - 1
<1> DEFINE new == Deleted(db, k)
<1>1. new \in Store(K) /\ new = [db EXCEPT ![k] = NotFound] /\ DOMAIN db = K
  BY MaxU32Assumption DEF Deleted, Store, NotFound, U32
<1>2. Keys(new) = Keys(db) \ {k}
  BY <1>1 DEF Keys, Store
<1>3. k \in Keys(db)
  BY <1>1 DEF Keys
<1>4. Cardinality(Keys(new)) = Cardinality(Keys(db)) - 1
  BY <1>2, <1>3, CountType, FS_RemoveElement
<1>5. Cardinality(Keys(new)) \in Nat /\ Cardinality(Keys(db)) \in Nat
  BY <1>1, CountType
<1> HIDE DEF new
<1>6. Cardinality(Keys(db)) # 0
  BY <1>4, <1>5
<1> QED
  BY <1>1, <1>2, <1>4, <1>5, <1>6 DEF new

\* In a dense store the count is a number nobody has, and giving it to a new
\* key keeps the store dense and the numbers unique.
LEMMA PutNext ==
    ASSUME NEW K, IsFiniteSet(K), NEW db \in Store(K), NEW k \in K,
           db[k] = NotFound, Dense(db), Unique(db),
           Cardinality(Keys(db)) \in U32, Cardinality(Keys(db)) # NotFound
    PROVE  LET new == Put(db, k, Cardinality(Keys(db)))
           IN  Dense(new) /\ Unique(new)
<1> DEFINE n == Cardinality(Keys(db))
           new == Put(db, k, n)
<1>1. /\ Keys(new) = Keys(db) \cup {k}
      /\ Cardinality(Keys(new)) = n + 1
      /\ n \in Nat
  BY PutNew, CountType
<1>2. new[k] = n /\ \A l \in Keys(db) : l # k /\ new[l] = db[l]
  BY DEF Put, Store, Keys
<1>3. \A l \in Keys(db) : db[l] \in 0 .. n - 1
  BY DEF Dense
<1>4. {new[l] : l \in Keys(new)} = {db[l] : l \in Keys(db)} \cup {n}
  BY <1>1, <1>2
<1>5. {new[l] : l \in Keys(new)} = (0 .. n - 1) \cup {n}
  BY <1>4 DEF Dense
<1>6. (0 .. n - 1) \cup {n} = 0 .. (n + 1) - 1
  BY <1>1
<1>7. Dense(new)
  BY <1>1, <1>5, <1>6 DEF Dense
<1>8. Unique(new)
  BY <1>1, <1>2, <1>3 DEF Unique
<1> QED
  BY <1>7, <1>8

\* Deleting keeps the numbers unique.
LEMMA DeletedUnique ==
    ASSUME NEW K, IsFiniteSet(K), NEW db \in Store(K), NEW k \in K,
           db[k] # NotFound, Unique(db)
    PROVE  Unique(Deleted(db, k))
<1>1. Keys(Deleted(db, k)) = Keys(db) \ {k}
  BY DeletedOne
<1>2. \A l \in Keys(db) \ {k} : Deleted(db, k)[l] = db[l]
  BY DEF Deleted, Store, Keys
<1> QED
  BY <1>1, <1>2 DEF Unique

\* An empty store is dense and its numbers are unique.
LEMMA EmptyStoreFacts ==
    ASSUME NEW K
    PROVE  LET db == EmptyStore(K)
           IN  /\ db \in Store(K)
               /\ Cardinality(Keys(db)) = 0
               /\ Dense(db) /\ Unique(db)
<1> DEFINE db == EmptyStore(K)
<1>1. db \in Store(K) /\ Keys(db) = {}
  BY MaxU32Assumption DEF EmptyStore, Store, Keys, NotFound, U32
<1>2. Cardinality(Keys(db)) = 0
  BY <1>1, FS_EmptySet
<1>3. {db[k] : k \in Keys(db)} = {}
  BY <1>1
<1>4. 0 .. 0 - 1 = {}
  OBVIOUS
<1> QED
  BY <1>1, <1>2, <1>3, <1>4 DEF Dense, Unique

-----------------------------------------------------------------------------
\* The places of the outputs, and of the inputs, of a block.
LEMMA VoutPlace ==
    ASSUME NEW b \in Block
    PROVE  /\ \A i \in DOMAIN b : \A j \in DOMAIN b[i].vouts :
                 <<i, j>> \in VoutsOf(b)
           /\ \A v \in VoutsOf(b) :
                 /\ v = <<v[1], v[2]>>
                 /\ v[1] \in DOMAIN b
                 /\ v[2] \in DOMAIN b[v[1]].vouts
BY DEF VoutsOf

\* The same of the inputs.
LEMMA VinPlace ==
    ASSUME NEW b \in Block
    PROVE  /\ \A i \in DOMAIN b : \A j \in DOMAIN b[i].vins :
                 <<i, j>> \in VinsOf(b)
           /\ \A v \in VinsOf(b) :
                 /\ v = <<v[1], v[2]>>
                 /\ v[1] \in DOMAIN b
                 /\ v[2] \in DOMAIN b[v[1]].vins
BY DEF VinsOf

\* What a block is made of.
LEMMA BlockParts ==
    ASSUME NEW b \in Block, NEW i \in DOMAIN b
    PROVE  /\ i \in Nat
           /\ b[i].hash \in TxHash
           /\ \A j \in DOMAIN b[i].vins : b[i].vins[j] \in VinSpec
           /\ \A j \in DOMAIN b[i].vouts : b[i].vouts[j] \in VoutSpec
           /\ \E n \in Nat : DOMAIN b[i].vouts = 1 .. n
           /\ \E n \in Nat : DOMAIN b = 1 .. n
<1>1. b \in Seq(Tx)
  BY DEF Block
<1>2. b[i] \in [hash : TxHash, vins : Seq(VinSpec), vouts : Seq(VoutSpec)]
  BY <1>1 DEF Tx
<1>3. b[i].hash \in TxHash /\ b[i].vins \in Seq(VinSpec) /\ b[i].vouts \in Seq(VoutSpec)
  BY <1>2
<1>4. DOMAIN b = 1 .. Len(b) /\ Len(b) \in Nat
  BY <1>1
<1>5. DOMAIN b[i].vouts = 1 .. Len(b[i].vouts) /\ Len(b[i].vouts) \in Nat
  BY <1>3
<1>6. i \in Nat
  BY <1>4
<1>9. \E n \in Nat : DOMAIN b = 1 .. n
  BY <1>4
<1>7. \E n \in Nat : DOMAIN b[i].vouts = 1 .. n
  BY <1>5
<1>8. /\ \A j \in DOMAIN b[i].vins : b[i].vins[j] \in VinSpec
      /\ \A j \in DOMAIN b[i].vouts : b[i].vouts[j] \in VoutSpec
  BY <1>3
<1> QED
  BY <1>3, <1>6, <1>7, <1>8, <1>9

\* The arithmetic of uint32 stays within it.
LEMMA U32Facts ==
    /\ NotFound \in U32 /\ 0 \in U32
    /\ \A n \in U32 : Inc(n) \in U32 /\ Dec(n) \in U32
BY MaxU32Assumption DEF NotFound, U32, Inc, Dec

\* What the calls of a store answer, and leave, is of its type.
LEMMA StoreTypes ==
    ASSUME NEW K, IsFiniteSet(K), NEW db \in Store(K), NEW k \in K
    PROVE  /\ db[k] \in U32
           /\ AddValue(db, k) \in U32 /\ GetOrAddValue(db, k) \in U32
           /\ \A v \in U32 : Put(db, k, v) \in Store(K)
           /\ Deleted(db, k) \in Store(K)
<1>1. db[k] \in U32 /\ Count(db) \in U32
  BY CountType DEF Store
<1>2. AddValue(db, k) \in U32 /\ GetOrAddValue(db, k) \in U32
  BY <1>1, U32Facts DEF AddValue, GetOrAddValue
<1>3. \A v \in U32 : [db EXCEPT ![k] = v] \in Store(K)
  BY DEF Store
<1> QED
  BY <1>1, <1>2, <1>3, U32Facts DEF Put, Deleted

-----------------------------------------------------------------------------
\* Type correctness.
LEMMA InitTypeOK == Init => TypeOK
<1> SUFFICES ASSUME NEW s \in Starts, InitWith(s) PROVE TypeOK
  BY DEF Init
<1>1. <<>> \in Block /\ DOMAIN <<>> = {}
  BY DEF Block
<1>2. VinsOf(<<>>) = {} /\ VoutsOf(<<>>) = {}
  BY DEF VinsOf, VoutsOf
<1>3. s.bk \in Nat /\ s.tx \in Store(TxHash) /\ s.addr \in Store(AddrKey)
  BY ResolveAssumption
<1>4. Count(s.tx) \in U32 /\ Count(s.addr) \in U32
  BY <1>3, CountType, ResolveAssumption
<1> QED
  BY <1>1, <1>2, <1>3, <1>4 DEF InitWith, TypeOK, PC, Between

\* Every step keeps the types.
LEMMA StepTypeOK == TypeOK /\ [Next]_vars => TypeOK'
<1> SUFFICES ASSUME TypeOK, [Next]_vars PROVE TypeOK'
  OBVIOUS
<1> USE DEF PC, Between, Ended, Forward, Back
<1>0. CASE UNCHANGED vars
  BY <1>0 DEF TypeOK, vars, stores, block, begun
<1>1. CASE BeginBlock
  <2>1. PICK b \in Block : NewBlock(b)
    <3>1. <<>> \in Block
      BY DEF Block
    <3>2. COUNT.bk + 1 \in DOMAIN Chain
      BY <1>1, ResolveAssumption DEF BeginBlock, TypeOK
    <3>3. Chain[COUNT.bk + 1] \subseteq Block
      BY <3>2, ResolveAssumption
    <3> QED
      BY <1>1, <3>1, <3>3 DEF BeginBlock
  <2> QED
    BY <1>1, <2>1, U32Facts DEF BeginBlock, NewBlock, TypeOK, stores
<1>2. CASE AddTx
  <2>1. HashAt(ti) \in TxHash /\ ti \in DOMAIN txs
    BY <1>2, BlockParts DEF AddTx, TypeOK, HashAt
  <2>2. AddValue(txdb, HashAt(ti)) \in U32
    BY <2>1, StoreTypes, ResolveAssumption DEF TypeOK
  <2>3. txdb' \in Store(TxHash)
    BY <1>2, <2>1, <2>2, StoreTypes, ResolveAssumption DEF AddTx, TypeOK
  <2>4. txid' \in [DOMAIN txs -> U32] /\ COUNT' \in [bk : Nat, tx : U32, addr : U32]
    BY <1>2, <2>2, U32Facts DEF AddTx, TypeOK
  <2>5. /\ pc' \in PC /\ vi' \in Nat \ {0} /\ retvalue' \in BOOLEAN
    <3>1. \/ pc' = "vin" /\ vi' = 1 /\ UNCHANGED retvalue
          \/ Fail
      BY <1>2 DEF AddTx
    <3>2. retvalue' \in BOOLEAN
      BY <3>1, Zenon DEF Fail, TypeOK
    <3>3. pc' \in PC /\ vi' \in Nat \ {0}
      BY <3>1 DEF Fail, TypeOK
    <3> QED
      BY <3>2, <3>3
  <2>6. UNCHANGED <<addrdb, txs, vin_id, addr_id, addr_is_new, ti, txdb0, addrdb0>>
    BY <1>2 DEF AddTx, begun
  <2> QED
    BY <2>1, <2>3, <2>4, <2>5, <2>6 DEF TypeOK
<1>3. CASE RefuseTx
  BY <1>3 DEF RefuseTx, Fail, TypeOK, stores, block, begun
<1>4. CASE VinCoinbase
  BY <1>4 DEF VinCoinbase, TypeOK, stores, block, begun
<1>5. CASE VinFound
  <2>1. txdb[InputAt(ti, vi)] \in U32
    <3>1. ti \in DOMAIN txs /\ vi \in DOMAIN txs[ti].vins
      BY <1>5 DEF VinFound, TypeOK
    <3>2. InputAt(ti, vi) \in TxHash
      BY <1>5, <3>1, BlockParts DEF VinFound, InputAt, VinSpec, TypeOK
    <3> QED
      BY <3>2 DEF Store, TypeOK
  <2>2. vin_id' \in [VinsOf(txs) -> U32]
    BY <1>5, <2>1 DEF VinFound, TypeOK
  <2> QED
    BY <1>5, <2>2 DEF VinFound, TypeOK, stores, begun
<1>6. CASE VinNotFound
  BY <1>6 DEF VinNotFound, Fail, TypeOK, stores, block, begun
<1>7. CASE VinThrows
  BY <1>7 DEF VinThrows, TypeOK, stores, block, begun
<1>8. CASE VinsDone
  BY <1>8 DEF VinsDone, TypeOK, stores, block, begun
<1>9. CASE VoutNoAddr
  BY <1>9 DEF VoutNoAddr, TypeOK, stores, block, begun
<1>10. CASE VoutKnown \/ VoutNew \/ VoutMismatch
  <2>1. AddrAt(ti, vi) \in AddrKey
    <3>1. ti \in DOMAIN txs /\ vi \in DOMAIN txs[ti].vouts /\ AddrAt(ti, vi) # NoAddr
      BY <1>10 DEF VoutKnown, VoutNew, VoutMismatch, TypeOK
    <3> QED
      BY <3>1, BlockParts DEF AddrAt, VoutSpec, TypeOK
  <2> DEFINE id == GetOrAddValue(addrdb, AddrAt(ti, vi))
  <2>2. /\ id \in U32
        /\ Put(addrdb, AddrAt(ti, vi), id) \in Store(AddrKey)
        /\ Deleted(addrdb, AddrAt(ti, vi)) \in Store(AddrKey)
    BY <2>1, StoreTypes, ResolveAssumption DEF TypeOK
  <2>3. addrdb' \in Store(AddrKey)
    BY <1>10, <2>2 DEF VoutKnown, VoutNew, VoutMismatch
  <2>4. COUNT' \in [bk : Nat, tx : U32, addr : U32]
    <3>1. COUNT' = COUNT \/ COUNT' = [COUNT EXCEPT !.addr = Inc(@)]
      BY <1>10 DEF VoutKnown, VoutNew, VoutMismatch
    <3> QED
      BY <3>1, U32Facts DEF TypeOK
  <2>5. /\ addr_id' \in [VoutsOf(txs) -> U32]
        /\ addr_is_new' \in [VoutsOf(txs) -> BOOLEAN]
    <3>1. \/ addr_id' = [addr_id EXCEPT ![<<ti, vi>>] = id]
          \/ addr_id' = addr_id
      BY <1>10 DEF VoutKnown, VoutNew, VoutMismatch
    <3>2. \/ addr_is_new' = [addr_is_new EXCEPT ![<<ti, vi>>] = TRUE]
          \/ addr_is_new' = addr_is_new
      BY <1>10 DEF VoutKnown, VoutNew, VoutMismatch
    <3> QED
      BY <2>2, <3>1, <3>2 DEF TypeOK
  <2>6. /\ pc' \in PC /\ vi' \in Nat \ {0} /\ retvalue' \in BOOLEAN
        /\ pc' \in {"vout", "txback"}
    <3>1. \/ UNCHANGED <<pc, retvalue>> /\ pc = "vout" /\ vi' = vi + 1
          \/ Fail
      BY <1>10 DEF VoutKnown, VoutNew, VoutMismatch
    <3>2. retvalue' \in BOOLEAN
      BY <3>1, Zenon DEF Fail, TypeOK
    <3>3. pc' \in {"vout", "txback"} /\ vi' \in Nat \ {0}
      BY <3>1 DEF Fail, TypeOK
    <3> QED
      BY <3>2, <3>3
  <2>7. UNCHANGED <<txdb, txs, txid, vin_id, ti, txdb0, addrdb0>> /\ pc = "vout"
    BY <1>10 DEF VoutKnown, VoutNew, VoutMismatch, begun
  <2> QED
    BY <2>3, <2>4, <2>5, <2>6, <2>7 DEF TypeOK
<1>11. CASE VoutRefused
  BY <1>11 DEF VoutRefused, Fail, TypeOK, stores, block, begun
<1>12. CASE VoutsDone
  BY <1>12 DEF VoutsDone, TypeOK, stores, block, begun
<1>13. CASE BlockResolved
  BY <1>13 DEF BlockResolved, TypeOK, stores, block, begun
<1>14. CASE SkipVout
  BY <1>14 DEF SkipVout, AtVout, TypeOK, stores, block, begun
<1>15. CASE DelAddr
  <2>2. addrdb' \in Store(AddrKey)
    BY <1>15, U32Facts DEF DelAddr, Deleted, Store, TypeOK
  <2>3. /\ addr_id' \in [VoutsOf(txs) -> U32]
        /\ COUNT' \in [bk : Nat, tx : U32, addr : U32]
    BY <1>15, U32Facts DEF DelAddr, TypeOK
  <2> QED
    BY <1>15, <2>2, <2>3 DEF DelAddr, AtVout, TypeOK, begun
<1>16. CASE DelAddrFails
  <2>1. retvalue' \in BOOLEAN
    BY <1>16, Zenon DEF DelAddrFails
  <2>2. vi' \in Nat \ {0} /\ pc \notin {"vin", "vout"}
    BY <1>16 DEF DelAddrFails, AtVout, TypeOK
  <2> QED
    BY <1>16, <2>1, <2>2, Zenon DEF DelAddrFails, TypeOK, stores, block, begun
<1>17. CASE SkipTx
  BY <1>17 DEF SkipTx, RollbackReturns, TypeOK, stores, block, begun
<1>18. CASE DelTx
  <2>1. HashAt(ti) \in TxHash
    BY <1>18, BlockParts DEF DelTx, PastVouts, TypeOK, HashAt
  <2>2. txdb' \in Store(TxHash)
    BY <1>18, <2>1, StoreTypes, ResolveAssumption DEF DelTx, TypeOK
  <2>3. /\ txid' \in [DOMAIN txs -> U32]
        /\ COUNT' \in [bk : Nat, tx : U32, addr : U32]
    BY <1>18, U32Facts DEF DelTx, TypeOK
  <2> QED
    BY <1>18, <2>2, <2>3 DEF DelTx, RollbackReturns, TypeOK, begun
<1>19. CASE DelTxFails
  BY <1>19 DEF DelTxFails, RollbackReturns, TypeOK, stores, block, begun
<1>20. CASE KeepTx
  BY <1>20 DEF KeepTx, RollbackReturns, TypeOK, stores, block, begun
<1>21. CASE BlockFailed
  BY <1>21 DEF BlockFailed, TypeOK, stores, block, begun
<1>22. CASE NextBlock
  BY <1>22 DEF NextBlock, TypeOK, stores, block, begun
<1> QED
  BY <1>0, <1>1, <1>2, <1>3, <1>4, <1>5, <1>6, <1>7, <1>8, <1>9, <1>10,
     <1>11, <1>12, <1>13, <1>14, <1>15, <1>16, <1>17, <1>18, <1>19, <1>20,
     <1>21, <1>22 DEF Next, ResolveForward, VoutTakenForNew, Rollback

\* Every variable keeps its type, whatever the chain and whatever fails.
THEOREM TypeCorrect == Spec => []TypeOK
<1>1. Init => TypeOK
  BY InitTypeOK
<1>2. TypeOK /\ [Next]_vars => TypeOK'
  BY StepTypeOK
<1> QED
  BY <1>1, <1>2, PTL DEF Spec

-----------------------------------------------------------------------------
\* What a log becomes when a record is added, and when one is deleted.
LEMMA LogPut ==
    ASSUME NEW K, NEW db \in Store(K), NEW db0 \in Store(K),
           NEW S, NEW key, NEW id, Log(db, db0, S, key, id),
           NEW s, key[s] \in K, db[key[s]] = NotFound,
           NEW v \in U32, v # NotFound,
           NEW id2, id2[s] = v, \A t \in S : t # s => id2[t] = id[t]
    PROVE  Log(Put(db, key[s], v), db0, S \cup {s}, key, id2)
<1> DEFINE new == Put(db, key[s], v)
<1>1. DOMAIN new = K /\ DOMAIN db = K /\ DOMAIN db0 = K
  BY DEF Put, Store
<1>2. new[key[s]] = v /\ \A k \in K \ {key[s]} : new[k] = db[k]
  BY DEF Put, Store
<1>3. \A t \in S : key[t] \in K /\ db[key[t]] # NotFound
  BY <1>1 DEF Log
<1>4. \A t \in S : key[t] # key[s] /\ t # s
  BY <1>3
<1>5. db0[key[s]] = NotFound
  BY <1>1 DEF Log, Keys
<1>6. Keys(new) = Keys(db) \cup {key[s]}
  BY <1>1, <1>2 DEF Keys
<1> HIDE DEF new
<1>7. \A t \in S \cup {s} : key[t] \in DOMAIN new /\ new[key[t]] = id2[t] /\ id2[t] # NotFound
  BY <1>1, <1>2, <1>3, <1>4 DEF Log
<1>8. \A t \in S \cup {s} : db0[key[t]] = NotFound
  BY <1>5 DEF Log
<1>9. \A k \in Keys(new) \ Keys(db0) : \E t \in S \cup {s} : key[t] = k
  BY <1>6 DEF Log
<1>10. \A t, u \in S \cup {s} : key[t] = key[u] => t = u
  BY <1>4 DEF Log
<1>11. \A k \in Keys(db0) : new[k] = db0[k]
  BY <1>1, <1>2, <1>5 DEF Log, Keys
<1> QED
  BY <1>7, <1>8, <1>9, <1>10, <1>11 DEF new, Log

\* Deleting the record of a slot, the slot leaves the log.
LEMMA LogDeleted ==
    ASSUME NEW K, NEW db \in Store(K), NEW db0 \in Store(K),
           NEW S, NEW key, NEW id, Log(db, db0, S, key, id),
           NEW s \in S,
           NEW id2, \A t \in S : t # s => id2[t] = id[t]
    PROVE  Log(Deleted(db, key[s]), db0, S \ {s}, key, id2)
<1> DEFINE new == Deleted(db, key[s])
<1>1. DOMAIN new = K /\ DOMAIN db = K /\ DOMAIN db0 = K
  BY DEF Deleted, Store
<1>2. /\ key[s] \in K /\ new[key[s]] = NotFound
      /\ \A k \in K \ {key[s]} : new[k] = db[k]
  BY DEF Deleted, Store, Log
<1>3. \A t \in S : key[t] \in K
  BY <1>1 DEF Log
<1>4. \A t \in S \ {s} : key[t] # key[s]
  BY DEF Log
<1>5. db0[key[s]] = NotFound
  BY DEF Log
<1>6. Keys(new) = Keys(db) \ {key[s]}
  BY <1>1, <1>2 DEF Keys
<1> HIDE DEF new
<1>7. \A t \in S \ {s} : key[t] \in DOMAIN new /\ new[key[t]] = id2[t] /\ id2[t] # NotFound
  BY <1>1, <1>2, <1>3, <1>4 DEF Log
<1>8. \A t \in S \ {s} : db0[key[t]] = NotFound
  BY DEF Log
<1>9. \A k \in Keys(new) \ Keys(db0) : \E t \in S \ {s} : key[t] = k
  BY <1>6 DEF Log
<1>10. \A t, u \in S \ {s} : key[t] = key[u] => t = u
  BY DEF Log
<1>11. \A k \in Keys(db0) : new[k] = db0[k]
  BY <1>1, <1>2, <1>5 DEF Log, Keys
<1> QED
  BY <1>7, <1>8, <1>9, <1>10, <1>11 DEF new, Log

\* Of a log with no slot, the store is as it was.
LEMMA LogEmpty ==
    ASSUME NEW K, NEW db \in Store(K), NEW db0 \in Store(K), NEW key, NEW id
    PROVE  Log(db, db0, {}, key, id) <=> db = db0
<1>1. ASSUME Log(db, db0, {}, key, id) PROVE db = db0
  <2>1. Keys(db) \subseteq Keys(db0) /\ \A k \in Keys(db0) : db[k] = db0[k]
    BY <1>1 DEF Log
  <2>2. \A k \in K : db[k] = db0[k]
    BY <2>1 DEF Keys, Store
  <2> QED
    BY <2>2 DEF Store
<1>2. ASSUME db = db0 PROVE Log(db, db0, {}, key, id)
  BY <1>2 DEF Log
<1> QED
  BY <1>1, <1>2

-----------------------------------------------------------------------------
\* What each step does to the stores, their counters and their logs.
Quiet ==
    /\ UNCHANGED <<stores, begun, txs, txid, addr_id, addr_is_new>>
    /\ COUNT'.tx = COUNT.tx /\ COUNT'.addr = COUNT.addr

\* All other steps are quiet.
LEMMA QuietSteps ==
    ASSUME TypeOK, [Next]_vars
    PROVE  \/ BeginBlock \/ AddTx \/ VoutKnown \/ VoutNew \/ VoutMismatch
           \/ DelAddr \/ DelTx
           \/ Quiet
<1> USE DEF Quiet, block
<1>1. CASE UNCHANGED vars
  BY <1>1 DEF vars
<1>2. CASE RefuseTx \/ VinCoinbase \/ VinFound \/ VinNotFound \/ VinThrows \/ VinsDone
  BY <1>2 DEF RefuseTx, VinCoinbase, VinFound, VinNotFound, VinThrows, VinsDone
<1>3. CASE VoutNoAddr \/ VoutRefused \/ VoutsDone \/ BlockResolved
  BY <1>3 DEF VoutNoAddr, VoutRefused, VoutsDone, BlockResolved
<1>4. CASE SkipVout \/ DelAddrFails \/ SkipTx \/ DelTxFails \/ KeepTx \/ BlockFailed
  BY <1>4 DEF SkipVout, DelAddrFails, SkipTx, DelTxFails, KeepTx, BlockFailed
<1>5. CASE NextBlock
  BY <1>5 DEF NextBlock, TypeOK
<1> QED
  BY <1>1, <1>2, <1>3, <1>4, <1>5 DEF Next, ResolveForward, VoutTakenForNew, Rollback

\* The counters are the counts that the engine answers.
LEMMA CountIsCounter ==
    ASSUME TypeOK, CountsAgree
    PROVE  /\ COUNT.tx \in U32 /\ Count(txdb) = COUNT.tx
           /\ COUNT.addr \in U32 /\ Count(addrdb) = COUNT.addr
<1>1. COUNT.tx \in U32 /\ COUNT.addr \in U32
  BY DEF TypeOK
<1> QED
  BY <1>1, CountExact, ResolveAssumption DEF TypeOK, CountsAgree

\* The same of the transactions alone.
LEMMA TxCountIsCounter ==
    ASSUME TxInv
    PROVE  COUNT.tx \in U32 /\ Count(txdb) = COUNT.tx
<1>1. COUNT.tx \in U32
  BY DEF TxInv, TypeOK
<1> QED
  BY <1>1, CountExact, ResolveAssumption DEF TxInv, TypeOK

\* What is known of the transactions is a part of what is known of all.
LEMMA TxPart == IInv => TxInv
BY DEF IInv, TxInv, CountsAgree

\* Counting up and down, below the greatest number.
LEMMA IncDec ==
    \A n \in U32 : /\ n \in Nat
                   /\ Dec(Inc(n)) = n
                   /\ n # NotFound => Inc(n) = n + 1
                   /\ n # 0 => Dec(n) = n - 1
BY MaxU32Assumption DEF U32, Inc, Dec, NotFound

\* TX_T::resolve adds the hash under the number of the counter; the check
\* that it makes on the number never fails.
LEMMA AddTxEffect ==
    ASSUME TxInv, AddTx
    PROVE  /\ ti \in DOMAIN txs /\ HashOf[ti] \in TxHash
           /\ txdb[HashOf[ti]] = NotFound
           /\ COUNT.tx \in U32 /\ COUNT.tx # NotFound
           /\ txdb' = Put(txdb, HashOf[ti], COUNT.tx)
           /\ txid' = [txid EXCEPT ![ti] = COUNT.tx]
           /\ COUNT'.tx = COUNT.tx + 1 /\ COUNT'.addr = COUNT.addr
           /\ pc = "tx" /\ pc' = "vin" /\ vi' = 1
<1> USE DEF TxInv
<1>1. ti \in DOMAIN txs /\ HashAt(ti) \in TxHash /\ HashOf[ti] = HashAt(ti)
  BY BlockParts DEF AddTx, TypeOK, HashAt, HashOf
<1> DEFINE id == AddValue(txdb, HashAt(ti))
<1>2. /\ id # NotFound
      /\ txdb' = Put(txdb, HashAt(ti), id)
      /\ txid' = [txid EXCEPT ![ti] = id]
      /\ COUNT' = [COUNT EXCEPT !.tx = Inc(@)]
  BY DEF AddTx
<1>3. txdb[HashAt(ti)] = NotFound /\ id = COUNT.tx /\ COUNT.tx \in U32
  BY <1>2, TxCountIsCounter DEF AddValue
<1>4. COUNT'.tx = Inc(COUNT.tx) /\ COUNT'.addr = COUNT.addr
  BY <1>2 DEF TypeOK
<1>5. COUNT'.tx = COUNT.tx + 1 /\ id = Dec(COUNT'.tx)
  BY <1>2, <1>3, <1>4, IncDec
<1>6. pc = "tx" /\ pc' = "vin" /\ vi' = 1
  BY <1>5, Zenon DEF AddTx
<1> QED
  BY <1>1, <1>2, <1>3, <1>4, <1>5, <1>6

\* The output that is resolved, and its address.
LEMMA SlotAtVout ==
    ASSUME TypeOK, pc = "vout", vi \in DOMAIN txs[ti].vouts,
           AddrAt(ti, vi) # NoAddr
    PROVE  /\ ti \in DOMAIN txs
           /\ <<ti, vi>> \in VoutsOf(txs)
           /\ AddrOf[<<ti, vi>>] = AddrAt(ti, vi)
           /\ AddrAt(ti, vi) \in AddrKey
<1>1. ti \in DOMAIN txs /\ txs \in Block
  BY DEF TypeOK
<1>2. <<ti, vi>> \in VoutsOf(txs)
  BY <1>1, VoutPlace
<1>3. AddrAt(ti, vi) \in AddrKey
  BY <1>1, BlockParts DEF AddrAt, VoutSpec
<1> QED
  BY <1>1, <1>2, <1>3 DEF AddrOf

\* An address whose number is below the counter is in the store.
LEMMA VoutKnownEffect ==
    ASSUME IInv, VoutKnown
    PROVE  /\ ti \in DOMAIN txs /\ <<ti, vi>> \in VoutsOf(txs)
           /\ addrdb[AddrOf[<<ti, vi>>]] # NotFound
           /\ addr_id' = [addr_id EXCEPT ![<<ti, vi>>] = addrdb[AddrOf[<<ti, vi>>]]]
           /\ addrdb' = addrdb
<1> USE DEF IInv
<1> DEFINE k  == AddrAt(ti, vi)
           id == GetOrAddValue(addrdb, k)
<1>1. /\ ti \in DOMAIN txs /\ <<ti, vi>> \in VoutsOf(txs)
      /\ AddrOf[<<ti, vi>>] = k /\ k \in AddrKey
  BY SlotAtVout DEF VoutKnown
<1>2. /\ id # NotFound /\ id < COUNT.addr
      /\ addrdb' = Put(addrdb, k, id)
      /\ addr_id' = [addr_id EXCEPT ![<<ti, vi>>] = id]
  BY DEF VoutKnown
<1>3. id # Count(addrdb)
  BY <1>2, CountIsCounter, IncDec
<1>4. addrdb[k] # NotFound /\ id = addrdb[k]
  BY <1>3 DEF GetOrAddValue
<1>5. [addrdb EXCEPT ![k] = addrdb[k]] = addrdb
  BY <1>1 DEF Store, TypeOK
<1> QED
  BY <1>1, <1>2, <1>4, <1>5 DEF Put

\* As the store has no gaps, an address whose number is not below the counter
\* is not in the store, and its number is the counter.
LEMMA NotBelow ==
    ASSUME TypeOK, CountsAgree, Numbers, pc = "vout", NEW k \in AddrKey,
           GetOrAddValue(addrdb, k) >= COUNT.addr
    PROVE  /\ addrdb[k] = NotFound \/ COUNT.addr = NotFound
           /\ GetOrAddValue(addrdb, k) = COUNT.addr
<1>1. Dense(addrdb)
  BY DEF Numbers, Back
<1>2. Count(addrdb) = COUNT.addr /\ COUNT.addr \in U32 /\ COUNT.addr \in Nat
  BY CountIsCounter, IncDec
<1>3. CASE addrdb[k] # NotFound /\ COUNT.addr # NotFound
  <2>1. k \in Keys(addrdb)
    BY <1>3 DEF Keys, Store, TypeOK
  <2>2. addrdb[k] \in 0 .. COUNT.addr - 1
    BY <1>1, <2>1 DEF Dense, CountsAgree
  <2>3. GetOrAddValue(addrdb, k) = addrdb[k]
    BY <1>2, <1>3 DEF GetOrAddValue
  <2> QED
    BY <1>2, <2>2, <2>3
<1>4. CASE ~(addrdb[k] # NotFound /\ COUNT.addr # NotFound)
  BY <1>2, <1>4 DEF GetOrAddValue
<1> QED
  BY <1>3, <1>4

\* A new address gets the number of the counter, and is logged.
LEMMA VoutNewEffect ==
    ASSUME IInv, VoutNew
    PROVE  /\ ti \in DOMAIN txs /\ <<ti, vi>> \in VoutsOf(txs)
           /\ AddrOf[<<ti, vi>>] \in AddrKey
           /\ addrdb[AddrOf[<<ti, vi>>]] = NotFound
           /\ COUNT.addr \in U32 /\ COUNT.addr # NotFound
           /\ addrdb' = Put(addrdb, AddrOf[<<ti, vi>>], COUNT.addr)
           /\ addr_id' = [addr_id EXCEPT ![<<ti, vi>>] = COUNT.addr]
           /\ addr_is_new' = [addr_is_new EXCEPT ![<<ti, vi>>] = TRUE]
           /\ COUNT'.addr = COUNT.addr + 1 /\ COUNT'.tx = COUNT.tx
<1> USE DEF IInv
<1> DEFINE k  == AddrAt(ti, vi)
           id == GetOrAddValue(addrdb, k)
<1>1. /\ pc = "vout"
      /\ ti \in DOMAIN txs /\ <<ti, vi>> \in VoutsOf(txs)
      /\ AddrOf[<<ti, vi>>] = k /\ k \in AddrKey
  BY SlotAtVout DEF VoutNew
<1>2. /\ id # NotFound /\ id >= COUNT.addr
      /\ addrdb' = Put(addrdb, k, id)
      /\ addr_id' = [addr_id EXCEPT ![<<ti, vi>>] = id]
      /\ addr_is_new' = [addr_is_new EXCEPT ![<<ti, vi>>] = TRUE]
      /\ COUNT' = [COUNT EXCEPT !.addr = Inc(@)]
  BY DEF VoutNew
<1>3. id = COUNT.addr /\ addrdb[k] = NotFound
  BY <1>1, <1>2, NotBelow
<1>4. COUNT'.addr = Inc(COUNT.addr) /\ COUNT'.tx = COUNT.tx /\ COUNT.addr \in U32
  BY <1>2 DEF TypeOK
<1>5. COUNT'.addr = COUNT.addr + 1
  BY <1>2, <1>3, <1>4, IncDec
<1> QED
  BY <1>1, <1>2, <1>3, <1>4, <1>5

\* The check that VOUT_T::resolve makes on a new number never fails.
LEMMA NoMismatch ==
    ASSUME IInv
    PROVE  ~VoutMismatch
<1> USE DEF IInv
<1> SUFFICES ASSUME VoutMismatch PROVE FALSE
  OBVIOUS
<1>1. pc = "vout" /\ AddrAt(ti, vi) \in AddrKey
  BY SlotAtVout DEF VoutMismatch
<1>2. /\ GetOrAddValue(addrdb, AddrAt(ti, vi)) >= COUNT.addr
      /\ GetOrAddValue(addrdb, AddrAt(ti, vi)) # Dec(Inc(COUNT.addr))
  BY DEF VoutMismatch
<1>3. GetOrAddValue(addrdb, AddrAt(ti, vi)) = COUNT.addr
  BY <1>1, <1>2, NotBelow
<1> QED
  BY <1>2, <1>3, CountIsCounter, IncDec

\* The output that is rolled back.
LEMMA SlotBack ==
    ASSUME TypeOK, AtVout
    PROVE  /\ <<ti, vi>> \in VoutsOf(txs)
           /\ AddrOf[<<ti, vi>>] = AddrAt(ti, vi)
           /\ ToUndo(<<ti, vi>>) => <<ti, vi>> \in NewAddrs
<1>1. <<ti, vi>> \in VoutsOf(txs)
  BY VoutPlace DEF AtVout, TypeOK
<1> QED
  BY <1>1 DEF AddrOf, NewAddrs

\* VOUT_T::rollback deletes what the log says was added.
LEMMA DelAddrEffect ==
    ASSUME IInv, DelAddr
    PROVE  /\ <<ti, vi>> \in NewAddrs
           /\ AddrOf[<<ti, vi>>] \in AddrKey
           /\ addrdb[AddrOf[<<ti, vi>>]] # NotFound
           /\ addrdb' = Deleted(addrdb, AddrOf[<<ti, vi>>])
           /\ addr_id' = [addr_id EXCEPT ![<<ti, vi>>] = NotFound]
           /\ NewAddrs' = NewAddrs \ {<<ti, vi>>}
           /\ COUNT'.addr = COUNT.addr - 1 /\ COUNT'.tx = COUNT.tx
<1> USE DEF IInv
<1> DEFINE slot == <<ti, vi>>
<1>1. <<ti, vi>> \in NewAddrs /\ AddrOf[<<ti, vi>>] = AddrAt(ti, vi)
  BY SlotBack DEF DelAddr
<1>2. /\ AddrOf[<<ti, vi>>] \in AddrKey
      /\ addrdb[AddrOf[<<ti, vi>>]] # NotFound
  BY <1>1 DEF AddrLog, Log, TypeOK, Store
<1>3. COUNT.addr # 0 /\ COUNT.addr \in U32
  BY <1>2, DeletedOne, ResolveAssumption DEF CountsAgree, TypeOK
<1>4. COUNT' = [COUNT EXCEPT !.addr = Dec(@)]
  BY DEF DelAddr
<1>5. COUNT'.addr = COUNT.addr - 1 /\ COUNT'.tx = COUNT.tx
  BY <1>3, <1>4, IncDec DEF TypeOK
<1>6. UNCHANGED <<txs, addr_is_new>> /\ addr_id' = [addr_id EXCEPT ![slot] = NotFound]
  BY DEF DelAddr
<1>7. \A v \in VoutsOf(txs) \ {slot} : ToUndo(v)' <=> ToUndo(v)
  BY <1>6 DEF ToUndo, TypeOK
<1>8. addr_id'[slot] = NotFound
  BY <1>1, <1>6 DEF NewAddrs, TypeOK
<1>9. \A v : v = slot => ~ToUndo(v)'
  BY <1>8 DEF ToUndo
<1>10. NewAddrs' = NewAddrs \ {slot}
  BY <1>1, <1>6, <1>7, <1>9 DEF NewAddrs
<1> QED
  BY <1>1, <1>2, <1>5, <1>10 DEF DelAddr

\* TX_T::rollback deletes what the log says was added.
LEMMA DelTxEffect ==
    ASSUME TxInv, DelTx
    PROVE  /\ ti \in NewTxs
           /\ HashOf[ti] \in TxHash
           /\ txdb[HashOf[ti]] # NotFound
           /\ txdb' = Deleted(txdb, HashOf[ti])
           /\ txid' = [txid EXCEPT ![ti] = NotFound]
           /\ NewTxs' = NewTxs \ {ti}
           /\ COUNT'.tx = COUNT.tx - 1 /\ COUNT'.addr = COUNT.addr
<1> USE DEF TxInv
<1>1. ti \in NewTxs /\ HashOf[ti] = HashAt(ti)
  BY DEF DelTx, PastVouts, NewTxs, HashOf
<1>2. HashOf[ti] \in TxHash /\ txdb[HashOf[ti]] # NotFound
  BY <1>1 DEF TxLog, Log, TypeOK, Store
<1>3. COUNT.tx # 0 /\ COUNT.tx \in U32
  BY <1>2, DeletedOne, ResolveAssumption DEF TypeOK
<1>4. COUNT' = [COUNT EXCEPT !.tx = Dec(@)]
  BY DEF DelTx
<1>5. COUNT'.tx = COUNT.tx - 1 /\ COUNT'.addr = COUNT.addr
  BY <1>3, <1>4, IncDec DEF TypeOK
<1>6. NewTxs' = NewTxs \ {ti}
  BY DEF DelTx, NewTxs, TypeOK
<1> QED
  BY <1>1, <1>2, <1>5, <1>6 DEF DelTx

\* A transaction is deleted only when none of its outputs is left to undo.
LEMMA DelTxOutputs ==
    ASSUME IInv, DelTx, NEW v \in NewAddrs
    PROVE  v[1] # ti
<1> USE DEF IInv
<1> SUFFICES ASSUME v[1] = ti PROVE FALSE
  OBVIOUS
<1>1. ti \in DOMAIN txs /\ v[2] \in DOMAIN txs[ti].vouts
  BY VoutPlace DEF NewAddrs, TypeOK
<1>2. v[2] >= vi
  BY DEF BackPhase, DelTx, PastVouts
<1>3. PICK n \in Nat : DOMAIN txs[ti].vouts = 1 .. n
  BY <1>1, BlockParts DEF TypeOK
<1>4. vi \in Nat \ {0} /\ vi \notin 1 .. n /\ v[2] \in 1 .. n
  BY <1>1, <1>3 DEF DelTx, PastVouts, TypeOK
<1> QED
  BY <1>2, <1>4

-----------------------------------------------------------------------------
\* A block that is begun has logged nothing.
LEMMA BeginBlockEffect ==
    ASSUME TypeOK, TypeOK', BeginBlock
    PROVE  /\ NewTxs' = {} /\ NewAddrs' = {}
           /\ txdb' = txdb /\ txdb0' = txdb
           /\ addrdb' = addrdb /\ addrdb0' = addrdb
           /\ pc = "idle" /\ pc' = "tx"
           /\ \A v \in VoutsOf(txs)' : ~addr_is_new'[v]
           /\ COUNT' = COUNT /\ ti' = 1
<1>1. PICK b : NewBlock(b)
  BY DEF BeginBlock
<1>2. NewTxs' = {}
  BY <1>1 DEF NewBlock, NewTxs
<1>3. \A v \in VoutsOf(txs)' : ~addr_is_new'[v]
  BY <1>1, Zenon DEF NewBlock
<1>4. NewAddrs' = {}
  BY <1>3 DEF NewAddrs, ToUndo
<1> QED
  BY <1>2, <1>3, <1>4 DEF BeginBlock, stores

\* The transactions are safe on any stores.
LEMMA TxQuietSteps ==
    ASSUME TypeOK, [Next]_vars
    PROVE  \/ BeginBlock \/ AddTx \/ DelTx
           \/ UNCHANGED <<txdb, txdb0, txs, txid>> /\ COUNT'.tx = COUNT.tx
<1>1. CASE VoutKnown \/ VoutNew \/ VoutMismatch \/ DelAddr
  <2>1. UNCHANGED <<txdb, txdb0, txs, txid>>
    BY <1>1 DEF VoutKnown, VoutNew, VoutMismatch, DelAddr, begun
  <2>2. \/ UNCHANGED COUNT
        \/ COUNT' = [COUNT EXCEPT !.addr = Inc(@)]
        \/ COUNT' = [COUNT EXCEPT !.addr = Dec(@)]
    BY <1>1 DEF VoutKnown, VoutNew, VoutMismatch, DelAddr
  <2> QED
    BY <2>1, <2>2 DEF TypeOK
<1>2. CASE Quiet
  BY <1>2 DEF Quiet, stores, begun
<1> QED
  BY <1>1, <1>2, QuietSteps

\* TxInv is inductive: on whatever stores, the log of the transactions is
\* right and so is their counter.
LEMMA StepTxInv == TxInv /\ [Next]_vars => TxInv'
<1> SUFFICES ASSUME TxInv, [Next]_vars PROVE TxInv'
  OBVIOUS
<1> USE DEF TxInv, TxLog
<1>0. TypeOK'
  BY StepTypeOK
<1>1. CASE BeginBlock
  <2>1. /\ txdb' = txdb /\ txdb0' = txdb /\ NewTxs' = {} /\ txdb \in Store(TxHash)
        /\ COUNT' = COUNT
    BY <1>0, <1>1, BeginBlockEffect DEF TypeOK
  <2>2. Log(txdb, txdb, {}, HashOf', txid')
    BY <2>1, LogEmpty
  <2> QED
    BY <1>0, <2>1, <2>2
<1>2. CASE AddTx
  <2>1. HashOf' = HashOf /\ txdb0' = txdb0
    BY <1>2 DEF AddTx, begun, HashOf, HashAt
  <2>2. NewTxs' = NewTxs \cup {ti}
    BY <1>2, AddTxEffect DEF AddTx, NewTxs, TypeOK
  <2>3. txid'[ti] = COUNT.tx /\ \A i \in NewTxs : i # ti => txid'[i] = txid[i]
    BY <1>2, AddTxEffect DEF NewTxs, TypeOK
  <2>4. /\ txdb \in Store(TxHash) /\ txdb0 \in Store(TxHash)
        /\ HashOf[ti] \in TxHash /\ txdb[HashOf[ti]] = NotFound
        /\ COUNT.tx \in U32 /\ COUNT.tx # NotFound
    BY <1>2, AddTxEffect DEF TypeOK
  <2>5. Log(Put(txdb, HashOf[ti], COUNT.tx), txdb0, NewTxs \cup {ti}, HashOf, txid')
    BY <2>3, <2>4, LogPut
  <2>6. Cardinality(Keys(txdb')) = Cardinality(Keys(txdb)) + 1
    BY <1>2, <2>4, AddTxEffect, PutNew, ResolveAssumption
  <2> QED
    BY <1>0, <1>2, <2>1, <2>2, <2>5, <2>6, AddTxEffect
<1>3. CASE DelTx
  <2>1. HashOf' = HashOf /\ txdb0' = txdb0
    BY <1>3 DEF DelTx, begun, HashOf, HashAt
  <2>2. NewTxs' = NewTxs \ {ti}
    BY <1>3, DelTxEffect
  <2>3. \A i \in NewTxs : i # ti => txid'[i] = txid[i]
    BY <1>3, DelTxEffect DEF NewTxs, TypeOK
  <2>4. Log(Deleted(txdb, HashOf[ti]), txdb0, NewTxs \ {ti}, HashOf, txid')
    BY <1>3, <2>3, DelTxEffect, LogDeleted DEF TypeOK
  <2>5. Cardinality(Keys(txdb')) = Cardinality(Keys(txdb)) - 1
    BY <1>3, DelTxEffect, DeletedOne, ResolveAssumption DEF TypeOK
  <2> QED
    BY <1>0, <1>3, <2>1, <2>2, <2>4, <2>5, DelTxEffect
<1>4. CASE UNCHANGED <<txdb, txdb0, txs, txid>> /\ COUNT'.tx = COUNT.tx
  <2>1. HashOf' = HashOf /\ NewTxs' = NewTxs
    BY <1>4 DEF HashOf, HashAt, NewTxs
  <2> QED
    BY <1>0, <1>4, <2>1
<1> QED
  BY <1>1, <1>2, <1>3, <1>4, TxQuietSteps

-----------------------------------------------------------------------------
\* On fit stores so are the addresses: their counter,
LEMMA StepCounts == IInv /\ TypeOK' /\ [Next]_vars => CountsAgree'
<1> SUFFICES ASSUME IInv, TypeOK', [Next]_vars PROVE CountsAgree'
  OBVIOUS
<1> USE DEF IInv, CountsAgree
<1>0. COUNT'.tx = Cardinality(Keys(txdb'))
  BY TxPart, StepTxInv DEF TxInv
<1>1. CASE BeginBlock
  BY <1>1 DEF BeginBlock, stores
<1>2. CASE AddTx \/ DelTx
  <2>1. addrdb' = addrdb /\ COUNT'.addr = COUNT.addr
    BY <1>2, TxPart, AddTxEffect, DelTxEffect DEF AddTx, DelTx
  <2> QED
    BY <1>0, <2>1
<1>3. CASE VoutKnown
  BY <1>3, VoutKnownEffect DEF VoutKnown
<1>4. CASE VoutNew
  <2>1. Cardinality(Keys(addrdb')) = Cardinality(Keys(addrdb)) + 1
    BY <1>4, VoutNewEffect, PutNew, ResolveAssumption DEF TypeOK
  <2> QED
    BY <1>0, <1>4, <2>1, VoutNewEffect
<1>5. CASE DelAddr
  <2>1. Cardinality(Keys(addrdb')) = Cardinality(Keys(addrdb)) - 1
    BY <1>5, DelAddrEffect, DeletedOne, ResolveAssumption DEF TypeOK
  <2> QED
    BY <1>0, <1>5, <2>1, DelAddrEffect
<1>6. CASE Quiet
  BY <1>6 DEF Quiet, stores
<1> QED
  BY <1>1, <1>2, <1>3, <1>4, <1>5, <1>6, QuietSteps, NoMismatch

\* and their log.
LEMMA StepAddrLog == IInv /\ TypeOK' /\ [Next]_vars => AddrLog'
<1> SUFFICES ASSUME IInv, TypeOK', [Next]_vars PROVE AddrLog'
  OBVIOUS
<1> USE DEF IInv, AddrLog
<1> DEFINE slot == <<ti, vi>>
<1>1. CASE BeginBlock
  <2>1. /\ addrdb' = addrdb /\ addrdb0' = addrdb /\ NewAddrs' = {}
        /\ addrdb \in Store(AddrKey)
    BY <1>1, BeginBlockEffect DEF TypeOK
  <2>2. Log(addrdb, addrdb, {}, AddrOf', addr_id')
    BY <2>1, LogEmpty
  <2> QED
    BY <2>1, <2>2
<1>2. CASE VoutNew
  <2>1. UNCHANGED <<txs, txid, addrdb0>> /\ pc = "vout"
    BY <1>2 DEF VoutNew, begun
  <2>2. AddrOf' = AddrOf /\ NewTxs' = NewTxs
    BY <2>1 DEF AddrOf, AddrAt, NewTxs
  <2>3. NewAddrs' = NewAddrs \cup {slot}
    <3>1. \A v \in VoutsOf(txs) \ {slot} : addr_id'[v] = addr_id[v] /\ addr_is_new'[v] = addr_is_new[v]
      BY <1>2, VoutNewEffect DEF TypeOK
    <3>2. \A v \in VoutsOf(txs) \ {slot} : ToUndo(v)' <=> ToUndo(v)
      BY <3>1 DEF ToUndo
    <3>3. slot \in VoutsOf(txs) /\ addr_id'[slot] # NotFound /\ addr_is_new'[slot]
      BY <1>2, VoutNewEffect DEF TypeOK
    <3>4. \A v : v = slot => ToUndo(v)'
      BY <3>3 DEF ToUndo
    <3> QED
      BY <2>1, <3>2, <3>3, <3>4 DEF NewAddrs
  <2>4. addr_id'[slot] = COUNT.addr /\ \A v \in NewAddrs : v # slot => addr_id'[v] = addr_id[v]
    BY <1>2, VoutNewEffect DEF NewAddrs, TypeOK
  <2>5. /\ addrdb \in Store(AddrKey) /\ addrdb0 \in Store(AddrKey)
        /\ AddrOf[slot] \in AddrKey /\ addrdb[AddrOf[slot]] = NotFound
        /\ COUNT.addr \in U32 /\ COUNT.addr # NotFound
    BY <1>2, VoutNewEffect DEF TypeOK
  <2>6. Log(Put(addrdb, AddrOf[slot], COUNT.addr), addrdb0, NewAddrs \cup {slot}, AddrOf, addr_id')
    BY <2>4, <2>5, LogPut
  <2>7. slot[1] \in NewTxs
    BY <2>1 DEF ForwardPhase, NewTxs, TypeOK
  <2> QED
    BY <1>2, <2>1, <2>2, <2>3, <2>6, <2>7, VoutNewEffect
<1>3. CASE VoutKnown
  <2>1. UNCHANGED <<txs, txid, addrdb0, addr_is_new>> /\ pc = "vout" /\ addrdb' = addrdb
    BY <1>3, VoutKnownEffect DEF VoutKnown, begun
  <2>2. AddrOf' = AddrOf /\ NewTxs' = NewTxs
    BY <2>1 DEF AddrOf, AddrAt, NewTxs
  <2>3. slot \in VoutsOf(txs) /\ addr_id'[slot] # NotFound
    BY <1>3, VoutKnownEffect DEF TypeOK
  <2>4. \A v \in VoutsOf(txs) \ {slot} : addr_id'[v] = addr_id[v]
    BY <1>3, VoutKnownEffect DEF TypeOK
  <2>5. ToUndo(slot) => addr_id'[slot] = addr_id[slot]
    <3> SUFFICES ASSUME ToUndo(slot) PROVE addr_id'[slot] = addr_id[slot]
      OBVIOUS
    <3>1. slot \in NewAddrs
      BY <2>3 DEF NewAddrs
    <3>2. addrdb[AddrOf[slot]] = addr_id[slot]
      BY <3>1 DEF Log
    <3> QED
      BY <1>3, <2>3, <3>2, VoutKnownEffect DEF TypeOK
  <2>6. \A v : v = slot => (ToUndo(v)' <=> ToUndo(v))
    <3>1. addr_is_new[slot] => addr_id[slot] # NotFound
      BY <2>1, <2>3 DEF ForwardPhase, Forward
    <3> QED
      BY <2>1, <2>3, <3>1 DEF ToUndo
  <2>7. NewAddrs' = NewAddrs
    <3>1. \A v \in VoutsOf(txs) \ {slot} : ToUndo(v)' <=> ToUndo(v)
      BY <2>1, <2>4 DEF ToUndo
    <3> QED
      BY <2>1, <2>6, <3>1 DEF NewAddrs
  <2>8. \A v \in NewAddrs : addr_id'[v] = addr_id[v]
    BY <2>4, <2>5 DEF NewAddrs
  <2>9. Log(addrdb, addrdb0, NewAddrs, AddrOf, addr_id')
    BY <2>8 DEF Log
  <2> QED
    BY <2>1, <2>2, <2>7, <2>9
<1>4. CASE DelAddr
  <2>1. UNCHANGED <<txs, txid, addrdb0, addr_is_new>>
    BY <1>4 DEF DelAddr, begun
  <2>2. AddrOf' = AddrOf /\ NewTxs' = NewTxs
    BY <2>1 DEF AddrOf, AddrAt, NewTxs
  <2>3. \A v \in VoutsOf(txs) \ {slot} : addr_id'[v] = addr_id[v]
    BY <1>4, DelAddrEffect DEF TypeOK
  <2>4. NewAddrs' = NewAddrs \ {slot}
    BY <1>4, DelAddrEffect
  <2>5. \A v \in NewAddrs : v # slot => addr_id'[v] = addr_id[v]
    BY <2>3 DEF NewAddrs
  <2>6. Log(Deleted(addrdb, AddrOf[slot]), addrdb0, NewAddrs \ {slot}, AddrOf, addr_id')
    BY <1>4, <2>5, DelAddrEffect, LogDeleted DEF TypeOK
  <2> QED
    BY <1>4, <2>1, <2>2, <2>4, <2>6, DelAddrEffect
<1>5. CASE AddTx \/ DelTx \/ Quiet
  <2>1. UNCHANGED <<addrdb, addrdb0, txs, addr_id, addr_is_new>>
    BY <1>5 DEF AddTx, DelTx, Quiet, stores, begun
  <2>2. AddrOf' = AddrOf /\ NewAddrs' = NewAddrs
    BY <2>1 DEF AddrOf, AddrAt, NewAddrs, ToUndo
  <2>3. Log(addrdb, addrdb0, NewAddrs, AddrOf, addr_id)'
    BY <2>1, <2>2
  <2>4. \A v \in NewAddrs : v[1] \in NewTxs'
    <3>1. CASE AddTx
      BY <3>1, TxPart, AddTxEffect, <2>1 DEF NewTxs, TypeOK
    <3>2. CASE DelTx
      BY <3>2, <2>1, TxPart, DelTxEffect, DelTxOutputs DEF NewTxs, TypeOK
    <3>3. CASE Quiet
      BY <3>3 DEF Quiet, NewTxs
    <3> QED
      BY <1>5, <3>1, <3>2, <3>3
  <2> QED
    BY <2>2, <2>3, <2>4
<1> QED
  BY <1>1, <1>2, <1>3, <1>4, <1>5, QuietSteps, NoMismatch

\* The numbers stay unique, and the stores without gaps going forward.
LEMMA BackStays ==
    ASSUME TypeOK, [Next]_vars, pc \in Back \cup {"failed"}
    PROVE  pc' \in Back \cup {"failed"}
<1>1. pc \notin Forward \cup {"idle", "resolved"}
  BY DEF Back, Forward
<1>2. ~BeginBlock /\ ~ResolveForward /\ ~NextBlock
  BY <1>1, Zenon DEF Forward, BeginBlock, NextBlock, ResolveForward, VoutTakenForNew, AddTx, RefuseTx,
     VinCoinbase, VinFound, VinNotFound, VinThrows, VinsDone,
     VoutNoAddr, VoutKnown, VoutNew, VoutMismatch, VoutRefused, VoutsDone,
     BlockResolved
<1>3. CASE UNCHANGED vars
  BY <1>3 DEF vars
<1>4. CASE Rollback
  BY <1>4 DEF Rollback, Back, AtVout, SkipVout, DelAddr, DelAddrFails, PastVouts,
     SkipTx, DelTx, DelTxFails, KeepTx, RollbackReturns, BlockFailed
<1> QED
  BY <1>2, <1>3, <1>4 DEF Next

\* A number is given to a new key only when the store is dense, and then it
\* is the next one; deleting makes no number be there twice.
LEMMA StepNumbers == IInv /\ TypeOK' /\ [Next]_vars => Numbers'
<1> SUFFICES ASSUME IInv, TypeOK', [Next]_vars PROVE Numbers'
  OBVIOUS
<1> USE DEF IInv, Numbers, IdsUnique
<1>1. CASE BeginBlock
  BY <1>1, BeginBlockEffect DEF Back
<1>2. CASE AddTx
  <2>1. Dense(txdb) /\ Dense(addrdb)
    BY <1>2, TxPart, AddTxEffect DEF Back
  <2>2. UNCHANGED <<addrdb, txdb0, addrdb0>>
    BY <1>2 DEF AddTx, begun
  <2>3. Dense(txdb') /\ Unique(txdb')
    BY <1>2, <2>1, TxPart, AddTxEffect, PutNext, ResolveAssumption DEF TypeOK, CountsAgree
  <2> QED
    BY <2>1, <2>2, <2>3
<1>3. CASE VoutNew
  <2>1. Dense(txdb) /\ Dense(addrdb)
    BY <1>3 DEF VoutNew, Back
  <2>2. UNCHANGED <<txdb, txdb0, addrdb0>>
    BY <1>3 DEF VoutNew, begun
  <2>3. Dense(addrdb') /\ Unique(addrdb')
    BY <1>3, <2>1, VoutNewEffect, PutNext, ResolveAssumption DEF TypeOK, CountsAgree
  <2> QED
    BY <2>1, <2>2, <2>3
<1>4. CASE DelAddr
  <2>1. UNCHANGED <<txdb, txdb0, addrdb0>> /\ pc \in Back
    BY <1>4 DEF DelAddr, AtVout, begun
  <2>2. Unique(addrdb')
    BY <1>4, DelAddrEffect, DeletedUnique, ResolveAssumption DEF TypeOK
  <2> QED
    BY <2>1, <2>2, BackStays
<1>5. CASE DelTx
  <2>1. UNCHANGED <<addrdb, txdb0, addrdb0>> /\ pc \in Back
    BY <1>5 DEF DelTx, PastVouts, begun
  <2>2. Unique(txdb')
    BY <1>5, TxPart, DelTxEffect, DeletedUnique, ResolveAssumption DEF TypeOK
  <2> QED
    BY <2>1, <2>2, BackStays
<1>6. CASE VoutKnown \/ Quiet
  <2>1. UNCHANGED <<txdb, addrdb, txdb0, addrdb0>>
    BY <1>6, VoutKnownEffect DEF VoutKnown, Quiet, stores, begun
  <2>2. pc' \notin Back \cup {"failed"} => pc \notin Back \cup {"failed"}
    BY BackStays
  <2> QED
    BY <2>1, <2>2
<1> QED
  BY <1>1, <1>2, <1>3, <1>4, <1>5, <1>6, QuietSteps, NoMismatch

-----------------------------------------------------------------------------
\* The places of a block are numbered from 1.
LEMMA PlaceFacts ==
    ASSUME NEW b \in Block
    PROVE  /\ \A i \in DOMAIN b : i \in Nat \ {0}
           /\ \A v \in VoutsOf(b) \cup VinsOf(b) :
                 v = <<v[1], v[2]>> /\ v[1] \in Nat \ {0} /\ v[2] \in Nat \ {0}
<1>1. \A i \in DOMAIN b : i \in Nat \ {0}
  BY DEF Block
<1>2. ASSUME NEW v \in VoutsOf(b) PROVE v = <<v[1], v[2]>> /\ v[1] \in DOMAIN b /\ v[2] \in Nat \ {0}
  <2>1. v = <<v[1], v[2]>> /\ v[1] \in DOMAIN b /\ v[2] \in DOMAIN b[v[1]].vouts
    BY VoutPlace
  <2>2. b[v[1]].vouts \in Seq(VoutSpec)
    BY <2>1 DEF Block, Tx
  <2> QED
    BY <2>1, <2>2
<1>3. ASSUME NEW v \in VinsOf(b) PROVE v = <<v[1], v[2]>> /\ v[1] \in DOMAIN b /\ v[2] \in Nat \ {0}
  <2>1. v = <<v[1], v[2]>> /\ v[1] \in DOMAIN b /\ v[2] \in DOMAIN b[v[1]].vins
    BY VinPlace
  <2>2. b[v[1]].vins \in Seq(VinSpec)
    BY <2>1 DEF Block, Tx
  <2> QED
    BY <2>1, <2>2
<1> QED
  BY <1>1, <1>2, <1>3

\* A loop that starts at the first place and is past the block, or past the
\* outputs or inputs of a transaction, has passed all of them.
LEMMA PastAll ==
    ASSUME TypeOK
    PROVE  /\ ti \notin DOMAIN txs => \A i \in DOMAIN txs : i < ti
           /\ \A i \in DOMAIN txs :
                 vi \notin DOMAIN txs[i].vins => \A j \in DOMAIN txs[i].vins : j < vi
<1>1. txs \in Seq(Tx) /\ ti \in Nat \ {0} /\ vi \in Nat \ {0}
  BY DEF TypeOK, Block
<1>2. \A i \in DOMAIN txs : txs[i].vins \in Seq(VinSpec)
  BY <1>1 DEF Tx
<1>3. \A i \in DOMAIN txs : DOMAIN txs[i].vins = 1 .. Len(txs[i].vins) /\ Len(txs[i].vins) \in Nat
  BY <1>2
<1>4. ti \notin DOMAIN txs => \A i \in DOMAIN txs : i < ti
  BY <1>1
<1>5. ASSUME NEW i \in DOMAIN txs, vi \notin DOMAIN txs[i].vins,
             NEW j \in DOMAIN txs[i].vins
      PROVE  j < vi
  BY <1>1, <1>3, <1>5
<1> QED
  BY <1>4, <1>5

-----------------------------------------------------------------------------
\* The phases.
LEMMA ForwardEntered ==
    ASSUME [Next]_vars
    PROVE  \/ BeginBlock \/ AddTx
           \/ /\ pc' \in Forward => pc \in Forward
              /\ pc' \in {"vin", "vout"} => pc \in {"vin", "vout"} /\ ti' = ti
              /\ pc' = "vin" => pc = "vin"
<1> USE DEF Forward
<1>1. CASE UNCHANGED vars
  BY <1>1 DEF vars
<1>2. CASE RefuseTx \/ VinNotFound \/ VinThrows \/ VoutMismatch \/ VoutRefused
  BY <1>2 DEF RefuseTx, VinNotFound, VinThrows, VoutMismatch, VoutRefused, Fail
<1>3. CASE VinCoinbase \/ VinFound \/ VinsDone
  BY <1>3 DEF VinCoinbase, VinFound, VinsDone
<1>4. CASE VoutNoAddr \/ VoutKnown \/ VoutNew \/ VoutsDone \/ BlockResolved
  BY <1>4 DEF VoutNoAddr, VoutKnown, VoutNew, VoutsDone, BlockResolved
<1>5. CASE Rollback
  BY <1>5 DEF Rollback, Back, AtVout, SkipVout, DelAddr, DelAddrFails, PastVouts,
     SkipTx, DelTx, DelTxFails, KeepTx, RollbackReturns, BlockFailed
<1>6. CASE NextBlock
  BY <1>6 DEF NextBlock
<1> QED
  BY <1>1, <1>2, <1>3, <1>4, <1>5, <1>6 DEF Next, ResolveForward, VoutTakenForNew

\* A step forward keeps what going forward relies on.
LEMMA StepForward == IInv /\ TypeOK' /\ [Next]_vars => ForwardPhase'
<1> SUFFICES ASSUME IInv, TypeOK', [Next]_vars PROVE ForwardPhase'
  OBVIOUS
<1> USE DEF IInv, ForwardPhase
<1> DEFINE slot == <<ti, vi>>
<1>1. CASE BeginBlock
  BY <1>1, BeginBlockEffect DEF Forward
<1>2. CASE AddTx
  <2>1. UNCHANGED <<txs, addr_id, addr_is_new, ti>> /\ pc \in Forward
    BY <1>2 DEF AddTx, Forward
  <2>2. VoutsOf(txs)' = VoutsOf(txs)
    BY <2>1
  <2>3. txid'[ti] = COUNT.tx /\ COUNT'.tx = COUNT.tx + 1 /\ COUNT.tx \in U32 /\ COUNT.tx # NotFound
    BY <1>2, TxPart, AddTxEffect DEF TypeOK
  <2>4. COUNT.tx = (COUNT.tx + 1) - 1
    BY <2>3, IncDec
  <2> QED
    BY <2>1, <2>2, <2>3, <2>4
<1>3. CASE VoutKnown
  <2>1. UNCHANGED <<txs, txid, addr_is_new, ti, pc>> /\ pc = "vout"
    BY <1>3 DEF VoutKnown
  <2>2. \A v \in VoutsOf(txs) : addr_id[v] # NotFound => addr_id'[v] # NotFound
    BY <1>3, VoutKnownEffect DEF TypeOK
  <2>3. VoutsOf(txs)' = VoutsOf(txs)
    BY <2>1
  <2> QED
    BY <2>1, <2>2, <2>3 DEF Forward
<1>4. CASE VoutNew
  <2>1. UNCHANGED <<txs, txid, ti, pc>> /\ pc = "vout"
    BY <1>4 DEF VoutNew
  <2>2. slot \in VoutsOf(txs) /\ addr_id'[slot] # NotFound
    BY <1>4, VoutNewEffect DEF TypeOK
  <2>3. \A v \in VoutsOf(txs) \ {slot} : addr_id'[v] = addr_id[v] /\ addr_is_new'[v] = addr_is_new[v]
    BY <1>4, VoutNewEffect DEF TypeOK
  <2>4. VoutsOf(txs)' = VoutsOf(txs)
    BY <2>1
  <2> QED
    BY <2>1, <2>2, <2>3, <2>4 DEF Forward
<1>5. CASE DelAddr \/ DelTx
  BY <1>5 DEF DelAddr, AtVout, DelTx, PastVouts, RollbackReturns, Back, Forward
<1>6. CASE Quiet
  <2>1. /\ UNCHANGED <<txs, txid, addr_id, addr_is_new>> /\ COUNT'.tx = COUNT.tx
        /\ VoutsOf(txs)' = VoutsOf(txs)
    BY <1>6 DEF Quiet
  <2>2. \/ BeginBlock \/ AddTx
        \/ /\ pc' \in Forward => pc \in Forward
           /\ pc' \in {"vin", "vout"} => pc \in {"vin", "vout"} /\ ti' = ti
           /\ pc' = "vin" => pc = "vin"
    BY ForwardEntered
  <2> QED
    BY <1>1, <1>2, <2>1, <2>2
<1> QED
  BY <1>1, <1>2, <1>3, <1>4, <1>5, <1>6, QuietSteps, NoMismatch

\* A rollback that begins, or goes on to another transaction, has passed no
\* output yet.
LEMMA FromFirst ==
    ASSUME TypeOK', vi' = 1
    PROVE  \A v \in NewAddrs' : v[2] >= vi'
<1>1. \A v \in VoutsOf(txs)' : v[2] \in Nat \ {0}
  BY PlaceFacts DEF TypeOK
<1> QED
  BY <1>1 DEF NewAddrs

\* The outputs that a rollback has passed are undone, if it says so.
LEMMA StepBackOutputs ==
    ASSUME IInv, TypeOK', [Next]_vars, pc' \in Back, retvalue'
    PROVE  \A v \in NewAddrs' : v[1] = ti' => v[2] >= vi'
<1> USE DEF IInv
<1> DEFINE slot == <<ti, vi>>
<1>1. \A v \in NewAddrs : v = <<v[1], v[2]>> /\ v[2] \in Nat
  BY PlaceFacts DEF NewAddrs, TypeOK
<1>2. CASE vi' = 1
  BY <1>2, FromFirst
<1>3. CASE SkipVout
  <2>1. UNCHANGED <<txs, addr_id, addr_is_new, ti, pc, retvalue>> /\ vi' = vi + 1 /\ pc \in Back
    BY <1>3 DEF SkipVout, AtVout, block
  <2>2. NewAddrs' = NewAddrs
    BY <2>1 DEF NewAddrs, ToUndo
  <2>3. slot \notin NewAddrs
    BY <1>3 DEF SkipVout, NewAddrs
  <2>4. ASSUME NEW v \in NewAddrs, v[1] = ti PROVE v[2] >= vi + 1
    <3>1. v[2] >= vi /\ v[2] # vi
      BY <1>1, <2>1, <2>3, <2>4 DEF BackPhase
    <3> QED
      BY <1>1, <3>1 DEF TypeOK
  <2> QED
    BY <2>1, <2>2, <2>4
<1>4. CASE DelAddr
  <2>1. UNCHANGED <<ti, pc, retvalue>> /\ vi' = vi + 1 /\ pc \in Back
    BY <1>4 DEF DelAddr, AtVout
  <2>2. NewAddrs' = NewAddrs \ {slot}
    BY <1>4, DelAddrEffect
  <2>3. ASSUME NEW v \in NewAddrs \ {slot}, v[1] = ti PROVE v[2] >= vi + 1
    <3>1. v[2] >= vi /\ v[2] # vi
      BY <1>1, <2>1, <2>3 DEF BackPhase
    <3> QED
      BY <1>1, <3>1 DEF TypeOK
  <2> QED
    BY <2>1, <2>2, <2>3
<1>5. CASE UNCHANGED vars
  <2>1. UNCHANGED <<txs, addr_id, addr_is_new, ti, vi, pc, retvalue>>
    BY <1>5 DEF vars, block
  <2>2. NewAddrs' = NewAddrs
    BY <2>1 DEF NewAddrs, ToUndo
  <2> QED
    BY <2>1, <2>2 DEF BackPhase
<1>6. CASE DelAddrFails
  BY <1>6, Zenon DEF DelAddrFails
<1>7. CASE SkipTx \/ DelTx \/ DelTxFails \/ KeepTx
  BY <1>2, <1>7 DEF SkipTx, DelTx, DelTxFails, KeepTx, RollbackReturns
<1>8. CASE BeginBlock \/ ResolveForward \/ NextBlock \/ BlockFailed
  <2>1. pc' = "txback" => vi' = 1
    BY <1>8 DEF BeginBlock, NextBlock, BlockFailed, ResolveForward, VoutTakenForNew, AddTx, RefuseTx, Fail,
       VinCoinbase, VinFound, VinNotFound, VinThrows, VinsDone,
       VoutNoAddr, VoutKnown, VoutNew, VoutMismatch, VoutRefused, VoutsDone,
       BlockResolved
  <2>2. pc' # "bkback"
    BY <1>8 DEF BeginBlock, NextBlock, BlockFailed, ResolveForward, VoutTakenForNew, AddTx, RefuseTx, Fail,
       VinCoinbase, VinFound, VinNotFound, VinThrows, VinsDone,
       VoutNoAddr, VoutKnown, VoutNew, VoutMismatch, VoutRefused, VoutsDone,
       BlockResolved
  <2> QED
    BY <1>2, <2>1, <2>2 DEF Back
<1> QED
  BY <1>3, <1>4, <1>5, <1>6, <1>7, <1>8 DEF Next, Rollback

\* What is to be undone can be deleted: only the engine can refuse.
LEMMA UndoneIsDeletable ==
    ASSUME IInv
    PROVE  /\ DelAddrFails => MayFail("del")
           /\ DelTxFails => MayFail("del")
<1> USE DEF IInv
<1>1. ASSUME DelAddrFails PROVE MayFail("del")
  <2>1. <<ti, vi>> \in NewAddrs /\ AddrOf[<<ti, vi>>] = AddrAt(ti, vi)
    BY <1>1, SlotBack DEF DelAddrFails
  <2>2. Deletable(addrdb, AddrAt(ti, vi))
    BY <2>1 DEF AddrLog, Log, Deletable
  <2> QED
    BY <1>1, <2>2 DEF DelAddrFails
<1>2. ASSUME DelTxFails PROVE MayFail("del")
  <2>1. ti \in NewTxs /\ HashOf[ti] = HashAt(ti)
    BY <1>2 DEF DelTxFails, PastVouts, NewTxs, HashOf
  <2>2. Deletable(txdb, HashAt(ti))
    BY <2>1 DEF TxLog, Log, Deletable
  <2> QED
    BY <1>2, <2>2 DEF DelTxFails
<1> QED
  BY <1>1, <1>2

\* If only the engine could refuse to delete and does not, all that a
\* rollback has passed is undone.
LEMMA StepBackWhole ==
    ASSUME IInv, TypeOK', [Next]_vars, "del" \notin Faults
    PROVE  /\ pc' \in Back => retvalue'
           /\ pc' = "bkback" => \A i \in NewTxs' : i >= ti'
           /\ pc' = "failed" => NewTxs' = {}
<1> USE DEF IInv
<1>0. \A i \in NewTxs \cup NewTxs' : i \in Nat \ {0}
  BY PlaceFacts DEF NewTxs, TypeOK
<1>1. ~DelAddrFails /\ ~DelTxFails
  BY UndoneIsDeletable DEF MayFail
<1>2. ~KeepTx
  BY Zenon DEF KeepTx, PastVouts, BackPhase
<1>3. CASE UNCHANGED vars
  <2>1. UNCHANGED <<pc, retvalue, ti>> /\ NewTxs' = NewTxs
    BY <1>3 DEF vars, block, NewTxs
  <2> QED
    BY <2>1 DEF BackPhase
<1>4. CASE SkipVout \/ DelAddr
  <2>1. UNCHANGED <<pc, retvalue, ti>> /\ NewTxs' = NewTxs
    BY <1>4 DEF SkipVout, DelAddr, block, NewTxs
  <2> QED
    BY <2>1 DEF BackPhase
<1>5. CASE SkipTx \/ DelTx
  <2>1. /\ pc' = "bkback" /\ retvalue' = TRUE /\ pc \in Back
        /\ ti' = IF pc = "txback" THEN 1 ELSE ti + 1
    BY <1>5, Zenon DEF SkipTx, DelTx, PastVouts, RollbackReturns
  <2>2. NewTxs' \subseteq NewTxs \ {ti}
    <3>1. CASE SkipTx
      BY <3>1 DEF SkipTx, NewTxs, block
    <3>2. CASE DelTx
      BY <3>2, TxPart, DelTxEffect
    <3> QED
      BY <1>5, <3>1, <3>2
  <2>3. ASSUME NEW i \in NewTxs' PROVE i >= ti'
    <3>1. i \in Nat \ {0} /\ ti \in Nat \ {0} /\ i # ti
      BY <1>0, <2>2 DEF TypeOK
    <3>2. pc = "bkback" => i >= ti
      BY <2>2 DEF BackPhase
    <3> QED
      BY <2>1, <3>1, <3>2 DEF Back
  <2> QED
    BY <2>1, <2>3
<1>6. CASE BlockFailed
  <2>1. pc = "bkback" /\ ti \notin DOMAIN txs /\ pc' = "failed" /\ NewTxs' = NewTxs
    BY <1>6 DEF BlockFailed, NewTxs, block
  <2>2. \A i \in NewTxs : i < ti /\ i >= ti
    BY <2>1, PastAll DEF BackPhase, NewTxs
  <2>3. NewTxs = {}
    BY <1>0, <2>2 DEF TypeOK
  <2> QED
    BY <2>1, <2>3 DEF Back
<1>7. CASE BeginBlock \/ ResolveForward \/ NextBlock
  <2>1. pc' \notin {"bkback", "failed"}
    BY <1>7 DEF BeginBlock, NextBlock, ResolveForward, VoutTakenForNew, AddTx, RefuseTx, Fail,
       VinCoinbase, VinFound, VinNotFound, VinThrows, VinsDone,
       VoutNoAddr, VoutKnown, VoutNew, VoutMismatch, VoutRefused, VoutsDone,
       BlockResolved
  <2>2. pc' = "txback" => retvalue' = TRUE
    BY <1>7 DEF BeginBlock, NextBlock, ResolveForward, VoutTakenForNew, AddTx, RefuseTx, Fail,
       VinCoinbase, VinFound, VinNotFound, VinThrows, VinsDone,
       VoutNoAddr, VoutKnown, VoutNew, VoutMismatch, VoutRefused, VoutsDone,
       BlockResolved
  <2> QED
    BY <2>1, <2>2, Zenon DEF Back
<1> QED
  BY <1>1, <1>2, <1>3, <1>4, <1>5, <1>6, <1>7 DEF Next, Rollback

\* A step back keeps what going back relies on.
LEMMA StepBack == IInv /\ TypeOK' /\ [Next]_vars => BackPhase'
BY StepBackOutputs, StepBackWhole DEF BackPhase

-----------------------------------------------------------------------------
\* The inputs that are behind stay resolved to older transactions.
LEMMA FoundIsEarlier ==
    ASSUME IInv, VinFound
    PROVE  /\ InputAt(ti, vi) \in TxHash
           /\ txdb[InputAt(ti, vi)] < txid[ti]
<1> USE DEF IInv
<1> DEFINE h == InputAt(ti, vi)
<1>1. pc = "vin" /\ ti \in DOMAIN txs /\ vi \in DOMAIN txs[ti].vins /\ txdb[h] # NotFound
  BY DEF VinFound, TypeOK
<1>2. h \in TxHash
  BY <1>1, BlockParts DEF VinFound, InputAt, VinSpec, TypeOK
<1>3. h # HashAt(ti)
  <2>1. txs \in Seq(Tx)
    BY DEF TypeOK, Block
  <2>2. txs[ti] \in Tx
    BY <1>1, <2>1
  <2> QED
    BY <1>1, <2>2 DEF Tx, InputAt, HashAt
<1>4. txid[ti] # NotFound /\ txid[ti] = COUNT.tx - 1
  BY <1>1 DEF ForwardPhase
<1>5. HashAt(ti) \in DOMAIN txdb /\ txdb[HashAt(ti)] = txid[ti]
  BY <1>1, <1>4 DEF TxLog, Log, NewTxs, HashOf
<1>6. h \in Keys(txdb) /\ HashAt(ti) \in Keys(txdb)
  BY <1>1, <1>2, <1>4, <1>5 DEF Keys, TypeOK, Store
<1>7. txdb[h] # txid[ti]
  BY <1>3, <1>5, <1>6 DEF Numbers, IdsUnique, Unique
<1>8. txdb[h] \in 0 .. COUNT.tx - 1
  BY <1>1, <1>6 DEF Numbers, Dense, Back, CountsAgree
<1> QED
  BY <1>2, <1>4, <1>7, <1>8, CountIsCounter, IncDec

\* An input that is behind keeps its number: the record it names is not
\* deleted while the block goes forward.
LEMMA StepInputs == IInv /\ TypeOK' /\ [Next]_vars => InputsBehind'
<1> SUFFICES ASSUME IInv, TypeOK', [Next]_vars PROVE InputsBehind'
  OBVIOUS
<1> USE DEF IInv
<1>0. /\ \A v \in VinsOf(txs) \cup VinsOf(txs)' :
            v = <<v[1], v[2]>> /\ v[1] \in Nat \ {0} /\ v[2] \in Nat \ {0}
      /\ ti \in Nat \ {0} /\ vi \in Nat \ {0}
  BY PlaceFacts DEF TypeOK
<1>1. CASE BeginBlock
  BY <1>0, <1>1, BeginBlockEffect DEF InputsBehind, Behind
<1>2. CASE AddTx
  <2>1. UNCHANGED <<txs, vin_id, ti>> /\ pc = "tx" /\ pc' = "vin" /\ vi' = 1
    BY <1>2, TxPart, AddTxEffect DEF AddTx
  <2>2. VinsOf(txs)' = VinsOf(txs)
    BY <2>1
  <2>3. ASSUME NEW v \in VinsOf(txs), Behind(v)', InputAt(v[1], v[2]) # Coinbase
        PROVE  InputResolved(v)'
    <3>1. v[1] < ti
      BY <1>0, <2>1, <2>3 DEF Behind
    <3>2. InputResolved(v)
      BY <2>1, <3>1 DEF InputsBehind, Behind, Forward
    <3>3. InputAt(v[1], v[2]) \in TxHash /\ v[1] \in DOMAIN txs
      BY <2>3, VinPlace, BlockParts DEF InputAt, VinSpec, TypeOK
    <3>4. txdb'[InputAt(v[1], v[2])] = txdb[InputAt(v[1], v[2])]
      BY <1>2, <2>3, <3>2, <3>3, TxPart, AddTxEffect DEF InputResolved, Put, TypeOK, Store
    <3>5. txid'[v[1]] = txid[v[1]]
      BY <1>0, <1>2, <3>1, <3>3, TxPart, AddTxEffect DEF TypeOK
    <3> QED
      BY <2>1, <3>2, <3>4, <3>5 DEF InputResolved, InputAt
  <2>4. ASSUME NEW v \in VinsOf(txs), InputAt(v[1], v[2]) = Coinbase
        PROVE  InputResolved(v)'
    BY <2>1, <2>4 DEF InputResolved, InputAt
  <2> QED
    BY <2>1, <2>2, <2>3, <2>4 DEF InputsBehind
<1>3. CASE VinFound
  <2>1. /\ UNCHANGED <<txs, txdb, txid, ti, pc>> /\ pc = "vin" /\ vi' = vi + 1
        /\ vin_id' = [vin_id EXCEPT ![<<ti, vi>>] = txdb[InputAt(ti, vi)]]
        /\ txdb[InputAt(ti, vi)] # NotFound
    BY <1>3 DEF VinFound, stores
  <2>2. VinsOf(txs)' = VinsOf(txs)
    BY <2>1
  <2>3. ASSUME NEW v \in VinsOf(txs), Behind(v)' PROVE InputResolved(v)'
    <3>1. CASE v = <<ti, vi>>
      <4>1. vin_id'[v] = txdb[InputAt(ti, vi)] /\ v[1] = ti /\ v[2] = vi
        BY <2>1, <3>1 DEF TypeOK
      <4> QED
        BY <1>3, <2>1, <4>1, FoundIsEarlier DEF InputResolved, InputAt
    <3>2. CASE v # <<ti, vi>>
      <4>1. Behind(v)
        BY <1>0, <2>1, <2>3, <3>2 DEF Behind
      <4>2. InputResolved(v)
        BY <2>1, <4>1 DEF InputsBehind, Forward
      <4>3. vin_id'[v] = vin_id[v]
        BY <2>1, <3>2 DEF TypeOK
      <4> QED
        BY <2>1, <4>2, <4>3 DEF InputResolved, InputAt
    <3> QED
      BY <3>1, <3>2
  <2> QED
    BY <2>1, <2>2, <2>3 DEF InputsBehind
<1>4. CASE VinCoinbase \/ VinsDone \/ VoutNoAddr \/ VoutKnown \/ VoutNew \/ VoutsDone
           \/ BlockResolved \/ UNCHANGED vars
  <2>1. UNCHANGED <<txs, txdb, txid, vin_id>>
    BY <1>4 DEF VinCoinbase, VinsDone, VoutNoAddr, VoutKnown, VoutNew, VoutsDone,
       BlockResolved, stores, block, vars
  <2>2. VinsOf(txs)' = VinsOf(txs)
    BY <2>1
  <2>3. ASSUME NEW v \in VinsOf(txs), Behind(v)', pc' \in Forward \cup {"resolved"}
        PROVE  Behind(v) \/ InputAt(v[1], v[2]) = Coinbase
    <3>1. CASE VinCoinbase
      BY <1>0, <2>3, <3>1 DEF VinCoinbase, Behind
    <3>2. CASE VinsDone
      <4>1. v[1] = ti => v[2] < vi
        BY <3>2, VinPlace, PastAll DEF VinsDone, TypeOK
      <4> QED
        BY <2>3, <3>2, <4>1 DEF VinsDone, Behind
    <3>3. CASE VoutNoAddr \/ VoutKnown \/ VoutNew
      BY <2>3, <3>3 DEF VoutNoAddr, VoutKnown, VoutNew, Behind
    <3>4. CASE VoutsDone
      BY <1>0, <2>3, <3>4 DEF VoutsDone, Behind
    <3>5. CASE BlockResolved \/ UNCHANGED vars
      BY <2>3, <3>5 DEF BlockResolved, vars, Behind
    <3> QED
      BY <1>4, <3>1, <3>2, <3>3, <3>4, <3>5
  <2>4. pc' \in Forward \cup {"resolved"} => pc \in Forward \cup {"resolved"}
    BY <1>4 DEF VinCoinbase, VinsDone, VoutNoAddr, VoutKnown, VoutNew, VoutsDone,
       BlockResolved, vars, Forward
  <2>5. pc' = "resolved" => ti' \notin DOMAIN txs'
    BY <1>4, <2>1 DEF VinCoinbase, VinsDone, VoutNoAddr, VoutKnown, VoutNew, VoutsDone,
       BlockResolved, vars, InputsBehind
  <2>6. ASSUME NEW v \in VinsOf(txs), InputResolved(v) \/ InputAt(v[1], v[2]) = Coinbase
        PROVE  InputResolved(v)'
    BY <2>1, <2>6 DEF InputResolved, InputAt
  <2> QED
    BY <2>2, <2>3, <2>4, <2>5, <2>6 DEF InputsBehind
<1>5. CASE RefuseTx \/ VinNotFound \/ VinThrows \/ VoutRefused \/ NextBlock \/ Rollback
  <2>1. pc' \notin Forward \cup {"resolved"}
    <3>1. CASE RefuseTx \/ VinNotFound \/ VinThrows \/ VoutRefused \/ NextBlock
      BY <3>1 DEF RefuseTx, VinNotFound, VinThrows, VoutRefused, NextBlock, Fail, Forward
    <3>2. CASE Rollback
      BY <3>2 DEF Rollback, Back, AtVout, SkipVout, DelAddr, DelAddrFails, PastVouts,
         SkipTx, DelTx, DelTxFails, KeepTx, RollbackReturns, BlockFailed, Forward
    <3> QED
      BY <1>5, <3>1, <3>2
  <2> QED
    BY <2>1 DEF InputsBehind
<1> QED
  BY <1>1, <1>2, <1>3, <1>4, <1>5, NoMismatch DEF Next, ResolveForward, VoutTakenForNew

\* No block is in hand, and the counters are those of the stores.
Begun ==
    /\ TypeOK
    /\ pc = "idle" /\ txs = <<>>
    /\ txdb0 = txdb /\ addrdb0 = addrdb
    /\ COUNT.tx = Cardinality(Keys(txdb)) /\ COUNT.addr = Cardinality(Keys(addrdb))

\* Whatever the stores hold, resolving begins in TxInv.
LEMMA BegunTxInv == Begun => TxInv
<1> SUFFICES ASSUME Begun PROVE TxInv
  OBVIOUS
<1>1. NewTxs = {}
  BY DEF Begun, NewTxs
<1> QED
  BY <1>1, LogEmpty DEF Begun, TypeOK, TxInv, TxLog

\* Resolving begins in IInv, if the stores it begins with are fit.
LEMMA BegunInv ==
    Begun /\ Dense(txdb) /\ Unique(txdb) /\ Dense(addrdb) /\ Unique(addrdb) => IInv
<1> SUFFICES ASSUME Begun, Dense(txdb), Unique(txdb), Dense(addrdb), Unique(addrdb)
             PROVE  IInv
  OBVIOUS
<1> USE DEF Begun
<1>1. VinsOf(txs) = {} /\ VoutsOf(txs) = {} /\ NewAddrs = {} /\ NewTxs = {}
  BY DEF VinsOf, VoutsOf, NewAddrs, NewTxs
<1>2. TxInv
  BY BegunTxInv
<1>3. CountsAgree
  BY DEF CountsAgree
<1>4. AddrLog
  BY <1>1, LogEmpty DEF AddrLog, TypeOK
<1>5. Numbers
  BY DEF Numbers, IdsUnique
<1>6. ForwardPhase /\ BackPhase /\ InputsBehind
  BY <1>1 DEF ForwardPhase, BackPhase, InputsBehind, Forward, Back
<1> QED
  BY <1>2, <1>3, <1>4, <1>5, <1>6 DEF IInv, TxInv

\* The initial states are such.
LEMMA InitBegun == Init => Begun
<1> SUFFICES ASSUME NEW s \in Starts, InitWith(s) PROVE Begun
  BY DEF Init
<1>1. TypeOK
  BY InitTypeOK DEF Init
<1>2. txdb = s.tx /\ addrdb = s.addr /\ COUNT.tx = Count(s.tx) /\ COUNT.addr = Count(s.addr)
  BY DEF InitWith
<1>3. COUNT.tx = Cardinality(Keys(txdb)) /\ COUNT.addr = Cardinality(Keys(addrdb))
  BY <1>1, <1>2, CountExact, ResolveAssumption DEF TypeOK
<1> QED
  BY <1>1, <1>3 DEF Begun, InitWith

\* So resolving begins in IInv.
LEMMA InitInv == FitStarts /\ Init => IInv
<1> SUFFICES ASSUME FitStarts, Init PROVE IInv
  OBVIOUS
<1>1. Dense(txdb) /\ Unique(txdb) /\ Dense(addrdb) /\ Unique(addrdb)
  BY DEF FitStarts, Init, InitWith
<1> QED
  BY <1>1, InitBegun, BegunInv

\* Every step keeps IInv.
LEMMA StepInv == IInv /\ [Next]_vars => IInv'
<1> SUFFICES ASSUME IInv, [Next]_vars PROVE IInv'
  OBVIOUS
<1>1. TypeOK'
  BY StepTypeOK DEF IInv
<1> QED
  BY <1>1, TxPart, StepTxInv, StepCounts, StepAddrLog, StepNumbers, StepForward, StepBack,
     StepInputs DEF IInv, TxInv

\* What TxInv means for the transactions.
LEMMA TxInvSafe == TxInv => TxsSafe
<1> SUFFICES ASSUME TxInv PROVE TxsSafe
  OBVIOUS
<1> USE DEF TxInv, TxLog
<1>1. \A k \in Keys(txdb0) : txdb[k] = txdb0[k]
  BY DEF Log
<1>2. ASSUME UndoneWhole PROVE txdb = txdb0
  <2>1. NewTxs = {}
    BY <1>2 DEF UndoneWhole, NewTxs
  <2> QED
    BY <2>1, LogEmpty DEF TypeOK
<1> QED
  BY <1>1, <1>2 DEF TxsSafe

\* Whatever stores resolving begins with, even if an earlier run left gaps in
\* them: TX_T::resolve and TX_T::rollback keep the transactions right.
THEOREM TxsSafeCorrect == Spec => []TxsSafe
<1>1. Init => TxInv
  BY InitBegun, BegunTxInv
<1>2. TxInv /\ [Next]_vars => TxInv'
  BY StepTxInv
<1> QED
  BY <1>1, <1>2, TxInvSafe, PTL DEF Spec

\* The ids in the block are the log of its records, forward and back
\* (TX_T::resolve, VOUT_T::resolve and the rollbacks), whatever the chain and
\* whatever fails.
THEOREM Inductive == FitStarts /\ Spec => []IInv
BY InitInv, StepInv, PTL DEF Spec

\* The counters of main.cpp never drift from the stores they stand beside.
THEOREM CountsCorrect == FitStarts /\ Spec => []CountsAgree
<1>1. IInv => CountsAgree
  BY DEF IInv
<1> QED
  BY <1>1, Inductive, PTL

\* No number is given to two keys: the count of a store is a fit number for
\* a new record (TK::add, TK::get_or_add) even after rollbacks.
THEOREM IdsUniqueCorrect == FitStarts /\ Spec => []IdsUnique
<1>1. IInv => IdsUnique
  BY DEF IInv, Numbers
<1> QED
  BY <1>1, Inductive, PTL

\* A record of an earlier block is out of the reach of every rollback.
THEOREM CommittedKept == FitStarts /\ Spec => []KeepsCommitted
<1>1. IInv => KeepsCommitted
  BY DEF IInv, TxLog, AddrLog, Log, KeepsCommitted
<1> QED
  BY <1>1, Inductive, PTL

\* A log without slots stands for stores that are as they were.
LEMMA WholeUndoRestores == IInv /\ NewTxs = {} => txdb = txdb0 /\ addrdb = addrdb0
<1> SUFFICES ASSUME IInv, NewTxs = {} PROVE txdb = txdb0 /\ addrdb = addrdb0
  OBVIOUS
<1> USE DEF IInv
<1>1. NewAddrs = {}
  BY DEF AddrLog
<1>2. txdb = txdb0
  BY LogEmpty DEF TxLog, TypeOK
<1>3. addrdb = addrdb0
  BY <1>1, LogEmpty DEF AddrLog, TypeOK
<1> QED
  BY <1>2, <1>3

\* BK_T::rollback, where every transaction says it is rolled back, restores
\* both stores and both counters, though it deletes from the front what was
\* added at the back.
THEOREM RollbackCorrect == FitStarts /\ Spec => []RollbackRestores
<1>1. IInv => RollbackRestores
  <2> SUFFICES ASSUME IInv, UndoneWhole
               PROVE  /\ txdb = txdb0 /\ addrdb = addrdb0
                      /\ COUNT.tx = Cardinality(Keys(txdb0))
                      /\ COUNT.addr = Cardinality(Keys(addrdb0))
    BY DEF RollbackRestores
  <2>1. NewTxs = {}
    BY DEF UndoneWhole, NewTxs
  <2>2. CountsAgree
    BY DEF IInv
  <2> QED
    BY <2>1, <2>2, WholeUndoRestores DEF CountsAgree
<1> QED
  BY <1>1, Inductive, PTL

\* Only the engine can make a rollback fail: what TX_T::rollback and
\* VOUT_T::rollback ask to delete is always there.
THEOREM RollbackSucceedsCorrect == FitStarts /\ Spec => []RollbackSucceeds
<1>1. IInv => RollbackSucceeds
  BY DEF IInv, BackPhase, RollbackSucceeds, UndoneWhole, NewTxs
<1> QED
  BY <1>1, Inductive, PTL

\* After a block that was undone whole, the numbers have no gaps again.
THEOREM NoGapsCorrect == FitStarts /\ Spec => []NoGaps
<1>1. IInv => NoGaps
  <2> SUFFICES ASSUME IInv, pc \notin Back, ~(pc = "failed" /\ ~UndoneWhole)
               PROVE  Dense(txdb) /\ Dense(addrdb)
    BY DEF NoGaps
  <2> USE DEF IInv
  <2>1. CASE pc # "failed"
    BY <2>1 DEF Numbers
  <2>2. CASE UndoneWhole
    <3>1. NewTxs = {}
      BY <2>2 DEF UndoneWhole, NewTxs
    <3> QED
      BY <3>1, WholeUndoRestores DEF Numbers
  <2> QED
    BY <2>1, <2>2
<1> QED
  BY <1>1, Inductive, PTL

\* TX_T::rollback takes the record of the transaction away only after those
\* of its outputs.
THEOREM NoOrphanAddrCorrect == FitStarts /\ Spec => []NoOrphanAddr
<1>1. IInv => NoOrphanAddr
  <2> SUFFICES ASSUME IInv, NEW k \in Keys(addrdb) \ Keys(addrdb0)
               PROVE  \E v \in VoutsOf(txs) :
                         AddrAt(v[1], v[2]) = k /\ txdb[HashAt(v[1])] # NotFound
    BY DEF NoOrphanAddr
  <2> USE DEF IInv
  <2>1. PICK v \in NewAddrs : AddrOf[v] = k
    BY DEF AddrLog, Log
  <2>2. v \in VoutsOf(txs) /\ AddrAt(v[1], v[2]) = k /\ v[1] \in NewTxs
    BY <2>1 DEF AddrOf, NewAddrs, AddrLog
  <2>3. txdb[HashAt(v[1])] # NotFound
    BY <2>2 DEF TxLog, Log, HashOf, NewTxs
  <2> QED
    BY <2>2, <2>3
<1> QED
  BY <1>1, Inductive, PTL

\* VIN_T::resolve gives every input of a resolved block the number of an
\* older transaction.
THEOREM SpendsEarlierCorrect == FitStarts /\ Spec => []SpendsEarlier
<1>1. IInv => SpendsEarlier
  <2> SUFFICES ASSUME IInv, pc = "resolved", NEW v \in VinsOf(txs),
                      InputAt(v[1], v[2]) # Coinbase
               PROVE  /\ vin_id[v] = txdb[InputAt(v[1], v[2])]
                      /\ vin_id[v] < txid[v[1]]
    BY DEF SpendsEarlier
  <2> USE DEF IInv
  <2>1. v[1] < ti
    BY VinPlace, PastAll DEF InputsBehind, TypeOK
  <2>2. InputResolved(v)
    BY <2>1 DEF InputsBehind, Behind
  <2> QED
    BY <2>2 DEF InputResolved
<1> QED
  BY <1>1, Inductive, PTL
=============================================================================
