---------------------------- MODULE LedgerProofs ----------------------------
(***************************************************************************)
(* Resolving implements the Ledger, for every chain, every fault and every *)
(* fit store it may begin with: the proof that ResolveLedger's mapping is  *)
(* a refinement.                                                           *)
(***************************************************************************)
EXTENDS ResolveLedger, ResolveProofs

-----------------------------------------------------------------------------
\* The numbers a key is meant to get: lemmas for keys at any places.
Placed(key) == \A p \in DOMAIN key : /\ p = <<p[1], p[2]>>
                                     /\ p[1] \in Nat /\ p[2] \in Nat

\* A key is first seen at one place only.
LEMMA FirstIs ==
    ASSUME NEW key, Placed(key), NEW p \in DOMAIN key, key[p] \notin Seen(key, p)
    PROVE  First(key, key[p]) = p
<1> DEFINE k == key[p]
           IsFirst(q) == key[q] = k /\ k \notin Seen(key, q)
<1>1. ASSUME NEW q \in DOMAIN key, IsFirst(q) PROVE q = p
  <2>1. ~ Earlier(q, p) /\ ~ Earlier(p, q)
    BY <1>1 DEF Seen
  <2>2. q[1] = p[1] /\ q[2] = p[2]
    BY <2>1 DEF Earlier, Placed
  <2> QED
    BY <2>2 DEF Placed
<1>2. IsFirst(p)
  OBVIOUS
<1>3. (CHOOSE q \in DOMAIN key : IsFirst(q)) = p
  BY <1>1, <1>2
<1> QED
  BY <1>3 DEF First

\* What is seen when a place has been passed.
LEMMA SeenPassed ==
    ASSUME NEW key, NEW p, NEW q,
           \A r \in DOMAIN key : Earlier(r, q) <=> Earlier(r, p) \/ r = p
    PROVE  Seen(key, q) = Seen(key, p) \cup (IF p \in DOMAIN key THEN {key[p]} ELSE {})
BY DEF Seen

\* A store that holds just the keys that were to be numbered, each under its
\* number, is the numbered one.
LEMMA AllNumbered ==
    ASSUME NEW K, NEW db0 \in Store(K), NEW db \in Store(K),
           NEW key, NEW p, \A q \in DOMAIN key : Earlier(q, p),
           AsSeen(db, db0, key, p)
    PROVE  db = Numbered(db0, key)
<1> USE DEF AsSeen
<1>1. DOMAIN db = K /\ DOMAIN db0 = K
  BY DEF Store
<1>2. ASSUME NEW k \in K, k \notin Keys(db) PROVE db[k] = Numbered(db0, key)[k]
  <2>1. db[k] = NotFound /\ db0[k] = NotFound /\ k \notin Seen(key, p)
    BY <1>1, <1>2 DEF Keys
  <2>2. ~ \E q \in DOMAIN key : key[q] = k
    BY <2>1 DEF Seen
  <2> QED
    BY <1>1, <2>1, <2>2 DEF Numbered
<1>3. \A k \in K : db[k] = Numbered(db0, key)[k]
  BY <1>2
<1>4. /\ Numbered(db0, key) = [k \in K |-> Numbered(db0, key)[k]]
      /\ db = [k \in K |-> db[k]]
  BY <1>1 DEF Numbered, Store
<1> QED
  BY <1>3, <1>4

-----------------------------------------------------------------------------
\* The places of a block, and the keys there.
LEMMA BlockKeys ==
    ASSUME NEW b \in Block
    PROVE  /\ Placed(HashPlaces(b)) /\ Placed(AddrPlaces(b, NoAddr))
           /\ \A p : p \in DOMAIN HashPlaces(b) <=> \E i \in DOMAIN b : p = <<i, 0>>
           /\ \A i \in DOMAIN b : HashPlaces(b)[<<i, 0>>] = b[i].hash /\ b[i].hash \in TxHash
           /\ \A p : p \in DOMAIN AddrPlaces(b, NoAddr) <=>
                        p \in VoutsOf(b) /\ b[p[1]].vouts[p[2]] # NoAddr
           /\ \A p \in DOMAIN AddrPlaces(b, NoAddr) :
                 /\ AddrPlaces(b, NoAddr)[p] = b[p[1]].vouts[p[2]]
                 /\ AddrPlaces(b, NoAddr)[p] \in AddrKey
<1>1. \A i \in DOMAIN b : i \in Nat \ {0}
  BY PlaceFacts
<1>2. /\ \A p : p \in DOMAIN HashPlaces(b) <=> \E i \in DOMAIN b : p = <<i, 0>>
      /\ \A i \in DOMAIN b : HashPlaces(b)[<<i, 0>>] = b[i].hash
  BY DEF HashPlaces
<1>3. \A i \in DOMAIN b : b[i].hash \in TxHash
  BY BlockParts
<1>4. OutPlaces(b) = VoutsOf(b)
  BY DEF OutPlaces, VoutsOf
<1>5. /\ DOMAIN AddrPlaces(b, NoAddr) = {p \in VoutsOf(b) : b[p[1]].vouts[p[2]] # NoAddr}
      /\ \A p \in DOMAIN AddrPlaces(b, NoAddr) : AddrPlaces(b, NoAddr)[p] = b[p[1]].vouts[p[2]]
  BY <1>4 DEF AddrPlaces
<1>6. \A p \in VoutsOf(b) : b[p[1]].vouts[p[2]] \in VoutSpec
  BY VoutPlace, BlockParts
<1>7. Placed(HashPlaces(b))
  BY <1>1, <1>2 DEF Placed
<1>8. Placed(AddrPlaces(b, NoAddr))
  BY <1>5, PlaceFacts DEF Placed
<1> QED
  BY <1>2, <1>3, <1>5, <1>6, <1>7, <1>8 DEF VoutSpec

\* Which of the outputs are passed when resolving goes on from output m of
\* transaction n, and none is before the first transaction.
LEMMA PassedVouts ==
    ASSUME NEW b \in Block, NEW n \in Nat \ {0}, NEW m \in Nat \ {0}, NEW p \in VoutsOf(b)
    PROVE  /\ ~ Earlier(p, <<1, 0>>)
           /\ Earlier(p, <<n, 1>>) <=> Earlier(p, <<n, 0>>)
           /\ Earlier(p, <<n, m + 1>>) <=> Earlier(p, <<n, m>>) \/ p = <<n, m>>
           /\ n \in DOMAIN b /\ m \notin DOMAIN b[n].vouts =>
                 (Earlier(p, <<n + 1, 0>>) <=> Earlier(p, <<n, m>>))
           /\ n \notin DOMAIN b => Earlier(p, <<n, 0>>)
<1> USE DEF Earlier
<1>1. \A i \in DOMAIN b : i \in Nat \ {0} /\ (n \notin DOMAIN b => i < n)
  BY DEF Block
<1>2. /\ p = <<p[1], p[2]>> /\ p[1] \in Nat \ {0} /\ p[2] \in Nat \ {0}
      /\ p[1] \in DOMAIN b /\ p[2] \in DOMAIN b[p[1]].vouts
  BY PlaceFacts, VoutPlace
<1>3. p = <<n, m>> <=> p[1] = n /\ p[2] = m
  BY <1>2
<1>4. ASSUME n \in DOMAIN b, m \notin DOMAIN b[n].vouts, p[1] = n
      PROVE  p[2] < m
  <2>1. PICK l \in Nat : DOMAIN b[n].vouts = 1 .. l
    BY <1>4, BlockParts
  <2> QED
    BY <1>2, <1>4, <2>1
<1>5. /\ ~ Earlier(p, <<1, 0>>)
      /\ Earlier(p, <<n, 1>>) <=> Earlier(p, <<n, 0>>)
      /\ Earlier(p, <<n, m + 1>>) <=> Earlier(p, <<n, m>>) \/ p = <<n, m>>
  BY <1>2, <1>3
<1>6. n \in DOMAIN b /\ m \notin DOMAIN b[n].vouts =>
                 (Earlier(p, <<n + 1, 0>>) <=> Earlier(p, <<n, m>>))
  BY <1>2, <1>4
<1>7. n \notin DOMAIN b => Earlier(p, <<n, 0>>)
  BY <1>1, <1>2
<1> QED
  BY <1>5, <1>6, <1>7

\* The same of the places of all keys.
LEMMA PassedPlaces ==
    ASSUME NEW b \in Block, NEW n \in Nat \ {0}, NEW m \in Nat \ {0}
    PROVE  /\ \A p \in DOMAIN HashPlaces(b) :
                 /\ ~ Earlier(p, <<1, 0>>)
                 /\ Earlier(p, <<n, 1>>) <=> Earlier(p, <<n, 0>>) \/ p = <<n, 0>>
                 /\ Earlier(p, <<n + 1, 0>>) <=> Earlier(p, <<n, 1>>)
                 /\ n \notin DOMAIN b => Earlier(p, <<n, 0>>)
           /\ \A p \in DOMAIN AddrPlaces(b, NoAddr) :
                 /\ ~ Earlier(p, <<1, 0>>)
                 /\ Earlier(p, <<n, 1>>) <=> Earlier(p, <<n, 0>>)
                 /\ Earlier(p, <<n, m + 1>>) <=> Earlier(p, <<n, m>>) \/ p = <<n, m>>
                 /\ n \in DOMAIN b /\ m \notin DOMAIN b[n].vouts =>
                       (Earlier(p, <<n + 1, 0>>) <=> Earlier(p, <<n, m>>))
                 /\ n \notin DOMAIN b => Earlier(p, <<n, 0>>)
<1> USE DEF Earlier
<1>1. \A i \in DOMAIN b : i \in Nat \ {0} /\ (n \notin DOMAIN b => i < n)
  BY DEF Block
<1>2. ASSUME NEW p \in DOMAIN HashPlaces(b)
      PROVE  /\ ~ Earlier(p, <<1, 0>>)
             /\ Earlier(p, <<n, 1>>) <=> Earlier(p, <<n, 0>>) \/ p = <<n, 0>>
             /\ Earlier(p, <<n + 1, 0>>) <=> Earlier(p, <<n, 1>>)
             /\ n \notin DOMAIN b => Earlier(p, <<n, 0>>)
  <2>1. PICK i \in DOMAIN b : p = <<i, 0>>
    BY BlockKeys
  <2>2. i \in Nat \ {0}
    BY <1>1
  <2>3. n \notin DOMAIN b => i < n
    BY <1>1
  <2> QED
    BY <2>1, <2>2, <2>3
<1>3. ASSUME NEW p \in DOMAIN AddrPlaces(b, NoAddr)
      PROVE  /\ ~ Earlier(p, <<1, 0>>)
             /\ Earlier(p, <<n, 1>>) <=> Earlier(p, <<n, 0>>)
             /\ Earlier(p, <<n, m + 1>>) <=> Earlier(p, <<n, m>>) \/ p = <<n, m>>
             /\ n \in DOMAIN b /\ m \notin DOMAIN b[n].vouts =>
                   (Earlier(p, <<n + 1, 0>>) <=> Earlier(p, <<n, m>>))
             /\ n \notin DOMAIN b => Earlier(p, <<n, 0>>)
  <2>1. p \in VoutsOf(b)
    BY BlockKeys
  <2> QED
    BY <2>1, PassedVouts
<1> QED
  BY <1>2, <1>3

-----------------------------------------------------------------------------
\* The block in hand stays what it is, and its height too, until the next one.
LEMMA HeightKept ==
    ASSUME TypeOK, [Next]_vars
    PROVE  \/ BeginBlock \/ NextBlock
           \/ /\ COUNT'.bk = COUNT.bk /\ txs' = txs /\ begun' = begun
              /\ pc = "idle" => pc' = "idle"
<1>1. CASE UNCHANGED vars
  BY <1>1 DEF vars, block
<1>2. CASE RefuseTx \/ VinCoinbase \/ VinFound \/ VinNotFound \/ VinThrows \/ VinsDone
  BY <1>2 DEF RefuseTx, VinCoinbase, VinFound, VinNotFound, VinThrows, VinsDone, block
<1>3. CASE VoutNoAddr \/ VoutRefused \/ VoutsDone \/ BlockResolved
  BY <1>3 DEF VoutNoAddr, VoutRefused, VoutsDone, BlockResolved, block
<1>4. CASE SkipVout \/ DelAddrFails \/ SkipTx \/ DelTxFails \/ KeepTx \/ BlockFailed
  BY <1>4 DEF SkipVout, DelAddrFails, SkipTx, DelTxFails, KeepTx, BlockFailed, block,
     AtVout, PastVouts, Back
<1>5. CASE AddTx \/ VoutKnown \/ VoutNew \/ VoutMismatch \/ DelAddr \/ DelTx
  <2>1. txs' = txs /\ begun' = begun /\ pc # "idle"
    BY <1>5 DEF AddTx, VoutKnown, VoutNew, VoutMismatch, DelAddr, DelTx, AtVout, PastVouts, Back
  <2>2. \/ COUNT' = COUNT
        \/ COUNT' = [COUNT EXCEPT !.tx = Inc(@)]
        \/ COUNT' = [COUNT EXCEPT !.tx = Dec(@)]
        \/ COUNT' = [COUNT EXCEPT !.addr = Inc(@)]
        \/ COUNT' = [COUNT EXCEPT !.addr = Dec(@)]
    BY <1>5 DEF AddTx, VoutKnown, VoutNew, VoutMismatch, DelAddr, DelTx
  <2> QED
    BY <2>1, <2>2 DEF TypeOK
<1> QED
  BY <1>1, <1>2, <1>3, <1>4, <1>5 DEF Next, ResolveForward, VoutTakenForNew, Rollback

\* main's loop hands over the blocks of the chain, those of glitch heights
\* without their transactions.
LEMMA StepInHand == TypeOK /\ BlockInHand /\ [Next]_vars => BlockInHand'
<1> SUFFICES ASSUME TypeOK, BlockInHand, [Next]_vars PROVE BlockInHand'
  OBVIOUS
<1> USE DEF BlockInHand, BlocksAt
<1>1. CASE BeginBlock
  BY <1>1 DEF BeginBlock, NewBlock
<1>2. CASE NextBlock
  BY <1>2 DEF NextBlock
<1> QED
  BY <1>1, <1>2, HeightKept

\* Which steps go on in a block, and how far.
LEMMA GoingOn ==
    ASSUME TypeOK, [Next]_vars, pc' \in Forward \cup {"resolved"}, ~ BeginBlock
    PROVE  /\ pc \in Forward \cup {"resolved"}
           /\ UNCHANGED <<begun, txs>>
           /\ \/ AddTx \/ VoutKnown \/ VoutNew \/ VoutNoAddr \/ VoutMismatch
              \/ (VinsDone \/ VoutsDone) /\ UNCHANGED <<stores, txid>>
              \/ UNCHANGED <<stores, txid, ti, TxPlace, AddrPlace>>
<1> USE DEF Forward
<1>1. CASE UNCHANGED vars
  BY <1>1 DEF vars, block, TxPlace, AddrPlace
<1>2. CASE RefuseTx \/ VinNotFound \/ VinThrows \/ VoutRefused \/ NextBlock
  BY <1>2 DEF RefuseTx, VinNotFound, VinThrows, VoutRefused, Fail, NextBlock
<1>3. CASE VinCoinbase \/ VinFound
  BY <1>3 DEF VinCoinbase, VinFound, TxPlace, AddrPlace, block
<1>4. CASE VinsDone \/ VoutsDone \/ BlockResolved
  BY <1>4 DEF VinsDone, VoutsDone, BlockResolved, TxPlace, AddrPlace, block
<1>5. CASE AddTx \/ VoutKnown \/ VoutNew \/ VoutNoAddr \/ VoutMismatch
  BY <1>5 DEF AddTx, VoutKnown, VoutNew, VoutNoAddr, VoutMismatch, block
<1>6. CASE Rollback
  BY <1>6 DEF Rollback, Back, AtVout, SkipVout, DelAddr, DelAddrFails, PastVouts,
     SkipTx, DelTx, DelTxFails, KeepTx, RollbackReturns, BlockFailed
<1> QED
  BY <1>1, <1>2, <1>3, <1>4, <1>5, <1>6 DEF Next, ResolveForward, VoutTakenForNew

\* A block that is begun has shown no key yet.
LEMMA BegunAsSeen ==
    ASSUME TypeOK, TypeOK', BeginBlock
    PROVE  TxsAsSeen' /\ AddrsAsSeen'
<1>1. /\ txdb' = txdb /\ txdb0' = txdb /\ addrdb' = addrdb /\ addrdb0' = addrdb
      /\ pc' = "tx" /\ ti' = 1
  BY BeginBlockEffect
<1>2. TxPlace' = <<1, 0>> /\ AddrPlace' = <<1, 0>>
  BY <1>1 DEF TxPlace, AddrPlace
<1>3. /\ \A p \in DOMAIN HashKeys' : ~ Earlier(p, <<1, 0>>)
      /\ \A p \in DOMAIN AddrKeys' : ~ Earlier(p, <<1, 0>>)
  BY PassedPlaces DEF TypeOK, HashKeys, AddrKeys
<1>4. Seen(HashKeys', <<1, 0>>) = {} /\ Seen(AddrKeys', <<1, 0>>) = {}
  BY <1>3 DEF Seen
<1>5. /\ \A k \in Keys(txdb) : Numbered(txdb, HashKeys')[k] = txdb[k]
      /\ \A k \in Keys(addrdb) : Numbered(addrdb, AddrKeys')[k] = addrdb[k]
  BY DEF Numbered, Keys
<1>6. \A i \in DOMAIN txs' : ~ (i < 1)
  BY PlaceFacts DEF TypeOK
<1> QED
  BY <1>1, <1>2, <1>4, <1>5, <1>6 DEF TxsAsSeen, AddrsAsSeen, AsSeen

\* A store that gets the key of a place under its count holds what is seen
\* past that place.
LEMMA PutAsSeen ==
    ASSUME NEW K, IsFiniteSet(K), NEW db0 \in Store(K), NEW db \in Store(K),
           NEW key, Placed(key), NEW p \in DOMAIN key, key[p] \in K, NEW q,
           \A r \in DOMAIN key : Earlier(r, q) <=> Earlier(r, p) \/ r = p,
           AsSeen(db, db0, key, p), db[key[p]] = NotFound,
           Cardinality(Keys(db)) \in U32 \ {NotFound}
    PROVE  AsSeen(Put(db, key[p], Cardinality(Keys(db))), db0, key, q)
<1> DEFINE n   == Cardinality(Keys(db))
           new == Put(db, key[p], n)
<1>1. Seen(key, q) = Seen(key, p) \cup {key[p]}
  BY SeenPassed
<1>2. Keys(new) = Keys(db) \cup {key[p]}
  BY PutNew
<1>3. new[key[p]] = Numbered(db0, key)[key[p]]
  <2>1. new[key[p]] = n
    BY DEF Put, Store
  <2>2. Keys(db) = Keys(db0) \cup Seen(key, p)
    BY DEF AsSeen
  <2>3. key[p] \notin Seen(key, p) /\ db0[key[p]] = NotFound
    BY <2>2 DEF Keys, Store
  <2>4. First(key, key[p]) = p
    BY <2>3, FirstIs
  <2>5. Numbered(db0, key)[key[p]] = n
    BY <2>2, <2>3, <2>4 DEF Numbered, Store
  <2> QED
    BY <2>1, <2>5
<1>4. \A k \in Keys(db) : new[k] = db[k]
  BY DEF Put, Store, Keys
<1> HIDE DEF new
<1>5. AsSeen(new, db0, key, q)
  BY <1>1, <1>2, <1>3, <1>4 DEF AsSeen
<1> QED
  BY <1>5 DEF new

\* Going on, the transactions are as they are seen.
LEMMA StepTxsAsSeen ==
    ASSUME IInv, TypeOK', [Next]_vars, ~ BeginBlock,
           pc' \in Forward \cup {"resolved"}, TxsAsSeen
    PROVE  TxsAsSeen'
<1> USE DEF IInv
<1>0. UNCHANGED <<txdb0, txs>> /\ HashKeys' = HashKeys
  BY GoingOn DEF begun, HashKeys
<1>1. /\ txs \in Block /\ ti \in Nat \ {0} /\ vi \in Nat \ {0}
      /\ txdb \in Store(TxHash) /\ txdb0 \in Store(TxHash)
  BY DEF TypeOK
<1>2. \A i \in DOMAIN txs : i \in Nat \ {0}
  BY <1>1, PlaceFacts
<1>3. CASE AddTx
  <2> DEFINE p == <<ti, 0>>
  <2>1. /\ ti \in DOMAIN txs /\ HashOf[ti] = HashAt(ti) /\ txdb[HashAt(ti)] = NotFound
        /\ COUNT.tx \in U32 /\ COUNT.tx # NotFound
        /\ txdb' = Put(txdb, HashAt(ti), COUNT.tx)
        /\ pc = "tx" /\ pc' = "vin" /\ ti' = ti
        /\ txid' = [txid EXCEPT ![ti] = COUNT.tx]
    BY <1>3, TxPart, AddTxEffect DEF HashOf, AddTx
  <2>2. TxPlace = p /\ TxPlace' = <<ti, 1>>
    BY <2>1 DEF TxPlace
  <2>3. /\ p \in DOMAIN HashKeys /\ HashKeys[p] = HashAt(ti) /\ HashAt(ti) \in TxHash
        /\ Placed(HashKeys)
    BY <1>1, <2>1, BlockKeys DEF HashKeys, HashAt
  <2>4. \A r \in DOMAIN HashKeys : Earlier(r, <<ti, 1>>) <=> Earlier(r, p) \/ r = p
    BY <1>1, PassedPlaces DEF HashKeys
  <2>5. COUNT.tx = Cardinality(Keys(txdb))
    BY DEF CountsAgree
  <2>6. AsSeen(txdb, txdb0, HashKeys, p)
    BY <2>2 DEF TxsAsSeen
  <2> HIDE DEF p
  <2>7. AsSeen(txdb', txdb0, HashKeys, <<ti, 1>>)
    BY <1>1, <2>1, <2>3, <2>4, <2>5, <2>6, PutAsSeen, ResolveAssumption
  <2>8. \A i \in DOMAIN txs : i < ti => txid'[i] # NotFound
    BY <1>1, <2>1 DEF TxsAsSeen, TypeOK
  <2> QED
    BY <1>0, <2>1, <2>2, <2>7, <2>8 DEF TxsAsSeen
<1>4. CASE VinsDone \/ VoutsDone
  <2>1. UNCHANGED <<txdb, txid>>
    BY <1>4 DEF VinsDone, VoutsDone, stores, block
  <2>2. Seen(HashKeys, TxPlace') = Seen(HashKeys, TxPlace)
    <3>1. CASE VinsDone
      BY <3>1 DEF VinsDone, TxPlace
    <3>2. CASE VoutsDone
      <4>1. TxPlace = <<ti, 1>> /\ TxPlace' = <<ti + 1, 0>>
        BY <3>2 DEF VoutsDone, TxPlace
      <4>2. \A p \in DOMAIN HashKeys : Earlier(p, <<ti + 1, 0>>) <=> Earlier(p, <<ti, 1>>)
        BY <1>1, PassedPlaces DEF HashKeys
      <4> QED
        BY <4>1, <4>2 DEF Seen
    <3> QED
      BY <1>4, <3>1, <3>2
  <2>3. \A i \in DOMAIN txs : i < ti' => txid[i] # NotFound
    <3>1. CASE VinsDone
      BY <3>1 DEF VinsDone, TxsAsSeen
    <3>2. CASE VoutsDone
      <4>1. txid[ti] # NotFound /\ ti' = ti + 1
        BY <3>2 DEF VoutsDone, ForwardPhase
      <4> QED
        BY <1>1, <1>2, <4>1 DEF TxsAsSeen
    <3> QED
      BY <1>4, <3>1, <3>2
  <2> QED
    BY <1>0, <2>1, <2>2, <2>3 DEF TxsAsSeen, AsSeen
<1>5. CASE VoutKnown \/ VoutNew \/ VoutNoAddr
  <2>1. UNCHANGED <<txdb, txid, ti, TxPlace>>
    BY <1>5 DEF VoutKnown, VoutNew, VoutNoAddr, TxPlace, stores, block
  <2> QED
    BY <1>0, <2>1 DEF TxsAsSeen
<1>6. CASE UNCHANGED <<stores, txid, ti, TxPlace, AddrPlace>>
  BY <1>0, <1>6 DEF TxsAsSeen, stores
<1> QED
  BY <1>3, <1>4, <1>5, <1>6, GoingOn, NoMismatch

\* So are the addresses.
LEMMA StepAddrsAsSeen ==
    ASSUME IInv, TypeOK', [Next]_vars, ~ BeginBlock,
           pc' \in Forward \cup {"resolved"}, AddrsAsSeen
    PROVE  AddrsAsSeen'
<1> USE DEF IInv
<1>0. UNCHANGED <<addrdb0, txs>> /\ AddrKeys' = AddrKeys
  BY GoingOn DEF begun, AddrKeys
<1>1. /\ txs \in Block /\ ti \in Nat \ {0} /\ vi \in Nat \ {0}
      /\ addrdb \in Store(AddrKey) /\ addrdb0 \in Store(AddrKey)
  BY DEF TypeOK
<1>2. CASE VoutKnown \/ VoutNew \/ VoutNoAddr
  <2> DEFINE p == <<ti, vi>>
             q == <<ti, vi + 1>>
  <2>1. /\ pc = "vout" /\ pc' = "vout" /\ ti' = ti /\ vi' = vi + 1
        /\ ti \in DOMAIN txs /\ vi \in DOMAIN txs[ti].vouts
    BY <1>2 DEF VoutKnown, VoutNew, VoutNoAddr, TypeOK
  <2>2. AddrPlace = p /\ AddrPlace' = q
    BY <2>1 DEF AddrPlace
  <2>3. \A r \in DOMAIN AddrKeys : Earlier(r, q) <=> Earlier(r, p) \/ r = p
    BY <1>1, PassedPlaces DEF AddrKeys
  <2>4. Placed(AddrKeys) /\ \A r \in DOMAIN AddrKeys : AddrKeys[r] = AddrAt(r[1], r[2])
    BY <1>1, BlockKeys DEF AddrKeys, AddrAt
  <2>5. p \in DOMAIN AddrKeys <=> AddrAt(ti, vi) # NoAddr
    BY <1>1, <2>1, BlockKeys, VoutPlace DEF AddrKeys, AddrAt
  <2>6. AsSeen(addrdb, addrdb0, AddrKeys, p)
    BY <2>2 DEF AddrsAsSeen
  <2>7. CASE VoutNew
    <3>1. AddrAt(ti, vi) # NoAddr /\ AddrAt(ti, vi) \in AddrKey /\ AddrOf[p] = AddrAt(ti, vi)
      BY <2>1, <2>7, SlotAtVout DEF VoutNew
    <3>2. p \in DOMAIN AddrKeys /\ AddrKeys[p] = AddrAt(ti, vi)
      BY <2>4, <2>5, <3>1
    <3>3. COUNT.addr = Cardinality(Keys(addrdb))
      BY DEF CountsAgree
    <3>4. /\ addrdb[AddrKeys[p]] = NotFound
          /\ COUNT.addr \in U32 /\ COUNT.addr # NotFound
          /\ addrdb' = Put(addrdb, AddrKeys[p], COUNT.addr)
      BY <2>7, <3>1, <3>2, VoutNewEffect
    <3> HIDE DEF p, q
    <3>5. AsSeen(addrdb', addrdb0, AddrKeys, q)
      BY <1>1, <2>3, <2>4, <2>6, <3>1, <3>2, <3>3, <3>4, PutAsSeen, ResolveAssumption
    <3> QED
      BY <1>0, <2>2, <3>5 DEF AddrsAsSeen
  <2>8. CASE VoutKnown
    <3>1. AddrAt(ti, vi) # NoAddr /\ AddrAt(ti, vi) \in AddrKey /\ AddrOf[p] = AddrAt(ti, vi)
      BY <2>1, <2>8, SlotAtVout DEF VoutKnown
    <3>2. addrdb' = addrdb /\ AddrAt(ti, vi) \in Keys(addrdb)
      BY <2>8, <3>1, <1>1, VoutKnownEffect DEF Keys, Store
    <3>3. Seen(AddrKeys, q) = Seen(AddrKeys, p) \cup {AddrAt(ti, vi)}
      <4>1. p \in DOMAIN AddrKeys /\ AddrKeys[p] = AddrAt(ti, vi)
        BY <2>4, <2>5, <3>1
      <4> HIDE DEF p, q
      <4> QED
        BY <2>3, <4>1, SeenPassed
    <3> QED
      BY <1>0, <2>2, <2>6, <3>2, <3>3 DEF AddrsAsSeen, AsSeen
  <2>9. CASE VoutNoAddr
    <3>1. addrdb' = addrdb /\ p \notin DOMAIN AddrKeys
      BY <2>5, <2>9 DEF VoutNoAddr, stores
    <3>2. Seen(AddrKeys, q) = Seen(AddrKeys, p)
      <4> HIDE DEF p, q
      <4>1. Seen(AddrKeys, q) = Seen(AddrKeys, p) \cup
                                (IF p \in DOMAIN AddrKeys THEN {AddrKeys[p]} ELSE {})
        BY <2>3, SeenPassed
      <4> QED
        BY <3>1, <4>1
    <3> QED
      BY <1>0, <2>2, <2>6, <3>1, <3>2 DEF AddrsAsSeen, AsSeen
  <2> QED
    BY <1>2, <2>7, <2>8, <2>9
<1>3. CASE VinsDone \/ VoutsDone
  <2>1. UNCHANGED addrdb
    BY <1>3 DEF VinsDone, VoutsDone, stores
  <2>2. Seen(AddrKeys, AddrPlace') = Seen(AddrKeys, AddrPlace)
    <3>1. CASE VinsDone
      <4>1. AddrPlace = <<ti, 0>> /\ AddrPlace' = <<ti, 1>>
        BY <3>1 DEF VinsDone, AddrPlace
      <4>2. \A p \in DOMAIN AddrKeys : Earlier(p, <<ti, 1>>) <=> Earlier(p, <<ti, 0>>)
        BY <1>1, PassedPlaces DEF AddrKeys
      <4> QED
        BY <4>1, <4>2 DEF Seen
    <3>2. CASE VoutsDone
      <4>1. /\ AddrPlace = <<ti, vi>> /\ AddrPlace' = <<ti + 1, 0>>
            /\ ti \in DOMAIN txs /\ vi \notin DOMAIN txs[ti].vouts
        BY <3>2 DEF VoutsDone, AddrPlace, TypeOK
      <4>2. \A p \in DOMAIN AddrKeys : Earlier(p, <<ti + 1, 0>>) <=> Earlier(p, <<ti, vi>>)
        BY <1>1, <4>1, PassedPlaces DEF AddrKeys
      <4> QED
        BY <4>1, <4>2 DEF Seen
    <3> QED
      BY <1>3, <3>1, <3>2
  <2> QED
    BY <1>0, <2>1, <2>2 DEF AddrsAsSeen, AsSeen
<1>4. CASE AddTx
  <2>1. UNCHANGED <<addrdb, AddrPlace>>
    BY <1>4, TxPart, AddTxEffect DEF AddTx, AddrPlace
  <2> QED
    BY <1>0, <2>1 DEF AddrsAsSeen
<1>5. CASE UNCHANGED <<stores, txid, ti, TxPlace, AddrPlace>>
  BY <1>0, <1>5 DEF AddrsAsSeen, stores
<1> QED
  BY <1>2, <1>3, <1>4, <1>5, GoingOn, NoMismatch

\* Going back only takes records away.
LEMMA StepAsNumbered ==
    ASSUME IInv, NumbersAsSeen, TypeOK', [Next]_vars,
           pc' \in Forward \cup {"resolved"} => TxsAsSeen' /\ AddrsAsSeen'
    PROVE  AsNumbered'
<1> USE DEF IInv, NumbersAsSeen
<1>1. CASE pc' \in Forward \cup {"resolved"}
  BY <1>1 DEF AsNumbered, TxsAsSeen, AddrsAsSeen, AsSeen
<1>2. CASE pc' \notin Forward \cup {"resolved"} /\ pc' # "idle"
  <2>1. ~ BeginBlock /\ ~ NextBlock /\ ~ AddTx /\ ~ VoutNew
    BY <1>2, TxPart, AddTxEffect DEF BeginBlock, NextBlock, VoutNew, Forward
  <2>2. pc # "idle" /\ UNCHANGED <<txs, txdb0, addrdb0>>
    BY <1>2, <2>1, HeightKept DEF begun
  <2>3. HashKeys' = HashKeys /\ AddrKeys' = AddrKeys
    BY <2>2 DEF HashKeys, AddrKeys
  <2>4. /\ \A k \in Keys(txdb') : k \in Keys(txdb) /\ txdb'[k] = txdb[k]
        /\ \A k \in Keys(addrdb') : k \in Keys(addrdb) /\ addrdb'[k] = addrdb[k]
    <3>1. CASE DelTx
      BY <3>1, TxPart, DelTxEffect DEF DelTx, Deleted, Keys, TypeOK, Store
    <3>2. CASE DelAddr
      BY <3>2, DelAddrEffect DEF DelAddr, Deleted, Keys, TypeOK, Store
    <3>3. CASE VoutKnown
      BY <3>3, VoutKnownEffect DEF VoutKnown
    <3>4. CASE Quiet
      BY <3>4 DEF Quiet, stores
    <3> QED
      BY <2>1, <3>1, <3>2, <3>3, <3>4, QuietSteps, NoMismatch
  <2> QED
    BY <2>2, <2>3, <2>4 DEF AsNumbered
<1>3. CASE pc' = "idle"
  BY <1>3 DEF AsNumbered
<1> QED
  BY <1>1, <1>2, <1>3

\* Every step keeps the numbers as they are seen.
LEMMA StepAsSeen == IInv /\ NumbersAsSeen /\ [Next]_vars => NumbersAsSeen'
<1> SUFFICES ASSUME IInv, NumbersAsSeen, [Next]_vars PROVE NumbersAsSeen'
  OBVIOUS
<1>1. TypeOK /\ TypeOK'
  BY StepTypeOK DEF IInv
<1>2. BlockInHand'
  BY <1>1, StepInHand DEF NumbersAsSeen
<1>3. ASSUME pc' \in Forward \cup {"resolved"} PROVE TxsAsSeen' /\ AddrsAsSeen'
  BY <1>1, <1>3, BegunAsSeen, GoingOn, StepTxsAsSeen, StepAddrsAsSeen DEF NumbersAsSeen
<1>4. AsNumbered'
  BY <1>1, <1>3, StepAsNumbered
<1> QED
  BY <1>2, <1>3, <1>4 DEF NumbersAsSeen

\* Nothing is seen before resolving begins.
LEMMA IdleAsSeen == pc = "idle" => NumbersAsSeen
BY DEF NumbersAsSeen, BlockInHand, AsNumbered, Forward

-----------------------------------------------------------------------------
\* A later place has seen more, and more keys are not fewer.
LEMMA SeenGrows ==
    ASSUME NEW b \in Block, NEW db \in Store(TxHash), NEW i \in Nat, NEW j \in Nat, i <= j
    PROVE  Cardinality(Keys(db) \cup Seen(HashPlaces(b), <<i, 0>>))
              <= Cardinality(Keys(db) \cup Seen(HashPlaces(b), <<j, 0>>))
<1> DEFINE key == HashPlaces(b)
           S == Keys(db) \cup Seen(key, <<i, 0>>)
           T == Keys(db) \cup Seen(key, <<j, 0>>)
<1>1. \A p \in DOMAIN key : Earlier(p, <<i, 0>>) => Earlier(p, <<j, 0>>)
  <2>1. \A p \in DOMAIN key : p[1] \in Nat /\ p[2] = 0
    BY BlockKeys, PlaceFacts
  <2> QED
    BY <2>1 DEF Earlier
<1>2. S \subseteq T
  BY <1>1 DEF Seen
<1>3. T \subseteq TxHash
  <2>1. \A p \in DOMAIN key : key[p] \in TxHash
    BY BlockKeys
  <2> QED
    BY <2>1 DEF Seen, Keys, Store
<1>4. IsFiniteSet(T)
  BY <1>3, FS_Subset, ResolveAssumption
<1> QED
  BY <1>2, <1>4, FS_Subset

\* A block that is resolved is one the ledger takes: the transactions are new,
\* each one once,
LEMMA ResolvedIsNew ==
    ASSUME IInv, NumbersAsSeen, BlockResolved
    PROVE  /\ \A i \in DOMAIN txs : /\ txid[i] # NotFound /\ txdb[HashAt(i)] = txid[i]
                                    /\ HashAt(i) \notin Keys(txdb0)
           /\ \A i, j \in DOMAIN txs : HashAt(i) = HashAt(j) => i = j
<1> USE DEF IInv
<1>1. pc = "tx" /\ ti \notin DOMAIN txs
  BY DEF BlockResolved
<1>2. \A i \in DOMAIN txs : i < ti
  BY <1>1, PastAll
<1>3. \A i \in DOMAIN txs : i \in NewTxs /\ HashOf[i] = HashAt(i)
  BY <1>1, <1>2 DEF NumbersAsSeen, TxsAsSeen, Forward, NewTxs, HashOf
<1> QED
  BY <1>3 DEF TxLog, Log, NewTxs, Keys

\* their numbers are those of the reference, and so are the addresses',
LEMMA ResolvedIsNumbered ==
    ASSUME IInv, NumbersAsSeen, BlockResolved
    PROVE  /\ txdb = Numbered(txdb0, HashKeys)
           /\ addrdb = Numbered(addrdb0, AddrKeys)
           /\ Keys(txdb) = Keys(txdb0) \cup {HashAt(i) : i \in DOMAIN txs}
           /\ \A i \in DOMAIN txs :
                 txid[i] = Cardinality(Keys(txdb0) \cup Seen(HashKeys, <<i, 0>>))
<1> USE DEF IInv
<1>1. /\ pc = "tx" /\ ti \notin DOMAIN txs /\ txs \in Block
      /\ ti \in Nat \ {0} /\ vi \in Nat \ {0}
      /\ txdb \in Store(TxHash) /\ txdb0 \in Store(TxHash)
      /\ addrdb \in Store(AddrKey) /\ addrdb0 \in Store(AddrKey)
  BY DEF BlockResolved, TypeOK
<1>2. /\ AsSeen(txdb, txdb0, HashKeys, <<ti, 0>>)
      /\ AsSeen(addrdb, addrdb0, AddrKeys, <<ti, 0>>)
  BY <1>1 DEF NumbersAsSeen, TxsAsSeen, AddrsAsSeen, TxPlace, AddrPlace, Forward
<1>3. /\ \A p \in DOMAIN HashKeys : Earlier(p, <<ti, 0>>)
      /\ \A p \in DOMAIN AddrKeys : Earlier(p, <<ti, 0>>)
  BY <1>1, PassedPlaces DEF HashKeys, AddrKeys
<1>4. txdb = Numbered(txdb0, HashKeys)
  BY <1>1, <1>2, <1>3, AllNumbered
<1>5. addrdb = Numbered(addrdb0, AddrKeys)
  BY <1>1, <1>2, <1>3, AllNumbered
<1>6. /\ \A p : p \in DOMAIN HashKeys <=> \E i \in DOMAIN txs : p = <<i, 0>>
      /\ \A i \in DOMAIN txs : HashKeys[<<i, 0>>] = HashAt(i) /\ HashAt(i) \in TxHash
      /\ Placed(HashKeys)
  BY <1>1, BlockKeys DEF HashKeys, HashAt
<1>7. Seen(HashKeys, <<ti, 0>>) = {HashAt(i) : i \in DOMAIN txs}
  <2>1. Seen(HashKeys, <<ti, 0>>) = {HashKeys[p] : p \in DOMAIN HashKeys}
    BY <1>3 DEF Seen
  <2>2. \A i \in DOMAIN txs : <<i, 0>> \in DOMAIN HashKeys
    BY <1>6
  <2>3. {HashAt(i) : i \in DOMAIN txs} \subseteq {HashKeys[p] : p \in DOMAIN HashKeys}
    BY <1>6, <2>2
  <2>4. ASSUME NEW p \in DOMAIN HashKeys PROVE HashKeys[p] \in {HashAt(i) : i \in DOMAIN txs}
    BY <1>6
  <2> QED
    BY <2>1, <2>3, <2>4
<1>8. ASSUME NEW i \in DOMAIN txs
      PROVE  txid[i] = Cardinality(Keys(txdb0) \cup Seen(HashKeys, <<i, 0>>))
  <2> DEFINE p == <<i, 0>>
  <2>1. p \in DOMAIN HashKeys /\ HashKeys[p] = HashAt(i)
    BY <1>6
  <2>2. \A q \in DOMAIN HashKeys : HashKeys[q] = HashAt(i) => q = p
    BY <1>6, ResolvedIsNew
  <2>3. ~ Earlier(p, p)
    <3>1. i \in Nat
      BY <1>1, PlaceFacts
    <3>2. ~ (i < i)
      BY <3>1
    <3> QED
      BY <3>2 DEF Earlier
  <2>4. HashAt(i) \notin Seen(HashKeys, p)
    BY <2>2, <2>3 DEF Seen
  <2>5. First(HashKeys, HashAt(i)) = p
    BY <1>6, <2>1, <2>4, FirstIs
  <2>6. txdb0[HashAt(i)] = NotFound /\ HashAt(i) \in DOMAIN txdb0
    BY <1>1, <1>6, ResolvedIsNew DEF Keys, Store
  <2>7. Numbered(txdb0, HashKeys)[HashAt(i)]
           = Cardinality(Keys(txdb0) \cup Seen(HashKeys, p))
    BY <2>1, <2>5, <2>6 DEF Numbered
  <2> QED
    BY <1>4, <2>7, ResolvedIsNew
<1>9. Keys(txdb) = Keys(txdb0) \cup {HashAt(i) : i \in DOMAIN txs}
  BY <1>2, <1>7 DEF AsSeen
<1> QED
  BY <1>4, <1>5, <1>8, <1>9

\* and what they spend is in the ledger or before them in the block.
LEMMA ResolvedSpends ==
    ASSUME IInv, NumbersAsSeen, BlockResolved, NEW i \in DOMAIN txs,
           NEW j \in DOMAIN txs[i].vins, InputAt(i, j) # Coinbase
    PROVE  \/ InputAt(i, j) \in Keys(txdb0)
           \/ \E l \in DOMAIN txs : l < i /\ InputAt(i, j) = HashAt(l)
<1> USE DEF IInv
<1> DEFINE h == InputAt(i, j)
           v == <<i, j>>
<1>1. txs \in Block /\ v \in VinsOf(txs) /\ v[1] = i /\ v[2] = j
  BY VinPlace DEF TypeOK
<1>2. i < ti /\ pc = "tx" /\ \A l \in DOMAIN txs : l \in Nat
  BY <1>1, PastAll, PlaceFacts DEF BlockResolved
<1>3. Behind(v) /\ InputResolved(v)
  BY <1>1, <1>2 DEF Behind, InputsBehind, Forward
<1>4. txdb[h] # NotFound /\ txdb[h] < txid[i]
  BY <1>1, <1>3 DEF InputResolved
<1>5. h \in TxHash
  BY <1>1, BlockParts DEF InputAt, VinSpec
<1>6. h \in Keys(txdb)
  BY <1>4, <1>5 DEF Keys, TypeOK, Store
<1>7. ASSUME NEW l \in DOMAIN txs, h = HashAt(l) PROVE l < i
  <2>1. txid[l] < txid[i]
    BY <1>4, <1>7, ResolvedIsNew
  <2>2. txid[l] \in Nat /\ txid[i] \in Nat
    BY IncDec DEF TypeOK
  <2>3. ASSUME i <= l PROVE txid[i] <= txid[l]
    <3>1. i \in Nat /\ l \in Nat /\ txdb0 \in Store(TxHash)
      BY <1>2 DEF TypeOK
    <3>2. Cardinality(Keys(txdb0) \cup Seen(HashKeys, <<i, 0>>))
             <= Cardinality(Keys(txdb0) \cup Seen(HashKeys, <<l, 0>>))
      BY <1>1, <2>3, <3>1, SeenGrows DEF HashKeys
    <3> QED
      BY <3>2, ResolvedIsNumbered
  <2> QED
    BY <1>2, <2>1, <2>2, <2>3
<1> QED
  BY <1>6, <1>7, ResolvedIsNumbered

-----------------------------------------------------------------------------
\* The ledger speaks of keys and numbers as Resolve does.
LEMMA SameTerms ==
    /\ \A db : Committed!Keys(db) = Keys(db)
    /\ \A db, key : Committed!Numbered(db, key) = Numbered(db, key)
    /\ \A b : Committed!HashPlaces(b) = HashPlaces(b)
    /\ \A b : Committed!AddrPlaces(b, NoAddr) = AddrPlaces(b, NoAddr)
    /\ \A n : Committed!BlocksAt(n) = BlocksAt(n)
    /\ \A b : Committed!Hashes(b) = Hashes(b)
    /\ \A K : Committed!Store(K) = Store(K)
<1>1. \A db : Committed!Keys(db) = Keys(db)
  BY DEF Committed!Keys, Keys, Committed!NotFound, NotFound
<1>4. \A db, key : Committed!Numbered(db, key) = Numbered(db, key)
  BY DEF Committed!Numbered, Numbered, Committed!NotFound, NotFound,
         Committed!Keys, Keys, Committed!First, First, Committed!Seen, Seen,
         Committed!Earlier, Earlier, Committed!Cardinality, Cardinality
<1>5. \A b : /\ Committed!HashPlaces(b) = HashPlaces(b)
             /\ Committed!AddrPlaces(b, NoAddr) = AddrPlaces(b, NoAddr)
             /\ Committed!Hashes(b) = Hashes(b)
  <2>1. \A b : Committed!OutPlaces(b) = OutPlaces(b)
    BY DEF Committed!OutPlaces, OutPlaces
  <2>2. \A b : Committed!AddrPlaces(b, NoAddr) = AddrPlaces(b, NoAddr)
    BY <2>1 DEF Committed!AddrPlaces, AddrPlaces
  <2>3. \A b : Committed!HashPlaces(b) = HashPlaces(b)
    BY DEF Committed!HashPlaces, HashPlaces
  <2>4. \A b : Committed!Hashes(b) = Hashes(b)
    BY DEF Committed!Hashes, Hashes
  <2> QED
    BY <2>2, <2>3, <2>4
<1>6. \A n : Committed!BlocksAt(n) = BlocksAt(n)
  BY DEF Committed!BlocksAt, BlocksAt
<1>7. \A K : Committed!Store(K) = Store(K)
  BY DEF Committed!Store, Store, Committed!U32, U32
<1> QED
  BY <1>1, <1>4, <1>5, <1>6, <1>7

\* What the ledger sees of a state: nothing of a block that is not resolved.
SeenTxs    == IF InHand THEN txdb0 ELSE txdb
SeenAddrs  == IF InHand THEN addrdb0 ELSE addrdb
SeenHeight == COUNT.bk + (IF pc = "resolved" THEN 1 ELSE 0)
SeenStatus == IF pc \notin Ended THEN "running"
              ELSE IF txdb = txdb0 /\ addrdb = addrdb0 THEN "stopped" ELSE "torn"

\* The ledger begins with what resolving begins with.
LEMMA InitLedger == Init => Committed!Init
<1> SUFFICES ASSUME NEW s \in Starts, InitWith(s) PROVE Committed!Init
  BY DEF Init
<1>1. pc = "idle" /\ txdb = s.tx /\ addrdb = s.addr /\ COUNT.bk = s.bk
  BY DEF InitWith
<1>2. /\ SeenTxs = s.tx /\ SeenAddrs = s.addr /\ SeenStatus = "running"
      /\ SeenHeight = COUNT.bk + 0
  BY <1>1 DEF SeenTxs, SeenAddrs, SeenStatus, SeenHeight, InHand, Forward, Back, Ended
<1>3. s.bk + 0 = s.bk
  BY ResolveAssumption
<1> QED
  BY <1>1, <1>2, <1>3 DEF Committed!Init, SeenTxs, SeenAddrs, SeenStatus, SeenHeight

\* BK_T::resolve comes to its end: the block is committed.
LEMMA ResolvedCommits ==
    ASSUME IInv, NumbersAsSeen, BlockResolved
    PROVE  Committed!Next
<1> USE DEF IInv, InHand, Forward, Back, Ended
<1>1. /\ pc = "tx" /\ pc' = "resolved"
      /\ UNCHANGED <<txdb, addrdb, txdb0, addrdb0, COUNT>>
  BY DEF BlockResolved, stores, begun
<1>2. COUNT.bk < Len(Chain) /\ txs \in BlocksAt(COUNT.bk)
  BY <1>1 DEF NumbersAsSeen, BlockInHand
<1>3. COUNT.bk \in Nat
  BY DEF TypeOK
<1>4. Committed!Valid(txs)
  <2>1. \A i \in DOMAIN txs : Hashes(txs)[i] = HashAt(i)
    BY DEF Hashes, HashAt
  <2>2. \A i \in DOMAIN txs : Hashes(txs)[i] \notin Keys(txdb0)
    BY <2>1, ResolvedIsNew
  <2>3. Committed!IsInjective(Hashes(txs))
    BY <2>1, ResolvedIsNew DEF Committed!IsInjective, Hashes
  <2>4. ASSUME NEW i \in DOMAIN txs, NEW h \in Committed!ToSet(txs[i].vins) \ {Coinbase}
        PROVE  h \in Keys(txdb0) \cup {Hashes(txs)[j] : j \in 1 .. i - 1}
    <3>1. PICK j \in DOMAIN txs[i].vins : h = InputAt(i, j)
      BY <2>4 DEF Committed!ToSet, InputAt
    <3>2. CASE h \in Keys(txdb0)
      BY <3>2
    <3>3. CASE \E l \in DOMAIN txs : l < i /\ h = HashAt(l)
      <4>1. PICK l \in DOMAIN txs : l < i /\ h = HashAt(l)
        BY <3>3
      <4>2. l \in Nat \ {0} /\ i \in Nat
        BY PlaceFacts DEF TypeOK
      <4> QED
        BY <2>1, <4>1, <4>2
    <3> QED
      BY <2>4, <3>1, <3>2, <3>3, ResolvedSpends
  <2> QED
    BY <1>1, <2>2, <2>3, <2>4, SameTerms DEF Committed!Valid
<1>5. /\ txdb = Numbered(txdb0, HashPlaces(txs))
      /\ addrdb = Numbered(addrdb0, AddrPlaces(txs, NoAddr))
  BY ResolvedIsNumbered DEF HashKeys, AddrKeys
<1>6. Committed!Commit
  <2>1. SeenStatus = "running" /\ SeenHeight < Len(Chain) /\ SeenStatus' = SeenStatus
    BY <1>1, <1>2, <1>3 DEF SeenStatus, SeenHeight
  <2>2. SeenHeight' = SeenHeight + 1
    BY <1>1, <1>3 DEF SeenHeight
  <2>3. /\ SeenTxs' = Numbered(SeenTxs, HashPlaces(txs))
        /\ SeenAddrs' = Numbered(SeenAddrs, AddrPlaces(txs, NoAddr))
    BY <1>1, <1>5 DEF SeenTxs, SeenAddrs
  <2>4. txs \in BlocksAt(SeenHeight)
    BY <1>1, <1>2, <1>3 DEF SeenHeight
  <2> QED
    BY <1>4, <2>1, <2>2, <2>3, <2>4, SameTerms
       DEF Committed!Commit, SeenTxs, SeenAddrs, SeenHeight, SeenStatus
<1> QED
  BY <1>6 DEF Committed!Next

\* A block without transactions is never rolled back (BK_T::resolve).
NeverEmpty == pc \in Back => txs # <<>>

LEMMA StepNeverEmpty == TypeOK /\ NeverEmpty /\ [Next]_vars => NeverEmpty'
<1> SUFFICES ASSUME TypeOK, NeverEmpty, [Next]_vars, pc' \in Back PROVE txs' # <<>>
  BY DEF NeverEmpty
<1> USE DEF Back
<1>1. txs' = txs
  BY HeightKept DEF BeginBlock, NextBlock
<1>2. CASE pc \in Back
  BY <1>1, <1>2 DEF NeverEmpty
<1>3. CASE pc \notin Back
  <2>1. ~ Rollback /\ ~ UNCHANGED vars /\ ~ BeginBlock /\ ~ NextBlock
    BY <1>3 DEF Rollback, AtVout, SkipVout, DelAddr, DelAddrFails, PastVouts, SkipTx, DelTx,
       DelTxFails, KeepTx, BlockFailed, BeginBlock, NextBlock, vars
  <2>2. \/ AddTx \/ RefuseTx \/ VinNotFound \/ VoutMismatch \/ VoutRefused
    BY <2>1 DEF Next, ResolveForward, VinCoinbase, VinFound, VinThrows, VinsDone, VoutNoAddr,
       VoutKnown, VoutTakenForNew, VoutNew, VoutsDone, BlockResolved
  <2>3. ti \in DOMAIN txs
    BY <2>2 DEF AddTx, RefuseTx, VinNotFound, VoutMismatch, VoutRefused, TypeOK
  <2> QED
    BY <1>1, <2>3
<1> QED
  BY <1>2, <1>3

\* A block that fails, or an abort: the ledger stops, or is torn.
LEMMA EndStops ==
    ASSUME IInv, NumbersAsSeen, NeverEmpty, VinThrows \/ BlockFailed
    PROVE  Committed!Next
<1> USE DEF IInv, InHand, Forward, Back, Ended
<1>1. /\ pc \in Forward \cup Back /\ pc' \in Ended
      /\ UNCHANGED <<txdb, addrdb, txdb0, addrdb0, COUNT>>
  BY DEF VinThrows, BlockFailed, stores, begun
<1>2. COUNT.bk < Len(Chain) /\ COUNT.bk \in Nat /\ txs \in BlocksAt(COUNT.bk)
  BY <1>1 DEF NumbersAsSeen, BlockInHand, TypeOK
<1>3. /\ SeenStatus = "running" /\ SeenHeight < Len(Chain) /\ SeenHeight' = SeenHeight
      /\ SeenTxs = txdb0 /\ SeenAddrs = addrdb0 /\ SeenTxs' = txdb /\ SeenAddrs' = addrdb
      /\ SeenHeight = COUNT.bk
  BY <1>1, <1>2 DEF SeenStatus, SeenHeight, SeenTxs, SeenAddrs
<1>4. \E b \in BlocksAt(SeenHeight) : b # <<>>
  <2>1. txs # <<>>
    <3>1. VinThrows => ti \in DOMAIN txs
      BY DEF VinThrows, TypeOK
    <3>2. BlockFailed => pc \in Back
      BY DEF BlockFailed
    <3> QED
      BY <3>1, <3>2 DEF NeverEmpty
  <2> QED
    BY <1>2, <1>3, <2>1
<1>5. Committed!Fallible
  BY <1>4, SameTerms DEF Committed!Fallible, SeenHeight
<1>6. CASE txdb = txdb0 /\ addrdb = addrdb0
  <2>1. SeenStatus' = "stopped" /\ SeenTxs' = SeenTxs /\ SeenAddrs' = SeenAddrs
    BY <1>1, <1>3, <1>6 DEF SeenStatus
  <2> QED
    BY <1>3, <1>5, <2>1 DEF Committed!Next, Committed!Stop,
       SeenTxs, SeenAddrs, SeenHeight, SeenStatus
<1>7. CASE ~ (txdb = txdb0 /\ addrdb = addrdb0)
  <2>1. SeenStatus' = "torn"
    BY <1>1, <1>7 DEF SeenStatus
  <2>2. /\ \A k \in Keys(txdb0) : txdb[k] = txdb0[k]
        /\ \A k \in Keys(addrdb0) : addrdb[k] = addrdb0[k]
    BY DEF TxLog, AddrLog, Log
  <2>3. Committed!Extends(txdb, txdb0) /\ Committed!Extends(addrdb, addrdb0)
    BY <2>2, SameTerms DEF Committed!Extends
  <2>4. txdb \in Committed!Store(TxHash) /\ addrdb \in Committed!Store(AddrKey)
    BY SameTerms DEF TypeOK
  <2> QED
    BY <1>3, <1>7, <1>5, <2>1, <2>3, <2>4 DEF Committed!Next, Committed!Tear,
       SeenTxs, SeenAddrs, SeenHeight, SeenStatus
<1> QED
  BY <1>6, <1>7

\* Every other step is one that the ledger does not see.
LEMMA OthersUnseen ==
    ASSUME IInv, [Next]_vars, ~ BlockResolved, ~ VinThrows, ~ BlockFailed
    PROVE  UNCHANGED <<SeenTxs, SeenAddrs, SeenHeight, SeenStatus>>
<1> USE DEF IInv, SeenTxs, SeenAddrs, SeenHeight, SeenStatus, InHand, Forward, Back, Ended
<1>1. CASE UNCHANGED vars
  BY <1>1 DEF vars, stores, begun
<1>2. CASE BeginBlock
  BY <1>2 DEF BeginBlock, stores
<1>3. CASE NextBlock
  BY <1>3 DEF NextBlock, stores, TypeOK
<1>4. CASE ~ BeginBlock /\ ~ NextBlock /\ ~ UNCHANGED vars
  <2>1. COUNT'.bk = COUNT.bk /\ UNCHANGED <<txdb0, addrdb0>>
    BY <1>4, HeightKept DEF begun
  <2>2. pc \in Forward \cup Back /\ pc' \in Forward \cup Back
    <3>1. CASE AddTx \/ RefuseTx \/ VinCoinbase \/ VinFound \/ VinNotFound \/ VinsDone
      <4>1. pc' = "vin" \/ pc' = "txback" \/ pc' = pc \/ pc' = "vout"
        BY <3>1 DEF AddTx, RefuseTx, VinCoinbase, VinFound, VinNotFound, VinsDone, Fail
      <4> QED
        BY <3>1, <4>1 DEF AddTx, RefuseTx, VinCoinbase, VinFound, VinNotFound, VinsDone
    <3>2. CASE VoutNoAddr \/ VoutKnown \/ VoutNew \/ VoutMismatch \/ VoutRefused \/ VoutsDone
      BY <3>2 DEF VoutNoAddr, VoutKnown, VoutNew, VoutMismatch, VoutRefused, VoutsDone, Fail
    <3>3. CASE Rollback
      BY <3>3 DEF Rollback, AtVout, SkipVout, DelAddr, DelAddrFails, PastVouts,
         SkipTx, DelTx, DelTxFails, KeepTx, RollbackReturns
    <3> QED
      BY <1>4, <3>1, <3>2, <3>3 DEF Next, ResolveForward, VoutTakenForNew
  <2> QED
    BY <2>1, <2>2
<1> QED
  BY <1>1, <1>2, <1>3, <1>4

\* Every step of resolving is a step of the ledger, or none.
LEMMA StepLedger ==
    IInv /\ NumbersAsSeen /\ NeverEmpty /\ [Next]_vars => [Committed!Next]_(Committed!vars)
<1> SUFFICES ASSUME IInv, NumbersAsSeen, NeverEmpty, [Next]_vars
             PROVE  [Committed!Next]_(Committed!vars)
  OBVIOUS
<1>1. CASE BlockResolved
  BY <1>1, ResolvedCommits
<1>2. CASE VinThrows \/ BlockFailed
  BY <1>2, EndStops
<1>3. CASE ~ BlockResolved /\ ~ VinThrows /\ ~ BlockFailed
  BY <1>3, OthersUnseen DEF Committed!vars, SeenTxs, SeenAddrs, SeenHeight, SeenStatus
<1> QED
  BY <1>1, <1>2, <1>3

\* The numbers are as they are seen, from every fit start on: the stores of a
\* resolved block are the reference's, key for key.
THEOREM NumbersAsSeenCorrect == FitStarts /\ Spec => []NumbersAsSeen
<1>1. Init => NumbersAsSeen
  BY IdleAsSeen DEF Init, InitWith
<1>2. IInv /\ NumbersAsSeen /\ [Next]_vars => NumbersAsSeen'
  BY StepAsSeen
<1> QED
  BY <1>1, <1>2, Inductive, PTL DEF Spec

\* Resolving implements the ledger: a block that BK_T::resolve commits is
\* committed whole, with the numbers of the order in which its transactions
\* and addresses are first seen; a failure or an abort takes no record away,
\* whatever fails and wherever.
THEOREM LedgerImplemented == FitStarts /\ Spec => ImplementsLedger
<1>1. Init => Committed!Init
  BY InitLedger
<1>2. IInv /\ NumbersAsSeen /\ NeverEmpty /\ [Next]_vars => [Committed!Next]_(Committed!vars)
  BY StepLedger
<1>3. Init => NeverEmpty
  BY DEF Init, InitWith, NeverEmpty, Back
<1>4. IInv /\ NeverEmpty /\ [Next]_vars => NeverEmpty'
  BY StepNeverEmpty DEF IInv
<1> QED
  BY <1>1, <1>2, <1>3, <1>4, Inductive, NumbersAsSeenCorrect, PTL
     DEF Spec, ImplementsLedger, Committed!Spec

-----------------------------------------------------------------------------
\* The ids that a block gives are the next ones.

\* Of the transactions: what a step does to them, and where it leaves the loop.
LEMMA TxIdSteps ==
    ASSUME TypeOK, [Next]_vars, pc' \in Forward \cup {"resolved"}, ~ BeginBlock
    PROVE  \/ AddTx \/ VoutNew \/ VoutMismatch
           \/ /\ UNCHANGED <<txid, COUNT>>
              /\ \/ ti' = ti /\ (pc \in {"vin", "vout"} <=> pc' \in {"vin", "vout"})
                 \/ ti' = ti + 1 /\ pc = "vout" /\ pc' = "tx"
<1> USE DEF Forward
<1>1. CASE UNCHANGED vars
  BY <1>1 DEF vars, block
<1>2. CASE RefuseTx \/ VinNotFound \/ VinThrows \/ VoutRefused \/ NextBlock
  BY <1>2 DEF RefuseTx, VinNotFound, VinThrows, VoutRefused, Fail, NextBlock
<1>3. CASE VinCoinbase \/ VinFound \/ VinsDone \/ VoutNoAddr \/ VoutKnown
  BY <1>3 DEF VinCoinbase, VinFound, VinsDone, VoutNoAddr, VoutKnown, block
<1>4. CASE VoutsDone \/ BlockResolved
  BY <1>4 DEF VoutsDone, BlockResolved, block
<1>5. CASE Rollback
  BY <1>5 DEF Rollback, Back, AtVout, SkipVout, DelAddr, DelAddrFails, PastVouts,
     SkipTx, DelTx, DelTxFails, KeepTx, RollbackReturns, BlockFailed
<1> QED
  BY <1>1, <1>2, <1>3, <1>4, <1>5 DEF Next, ResolveForward, VoutTakenForNew

LEMMA CountedBefore ==
    TypeOK => Cardinality(Keys(txdb0)) \in Nat /\ Cardinality(Keys(addrdb0)) \in Nat
BY CountType, ResolveAssumption DEF TypeOK

LEMMA StepTxIds ==
    ASSUME IInv, TypeOK', [Next]_vars, pc' \in Forward \cup {"resolved"}, ~ BeginBlock,
           TxIdsNext
    PROVE  TxIdsNext'
<1> USE DEF IInv
<1>1. UNCHANGED <<txdb0, txs>>
  BY GoingOn DEF begun
<1>2. /\ Cardinality(Keys(txdb0)) \in Nat /\ ti \in Nat /\ txid \in [DOMAIN txs -> U32]
      /\ Len(txs) \in Nat /\ (pc = "vout" => ti <= Len(txs))
  BY CountedBefore DEF TypeOK, Block
<1>3. CASE AddTx
  <2>1. ti' = ti
    BY <1>3 DEF AddTx
  <2>2. /\ txid' = [txid EXCEPT ![ti] = COUNT.tx] /\ COUNT'.tx = COUNT.tx + 1
        /\ pc = "tx" /\ pc' = "vin"
    BY <1>3, TxPart, AddTxEffect
  <2> QED
    BY <1>1, <1>2, <2>1, <2>2 DEF TxIdsNext
<1>4. CASE VoutNew
  <2>1. COUNT'.tx = COUNT.tx
    BY <1>4, VoutNewEffect
  <2>2. UNCHANGED <<pc, ti, txid>>
    BY <1>4 DEF VoutNew
  <2> QED
    BY <1>1, <2>1, <2>2 DEF TxIdsNext
<1>5. CASE /\ UNCHANGED <<txid, COUNT>>
           /\ \/ ti' = ti /\ (pc \in {"vin", "vout"} <=> pc' \in {"vin", "vout"})
              \/ ti' = ti + 1 /\ pc = "vout" /\ pc' = "tx"
  BY <1>1, <1>2, <1>5 DEF TxIdsNext
<1> QED
  BY <1>3, <1>4, <1>5, TxIdSteps, NoMismatch

\* Of the addresses.
LEMMA AddrIdSteps ==
    ASSUME TypeOK, [Next]_vars, pc' \in Forward \cup {"resolved"}, ~ BeginBlock
    PROVE  \/ VoutKnown \/ VoutNew \/ VoutMismatch
           \/ /\ UNCHANGED <<addr_id, addr_is_new>> /\ (AddTx \/ COUNT' = COUNT)
              /\ AddTx \/ VoutNoAddr \/ VinsDone \/ VoutsDone \/ UNCHANGED AddrPlace
<1> USE DEF Forward
<1>1. CASE UNCHANGED vars
  BY <1>1 DEF vars, block, AddrPlace
<1>2. CASE RefuseTx \/ VinNotFound \/ VinThrows \/ VoutRefused \/ NextBlock
  BY <1>2 DEF RefuseTx, VinNotFound, VinThrows, VoutRefused, Fail, NextBlock
<1>3. CASE VinCoinbase \/ VinFound \/ BlockResolved
  BY <1>3 DEF VinCoinbase, VinFound, BlockResolved, AddrPlace, block
<1>4. CASE AddTx \/ VoutNoAddr \/ VinsDone \/ VoutsDone
  BY <1>4 DEF AddTx, VoutNoAddr, VinsDone, VoutsDone, block
<1>5. CASE Rollback
  BY <1>5 DEF Rollback, Back, AtVout, SkipVout, DelAddr, DelAddrFails, PastVouts,
     SkipTx, DelTx, DelTxFails, KeepTx, RollbackReturns, BlockFailed
<1> QED
  BY <1>1, <1>2, <1>3, <1>4, <1>5 DEF Next, ResolveForward, VoutTakenForNew

\* The slots of addresses, and the ids they get, as resolving goes on.
LEMMA SlotKnown ==
    ASSUME IInv, TypeOK', VoutKnown, AddrIdsPassed
    PROVE  LET p == <<ti, vi>> IN
           /\ p \in VoutsOf(txs) /\ AddrAt(ti, vi) # NoAddr
           /\ addr_id' = [addr_id EXCEPT ![p] = addrdb[AddrAt(ti, vi)]]
           /\ addrdb[AddrAt(ti, vi)] # NotFound
           /\ p \notin NewAddrs /\ NewAddrs' = NewAddrs
           /\ COUNT' = COUNT
<1> USE DEF IInv
<1> DEFINE p == <<ti, vi>>
<1>1. /\ pc = "vout" /\ AddrAt(ti, vi) # NoAddr /\ p \in VoutsOf(txs)
      /\ AddrOf[p] = AddrAt(ti, vi) /\ ti \in Nat /\ vi \in Nat
  BY SlotAtVout DEF VoutKnown, TypeOK
<1>2. /\ addrdb[AddrAt(ti, vi)] # NotFound
      /\ addr_id' = [addr_id EXCEPT ![p] = addrdb[AddrAt(ti, vi)]]
  BY <1>1, VoutKnownEffect
<1>3. addr_id[p] = NotFound
  BY <1>1 DEF AddrIdsPassed, AddrPlace, Earlier
<1>4. ~addr_is_new[p]
  BY <1>1, <1>3 DEF ForwardPhase, Forward
<1>5. UNCHANGED <<txs, addr_is_new, COUNT>>
  BY DEF VoutKnown
<1>6. \A v \in VoutsOf(txs) : v # p => addr_id'[v] = addr_id[v]
  BY <1>2 DEF TypeOK
<1>7. NewAddrs' = NewAddrs
  BY <1>4, <1>5, <1>6 DEF NewAddrs, ToUndo
<1> QED
  BY <1>1, <1>2, <1>4, <1>5, <1>7 DEF NewAddrs, ToUndo

LEMMA SlotNew ==
    ASSUME IInv, TypeOK', VoutNew, AddrIdsPassed
    PROVE  LET p == <<ti, vi>> IN
           /\ p \in VoutsOf(txs) /\ AddrAt(ti, vi) # NoAddr
           /\ addr_id' = [addr_id EXCEPT ![p] = COUNT.addr]
           /\ COUNT.addr # NotFound /\ COUNT.addr \in Nat
           /\ p \notin NewAddrs /\ NewAddrs' = NewAddrs \cup {p}
           /\ COUNT'.addr = COUNT.addr + 1
<1> USE DEF IInv
<1> DEFINE p == <<ti, vi>>
<1>1. /\ pc = "vout" /\ AddrAt(ti, vi) # NoAddr /\ p \in VoutsOf(txs)
      /\ ti \in Nat /\ vi \in Nat
  BY SlotAtVout DEF VoutNew, TypeOK
<1>2. /\ addr_id' = [addr_id EXCEPT ![p] = COUNT.addr]
      /\ addr_is_new' = [addr_is_new EXCEPT ![p] = TRUE]
      /\ COUNT.addr # NotFound /\ COUNT.addr \in Nat /\ COUNT'.addr = COUNT.addr + 1
  BY VoutNewEffect DEF U32
<1>3. addr_id[p] = NotFound
  BY <1>1 DEF AddrIdsPassed, AddrPlace, Earlier
<1>4. txs' = txs
  BY DEF VoutNew
<1>5. /\ \A v \in VoutsOf(txs) : v # p => /\ addr_id'[v] = addr_id[v]
                                         /\ addr_is_new'[v] = addr_is_new[v]
      /\ addr_id'[p] = COUNT.addr /\ addr_is_new'[p]
  BY <1>1, <1>2 DEF TypeOK
<1>6. NewAddrs' = NewAddrs \cup {p}
  BY <1>1, <1>2, <1>4, <1>5 DEF NewAddrs, ToUndo
<1> QED
  BY <1>1, <1>2, <1>3, <1>6 DEF NewAddrs, ToUndo

\* How far resolving has come among the outputs.
LEMMA AddrPassedOn ==
    ASSUME TypeOK, TypeOK', AddTx \/ VoutKnown \/ VoutNew \/ VoutNoAddr \/ VinsDone \/ VoutsDone
                            \/ UNCHANGED AddrPlace,
           NEW v \in VoutsOf(txs)
    PROVE  Earlier(v, AddrPlace') <=>
              \/ Earlier(v, AddrPlace)
              \/ (VoutKnown \/ VoutNew \/ VoutNoAddr) /\ v = <<ti, vi>>
<1>1. txs \in Block /\ ti \in Nat \ {0} /\ vi \in Nat \ {0}
  BY DEF TypeOK
<1>2. CASE VoutKnown \/ VoutNew \/ VoutNoAddr
  <2>1. pc = "vout" /\ pc' = "vout" /\ ti' = ti /\ vi' = vi + 1
    BY <1>2 DEF VoutKnown, VoutNew, VoutNoAddr
  <2>2. AddrPlace = <<ti, vi>> /\ AddrPlace' = <<ti, vi + 1>>
    BY <2>1 DEF AddrPlace
  <2> QED
    BY <1>1, <1>2, <2>2, PassedVouts
<1>3. CASE VinsDone
  <2>1. AddrPlace = <<ti, 0>> /\ AddrPlace' = <<ti, 1>> /\ pc = "vin"
    BY <1>3 DEF VinsDone, AddrPlace
  <2> QED
    BY <1>1, <2>1, PassedVouts DEF VoutKnown, VoutNew, VoutNoAddr
<1>4. CASE VoutsDone
  <2>1. /\ AddrPlace = <<ti, vi>> /\ AddrPlace' = <<ti + 1, 0>>
        /\ ti \in DOMAIN txs /\ vi \notin DOMAIN txs[ti].vouts
    BY <1>4 DEF VoutsDone, AddrPlace, TypeOK
  <2> QED
    BY <1>1, <2>1, PassedVouts DEF VoutKnown, VoutNew, VoutNoAddr
<1>5. CASE AddTx /\ pc' \in {"vin", "txback"}
  <2>1. AddrPlace' = AddrPlace /\ pc = "tx"
    BY <1>5 DEF AddTx, AddrPlace
  <2> QED
    BY <2>1 DEF VoutKnown, VoutNew, VoutNoAddr
<1>6. AddTx => pc' \in {"vin", "txback"}
  BY DEF AddTx, Fail
<1>7. CASE UNCHANGED AddrPlace
  BY <1>1, <1>2, <1>7
<1> QED
  BY <1>2, <1>3, <1>4, <1>5, <1>6, <1>7

LEMMA StepAddrPassed ==
    ASSUME IInv, TypeOK', [Next]_vars, pc' \in Forward \cup {"resolved"}, ~ BeginBlock,
           AddrIdsPassed
    PROVE  AddrIdsPassed'
<1> USE DEF IInv
<1>1. txs' = txs
  BY GoingOn
<1> SUFFICES ASSUME NEW v \in VoutsOf(txs)
             PROVE  addr_id'[v] # NotFound <=>
                       Earlier(v, AddrPlace') /\ AddrAt(v[1], v[2]) # NoAddr
  BY <1>1 DEF AddrIdsPassed, AddrAt
<1>2. addr_id[v] # NotFound <=> Earlier(v, AddrPlace) /\ AddrAt(v[1], v[2]) # NoAddr
  BY DEF AddrIdsPassed
<1>3. CASE VoutKnown
  BY <1>2, <1>3, SlotKnown, AddrPassedOn DEF TypeOK
<1>4. CASE VoutNew
  BY <1>2, <1>4, SlotNew, AddrPassedOn DEF TypeOK
<1>5. CASE VoutNoAddr
  <2>1. UNCHANGED addr_id /\ AddrAt(ti, vi) = NoAddr
    BY <1>5 DEF VoutNoAddr, block
  <2> QED
    BY <1>2, <1>5, <2>1, AddrPassedOn
<1>6. CASE UNCHANGED addr_id /\ ~VoutNoAddr /\ ~VoutKnown /\ ~VoutNew /\
           (AddTx \/ VinsDone \/ VoutsDone \/ UNCHANGED AddrPlace)
  BY <1>2, <1>6, AddrPassedOn
<1> QED
  BY <1>3, <1>4, <1>5, <1>6, AddrIdSteps, NoMismatch

LEMMA StepAddrIds ==
    ASSUME IInv, TypeOK', [Next]_vars, pc' \in Forward \cup {"resolved"}, ~ BeginBlock,
           AddrIdsNext, AddrIdsKnown, AddrIdsPassed
    PROVE  AddrIdsNext' /\ AddrIdsKnown'
<1> USE DEF IInv
<1> DEFINE n == Cardinality(Keys(addrdb0))
           p == <<ti, vi>>
<1>1. UNCHANGED <<addrdb0, txs>> /\ n' = n
  BY GoingOn DEF begun
<1>2. n \in Nat /\ addr_id \in [VoutsOf(txs) -> U32] /\ NewAddrs \subseteq VoutsOf(txs)
      /\ COUNT.addr \in Nat /\ \A v \in VoutsOf(txs) : addr_id[v] \in Nat
  BY CountedBefore DEF TypeOK, NewAddrs, U32
<1>3. n <= COUNT.addr /\ {addr_id[v] : v \in NewAddrs} = n .. COUNT.addr - 1
  BY DEF AddrIdsNext
<1>4. \A v \in NewAddrs : pc = "vout" => Earlier(v, p)
  BY DEF NewAddrs, ToUndo, AddrIdsPassed, AddrPlace
<1>5. CASE VoutNew
  <2>1. /\ p \in VoutsOf(txs) /\ addr_id' = [addr_id EXCEPT ![p] = COUNT.addr]
        /\ p \notin NewAddrs /\ NewAddrs' = NewAddrs \cup {p}
        /\ COUNT'.addr = COUNT.addr + 1 /\ pc = "vout"
    BY <1>5, SlotNew DEF VoutNew
  <2>2. addr_id'[p] = COUNT.addr /\ \A v \in VoutsOf(txs) : v # p => addr_id'[v] = addr_id[v]
    BY <1>2, <2>1
  <2>3. {addr_id'[v] : v \in NewAddrs'} = {addr_id[v] : v \in NewAddrs} \cup {COUNT.addr}
    BY <1>2, <2>1, <2>2
  <2>4. n .. COUNT'.addr - 1 = n .. COUNT.addr - 1 \cup {COUNT.addr} /\ n <= COUNT'.addr
    BY <1>2, <1>3, <2>1
  <2>5. \A v \in NewAddrs : addr_id[v] < COUNT.addr
    BY <1>2, <1>3
  <2>6. ASSUME NEW v \in NewAddrs', NEW w \in NewAddrs', Earlier(v, w)
        PROVE  addr_id'[v] < addr_id'[w]
    <3>1. CASE w = p
      <4>1. v # p
        BY <2>6, <3>1 DEF Earlier, TypeOK
      <4> QED
        BY <1>2, <2>1, <2>2, <2>5, <3>1, <4>1
    <3>2. CASE w # p /\ v = p
      <4>1. Earlier(w, p) /\ w[1] \in Nat /\ w[2] \in Nat
        BY <1>2, <1>4, <2>1, <3>2, PlaceFacts, VoutPlace DEF TypeOK
      <4> QED
        BY <2>6, <3>2, <4>1 DEF Earlier, TypeOK
    <3>3. CASE w # p /\ v # p
      BY <1>2, <2>1, <2>2, <2>6, <3>3 DEF AddrIdsNext
    <3> QED
      BY <3>1, <3>2, <3>3
  <2>7. AddrIdsNext'
    BY <1>1, <1>3, <2>3, <2>4, <2>6 DEF AddrIdsNext
  <2>8. ASSUME NEW v \in VoutsOf(txs), addr_id'[v] # NotFound
        PROVE  \/ addr_id'[v] < n
               \/ \E w \in NewAddrs' : (w = v \/ Earlier(w, v)) /\ addr_id'[w] = addr_id'[v]
    <3>1. CASE v = p
      BY <2>1, <3>1
    <3>2. CASE v # p
      BY <1>2, <2>1, <2>2, <2>8, <3>2 DEF AddrIdsKnown
    <3> QED
      BY <3>1, <3>2
  <2>9. AddrIdsKnown'
    BY <1>1, <2>8 DEF AddrIdsKnown
  <2> QED
    BY <2>7, <2>9
<1>6. CASE VoutKnown
  <2> DEFINE k == AddrAt(ti, vi)
  <2>1. /\ p \in VoutsOf(txs) /\ addr_id' = [addr_id EXCEPT ![p] = addrdb[k]]
        /\ p \notin NewAddrs /\ NewAddrs' = NewAddrs /\ addrdb[k] # NotFound
        /\ COUNT' = COUNT /\ pc = "vout"
    BY <1>6, SlotKnown DEF VoutKnown
  <2>2. addr_id'[p] = addrdb[k] /\ \A v \in VoutsOf(txs) : v # p => addr_id'[v] = addr_id[v]
    BY <1>2, <2>1
  <2>3. AddrIdsNext'
    <3>1. \A v \in NewAddrs : addr_id'[v] = addr_id[v]
      BY <1>2, <2>1, <2>2
    <3> QED
      BY <1>1, <1>3, <2>1, <3>1 DEF AddrIdsNext
  <2>4. \/ addrdb[k] < n
        \/ \E w \in NewAddrs : Earlier(w, p) /\ addr_id[w] = addrdb[k]
    <3>1. k \in AddrKey /\ k \in Keys(addrdb) /\ DOMAIN addrdb = AddrKey
      BY <1>6, <2>1, SlotAtVout DEF VoutKnown, Keys, TypeOK, Store
    <3>2. CASE k \in Keys(addrdb0)
      <4>1. addrdb[k] = addrdb0[k]
        BY <3>2 DEF AddrLog, Log
      <4>2. addrdb0[k] \in 0 .. n - 1
        BY <3>2 DEF Numbers, Dense
      <4> QED
        BY <1>2, <4>1, <4>2
    <3>3. CASE k \notin Keys(addrdb0)
      BY <1>4, <2>1, <3>1, <3>3 DEF AddrLog, Log
    <3> QED
      BY <3>2, <3>3
  <2>5. ASSUME NEW v \in VoutsOf(txs), addr_id'[v] # NotFound
        PROVE  \/ addr_id'[v] < n
               \/ \E w \in NewAddrs' : (w = v \/ Earlier(w, v)) /\ addr_id'[w] = addr_id'[v]
    <3>1. CASE v = p
      BY <1>2, <2>1, <2>2, <2>4, <3>1
    <3>2. CASE v # p
      BY <1>2, <2>1, <2>2, <2>5, <3>2 DEF AddrIdsKnown
    <3> QED
      BY <3>1, <3>2
  <2>6. AddrIdsKnown'
    BY <1>1, <2>5 DEF AddrIdsKnown
  <2> QED
    BY <2>3, <2>6
<1>7. CASE UNCHANGED <<addr_id, addr_is_new>> /\ (AddTx \/ COUNT' = COUNT)
  <2>1. COUNT'.addr = COUNT.addr
    BY <1>7, TxPart, AddTxEffect
  <2>2. NewAddrs' = NewAddrs
    BY <1>1, <1>7 DEF NewAddrs, ToUndo
  <2> QED
    BY <1>1, <1>7, <2>1, <2>2 DEF AddrIdsNext, AddrIdsKnown
<1> QED
  BY <1>5, <1>6, <1>7, AddrIdSteps, NoMismatch

\* At the begin of a block, none is given.
LEMMA BegunIds == ASSUME TypeOK, TypeOK', IInv, BeginBlock PROVE IdsNext'
<1>1. /\ NewTxs' = {} /\ NewAddrs' = {} /\ txdb' = txdb /\ txdb0' = txdb
      /\ addrdb' = addrdb /\ addrdb0' = addrdb
      /\ pc = "idle" /\ pc' = "tx" /\ COUNT' = COUNT /\ ti' = 1
  BY BeginBlockEffect
<1>2. COUNT.tx = Cardinality(Keys(txdb)) /\ COUNT.addr = Cardinality(Keys(addrdb))
      /\ COUNT.tx \in Nat /\ COUNT.addr \in Nat
  BY DEF IInv, CountsAgree, TypeOK, U32
<1>3. TxIdsNext'
  BY <1>1, <1>2 DEF TxIdsNext, NewTxs
<1>4. {addr_id'[v] : v \in NewAddrs'} = {} /\ COUNT.addr .. COUNT.addr - 1 = {}
  BY <1>1, <1>2
<1>5. AddrIdsNext'
  BY <1>1, <1>2, <1>4 DEF AddrIdsNext
<1>6. PICK b : NewBlock(b)
  BY DEF BeginBlock
<1>7. \A v \in VoutsOf(txs)' : addr_id'[v] = NotFound
  BY <1>6 DEF NewBlock
<1>8. AddrPlace' = <<1, 0>>
  BY <1>1 DEF AddrPlace
<1>9. \A v \in VoutsOf(txs)' : ~ Earlier(v, <<1, 0>>)
  <2>1. ASSUME NEW c \in Block, NEW v \in VoutsOf(c) PROVE ~ Earlier(v, <<1, 0>>)
    <3>1. 1 \in Nat \ {0}
      OBVIOUS
    <3> QED
      BY <3>1, PassedVouts
  <2>2. txs' \in Block
    BY DEF TypeOK
  <2> QED
    BY <2>1, <2>2
<1>10. AddrIdsKnown' /\ AddrIdsPassed'
  BY <1>7, <1>8, <1>9 DEF AddrIdsKnown, AddrIdsPassed
<1> QED
  BY <1>3, <1>5, <1>10 DEF IdsNext

LEMMA StepIds == IInv /\ IdsNext /\ [Next]_vars => IdsNext'
<1> SUFFICES ASSUME IInv, IdsNext, [Next]_vars PROVE IdsNext'
  OBVIOUS
<1>1. TypeOK /\ TypeOK'
  BY StepTypeOK DEF IInv
<1>2. CASE BeginBlock
  BY <1>1, <1>2, BegunIds
<1>3. CASE ~ BeginBlock /\ pc' \in Forward \cup {"resolved"}
  <2>1. pc \in Forward \cup {"resolved"}
    BY <1>1, <1>3, GoingOn
  <2> QED
    BY <1>1, <1>3, <2>1, StepTxIds, StepAddrPassed, StepAddrIds DEF IdsNext
<1> QED
  BY <1>2, <1>3 DEF IdsNext

\* Whatever stores of orderly runs it begins with, a block that is resolved has
\* the next ids of both kinds, in the order in which they are printed.
THEOREM IdsNextCorrect == FitStarts /\ Spec => []IdsNext
<1>1. Init => IdsNext
  BY DEF Init, InitWith, IdsNext, Forward
<1>2. IInv /\ IdsNext /\ [Next]_vars => IdsNext'
  BY StepIds
<1> QED
  BY <1>1, <1>2, Inductive, PTL DEF Spec
=============================================================================
