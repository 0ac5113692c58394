---------------------------- MODULE SessionProofs ----------------------------
(***************************************************************************)
(* Theorems about Session, for every chain, every fault, any number of     *)
(* runs and crashes and every greatest uint32: the stores that the loop of *)
(* main() works on can be trusted.                                         *)
(***************************************************************************)
EXTENDS SessionInv, LedgerProofs, WellFoundedInduction

-----------------------------------------------------------------------------
\* Induction over the heights, for sets of numbers.
Below == {ss \in Nat \X Nat : ss[1] < ss[2]}

LEMMA Least ==
    ASSUME NEW T \in SUBSET Nat, T # {}
    PROVE  \E x \in T : \A y \in T : x <= y
<1>1. IsWellFoundedOn(Below, Nat)
  BY NatLessThanWellFounded DEF OpToRel, Below
<1>2. PICK x \in T : \A y \in T : ~ (<<y, x>> \in Below)
  BY <1>1, WFMin
<1>3. \A y \in T : ~ (y < x)
  BY <1>2 DEF Below
<1>4. \A y \in T : x <= y
  BY <1>3
<1> QED
  BY <1>4

\* A set that has the first number, and with a number the next, has them all.
LEMMA Induct ==
    ASSUME NEW S, 0 \in S, \A n \in Nat : n \in S => n + 1 \in S
    PROVE  Nat \subseteq S
<1> SUFFICES ASSUME Nat \ S # {} PROVE FALSE
  OBVIOUS
<1>1. PICK x \in Nat \ S : \A y \in Nat \ S : x <= y
  BY Least
<1>2. x # 0 /\ x - 1 \in Nat
  BY <1>1
<1>3. x - 1 \in S
  BY <1>1, <1>2
<1> QED
  BY <1>1, <1>2, <1>3

-----------------------------------------------------------------------------
\* Canon: what the stores hold after the first blocks of the chain.

\* It is the function that its definition says.
LEMMA CanonUnfold ==
    /\ Canon[0] = [tx |-> EmptyStore(TxHash), addr |-> EmptyStore(AddrKey)]
    /\ \A n \in 1 .. Len(Chain) : Canon[n] = AfterBlock(Canon[n - 1], BlockOf(n - 1))
<1> DEFINE E == [tx |-> EmptyStore(TxHash), addr |-> EmptyStore(AddrKey)]
           N == Len(Chain)
           Step(f, n) == IF n = 0 THEN E ELSE AfterBlock(f[n - 1], BlockOf(n - 1))
           Solves(f, n) == /\ f[0] = E
                           /\ \A i \in 1 .. n : f[i] = AfterBlock(f[i - 1], BlockOf(i - 1))
           S == {n \in Nat : \E f : Solves(f, n)}
<1>0. N \in Nat
  BY ResolveAssumption
<1>1. 0 \in S
  <2>1. Solves([i \in {0} |-> E], 0)
    OBVIOUS
  <2> QED
    BY <2>1
<1>2. ASSUME NEW n \in Nat, n \in S PROVE n + 1 \in S
  <2>1. PICK f : Solves(f, n)
    BY <1>2
  <2> DEFINE g == [i \in 0 .. n + 1 |-> IF i = n + 1 THEN AfterBlock(f[n], BlockOf(n)) ELSE f[i]]
  <2>2. \A i \in 0 .. n : g[i] = f[i]
    OBVIOUS
  <2>3. g[n + 1] = AfterBlock(g[n], BlockOf(n))
    BY <2>2
  <2> HIDE DEF g
  <2>4. ASSUME NEW i \in 1 .. n + 1 PROVE g[i] = AfterBlock(g[i - 1], BlockOf(i - 1))
    <3>1. CASE i = n + 1
      <4>1. i - 1 = n
        BY <3>1
      <4> QED
        BY <2>3, <3>1, <4>1
    <3>2. CASE i \in 1 .. n
      <4>1. i \in 0 .. n /\ i - 1 \in 0 .. n
        BY <3>2
      <4> QED
        BY <2>1, <2>2, <3>2, <4>1
    <3> QED
      BY <3>1, <3>2
  <2>5. g[0] = E
    BY <2>1, <2>2
  <2> QED
    BY <2>4, <2>5
<1>3. N \in S
  <2> HIDE DEF S
  <2> QED
    BY <1>0, <1>1, <1>2, Induct
<1>4. PICK f : Solves(f, N)
  BY <1>3
<1> DEFINE g == [n \in 0 .. N |-> f[n]]
<1>5. g = [n \in 0 .. N |-> Step(g, n)]
  <2>1. \A n \in 0 .. N : g[n] = f[n]
    OBVIOUS
  <2>2. ASSUME NEW n \in 0 .. N PROVE f[n] = Step(g, n)
    <3>1. CASE n = 0
      BY <1>4, <3>1
    <3>2. CASE n # 0
      <4>1. n \in 1 .. N /\ n - 1 \in 0 .. N
        BY <1>0, <3>2
      <4> QED
        BY <1>4, <2>1, <3>2, <4>1
    <3> QED
      BY <3>1, <3>2
  <2> QED
    BY <2>2
<1>6. Canon = [n \in 0 .. N |-> Step(Canon, n)]
  BY <1>5 DEF Canon
<1> HIDE DEF g
<1>7. Canon[0] = E
  BY <1>0, <1>6
<1>8. ASSUME NEW n \in 1 .. N PROVE Canon[n] = AfterBlock(Canon[n - 1], BlockOf(n - 1))
  BY <1>0, <1>6
<1> QED
  BY <1>7, <1>8

\* A block of the chain is what is in hand at its height.
LEMMA BlockOfChain ==
    ASSUME NEW n \in 0 .. Len(Chain) - 1
    PROVE  BlockOf(n) \in Block /\ BlocksAt(n) = {BlockOf(n)}
<1>1. n + 1 \in DOMAIN Chain /\ Chain[n + 1] \in SUBSET Block
  BY ResolveAssumption
<1>2. PICK b \in Chain[n + 1] : Chain[n + 1] = {b}
  BY <1>1, SessionAssumption
<1>3. CASE n \in Glitch
  BY <1>3 DEF BlockOf, BlocksAt, Block
<1>4. CASE n \notin Glitch
  BY <1>1, <1>2, <1>4 DEF BlockOf, BlocksAt
<1> QED
  BY <1>3, <1>4

-----------------------------------------------------------------------------
\* Stores that grow out of one another.
Counting(K) == [K -> Nat]

LEMMA KeysCounted ==
    ASSUME NEW K, IsFiniteSet(K), NEW db \in Counting(K)
    PROVE  /\ Keys(db) \subseteq K /\ IsFiniteSet(Keys(db))
           /\ Cardinality(Keys(db)) \in Nat
BY FS_Subset, FS_CardinalityType DEF Counting, Keys

\* More keys, a higher count.
LEMMA MoreKeys ==
    ASSUME NEW K, IsFiniteSet(K), NEW S \in SUBSET K, NEW T, T \subseteq S
    PROVE  /\ Cardinality(T) \in Nat /\ Cardinality(S) \in Nat
           /\ Cardinality(T) <= Cardinality(S)
           /\ Cardinality(T) = Cardinality(S) => T = S
BY FS_Subset, FS_CardinalityType

LEMMA GrownSame == ASSUME NEW db PROVE Grown(db, db)
BY DEF Grown, Within

LEMMA WithinKeys ==
    ASSUME NEW K, NEW a \in Counting(K), NEW b \in Counting(K), Within(a, b)
    PROVE  Keys(a) \subseteq Keys(b)
BY DEF Within, Keys, Counting

LEMMA WithinOn ==
    ASSUME NEW K, NEW a \in Counting(K), NEW b \in Counting(K), NEW c \in Counting(K),
           Within(a, b), Within(b, c)
    PROVE  Within(a, c)
<1>1. Keys(a) \subseteq Keys(b)
  BY WithinKeys
<1> QED
  BY <1>1 DEF Within

LEMMA GrownOn ==
    ASSUME NEW K, IsFiniteSet(K), NEW a \in Counting(K), NEW b \in Counting(K),
           NEW c \in Counting(K), Grown(a, b), Grown(b, c)
    PROVE  Grown(a, c)
<1>1. Within(a, c)
  BY WithinOn DEF Grown
<1>2. Keys(a) \subseteq Keys(b)
  BY WithinKeys DEF Grown
<1>3. /\ Cardinality(Keys(a)) \in Nat /\ Cardinality(Keys(b)) \in Nat
      /\ Cardinality(Keys(a)) <= Cardinality(Keys(b))
  BY <1>2, MoreKeys, KeysCounted
<1>4. ASSUME NEW k \in Keys(c) \ Keys(a) PROVE c[k] >= Cardinality(Keys(a))
  <2>1. c[k] \in Nat
    BY DEF Keys, Counting
  <2>2. CASE k \in Keys(b)
    <3>1. c[k] = b[k] /\ b[k] >= Cardinality(Keys(a))
      BY <1>4, <2>2 DEF Grown, Within
    <3> QED
      BY <3>1
  <2>3. CASE k \notin Keys(b)
    <3>1. c[k] >= Cardinality(Keys(b))
      BY <1>4, <2>3 DEF Grown
    <3> QED
      BY <1>3, <2>1, <3>1
  <2> QED
    BY <2>2, <2>3
<1> QED
  BY <1>1, <1>4 DEF Grown

\* A store grows by the keys of a block.
LEMMA GrownNumbered ==
    ASSUME NEW K, IsFiniteSet(K), NEW db \in Counting(K), NEW key,
           \A p \in DOMAIN key : key[p] \in K
    PROVE  /\ Numbered(db, key) \in Counting(K)
           /\ Grown(db, Numbered(db, key))
<1> DEFINE new == Numbered(db, key)
<1>1. DOMAIN db = K
  BY DEF Counting
<1>2. ASSUME NEW p
      PROVE  /\ Cardinality(Keys(db) \cup Seen(key, p)) \in Nat
             /\ Cardinality(Keys(db) \cup Seen(key, p)) >= Cardinality(Keys(db))
  <2>1. Keys(db) \cup Seen(key, p) \in SUBSET K
    BY KeysCounted DEF Seen
  <2> QED
    BY <2>1, MoreKeys
<1>3. new \in Counting(K)
  BY <1>1, <1>2 DEF Numbered, Counting
<1>4. Within(db, new)
  BY <1>1 DEF Within, Numbered, Keys
<1>5. ASSUME NEW k \in Keys(new) \ Keys(db) PROVE new[k] >= Cardinality(Keys(db))
  <2>1. k \in K /\ db[k] = NotFound /\ new[k] # NotFound
    BY <1>1, <1>3, <1>5 DEF Keys, Counting
  <2> QED
    BY <1>1, <1>2, <2>1 DEF Numbered
<1> QED
  BY <1>3, <1>4, <1>5 DEF Grown

\* The stores of the chain are counted on.
LEMMA CanonStep ==
    ASSUME NEW n \in 0 .. Len(Chain) - 1,
           Canon[n].tx \in Counting(TxHash), Canon[n].addr \in Counting(AddrKey)
    PROVE  /\ Canon[n + 1].tx = Numbered(Canon[n].tx, HashPlaces(BlockOf(n)))
           /\ Canon[n + 1].addr = Numbered(Canon[n].addr, AddrPlaces(BlockOf(n), NoAddr))
           /\ Canon[n + 1].tx \in Counting(TxHash) /\ Canon[n + 1].addr \in Counting(AddrKey)
           /\ Grown(Canon[n].tx, Canon[n + 1].tx) /\ Grown(Canon[n].addr, Canon[n + 1].addr)
<1> DEFINE b == BlockOf(n)
<1>1. n + 1 \in 1 .. Len(Chain) /\ (n + 1) - 1 = n
  BY ResolveAssumption
<1>2. Canon[n + 1] = AfterBlock(Canon[n], b)
  BY <1>1, CanonUnfold
<1>3. /\ \A p \in DOMAIN HashPlaces(b) : HashPlaces(b)[p] \in TxHash
      /\ \A p \in DOMAIN AddrPlaces(b, NoAddr) : AddrPlaces(b, NoAddr)[p] \in AddrKey
  BY BlockOfChain, BlockKeys
<1> HIDE DEF b
<1> QED
  BY <1>2, <1>3, GrownNumbered, ResolveAssumption DEF AfterBlock, b

LEMMA CanonCounting ==
    \A n \in 0 .. Len(Chain) :
       Canon[n].tx \in Counting(TxHash) /\ Canon[n].addr \in Counting(AddrKey)
<1> DEFINE S == {n \in Nat : n <= Len(Chain) => /\ Canon[n].tx \in Counting(TxHash)
                                               /\ Canon[n].addr \in Counting(AddrKey)}
<1>1. Len(Chain) \in Nat
  BY ResolveAssumption
<1>2. 0 \in S
  BY CanonUnfold, MaxU32Assumption DEF Counting, EmptyStore, NotFound
<1>3. \A n \in Nat : n \in S => n + 1 \in S
  BY <1>1, CanonStep
<1>4. Nat \subseteq S
  <2> HIDE DEF S
  <2> QED
    BY <1>2, <1>3, Induct
<1> QED
  BY <1>1, <1>4

LEMMA CanonGrows ==
    ASSUME NEW m \in 0 .. Len(Chain), NEW n \in 0 .. Len(Chain), m <= n
    PROVE  Grown(Canon[m].tx, Canon[n].tx) /\ Grown(Canon[m].addr, Canon[n].addr)
<1> DEFINE Good(i) == Grown(Canon[m].tx, Canon[i].tx) /\ Grown(Canon[m].addr, Canon[i].addr)
           S == {d \in Nat : m + d <= Len(Chain) => Good(m + d)}
<1>1. Len(Chain) \in Nat
  BY ResolveAssumption
<1>2. 0 \in S
  BY GrownSame
<1>3. ASSUME NEW d \in Nat, d \in S, m + (d + 1) <= Len(Chain) PROVE Good(m + (d + 1))
  <2>1. /\ m + d \in 0 .. Len(Chain) - 1 /\ m + (d + 1) = (m + d) + 1
        /\ m + d \in 0 .. Len(Chain) /\ m + (d + 1) \in 0 .. Len(Chain)
    BY <1>1, <1>3
  <2>2. Good(m + d)
    BY <1>1, <1>3, <2>1
  <2>3. /\ Grown(Canon[m + d].tx, Canon[m + (d + 1)].tx)
        /\ Grown(Canon[m + d].addr, Canon[m + (d + 1)].addr)
    BY <2>1, CanonStep, CanonCounting
  <2> QED
    BY <2>1, <2>2, <2>3, CanonCounting, GrownOn, ResolveAssumption
<1>4. Nat \subseteq S
  <2>1. \A d \in Nat : d \in S => d + 1 \in S
    BY <1>3
  <2> HIDE DEF S
  <2> QED
    BY <1>2, <2>1, Induct
<1>5. n - m \in Nat /\ m + (n - m) = n /\ n <= Len(Chain)
  BY <1>1
<1> QED
  BY <1>4, <1>5

-----------------------------------------------------------------------------
\* What is left of trusted stores is near every canonical store.
LEMMA StoreCounting ==
    ASSUME NEW K
    PROVE  Store(K) \subseteq Counting(K)
BY MaxU32Assumption DEF Store, Counting, U32

LEMMA NearEmpty == ASSUME NEW K, NEW canon PROVE Near(EmptyStore(K), canon)
BY DEF Near, Within, EmptyStore, Keys

LEMMA TruncatedStore ==
    ASSUME NEW K, IsFiniteSet(K), NEW db \in Store(K), NEW t \in Truncated(db)
    PROVE  /\ t \in Store(K)
           /\ Sized(db) => Sized(t)
<1>1. PICK n \in U32 : t = [k \in DOMAIN db |-> IF db[k] < n THEN db[k] ELSE NotFound]
  BY DEF Truncated
<1>2. t \in Store(K)
  BY <1>1, U32Facts DEF Store
<1>3. Keys(t) \subseteq Keys(db)
  BY <1>1 DEF Keys
<1>4. Cardinality(Keys(t)) \in Nat /\ Cardinality(Keys(t)) <= Cardinality(Keys(db))
  BY <1>3, MoreKeys, KeysCounted, StoreCounting
<1> QED
  BY <1>2, <1>4, MaxU32Assumption DEF Sized, U32

\* Losing the last records does not take a store away.
LEMMA NearTruncated ==
    ASSUME NEW K, IsFiniteSet(K), NEW canon, FitStore(K, canon),
           NEW db \in Store(K), Near(db, canon), NEW t \in Truncated(db)
    PROVE  Near(t, canon)
<1> DEFINE c == Cardinality(Keys(canon))
<1>1. PICK n \in U32 : t = [k \in DOMAIN db |-> IF db[k] < n THEN db[k] ELSE NotFound]
  BY DEF Truncated
<1>2. /\ DOMAIN db = K /\ DOMAIN t = K /\ DOMAIN canon = K
      /\ n \in Nat /\ c \in Nat /\ NotFound \in Nat /\ n <= NotFound
      /\ \A k \in K : db[k] \in Nat /\ t[k] \in Nat
  BY <1>1, MaxU32Assumption DEF Store, FitStore, Sized, U32, NotFound
<1>3. \A k \in Keys(t) : k \in Keys(db) /\ t[k] = db[k] /\ db[k] < n
  BY <1>1, <1>2 DEF Keys
<1>4. \A k \in Keys(canon) : canon[k] \in 0 .. c - 1
  BY DEF FitStore, Dense
<1>5. CASE Within(db, canon)
  BY <1>3, <1>5 DEF Near, Within
<1>6. CASE Grown(canon, db) /\ n < c
  <2>1. ASSUME NEW k \in Keys(t) PROVE k \in Keys(canon)
    BY <1>2, <1>3, <1>6, <2>1 DEF Grown, Keys
  <2> QED
    BY <1>3, <1>6, <2>1 DEF Near, Within, Grown
<1>7. CASE Grown(canon, db) /\ n >= c
  <2>1. ASSUME NEW k \in Keys(canon) PROVE t[k] = canon[k]
    <3>1. k \in K /\ db[k] = canon[k] /\ db[k] < c
      BY <1>2, <1>4, <1>7, <2>1 DEF Grown, Within, Keys
    <3> QED
      BY <1>1, <1>2, <1>7, <3>1
  <2>2. ASSUME NEW k \in Keys(t) \ Keys(canon) PROVE t[k] >= c
    BY <1>3, <1>7, <2>2 DEF Grown
  <2> QED
    BY <2>1, <2>2 DEF Near, Grown, Within
<1> QED
  BY <1>2, <1>5, <1>6, <1>7 DEF Near

\* As many records as a canonical store: it is that one.
LEMMA NearSame ==
    ASSUME NEW K, IsFiniteSet(K), NEW canon \in Store(K), NEW db \in Store(K),
           Near(db, canon), Cardinality(Keys(db)) = Cardinality(Keys(canon))
    PROVE  db = canon
<1>1. Keys(db) = Keys(canon)
  <2>1. Keys(db) \subseteq Keys(canon) \/ Keys(canon) \subseteq Keys(db)
    BY WithinKeys, StoreCounting DEF Near, Grown
  <2> QED
    BY <2>1, MoreKeys, KeysCounted, StoreCounting
<1>2. \A k \in Keys(db) : db[k] = canon[k]
  BY <1>1 DEF Near, Grown, Within
<1>3. \A k \in K : db[k] = canon[k]
  BY <1>1, <1>2 DEF Keys, Store
<1> QED
  BY <1>3 DEF Store

\* A store that has grown out of that of one height, and lies within that of
\* the next, is near those of all heights.
LEMMA NearBetween ==
    ASSUME NEW K, IsFiniteSet(K), NEW c0 \in Counting(K), NEW c1 \in Counting(K),
           NEW db \in Counting(K), Grown(c0, db), Within(db, c1),
           NEW canon \in Counting(K), Grown(canon, c0) \/ Grown(c1, canon)
    PROVE  Near(db, canon)
<1>1. CASE Grown(canon, c0)
  BY <1>1, GrownOn DEF Near
<1>2. CASE Grown(c1, canon)
  BY <1>2, WithinOn DEF Near, Grown
<1> QED
  BY <1>1, <1>2

\* In the loop on trusted stores, whatever is in hand, the stores are near
\* those of all heights.
LEMMA LoopNear ==
    IInv /\ NumbersAsSeen /\ AtHeight =>
        \A m \in Fit : Near(txdb, Canon[m].tx) /\ Near(addrdb, Canon[m].addr)
<1> SUFFICES ASSUME IInv, NumbersAsSeen, AtHeight, NEW m \in Fit
             PROVE  Near(txdb, Canon[m].tx) /\ Near(addrdb, Canon[m].addr)
  OBVIOUS
<1> DEFINE n == COUNT.bk
<1>1. /\ n \in 0 .. Len(Chain) /\ m \in 0 .. Len(Chain) /\ Len(Chain) \in Nat
      /\ Canon[n].tx \in Counting(TxHash) /\ Canon[n].addr \in Counting(AddrKey)
      /\ Canon[m].tx \in Counting(TxHash) /\ Canon[m].addr \in Counting(AddrKey)
      /\ txdb \in Counting(TxHash) /\ addrdb \in Counting(AddrKey)
      /\ IsFiniteSet(TxHash) /\ IsFiniteSet(AddrKey)
  BY CanonCounting, StoreCounting, ResolveAssumption DEF AtHeight, Fit, IInv, TypeOK
<1>2. CASE pc = "idle"
  <2>1. txdb = Canon[n].tx /\ addrdb = Canon[n].addr
    BY <1>2 DEF AtHeight, Holds
  <2>2. CASE m <= n
    BY <1>1, <2>1, <2>2, CanonGrows DEF Near
  <2>3. CASE n <= m
    BY <1>1, <2>1, <2>3, CanonGrows DEF Near, Grown
  <2> QED
    BY <1>1, <2>2, <2>3
<1>3. CASE pc # "idle"
  <2>1. txdb0 = Canon[n].tx /\ addrdb0 = Canon[n].addr
    BY <1>3 DEF AtHeight, Holds
  <2>2. n \in 0 .. Len(Chain) - 1 /\ txs = BlockOf(n) /\ n + 1 \in 0 .. Len(Chain)
    BY <1>1, <1>3, BlockOfChain DEF NumbersAsSeen, BlockInHand
  <2>3. /\ Canon[n + 1].tx = Numbered(txdb0, HashKeys)
        /\ Canon[n + 1].addr = Numbered(addrdb0, AddrKeys)
        /\ Canon[n + 1].tx \in Counting(TxHash) /\ Canon[n + 1].addr \in Counting(AddrKey)
        /\ Grown(txdb0, Canon[n + 1].tx) /\ Grown(addrdb0, Canon[n + 1].addr)
    BY <1>1, <2>1, <2>2, CanonStep DEF HashKeys, AddrKeys
  <2>4. /\ Within(txdb, Canon[n + 1].tx) /\ Within(addrdb, Canon[n + 1].addr)
    BY <1>3, <2>3 DEF NumbersAsSeen, AsNumbered, Within
  <2>5. Within(txdb0, txdb) /\ Within(addrdb0, addrdb)
    BY DEF IInv, TxLog, AddrLog, Log, Within
  <2>6. Grown(txdb0, txdb) /\ Grown(addrdb0, addrdb)
    <3>1. Keys(txdb) \subseteq Keys(Canon[n + 1].tx) /\ Keys(addrdb) \subseteq Keys(Canon[n + 1].addr)
      BY <1>1, <2>3, <2>4, WithinKeys
    <3> QED
      BY <2>3, <2>4, <2>5, <3>1 DEF Grown, Within
  <2>7. CASE m <= n
    BY <1>1, <2>1, <2>3, <2>4, <2>6, <2>7, CanonGrows, NearBetween
  <2>8. CASE n + 1 <= m
    BY <1>1, <2>1, <2>2, <2>3, <2>4, <2>6, <2>8, CanonGrows, NearBetween
  <2> QED
    BY <1>1, <2>7, <2>8
<1> QED
  BY <1>2, <1>3

-----------------------------------------------------------------------------
\* Types.

\* The steps that resolving does not take part in.
Aside ==
    \/ OpenStores \/ ClearTx \/ ClearAddr \/ RefuseStamp \/ AcceptStamp
    \/ PlainCache \/ PlainBlock \/ CloseStamp \/ Abort \/ Crash

LEMMA SessionSteps == [SessionNext]_svars => Aside \/ [Next]_vars
<1> SUFFICES ASSUME [SessionNext]_svars PROVE Aside \/ [Next]_vars
  OBVIOUS
<1>1. CASE UNCHANGED svars
  BY <1>1 DEF svars
<1>2. CASE LoadBlock \/ ResolveStep \/ OutBlock
  BY <1>2 DEF LoadBlock, ResolveStep, OutBlock, Next
<1>3. CASE \/ Start \/ OpenFails \/ RefuseStores \/ AcceptStores \/ LoadFails \/ ResolveFails
           \/ NumDone \/ Update \/ UpdateFails \/ CloseTx \/ CloseAddr \/ PlainEnds
  BY <1>3 DEF Start, OpenFails, RefuseStores, AcceptStores, LoadFails, ResolveFails, NumDone,
              Update, UpdateFails, CloseTx, CloseAddr, PlainEnds
<1> QED
  BY <1>1, <1>2, <1>3
     DEF SessionNext, Process, SetCache, MainLoop, StopCache, Plain, Aside

LEMMA FreshTypes == FreshProcess => TypeOK'
<1> SUFFICES ASSUME FreshProcess PROVE TypeOK'
  OBVIOUS
<1>1. <<>> \in Block /\ DOMAIN <<>> = {} /\ VinsOf(<<>>) = {} /\ VoutsOf(<<>>) = {}
  BY DEF Block, VinsOf, VoutsOf
<1>2. EmptyStore(TxHash) \in Store(TxHash) /\ EmptyStore(AddrKey) \in Store(AddrKey)
  BY EmptyStoreFacts
<1> QED
  BY <1>1, <1>2, MaxU32Assumption
     DEF FreshProcess, NewBlock, NoCount, TypeOK, PC, Between, U32

\* A store that is to be cleared is empty or as it was.
LEMMA ClearedStores ==
    ASSUME MainTypes
    PROVE  /\ Cleared(txdb) \subseteq {txdb, EmptyStore(TxHash)}
           /\ Cleared(addrdb) \subseteq {addrdb, EmptyStore(AddrKey)}
           /\ ~ CanFail("clear") => /\ Cleared(txdb) = {EmptyStore(TxHash)}
                                    /\ Cleared(addrdb) = {EmptyStore(AddrKey)}
<1>1. DOMAIN txdb = TxHash /\ DOMAIN addrdb = AddrKey
  BY DEF MainTypes, TypeOK, Store
<1> QED
  BY <1>1 DEF Cleared

\* TypeOK is kept by main() too.
LEMMA SessionStepTypeOK == MainTypes /\ [SessionNext]_svars => TypeOK'
<1> SUFFICES ASSUME MainTypes, [SessionNext]_svars PROVE TypeOK'
  OBVIOUS
<1>0. TypeOK /\ 0 \in U32 /\ U32 \subseteq Nat
  BY U32Facts DEF MainTypes, U32
<1>1. CASE [Next]_vars
  BY <1>0, <1>1, StepTypeOK
<1>2. CASE OpenStores \/ ClearTx \/ ClearAddr
  <2>1. txdb' \in Store(TxHash) /\ addrdb' \in Store(AddrKey)
    BY <1>0, <1>2, EmptyStoreFacts, ClearedStores
       DEF OpenStores, ClearTx, ClearAddr, MainTypes, TypeOK
  <2> QED
    BY <1>0, <1>2, <2>1 DEF OpenStores, ClearTx, ClearAddr, block, begun, TypeOK
<1>3. CASE RefuseStamp \/ AcceptStamp \/ PlainCache \/ PlainBlock
  <2>1. OPTS.from \in U32 /\ Count(txdb) \in U32 /\ Count(addrdb) \in U32
    BY <1>0, CountType, ResolveAssumption DEF MainTypes, OptionRecord, TypeOK
  <2>2. COUNT' \in [bk : Nat, tx : U32, addr : U32]
    <3>1. COUNT \in [bk : Nat, tx : U32, addr : U32]
      BY <1>0 DEF TypeOK
    <3>2. CASE RefuseStamp
      BY <2>1, <3>1, <3>2 DEF RefuseStamp
    <3>3. CASE AcceptStamp
      BY <1>0, <2>1, <3>3 DEF AcceptStamp
    <3>4. CASE PlainCache
      BY <1>0, <2>1, <3>1, <3>4 DEF PlainCache, PlainFrom
    <3>5. CASE PlainBlock
      BY <3>1, <3>5 DEF PlainBlock
    <3> QED
      BY <1>3, <3>2, <3>3, <3>4, <3>5
  <2>3. UNCHANGED <<pc, stores, block, ti, vi, retvalue>>
    BY <1>3 DEF RefuseStamp, AcceptStamp, PlainCache, PlainBlock
  <2>4. txdb0' \in Store(TxHash) /\ addrdb0' \in Store(AddrKey)
    BY <1>0, <1>3 DEF RefuseStamp, AcceptStamp, PlainCache, PlainBlock, begun, TypeOK
  <2> QED
    BY <1>0, <2>2, <2>3, <2>4 DEF TypeOK, stores, block
<1>4. CASE CloseStamp \/ Abort \/ Crash
  BY <1>4, FreshTypes DEF CloseStamp, Abort, Crash, Gone
<1> QED
  BY <1>1, <1>2, <1>3, <1>4, SessionSteps DEF Aside

\* The stamp that is written is of the type of a stamp.
LEMMA NewStampType ==
    ASSUME TypeOK, BlockInHand, pc = "resolved"
    PROVE  /\ NewStamp = <<COUNT.bk + 1, COUNT.tx, COUNT.addr>>
           /\ NewStamp \in U32 \X U32 \X U32
<1>1. COUNT.bk \in Nat /\ COUNT.bk < Len(Chain) /\ Len(Chain) \in 0 .. MaxU32
  BY SessionAssumption DEF BlockInHand, TypeOK, U32
<1>2. Inc(COUNT.bk) = COUNT.bk + 1 /\ COUNT.bk + 1 \in U32
  BY <1>1, MaxU32Assumption DEF Inc, U32
<1> QED
  BY <1>2 DEF NewStamp, TypeOK

LEMMA StepOptions == MainTypes /\ SInv /\ [SessionNext]_svars => OPTS' \in OptionRecord
<1> SUFFICES ASSUME MainTypes, SInv, [SessionNext]_svars PROVE OPTS' \in OptionRecord
  OBVIOUS
<1>1. OPTS \in OptionRecord
  BY DEF MainTypes
<1>2. CASE Start
  BY <1>2, SessionAssumption DEF Start
<1>3. CASE AcceptStamp \/ PlainCache
  <2>1. OPTS' = OPTS \/ OPTS' = [OPTS EXCEPT !.from = OPTS.from] \/ OPTS' = [OPTS EXCEPT !.from = 0]
    BY <1>3 DEF AcceptStamp, PlainCache, PlainFrom
  <2> QED
    BY <1>1, <2>1, U32Facts DEF OptionRecord
<1>4. CASE PlainBlock \/ OutBlock
  <2>1. OPTS' = [OPTS EXCEPT !.num = OPTS.num - 1] /\ OPTS.num \in Nat \ {0}
    BY <1>1, <1>4 DEF PlainBlock, OutBlock, SInv, Phases, OptionRecord
  <2> QED
    BY <1>1, <2>1 DEF OptionRecord
<1>5. CASE ~ (Start \/ AcceptStamp \/ PlainCache \/ PlainBlock \/ OutBlock)
  <2>1. OPTS' = OPTS
    BY <1>5 DEF SessionNext, Process, SetCache, MainLoop, StopCache, Plain, OpenStores, OpenFails,
       RefuseStores, AcceptStores, ClearTx, ClearAddr, RefuseStamp, LoadBlock, LoadFails,
       ResolveStep, ResolveFails, NumDone, Update, UpdateFails, CloseTx, CloseAddr, CloseStamp,
       Abort, Crash, Gone, PlainEnds, main, svars
  <2> QED
    BY <1>1, <2>1
<1> QED
  BY <1>2, <1>3, <1>4, <1>5

\* What is left of a store on file is a store.
LEMMA StepFiles ==
    MainTypes /\ [SessionNext]_svars =>
        txfile' \in Store(TxHash) /\ addrfile' \in Store(AddrKey)
<1> SUFFICES ASSUME MainTypes, [SessionNext]_svars
             PROVE  txfile' \in Store(TxHash) /\ addrfile' \in Store(AddrKey)
  OBVIOUS
<1>1. /\ txfile \in Store(TxHash) /\ addrfile \in Store(AddrKey)
      /\ \A t \in Truncated(txdb) : t \in Store(TxHash)
      /\ \A t \in Truncated(addrdb) : t \in Store(AddrKey)
      /\ txdb \in Store(TxHash) /\ addrdb \in Store(AddrKey)
  BY TruncatedStore, ResolveAssumption DEF MainTypes, TypeOK
<1>2. CASE CloseTx \/ CloseAddr
  BY <1>1, <1>2 DEF CloseTx, CloseAddr, Closed
<1>3. CASE Abort \/ Crash
  BY <1>1, <1>3 DEF Abort, Crash, Gone
<1>4. CASE ~ (CloseTx \/ CloseAddr \/ Abort \/ Crash)
  <2>1. txfile' = txfile /\ addrfile' = addrfile
    BY <1>4 DEF SessionNext, Process, SetCache, MainLoop, StopCache, Plain, Start, OpenStores,
       OpenFails, RefuseStores, AcceptStores, ClearTx, ClearAddr, RefuseStamp, AcceptStamp,
       LoadBlock, LoadFails, ResolveStep, ResolveFails, NumDone, Update, UpdateFails, OutBlock,
       CloseStamp, PlainCache, PlainBlock, PlainEnds, main, files, svars
  <2> QED
    BY <1>1, <2>1
<1> QED
  BY <1>2, <1>3, <1>4

LEMMA StepStampTypes ==
    MainTypes /\ SInv /\ [SessionNext]_svars =>
        /\ stamp' \in Stamps /\ buffered' \in Stamps \ {Absent}
        /\ file_open' \in BOOLEAN /\ truestamp' \in BOOLEAN
<1> SUFFICES ASSUME MainTypes, SInv, [SessionNext]_svars
             PROVE  /\ stamp' \in Stamps /\ buffered' \in Stamps \ {Absent}
                    /\ file_open' \in BOOLEAN /\ truestamp' \in BOOLEAN
  OBVIOUS
<1>1. /\ stamp \in Stamps /\ buffered \in Stamps \ {Absent} /\ file_open \in BOOLEAN
      /\ trusted \in BOOLEAN /\ truestamp \in BOOLEAN
      /\ <<>> \in Stamps \ {Absent}
  BY SessionAssumption DEF MainTypes, Stamps
<1>2. CASE Update
  <2>1. NewStamp \in U32 \X U32 \X U32
    BY <1>2, NewStampType DEF MainTypes, Update, Loop, SInv, LoopInv, InLoop
  <2>2. NewStamp \in Stamps \ {Absent}
    BY <2>1, SessionAssumption DEF Stamps
  <2> QED
    BY <1>1, <1>2, <2>2 DEF Update, stampfs
<1>3. CASE UpdateFails \/ CloseStamp \/ Abort \/ Crash
  BY <1>1, <1>3 DEF UpdateFails, CloseStamp, Abort, Crash, Gone, files, trust
<1>4. CASE ~ (Update \/ UpdateFails \/ CloseStamp \/ Abort \/ Crash)
  <2>1. stamp' = stamp /\ buffered' = buffered /\ file_open' = file_open /\ truestamp' = truestamp
    BY <1>4 DEF SessionNext, Process, SetCache, MainLoop, StopCache, Plain, Start, OpenStores,
       OpenFails, RefuseStores, AcceptStores, ClearTx, ClearAddr, RefuseStamp, AcceptStamp,
       LoadBlock, LoadFails, ResolveStep, ResolveFails, NumDone, OutBlock, CloseTx, CloseAddr,
       PlainCache, PlainBlock, PlainEnds, main, files, stampfs, trust, svars
  <2> QED
    BY <1>1, <2>1
<1> QED
  BY <1>2, <1>3, <1>4

\* main() goes from stage to stage, and trust is yes or no.
LEMMA StepStage == MainTypes /\ [SessionNext]_svars => stage' \in Stages /\ trusted' \in BOOLEAN
<1> SUFFICES ASSUME MainTypes, [SessionNext]_svars PROVE stage' \in Stages /\ trusted' \in BOOLEAN
  OBVIOUS
<1>1. stage \in Stages /\ trusted \in BOOLEAN
  BY DEF MainTypes
<1>2. CASE AcceptStamp
  BY <1>2 DEF AcceptStamp, Stages
<1>3. CASE ~ AcceptStamp
  BY <1>1, <1>3 DEF SessionNext, Process, SetCache, MainLoop, StopCache, Plain, Start, OpenStores,
     OpenFails, RefuseStores, AcceptStores, ClearTx, ClearAddr, RefuseStamp,
     LoadBlock, LoadFails, ResolveStep, ResolveFails, NumDone, Update, UpdateFails, OutBlock,
     CloseTx, CloseAddr, CloseStamp, Abort, Crash, Gone, PlainCache, PlainBlock, PlainEnds,
     main, trust, svars, Stages
<1> QED
  BY <1>2, <1>3

LEMMA StepMainTypes == MainTypes /\ SInv /\ [SessionNext]_svars => MainTypes'
BY SessionStepTypeOK, StepOptions, StepFiles, StepStampTypes, StepStage DEF MainTypes

-----------------------------------------------------------------------------
\* The stores never hold more than can be counted.
LEMMA EmptySized == ASSUME NEW K PROVE Sized(EmptyStore(K))
BY EmptyStoreFacts, U32Facts DEF Sized

\* Putting a number to a key, or taking one away, in a store with room.
LEMMA SizedPut ==
    ASSUME NEW K, IsFiniteSet(K), NEW db \in Store(K), Sized(db), NEW k \in K,
           GetOrAddValue(db, k) # NotFound
    PROVE  Sized(Put(db, k, GetOrAddValue(db, k)))
<1> DEFINE v == GetOrAddValue(db, k)
<1>1. Count(db) = Cardinality(Keys(db))
  BY CountExact DEF Sized
<1>2. v \in U32 /\ db[k] \in U32
  BY StoreTypes
<1>3. CASE db[k] # NotFound
  <2>1. v = Count(db) \/ v = db[k]
    BY DEF GetOrAddValue
  <2>2. Keys(Put(db, k, v)) = Keys(db)
    BY <1>3 DEF Put, Keys, Store
  <2> QED
    BY <2>2 DEF Sized
<1>4. CASE db[k] = NotFound
  <2>1. v = Cardinality(Keys(db))
    BY <1>1, <1>4 DEF GetOrAddValue
  <2>2. Cardinality(Keys(Put(db, k, v))) = Cardinality(Keys(db)) + 1
    BY <1>2, <1>4, PutNew
  <2> QED
    BY <1>2, <2>1, <2>2, MaxU32Assumption DEF Sized, U32, NotFound
<1> QED
  BY <1>3, <1>4

LEMMA SizedDeleted ==
    ASSUME NEW K, IsFiniteSet(K), NEW db \in Store(K), Sized(db), NEW k \in K
    PROVE  Sized(Deleted(db, k))
<1>1. Keys(Deleted(db, k)) \subseteq Keys(db)
  BY DEF Deleted, Keys, Store
<1>2. /\ Cardinality(Keys(Deleted(db, k))) \in Nat
      /\ Cardinality(Keys(Deleted(db, k))) <= Cardinality(Keys(db))
  BY <1>1, MoreKeys, KeysCounted, StoreCounting
<1> QED
  BY <1>2, MaxU32Assumption DEF Sized, U32

LEMMA StepSized == TypeOK /\ Sized(addrdb) /\ [Next]_vars => Sized(addrdb)'
<1> SUFFICES ASSUME TypeOK, Sized(addrdb), [Next]_vars PROVE Sized(addrdb')
  BY DEF Sized, Keys
<1>1. addrdb \in Store(AddrKey) /\ IsFiniteSet(AddrKey)
  BY ResolveAssumption DEF TypeOK
<1> DEFINE k == AddrAt(ti, vi)
<1>2. CASE VoutKnown \/ VoutNew \/ VoutMismatch
  <2>1. pc = "vout" /\ vi \in DOMAIN txs[ti].vouts /\ k # NoAddr
    BY <1>2 DEF VoutKnown, VoutNew, VoutMismatch
  <2>2. k \in AddrKey
    BY <2>1, SlotAtVout
  <2>3. GetOrAddValue(addrdb, k) # NotFound
    BY <1>2 DEF VoutKnown, VoutNew, VoutMismatch
  <2>4. addrdb' = Put(addrdb, k, GetOrAddValue(addrdb, k)) \/ addrdb' = Deleted(addrdb, k)
    BY <1>2 DEF VoutKnown, VoutNew, VoutMismatch
  <2> QED
    BY <1>1, <2>2, <2>3, <2>4, SizedPut, SizedDeleted
<1>3. CASE DelAddr
  <2>1. AtVout /\ addrdb' = Deleted(addrdb, k)
    BY <1>3 DEF DelAddr
  <2>2. CASE k \in AddrKey
    BY <1>1, <2>1, <2>2, SizedDeleted
  <2>3. CASE k \notin AddrKey
    <3>1. addrdb' = addrdb
      BY <1>1, <2>1, <2>3 DEF Deleted, Store
    <3> QED
      BY <3>1
  <2> QED
    BY <2>2, <2>3
<1>4. CASE BeginBlock \/ AddTx \/ DelTx \/ Quiet
  BY <1>4 DEF BeginBlock, AddTx, DelTx, Quiet, stores
<1> QED
  BY <1>2, <1>3, <1>4, QuietSteps

LEMMA StepSizes == MainTypes /\ SInv /\ [SessionNext]_svars => SizesOK'
<1> SUFFICES ASSUME MainTypes, SInv, [SessionNext]_svars
             PROVE  Sized(txdb') /\ Sized(addrdb') /\ Sized(txfile') /\ Sized(addrfile')
  BY DEF SizesOK, Sized, Keys
<1>1. /\ TypeOK /\ TypeOK'
      /\ Sized(txdb) /\ Sized(addrdb) /\ Sized(txfile) /\ Sized(addrfile)
      /\ Sized(EmptyStore(TxHash)) /\ Sized(EmptyStore(AddrKey))
  BY SessionStepTypeOK, EmptySized DEF MainTypes, SInv, SizesOK
<1>2. /\ \A t \in Truncated(txdb) : Sized(t)
      /\ \A t \in Truncated(addrdb) : Sized(t)
  BY <1>1, TruncatedStore, ResolveAssumption DEF TypeOK
<1>3. Sized(txfile') /\ Sized(addrfile')
  <2>1. CASE CloseTx \/ CloseAddr
    BY <1>1, <1>2, <2>1 DEF CloseTx, CloseAddr, Closed
  <2>2. CASE Abort \/ Crash
    BY <1>1, <1>2, <2>2 DEF Abort, Crash, Gone
  <2>3. CASE ~ (CloseTx \/ CloseAddr \/ Abort \/ Crash)
    <3>1. txfile' = txfile /\ addrfile' = addrfile
      BY <2>3 DEF SessionNext, Process, SetCache, MainLoop, StopCache, Plain, Start, OpenStores,
         OpenFails, RefuseStores, AcceptStores, ClearTx, ClearAddr, RefuseStamp, AcceptStamp,
         LoadBlock, LoadFails, ResolveStep, ResolveFails, NumDone, Update, UpdateFails, OutBlock,
         CloseStamp, PlainCache, PlainBlock, PlainEnds, main, files, svars
    <3> QED
      BY <1>1, <3>1
  <2> QED
    BY <2>1, <2>2, <2>3
<1>4. CASE LoadBlock \/ ResolveStep \/ OutBlock
  <2>1. [Next]_vars /\ InLoop
    BY <1>4 DEF LoadBlock, ResolveStep, OutBlock, Next, Loop, InLoop
  <2>2. TxInv'
    BY <2>1, StepTxInv DEF SInv, LoopInv
  <2>3. Sized(txdb')
    BY <2>2 DEF TxInv, TypeOK, Sized, Keys
  <2>4. Sized(addrdb')
    BY <1>1, <2>1, StepSized DEF Sized, Keys
  <2> QED
    BY <1>3, <2>3, <2>4
<1>5. CASE Aside
  <2>1. /\ txdb' \in {txdb, txfile, EmptyStore(TxHash)}
        /\ addrdb' \in {addrdb, addrfile, EmptyStore(AddrKey)}
    BY <1>5, ClearedStores
       DEF Aside, OpenStores, ClearTx, ClearAddr, RefuseStamp, AcceptStamp, PlainCache,
       PlainBlock, CloseStamp, Abort, Crash, Gone, FreshProcess, stores
  <2> QED
    BY <1>1, <1>3, <2>1
<1>6. CASE ~ Aside /\ ~ (LoadBlock \/ ResolveStep \/ OutBlock)
  <2>1. UNCHANGED stores
    BY <1>6 DEF SessionNext, Process, SetCache, MainLoop, StopCache, Plain, Aside, Start, OpenFails,
       RefuseStores, AcceptStores, LoadFails, ResolveFails, NumDone, Update, UpdateFails,
       CloseTx, CloseAddr, PlainEnds, vars, svars
  <2> QED
    BY <1>1, <1>3, <2>1 DEF stores
<1> QED
  BY <1>4, <1>5, <1>6

-----------------------------------------------------------------------------
\* Where a process stands, step by step.
LEMMA StepPhases == MainTypes /\ SInv /\ [SessionNext]_svars => Phases'
<1> SUFFICES ASSUME MainTypes, SInv, [SessionNext]_svars PROVE Phases'
  OBVIOUS
<1>0. Phases /\ stage \in Stages
  BY DEF SInv, MainTypes
<1> USE DEF BeforeLoop, WithKv, Stages
<1>1. CASE UNCHANGED svars
  BY <1>0, <1>1 DEF Phases, svars, vars, block, main, stampfs, trust
<1>2. CASE Start
  BY <1>0, <1>2 DEF Phases, Start, vars, block, stampfs, trust
<1>3. CASE OpenStores \/ ClearTx \/ ClearAddr \/ RefuseStamp
  BY <1>0, <1>3 DEF Phases, OpenStores, ClearTx, ClearAddr, RefuseStamp, block, stampfs, trust
<1>4. CASE OpenFails \/ RefuseStores \/ AcceptStores
  BY <1>0, <1>4 DEF Phases, OpenFails, RefuseStores, AcceptStores, vars, block, stampfs, trust
<1>5. CASE AcceptStamp
  <2>1. OPTS'.kv = OPTS.kv /\ stage' \in {"close_tx", "loop"} /\ stage = "stamp"
    BY <1>5 DEF AcceptStamp, MainTypes, OptionRecord
  <2>2. file_open' = file_open /\ buffered' = buffered
    BY <1>5 DEF AcceptStamp, stampfs
  <2> QED
    BY <1>0, <2>1, <2>2 DEF Phases
<1>6. CASE LoadBlock \/ ResolveStep
  <2>1. stage = "loop" /\ UNCHANGED main
    BY <1>6 DEF LoadBlock, ResolveStep, Loop
  <2> QED
    BY <1>0, <2>1 DEF Phases, main, stampfs, trust
<1>7. CASE LoadFails \/ ResolveFails \/ NumDone
  BY <1>0, <1>7 DEF Phases, LoadFails, ResolveFails, NumDone, Loop, vars, block, stampfs, trust
<1>8. CASE Update
  <2>1. /\ stage = "loop" /\ stage' = "out" /\ pc' = "resolved" /\ OPTS' = OPTS /\ OPTS.num # 0
        /\ OPTS.infile => file_open' /\ truestamp' = trusted /\ trusted' = trusted
        /\ ~OPTS.infile => UNCHANGED <<stampfs, truestamp, trusted>>
    BY <1>8 DEF Update, Loop, vars
  <2> QED
    BY <1>0, <2>1 DEF Phases, stampfs
<1>9. CASE UpdateFails
  <2>1. /\ stage = "loop" /\ stage' = "close_tx" /\ OPTS' = OPTS
        /\ file_open' = file_open /\ buffered' \in {buffered, <<>>} /\ UNCHANGED trust
    BY <1>9 DEF UpdateFails, Loop
  <2> QED
    BY <1>0, <2>1 DEF Phases, trust
<1>10. CASE OutBlock
  <2>1. /\ stage = "out" /\ stage' = "loop" /\ UNCHANGED <<stampfs, trust>>
        /\ OPTS'.kv = OPTS.kv /\ OPTS'.infile = OPTS.infile
    BY <1>10 DEF OutBlock, MainTypes, OptionRecord
  <2> QED
    BY <1>0, <2>1 DEF Phases, stampfs, trust
<1>11. CASE CloseTx \/ CloseAddr
  BY <1>0, <1>11 DEF Phases, CloseTx, CloseAddr, vars, block, stampfs, trust
<1>12. CASE CloseStamp \/ Abort \/ Crash
  <2>1. /\ stage' = "off" /\ file_open' = FALSE /\ buffered' = <<>> /\ FreshProcess
    BY <1>12 DEF CloseStamp, Abort, Crash, Gone
  <2> QED
    BY <2>1 DEF Phases, FreshProcess, NewBlock
<1>13. CASE PlainCache \/ PlainBlock
  <2>1. /\ stage \in {"plain", "plain_loop"} /\ stage' \in {"plain_loop", "close_stamp"}
        /\ UNCHANGED <<pc, block, stampfs, trust>>
        /\ OPTS'.kv = OPTS.kv /\ OPTS'.infile = OPTS.infile
    BY <1>13 DEF PlainCache, PlainBlock, MainTypes, OptionRecord
  <2> QED
    BY <1>0, <2>1 DEF Phases, block, stampfs, trust
<1>14. CASE PlainEnds
  BY <1>0, <1>14 DEF Phases, PlainEnds, vars, block, stampfs, trust
<1> QED
  BY <1>1, <1>2, <1>3, <1>4, <1>5, <1>6, <1>7, <1>8, <1>9, <1>10, <1>11, <1>12, <1>13, <1>14
     DEF SessionNext, Process, SetCache, MainLoop, StopCache, Plain

\* A store of a session that is counted as empty is.
LEMMA NoKeys ==
    ASSUME NEW K, IsFiniteSet(K), NEW db \in Store(K), Sized(db), Count(db) = 0
    PROVE  db = EmptyStore(K)
<1>1. Cardinality(Keys(db)) = 0
  BY CountExact DEF Sized
<1>2. Keys(db) = {}
  BY <1>1, KeysCounted, StoreCounting, FS_EmptySet
<1>3. \A k \in K : db[k] = NotFound
  BY <1>2 DEF Keys, Store
<1> QED
  BY <1>3 DEF EmptyStore, Store

LEMMA EmptyCount ==
    ASSUME NEW K, IsFiniteSet(K)
    PROVE  Count(EmptyStore(K)) = 0
BY EmptyStoreFacts, EmptySized, CountExact DEF Sized

\* What set_cache() accepts.
LEMMA StepAccepted == MainTypes /\ SInv /\ [SessionNext]_svars => Accepted'
<1> SUFFICES ASSUME MainTypes, SInv, [SessionNext]_svars PROVE Accepted'
  OBVIOUS
<1>0. Accepted /\ Phases
  BY DEF SInv
<1>1. CASE UNCHANGED svars
  BY <1>0, <1>1 DEF Accepted, NewStores, FromScratch, svars, main, vars, stores
<1>2. CASE OpenStores
  BY <1>2 DEF OpenStores, Accepted, NewStores
<1>3. CASE AcceptStores
  <2>1. /\ stage = "check" /\ UNCHANGED <<txdb, addrdb, OPTS>>
        /\ stage' = IF OPTS.from = 0 THEN "clear_tx" ELSE "stamp"
        /\ ChkKv(txdb) /\ ChkKv(addrdb)
    BY <1>3 DEF AcceptStores, Acceptable, vars, stores
  <2>2. CASE OPTS.from = 0
    BY <1>0, <2>1, <2>2 DEF Accepted, NewStores
  <2>3. ASSUME OPTS.from # 0, FromScratch PROVE NewStores
    <3>1. Count(txdb) = 0 /\ Count(addrdb) = 0
      BY <2>1, <2>3 DEF ChkKv, FromScratch
    <3> QED
      BY <3>1, NoKeys, ResolveAssumption DEF MainTypes, TypeOK, SInv, SizesOK, NewStores
  <2>4. ASSUME OPTS.from # 0, ~OPTS.infile, ~OPTS.info PROVE FromScratch
    <3>1. NewStores
      BY <1>0, <2>1, <2>4 DEF Accepted
    <3>2. Count(txdb) = 0
      BY <3>1, EmptyCount, ResolveAssumption DEF NewStores
    <3> QED
      BY <2>1, <2>4, <3>2 DEF ChkKv, FromScratch
  <2>5. CASE OPTS.from # 0
    <3>1. stage' = "stamp" /\ FromScratch' = FromScratch /\ NewStores' = NewStores
      BY <2>1, <2>5 DEF FromScratch, NewStores
    <3> QED
      BY <1>0, <2>1, <2>3, <2>4, <2>5, <3>1 DEF Accepted
  <2> QED
    BY <2>2, <2>5
<1>4. CASE ClearTx
  <2>1. /\ stage = "clear_tx" /\ stage' = "clear_addr" /\ UNCHANGED <<addrdb, OPTS>>
        /\ txdb' \in {txdb, EmptyStore(TxHash)}
        /\ txdb' = EmptyStore(TxHash) \/ CanFail("clear")
    BY <1>4, ClearedStores DEF ClearTx
  <2> QED
    BY <1>0, <2>1 DEF Accepted, NewStores
<1>5. CASE ClearAddr
  <2>1. /\ stage = "clear_addr" /\ stage' = "stamp" /\ UNCHANGED <<txdb, OPTS>>
        /\ addrdb' \in {addrdb, EmptyStore(AddrKey)}
        /\ addrdb' = EmptyStore(AddrKey) \/ CanFail("clear")
    BY <1>5, ClearedStores DEF ClearAddr
  <2> QED
    BY <1>0, <2>1 DEF Accepted, NewStores, FromScratch
<1>6. CASE ~ (OpenStores \/ AcceptStores \/ ClearTx \/ ClearAddr) /\ ~ UNCHANGED svars
  <2>1. stage' \notin {"check", "clear_tx", "clear_addr", "stamp"}
    BY <1>0, <1>6 DEF SessionNext, Process, SetCache, MainLoop, StopCache, Plain, Start, OpenFails,
       RefuseStores, RefuseStamp, AcceptStamp, LoadBlock, LoadFails, ResolveStep, ResolveFails,
       NumDone, Update, UpdateFails, OutBlock, CloseTx, CloseAddr, CloseStamp, Abort, Crash, Gone,
       PlainCache, PlainBlock, PlainEnds, Loop, main
  <2> QED
    BY <2>1 DEF Accepted
<1> QED
  BY <1>1, <1>2, <1>3, <1>4, <1>5, <1>6

-----------------------------------------------------------------------------
\* The loop on trusted stores stays at the height that it counts.
LEMMA ResolvedEntered ==
    ASSUME [Next]_vars
    PROVE  /\ pc' = "resolved" => BlockResolved \/ UNCHANGED vars
           /\ pc' = "idle" => NextBlock \/ UNCHANGED vars
BY DEF Next, BeginBlock, ResolveForward, Rollback, NextBlock, Fail, RollbackReturns, AddTx,
   RefuseTx, VinCoinbase, VinFound, VinNotFound, VinThrows, VinsDone, VoutNoAddr, VoutKnown,
   VoutTakenForNew, VoutNew, VoutMismatch, VoutRefused, VoutsDone, BlockResolved, SkipVout,
   DelAddr, DelAddrFails, AtVout, PastVouts, SkipTx, DelTx, DelTxFails, KeepTx, BlockFailed, Back

LEMMA StepAtHeight == IInv /\ NumbersAsSeen /\ AtHeight /\ [Next]_vars => AtHeight'
<1> SUFFICES ASSUME IInv, NumbersAsSeen, AtHeight, [Next]_vars PROVE AtHeight'
  OBVIOUS
<1> DEFINE n == COUNT.bk
<1>0. TypeOK /\ IInv'
  BY StepInv DEF IInv
<1>1. CASE UNCHANGED vars
  BY <1>1 DEF vars, stores, begun, AtHeight, Holds
<1>2. CASE BeginBlock
  BY <1>2 DEF BeginBlock, stores, AtHeight, Holds
<1>3. CASE NextBlock
  <2>1. COUNT'.bk = n + 1
    BY <1>0, <1>3 DEF NextBlock, TypeOK
  <2> QED
    BY <1>3, <2>1 DEF NextBlock, stores, AtHeight, Holds
<1>4. CASE BlockResolved
  <2>1. /\ pc' = "resolved" /\ pc = "tx" /\ COUNT' = COUNT /\ UNCHANGED <<stores, begun>>
    BY <1>4 DEF BlockResolved
  <2>2. txdb0 = Canon[n].tx /\ addrdb0 = Canon[n].addr
    BY <2>1 DEF AtHeight, Holds
  <2>3. /\ n \in 0 .. Len(Chain) - 1 /\ n + 1 \in 0 .. Len(Chain) /\ txs = BlockOf(n)
        /\ Canon[n].tx \in Counting(TxHash) /\ Canon[n].addr \in Counting(AddrKey)
    BY <1>0, <2>1, BlockOfChain, CanonCounting, ResolveAssumption
       DEF NumbersAsSeen, BlockInHand, AtHeight, Fit
  <2>4. txdb = Canon[n + 1].tx /\ addrdb = Canon[n + 1].addr
    BY <1>4, <2>2, <2>3, ResolvedIsNumbered, CanonStep DEF HashKeys, AddrKeys
  <2>5. FitStore(TxHash, txdb) /\ FitStore(AddrKey, addrdb)
    BY <2>1 DEF IInv, TypeOK, CountsAgree, Numbers, IdsUnique, Back, FitStore, Sized
  <2>6. n + 1 \in Fit
    BY <2>3, <2>4, <2>5 DEF Fit
  <2> QED
    BY <2>1, <2>2, <2>4, <2>6 DEF AtHeight, Holds, stores, begun
<1>5. CASE ~ UNCHANGED vars /\ ~ BeginBlock /\ ~ NextBlock /\ ~ BlockResolved
  <2>1. COUNT'.bk = n /\ begun' = begun /\ pc # "idle" /\ pc' # "idle" /\ pc' # "resolved"
    BY <1>0, <1>5, HeightKept, ResolvedEntered
  <2> QED
    BY <2>1 DEF AtHeight, Holds, begun
<1> QED
  BY <1>1, <1>2, <1>3, <1>4, <1>5

\* The loop begins on empty stores, or on those that the stamp is true of.
LEMMA FitEmpty ==
    /\ 0 \in Fit
    /\ Canon[0].tx = EmptyStore(TxHash) /\ Canon[0].addr = EmptyStore(AddrKey)
BY CanonUnfold, EmptyStoreFacts, EmptySized, ResolveAssumption DEF Fit, FitStore

LEMMA EnterHeight ==
    ASSUME MainTypes, SInv, AcceptStamp, stage' = "loop", Undisturbed'
    PROVE  COUNT'.bk \in Fit /\ Holds(COUNT'.bk, txdb, addrdb)
<1>1. /\ stage = "stamp" /\ StampOK /\ ~OPTS.info
      /\ OPTS.infile' = OPTS.infile
      /\ COUNT'.bk = IF OPTS.from = Omitted THEN 0 ELSE OPTS.from
      /\ OPTS.kv
  BY DEF AcceptStamp, MainTypes, OptionRecord, SInv, Phases, WithKv
<1>2. CASE BegunEmpty
  <2>1. NewStores /\ COUNT'.bk = 0
    BY <1>1, <1>2 DEF BegunEmpty, FromScratch
  <2> QED
    BY <2>1, FitEmpty DEF NewStores, Holds
<1>3. CASE ~ BegunEmpty
  <2>1. OPTS.infile /\ OPTS.from # Omitted
    <3>1. OPTS.infile \/ NewStores
      BY <1>1 DEF SInv, Accepted
    <3>2. OPTS.from = Omitted => NewStores \/ OPTS.from = 0
      BY <1>1 DEF SInv, Accepted, FromScratch
    <3>3. OPTS.infile \/ FromScratch
      BY <1>1 DEF SInv, Accepted
    <3> QED
      BY <1>1, <1>3, <3>1, <3>2, <3>3, MaxU32Assumption DEF BegunEmpty, FromScratch, Omitted
  <2>2. trusted /\ truestamp /\ StampRead
    BY <1>1, <1>3, <2>1 DEF AcceptStamp, Undisturbed
  <2>3. stamp = <<OPTS.from, Count(txdb), Count(addrdb)>> /\ stamp \notin {Absent, <<>>}
    BY <1>1, <2>2 DEF StampOK, StampAgrees, StampRead
  <2>4. PICK m \in Fit : stamp = StampOf(m)
    BY <2>2, <2>3 DEF SInv, TrueStamps, FitStamps
  <2>5. /\ Near(txdb, Canon[m].tx) /\ Near(addrdb, Canon[m].addr)
    BY <1>1, <2>1, <2>2 DEF SInv, TrustedNear, FitStores, TxKept, AddrKept, OnFile
  <2>6. /\ Cardinality(Keys(txdb)) = Cardinality(Keys(Canon[m].tx))
        /\ Cardinality(Keys(addrdb)) = Cardinality(Keys(Canon[m].addr))
        /\ OPTS.from = m
    BY <2>3, <2>4, CountExact, ResolveAssumption
       DEF StampOf, SInv, SizesOK, Sized, MainTypes, TypeOK
  <2>7. txdb = Canon[m].tx /\ addrdb = Canon[m].addr
    BY <2>5, <2>6, NearSame, ResolveAssumption DEF Fit, FitStore, MainTypes, TypeOK
  <2> QED
    BY <1>1, <2>1, <2>6, <2>7 DEF Holds
<1> QED
  BY <1>2, <1>3

LEMMA EnterLoop ==
    ASSUME MainTypes, SInv, AcceptStamp, stage' = "loop"
    PROVE  /\ TxInv' /\ BlockInHand'
           /\ Undisturbed' => IInv' /\ NumbersAsSeen' /\ AtHeight'
<1>1. /\ pc = "idle" /\ pc' = pc /\ txs = <<>> /\ txs' = txs /\ UNCHANGED stores
      /\ txdb0' = txdb /\ addrdb0' = addrdb
      /\ COUNT'.tx = Count(txdb) /\ COUNT'.addr = Count(addrdb)
  BY DEF AcceptStamp, SInv, Phases, BeforeLoop, block
<1>2. Begun'
  <2>1. TypeOK'
    BY SessionStepTypeOK DEF AcceptStamp, SessionNext, Process, SetCache
  <2>2. /\ COUNT'.tx = Cardinality(Keys(txdb)) /\ COUNT'.addr = Cardinality(Keys(addrdb))
    BY <1>1, CountExact, ResolveAssumption DEF SInv, SizesOK, Sized, MainTypes, TypeOK
  <2> QED
    BY <1>1, <2>1, <2>2 DEF Begun, stores
<1>3. TxInv'
  BY <1>2, BegunTxInv, PTL
<1>4. NumbersAsSeen'
  <2>1. (pc = "idle")'
    BY <1>1
  <2> QED
    BY <2>1, IdleAsSeen, PTL
<1>5. BlockInHand'
  BY <1>1 DEF BlockInHand
<1>6. ASSUME Undisturbed' PROVE IInv' /\ AtHeight'
  <2>1. COUNT'.bk \in Fit /\ Holds(COUNT'.bk, txdb, addrdb)
    BY <1>6, EnterHeight
  <2>2. AtHeight'
    BY <1>1, <2>1 DEF AtHeight, Holds, stores
  <2>3. Dense(txdb) /\ Unique(txdb) /\ Dense(addrdb) /\ Unique(addrdb)
    BY <2>1 DEF Fit, FitStore, Holds
  <2>4. (Dense(txdb) /\ Unique(txdb) /\ Dense(addrdb) /\ Unique(addrdb))'
    <3>1. txdb' = txdb /\ addrdb' = addrdb
      BY <1>1 DEF stores
    <3>2. Dense(txdb)' /\ Dense(addrdb)'
      BY <2>3, <3>1 DEF Dense, Keys
    <3>3. Unique(txdb)' /\ Unique(addrdb)'
      BY <2>3, <3>1 DEF Unique, Keys
    <3> QED
      BY <3>2, <3>3
  <2>5. IInv'
    BY <1>2, <2>4, BegunInv, PTL
  <2> QED
    BY <2>2, <2>5
<1> QED
  BY <1>3, <1>4, <1>5, <1>6

-----------------------------------------------------------------------------
\* The loop, and what follows it.
HeldInLoop == IInv /\ NumbersAsSeen /\ AtHeight

LEMMA StepHeld == HeldInLoop /\ [Next]_vars => HeldInLoop'
BY StepInv, StepAsSeen, StepAtHeight DEF HeldInLoop

\* The steps of the block in hand.
OnBlock == LoadBlock \/ ResolveStep \/ OutBlock

LEMMA OnBlockKeeps ==
    ASSUME MainTypes, SInv, OnBlock
    PROVE  /\ [Next]_vars /\ InLoop /\ InLoop'
           /\ UNCHANGED <<files, stampfs, trust>>
           /\ OPTS'.infile = OPTS.infile /\ OPTS'.kv = OPTS.kv /\ OPTS.kv
           /\ TxInv' /\ BlockInHand'
           /\ Undisturbed' = Undisturbed
           /\ Undisturbed => HeldInLoop /\ HeldInLoop'
<1>1. /\ [Next]_vars /\ InLoop /\ InLoop' /\ stage \in WithKv
      /\ UNCHANGED <<files, stampfs, trust>>
  BY DEF OnBlock, LoadBlock, ResolveStep, OutBlock, Next, Loop, InLoop, main, WithKv
<1>2. OPTS'.infile = OPTS.infile /\ OPTS'.kv = OPTS.kv /\ OPTS.kv
  BY <1>1 DEF OnBlock, LoadBlock, ResolveStep, OutBlock, main, MainTypes, OptionRecord, SInv, Phases
<1>3. TxInv' /\ BlockInHand'
  BY <1>1, StepTxInv, StepInHand DEF SInv, LoopInv, MainTypes
<1>4. Undisturbed' = Undisturbed
  BY <1>1, <1>2 DEF Undisturbed, trust
<1>5. Undisturbed => HeldInLoop /\ HeldInLoop'
  BY <1>1, StepHeld DEF SInv, LoopInv, HeldInLoop
<1> QED
  BY <1>1, <1>2, <1>3, <1>4, <1>5

\* The steps that leave the stores and where resolving stands as they are.
Around ==
    \/ LoadFails \/ ResolveFails \/ NumDone \/ Update \/ UpdateFails
    \/ CloseTx \/ CloseAddr

LEMMA AroundKeeps ==
    ASSUME MainTypes, SInv, Around
    PROVE  /\ UNCHANGED vars /\ OPTS' = OPTS /\ trusted' = trusted
           /\ OPTS.kv
           /\ InLoop' => InLoop
           /\ AfterLoop' => InLoop \/ AfterLoop
           /\ stage' \in {"out", "close_tx", "close_addr", "close_stamp"}
<1>1. /\ UNCHANGED vars /\ OPTS' = OPTS /\ trusted' = trusted /\ stage \in WithKv
      /\ stage' \in {"out", "close_tx", "close_addr", "close_stamp"}
  BY DEF Around, LoadFails, ResolveFails, NumDone, Update, UpdateFails, CloseTx, CloseAddr, Loop,
     trust, WithKv
<1>2. InLoop' => InLoop
  BY DEF Around, LoadFails, ResolveFails, NumDone, Update, UpdateFails, CloseTx, CloseAddr, Loop,
     InLoop
<1>3. AfterLoop' => InLoop \/ AfterLoop
  BY DEF Around, LoadFails, ResolveFails, NumDone, Update, UpdateFails, CloseTx, CloseAddr, Loop,
     InLoop, AfterLoop, Closing, stampfs
<1> QED
  BY <1>1, <1>2, <1>3 DEF SInv, Phases

LEMMA StepLoopInv == MainTypes /\ SInv /\ [SessionNext]_svars => LoopInv'
<1> SUFFICES ASSUME MainTypes, SInv, [SessionNext]_svars PROVE LoopInv'
  OBVIOUS
<1>0. Phases /\ Phases' /\ LoopInv
  BY StepPhases DEF SInv
<1>1. CASE OnBlock
  BY <1>1, OnBlockKeeps DEF LoopInv, HeldInLoop
<1>2. CASE Around
  <2>1. UNCHANGED vars /\ Undisturbed' = Undisturbed
    BY <1>2, AroundKeeps DEF Undisturbed
  <2>2. [Next]_vars
    BY <2>1
  <2>3. InLoop' => TxInv' /\ BlockInHand'
    BY <1>0, <1>2, <2>2, AroundKeeps, StepTxInv, StepInHand DEF LoopInv, MainTypes
  <2>4. (InLoop \/ AfterLoop)' /\ Undisturbed' => HeldInLoop'
    BY <1>0, <1>2, <2>1, <2>2, AroundKeeps, StepHeld DEF LoopInv, HeldInLoop
  <2> QED
    BY <2>3, <2>4 DEF LoopInv, HeldInLoop
<1>3. CASE UNCHANGED svars
  <2>1. UNCHANGED vars /\ [Next]_vars /\ Undisturbed' = Undisturbed /\ InLoop' = InLoop
        /\ AfterLoop' = AfterLoop
    BY <1>3 DEF svars, main, trust, stampfs, Undisturbed, InLoop, AfterLoop
  <2> QED
    BY <1>0, <2>1, StepTxInv, StepInHand, StepHeld DEF LoopInv, HeldInLoop, MainTypes
<1>4. CASE AcceptStamp /\ stage' = "loop"
  BY <1>4, EnterLoop DEF LoopInv
<1>5. CASE AcceptStamp /\ stage' # "loop"
  <2>1. ~ InLoop' /\ ~ AfterLoop'
    BY <1>0, <1>5 DEF AcceptStamp, stampfs, Phases, BeforeLoop, InLoop, AfterLoop
  <2> QED
    BY <2>1 DEF LoopInv
<1>6. CASE ~ OnBlock /\ ~ Around /\ ~ UNCHANGED svars /\ ~ AcceptStamp
  <2>1. ~ InLoop' /\ ~ AfterLoop'
    BY <1>0, <1>6
       DEF SessionNext, Process, SetCache, MainLoop, StopCache, Plain, OnBlock, Around,
       Start, OpenStores, OpenFails, RefuseStores, AcceptStores, ClearTx, ClearAddr, RefuseStamp,
       CloseStamp, Abort, Crash, Gone, PlainCache, PlainBlock, PlainEnds,
       stampfs, Phases, BeforeLoop, InLoop, AfterLoop, Closing
  <2> QED
    BY <2>1 DEF LoopInv
<1> QED
  BY <1>1, <1>2, <1>3, <1>4, <1>5, <1>6

\* Trusted stores stay near those of every height, open or on file.
LEMMA StepTrustedNear == MainTypes /\ SInv /\ [SessionNext]_svars => TrustedNear'
<1> SUFFICES ASSUME MainTypes, SInv, [SessionNext]_svars, trusted'
             PROVE  \A m \in Fit : /\ Near(TxKept', Canon[m].tx)
                                   /\ Near(AddrKept', Canon[m].addr)
  BY DEF TrustedNear, FitStores, Near, Grown, Within, Keys
<1>0. /\ Phases /\ LoopInv /\ LoopInv' /\ stage \in Stages
      /\ trusted => \A m \in Fit : Near(TxKept, Canon[m].tx) /\ Near(AddrKept, Canon[m].addr)
      /\ IsFiniteSet(TxHash) /\ IsFiniteSet(AddrKey)
      /\ txdb \in Store(TxHash) /\ addrdb \in Store(AddrKey)
      /\ \A m \in Fit : FitStore(TxHash, Canon[m].tx) /\ FitStore(AddrKey, Canon[m].addr)
      /\ \A m \in Fit : /\ Near(EmptyStore(TxHash), Canon[m].tx)
                        /\ Near(EmptyStore(AddrKey), Canon[m].addr)
  BY StepLoopInv, ResolveAssumption, NearEmpty DEF SInv, TrustedNear, FitStores, MainTypes,
     TypeOK, Fit
<1> USE DEF OnFile
<1>1. CASE OnBlock
  <2>1. /\ stage \in {"loop", "out"} /\ stage' \in {"loop", "out"} /\ trusted
        /\ txfile' = txfile /\ addrfile' = addrfile
        /\ OPTS'.infile = OPTS.infile /\ OPTS'.kv = OPTS.kv
        /\ HeldInLoop'
    BY <1>1, OnBlockKeeps DEF InLoop, files, trust, Undisturbed
  <2>2. \A m \in Fit : Near(txdb', Canon[m].tx) /\ Near(addrdb', Canon[m].addr)
    <3>1. (\A m \in Fit : Near(txdb, Canon[m].tx) /\ Near(addrdb, Canon[m].addr))'
      BY <2>1, LoopNear, PTL DEF HeldInLoop
    <3> QED
      BY <3>1 DEF Near, Grown, Within, Keys
  <2> QED
    BY <1>0, <2>1, <2>2 DEF TxKept, AddrKept
<1>2. CASE AcceptStamp
  <2>1. /\ stage = "stamp" /\ stage' \in {"loop", "close_tx"} /\ OPTS.kv
        /\ OPTS'.infile = OPTS.infile /\ OPTS'.kv = OPTS.kv
        /\ UNCHANGED <<txdb, addrdb, txfile, addrfile>>
        /\ trusted \/ (OPTS.infile /\ BegunEmpty)
    BY <1>0, <1>2 DEF AcceptStamp, MainTypes, OptionRecord, Phases, WithKv, stores, files
  <2>2. CASE trusted
    BY <1>0, <2>1, <2>2 DEF TxKept, AddrKept
  <2>3. CASE OPTS.infile /\ BegunEmpty
    <3>1. txdb = EmptyStore(TxHash) /\ addrdb = EmptyStore(AddrKey)
      BY <2>3 DEF BegunEmpty, NewStores
    <3> QED
      BY <1>0, <2>1, <2>3, <3>1 DEF TxKept, AddrKept
  <2> QED
    BY <2>1, <2>2, <2>3
<1>3. CASE ClearTx \/ ClearAddr \/ OpenStores
  <2>1. /\ stage \in {"clear_tx", "clear_addr", "open"} /\ OPTS.kv /\ trusted
        /\ stage' \in {"clear_addr", "stamp", "check"} /\ UNCHANGED <<OPTS, txfile, addrfile>>
    BY <1>0, <1>3 DEF ClearTx, ClearAddr, OpenStores, Phases, WithKv, files, trust
  <2>2. CASE ~ OPTS.infile
    BY <1>0, <2>1, <2>2 DEF TxKept, AddrKept
  <2>3. CASE OPTS.infile
    <3>1. /\ TxKept' \in {TxKept, EmptyStore(TxHash)}
          /\ AddrKept' \in {AddrKept, EmptyStore(AddrKey)}
      BY <1>3, <2>1, <2>3, ClearedStores DEF ClearTx, ClearAddr, OpenStores, TxKept, AddrKept
    <3> QED
      BY <1>0, <2>1, <3>1
  <2> QED
    BY <2>2, <2>3
<1>4. CASE CloseTx \/ CloseAddr \/ Abort \/ Crash
  <2>1. trusted
    BY <1>4 DEF CloseTx, CloseAddr, Abort, Crash, Gone, trust
  <2>2. TxKept' = TxKept \/ (TxKept' \in Truncated(txdb) /\ TxKept = txdb)
    <3>1. CASE CloseTx
      <4>1. OPTS.kv /\ OPTS' = OPTS /\ TxKept' = txfile'
        BY <1>0, <3>1 DEF CloseTx, TxKept, Phases, WithKv
      <4>2. CASE OPTS.infile
        <5>1. TxKept = txdb /\ txfile' \in Closed(txdb)
          BY <3>1, <4>1, <4>2 DEF CloseTx, TxKept
        <5> QED
          BY <4>1, <5>1 DEF Closed
      <4>3. CASE ~ OPTS.infile
        BY <3>1, <4>1, <4>3 DEF CloseTx, TxKept
      <4> QED
        BY <4>2, <4>3
    <3>2. CASE CloseAddr
      BY <3>2 DEF CloseAddr, TxKept, vars, stores
    <3>3. CASE Abort \/ Crash
      <4>1. Gone /\ stage # "off" /\ TxKept' = txfile'
        BY <3>3 DEF Abort, Crash, Gone, TxKept
      <4>2. CASE OPTS.kv /\ OPTS.infile /\ stage \notin {"open", "close_addr", "close_stamp"}
        BY <4>1, <4>2 DEF Gone, TxKept
      <4>3. CASE ~ (OPTS.kv /\ OPTS.infile /\ stage \notin {"open", "close_addr", "close_stamp"})
        <5>1. txfile' = txfile
          BY <4>1, <4>3 DEF Gone
        <5>2. TxKept = txfile
          BY <4>1, <4>3 DEF TxKept
        <5> QED
          BY <4>1, <5>1, <5>2
      <4> QED
        BY <4>2, <4>3
    <3> QED
      BY <1>4, <3>1, <3>2, <3>3
  <2>3. AddrKept' = AddrKept \/ (AddrKept' \in Truncated(addrdb) /\ AddrKept = addrdb)
    <3>1. CASE CloseAddr
      <4>1. OPTS.kv /\ OPTS' = OPTS /\ AddrKept' = addrfile'
        BY <1>0, <3>1 DEF CloseAddr, AddrKept, Phases, WithKv
      <4>2. CASE OPTS.infile
        <5>1. AddrKept = addrdb /\ addrfile' \in Closed(addrdb)
          BY <3>1, <4>1, <4>2 DEF CloseAddr, AddrKept
        <5> QED
          BY <4>1, <5>1 DEF Closed
      <4>3. CASE ~ OPTS.infile
        BY <3>1, <4>1, <4>3 DEF CloseAddr, AddrKept
      <4> QED
        BY <4>2, <4>3
    <3>2. CASE CloseTx
      BY <3>2 DEF CloseTx, AddrKept, vars, stores
    <3>3. CASE Abort \/ Crash
      <4>1. Gone /\ stage # "off" /\ AddrKept' = addrfile'
        BY <3>3 DEF Abort, Crash, Gone, AddrKept
      <4>2. CASE OPTS.kv /\ OPTS.infile /\ stage \notin {"open", "close_stamp"}
        BY <4>1, <4>2 DEF Gone, AddrKept
      <4>3. CASE ~ (OPTS.kv /\ OPTS.infile /\ stage \notin {"open", "close_stamp"})
        <5>1. addrfile' = addrfile
          BY <4>1, <4>3 DEF Gone
        <5>2. AddrKept = addrfile
          BY <4>1, <4>3 DEF AddrKept
        <5> QED
          BY <4>1, <5>1, <5>2
      <4> QED
        BY <4>2, <4>3
    <3> QED
      BY <1>4, <3>1, <3>2, <3>3
  <2> QED
    BY <1>0, <2>1, <2>2, <2>3, NearTruncated
<1>5. CASE ~ (OnBlock \/ AcceptStamp \/ ClearTx \/ ClearAddr \/ OpenStores \/ CloseTx \/ CloseAddr
              \/ Abort \/ Crash)
  <2>1. trusted
    BY <1>5 DEF SessionNext, Process, SetCache, MainLoop, StopCache, Plain, OnBlock, Start,
       OpenFails, RefuseStores, AcceptStores, RefuseStamp, LoadFails, ResolveFails, NumDone,
       Update, UpdateFails, CloseStamp, PlainCache, PlainBlock, PlainEnds, main, trust, svars
  <2>2. TxKept' = TxKept /\ AddrKept' = AddrKept
    <3>1. CASE Start \/ OpenFails \/ CloseStamp
      BY <3>1 DEF Start, OpenFails, CloseStamp, TxKept, AddrKept, files
    <3>2. CASE PlainCache \/ PlainBlock \/ PlainEnds
      BY <1>0, <3>2 DEF PlainCache, PlainBlock, PlainEnds, TxKept, AddrKept, files, Phases,
         MainTypes, OptionRecord
    <3>3. CASE RefuseStores \/ AcceptStores \/ RefuseStamp \/ LoadFails \/ ResolveFails \/ NumDone
               \/ Update \/ UpdateFails
      BY <3>3 DEF RefuseStores, AcceptStores, RefuseStamp, LoadFails, ResolveFails, NumDone,
         Update, UpdateFails, Loop, TxKept, AddrKept, files, vars, stores
    <3>4. CASE UNCHANGED svars
      BY <3>4 DEF svars, main, files, vars, stores, TxKept, AddrKept
    <3> QED
      BY <1>5, <3>1, <3>2, <3>3, <3>4
         DEF SessionNext, Process, SetCache, MainLoop, StopCache, Plain, OnBlock
  <2> QED
    BY <1>0, <2>1, <2>2
<1> QED
  BY <1>1, <1>2, <1>3, <1>4, <1>5

\* The stamp that is written for a trusted store is a true one.
LEMMA NewStampTrue ==
    ASSUME TypeOK, IInv, AtHeight, BlockInHand, pc = "resolved"
    PROVE  COUNT.bk + 1 \in Fit /\ NewStamp = StampOf(COUNT.bk + 1)
<1>1. NewStamp = <<COUNT.bk + 1, COUNT.tx, COUNT.addr>>
  BY NewStampType
<1>2. /\ COUNT.bk + 1 \in Fit
      /\ txdb = Canon[COUNT.bk + 1].tx /\ addrdb = Canon[COUNT.bk + 1].addr
  BY DEF AtHeight, Holds
<1> QED
  BY <1>1, <1>2 DEF StampOf, IInv, CountsAgree

LEMMA StepTrueStamps == MainTypes /\ SInv /\ [SessionNext]_svars => TrueStamps'
<1> DEFINE True == {Absent, <<>>} \cup {StampOf(m) : m \in Fit}
<1> SUFFICES ASSUME MainTypes, SInv, [SessionNext]_svars, truestamp'
             PROVE  stamp' \in True /\ buffered' \in True
  BY DEF TrueStamps, FitStamps, StampOf, Fit, FitStore, Sized, Dense, Unique, Keys
<1>0. /\ truestamp => stamp \in True /\ buffered \in True
      /\ file_open => truestamp = trusted
      /\ <<>> \in True
  BY DEF SInv, TrueStamps, FitStamps, Phases
<1> HIDE DEF True
<1>1. CASE Update /\ OPTS.infile
  <2>1. /\ pc = "resolved" /\ InLoop /\ trusted
        /\ stamp' = IF file_open THEN buffered ELSE <<>>
        /\ buffered' = NewStamp
    BY <1>1 DEF Update, Loop, InLoop
  <2>2. NewStamp \in True
    BY <2>1, NewStampTrue DEF SInv, LoopInv, Undisturbed, MainTypes, True
  <2> QED
    BY <1>0, <2>1, <2>2
<1>2. CASE UpdateFails
  BY <1>0, <1>2 DEF UpdateFails, files, trust
<1>3. CASE CloseStamp \/ Abort \/ Crash
  BY <1>0, <1>3 DEF CloseStamp, Abort, Crash, Gone, trust
<1>4. CASE ~ (Update /\ OPTS.infile) /\ ~ (UpdateFails \/ CloseStamp \/ Abort \/ Crash)
  <2>1. stamp' = stamp /\ buffered' = buffered /\ truestamp' = truestamp
    BY <1>4 DEF SessionNext, Process, SetCache, MainLoop, StopCache, Plain, Start, OpenStores,
       OpenFails, RefuseStores, AcceptStores, ClearTx, ClearAddr, RefuseStamp, AcceptStamp,
       LoadBlock, LoadFails, ResolveStep, ResolveFails, NumDone, Update, OutBlock, CloseTx,
       CloseAddr, PlainCache, PlainBlock, PlainEnds, main, files, stampfs, trust, svars
  <2> QED
    BY <1>0, <2>1
<1> QED
  BY <1>1, <1>2, <1>3, <1>4

\* A resolved block is not gone on with.
LEMMA ForwardPlaces == ResolveForward \/ Rollback => pc # "resolved"
BY DEF ResolveForward, Rollback, AddTx, RefuseTx, VinCoinbase, VinFound, VinNotFound, VinThrows,
   VinsDone, VoutNoAddr, VoutKnown, VoutTakenForNew, VoutRefused, VoutsDone, BlockResolved,
   SkipVout, DelAddr, DelAddrFails, AtVout, PastVouts, SkipTx, DelTx, DelTxFails, KeepTx,
   BlockFailed, Back

\* What is buffered is the stamp of the height the session has come to.
LEMMA StepBuffered == MainTypes /\ SInv /\ [SessionNext]_svars => Buffered'
<1> SUFFICES ASSUME MainTypes, SInv, [SessionNext]_svars PROVE Buffered'
  OBVIOUS
<1> DEFINE S == StampOf(COUNT.bk)
           Close == stage \in Closing /\ pc # "resolved"
<1>0. /\ Phases /\ Phases'
      /\ stage = "out" /\ OPTS.infile => file_open /\ buffered = NewStamp
      /\ file_open /\ trusted /\ (stage = "loop" \/ Close) => buffered = S
  BY StepPhases DEF SInv, Buffered, AfterLoop, StampOf
<1>1. SUFFICES /\ stage' = "out" /\ OPTS'.infile => file_open' /\ buffered' = NewStamp'
               /\ file_open' /\ trusted' /\ (stage' = "loop" \/ Close') => buffered' = S'
  BY DEF Buffered, AfterLoop, StampOf, Keys
<1>2. CASE OutBlock
  <2>1. /\ stage = "out" /\ stage' = "loop" /\ pc = "resolved" /\ UNCHANGED <<stampfs, trust>>
        /\ COUNT' = [COUNT EXCEPT !.bk = COUNT.bk + 1]
    BY <1>2 DEF OutBlock, NextBlock
  <2>2. ASSUME file_open, trusted PROVE buffered = StampOf(COUNT.bk + 1)
    BY <1>0, <2>1, <2>2, NewStampTrue
       DEF SInv, LoopInv, InLoop, Undisturbed, MainTypes, Phases
  <2>3. COUNT'.bk = COUNT.bk + 1
    BY <2>1 DEF MainTypes, TypeOK
  <2>4. S' = StampOf(COUNT.bk + 1)
    BY <2>3 DEF StampOf, Keys
  <2> QED
    BY <2>1, <2>2, <2>4 DEF stampfs, trust
<1>3. CASE Update
  <2>1. stage' = "out" /\ COUNT' = COUNT
    BY <1>3 DEF Update, vars
  <2>2. OPTS'.infile => file_open' /\ buffered' = NewStamp
    BY <1>3 DEF Update
  <2> QED
    BY <2>1, <2>2 DEF NewStamp, Closing
<1>4. CASE LoadBlock \/ ResolveStep
  <2>1. stage = "loop" /\ UNCHANGED main /\ COUNT'.bk = COUNT.bk
    <3>1. stage = "loop" /\ UNCHANGED main /\ TypeOK
      BY <1>4 DEF LoadBlock, ResolveStep, Loop, MainTypes
    <3>2. CASE LoadBlock
      BY <3>1, <3>2 DEF LoadBlock, BeginBlock
    <3>3. CASE ResolveStep /\ pc = "resolved"
      BY <3>3, ForwardPlaces DEF ResolveStep
    <3>4. CASE ResolveStep /\ pc # "resolved"
      <4>1. [Next]_vars /\ (BeginBlock \/ COUNT'.bk = COUNT.bk)
        BY <3>1, <3>4, HeightKept DEF ResolveStep, Next, NextBlock
      <4> QED
        BY <3>1, <4>1 DEF BeginBlock
    <3> QED
      BY <1>4, <3>1, <3>2, <3>3, <3>4
  <2>2. S' = S
    BY <2>1 DEF StampOf, Keys
  <2> QED
    BY <1>0, <2>1, <2>2 DEF main, stampfs, trust, Closing
<1>5. CASE Around /\ ~ Update
  <2>1. /\ UNCHANGED vars /\ OPTS' = OPTS /\ trusted' = trusted /\ file_open' = file_open
        /\ stage' \in Closing /\ (stage = "loop" \/ stage \in Closing)
        /\ buffered' = buffered \/ pc = "resolved"
    BY <1>5, AroundKeeps DEF Around, LoadFails, ResolveFails, NumDone, UpdateFails, CloseTx,
       CloseAddr, Loop, stampfs, Closing
  <2>2. S' = S
    BY <2>1 DEF vars, StampOf, Keys
  <2> QED
    BY <1>0, <2>1, <2>2 DEF vars, Closing
<1>6. CASE UNCHANGED svars
  BY <1>0, <1>6 DEF svars, main, stampfs, trust, vars, NewStamp, StampOf, Keys
<1>7. CASE ~ (OutBlock \/ Around \/ LoadBlock \/ ResolveStep) /\ ~ UNCHANGED svars
  <2>1. ~ file_open' /\ stage' # "out"
    BY <1>0, <1>7
       DEF SessionNext, Process, SetCache, MainLoop, StopCache, Plain, Around,
       Start, OpenStores, OpenFails, RefuseStores, AcceptStores, ClearTx, ClearAddr, RefuseStamp,
       AcceptStamp, CloseStamp, Abort, Crash, Gone, PlainCache, PlainBlock, PlainEnds,
       stampfs, Phases, BeforeLoop
  <2> QED
    BY <2>1
<1> QED
  BY <1>2, <1>3, <1>4, <1>5, <1>6, <1>7

LEMMA StepClosed == MainTypes /\ SInv /\ [SessionNext]_svars => ClosedWhole'
<1> SUFFICES ASSUME MainTypes, SInv, [SessionNext]_svars, "close" \notin SessionFaults, file_open'
             PROVE  /\ stage' \in {"close_addr", "close_stamp"} => txfile' = txdb'
                    /\ stage' = "close_stamp" => addrfile' = addrdb'
  BY DEF ClosedWhole
<1>0. ClosedWhole /\ Phases /\ Phases'
  BY StepPhases DEF SInv
<1>1. CASE CloseTx
  <2>1. /\ OPTS.infile /\ stage' = "close_addr"
    BY <1>0, <1>1 DEF CloseTx, Phases, stampfs
  <2> QED
    BY <1>1, <2>1 DEF CloseTx, Closed, CanFail, vars, stores
<1>2. CASE CloseAddr
  <2>1. /\ OPTS.infile /\ file_open /\ stage = "close_addr" /\ UNCHANGED stores
    BY <1>0, <1>2 DEF CloseAddr, Phases, stampfs, vars
  <2> QED
    BY <1>0, <1>2, <2>1 DEF CloseAddr, Closed, CanFail, ClosedWhole, stores
<1>3. CASE UNCHANGED svars
  BY <1>0, <1>3 DEF ClosedWhole, svars, main, files, stampfs, vars, stores
<1>4. CASE ~ CloseTx /\ ~ CloseAddr /\ ~ UNCHANGED svars
  <2>1. stage' \notin {"close_addr", "close_stamp"}
    BY <1>0, <1>4 DEF SessionNext, Process, SetCache, MainLoop, StopCache, Plain, Start, OpenStores,
       OpenFails, RefuseStores, AcceptStores, ClearTx, ClearAddr, RefuseStamp, AcceptStamp,
       LoadBlock, LoadFails, ResolveStep, ResolveFails, NumDone, Update, UpdateFails, OutBlock,
       CloseStamp, Abort, Crash, Gone, PlainCache, PlainBlock, PlainEnds, Loop, main, stampfs,
       Phases, BeforeLoop
  <2> QED
    BY <2>1
<1> QED
  BY <1>1, <1>2, <1>3, <1>4

-----------------------------------------------------------------------------
\* What is printed.
Outs == [n : Nat, rows : Seq(Rows)]

\* A loop that goes on from its last value with every number up to N.
Chained(f, N, D, b, step) ==
    f \in [0 .. N -> D] /\ f[0] = b /\ \A j \in 1 .. N : f[j] = step[<<j, f[j - 1]>>]

LEMMA Rest ==
    ASSUME NEW N \in Nat, NEW D, NEW b \in D, NEW step \in [(1 .. N) \X D -> D]
    PROVE  \E f : Chained(f, N, D, b, step)
<1> DEFINE Solves(f, n) == /\ f \in [0 .. n -> D] /\ f[0] = b
                           /\ \A j \in 1 .. n : f[j] = step[<<j, f[j - 1]>>]
           S == {n \in Nat : n <= N => \E f : Solves(f, n)}
<1>1. 0 \in S
  <2>1. Solves([j \in {0} |-> b], 0)
    OBVIOUS
  <2> QED
    BY <2>1
<1>2. ASSUME NEW n \in Nat, n \in S PROVE n + 1 \in S
  <2> SUFFICES ASSUME n + 1 <= N PROVE \E f : Solves(f, n + 1)
    OBVIOUS
  <2>1. PICK f : Solves(f, n)
    BY <1>2
  <2> DEFINE x == step[<<n + 1, f[n]>>]
             g == [j \in 0 .. n + 1 |-> IF j = n + 1 THEN x ELSE f[j]]
  <2>2. x \in D
    <3>1. n \in 0 .. n /\ n + 1 \in 1 .. N
      OBVIOUS
    <3>2. f[n] \in D
      BY <2>1, <3>1
    <3> QED
      BY <3>1, <3>2
  <2> HIDE DEF x
  <2>3. /\ g \in [0 .. n + 1 -> D] /\ g[n + 1] = x
        /\ \A j \in 0 .. n : g[j] = f[j]
    BY <2>1, <2>2
  <2> HIDE DEF g
  <2>4. ASSUME NEW j \in 1 .. n + 1 PROVE g[j] = step[<<j, g[j - 1]>>]
    <3>1. CASE j = n + 1
      <4>1. j - 1 = n /\ g[n] = f[n]
        BY <2>3, <3>1
      <4> QED
        BY <2>3, <3>1, <4>1 DEF x
    <3>2. CASE j \in 1 .. n
      <4>1. j \in 0 .. n /\ j - 1 \in 0 .. n
        BY <3>2
      <4> QED
        BY <2>1, <2>3, <3>2, <4>1
    <3> QED
      BY <3>1, <3>2
  <2>5. g[0] = b
    BY <2>1, <2>3
  <2>6. Solves(g, n + 1)
    BY <2>3, <2>4, <2>5
  <2> QED
    BY <2>6
<1>3. N \in S
  <2> HIDE DEF S
  <2> QED
    BY <1>1, <1>2, Induct
<1> QED
  BY <1>3 DEF Chained

\* What holds of the first value, and of a value if of the last, holds of all.
LEMMA RestIn ==
    ASSUME NEW N \in Nat, NEW D, NEW f, f[0] \in D,
           \A j \in 1 .. N : f[j - 1] \in D => f[j] \in D
    PROVE  \A j \in 0 .. N : f[j] \in D
<1> DEFINE S == {n \in Nat : n <= N => f[n] \in D}
<1>1. 0 \in S
  OBVIOUS
<1>2. ASSUME NEW n \in Nat, n \in S PROVE n + 1 \in S
  <2> SUFFICES ASSUME n + 1 <= N PROVE f[n + 1] \in D
    OBVIOUS
  <2>1. f[n] \in D /\ n + 1 \in 1 .. N /\ (n + 1) - 1 = n
    BY <1>2
  <2> QED
    BY <2>1
<1>3. Nat \subseteq S
  <2> HIDE DEF S
  <2> QED
    BY <1>1, <1>2, Induct
<1> QED
  BY <1>3

LEMMA RowAdded ==
    ASSUME NEW row \in Rows, NEW o \in Outs
    PROVE  /\ Row(o, row) \in Outs
           /\ Row(o, row).n = o.n /\ Row(o, row).rows = Append(o.rows, row)
           /\ [n |-> o.n + 1, rows |-> Append(o.rows, row)] \in Outs
<1>1. o.rows \in Seq(Rows) /\ o.n \in Nat
  BY DEF Outs
<1>2. Append(o.rows, row) \in Seq(Rows)
  BY <1>1
<1> DEFINE r == Append(o.rows, row)
<1> HIDE DEF r
<1>3. [o EXCEPT !.rows = r] \in Outs /\ [o EXCEPT !.rows = r].n = o.n
      /\ [o EXCEPT !.rows = r].rows = r
  BY <1>2 DEF Outs, r
<1>4. [n |-> o.n + 1, rows |-> r] \in Outs
  BY <1>1, <1>2 DEF Outs, r
<1> QED
  BY <1>3, <1>4 DEF Row, r

LEMMA OutTypes ==
    ASSUME TypeOK, NEW i \in DOMAIN txs, NEW out \in Outs
    PROVE  /\ Row(out, <<"t", txid[i]>>) \in Outs
           /\ \A j \in DOMAIN txs[i].vins : OutVin(out, i, j) \in Outs
           /\ \A j \in DOMAIN txs[i].vouts : OutVout(out, i, j) \in Outs
<1>1. txid[i] \in U32
  BY DEF TypeOK
<1>2. ASSUME NEW row \in Rows, NEW o \in Outs PROVE Row(o, row) \in Outs
  BY RowAdded
<1>3. <<"t", txid[i]>> \in Rows
  BY <1>1 DEF Rows
<1>4. ASSUME NEW j \in DOMAIN txs[i].vins PROVE OutVin(out, i, j) \in Outs
  <2>1. vin_id[<<i, j>>] \in U32
    <3>1. <<i, j>> \in VinsOf(txs)
      BY DEF VinsOf
    <3> QED
      BY <3>1 DEF TypeOK
  <2>2. <<"i", vin_id[<<i, j>>], txid[i]>> \in Rows
    BY <1>1, <2>1 DEF Rows
  <2> QED
    BY <1>2, <2>2 DEF OutVin
<1>5. ASSUME NEW j \in DOMAIN txs[i].vouts PROVE OutVout(out, i, j) \in Outs
  <2>1. addr_id[<<i, j>>] \in U32
    <3>1. <<i, j>> \in VoutsOf(txs)
      BY DEF VoutsOf
    <3> QED
      BY <3>1 DEF TypeOK
  <2>2. /\ <<"o", txid[i], addr_id[<<i, j>>]>> \in Rows
        /\ <<"a", addr_id[<<i, j>>]>> \in Rows
    BY <1>1, <2>1 DEF Rows
  <2>3. OutAddr(out, <<i, j>>) \in Outs
    BY <2>2, RowAdded DEF OutAddr
  <2> QED
    BY <1>2, <2>2, <2>3 DEF OutVout
<1> QED
  BY <1>2, <1>3, <1>4, <1>5

\* The loops of out_tx() and out_bk() are what their definitions say.
LEMMA OutVinsUnfold ==
    ASSUME TypeOK, NEW i \in DOMAIN txs, NEW out \in Outs
    PROVE  \E f \in [0 .. Len(txs[i].vins) -> Outs] :
              /\ f[0] = out
              /\ \A j \in DOMAIN txs[i].vins : f[j] = OutVin(f[j - 1], i, j)
              /\ OutVins(out, i) = f[Len(txs[i].vins)]
<1> DEFINE N == Len(txs[i].vins)
           Def(f) == f = [j \in 0 .. N |-> IF j = 0 THEN out ELSE OutVin(f[j - 1], i, j)]
           step == [s \in (1 .. N) \X Outs |-> OutVin(s[2], i, s[1])]
<1>1. N \in Nat /\ DOMAIN txs[i].vins = 1 .. N
  BY DEF TypeOK, Block, Tx
<1>2. step \in [(1 .. N) \X Outs -> Outs]
  <2>1. ASSUME NEW j \in 1 .. N, NEW d \in Outs PROVE OutVin(d, i, j) \in Outs
    BY <1>1, <2>1, OutTypes
  <2> QED
    BY <2>1
<1>3. \A j \in 1 .. N : \A d \in Outs : step[<<j, d>>] = OutVin(d, i, j)
  OBVIOUS
<1> HIDE DEF step
<1>4. PICK f : Chained(f, N, Outs, out, step)
  BY <1>1, <1>2, Rest
<1>5. Def(f)
  <2>1. ASSUME NEW j \in 0 .. N PROVE f[j] = IF j = 0 THEN out ELSE OutVin(f[j - 1], i, j)
    <3>1. CASE j = 0
      BY <1>4, <3>1 DEF Chained
    <3>2. CASE j # 0
      <4>1. j \in 1 .. N /\ j - 1 \in 0 .. N
        BY <1>1, <3>2
      <4> QED
        BY <1>3, <1>4, <3>2, <4>1 DEF Chained
    <3> QED
      BY <3>1, <3>2
  <2> QED
    BY <1>4, <2>1 DEF Chained
<1> DEFINE g == CHOOSE g : Def(g)
<1>6. Def(g)
  BY <1>5
<1>7. OutVins(out, i) = g[N]
  BY DEF OutVins
<1> HIDE DEF g
<1>8. g[0] = out
  BY <1>1, <1>6
<1>9. ASSUME NEW j \in 1 .. N PROVE g[j] = OutVin(g[j - 1], i, j)
  BY <1>1, <1>6
<1>10. \A j \in 0 .. N : g[j] \in Outs
  <2>1. ASSUME NEW j \in 1 .. N, g[j - 1] \in Outs PROVE g[j] \in Outs
    <3>1. j \in DOMAIN txs[i].vins
      BY <1>1
    <3>2. OutVin(g[j - 1], i, j) \in Outs
      BY <2>1, <3>1, OutTypes
    <3> QED
      BY <1>9, <3>2
  <2>2. g[0] \in Outs
    BY <1>8
  <2> HIDE DEF N
  <2> QED
    BY <1>1, <2>1, <2>2, RestIn
<1>11. g \in [0 .. N -> Outs]
  BY <1>6, <1>10
<1> QED
  BY <1>1, <1>7, <1>8, <1>9, <1>11

LEMMA OutVoutsUnfold ==
    ASSUME TypeOK, NEW i \in DOMAIN txs, NEW out \in Outs
    PROVE  \E f \in [0 .. Len(txs[i].vouts) -> Outs] :
              /\ f[0] = out
              /\ \A j \in DOMAIN txs[i].vouts : f[j] = OutVout(f[j - 1], i, j)
              /\ OutVouts(out, i) = f[Len(txs[i].vouts)]
<1> DEFINE N == Len(txs[i].vouts)
           Def(f) == f = [j \in 0 .. N |-> IF j = 0 THEN out ELSE OutVout(f[j - 1], i, j)]
           step == [s \in (1 .. N) \X Outs |-> OutVout(s[2], i, s[1])]
<1>1. N \in Nat /\ DOMAIN txs[i].vouts = 1 .. N
  BY DEF TypeOK, Block, Tx
<1>2. step \in [(1 .. N) \X Outs -> Outs]
  <2>1. ASSUME NEW j \in 1 .. N, NEW d \in Outs PROVE OutVout(d, i, j) \in Outs
    BY <1>1, <2>1, OutTypes
  <2> QED
    BY <2>1
<1>3. \A j \in 1 .. N : \A d \in Outs : step[<<j, d>>] = OutVout(d, i, j)
  OBVIOUS
<1> HIDE DEF step
<1>4. PICK f : Chained(f, N, Outs, out, step)
  BY <1>1, <1>2, Rest
<1>5. Def(f)
  <2>1. ASSUME NEW j \in 0 .. N PROVE f[j] = IF j = 0 THEN out ELSE OutVout(f[j - 1], i, j)
    <3>1. CASE j = 0
      BY <1>4, <3>1 DEF Chained
    <3>2. CASE j # 0
      <4>1. j \in 1 .. N /\ j - 1 \in 0 .. N
        BY <1>1, <3>2
      <4> QED
        BY <1>3, <1>4, <3>2, <4>1 DEF Chained
    <3> QED
      BY <3>1, <3>2
  <2> QED
    BY <1>4, <2>1 DEF Chained
<1> DEFINE g == CHOOSE g : Def(g)
<1>6. Def(g)
  BY <1>5
<1>7. OutVouts(out, i) = g[N]
  BY DEF OutVouts
<1> HIDE DEF g
<1>8. g[0] = out
  BY <1>1, <1>6
<1>9. ASSUME NEW j \in 1 .. N PROVE g[j] = OutVout(g[j - 1], i, j)
  BY <1>1, <1>6
<1>10. \A j \in 0 .. N : g[j] \in Outs
  <2>1. ASSUME NEW j \in 1 .. N, g[j - 1] \in Outs PROVE g[j] \in Outs
    <3>1. j \in DOMAIN txs[i].vouts
      BY <1>1
    <3>2. OutVout(g[j - 1], i, j) \in Outs
      BY <2>1, <3>1, OutTypes
    <3> QED
      BY <1>9, <3>2
  <2>2. g[0] \in Outs
    BY <1>8
  <2> HIDE DEF N
  <2> QED
    BY <1>1, <2>1, <2>2, RestIn
<1>11. g \in [0 .. N -> Outs]
  BY <1>6, <1>10
<1> QED
  BY <1>1, <1>7, <1>8, <1>9, <1>11

LEMMA OutTxType ==
    ASSUME TypeOK, NEW i \in DOMAIN txs, NEW out \in Outs
    PROVE  OutTx(out, i) \in Outs
<1> DEFINE o1 == Row(out, <<"t", txid[i]>>)
           o2 == OutVins(o1, i)
<1>1. o1 \in Outs
  BY OutTypes
<1> HIDE DEF o1
<1>2. o2 \in Outs
  <2>1. Len(txs[i].vins) \in 0 .. Len(txs[i].vins)
    BY DEF TypeOK, Block, Tx
  <2> QED
    BY <1>1, <2>1, OutVinsUnfold
<1> HIDE DEF o2
<1>3. OutVouts(o2, i) \in Outs
  <2>1. Len(txs[i].vouts) \in 0 .. Len(txs[i].vouts)
    BY DEF TypeOK, Block, Tx
  <2> QED
    BY <1>2, <2>1, OutVoutsUnfold
<1> QED
  BY <1>3 DEF OutTx, o1, o2

LEMMA OutRowsUnfold ==
    ASSUME TypeOK, printed_addrs \in Nat
    PROVE  \E f \in [0 .. Len(txs) -> Outs] :
              /\ f[0] = [n |-> printed_addrs, rows |-> <<>>]
              /\ \A i \in DOMAIN txs : f[i] = OutTx(f[i - 1], i)
              /\ OutRows = f[Len(txs)]
<1> DEFINE N == Len(txs)
           out == [n |-> printed_addrs, rows |-> <<>>]
           Def(f) == f = [i \in 0 .. N |-> IF i = 0 THEN out ELSE OutTx(f[i - 1], i)]
           step == [s \in (1 .. N) \X Outs |-> OutTx(s[2], s[1])]
<1>0. out \in Outs
  BY DEF Outs
<1>1. N \in Nat /\ DOMAIN txs = 1 .. N
  BY DEF TypeOK, Block
<1>2. step \in [(1 .. N) \X Outs -> Outs]
  <2>1. ASSUME NEW j \in 1 .. N, NEW d \in Outs PROVE OutTx(d, j) \in Outs
    BY <1>1, <2>1, OutTxType
  <2> QED
    BY <2>1
<1>3. \A j \in 1 .. N : \A d \in Outs : step[<<j, d>>] = OutTx(d, j)
  OBVIOUS
<1> HIDE DEF step
<1>4. PICK f : Chained(f, N, Outs, out, step)
  BY <1>0, <1>1, <1>2, Rest
<1>5. Def(f)
  <2>1. ASSUME NEW j \in 0 .. N PROVE f[j] = IF j = 0 THEN out ELSE OutTx(f[j - 1], j)
    <3>1. CASE j = 0
      BY <1>4, <3>1 DEF Chained
    <3>2. CASE j # 0
      <4>1. j \in 1 .. N /\ j - 1 \in 0 .. N
        BY <1>1, <3>2
      <4> QED
        BY <1>3, <1>4, <3>2, <4>1 DEF Chained
    <3> QED
      BY <3>1, <3>2
  <2> QED
    BY <1>4, <2>1 DEF Chained
<1> DEFINE g == CHOOSE g : Def(g)
<1>6. Def(g)
  BY <1>5
<1>7. OutRows = g[N]
  BY DEF OutRows
<1> HIDE DEF g
<1>8. g[0] = out
  BY <1>1, <1>6
<1>9. ASSUME NEW j \in 1 .. N PROVE g[j] = OutTx(g[j - 1], j)
  BY <1>1, <1>6
<1>10. \A j \in 0 .. N : g[j] \in Outs
  BY <1>0, <1>1, <1>8, <1>9, OutTxType, RestIn
<1>11. g \in [0 .. N -> Outs]
  BY <1>6, <1>10
<1> QED
  BY <1>1, <1>7, <1>8, <1>9, <1>11

LEMMA StepPrintedTypes ==
    MainTypes /\ PrintedTypes /\ [SessionNext]_svars => PrintedTypes'
<1> SUFFICES ASSUME MainTypes, PrintedTypes, [SessionNext]_svars PROVE PrintedTypes'
  OBVIOUS
<1>1. CASE Start
  BY <1>1 DEF Start, PrintedTypes
<1>2. CASE AcceptStamp
  <2>1. (printed' = printed \/ printed' = <<>>) /\ printed_addrs' = printed_addrs
    BY <1>2 DEF AcceptStamp
  <2>2. <<>> \in Seq(Rows)
    OBVIOUS
  <2> QED
    BY <2>1, <2>2 DEF PrintedTypes
<1>3. CASE OutBlock
  <2>1. OutRows \in Outs
    <3>1. Len(txs) \in 0 .. Len(txs)
      BY DEF MainTypes, TypeOK, Block
    <3> QED
      BY <3>1, OutRowsUnfold DEF MainTypes, PrintedTypes
  <2>2. CASE OPTS.out
    <3>1. /\ printed_addrs' = OutRows.n
          /\ \/ printed' = printed
             \/ printed # Absent /\ printed' = printed \o OutRows.rows
      BY <1>3, <2>2 DEF OutBlock
    <3>2. printed # Absent => printed \o OutRows.rows \in Seq(Rows)
      BY <2>1 DEF PrintedTypes, Outs
    <3> QED
      BY <2>1, <3>1, <3>2 DEF PrintedTypes, Outs
  <2>3. CASE ~ OPTS.out
    BY <1>3, <2>3 DEF OutBlock, PrintedTypes
  <2> QED
    BY <2>2, <2>3
<1>4. CASE ~ (Start \/ AcceptStamp \/ OutBlock)
  <2>1. UNCHANGED outvars
    BY <1>4 DEF SessionNext, Process, SetCache, MainLoop, StopCache, Plain, OpenStores, OpenFails,
       RefuseStores, AcceptStores, ClearTx, ClearAddr, RefuseStamp, LoadBlock, LoadFails,
       ResolveStep, ResolveFails, NumDone, Update, UpdateFails, CloseTx, CloseAddr, CloseStamp,
       Abort, Crash, Gone, PlainCache, PlainBlock, PlainEnds, main, svars
  <2> QED
    BY <2>1 DEF outvars, PrintedTypes
<1> QED
  BY <1>1, <1>2, <1>3, <1>4

-----------------------------------------------------------------------------
\* The theorems.
LEMMA InitSession == SessionInit => MainTypes /\ SInv
<1> SUFFICES ASSUME SessionInit PROVE MainTypes /\ SInv
  OBVIOUS
<1>1. /\ pc = "idle" /\ stage = "off" /\ txs = <<>> /\ txid = <<>> /\ vin_id = <<>>
      /\ addr_id = <<>> /\ addr_is_new = <<>>
      /\ txdb = EmptyStore(TxHash) /\ addrdb = EmptyStore(AddrKey)
      /\ txdb0 = txdb /\ addrdb0 = addrdb /\ txfile = txdb /\ addrfile = addrdb
      /\ COUNT = [bk |-> 0, tx |-> Count(txdb), addr |-> Count(addrdb)]
      /\ stamp = Absent /\ buffered = <<>> /\ ~ file_open /\ ~ trusted
  BY DEF SessionInit, InitWith
<1>2. /\ EmptyStore(TxHash) \in Store(TxHash) /\ EmptyStore(AddrKey) \in Store(AddrKey)
      /\ Count(EmptyStore(TxHash)) = 0 /\ Count(EmptyStore(AddrKey)) = 0
      /\ Sized(EmptyStore(TxHash)) /\ Sized(EmptyStore(AddrKey))
      /\ 0 \in U32
  BY EmptyStoreFacts, EmptySized, EmptyCount, ResolveAssumption, U32Facts
<1>3. TypeOK
  <2>1. <<>> \in Block /\ DOMAIN <<>> = {} /\ VinsOf(<<>>) = {} /\ VoutsOf(<<>>) = {}
    BY DEF Block, VinsOf, VoutsOf
  <2>2. ti = 1 /\ vi = 1 /\ retvalue = TRUE
    BY DEF SessionInit, InitWith
  <2> QED
    BY <1>1, <1>2, <2>1, <2>2 DEF TypeOK, PC, Between
<1>4. MainTypes
  <2>1. OPTS \in OptionRecord
    BY MaxU32Assumption DEF SessionInit, OptionRecord, Omitted, U32
  <2> QED
    BY <1>1, <1>2, <1>3, <2>1, SessionAssumption DEF SessionInit, MainTypes, Stages, Stamps
<1>5. SInv
  BY <1>1, <1>2 DEF SInv, SizesOK, Phases, BeforeLoop, WithKv, Accepted, TrustedNear, TrueStamps,
     LoopInv, InLoop, AfterLoop, Closing, Buffered, ClosedWhole
<1> QED
  BY <1>4, <1>5

LEMMA StepSInv == MainTypes /\ SInv /\ [SessionNext]_svars => SInv'
BY StepSizes, StepPhases, StepAccepted, StepTrustedNear, StepTrueStamps, StepLoopInv,
   StepBuffered, StepClosed DEF SInv

LEMMA SessionInductive == SessionSpec => [](MainTypes /\ SInv)
<1>1. SessionInit => MainTypes /\ SInv
  BY InitSession
<1>2. MainTypes /\ SInv /\ [SessionNext]_svars => (MainTypes /\ SInv)'
  BY StepMainTypes, StepSInv
<1> QED
  BY <1>1, <1>2, PTL DEF SessionSpec

\* What set_cache() and main() know of the stores is never wrong: whatever
\* crashes, fails or is asked for, stores that are trusted are near those of
\* an undisturbed run, and a true stamp names one of its heights.
THEOREM SInvCorrect == SessionSpec => []SInv
BY SessionInductive, PTL

\* Every variable of the runs keeps its type: the stamp that main() writes is
\* of numbers that fit, and what is printed are rows with such numbers.
THEOREM SessionTypeCorrect == SessionSpec => []SessionTypeOK
<1>1. SessionInit => PrintedTypes
  BY DEF SessionInit, PrintedTypes
<1>2. (MainTypes /\ SInv) /\ PrintedTypes /\ [SessionNext]_svars => PrintedTypes'
  BY StepPrintedTypes
<1> QED
  BY <1>1, <1>2, SessionInductive, PTL DEF SessionSpec, SessionTypeOK


\* Damage spares the transactions: in every session, even one that is let in
\* with stores that lost records, BK_T::resolve and BK_T::rollback keep the
\* transactions of the blocks before.
THEOREM DamageSparesTxsCorrect == SessionSpec => []DamageSparesTxs
<1>1. SInv => DamageSparesTxs
  BY TxInvSafe DEF SInv, LoopInv, InLoop, DamageSparesTxs
<1> QED
  BY <1>1, SInvCorrect, PTL

\* The stamp is enough: whatever crashes and failures there were in the
\* sessions before, trusted stores that pass DBSTAMP_T::check are those of
\* the height that main() goes on from, number for number.
THEOREM TrustedCanonicalCorrect == SessionSpec => []TrustedCanonical
<1>1. SInv => TrustedCanonical
  BY DEF SInv, LoopInv, InLoop, Undisturbed, AtHeight, TrustedCanonical
<1> QED
  BY <1>1, SInvCorrect, PTL

\* If closing does not fail, stop_cache() leaves files that the next session
\* can go on with, also after a block that failed and was undone.
THEOREM StopIsResumableCorrect ==
    "close" \notin SessionFaults /\ SessionSpec => StopIsResumable
<1> SUFFICES ASSUME "close" \notin SessionFaults PROVE SessionSpec => StopIsResumable
  OBVIOUS
<1>1. ASSUME MainTypes, SInv, CloseStamp, file_open, trusted,
             pc = "idle" \/ (pc = "failed" /\ UndoneWhole)
      PROVE  /\ stamp' = <<COUNT.bk, Count(txfile), Count(addrfile)>>
             /\ Holds(COUNT.bk, txfile, addrfile)
  <2>1. /\ stage = "close_stamp" /\ AfterLoop /\ Undisturbed
        /\ stamp' = IF buffered # <<>> THEN buffered ELSE stamp
    BY <1>1 DEF CloseStamp, AfterLoop, Closing, Undisturbed
  <2>2. txfile = txdb /\ addrfile = addrdb
    BY <1>1, <2>1 DEF SInv, ClosedWhole
  <2>3. IInv /\ AtHeight
    BY <1>1, <2>1 DEF SInv, LoopInv
  <2>4. Holds(COUNT.bk, txdb, addrdb)
    <3>1. CASE pc = "idle"
      BY <2>3, <3>1 DEF AtHeight
    <3>2. CASE pc = "failed" /\ UndoneWhole
      <4>1. txdb = txdb0 /\ addrdb = addrdb0
        BY <2>3, <3>2, WholeUndoRestores DEF UndoneWhole, NewTxs
      <4> QED
        BY <2>3, <3>2, <4>1 DEF AtHeight
    <3> QED
      BY <1>1, <3>1, <3>2
  <2>5. buffered = StampOf(COUNT.bk)
    BY <1>1, <2>1 DEF SInv, Buffered, StampOf
  <2>6. Count(txdb) = Cardinality(Keys(txdb)) /\ Count(addrdb) = Cardinality(Keys(addrdb))
    BY <1>1, CountExact, ResolveAssumption DEF SInv, SizesOK, Sized, MainTypes, TypeOK
  <2> QED
    BY <2>1, <2>2, <2>4, <2>5, <2>6 DEF StampOf, Holds
<1>2. MainTypes /\ SInv =>
        [(CloseStamp /\ file_open /\ trusted
            /\ (pc = "idle" \/ (pc = "failed" /\ UndoneWhole)))
         => /\ stamp' = <<COUNT.bk, Count(txfile), Count(addrfile)>>
            /\ Holds(COUNT.bk, txfile, addrfile)]_svars
  BY <1>1
<1> QED
  BY <1>2, SessionInductive, PTL DEF StopIsResumable
=============================================================================
