---------------------------- MODULE OutputProofs -----------------------------
(***************************************************************************)
(* Theorems about what main() prints, for every chain, any number of runs  *)
(* and every greatest uint32: out_bk() over one resolved block, and the    *)
(* rows of all sessions over the same stores, one after another.           *)
(***************************************************************************)
EXTENDS SessionProofs


-----------------------------------------------------------------------------
\* One output, and a row more.

LEMMA RowsAppend ==
    ASSUME NEW r \in Seq(Rows), NEW row \in Rows
    PROVE  LET s == Append(r, row) IN
           /\ s \in Seq(Rows) /\ DOMAIN s = 1 .. Len(r) + 1 /\ Len(r) \in Nat
           /\ DOMAIN r = 1 .. Len(r)
           /\ s[Len(r) + 1] = row /\ \A k \in DOMAIN r : s[k] = r[k]
OBVIOUS

\* A row at the end whose ids have their rows already.
LEMMA RefersOn ==
    ASSUME NEW r \in Seq(Rows), NEW row \in Rows, \A k \in DOMAIN r : Refers(r, k),
           \A named \in Named(row) : \E l \in DOMAIN r : r[l] = named
    PROVE  \A k \in DOMAIN Append(r, row) : Refers(Append(r, row), k)
<1> DEFINE s == Append(r, row)
           n == Len(r)
<1>1. /\ DOMAIN s = 1 .. n + 1 /\ n \in Nat /\ DOMAIN r = 1 .. n
      /\ s[n + 1] = row /\ \A k \in DOMAIN r : s[k] = r[k]
  BY RowsAppend
<1> HIDE DEF s, n
<1>2. ASSUME NEW k \in 1 .. n PROVE Refers(s, k)
  <2>1. s[k] = r[k] /\ \A l \in 1 .. k - 1 : s[l] = r[l]
    BY <1>1, <1>2
  <2> QED
    BY <1>1, <2>1 DEF Refers
<1>3. Refers(s, n + 1)
  <2>1. ASSUME NEW named \in Named(row) PROVE \E l \in 1 .. (n + 1) - 1 : s[l] = named
    <3>1. PICK l \in DOMAIN r : r[l] = named
      OBVIOUS
    <3> QED
      BY <1>1, <3>1
  <2> QED
    BY <1>1, <2>1 DEF Refers
<1>4. \A k \in DOMAIN s : k \in 1 .. n \/ k = n + 1
  BY <1>1
<1> QED
  BY <1>2, <1>3, <1>4 DEF s

\* The next id of a kind has its row at the end; a row of another kind.
LEMMA InOrderOn ==
    ASSUME NEW r \in Seq(Rows), NEW row \in Rows, NEW kind, NEW count \in Nat,
           InOrder(r, kind, count)
    PROVE  /\ row[1] # kind => InOrder(Append(r, row), kind, count)
           /\ row[1] = kind /\ row[2] = count => InOrder(Append(r, row), kind, count + 1)
<1> DEFINE s == Append(r, row)
           n == Len(r)
<1>1. /\ DOMAIN s = 1 .. n + 1 /\ n \in Nat /\ DOMAIN r = 1 .. n
      /\ s[n + 1] = row /\ \A k \in DOMAIN r : s[k] = r[k]
  BY RowsAppend
<1> HIDE DEF s, n
<1>2. /\ {r[k][2] : k \in OfKind(r, kind)} = 0 .. count - 1
      /\ \A k, l \in OfKind(r, kind) : k < l => r[k][2] < r[l][2]
      /\ OfKind(r, kind) \subseteq 1 .. n
  BY <1>1 DEF InOrder, OfKind
<1>3. CASE row[1] # kind
  <2>1. OfKind(s, kind) = OfKind(r, kind)
    BY <1>1, <1>3 DEF OfKind
  <2>2. \A k \in OfKind(r, kind) : s[k] = r[k]
    BY <1>1, <1>2
  <2>3. {s[k][2] : k \in OfKind(s, kind)} = {r[k][2] : k \in OfKind(r, kind)}
    BY <2>1, <2>2
  <2>4. \A k, l \in OfKind(s, kind) : k < l => s[k][2] < s[l][2]
    BY <1>2, <2>1, <2>2
  <2>5. InOrder(s, kind, count)
    BY <1>2, <2>3, <2>4 DEF InOrder
  <2> QED
    BY <1>3, <2>5 DEF s
<1>4. CASE row[1] = kind /\ row[2] = count
  <2>1. OfKind(s, kind) = OfKind(r, kind) \cup {n + 1}
    BY <1>1, <1>4 DEF OfKind
  <2>2. /\ \A k \in OfKind(r, kind) : s[k] = r[k] /\ k < n + 1 /\ k \in Nat /\ k # n + 1
        /\ s[n + 1][2] = count
    BY <1>1, <1>2, <1>4
  <2>3. \A k \in OfKind(r, kind) : r[k][2] \in 0 .. count - 1
    BY <1>2
  <2>4. {s[k][2] : k \in OfKind(s, kind)} = 0 .. (count + 1) - 1
    <3>1. {s[k][2] : k \in OfKind(s, kind)} = {r[k][2] : k \in OfKind(r, kind)} \cup {count}
      BY <2>1, <2>2
    <3>2. 0 .. (count + 1) - 1 = 0 .. count - 1 \cup {count}
      OBVIOUS
    <3> QED
      BY <1>2, <3>1, <3>2
  <2>5. ASSUME NEW k \in OfKind(s, kind), NEW l \in OfKind(s, kind), k < l
        PROVE  s[k][2] < s[l][2]
    <3>1. CASE k \in OfKind(r, kind) /\ l \in OfKind(r, kind)
      BY <1>2, <2>2, <2>5, <3>1
    <3>2. CASE k \in OfKind(r, kind) /\ l = n + 1
      <4>1. s[k][2] \in 0 .. count - 1 /\ s[l][2] = count
        BY <2>2, <2>3, <3>2
      <4> QED
        BY <4>1
    <3>3. k # n + 1
      BY <1>1, <2>1, <2>2, <2>5
    <3> QED
      BY <2>1, <3>1, <3>2, <3>3
  <2> QED
    BY <1>4, <2>4, <2>5 DEF InOrder, s
<1> QED
  BY <1>3, <1>4

\* Every id below the count has its row.
LEMMA RowOfId ==
    ASSUME NEW r \in Seq(Rows), NEW kind \in {"t", "a"}, NEW count \in Nat,
           InOrder(r, kind, count), NEW id \in 0 .. count - 1
    PROVE  \E l \in DOMAIN r : r[l] = <<kind, id>>
<1>1. PICK l \in OfKind(r, kind) : r[l][2] = id
  BY DEF InOrder
<1>2. l \in DOMAIN r /\ r[l][1] = kind /\ r[l] \in Rows
  BY DEF OfKind
<1>3. r[l] = <<kind, id>>
  BY <1>1, <1>2 DEF Rows
<1> QED
  BY <1>2, <1>3

\* One output, with a row more.
LEMMA OutputOn ==
    ASSUME NEW r \in Seq(Rows), NEW t \in Nat, NEW a \in Nat, OneOutput(r, t, a)
    PROVE  /\ t \in U32 => OneOutput(Append(r, <<"t", t>>), t + 1, a)
           /\ a \in U32 => OneOutput(Append(r, <<"a", a>>), t, a + 1)
           /\ \A m, n \in U32 : m < t /\ n < t => OneOutput(Append(r, <<"i", m, n>>), t, a)
           /\ \A m, n \in U32 : m < t /\ (n = NotFound \/ n < a) =>
                 OneOutput(Append(r, <<"o", m, n>>), t, a)
<1>1. InOrder(r, "t", t) /\ InOrder(r, "a", a) /\ \A k \in DOMAIN r : Refers(r, k)
  BY DEF OneOutput
<1>2. ASSUME t \in U32 PROVE OneOutput(Append(r, <<"t", t>>), t + 1, a)
  <2> DEFINE row == <<"t", t>>
  <2>1. row \in Rows /\ row[1] = "t" /\ row[2] = t /\ row[1] # "a"
    BY <1>2 DEF Rows
  <2>2. Named(row) = {}
    BY <2>1 DEF Named
  <2> HIDE DEF row
  <2>3. InOrder(Append(r, row), "t", t + 1) /\ InOrder(Append(r, row), "a", a)
    BY <1>1, <2>1, InOrderOn
  <2>4. \A k \in DOMAIN Append(r, row) : Refers(Append(r, row), k)
    BY <1>1, <2>1, <2>2, RefersOn
  <2> QED
    BY <2>3, <2>4 DEF OneOutput, row
<1>3. ASSUME a \in U32 PROVE OneOutput(Append(r, <<"a", a>>), t, a + 1)
  <2> DEFINE row == <<"a", a>>
  <2>1. row \in Rows /\ row[1] = "a" /\ row[2] = a /\ row[1] # "t"
    BY <1>3 DEF Rows
  <2>2. Named(row) = {}
    BY <2>1 DEF Named
  <2> HIDE DEF row
  <2>3. InOrder(Append(r, row), "t", t) /\ InOrder(Append(r, row), "a", a + 1)
    BY <1>1, <2>1, InOrderOn
  <2>4. \A k \in DOMAIN Append(r, row) : Refers(Append(r, row), k)
    BY <1>1, <2>1, <2>2, RefersOn
  <2> QED
    BY <2>3, <2>4 DEF OneOutput, row
<1>4. ASSUME NEW m \in U32, NEW n \in U32, m < t, n < t
      PROVE  OneOutput(Append(r, <<"i", m, n>>), t, a)
  <2> DEFINE row == <<"i", m, n>>
  <2>1. row \in Rows /\ row[1] # "t" /\ row[1] # "a"
    BY DEF Rows
  <2>2. Named(row) = {<<"t", m>>, <<"t", n>>}
    BY DEF Named
  <2>3. m \in 0 .. t - 1 /\ n \in 0 .. t - 1
    BY <1>4 DEF U32
  <2> HIDE DEF row
  <2>4. \A named \in Named(row) : \E l \in DOMAIN r : r[l] = named
    BY <1>1, <2>2, <2>3, RowOfId
  <2>5. InOrder(Append(r, row), "t", t) /\ InOrder(Append(r, row), "a", a)
    BY <1>1, <2>1, InOrderOn
  <2>6. \A k \in DOMAIN Append(r, row) : Refers(Append(r, row), k)
    BY <1>1, <2>1, <2>4, RefersOn
  <2> QED
    BY <2>5, <2>6 DEF OneOutput, row
<1>5. ASSUME NEW m \in U32, NEW n \in U32, m < t, n = NotFound \/ n < a
      PROVE  OneOutput(Append(r, <<"o", m, n>>), t, a)
  <2> DEFINE row == <<"o", m, n>>
  <2>1. row \in Rows /\ row[1] # "t" /\ row[1] # "a"
    BY DEF Rows
  <2>2. \A named \in Named(row) : named = <<"t", m>> \/ (n # NotFound /\ named = <<"a", n>>)
    BY DEF Named
  <2>3. m \in 0 .. t - 1 /\ (n # NotFound => n \in 0 .. a - 1)
    BY <1>5 DEF U32
  <2> HIDE DEF row
  <2>4. \A named \in Named(row) : \E l \in DOMAIN r : r[l] = named
    <3>1. \E l \in DOMAIN r : r[l] = <<"t", m>>
      BY <1>1, <2>3, RowOfId
    <3>2. n # NotFound => \E l \in DOMAIN r : r[l] = <<"a", n>>
      BY <1>1, <2>3, RowOfId
    <3> QED
      BY <2>2, <3>1, <3>2
  <2>5. InOrder(Append(r, row), "t", t) /\ InOrder(Append(r, row), "a", a)
    BY <1>1, <2>1, InOrderOn
  <2>6. \A k \in DOMAIN Append(r, row) : Refers(Append(r, row), k)
    BY <1>1, <2>1, <2>4, RefersOn
  <2> QED
    BY <2>5, <2>6 DEF OneOutput, row
<1> QED
  BY <1>2, <1>3, <1>4, <1>5

\* The loops of out_bk(), out_tx() and their parts, at a place of the block that
\* is resolved: with what P there was before, t transactions and a addresses are
\* printed, the addresses those that are new before the place.
TxsBefore   == Cardinality(Keys(txdb0))
AddrsBefore == Cardinality(Keys(addrdb0))

PrintedTo(P, out, t, a, p) ==
    /\ out \in Outs /\ a \in Nat
    /\ OneOutput(P \o out.rows, t, a)
    /\ AddrsBefore <= a /\ a <= COUNT.addr /\ out.n <= a
    /\ \A w \in NewAddrs : Earlier(w, p) <=> addr_id[w] < a

IsPrinted(P, out, t, p) == \E a \in Nat : PrintedTo(P, out, t, a, p)

LEMMA ResolvedIds ==
    ASSUME IInv, NumbersAsSeen, IdsNext, pc = "resolved"
    PROVE  /\ TxsBefore \in Nat /\ AddrsBefore \in Nat /\ COUNT.addr \in U32
           /\ Len(txs) \in Nat /\ DOMAIN txs = 1 .. Len(txs) /\ txs \in Block
           /\ COUNT.tx = TxsBefore + Len(txs) /\ AddrsBefore <= COUNT.addr
           /\ \A i \in DOMAIN txs : txid[i] = TxsBefore + i - 1 /\ txid[i] \in U32
           /\ \A v \in VinsOf(txs) : InputAt(v[1], v[2]) # Coinbase =>
                 vin_id[v] \in U32 /\ vin_id[v] < txid[v[1]]
           /\ \A v \in VoutsOf(txs) :
                 addr_id[v] \in U32 /\ (addr_id[v] # NotFound <=> AddrAt(v[1], v[2]) # NoAddr)
           /\ NewAddrs \subseteq VoutsOf(txs)
<1> USE DEF IInv
<1>1. /\ TxsBefore \in Nat /\ AddrsBefore \in Nat /\ COUNT.addr \in U32
      /\ Len(txs) \in Nat /\ DOMAIN txs = 1 .. Len(txs) /\ txs \in Block
      /\ ti \in Nat \ {0} /\ NewAddrs \subseteq VoutsOf(txs)
  BY CountedBefore DEF TypeOK, Block, TxsBefore, AddrsBefore, NewAddrs
<1>2. ti \notin DOMAIN txs
  BY DEF InputsBehind
<1>3. TxIdsNext /\ AddrIdsNext /\ AddrIdsPassed
  BY DEF IdsNext
<1>4. ti = Len(txs) + 1
  BY <1>1, <1>2, <1>3 DEF TxIdsNext
<1>5. COUNT.tx = TxsBefore + Len(txs) /\ AddrsBefore <= COUNT.addr
  BY <1>1, <1>3, <1>4 DEF TxIdsNext, AddrIdsNext, TxsBefore, AddrsBefore
<1>6. ASSUME NEW i \in DOMAIN txs PROVE txid[i] = TxsBefore + i - 1 /\ txid[i] \in U32
  <2>1. i < ti
    BY <1>1, <1>4
  <2>2. txid[i] # NotFound
    BY <2>1 DEF NumbersAsSeen, TxsAsSeen
  <2> QED
    BY <1>3, <2>2 DEF TxIdsNext, TxsBefore, TypeOK
<1>7. ASSUME NEW v \in VinsOf(txs), InputAt(v[1], v[2]) # Coinbase
      PROVE  vin_id[v] \in U32 /\ vin_id[v] < txid[v[1]]
  <2>1. Behind(v)
    BY <1>1, <1>4, VinPlace DEF Behind
  <2> QED
    BY <1>7, <2>1 DEF InputsBehind, InputResolved, TypeOK
<1>8. ASSUME NEW v \in VoutsOf(txs)
      PROVE  addr_id[v] \in U32 /\ (addr_id[v] # NotFound <=> AddrAt(v[1], v[2]) # NoAddr)
  <2>1. Earlier(v, AddrPlace)
    BY <1>1, <1>4, VoutPlace DEF Earlier, AddrPlace
  <2> QED
    BY <1>3, <2>1 DEF AddrIdsPassed, TypeOK
<1> QED
  BY <1>1, <1>5, <1>6, <1>7, <1>8

LEMMA ConcatAppend ==
    ASSUME NEW P \in Seq(Rows), NEW s \in Seq(Rows), NEW row \in Rows
    PROVE  /\ P \o Append(s, row) = Append(P \o s, row) /\ P \o s \in Seq(Rows)
           /\ P \o <<>> = P
OBVIOUS

\* A row that is not of an address.
LEMMA PrintRow ==
    ASSUME NEW P \in Seq(Rows), NEW out, NEW t \in Nat, NEW a, NEW p, NEW u \in Nat,
           PrintedTo(P, out, t, a, p), NEW row \in Rows,
           OneOutput(Append(P \o out.rows, row), u, a)
    PROVE  PrintedTo(P, Row(out, row), u, a, p)
<1>1. out \in Outs /\ out.rows \in Seq(Rows)
  BY DEF PrintedTo, Outs
<1>2. Row(out, row) \in Outs /\ Row(out, row).n = out.n /\ Row(out, row).rows = Append(out.rows, row)
  BY <1>1, RowAdded
<1>3. P \o Row(out, row).rows = Append(P \o out.rows, row)
  BY <1>1, <1>2, ConcatAppend
<1> QED
  BY <1>2, <1>3 DEF PrintedTo

\* out_tx(): the row of the transaction itself.
LEMMA PrintTx ==
    ASSUME IInv, NumbersAsSeen, IdsNext, pc = "resolved",
           NEW P \in Seq(Rows), NEW out, NEW i \in DOMAIN txs, NEW p,
           IsPrinted(P, out, TxsBefore + i - 1, p)
    PROVE  IsPrinted(P, Row(out, <<"t", txid[i]>>), TxsBefore + i, p)
<1>1. /\ TxsBefore \in Nat /\ i \in Nat \ {0}
      /\ txid[i] = TxsBefore + i - 1 /\ txid[i] \in U32
  BY ResolvedIds
<1>2. PICK a \in Nat : PrintedTo(P, out, TxsBefore + i - 1, a, p)
  BY DEF IsPrinted
<1> DEFINE t == TxsBefore + i - 1
<1>3. t \in Nat /\ t + 1 = TxsBefore + i /\ txid[i] = t /\ t \in U32
  BY <1>1
<1> HIDE DEF t
<1>4. PrintedTo(P, out, t, a, p)
  BY <1>2 DEF t
<1>5. P \o out.rows \in Seq(Rows) /\ OneOutput(P \o out.rows, t, a)
  BY <1>4, ConcatAppend DEF PrintedTo, Outs
<1>6. OneOutput(Append(P \o out.rows, <<"t", t>>), t + 1, a)
  BY <1>2, <1>3, <1>5, OutputOn
<1>7. <<"t", t>> \in Rows /\ t + 1 \in Nat
  BY <1>3 DEF Rows
<1>8. PrintedTo(P, Row(out, <<"t", t>>), t + 1, a, p)
  BY <1>3, <1>4, <1>6, <1>7, PrintRow
<1> QED
  BY <1>3, <1>8 DEF IsPrinted

\* out_vin().
LEMMA PrintVin ==
    ASSUME IInv, NumbersAsSeen, IdsNext, pc = "resolved",
           NEW P \in Seq(Rows), NEW out, NEW i \in DOMAIN txs, NEW j \in DOMAIN txs[i].vins,
           NEW p, IsPrinted(P, out, TxsBefore + i, p)
    PROVE  IsPrinted(P, OutVin(out, i, j), TxsBefore + i, p)
<1> SUFFICES ASSUME InputAt(i, j) # Coinbase
             PROVE  IsPrinted(P, Row(out, <<"i", vin_id[<<i, j>>], txid[i]>>), TxsBefore + i, p)
  BY DEF OutVin
<1> DEFINE t == TxsBefore + i
           m == vin_id[<<i, j>>]
           n == txid[i]
<1>1. <<i, j>> \in VinsOf(txs)
  BY DEF VinsOf
<1>2. t \in Nat /\ m \in U32 /\ n \in U32 /\ m < t /\ n < t
  <2>1. TxsBefore \in Nat /\ i \in Nat /\ n = TxsBefore + i - 1 /\ n \in U32
    BY ResolvedIds
  <2>2. m \in U32 /\ m < n
    BY <1>1, ResolvedIds
  <2> QED
    BY <2>1, <2>2 DEF U32
<1> HIDE DEF t, m, n
<1>3. PICK a \in Nat : PrintedTo(P, out, t, a, p)
  BY DEF IsPrinted, t
<1>4. P \o out.rows \in Seq(Rows) /\ OneOutput(P \o out.rows, t, a)
  BY <1>3, ConcatAppend DEF PrintedTo, Outs
<1>5. OneOutput(Append(P \o out.rows, <<"i", m, n>>), t, a)
  BY <1>2, <1>3, <1>4, OutputOn
<1>6. <<"i", m, n>> \in Rows
  BY <1>2 DEF Rows
<1>7. PrintedTo(P, Row(out, <<"i", m, n>>), t, a, p)
  BY <1>2, <1>3, <1>5, <1>6, PrintRow
<1> QED
  BY <1>3, <1>7 DEF IsPrinted, t, m, n

\* The places after an output and after a transaction.
LEMMA NextPlaces ==
    ASSUME TypeOK, NEW i \in DOMAIN txs
    PROVE  \A w \in VoutsOf(txs) :
              /\ Earlier(w, <<i, 1>>) <=> Earlier(w, <<i, 0>>)
              /\ \A j \in DOMAIN txs[i].vouts :
                    Earlier(w, <<i, j + 1>>) <=> Earlier(w, <<i, j>>) \/ w = <<i, j>>
              /\ Earlier(w, <<i + 1, 0>>) <=> Earlier(w, <<i, Len(txs[i].vouts) + 1>>)
<1>1. txs \in Block /\ i \in Nat \ {0} /\ 1 \in Nat \ {0}
  BY DEF TypeOK, Block
<1>2. /\ DOMAIN txs[i].vouts = 1 .. Len(txs[i].vouts)
      /\ Len(txs[i].vouts) + 1 \in Nat \ {0} /\ Len(txs[i].vouts) + 1 \notin DOMAIN txs[i].vouts
  BY <1>1 DEF Block, Tx
<1>3. \A j \in DOMAIN txs[i].vouts : j \in Nat \ {0}
  BY <1>2
<1> SUFFICES ASSUME NEW w \in VoutsOf(txs)
             PROVE  /\ Earlier(w, <<i, 1>>) <=> Earlier(w, <<i, 0>>)
                    /\ \A j \in DOMAIN txs[i].vouts :
                          Earlier(w, <<i, j + 1>>) <=> Earlier(w, <<i, j>>) \/ w = <<i, j>>
                    /\ Earlier(w, <<i + 1, 0>>) <=> Earlier(w, <<i, Len(txs[i].vouts) + 1>>)
  OBVIOUS
<1> HIDE DEF Earlier
<1>4. Earlier(w, <<i, 1>>) <=> Earlier(w, <<i, 0>>)
  BY <1>1, PassedVouts
<1>5. \A j \in DOMAIN txs[i].vouts : Earlier(w, <<i, j + 1>>) <=> Earlier(w, <<i, j>>) \/ w = <<i, j>>
  BY <1>1, <1>3, PassedVouts
<1>6. Earlier(w, <<i + 1, 0>>) <=> Earlier(w, <<i, Len(txs[i].vouts) + 1>>)
  <2> DEFINE m == Len(txs[i].vouts) + 1
  <2>1. m \in Nat \ {0} /\ m \notin DOMAIN txs[i].vouts
    BY <1>2
  <2> HIDE DEF m
  <2>2. Earlier(w, <<i + 1, 0>>) <=> Earlier(w, <<i, m>>)
    BY <1>1, <2>1, PassedVouts
  <2> QED
    BY <2>2 DEF m
<1> QED
  BY <1>4, <1>5, <1>6

\* The new address at a place has the next id, if those before it have theirs.
LEMMA NextAddr ==
    ASSUME IInv, NumbersAsSeen, IdsNext, pc = "resolved", NEW v \in NewAddrs,
           NEW a \in Nat, AddrsBefore <= a, a <= COUNT.addr,
           \A w \in NewAddrs : Earlier(w, v) <=> addr_id[w] < a
    PROVE  addr_id[v] = a /\ \A w \in NewAddrs : addr_id[w] = a => w = v
<1>1. /\ AddrsBefore \in Nat /\ COUNT.addr \in Nat
      /\ {addr_id[w] : w \in NewAddrs} = AddrsBefore .. COUNT.addr - 1
      /\ \A w, u \in NewAddrs : Earlier(w, u) => addr_id[w] < addr_id[u]
  BY ResolvedIds DEF IdsNext, AddrIdsNext, AddrsBefore, U32
<1>2. \A w \in NewAddrs : /\ w = <<w[1], w[2]>> /\ w[1] \in Nat /\ w[2] \in Nat
                          /\ addr_id[w] \in AddrsBefore .. COUNT.addr - 1
  <2> SUFFICES ASSUME NEW w \in NewAddrs
               PROVE  /\ w = <<w[1], w[2]>> /\ w[1] \in Nat /\ w[2] \in Nat
                      /\ addr_id[w] \in AddrsBefore .. COUNT.addr - 1
    OBVIOUS
  <2>1. txs \in Block /\ w \in VoutsOf(txs)
    BY ResolvedIds
  <2>2. w = <<w[1], w[2]>> /\ w[1] \in DOMAIN txs /\ w[2] \in DOMAIN txs[w[1]].vouts
    BY <2>1, VoutPlace
  <2> QED
    BY <1>1, <2>1, <2>2, SMTT(30) DEF Block, Tx
<1>3. ~ Earlier(v, v)
  BY <1>2 DEF Earlier
<1>4. addr_id[v] >= a /\ addr_id[v] <= COUNT.addr - 1
  BY <1>1, <1>2, <1>3
<1>5. PICK u \in NewAddrs : addr_id[u] = a
  BY <1>1, <1>4
<1>6. ASSUME NEW w \in NewAddrs, addr_id[w] = a PROVE w = v
  <2>1. ~ Earlier(w, v)
    BY <1>6
  <2>2. ~ Earlier(v, w)
    BY <1>1, <1>2, <1>4, <1>6
  <2> QED
    BY <1>2, <2>1, <2>2 DEF Earlier
<1> QED
  BY <1>5, <1>6

\* out_addr(), at an output with an address.
LEMMA PrintAddr ==
    ASSUME IInv, NumbersAsSeen, IdsNext, pc = "resolved",
           NEW P \in Seq(Rows), NEW out, NEW t \in Nat,
           NEW i \in DOMAIN txs, NEW j \in DOMAIN txs[i].vouts, AddrAt(i, j) # NoAddr,
           NEW a \in Nat, PrintedTo(P, out, t, a, <<i, j>>)
    PROVE  \E b \in Nat : /\ PrintedTo(P, OutAddr(out, <<i, j>>), t, b, <<i, j + 1>>)
                          /\ addr_id[<<i, j>>] < b
<1> DEFINE v == <<i, j>>
<1>1. v \in VoutsOf(txs) /\ addr_id[v] \in U32 /\ addr_id[v] # NotFound
  <2>1. v \in VoutsOf(txs) /\ v[1] = i /\ v[2] = j
    BY DEF VoutsOf
  <2> QED
    BY <2>1, ResolvedIds
<1>2. v \in NewAddrs <=> addr_is_new[v]
  BY <1>1 DEF NewAddrs, ToUndo
<1>3. \A w \in NewAddrs : Earlier(w, <<i, j + 1>>) <=> Earlier(w, v) \/ w = v
  BY NextPlaces, ResolvedIds DEF IInv
<1>4. /\ out \in Outs /\ out.n \in Nat /\ out.rows \in Seq(Rows)
      /\ OneOutput(P \o out.rows, t, a) /\ P \o out.rows \in Seq(Rows)
      /\ AddrsBefore <= a /\ a <= COUNT.addr /\ out.n <= a
      /\ \A w \in NewAddrs : Earlier(w, v) <=> addr_id[w] < a
  <2>1. out.n \in Nat /\ out.rows \in Seq(Rows)
    BY DEF PrintedTo, Outs
  <2> QED
    BY <2>1, ConcatAppend, SMTT(30) DEF PrintedTo
<1>5. AddrsBefore \in Nat /\ COUNT.addr \in Nat
  BY ResolvedIds DEF U32
<1> HIDE DEF v
<1>6. CASE addr_is_new[v]
  <2>1. addr_id[v] = a /\ \A w \in NewAddrs : addr_id[w] = a => w = v
    BY <1>2, <1>4, <1>6, NextAddr
  <2> DEFINE row == <<"a", a>>
             new == [n |-> out.n + 1, rows |-> Append(out.rows, row)]
  <2>2. OutAddr(out, v) = new
    BY <1>4, <1>6, <2>1 DEF OutAddr
  <2>3. row \in Rows /\ a \in U32
    BY <1>1, <2>1 DEF Rows
  <2>4. OneOutput(Append(P \o out.rows, row), t, a + 1)
    BY <1>4, <2>3, OutputOn
  <2> HIDE DEF row
  <2>5. new \in Outs /\ new.n = out.n + 1 /\ new.rows = Append(out.rows, row)
    BY <1>4, <2>3, RowAdded
  <2>6. OneOutput(P \o new.rows, t, a + 1)
    BY <1>4, <2>3, <2>4, <2>5, ConcatAppend
  <2>7. a + 1 <= COUNT.addr
    <3>1. v \in NewAddrs
      BY <1>2, <1>6
    <3>2. addr_id[v] \in AddrsBefore .. COUNT.addr - 1
      BY <3>1 DEF IdsNext, AddrIdsNext, AddrsBefore
    <3> QED
      BY <1>5, <2>1, <3>2
  <2>8. \A w \in NewAddrs : Earlier(w, <<i, j + 1>>) <=> addr_id[w] < a + 1
    <3>1. \A w \in NewAddrs : addr_id[w] \in Nat
      BY ResolvedIds DEF U32
    <3> SUFFICES ASSUME NEW w \in NewAddrs
                 PROVE  Earlier(w, <<i, j + 1>>) <=> addr_id[w] < a + 1
      OBVIOUS
    <3>2. addr_id[w] < a + 1 <=> addr_id[w] < a \/ addr_id[w] = a
      BY <3>1
    <3>3. addr_id[w] = a <=> w = v
      BY <2>1
    <3>4. Earlier(w, <<i, j + 1>>) <=> Earlier(w, v) \/ w = v
      BY <1>3
    <3>5. Earlier(w, v) <=> addr_id[w] < a
      BY <1>4
    <3> QED
      BY <3>2, <3>3, <3>4, <3>5
  <2> HIDE DEF new
  <2>9. PrintedTo(P, new, t, a + 1, <<i, j + 1>>)
    <3>1. AddrsBefore <= a + 1 /\ new.n <= a + 1
      BY <1>4, <1>5, <2>5
    <3> QED
      BY <2>5, <2>6, <2>7, <2>8, <3>1, SMTT(30) DEF PrintedTo
  <2> QED
    BY <2>1, <2>2, <2>9 DEF v
<1>7. CASE ~ addr_is_new[v]
  <2>1. OutAddr(out, v) = out
    BY <1>7 DEF OutAddr
  <2>2. v \notin NewAddrs
    BY <1>2, <1>7
  <2>3. PrintedTo(P, out, t, a, <<i, j + 1>>)
    BY <1>3, <1>4, <2>2 DEF PrintedTo
  <2>4. addr_id[v] < a
    <3>1. \/ addr_id[v] < AddrsBefore
          \/ \E w \in NewAddrs : (w = v \/ Earlier(w, v)) /\ addr_id[w] = addr_id[v]
      BY <1>1 DEF IdsNext, AddrIdsKnown, AddrsBefore
    <3> QED
      BY <1>1, <1>4, <1>5, <2>2, <3>1 DEF U32
  <2> QED
    BY <2>1, <2>3, <2>4 DEF v
<1> QED
  BY <1>6, <1>7

\* out_vout().
LEMMA PrintVout ==
    ASSUME IInv, NumbersAsSeen, IdsNext, pc = "resolved",
           NEW P \in Seq(Rows), NEW out, NEW i \in DOMAIN txs, NEW j \in DOMAIN txs[i].vouts,
           IsPrinted(P, out, TxsBefore + i, <<i, j>>)
    PROVE  IsPrinted(P, OutVout(out, i, j), TxsBefore + i, <<i, j + 1>>)
<1> DEFINE t == TxsBefore + i
           m == txid[i]
           n == addr_id[<<i, j>>]
           with == IF AddrAt(i, j) = NoAddr THEN out ELSE OutAddr(out, <<i, j>>)
<1>1. /\ <<i, j>> \in VoutsOf(txs) /\ n \in U32
      /\ n # NotFound <=> AddrAt(i, j) # NoAddr
  <2>1. <<i, j>> \in VoutsOf(txs) /\ <<i, j>>[1] = i /\ <<i, j>>[2] = j
    BY DEF VoutsOf
  <2> QED
    BY <2>1, ResolvedIds
<1>2. t \in Nat /\ m \in U32 /\ m < t
  <2>1. TxsBefore \in Nat /\ i \in Nat /\ m = TxsBefore + i - 1 /\ m \in U32
    BY ResolvedIds
  <2> QED
    BY <2>1 DEF U32
<1>3. OutVout(out, i, j) = Row(with, <<"o", m, n>>)
  BY DEF OutVout
<1>4. PICK a \in Nat : PrintedTo(P, out, t, a, <<i, j>>)
  BY DEF IsPrinted
<1>5. \E b \in Nat : /\ PrintedTo(P, with, t, b, <<i, j + 1>>)
                     /\ n = NotFound \/ n < b
  <2>1. CASE AddrAt(i, j) # NoAddr
    BY <1>2, <1>4, <2>1, PrintAddr
  <2>2. CASE AddrAt(i, j) = NoAddr
    <3>1. with = out /\ n = NotFound /\ <<i, j>> \notin NewAddrs
      BY <1>1, <2>2 DEF NewAddrs, ToUndo
    <3>2. \A w \in NewAddrs : Earlier(w, <<i, j + 1>>) <=> Earlier(w, <<i, j>>) \/ w = <<i, j>>
      BY NextPlaces, ResolvedIds DEF IInv
    <3> HIDE DEF with, n
    <3>3. PrintedTo(P, with, t, a, <<i, j + 1>>)
      BY <1>4, <3>1, <3>2 DEF PrintedTo
    <3> QED
      BY <3>1, <3>3
  <2> QED
    BY <2>1, <2>2
<1> HIDE DEF t, m, n, with
<1>6. PICK b \in Nat : PrintedTo(P, with, t, b, <<i, j + 1>>) /\ (n = NotFound \/ n < b)
  BY <1>5
<1>7. P \o with.rows \in Seq(Rows) /\ OneOutput(P \o with.rows, t, b)
  BY <1>6, ConcatAppend DEF PrintedTo, Outs
<1>8. OneOutput(Append(P \o with.rows, <<"o", m, n>>), t, b)
  BY <1>1, <1>2, <1>6, <1>7, OutputOn DEF n
<1>9. <<"o", m, n>> \in Rows
  BY <1>1, <1>2 DEF Rows, n
<1>10. PrintedTo(P, Row(with, <<"o", m, n>>), t, b, <<i, j + 1>>)
  BY <1>2, <1>6, <1>8, <1>9, PrintRow
<1> QED
  BY <1>3, <1>6, <1>10 DEF IsPrinted, t

\* The loop over the inputs.
LEMMA PrintVins ==
    ASSUME IInv, NumbersAsSeen, IdsNext, pc = "resolved",
           NEW P \in Seq(Rows), NEW out \in Outs, NEW i \in DOMAIN txs, NEW p,
           IsPrinted(P, out, TxsBefore + i, p)
    PROVE  OutVins(out, i) \in Outs /\ IsPrinted(P, OutVins(out, i), TxsBefore + i, p)
<1> DEFINE N == Len(txs[i].vins)
           D == {o \in Outs : IsPrinted(P, o, TxsBefore + i, p)}
<1>1. N \in Nat /\ DOMAIN txs[i].vins = 1 .. N /\ N \in 0 .. N /\ TypeOK
  BY DEF IInv, TypeOK, Block, Tx
<1>2. PICK f \in [0 .. N -> Outs] :
              /\ f[0] = out
              /\ \A j \in DOMAIN txs[i].vins : f[j] = OutVin(f[j - 1], i, j)
              /\ OutVins(out, i) = f[N]
  BY <1>1, OutVinsUnfold
<1>3. f[0] \in D
  BY <1>2
<1>4. ASSUME NEW j \in 1 .. N, f[j - 1] \in D PROVE f[j] \in D
  <2>1. f[j] = OutVin(f[j - 1], i, j) /\ f[j] \in Outs /\ j \in DOMAIN txs[i].vins
    BY <1>1, <1>2
  <2>2. IsPrinted(P, f[j - 1], TxsBefore + i, p)
    BY <1>4
  <2>3. IsPrinted(P, OutVin(f[j - 1], i, j), TxsBefore + i, p)
    BY <2>1, <2>2, PrintVin
  <2> QED
    BY <2>1, <2>3
<1>5. f[N] \in D
  <2> HIDE DEF D
  <2> QED
    BY <1>1, <1>3, <1>4, RestIn
<1> QED
  BY <1>2, <1>5

\* The loop over the outputs.
LEMMA PrintVouts ==
    ASSUME IInv, NumbersAsSeen, IdsNext, pc = "resolved",
           NEW P \in Seq(Rows), NEW out \in Outs, NEW i \in DOMAIN txs,
           IsPrinted(P, out, TxsBefore + i, <<i, 1>>)
    PROVE  IsPrinted(P, OutVouts(out, i), TxsBefore + i, <<i, Len(txs[i].vouts) + 1>>)
<1> DEFINE N == Len(txs[i].vouts)
<1>1. N \in Nat /\ DOMAIN txs[i].vouts = 1 .. N /\ TypeOK
  BY DEF IInv, TypeOK, Block, Tx
<1>2. PICK f \in [0 .. N -> Outs] :
              /\ f[0] = out
              /\ \A j \in DOMAIN txs[i].vouts : f[j] = OutVout(f[j - 1], i, j)
              /\ OutVouts(out, i) = f[N]
  BY <1>1, OutVoutsUnfold
<1> DEFINE S == {n \in Nat : n <= N => IsPrinted(P, f[n], TxsBefore + i, <<i, n + 1>>)}
<1>3. 0 \in S
  BY <1>2
<1>4. ASSUME NEW n \in Nat, n \in S PROVE n + 1 \in S
  <2> SUFFICES ASSUME n + 1 <= N
               PROVE  IsPrinted(P, f[n + 1], TxsBefore + i, <<i, (n + 1) + 1>>)
    OBVIOUS
  <2>1. n + 1 \in DOMAIN txs[i].vouts /\ (n + 1) - 1 = n /\ n <= N
    BY <1>1
  <2>2. f[n + 1] = OutVout(f[n], i, n + 1)
    BY <1>2, <2>1
  <2>3. IsPrinted(P, f[n], TxsBefore + i, <<i, n + 1>>)
    BY <1>4, <2>1
  <2> QED
    BY <2>1, <2>2, <2>3, PrintVout
<1>5. Nat \subseteq S
  <2> HIDE DEF S
  <2> QED
    BY <1>3, <1>4, Induct
<1>6. IsPrinted(P, f[N], TxsBefore + i, <<i, N + 1>>)
  <2>1. N \in S
    <3> HIDE DEF N, S
    <3> QED
      BY <1>1, <1>5
  <2>2. N <= N
    <3> HIDE DEF N
    <3> QED
      BY <1>1
  <2> QED
    BY <2>1, <2>2
<1> QED
  BY <1>2, <1>6

LEMMA SamePlace ==
    ASSUME NEW P, NEW out, NEW t, NEW p, NEW q, IsPrinted(P, out, t, p),
           \A w \in NewAddrs : Earlier(w, q) <=> Earlier(w, p)
    PROVE  IsPrinted(P, out, t, q)
BY DEF IsPrinted, PrintedTo

\* out_tx().
LEMMA PrintOutTx ==
    ASSUME IInv, NumbersAsSeen, IdsNext, pc = "resolved",
           NEW P \in Seq(Rows), NEW out \in Outs, NEW i \in DOMAIN txs,
           IsPrinted(P, out, TxsBefore + i - 1, <<i, 0>>)
    PROVE  IsPrinted(P, OutTx(out, i), TxsBefore + i, <<i + 1, 0>>)
<1> DEFINE o1 == Row(out, <<"t", txid[i]>>)
           o2 == OutVins(o1, i)
<1>1. TypeOK /\ NewAddrs \subseteq VoutsOf(txs)
  BY ResolvedIds DEF IInv
<1>2. o1 \in Outs /\ IsPrinted(P, o1, TxsBefore + i, <<i, 0>>)
  BY <1>1, OutTypes, PrintTx
<1>3. OutTx(out, i) = OutVouts(o2, i)
  BY DEF OutTx
<1> HIDE DEF o1
<1>4. o2 \in Outs /\ IsPrinted(P, o2, TxsBefore + i, <<i, 0>>)
  BY <1>2, PrintVins
<1> HIDE DEF o2
<1>5. IsPrinted(P, o2, TxsBefore + i, <<i, 1>>)
  BY <1>1, <1>4, NextPlaces, SamePlace
<1>6. IsPrinted(P, OutVouts(o2, i), TxsBefore + i, <<i, Len(txs[i].vouts) + 1>>)
  BY <1>4, <1>5, PrintVouts
<1>7. IsPrinted(P, OutVouts(o2, i), TxsBefore + i, <<i + 1, 0>>)
  <2>1. \A w \in NewAddrs : Earlier(w, <<i + 1, 0>>) <=> Earlier(w, <<i, Len(txs[i].vouts) + 1>>)
    BY <1>1, NextPlaces
  <2> QED
    BY <1>6, <2>1, SamePlace
<1> QED
  BY <1>3, <1>7

\* out_bk(): with what was printed of the stores before the block, its rows are
\* one output of the stores after it.
LEMMA PrintBlock ==
    ASSUME IInv, NumbersAsSeen, IdsNext, pc = "resolved",
           NEW P \in Seq(Rows), OneOutput(P, TxsBefore, AddrsBefore),
           printed_addrs \in Nat, printed_addrs <= AddrsBefore
    PROVE  /\ OneOutput(P \o OutRows.rows, COUNT.tx, COUNT.addr)
           /\ OutRows.n <= COUNT.addr
<1> DEFINE N == Len(txs)
           out == [n |-> printed_addrs, rows |-> <<>>]
<1>1. /\ TypeOK /\ N \in Nat /\ DOMAIN txs = 1 .. N /\ txs \in Block
      /\ TxsBefore \in Nat /\ AddrsBefore \in Nat /\ COUNT.addr \in Nat
      /\ COUNT.tx = TxsBefore + N /\ AddrsBefore <= COUNT.addr
      /\ NewAddrs \subseteq VoutsOf(txs) /\ N \in 0 .. N
  BY ResolvedIds DEF IInv, U32
<1>2. PICK f \in [0 .. N -> Outs] :
              /\ f[0] = out
              /\ \A i \in DOMAIN txs : f[i] = OutTx(f[i - 1], i)
              /\ OutRows = f[N]
  BY <1>1, OutRowsUnfold
<1>3. {addr_id[w] : w \in NewAddrs} = AddrsBefore .. COUNT.addr - 1
  BY DEF IdsNext, AddrIdsNext, AddrsBefore
<1> DEFINE S == {n \in Nat : n <= N => IsPrinted(P, f[n], TxsBefore + n, <<n + 1, 0>>)}
<1>4. 0 \in S
  <2>1. out \in Outs /\ out.n = printed_addrs /\ out.rows = <<>> /\ P \o <<>> = P
    BY ConcatAppend DEF Outs
  <2>2. ASSUME NEW w \in NewAddrs PROVE Earlier(w, <<1, 0>>) <=> addr_id[w] < AddrsBefore
    <3>1. ~ Earlier(w, <<1, 0>>)
      <4>1. 1 \in Nat \ {0} /\ w \in VoutsOf(txs)
        BY <1>1
      <4> QED
        BY <1>1, <4>1, PassedVouts
    <3>2. addr_id[w] \in AddrsBefore .. COUNT.addr - 1
      BY <1>3
    <3> QED
      BY <1>1, <3>1, <3>2
  <2> HIDE DEF out
  <2>3. PrintedTo(P, out, TxsBefore, AddrsBefore, <<1, 0>>)
    BY <1>1, <2>1, <2>2 DEF PrintedTo
  <2>4. TxsBefore + 0 = TxsBefore /\ 0 + 1 = 1
    BY <1>1
  <2> QED
    BY <1>1, <1>2, <2>3, <2>4 DEF IsPrinted
<1>5. ASSUME NEW n \in Nat, n \in S PROVE n + 1 \in S
  <2> SUFFICES ASSUME n + 1 <= N
               PROVE  IsPrinted(P, f[n + 1], TxsBefore + (n + 1), <<(n + 1) + 1, 0>>)
    OBVIOUS
  <2>1. /\ n + 1 \in DOMAIN txs /\ (n + 1) - 1 = n /\ n <= N /\ n \in 0 .. N
        /\ TxsBefore + (n + 1) - 1 = TxsBefore + n
    BY <1>1
  <2>2. f[n + 1] = OutTx(f[n], n + 1) /\ f[n] \in Outs
    BY <1>2, <2>1
  <2>3. IsPrinted(P, f[n], TxsBefore + (n + 1) - 1, <<n + 1, 0>>)
    BY <1>5, <2>1
  <2> QED
    BY <2>1, <2>2, <2>3, PrintOutTx
<1>6. Nat \subseteq S
  <2> HIDE DEF S
  <2> QED
    BY <1>4, <1>5, Induct
<1>7. IsPrinted(P, OutRows, COUNT.tx, <<N + 1, 0>>)
  BY <1>1, <1>2, <1>6
<1>8. PICK a \in Nat : PrintedTo(P, OutRows, COUNT.tx, a, <<N + 1, 0>>)
  BY <1>7 DEF IsPrinted
<1>9. \A w \in NewAddrs : addr_id[w] < a
  <2>1. ASSUME NEW w \in NewAddrs PROVE Earlier(w, <<N + 1, 0>>)
    <3>1. w \in VoutsOf(txs) /\ w[1] \in DOMAIN txs
      BY <1>1, VoutPlace
    <3> QED
      BY <1>1, <3>1 DEF Earlier
  <2> QED
    BY <1>8, <2>1 DEF PrintedTo
<1>10. a = COUNT.addr
  <2>1. AddrsBefore <= a /\ a <= COUNT.addr
    BY <1>8 DEF PrintedTo
  <2>2. CASE a < COUNT.addr
    <3>1. a \in AddrsBefore .. COUNT.addr - 1
      BY <1>1, <2>1, <2>2
    <3>2. PICK w \in NewAddrs : addr_id[w] = a
      BY <1>3, <3>1
    <3> QED
      BY <1>8, <1>9, <3>2
  <2> QED
    BY <1>1, <2>1, <2>2
<1> QED
  BY <1>8, <1>10 DEF PrintedTo

\* Any counts are those of some output.
LEMMA SomeOutput ==
    ASSUME NEW t \in Nat, NEW a \in Nat, 0 .. t - 1 \subseteq U32, 0 .. a - 1 \subseteq U32
    PROVE  \E P \in Seq(Rows) : OneOutput(P, t, a)
<1> DEFINE P == [k \in 1 .. t + a |-> IF k <= t THEN <<"t", k - 1>> ELSE <<"a", k - t - 1>>]
<1>1. \A k \in 1 .. t + a : P[k] \in Rows
  <2> SUFFICES ASSUME NEW k \in 1 .. t + a PROVE P[k] \in Rows
    OBVIOUS
  <2>1. CASE k <= t
    <3>1. k - 1 \in U32 /\ P[k] = <<"t", k - 1>>
      BY <2>1
    <3> QED
      BY <3>1 DEF Rows
  <2>2. CASE ~ (k <= t)
    <3>1. k - t - 1 \in U32 /\ P[k] = <<"a", k - t - 1>>
      BY <2>2
    <3> QED
      BY <3>1 DEF Rows
  <2> QED
    BY <2>1, <2>2
<1>2. P \in Seq(Rows) /\ DOMAIN P = 1 .. t + a
  BY <1>1
<1>3. /\ \A k \in 1 .. t : P[k] = <<"t", k - 1>>
      /\ \A k \in t + 1 .. t + a : P[k] = <<"a", k - t - 1>>
      /\ \A k \in 1 .. t + a : k \in 1 .. t \/ k \in t + 1 .. t + a
      /\ 1 .. t \subseteq 1 .. t + a /\ t + 1 .. t + a \subseteq 1 .. t + a
  OBVIOUS
<1> HIDE DEF P
<1>4. InOrder(P, "t", t)
  <2>1. OfKind(P, "t") = 1 .. t
    BY <1>2, <1>3 DEF OfKind
  <2>2. \A k \in 1 .. t : P[k][2] = k - 1
    BY <1>3
  <2>3. \A id \in 0 .. t - 1 : id + 1 \in 1 .. t /\ P[id + 1][2] = id
    BY <2>2
  <2>4. {P[k][2] : k \in 1 .. t} = 0 .. t - 1
    BY <2>2, <2>3
  <2>5. \A k, l \in 1 .. t : k < l => P[k][2] < P[l][2]
    BY <2>2
  <2> QED
    BY <2>1, <2>4, <2>5 DEF InOrder
<1>5. InOrder(P, "a", a)
  <2>1. OfKind(P, "a") = t + 1 .. t + a
    BY <1>2, <1>3 DEF OfKind
  <2>2. \A k \in t + 1 .. t + a : P[k][2] = k - t - 1
    BY <1>3
  <2>3. \A id \in 0 .. a - 1 : t + id + 1 \in t + 1 .. t + a /\ P[t + id + 1][2] = id
    BY <2>2
  <2>4. {P[k][2] : k \in t + 1 .. t + a} = 0 .. a - 1
    BY <2>2, <2>3
  <2>5. \A k, l \in t + 1 .. t + a : k < l => P[k][2] < P[l][2]
    BY <2>2
  <2> QED
    BY <2>1, <2>4, <2>5 DEF InOrder
<1>6. \A k \in DOMAIN P : Refers(P, k)
  <2>1. \A k \in 1 .. t + a : P[k][1] # "i" /\ P[k][1] # "o"
    BY <1>3
  <2>2. \A k \in 1 .. t + a : Named(P[k]) = {}
    BY <2>1 DEF Named
  <2> QED
    BY <1>2, <2>2 DEF Refers
<1> QED
  BY <1>2, <1>4, <1>5, <1>6 DEF OneOutput

-----------------------------------------------------------------------------

\* In the loop of an orderly run.
LEMMA OrderlyLoop ==
    ASSUME MainTypes, SInv, OutInv, InLoop
    PROVE  /\ Undisturbed /\ HeldInLoop /\ IInv /\ NumbersAsSeen /\ IdsNext
           /\ OPTS.kv /\ TypeOK /\ pc # "aborted"
           /\ pc # "idle" => OPTS.num # 0
<1>1. Undisturbed /\ IdsNext /\ pc # "aborted" /\ (pc # "idle" => OPTS.num # 0)
  BY DEF OutInv, AlwaysTrusted, EndsInOrder, Undisturbed
<1>2. HeldInLoop
  BY <1>1 DEF SInv, LoopInv, HeldInLoop
<1>3. OPTS.kv
  BY DEF SInv, Phases, InLoop, WithKv
<1> QED
  BY <1>1, <1>2, <1>3 DEF HeldInLoop, MainTypes

\* A block that failed is gone.
LEMMA FailedIsUndone ==
    ASSUME MainTypes, SInv, OutInv, Orderly, InLoop, pc = "failed"
    PROVE  txdb = txdb0 /\ addrdb = addrdb0
<1>1. IInv
  BY OrderlyLoop
<1>2. NewTxs = {}
  BY <1>1 DEF Orderly, IInv, BackPhase
<1> QED
  BY <1>1, <1>2, WholeUndoRestores

Based == <<BaseTx, BaseAddr>>

\* Only what clears a store, and a block that is done, changes what the stores
\* on file are without the block in hand.
LEMMA SetCacheKeepsBase ==
    ASSUME MainTypes, SInv, OutInv,
           \/ Start \/ OpenStores \/ OpenFails \/ RefuseStores \/ AcceptStores
           \/ RefuseStamp \/ AcceptStamp \/ Plain
    PROVE  Based' = Based
<1> USE DEF Based, BaseTx, BaseAddr, BlockOnFile, InLoop, TxKept, AddrKept, OnFile
<1>1. /\ stage \in {"plain", "plain_loop"} => ~OPTS.kv
      /\ stage \in {"open", "check", "stamp"} => OPTS.kv
      /\ stage = "stamp" => pc = "idle"
  BY DEF SInv, Phases, WithKv, BeforeLoop
<1>2. CASE Start
  <2>1. stage = "off" /\ UNCHANGED <<txfile, addrfile>>
    BY <1>2 DEF Start, files
  <2>2. stage' = "open" \/ (stage' = "plain" /\ ~OPTS'.kv)
    <3>1. stage' = IF OPTS'.kv THEN "open" ELSE "plain"
      BY <1>2 DEF Start
    <3> QED
      BY <3>1
  <2> QED
    BY <2>1, <2>2
<1>3. CASE OpenStores
  BY <1>1, <1>3 DEF OpenStores, files
<1>4. CASE OpenFails \/ RefuseStores \/ AcceptStores
  BY <1>1, <1>4 DEF OpenFails, RefuseStores, AcceptStores, files, vars, stores
<1>5. CASE RefuseStamp
  BY <1>1, <1>5 DEF RefuseStamp, files, stores
<1>6. CASE AcceptStamp
  <2>1. /\ stage = "stamp" /\ stage' \in {"close_tx", "loop"} /\ pc' = pc
        /\ UNCHANGED <<txdb, addrdb, txfile, addrfile>>
        /\ OPTS'.infile = OPTS.infile /\ OPTS'.kv = OPTS.kv
    BY <1>6 DEF AcceptStamp, files, stores, MainTypes, OptionRecord
  <2> QED
    BY <1>1, <2>1
<1>7. CASE Plain
  <2>1. /\ stage \in {"plain", "plain_loop"} /\ stage' \in {"plain_loop", "close_stamp"}
        /\ UNCHANGED <<txfile, addrfile>>
        /\ OPTS'.infile = OPTS.infile /\ OPTS'.kv = OPTS.kv
    BY <1>7 DEF Plain, PlainCache, PlainBlock, PlainEnds, files, MainTypes, OptionRecord
  <2> QED
    BY <1>1, <2>1
<1> QED
  BY <1>2, <1>3, <1>4, <1>5, <1>6, <1>7

LEMMA LoopKeepsBase ==
    ASSUME MainTypes, SInv, OutInv, Orderly,
           \/ LoadBlock \/ LoadFails \/ ResolveStep \/ ResolveFails \/ NumDone
           \/ Update \/ UpdateFails
    PROVE  Based' = Based
<1> USE DEF Based, BaseTx, BaseAddr, BlockOnFile, InLoop, TxKept, AddrKept, OnFile
<1>1. stage = "loop"
  BY DEF LoadBlock, LoadFails, ResolveStep, ResolveFails, NumDone, Update, UpdateFails, Loop
<1>2. OPTS.kv /\ (pc # "idle" => OPTS.num # 0)
  BY <1>1, OrderlyLoop
<1>3. CASE LoadBlock
  <2>1. /\ pc = "idle" /\ pc' = "tx" /\ txdb0' = txdb /\ addrdb0' = addrdb
        /\ UNCHANGED <<stage, OPTS, txfile, addrfile>>
    BY <1>3 DEF LoadBlock, BeginBlock, main, files
  <2> QED
    BY <1>1, <1>2, <2>1
<1>4. CASE ResolveStep
  <2>1. /\ pc # "idle" /\ pc' # "idle" /\ UNCHANGED <<txdb0, addrdb0>>
        /\ UNCHANGED <<stage, OPTS, txfile, addrfile>>
    <3>1. ResolveForward => pc # "idle" /\ pc' # "idle" /\ UNCHANGED <<txdb0, addrdb0>>
      BY DEF ResolveForward, AddTx, RefuseTx, VinCoinbase, VinFound, VinNotFound, VinThrows,
         VinsDone, VoutNoAddr, VoutKnown, VoutTakenForNew, VoutNew, VoutMismatch, VoutRefused,
         VoutsDone, BlockResolved, Fail, begun
    <3>2. Rollback => pc # "idle" /\ pc' # "idle" /\ UNCHANGED <<txdb0, addrdb0>>
      BY DEF Rollback, SkipVout, DelAddr, DelAddrFails, AtVout, PastVouts, SkipTx, DelTx,
         DelTxFails, KeepTx, RollbackReturns, BlockFailed, Back, begun
    <3> QED
      BY <1>4, <3>1, <3>2 DEF ResolveStep, main, files
  <2> QED
    BY <1>1, <1>2, <2>1
<1>5. CASE ResolveFails
  <2>1. txdb = txdb0 /\ addrdb = addrdb0 /\ pc # "idle"
    BY <1>1, <1>5, FailedIsUndone DEF ResolveFails
  <2> QED
    BY <1>1, <1>2, <1>5, <2>1 DEF ResolveFails, vars, stores, files
<1>6. CASE LoadFails \/ NumDone
  <2>1. pc = "idle" /\ stage' = "close_tx" /\ UNCHANGED <<vars, OPTS, files>>
    BY <1>2, <1>6 DEF LoadFails, NumDone
  <2> QED
    BY <1>1, <1>2, <2>1 DEF vars, stores, files
<1>7. CASE Update
  BY <1>1, <1>2, <1>7 DEF Update, Loop, vars, begun
<1>8. ~ UpdateFails
  BY DEF UpdateFails, Orderly, CanFail
<1> QED
  BY <1>3, <1>4, <1>5, <1>6, <1>7, <1>8

LEMMA StopKeepsBase ==
    ASSUME MainTypes, SInv, OutInv, Orderly, StopCache
    PROVE  Based' = Based
<1> USE DEF Based, BaseTx, BaseAddr, BlockOnFile, InLoop, TxKept, AddrKept, OnFile
<1>1. stage \in {"close_tx", "close_addr"} => OPTS.kv
  BY DEF SInv, Phases, WithKv
<1>2. Closed(txdb) = {txdb} /\ Closed(addrdb) = {addrdb}
  BY DEF Orderly, Closed, CanFail
<1>3. CASE CloseTx
  BY <1>1, <1>2, <1>3 DEF CloseTx, vars, stores
<1>4. CASE CloseAddr
  BY <1>1, <1>2, <1>4 DEF CloseAddr, vars, stores
<1>5. CASE CloseStamp
  BY <1>5 DEF CloseStamp
<1> QED
  BY <1>3, <1>4, <1>5 DEF StopCache

\* Steps that there are not in an orderly run.
LEMMA NoEnd ==
    ASSUME MainTypes, SInv, OutInv, Orderly
    PROVE  ~ Abort /\ ~ Crash /\ ~ UpdateFails
<1>1. ~ Abort
  BY DEF OutInv, EndsInOrder, Abort
<1>2. ~ Crash
  BY SessionAssumption DEF OutInv, EndsInOrder, Crash, Orderly
<1>3. ~ UpdateFails
  BY DEF UpdateFails, Orderly, CanFail
<1> QED
  BY <1>1, <1>2, <1>3

LEMMA BaseKept ==
    ASSUME MainTypes, SInv, OutInv, Orderly, [SessionNext]_svars,
           ~ ClearTx, ~ ClearAddr, ~ OutBlock
    PROVE  Based' = Based
<1>1. CASE UNCHANGED svars
  BY <1>1 DEF svars, vars, stores, main, files, begun, Based, BaseTx, BaseAddr, BlockOnFile, InLoop,
     TxKept, AddrKept, OnFile
<1> QED
  BY <1>1, SetCacheKeepsBase, LoopKeepsBase, StopKeepsBase, NoEnd
     DEF SessionNext, Process, SetCache, MainLoop

-----------------------------------------------------------------------------
\* Whether there is a stamp, and whether the stores can do without.

\* A session that goes on with what there is finds a stamp, and it is true.
LEMMA AcceptedTrusted ==
    ASSUME MainTypes, SInv, OutInv, Orderly, AcceptStamp
    PROVE  /\ OPTS.infile /\ stage' = "loop" => trusted'
           /\ ~ trusted' => BaseEmpty
<1>1. /\ stage = "stamp" /\ StampOK /\ OPTS.kv /\ ~ file_open
      /\ trusted' <=> \/ OPTS.infile /\ FromScratch
                      \/ trusted /\ ((StampRead /\ truestamp) \/ OPTS.info \/ ~OPTS.infile)
      /\ stage' = "loop" => ~ OPTS.info
  BY DEF AcceptStamp, SInv, Phases, WithKv, BeforeLoop, MainTypes, Accepted, BegunEmpty, Orderly, CanFail
<1>2. truestamp /\ (~trusted => BaseEmpty) /\ (stamp = Absent => BaseEmpty)
      /\ (FromScratch \/ OPTS.info \/ Count(txdb) # 0)
  BY <1>1 DEF OutInv, AlwaysTrusted
<1>3. CASE ~ OPTS.infile
  BY <1>1, <1>2, <1>3
<1>4. CASE OPTS.infile /\ FromScratch
  BY <1>1, <1>4
<1>5. CASE OPTS.infile /\ ~ FromScratch
  <2>1. OPTS.from # 0 /\ (stamp # Absent => StampRead)
    BY <1>5 DEF FromScratch, StampRead
  <2>2. ~ BaseEmpty => trusted'
    BY <1>1, <1>2, <2>1
  <2>3. BaseTx = txdb
    BY <1>1, <1>5 DEF BaseTx, BlockOnFile, InLoop, TxKept, OnFile
  <2>4. stage' = "loop" => ~ BaseEmpty
    <3>1. stage' = "loop" => Count(txdb) # 0
      BY <1>1, <1>2, <1>5
    <3>2. Count(EmptyStore(TxHash)) = 0
      BY EmptyCount, ResolveAssumption
    <3> QED
      BY <2>3, <3>1, <3>2 DEF BaseEmpty
  <2> QED
    BY <2>2, <2>4
<1> QED
  BY <1>3, <1>4, <1>5

\* What set_cache() makes sure of before it looks at the stamp.
LEMMA StampStage ==
    ASSUME MainTypes, SInv, OutInv, Orderly, [SessionNext]_svars, stage' = "stamp"
    PROVE  /\ ~ OneIsEmpty'
           /\ (FromScratch \/ OPTS.info \/ Count(txdb) # 0)'
<1>1. \/ UNCHANGED svars
      \/ AcceptStores
      \/ ClearAddr
  BY DEF SessionNext, Process, SetCache, MainLoop, StopCache, Plain, Start, OpenStores, OpenFails,
     RefuseStores, AcceptStores, ClearTx, ClearAddr, RefuseStamp, AcceptStamp, LoadBlock, LoadFails,
     ResolveStep, ResolveFails, NumDone, Update, UpdateFails, OutBlock, CloseTx, CloseAddr,
     CloseStamp, Abort, Crash, Gone, PlainCache, PlainBlock, PlainEnds, Loop, main
<1>2. CASE UNCHANGED svars
  <2>1. stage = "stamp" /\ UNCHANGED <<OPTS, txdb, addrdb>>
    BY <1>2 DEF svars, vars, stores, main
  <2> QED
    BY <2>1 DEF OutInv, AlwaysTrusted, OneIsEmpty, FromScratch, Count, Keys
<1>3. CASE AcceptStores
  <2>1. Acceptable /\ OPTS.from # 0 /\ UNCHANGED <<OPTS, txdb, addrdb>>
    BY <1>3 DEF AcceptStores, vars, stores
  <2>2. ~ OneIsEmpty /\ (FromScratch \/ OPTS.info \/ Count(txdb) # 0)
    BY <2>1 DEF Acceptable, ChkKv, FromScratch
  <2> QED
    BY <2>1, <2>2 DEF OneIsEmpty, FromScratch, Count, Keys
<1>4. CASE ClearAddr
  <2>1. /\ txdb' = EmptyStore(TxHash) /\ addrdb' = EmptyStore(AddrKey)
        /\ OPTS'.from = 0
    BY <1>4, ClearedStores DEF ClearAddr, SInv, Accepted, Orderly, CanFail
  <2>2. Count(EmptyStore(TxHash)) = 0 /\ Count(EmptyStore(AddrKey)) = 0
    BY EmptyCount, ResolveAssumption
  <2>3. Count(txdb)' = Count(txdb') /\ Count(addrdb)' = Count(addrdb')
    BY DEF Count, Keys
  <2> QED
    BY <2>1, <2>2, <2>3 DEF OneIsEmpty, FromScratch
<1> QED
  BY <1>1, <1>2, <1>3, <1>4

\* The files of the stamp: once there is one, there always is.
LEMMA StampStays ==
    ASSUME MainTypes, SInv, OutInv, Orderly, [SessionNext]_svars
    PROVE  /\ stamp' = Absent => stamp = Absent /\ ~ file_open'
           /\ truestamp' /\ (InLoop' /\ OPTS'.infile => trusted')
<1>0. <<>> # Absent /\ buffered # Absent
  BY SessionAssumption DEF MainTypes
<1>1. truestamp /\ (stamp = Absent => ~ file_open) /\ (InLoop /\ OPTS.infile => trusted)
  BY DEF OutInv, AlwaysTrusted
<1>2. CASE Update
  <2>1. /\ stage = "loop" /\ stage' = "out" /\ OPTS' = OPTS /\ trusted' = trusted
        /\ IF OPTS.infile
             THEN /\ stamp' = IF file_open THEN buffered ELSE <<>>
                  /\ truestamp' = trusted
             ELSE UNCHANGED <<stamp, file_open, truestamp>>
    BY <1>2 DEF Update, Loop, stampfs
  <2> QED
    BY <1>0, <1>1, <2>1 DEF InLoop
<1>3. CASE CloseStamp
  <2>1. /\ stamp' = IF buffered # <<>> THEN buffered ELSE stamp
        /\ ~ file_open' /\ truestamp' = truestamp /\ stage' = "off"
    BY <1>3 DEF CloseStamp, trust
  <2> QED
    BY <1>0, <1>1, <2>1 DEF InLoop
<1>4. CASE AcceptStamp
  <2>1. UNCHANGED <<stamp, file_open, truestamp>> /\ OPTS'.infile = OPTS.infile
        /\ stage' \in {"close_tx", "loop"}
    BY <1>4 DEF AcceptStamp, files, stampfs, MainTypes, OptionRecord
  <2> QED
    BY <1>1, <1>4, <2>1, AcceptedTrusted DEF InLoop
<1>5. CASE OnBlock
  <2>1. UNCHANGED <<files, stampfs, trust>> /\ OPTS'.infile = OPTS.infile /\ InLoop
    BY <1>5, OnBlockKeeps
  <2> QED
    BY <1>1, <2>1 DEF files, stampfs, trust
<1>6. CASE UNCHANGED svars
  <2>1. UNCHANGED <<stamp, file_open, truestamp, trusted, stage, OPTS>>
    BY <1>6 DEF svars, main, files, stampfs, trust
  <2> QED
    BY <1>1, <2>1 DEF InLoop
<1>7. CASE ~ Update /\ ~ CloseStamp /\ ~ AcceptStamp /\ ~ OnBlock /\ ~ UNCHANGED svars
  <2>1. ~ Abort /\ ~ Crash /\ ~ UpdateFails
    BY NoEnd
  <2>2. UNCHANGED <<stamp, file_open, truestamp>> /\ ~ InLoop'
    BY <1>7, <2>1
       DEF SessionNext, Process, SetCache, MainLoop, StopCache, Plain, OnBlock, Start, OpenStores,
       OpenFails, RefuseStores, AcceptStores, ClearTx, ClearAddr, RefuseStamp, LoadFails,
       ResolveFails, NumDone, CloseTx, CloseAddr, PlainCache, PlainBlock, PlainEnds, files,
       stampfs, trust, InLoop
  <2> QED
    BY <1>1, <2>2
<1> QED
  BY <1>2, <1>3, <1>4, <1>5, <1>6, <1>7

\* Stores on file that are empty get records in the loop only.
LEMMA StaysEmpty ==
    ASSUME MainTypes, SInv, OutInv, Orderly, [SessionNext]_svars, BaseEmpty,
           ~ (OutBlock /\ OPTS.infile)
    PROVE  BaseEmpty'
<1>1. CASE ClearTx \/ ClearAddr
  <2>1. /\ OPTS' = OPTS /\ UNCHANGED <<txfile, addrfile>>
        /\ stage \in {"clear_tx", "clear_addr"} /\ stage' \in {"clear_addr", "stamp"}
        /\ txdb' = txdb \/ txdb' = EmptyStore(TxHash)
        /\ addrdb' = addrdb \/ addrdb' = EmptyStore(AddrKey)
    BY <1>1, ClearedStores DEF ClearTx, ClearAddr, files
  <2> QED
    BY <2>1 DEF BaseEmpty, BaseTx, BaseAddr, BlockOnFile, InLoop, TxKept, AddrKept, OnFile
<1>2. CASE OutBlock
  <2>1. ~ OPTS.infile /\ ~ OPTS'.infile /\ UNCHANGED <<txfile, addrfile>>
    BY <1>2, OnBlockKeeps DEF OnBlock, files
  <2> QED
    BY <2>1 DEF BaseEmpty, BaseTx, BaseAddr, BlockOnFile, InLoop, TxKept, AddrKept, OnFile
<1>3. CASE ~ ClearTx /\ ~ ClearAddr /\ ~ OutBlock
  BY <1>3, BaseKept DEF Based, BaseEmpty
<1> QED
  BY <1>1, <1>2, <1>3

LEMMA StepAlwaysTrusted ==
    ASSUME MainTypes, SInv, OutInv, Orderly, [SessionNext]_svars PROVE AlwaysTrusted'
<1>1. ~ trusted' => BaseEmpty'
  <2>1. CASE AcceptStamp /\ ~ trusted'
    <3>1. BaseEmpty /\ ~ OutBlock
      BY <2>1, AcceptedTrusted DEF AcceptStamp, OutBlock
    <3> QED
      BY <3>1, StaysEmpty
  <2>2. CASE ~ AcceptStamp /\ ~ trusted'
    <3>1. trusted' = trusted
      BY <2>2 DEF SessionNext, Process, SetCache, MainLoop, StopCache, Plain, Start, OpenStores,
         OpenFails, RefuseStores, AcceptStores, ClearTx, ClearAddr, RefuseStamp, LoadBlock,
         LoadFails, ResolveStep, ResolveFails, NumDone, Update, UpdateFails, OutBlock, CloseTx,
         CloseAddr, CloseStamp, Abort, Crash, Gone, PlainCache, PlainBlock, PlainEnds, trust,
         main, svars
    <3>2. BaseEmpty /\ (OutBlock => ~ OPTS.infile)
      BY <2>2, <3>1 DEF OutInv, AlwaysTrusted, OutBlock, InLoop
    <3> QED
      BY <3>2, StaysEmpty
  <2> QED
    BY <2>1, <2>2
<1>2. stamp' = Absent => BaseEmpty' /\ ~ file_open'
  <2> SUFFICES ASSUME stamp' = Absent PROVE BaseEmpty' /\ ~ file_open'
    OBVIOUS
  <2>1. stamp = Absent /\ ~ file_open'
    BY StampStays
  <2>2. BaseEmpty /\ ~ file_open
    BY <2>1 DEF OutInv, AlwaysTrusted
  <2>3. ~ (OutBlock /\ OPTS.infile)
    BY <2>2 DEF OutBlock, SInv, Buffered
  <2> QED
    BY <2>1, <2>2, <2>3, StaysEmpty
<1> QED
  BY <1>1, <1>2, StampStays, StampStage DEF AlwaysTrusted

LEMMA StepEndsInOrder ==
    ASSUME MainTypes, SInv, OutInv, Orderly, [SessionNext]_svars PROVE EndsInOrder'
<1>1. crashes = 0 /\ pc # "aborted" /\ (InLoop /\ pc # "idle" => OPTS.num # 0)
  BY DEF OutInv, EndsInOrder
<1>2. ~ Abort /\ ~ Crash /\ ~ UpdateFails
  BY NoEnd
<1>3. "get" \notin Faults
  BY DEF Orderly
<1>4. CASE OnBlock
  <2>1. [Next]_vars /\ crashes' = crashes
    BY <1>4, OnBlockKeeps DEF OnBlock, LoadBlock, ResolveStep, OutBlock, main, bounds
  <2>2. pc' # "aborted"
    BY <1>1, <1>3, <2>1
       DEF Next, BeginBlock, ResolveForward, Rollback, NextBlock, Fail, RollbackReturns, AddTx,
       RefuseTx, VinCoinbase, VinFound, VinNotFound, VinThrows, VinsDone, VoutNoAddr, VoutKnown,
       VoutTakenForNew, VoutNew, VoutMismatch, VoutRefused, VoutsDone, BlockResolved, SkipVout,
       DelAddr, DelAddrFails, AtVout, PastVouts, SkipTx, DelTx, DelTxFails, KeepTx, BlockFailed,
       vars, MayFail
  <2>3. pc' # "idle" => OPTS'.num # 0
    BY <1>4 DEF OnBlock, LoadBlock, ResolveStep, OutBlock, NextBlock, Loop, main
  <2> QED
    BY <1>1, <2>1, <2>2, <2>3 DEF EndsInOrder
<1>5. CASE Around
  <2>1. UNCHANGED vars /\ OPTS' = OPTS /\ (InLoop' => InLoop)
    BY <1>5, AroundKeeps
  <2>2. crashes' = crashes
    BY <1>5 DEF Around, LoadFails, ResolveFails, NumDone, Update, UpdateFails, CloseTx, CloseAddr,
       bounds
  <2> QED
    BY <1>1, <2>1, <2>2 DEF EndsInOrder, vars
<1>6. CASE UNCHANGED svars
  BY <1>1, <1>6 DEF svars, vars, main, bounds, EndsInOrder, InLoop
<1>7. CASE AcceptStamp
  <2>1. pc = "idle" /\ pc' = pc /\ crashes' = crashes
    BY <1>7 DEF AcceptStamp, SInv, Phases, BeforeLoop, bounds
  <2> QED
    BY <1>1, <2>1 DEF EndsInOrder
<1>8. CASE ~ OnBlock /\ ~ Around /\ ~ UNCHANGED svars /\ ~ AcceptStamp
  <2>1. crashes' = crashes /\ (pc' = pc \/ pc' = "idle") /\ ~ InLoop'
    BY <1>2, <1>8
       DEF SessionNext, Process, SetCache, MainLoop, StopCache, Plain, OnBlock, Around, Start,
       OpenStores, OpenFails, RefuseStores, AcceptStores, ClearTx, ClearAddr, RefuseStamp,
       CloseStamp, FreshProcess, PlainCache, PlainBlock, PlainEnds, bounds, vars, InLoop
  <2> QED
    BY <1>1, <2>1 DEF EndsInOrder
<1> QED
  BY <1>4, <1>5, <1>6, <1>7, <1>8

-----------------------------------------------------------------------------
\* What was printed.
LEMMA NothingPrinted == OneOutput(<<>>, 0, 0)
<1>1. DOMAIN <<>> = {} /\ 0 .. 0 - 1 = {}
  OBVIOUS
<1>2. ASSUME NEW kind PROVE InOrder(<<>>, kind, 0)
  <2>1. OfKind(<<>>, kind) = {}
    BY <1>1 DEF OfKind
  <2> QED
    BY <1>1, <2>1 DEF InOrder
<1> QED
  BY <1>1, <1>2 DEF OneOutput

LEMMA PrintedLater ==
    PrintedOfBase' <=> ((printed' # Absent /\ ~ BeginsAnew') =>
        OneOutput(printed', Cardinality(Keys(BaseTx')), Cardinality(Keys(BaseAddr'))))
BY DEF PrintedOfBase

\* A block on file that is done becomes part of what is on file.
LEMMA OutBlockBase ==
    ASSUME MainTypes, SInv, OutInv, OutBlock, OPTS.infile
    PROVE  /\ BaseTx = txdb0 /\ BaseAddr = addrdb0 /\ ~ BeginsAnew
           /\ BaseTx' = txdb /\ BaseAddr' = addrdb
           /\ COUNT.tx = Cardinality(Keys(txdb)) /\ COUNT.addr = Cardinality(Keys(addrdb))
           /\ IInv /\ NumbersAsSeen /\ IdsNext /\ pc = "resolved"
<1>1. /\ stage = "out" /\ InLoop /\ pc = "resolved" /\ pc' = "idle" /\ stage' = "loop"
      /\ UNCHANGED <<txdb, addrdb, txfile, addrfile>>
  BY DEF OutBlock, NextBlock, stores, files, InLoop
<1>2. IInv /\ NumbersAsSeen /\ IdsNext /\ OPTS.kv
  BY <1>1, OrderlyLoop
<1>3. OPTS'.infile = OPTS.infile /\ OPTS'.kv = OPTS.kv
  BY OnBlockKeeps DEF OnBlock
<1>4. BaseTx = txdb0 /\ BaseAddr = addrdb0 /\ ~ BeginsAnew
  BY <1>1 DEF BaseTx, BaseAddr, BlockOnFile, BeginsAnew
<1>5. BaseTx' = txdb /\ BaseAddr' = addrdb
  BY <1>1, <1>2, <1>3 DEF BaseTx, BaseAddr, BlockOnFile, TxKept, AddrKept, OnFile
<1> QED
  BY <1>1, <1>2, <1>4, <1>5 DEF IInv, CountsAgree

\* And its rows go on with what was printed of what was on file.
LEMMA OutBlockPrints ==
    ASSUME MainTypes, PrintedTypes, SInv, OutInv, OutBlock, OPTS.infile
    PROVE  PrintedOfBase' /\ printed_addrs' <= Cardinality(Keys(BaseAddr'))
<1>1. /\ BaseTx = txdb0 /\ BaseAddr = addrdb0 /\ ~ BeginsAnew
      /\ BaseTx' = txdb /\ BaseAddr' = addrdb
      /\ COUNT.tx = Cardinality(Keys(txdb)) /\ COUNT.addr = Cardinality(Keys(addrdb))
      /\ IInv /\ NumbersAsSeen /\ IdsNext /\ pc = "resolved"
  BY OutBlockBase
<1>2. printed_addrs \in Nat /\ (printed = Absent \/ printed \in Seq(Rows))
  BY DEF PrintedTypes
<1>3. printed_addrs <= AddrsBefore /\ (printed # Absent => OneOutput(printed, TxsBefore, AddrsBefore))
  BY <1>1 DEF OutInv, PrintedAddrs, PrintedOfBase, TxsBefore, AddrsBefore, OutBlock, InLoop
<1>4. /\ TxsBefore \in Nat /\ AddrsBefore \in Nat /\ AddrsBefore <= COUNT.addr
      /\ COUNT.addr \in U32 /\ COUNT.tx \in U32 /\ TxsBefore <= COUNT.tx
  BY <1>1, ResolvedIds DEF MainTypes, TypeOK
<1>5. OutRows.n <= COUNT.addr
  <2>1. 0 .. TxsBefore - 1 \subseteq U32 /\ 0 .. AddrsBefore - 1 \subseteq U32
    BY <1>4, MaxU32Assumption DEF U32
  <2>2. PICK P \in Seq(Rows) : OneOutput(P, TxsBefore, AddrsBefore)
    BY <1>4, <2>1, SomeOutput
  <2> QED
    BY <1>1, <1>2, <1>3, <2>2, PrintBlock
<1>6. printed_addrs' <= Cardinality(Keys(BaseAddr'))
  <2>1. printed_addrs' = OutRows.n \/ printed_addrs' = printed_addrs
    BY DEF OutBlock
  <2> QED
    BY <1>1, <1>2, <1>3, <1>4, <1>5, <2>1 DEF U32
<1>7. PrintedOfBase'
  <2> SUFFICES ASSUME printed' # Absent
               PROVE  OneOutput(printed', Cardinality(Keys(txdb)), Cardinality(Keys(addrdb)))
    BY <1>1, PrintedLater
  <2>1. printed # Absent /\ printed' = printed \o OutRows.rows
    BY DEF OutBlock
  <2> QED
    BY <1>1, <1>2, <1>3, <2>1, PrintBlock
<1> QED
  BY <1>6, <1>7

\* A session that begins anew, or on empty stores, has printed nothing yet.
LEMMA AcceptedPrints ==
    ASSUME MainTypes, SInv, OutInv, Orderly, AcceptStamp
    PROVE  PrintedOfBase'
<1>1. /\ stage = "stamp" /\ Based' = Based /\ OPTS'.infile = OPTS.infile /\ OPTS.kv
      /\ printed' = IF OPTS.infile /\ COUNT'.addr = 0 THEN <<>> ELSE printed
      /\ COUNT'.addr = Count(addrdb) /\ COUNT'.tx = Count(txdb)
  BY SetCacheKeepsBase DEF AcceptStamp, SInv, Phases, WithKv, MainTypes, OptionRecord
<1>2. Sized(txdb) /\ Sized(addrdb) /\ ~ OneIsEmpty
  BY <1>1 DEF SInv, SizesOK, OutInv, AlwaysTrusted
<1>3. CASE OPTS.infile /\ COUNT'.addr = 0
  <2>1. Count(addrdb) = 0 /\ Count(txdb) = 0
    BY <1>1, <1>2, <1>3 DEF OneIsEmpty
  <2>2. txdb = EmptyStore(TxHash) /\ addrdb = EmptyStore(AddrKey)
    BY <1>2, <2>1, NoKeys, ResolveAssumption DEF MainTypes, TypeOK
  <2>3. BaseTx' = EmptyStore(TxHash) /\ BaseAddr' = EmptyStore(AddrKey)
    BY <1>1, <1>3, <2>2 DEF Based, BaseTx, BaseAddr, BlockOnFile, InLoop, TxKept, AddrKept, OnFile
  <2>4. Cardinality(Keys(EmptyStore(TxHash))) = 0 /\ Cardinality(Keys(EmptyStore(AddrKey))) = 0
    BY EmptyStoreFacts
  <2>5. printed' = <<>>
    BY <1>1, <1>3
  <2> QED
    BY <2>3, <2>4, <2>5, NothingPrinted, PrintedLater
<1>4. CASE ~ (OPTS.infile /\ COUNT'.addr = 0)
  <2>1. printed' = printed
    BY <1>1, <1>4
  <2>2. ~ BeginsAnew
    <3>1. OPTS.infile /\ OPTS.from = 0 => Count(addrdb) = 0
      <4>1. Count(EmptyStore(AddrKey)) = 0
        BY EmptyCount, ResolveAssumption
      <4> QED
        BY <1>1, <4>1 DEF SInv, Accepted, FromScratch, NewStores, Orderly, CanFail
    <3> QED
      BY <1>1, <1>4, <3>1 DEF BeginsAnew, OnFile
  <2> QED
    BY <1>1, <2>1, <2>2, PrintedLater DEF OutInv, PrintedOfBase, Based
<1> QED
  BY <1>3, <1>4

\* All other steps leave what is on file, or clear it to begin anew.
LEMMA StepPrintedOfBase ==
    ASSUME MainTypes, PrintedTypes, SInv, OutInv, Orderly, [SessionNext]_svars
    PROVE  PrintedOfBase'
<1>1. CASE OutBlock /\ OPTS.infile
  BY <1>1, OutBlockPrints
<1>2. CASE AcceptStamp
  BY <1>2, AcceptedPrints
<1>3. CASE OutBlock /\ ~ OPTS.infile
  <2>1. /\ ~ OPTS'.infile /\ UNCHANGED <<txfile, addrfile>> /\ printed' = printed
    <3>1. OPTS'.infile = OPTS.infile /\ UNCHANGED <<txfile, addrfile>>
      BY <1>3, OnBlockKeeps DEF OnBlock, files
    <3> QED
      BY <1>3, <3>1 DEF OutBlock
  <2>2. Based' = Based /\ ~ BeginsAnew
    BY <1>3, <2>1 DEF Based, BaseTx, BaseAddr, BlockOnFile, TxKept, AddrKept, OnFile, BeginsAnew
  <2> QED
    BY <2>1, <2>2, PrintedLater DEF OutInv, PrintedOfBase, Based
<1>4. CASE ClearTx \/ ClearAddr
  <2>1. /\ OPTS' = OPTS /\ UNCHANGED <<txfile, addrfile, printed>> /\ OPTS.from = 0
        /\ stage \in {"clear_tx", "clear_addr"} /\ stage' \in {"clear_addr", "stamp"}
    BY <1>4 DEF ClearTx, ClearAddr, files, outvars, SInv, Accepted
  <2>2. CASE OnFile
    <3>1. BeginsAnew'
      BY <2>1, <2>2 DEF BeginsAnew, OnFile
    <3> QED
      BY <3>1, PrintedLater
  <2>3. CASE ~ OnFile
    <3>1. Based' = Based /\ ~ BeginsAnew
      BY <2>1, <2>3 DEF Based, BaseTx, BaseAddr, BlockOnFile, InLoop, TxKept, AddrKept, OnFile,
         BeginsAnew
    <3> QED
      BY <2>1, <3>1, PrintedLater DEF OutInv, PrintedOfBase, Based
  <2> QED
    BY <2>2, <2>3
<1>5. CASE ~ OutBlock /\ ~ AcceptStamp /\ ~ ClearTx /\ ~ ClearAddr
  <2>1. Based' = Based
    BY <1>5, BaseKept
  <2>2. ~ Abort /\ ~ Crash /\ ~ UpdateFails
    BY NoEnd
  <2>3. printed' = printed
    BY <1>5, <2>2
       DEF SessionNext, Process, SetCache, MainLoop, StopCache, Plain, Start, OpenStores,
       OpenFails, RefuseStores, AcceptStores, RefuseStamp, LoadBlock, LoadFails, ResolveStep,
       ResolveFails, NumDone, Update, CloseTx, CloseAddr, CloseStamp, PlainCache, PlainBlock,
       PlainEnds, outvars, main, svars
  <2>4. BeginsAnew => BeginsAnew'
    <3> SUFFICES ASSUME BeginsAnew PROVE UNCHANGED <<stage, OPTS>>
      BY DEF BeginsAnew, OnFile
    <3>1. ~ RefuseStamp
      BY DEF RefuseStamp, StampOK, StampRead, BeginsAnew
    <3>2. UNCHANGED svars
      BY <1>5, <2>2, <3>1
         DEF BeginsAnew, SessionNext, Process, SetCache, MainLoop, StopCache, Plain, Start,
         OpenStores, OpenFails, RefuseStores, AcceptStores, LoadBlock, LoadFails, ResolveStep,
         ResolveFails, NumDone, Update, CloseTx, CloseAddr, CloseStamp, PlainCache, PlainBlock,
         PlainEnds, Loop
    <3> QED
      BY <3>2 DEF svars, main
  <2> QED
    BY <2>1, <2>3, <2>4, PrintedLater DEF OutInv, PrintedOfBase, Based
<1> QED
  BY <1>1, <1>2, <1>3, <1>4, <1>5

LEMMA StepPrintedAddrs ==
    ASSUME MainTypes, MainTypes', PrintedTypes, SInv, OutInv, Orderly, [SessionNext]_svars
    PROVE  PrintedAddrs'
<1>0. /\ stage \in BeforeLoop \ {"off"} => printed_addrs = 0
      /\ InLoop /\ OPTS.infile => printed_addrs <= Cardinality(Keys(BaseAddr))
      /\ printed_addrs \in Nat
  BY DEF OutInv, PrintedAddrs, PrintedTypes
<1>1. stage' \in BeforeLoop \ {"off"} => printed_addrs' = 0
  <2>1. CASE Start
    BY <2>1 DEF Start
  <2>2. CASE ~ Start /\ stage' \in BeforeLoop \ {"off"}
    <3>1. stage \in BeforeLoop \ {"off"} /\ printed_addrs' = printed_addrs
      BY <2>2
         DEF SessionNext, Process, SetCache, MainLoop, StopCache, Plain, OpenStores, OpenFails,
         RefuseStores, AcceptStores, ClearTx, ClearAddr, RefuseStamp, AcceptStamp, LoadBlock,
         LoadFails, ResolveStep, ResolveFails, NumDone, Update, UpdateFails, OutBlock, CloseTx,
         CloseAddr, CloseStamp, Abort, Crash, Gone, PlainCache, PlainBlock, PlainEnds, BeforeLoop,
         Loop, outvars, main, svars
    <3> QED
      BY <1>0, <3>1
  <2> QED
    BY <2>1, <2>2
<1>2. InLoop' /\ OPTS'.infile => printed_addrs' <= Cardinality(Keys(BaseAddr'))
  <2> SUFFICES ASSUME InLoop', OPTS'.infile
               PROVE  printed_addrs' <= Cardinality(Keys(BaseAddr'))
    OBVIOUS
  <2>1. CASE OutBlock
    <3>1. OPTS.infile
      BY <2>1, OnBlockKeeps DEF OnBlock
    <3> QED
      BY <2>1, <3>1, OutBlockPrints
  <2>2. CASE AcceptStamp
    <3>1. printed_addrs' = 0
      BY <1>0, <2>2 DEF AcceptStamp, BeforeLoop
    <3>2. BaseAddr' \in Store(AddrKey)
      BY DEF BaseAddr, AddrKept, MainTypes, TypeOK
    <3>3. Cardinality(Keys(BaseAddr')) \in Nat
      BY <3>2, CountType, ResolveAssumption
    <3> QED
      BY <3>1, <3>3
  <2>3. CASE ~ OutBlock /\ ~ AcceptStamp
    <3>1. InLoop /\ OPTS' = OPTS /\ printed_addrs' = printed_addrs /\ ~ ClearTx /\ ~ ClearAddr
      BY <2>3
         DEF SessionNext, Process, SetCache, MainLoop, StopCache, Plain, Start, OpenStores,
         OpenFails, RefuseStores, AcceptStores, ClearTx, ClearAddr, RefuseStamp, LoadBlock,
         LoadFails, ResolveStep, ResolveFails, NumDone, Update, UpdateFails, CloseTx, CloseAddr,
         CloseStamp, Abort, Crash, Gone, PlainCache, PlainBlock, PlainEnds, InLoop,
         Loop, outvars, main, svars
    <3> QED
      BY <1>0, <2>3, <3>1, BaseKept DEF Based
  <2> QED
    BY <2>1, <2>2, <2>3
<1>3. Cardinality(Keys(BaseAddr))' = Cardinality(Keys(BaseAddr'))
  BY DEF Keys
<1> QED
  BY <1>1, <1>2, <1>3 DEF PrintedAddrs

LEMMA StepLoopIds ==
    ASSUME MainTypes, SInv, OutInv, Orderly, [SessionNext]_svars, InLoop'
    PROVE  IdsNext'
<1>1. CASE OnBlock
  <2>1. [Next]_vars /\ InLoop
    BY <1>1, OnBlockKeeps
  <2> QED
    BY <2>1, OrderlyLoop, StepIds
<1>2. CASE Around \/ UNCHANGED svars
  <2>1. [Next]_vars /\ InLoop
    BY <1>2, AroundKeeps DEF svars, main, InLoop
  <2> QED
    BY <2>1, OrderlyLoop, StepIds
<1>3. CASE AcceptStamp
  <2>1. pc' = "idle"
    BY <1>3 DEF AcceptStamp, SInv, Phases, BeforeLoop
  <2> QED
    BY <2>1 DEF IdsNext, Forward
<1>4. OnBlock \/ Around \/ UNCHANGED svars \/ AcceptStamp
  BY DEF SessionNext, Process, SetCache, MainLoop, StopCache, Plain, OnBlock, Around, Start,
     OpenStores, OpenFails, RefuseStores, AcceptStores, ClearTx, ClearAddr, RefuseStamp,
     CloseStamp, Abort, Crash, Gone, PlainCache, PlainBlock, PlainEnds, InLoop
<1> QED
  BY <1>1, <1>2, <1>3, <1>4

LEMMA StepOutInv ==
    MainTypes /\ MainTypes' /\ PrintedTypes /\ SInv /\ OutInv /\ Orderly /\ [SessionNext]_svars
        => OutInv'
BY StepAlwaysTrusted, StepEndsInOrder, StepPrintedOfBase, StepPrintedAddrs, StepLoopIds
   DEF OutInv

LEMMA InitOut == SessionInit => OutInv
<1> SUFFICES ASSUME SessionInit PROVE OutInv
  OBVIOUS
<1>1. /\ stage = "off" /\ pc = "idle" /\ ~ file_open /\ truestamp /\ crashes = 0
      /\ txfile = EmptyStore(TxHash) /\ addrfile = EmptyStore(AddrKey) /\ printed = <<>>
  BY DEF SessionInit, InitWith
<1>2. BaseTx = EmptyStore(TxHash) /\ BaseAddr = EmptyStore(AddrKey) /\ ~ InLoop
  BY <1>1 DEF BaseTx, BaseAddr, BlockOnFile, TxKept, AddrKept, InLoop
<1>3. AlwaysTrusted /\ EndsInOrder
  BY <1>1, <1>2 DEF AlwaysTrusted, EndsInOrder, BaseEmpty
<1>4. Cardinality(Keys(EmptyStore(TxHash))) = 0 /\ Cardinality(Keys(EmptyStore(AddrKey))) = 0
  BY EmptyStoreFacts
<1>5. PrintedOfBase /\ PrintedAddrs
  BY <1>1, <1>2, <1>4, NothingPrinted DEF PrintedOfBase, PrintedAddrs
<1> QED
  BY <1>2, <1>3, <1>5 DEF OutInv

\* In orderly runs, what was printed is always of the stores on file without the
\* block in hand, and the counter of out_addr() is never ahead of the ids.
THEOREM OutInvCorrect == Orderly /\ SessionSpec => []OutInv
<1> SUFFICES ASSUME Orderly PROVE SessionSpec => []OutInv
  OBVIOUS
<1>1. SessionInit => OutInv
  BY InitOut
<1>2. MainTypes /\ MainTypes' /\ PrintedTypes /\ SInv /\ OutInv /\ [SessionNext]_svars => OutInv'
  BY StepOutInv
<1>3. SessionSpec => [](MainTypes /\ SInv)
  BY SessionInductive
<1>4. SessionSpec => []PrintedTypes
  BY SessionTypeCorrect, PTL DEF SessionTypeOK
<1> QED
  BY <1>1, <1>2, <1>3, <1>4, PTL DEF SessionSpec

\* Over all the sessions on the same stores, in each of which any part of the
\* chain is printed and any block may fail, out_bk() prints one output: every
\* transaction and address once, in the order of the ids, before it is named.
THEOREM OutputRefersCorrect == Orderly /\ SessionSpec => []OutputRefers
<1>1. MainTypes /\ SInv /\ OutInv => OutputRefers
  <2> SUFFICES ASSUME MainTypes, SInv, OutInv, stage = "loop", pc = "idle", OPTS.infile,
                      printed # Absent
               PROVE  OneOutput(printed, COUNT.tx, COUNT.addr)
    BY DEF OutputRefers
  <2>1. IInv /\ OPTS.kv
    BY OrderlyLoop DEF InLoop
  <2>2. BaseTx = txdb /\ BaseAddr = addrdb /\ ~ BeginsAnew
    BY <2>1 DEF BaseTx, BaseAddr, BlockOnFile, TxKept, AddrKept, OnFile, BeginsAnew
  <2> QED
    BY <2>1, <2>2 DEF OutInv, PrintedOfBase, IInv, CountsAgree
<1> QED
  BY <1>1, OutInvCorrect, SessionInductive, PTL
=============================================================================
