---------------------------- MODULE AddressProofs ----------------------------
(***************************************************************************)
(* Proofs about the addresses that Parse finds and prints: addr_decode()   *)
(* finds the owner that a script names, as_key() tells owners apart, and   *)
(* so has every output that is parsed the key of its owner; and a wallet   *)
(* reads in what repr() prints, in base58 and in bech32, what was found.   *)
(***************************************************************************)
EXTENDS ParseProofs, ScriptForms, Printing
LOCAL INSTANCE SequencesExt
W == INSTANCE WellFoundedInduction

\* A set that has the first number, and with a number the next, has them all.
Below == {ss \in Nat \X Nat : ss[1] < ss[2]}

LEMMA Induct ==
    ASSUME NEW S, 0 \in S, \A n \in Nat : n \in S => n + 1 \in S
    PROVE  Nat \subseteq S
<1> SUFFICES ASSUME Nat \ S # {} PROVE FALSE
    OBVIOUS
<1>1. W!IsWellFoundedOn(Below, Nat)
    BY W!NatLessThanWellFounded DEF W!OpToRel, Below
<1>2. PICK x \in Nat \ S : \A y \in Nat \ S : ~ (<<y, x>> \in Below)
    BY <1>1, W!WFMin
<1>3. x # 0 /\ x - 1 \in Nat /\ x - 1 < x /\ (x - 1) + 1 = x
    OBVIOUS
<1>4. x - 1 \in S
    BY <1>2, <1>3 DEF Below
<1> QED  BY <1>3, <1>4

-----------------------------------------------------------------------------
\* addr_decode() reads the memory m, that the script s begins.
Holds(m, s) == /\ s \in Seq(Octets) /\ m \in Seq(Octets) /\ Len(s) <= Len(m)
               /\ \A k \in 1 .. Len(s) : m[k] = s[k]

LEMMA SameCut ==
    ASSUME NEW m, NEW s, Holds(m, s), NEW p \in Nat, NEW n \in Nat, p + n <= Len(s)
    PROVE  Bytes(m, p, n) = SubSeq(s, p + 1, p + n)
<1>1. Len(s) \in Nat /\ Len(m) \in Nat
    BY DEF Holds
<1>2. \A i \in 1 .. n : m[i + (p + 1) - 1] = s[i + (p + 1) - 1]
    <2> TAKE i \in 1 .. n
    <2>1. i + (p + 1) - 1 \in 1 .. Len(s)
        BY <1>1
    <2> QED  BY <2>1 DEF Holds
<1>3. 1 + (p + n) - (p + 1) = n
    OBVIOUS
<1>4. SubSeq(m, p + 1, p + n) = [i \in 1 .. n |-> m[i + (p + 1) - 1]]
    BY <1>3
<1>5. SubSeq(s, p + 1, p + n) = [i \in 1 .. n |-> s[i + (p + 1) - 1]]
    BY <1>3
<1> QED  BY <1>2, <1>4, <1>5 DEF Bytes

LEMMA SameBytes ==
    ASSUME NEW m, NEW s, Holds(m, s), NEW p, NEW n, p \in Nat, n \in Nat, p + n <= Len(s),
           NEW a, a = p + 1, NEW b, b = p + n
    PROVE  Bytes(m, p, n) = SubSeq(s, a, b)
BY SameCut

LEMMA CutOut ==
    ASSUME NEW s \in Seq(Octets), NEW p \in Nat, NEW q \in Nat, q <= Len(s), p <= q
    PROVE  /\ Len(SubSeq(s, p + 1, q)) = q - p
           /\ \A i \in 1 .. q - p : SubSeq(s, p + 1, q)[i] = s[p + i]
<1>1. 1 + q - (p + 1) = q - p /\ q - p \in Nat
    OBVIOUS
<1>2. SubSeq(s, p + 1, q) = [i \in 1 .. q - p |-> s[i + (p + 1) - 1]]
    BY <1>1
<1>3. \A i \in 1 .. q - p : i + (p + 1) - 1 = p + i
    OBVIOUS
<1> QED  BY <1>1, <1>2, <1>3

\* A key is pushed from p to q.
LEMMA PushedIs ==
    ASSUME NEW m, NEW s, Holds(m, s), NEW p \in Nat, NEW q \in Nat, q <= Len(s),
           Pushed(s, p, q)
    PROVE  /\ IsKey(m, p) /\ NextKey(m, p) = q /\ q - p \in {34, 66}
           /\ KeyHash(m, p) = Hash160(KeyFrom(s, p, q))
<1> DEFINE k == KeyFrom(s, p, q)
<1>1. /\ k \in Seq(Octets) /\ s[p + 1] = q - p - 1
      /\ \/ Len(k) = 65 /\ k[1] \in {4, 6, 7}
         \/ Len(k) = 33 /\ k[1] \in {2, 3}
    BY DEF Pushed, IsPubKey
<1>2. p + 1 <= q
    <2>1. k = [i \in 1 .. 1 + q - (p + 2) |-> s[i + (p + 2) - 1]]
        BY DEF KeyFrom
    <2>2. p + 1 > q => 1 .. 1 + q - (p + 2) = {}
        OBVIOUS
    <2>3. DOMAIN k = 1 .. Len(k)
        BY <1>1
    <2>4. 1 \in DOMAIN k
        BY <1>1, <2>3
    <2>5. DOMAIN k = 1 .. 1 + q - (p + 2)
        BY <2>1
    <2> HIDE DEF k
    <2> QED  BY <2>2, <2>4, <2>5
<1>3. Len(k) = q - (p + 1) /\ \A i \in 1 .. q - (p + 1) : k[i] = s[(p + 1) + i]
    <2>1. s \in Seq(Octets) /\ p + 1 \in Nat /\ (p + 1) + 1 = p + 2
        BY DEF Holds
    <2> QED  BY <1>2, <2>1, CutOut DEF KeyFrom
<1> HIDE DEF k
<1>4. q - (p + 1) \in {33, 65} /\ 1 \in 1 .. q - (p + 1) /\ (p + 1) + 1 = p + 2
    BY <1>1, <1>3
<1>5. k[1] = s[p + 2] /\ m[p + 1] = s[p + 1] /\ m[p + 2] = s[p + 2]
    <2>1. p + 1 \in 1 .. Len(s) /\ p + 2 \in 1 .. Len(s)
        BY <1>4 DEF Holds
    <2> QED  BY <1>3, <1>4, <2>1 DEF Holds
<1>6. m[p + 1] = q - (p + 1) /\ q - p - 1 = q - (p + 1)
    BY <1>1, <1>5
<1>7. IsKey(m, p)
    BY <1>1, <1>3, <1>4, <1>5, <1>6 DEF IsKey, PKuPrefix, PKcPrefix
<1>8. KeyHash(m, p) = Hash160(KeyFrom(s, p, q))
    <2> DEFINE r == p + 1  l == q - r
    <2> DEFINE x == p + 2
    <2>1. r \in Nat /\ l \in Nat /\ x = r + 1 /\ q = r + l /\ r + l <= Len(s)
        BY <1>2
    <2> HIDE DEF r, l, x
    <2>3. Bytes(m, r, l) = SubSeq(s, r + 1, r + l)
        BY <2>1, SameCut
    <2>2. Bytes(m, r, l) = SubSeq(s, p + 2, q)
        BY <2>1, <2>3 DEF x
    <2> QED  BY <1>6, <2>2 DEF KeyHash, KeyFrom, r, l
<1> QED  BY <1>4, <1>6, <1>7, <1>8 DEF NextKey

-----------------------------------------------------------------------------
\* The forms without a list of keys.
LEMMA EndBytes ==
    ASSUME NEW m, NEW s, Holds(m, s)
    PROVE  \A k \in Nat : 1 <= k /\ k <= Len(s) => m[k] = s[k] /\ s[k] \in Octets
BY DEF Holds

LEMMA BeginsWithKey ==
    ASSUME NEW m, NEW n, n \in {35, 67}, m[1] \in {33, 65}
    PROVE  Decode(m, n) = PubKey(m, n)
<1> USE DEF Decode, OP_0, OP_1, OP_16, OP_RETURN, OP_DUP, OP_HASH160
<1>1. CASE n = 35 /\ m[1] = 33
    BY <1>1
<1>2. CASE n = 35 /\ m[1] = 65
    BY <1>2
<1>3. CASE n = 67 /\ m[1] = 33
    BY <1>3
<1>4. CASE n = 67 /\ m[1] = 65
    BY <1>4
<1> QED  BY <1>1, <1>2, <1>3, <1>4

LEMMA KeyDecoded ==
    ASSUME NEW m, NEW s, Holds(m, s), PayKey(s)
    PROVE  Decode(m, Len(s)) = Addr("pubkey", <<Hash160(KeyFrom(s, 0, Len(s) - 1))>>)
<1> DEFINE n == Len(s)
<1>1. n \in Nat /\ n > 2 /\ Pushed(s, 0, n - 1) /\ s[n] = OP_CHECKSIG
    BY DEF PayKey, Holds
<1>2. /\ IsKey(m, 0) /\ n - 1 - 0 \in {34, 66}
      /\ KeyHash(m, 0) = Hash160(KeyFrom(s, 0, n - 1))
    <2> DEFINE p == 0
    <2>1. p \in Nat /\ n - 1 \in Nat /\ n - 1 <= Len(s) /\ Pushed(s, p, n - 1)
        BY <1>1
    <2> HIDE DEF p
    <2>2. /\ IsKey(m, p) /\ n - 1 - p \in {34, 66}
          /\ KeyHash(m, p) = Hash160(KeyFrom(s, p, n - 1))
        BY <2>1, PushedIs
    <2> QED  BY <2>2 DEF p
<1>3. s[1] = n - 2
    <2>1. s[0 + 1] = n - 1 - 0 - 1
        BY <1>1 DEF Pushed
    <2> QED  BY <1>1, <2>1
<1>4. m[1] = s[1] /\ m[n] = s[n]
    BY <1>1, EndBytes
<1> HIDE DEF n
<1>5. n > 21 /\ m[1] \in {33, 65} /\ n = m[1] + 2 /\ m[n] = OP_CHECKSIG
    BY <1>1, <1>2, <1>3, <1>4
<1>6. PubKey(m, n) = Addr("pubkey", <<KeyHash(m, 0)>>)
    BY <1>2, <1>5 DEF PubKey
<1>8. n \in {35, 67}
    BY <1>5
<1>7. Decode(m, n) = PubKey(m, n)
    BY <1>5, <1>8, BeginsWithKey
<1> QED  BY <1>2, <1>6, <1>7 DEF n

LEMMA KeyHashDecoded ==
    ASSUME NEW m, NEW s, Holds(m, s), PayKeyHash(s)
    PROVE  Decode(m, Len(s)) = Addr("pubkeyhash", <<SubSeq(s, 4, 23)>>)
<1>1. /\ Len(s) = 25 /\ m[1] = OP_DUP /\ m[2] = OP_HASH160 /\ m[3] = 20
      /\ m[24] = OP_EQUALVERIFY /\ m[25] = OP_CHECKSIG
    BY EndBytes DEF PayKeyHash
<1>2. Bytes(m, 3, 20) = SubSeq(s, 4, 23)
    <2> DEFINE p == 3  n == 20
    <2> DEFINE a == 4  b == 23
    <2>1. p \in Nat /\ n \in Nat /\ p + n <= Len(s) /\ a = p + 1 /\ b = p + n
        BY <1>1
    <2> HIDE DEF p, n, a, b
    <2>2. Bytes(m, p, n) = SubSeq(s, a, b)
        BY <2>1, SameBytes
    <2> QED  BY <2>2 DEF p, n, a, b
<1>3. Decode(m, 25) = PubKeyHash(m, 25)
    BY <1>1 DEF Decode, OP_0, OP_1, OP_16, OP_RETURN, OP_DUP, OP_HASH160
<1> QED  BY <1>1, <1>2, <1>3 DEF PubKeyHash

LEMMA ScriptHashDecoded ==
    ASSUME NEW m, NEW s, Holds(m, s), PayScriptHash(s)
    PROVE  Decode(m, Len(s)) = Addr("scripthash", <<SubSeq(s, 3, 22)>>)
<1>1. Len(s) = 23 /\ m[1] = OP_HASH160 /\ m[2] = 20 /\ m[23] = OP_EQUAL
    <2>1. Len(s) = 23 /\ s[1] = OP_HASH160 /\ s[2] = 20 /\ s[23] = OP_EQUAL
        BY DEF PayScriptHash
    <2>2. m[1] = s[1] /\ m[2] = s[2] /\ m[23] = s[23]
        BY <2>1 DEF Holds
    <2> QED  BY <2>1, <2>2
<1>2. Bytes(m, 2, 20) = SubSeq(s, 3, 22)
    <2> DEFINE p == 2  n == 20
    <2> DEFINE a == 3  b == 22
    <2>1. p \in Nat /\ n \in Nat /\ p + n <= Len(s) /\ a = p + 1 /\ b = p + n
        BY <1>1
    <2> HIDE DEF p, n, a, b
    <2>2. Bytes(m, p, n) = SubSeq(s, a, b)
        BY <2>1, SameBytes
    <2> QED  BY <2>2 DEF p, n, a, b
<1>3. Decode(m, 23) = ScriptHash(m, 23)
    BY <1>1 DEF Decode, OP_0, OP_1, OP_16, OP_RETURN, OP_DUP, OP_HASH160
<1> QED  BY <1>1, <1>2, <1>3 DEF ScriptHash

LEMMA WitnessDecoded ==
    ASSUME NEW m, NEW s, Holds(m, s), NEW n \in {20, 32}, PayWitness(s, n)
    PROVE  Decode(m, Len(s)) =
              Addr(IF n = 20 THEN "witness_v0_keyhash" ELSE "witness_v0_scripthash",
                   <<SubSeq(s, 3, n + 2)>>)
<1>1. Len(s) = n + 2 /\ m[1] = OP_0 /\ m[2] = n
    BY EndBytes DEF PayWitness
<1>2. Bytes(m, 2, n) = SubSeq(s, 3, n + 2)
    <2> DEFINE p == 2
    <2>1. p \in Nat /\ n \in Nat /\ p + n <= Len(s) /\ 3 = p + 1 /\ n + 2 = p + n
        BY <1>1
    <2> HIDE DEF p
    <2>2. Bytes(m, p, n) = SubSeq(s, 3, n + 2)
        BY <2>1, SameBytes
    <2> QED  BY <2>2 DEF p
<1>3. Decode(m, n + 2) = Witness(m, n + 2)
    BY <1>1 DEF Decode, OP_0, OP_1, OP_16, OP_RETURN, OP_DUP, OP_HASH160
<1>4. CASE n = 20
    BY <1>1, <1>2, <1>3, <1>4 DEF Witness
<1>5. CASE n = 32
    BY <1>1, <1>2, <1>3, <1>5 DEF Witness
<1> QED  BY <1>4, <1>5

-----------------------------------------------------------------------------
\* The places of keys, as MultiSig() goes from one to the next.
Chain16(m, at) == /\ at[0] = 1
                  /\ \A i \in 1 .. 16 : at[i] = NextKey(m, at[i - 1])

LEMMA ChainExists ==
    ASSUME NEW m
    PROVE  \E at : at = [i \in 0 .. 16 |-> IF i = 0 THEN 1 ELSE NextKey(m, at[i - 1])]
<1> DEFINE Good(f, n) == f[0] = 1 /\ \A i \in 1 .. n : f[i] = NextKey(m, f[i - 1])
           S == {n \in Nat : \E f : Good(f, n)}
<1>1. 0 \in S
    <2>1. Good([i \in {0} |-> 1], 0)
        OBVIOUS
    <2> QED  BY <2>1
<1>2. ASSUME NEW n \in Nat, n \in S PROVE n + 1 \in S
    <2>1. PICK f : Good(f, n)
        BY <1>2
    <2> DEFINE x == NextKey(m, f[n])
               g == [i \in 0 .. n + 1 |-> IF i = n + 1 THEN x ELSE f[i]]
    <2>2. /\ \A i \in 0 .. n : g[i] = f[i]
          /\ g[n + 1] = x
        OBVIOUS
    <2> HIDE DEF g
    <2>3. g[n + 1] = NextKey(m, g[n])
        BY <2>2
    <2>4. ASSUME NEW i \in 1 .. n + 1 PROVE g[i] = NextKey(m, g[i - 1])
        <3>1. CASE i = n + 1
            <4>1. i - 1 = n
                BY <3>1
            <4> QED  BY <2>3, <3>1, <4>1
        <3>2. CASE i # n + 1
            <4>1. i \in 1 .. n /\ i \in 0 .. n /\ i - 1 \in 0 .. n
                BY <3>2
            <4> QED  BY <2>1, <2>2, <4>1
        <3> QED  BY <3>1, <3>2
    <2>5. Good(g, n + 1)
        BY <2>1, <2>2, <2>4
    <2> HIDE DEF Good
    <2> QED  BY <2>5
<1>3. 16 \in S
    <2>1. Nat \subseteq S
        <3> HIDE DEF S
        <3> QED  BY <1>1, <1>2, Induct
    <2> QED  BY <2>1
<1>4. PICK f : Good(f, 16)
    BY <1>3
<1> DEFINE h == [i \in 0 .. 16 |-> f[i]]
<1>5. \A i \in 1 .. 16 : h[i] = NextKey(m, h[i - 1])
    <2> TAKE i \in 1 .. 16
    <2>1. i \in 0 .. 16 /\ i - 1 \in 0 .. 16
        OBVIOUS
    <2> QED  BY <1>4, <2>1
<1>6. h[0] = 1 /\ h = [i \in 0 .. 16 |-> h[i]]
    BY <1>4
<1> HIDE DEF h
<1>7. \A i \in 0 .. 16 : h[i] = IF i = 0 THEN 1 ELSE NextKey(m, h[i - 1])
    BY <1>5, <1>6
<1>8. h = [i \in 0 .. 16 |-> IF i = 0 THEN 1 ELSE NextKey(m, h[i - 1])]
    BY <1>6, <1>7
<1> QED  BY <1>8

\* Where it stops: at the i-th place.
AtEnd(m, n, at, i)  == i = m[n - 1] - (OP_1 - 1) \/ at[i] >= n - 2
StopsAt(m, n, at, i) ==
    /\ i \in 0 .. m[n - 1] - (OP_1 - 1)
    /\ AtEnd(m, n, at, i) \/ ~IsKey(m, at[i])
    /\ \A j \in 0 .. i - 1 : ~AtEnd(m, n, at, j) /\ IsKey(m, at[j])

LEMMA MultiSigIs ==
    ASSUME NEW m, NEW n, m[n] = OP_CHKMULTISIG, m[1] <= m[n - 1], m[n - 1] <= OP_16
    PROVE  \E at : /\ Chain16(m, at)
                  /\ LET last == CHOOSE i \in 0 .. m[n - 1] - (OP_1 - 1) :
                                    StopsAt(m, n, at, i)
                     IN  MultiSig(m, n) =
                           IF AtEnd(m, n, at, last)
                             THEN Addr("multisig",
                                       [i \in 1 .. last |-> KeyHash(m, at[i - 1])])
                             ELSE NoAddress
<1> DEFINE Def(f) == f = [i \in 0 .. 16 |-> IF i = 0 THEN 1 ELSE NextKey(m, f[i - 1])]
           at == CHOOSE f : Def(f)
           qty == m[n - 1] - (OP_1 - 1)
           R(i) == /\ AtEnd(m, n, at, i) \/ ~IsKey(m, at[i])
                   /\ \A j \in 0 .. i - 1 : ~AtEnd(m, n, at, j) /\ IsKey(m, at[j])
           last == CHOOSE i \in 0 .. qty : R(i)
           stop == CHOOSE i \in 0 .. qty : StopsAt(m, n, at, i)
<1>1. Def(at)
    BY ChainExists
<1>2. MultiSig(m, n) =
        IF m[n] = OP_CHKMULTISIG /\ m[1] <= m[n - 1] /\ m[n - 1] <= OP_16
          THEN IF AtEnd(m, n, at, last)
                 THEN Addr("multisig",
                           [i \in 1 .. last |-> KeyHash(m, at[i - 1])])
                 ELSE NoAddress
          ELSE NoAddress
    BY DEF MultiSig, AtEnd
<1> HIDE DEF at
<1>3. at[0] = 1 /\ \A i \in 1 .. 16 : at[i] = NextKey(m, at[i - 1])
    BY <1>1
<1>4. last = stop
    <2>1. \A i \in 0 .. qty : R(i) <=> StopsAt(m, n, at, i)
        BY DEF StopsAt
    <2> HIDE DEF R, qty
    <2> QED  BY <2>1
<1> HIDE DEF last
<1> QED  BY <1>2, <1>3, <1>4 DEF Chain16

\* As far as the places f of s go, so do those of MultiSig().
LEMMA FollowsKeys ==
    ASSUME NEW m, NEW s, Holds(m, s), NEW at, Chain16(m, at), NEW f \in Seq(Nat),
           Len(f) \in 1 .. 17, KeysAt(s, f)
    PROVE  /\ \A i \in 0 .. Len(f) - 1 : at[i] = f[i + 1]
           /\ \A i \in 0 .. Len(f) - 2 :
                 /\ IsKey(m, at[i]) /\ at[i] \in Nat /\ at[i] < Len(s) - 2
                 /\ KeyHash(m, at[i]) = Hash160(KeyFrom(s, f[i + 1], f[i + 2]))
<1> DEFINE N == Len(f)
           S == {i \in Nat : i <= N - 1 => at[i] = f[i + 1]}
<1>1. N \in Nat /\ N >= 1 /\ N <= 17 /\ Len(s) \in Nat /\ DOMAIN f = 1 .. N
    <2>1. s \in Seq(Octets)
        BY DEF Holds
    <2>2. Len(s) \in Nat
        BY <2>1
    <2>3. DOMAIN f = 1 .. N
        OBVIOUS
    <2>4. N \in 1 .. 17
        OBVIOUS
    <2> HIDE DEF N
    <2> QED  BY <2>2, <2>3, <2>4
<1>2. ASSUME NEW i \in Nat, i <= N - 2
      PROVE  /\ IsKey(m, f[i + 1]) /\ NextKey(m, f[i + 1]) = f[i + 2]
             /\ f[i + 1] \in Nat /\ f[i + 1] < Len(s) - 2
             /\ KeyHash(m, f[i + 1]) = Hash160(KeyFrom(s, f[i + 1], f[i + 2]))
    <2> DEFINE p == f[i + 1]  q == f[i + 2]
    <2>1. /\ i + 1 \in 1 .. N - 1 /\ i + 1 \in 1 .. N
          /\ i + 2 \in 1 .. N /\ (i + 1) + 1 = i + 2
        BY <1>1, <1>2
    <2>2. p \in Nat /\ q \in Nat
        BY <2>1
    <2>3. q <= Len(s) - 2 /\ Pushed(s, p, q)
        BY <2>1 DEF KeysAt
    <2> HIDE DEF p, q
    <2>4. q <= Len(s)
        BY <1>1, <2>2, <2>3
    <2>5. /\ IsKey(m, p) /\ NextKey(m, p) = q /\ q - p \in {34, 66}
          /\ KeyHash(m, p) = Hash160(KeyFrom(s, p, q))
        BY <2>2, <2>3, <2>4, PushedIs
    <2>6. p < Len(s) - 2
        BY <1>1, <2>2, <2>3, <2>5
    <2> QED  BY <2>2, <2>5, <2>6 DEF p, q
<1>3. 0 \in S
    BY DEF Chain16, KeysAt
<1>4. ASSUME NEW i \in Nat, i \in S PROVE i + 1 \in S
    <2> SUFFICES ASSUME i + 1 <= N - 1 PROVE at[i + 1] = f[(i + 1) + 1]
        OBVIOUS
    <2>1. i <= N - 2 /\ i <= N - 1 /\ i + 1 \in 1 .. 16 /\ (i + 1) - 1 = i
          /\ (i + 1) + 1 = i + 2
        BY <1>1
    <2>2. at[i] = f[i + 1] /\ at[i + 1] = NextKey(m, at[i])
        BY <1>4, <2>1 DEF Chain16
    <2> QED  BY <1>2, <2>1, <2>2
<1>5. \A i \in Nat : i \in S
    <2> HIDE DEF S
    <2> QED  BY <1>3, <1>4, Induct
<1>6. \A i \in 0 .. N - 1 : at[i] = f[i + 1]
    BY <1>1, <1>5
<1>7. ASSUME NEW i \in 0 .. N - 2
      PROVE  /\ IsKey(m, at[i]) /\ at[i] \in Nat /\ at[i] < Len(s) - 2
             /\ KeyHash(m, at[i]) = Hash160(KeyFrom(s, f[i + 1], f[i + 2]))
    <2>1. i \in Nat /\ i <= N - 2 /\ i \in 0 .. N - 1
        BY <1>1
    <2>2. at[i] = f[i + 1]
        BY <1>6, <2>1
    <2> QED  BY <1>2, <2>1, <2>2
<1> QED  BY <1>6, <1>7

\* There is one place where it stops.
LEMMA StopsOnce ==
    ASSUME NEW m, NEW n, NEW at, NEW k \in Nat, StopsAt(m, n, at, k),
           m[n - 1] \in Int
    PROVE  (CHOOSE i \in 0 .. m[n - 1] - (OP_1 - 1) : StopsAt(m, n, at, i)) = k
<1> DEFINE D == 0 .. m[n - 1] - (OP_1 - 1)
<1>1. k \in D
    BY DEF StopsAt
<1>2. ASSUME NEW i \in D, StopsAt(m, n, at, i) PROVE i = k
    <2>1. i \in Nat
        OBVIOUS
    <2>2. CASE i < k
        BY <1>2, <2>1, <2>2 DEF StopsAt
    <2>3. CASE k < i
        BY <1>2, <2>1, <2>3 DEF StopsAt
    <2> QED  BY <2>1, <2>2, <2>3
<1> DEFINE c == CHOOSE i \in D : StopsAt(m, n, at, i)
<1> HIDE DEF D
<1>3. c \in D /\ StopsAt(m, n, at, c)
    BY <1>1
<1>4. c = k
    <2> HIDE DEF c
    <2> QED  BY <1>2, <1>3
<1> QED  BY <1>4 DEF D

LEMMA ManyCase ==
    ASSUME NEW m, NEW n \in Nat, n > 21, NEW k \in OP_1 .. OP_16, m[1] = k
    PROVE  Decode(m, n) = MultiSig(m, n)
BY DEF Decode, OP_0, OP_1, OP_16, OP_RETURN, OP_DUP, OP_HASH160

\* What is read of a script with a list of keys.
LEMMA ManyBytes ==
    ASSUME NEW m, NEW s, Holds(m, s), Len(s) > 21, OfMany(s)
    PROVE  /\ Len(s) \in Nat /\ Decode(m, Len(s)) = MultiSig(m, Len(s))
           /\ m[Len(s)] = OP_CHKMULTISIG /\ m[1] <= m[Len(s) - 1]
           /\ m[Len(s) - 1] <= OP_16 /\ m[Len(s) - 1] = s[Len(s) - 1]
           /\ m[Len(s) - 1] \in OP_1 .. OP_16
<1> DEFINE n == Len(s)
<1>1. n \in Nat /\ n > 21 /\ n - 1 \in 1 .. n /\ n \in 1 .. n /\ 1 \in 1 .. n
    BY DEF Holds
<1>2. m[1] = s[1] /\ m[n - 1] = s[n - 1] /\ m[n] = s[n] /\ s[n - 1] \in Octets
    BY <1>1 DEF Holds
<1>3. /\ s[1] \in OP_1 .. OP_16 /\ s[n] = OP_CHKMULTISIG
      /\ s[1] <= s[n - 1] /\ s[n - 1] <= OP_16
    BY DEF OfMany
<1> HIDE DEF n
<1>4. Decode(m, n) = MultiSig(m, n)
    BY <1>1, <1>2, <1>3, ManyCase
<1>5. s[n - 1] \in OP_1 .. OP_16
    <2> DEFINE x == s[n - 1]  y == s[1]
    <2>1. x \in 0 .. 255 /\ y \in 81 .. 96 /\ y <= x /\ x <= 96
        BY <1>2, <1>3 DEF OP_1, OP_16, Octets
    <2> HIDE DEF x, y
    <2>2. x \in 81 .. 96
        BY <2>1
    <2> QED  BY <2>2 DEF x, OP_1, OP_16
<1> QED  BY <1>1, <1>2, <1>3, <1>4, <1>5 DEF n

LEMMA ManyDecoded ==
    ASSUME NEW m, NEW s, Holds(m, s), NEW f, PayMany(s, f)
    PROVE  Decode(m, Len(s)) = Addr("multisig", KeyHashes(s, f))
<1> DEFINE n == Len(s)  k == Len(f) - 1
<1>1. /\ n > 21 /\ OfMany(s) /\ KeysAt(s, f) /\ f \in Seq(Nat) /\ Len(f) > 1
      /\ s[n - 1] = OP_1 + Len(f) - 2
    BY DEF PayMany
<1>2. /\ n \in Nat /\ Decode(m, n) = MultiSig(m, n)
      /\ m[n] = OP_CHKMULTISIG /\ m[1] <= m[n - 1] /\ m[n - 1] <= OP_16
      /\ m[n - 1] = s[n - 1] /\ m[n - 1] \in OP_1 .. OP_16
    BY <1>1, ManyBytes
<1>3. k \in Nat /\ k \in 1 .. 16 /\ Len(f) \in 1 .. 17 /\ m[n - 1] - (OP_1 - 1) = k
      /\ Len(f) - 2 = k - 1
    <2> DEFINE x == m[n - 1]  y == Len(f)
    <2>1. x \in 81 .. 96 /\ x = 81 + y - 2 /\ y \in Nat /\ y > 1
        BY <1>1, <1>2 DEF OP_1, OP_16
    <2> HIDE DEF x, y
    <2>2. /\ y - 1 \in Nat /\ y - 1 \in 1 .. 16 /\ y \in 1 .. 17
          /\ x - (81 - 1) = y - 1 /\ y - 2 = (y - 1) - 1
        BY <2>1
    <2> QED  BY <2>2 DEF x, y, OP_1
<1>4. PICK at : /\ Chain16(m, at)
                /\ LET last == CHOOSE i \in 0 .. m[n - 1] - (OP_1 - 1) :
                                  StopsAt(m, n, at, i)
                   IN  MultiSig(m, n) =
                         IF AtEnd(m, n, at, last)
                           THEN Addr("multisig",
                                     [i \in 1 .. last |-> KeyHash(m, at[i - 1])])
                           ELSE NoAddress
    BY <1>2, MultiSigIs
<1>5. \A i \in 0 .. k - 1 :
         /\ IsKey(m, at[i]) /\ at[i] \in Nat /\ at[i] < n - 2
         /\ KeyHash(m, at[i]) = Hash160(KeyFrom(s, f[i + 1], f[i + 2]))
    <2>1. Len(f) \in 1 .. 17 /\ KeysAt(s, f) /\ f \in Seq(Nat) /\ Chain16(m, at)
        BY <1>1, <1>3, <1>4
    <2> HIDE DEF n, k
    <2>2. \A i \in 0 .. Len(f) - 2 :
             /\ IsKey(m, at[i]) /\ at[i] \in Nat /\ at[i] < Len(s) - 2
             /\ KeyHash(m, at[i]) = Hash160(KeyFrom(s, f[i + 1], f[i + 2]))
        BY <2>1, FollowsKeys
    <2> QED  BY <1>3, <2>2 DEF n
<1> HIDE DEF n, k
<1>6. StopsAt(m, n, at, k)
    <2>1. \A j \in 0 .. k - 1 : j # k /\ ~ (at[j] >= n - 2)
        BY <1>2, <1>3, <1>5
    <2> QED  BY <1>3, <1>5, <2>1 DEF StopsAt, AtEnd
<1>7. (CHOOSE i \in 0 .. m[n - 1] - (OP_1 - 1) : StopsAt(m, n, at, i)) = k
    <2>1. m[n - 1] \in Int
        BY <1>2 DEF OP_1, OP_16
    <2> QED  BY <1>3, <1>6, <2>1, StopsOnce
<1>8. AtEnd(m, n, at, k)
    BY <1>3 DEF AtEnd
<1>9. MultiSig(m, n) = Addr("multisig", [i \in 1 .. k |-> KeyHash(m, at[i - 1])])
    BY <1>4, <1>7, <1>8
<1>10. \A i \in 1 .. k : KeyHash(m, at[i - 1]) = Hash160(KeyFrom(s, f[i], f[i + 1]))
    <2> TAKE i \in 1 .. k
    <2>1. i - 1 \in 0 .. k - 1 /\ (i - 1) + 1 = i /\ (i - 1) + 2 = i + 1
        BY <1>3
    <2> QED  BY <1>5, <2>1
<1>11. KeyHashes(s, f) = [i \in 1 .. k |-> Hash160(KeyFrom(s, f[i], f[i + 1]))]
    BY DEF KeyHashes, k
<1>12. KeyHashes(s, f) = [i \in 1 .. k |-> KeyHash(m, at[i - 1])]
    BY <1>10, <1>11
<1> QED  BY <1>2, <1>9, <1>12 DEF n

LEMMA BadKeyDecoded ==
    ASSUME NEW m, NEW s, Holds(m, s), NEW f, Len(s) > 21, OfMany(s), BadKey(s, f)
    PROVE  Decode(m, Len(s)) = NoAddress
<1> DEFINE n == Len(s)  k == Len(f) - 1
<1>1. /\ KeysAt(s, f) /\ f \in Seq(Nat) /\ Len(f) > 0
      /\ Len(f) <= s[n - 1] - OP_1 + 1
      /\ f[Len(f)] < n - 2 /\ NotAKey(s, f[Len(f)])
    BY DEF BadKey
<1>2. /\ n \in Nat /\ Decode(m, n) = MultiSig(m, n)
      /\ m[n] = OP_CHKMULTISIG /\ m[1] <= m[n - 1] /\ m[n - 1] <= OP_16
      /\ m[n - 1] = s[n - 1] /\ m[n - 1] \in OP_1 .. OP_16
    BY <1>1, ManyBytes
<1> DEFINE qty == m[n - 1] - (OP_1 - 1)
<1>3. k \in Nat /\ Len(f) \in 1 .. 17 /\ k < qty /\ qty \in 1 .. 16
      /\ Len(f) - 2 = k - 1 /\ k + 1 = Len(f)
    <2> DEFINE x == m[n - 1]  y == Len(f)
    <2>1. x \in 81 .. 96 /\ y <= x - 81 + 1 /\ y \in Nat /\ y > 0
        BY <1>1, <1>2 DEF OP_1, OP_16
    <2> HIDE DEF x, y
    <2>2. /\ y - 1 \in Nat /\ y \in 1 .. 17 /\ y - 1 < x - (81 - 1)
          /\ x - (81 - 1) \in 1 .. 16 /\ y - 2 = (y - 1) - 1 /\ (y - 1) + 1 = y
        BY <2>1
    <2> QED  BY <2>2 DEF x, y, OP_1
<1>4. PICK at : /\ Chain16(m, at)
                /\ LET last == CHOOSE i \in 0 .. m[n - 1] - (OP_1 - 1) :
                                  StopsAt(m, n, at, i)
                   IN  MultiSig(m, n) =
                         IF AtEnd(m, n, at, last)
                           THEN Addr("multisig",
                                     [i \in 1 .. last |-> KeyHash(m, at[i - 1])])
                           ELSE NoAddress
    BY <1>2, MultiSigIs
<1>5. /\ \A i \in 0 .. k - 1 : IsKey(m, at[i]) /\ at[i] \in Nat /\ at[i] < n - 2
      /\ at[k] = f[Len(f)]
    <2>1. Len(f) \in 1 .. 17 /\ KeysAt(s, f) /\ f \in Seq(Nat) /\ Chain16(m, at)
        BY <1>1, <1>3, <1>4
    <2>2. k \in 0 .. Len(f) - 1
        BY <1>3
    <2> HIDE DEF n, k, qty
    <2>3. /\ \A i \in 0 .. Len(f) - 1 : at[i] = f[i + 1]
          /\ \A i \in 0 .. Len(f) - 2 :
                IsKey(m, at[i]) /\ at[i] \in Nat /\ at[i] < Len(s) - 2
        BY <2>1, FollowsKeys
    <2>4. at[k] = f[k + 1]
        BY <2>2, <2>3
    <2> QED  BY <1>3, <2>3, <2>4 DEF n
<1>6. at[k] \in Nat /\ at[k] < n - 2
    <2>1. Len(f) \in DOMAIN f
        BY <1>1, <1>3
    <2> QED  BY <1>1, <1>5, <2>1
<1>7. ~IsKey(m, at[k])
    <2> DEFINE p == at[k]
    <2>1. p + 1 \in 1 .. Len(s) /\ p + 2 \in 1 .. Len(s)
        BY <1>2, <1>6
    <2> HIDE DEF p
    <2>2. m[p + 1] = s[p + 1] /\ m[p + 2] = s[p + 2]
        BY <2>1 DEF Holds
    <2>3. NotAKey(s, p)
        BY <1>1, <1>5 DEF p
    <2>4. ~IsKey(m, p)
        BY <2>2, <2>3 DEF NotAKey, IsKey, PKuPrefix, PKcPrefix
    <2> QED  BY <2>4 DEF p
<1> HIDE DEF n, k
<1>8. StopsAt(m, n, at, k)
    <2>1. \A j \in 0 .. k - 1 : j # qty /\ ~ (at[j] >= n - 2)
        BY <1>2, <1>3, <1>5
    <2> QED  BY <1>3, <1>5, <1>7, <2>1 DEF StopsAt, AtEnd
<1>9. (CHOOSE i \in 0 .. m[n - 1] - (OP_1 - 1) : StopsAt(m, n, at, i)) = k
    <2>1. m[n - 1] \in Int
        BY <1>2 DEF OP_1, OP_16
    <2> QED  BY <1>3, <1>8, <2>1, StopsOnce
<1>10. ~AtEnd(m, n, at, k)
    BY <1>2, <1>3, <1>6 DEF AtEnd
<1> QED  BY <1>2, <1>4, <1>9, <1>10 DEF n

-----------------------------------------------------------------------------
\* The hashes hs one after another, up to the i-th one.
Flat(hs, i) == [k \in 1 .. 20 * i |-> hs[((k - 1) \div 20) + 1][((k - 1) % 20) + 1]]

LEMMA Divided ==
    ASSUME NEW i \in Nat, NEW k \in Int, 20 * i < k, k <= 20 * i + 20
    PROVE  (k - 1) \div 20 = i /\ (k - 1) % 20 = k - 1 - 20 * i
OBVIOUS

LEMMA HashIs ==
    ASSUME NEW n \in Nat, NEW h \in Hash(n)
    PROVE  h \in Seq(Octets) /\ Len(h) = n
BY DEF Hash

LEMMA FlatType ==
    ASSUME NEW hs \in Seq(Hash(20)), NEW i \in Nat, i <= Len(hs)
    PROVE  Flat(hs, i) \in Seq(Octets) /\ Len(Flat(hs, i)) = 20 * i
<1>1. ASSUME NEW k \in 1 .. 20 * i
      PROVE  hs[((k - 1) \div 20) + 1][((k - 1) % 20) + 1] \in Octets
    <2> DEFINE a == ((k - 1) \div 20) + 1  c == ((k - 1) % 20) + 1
    <2>1. a \in 1 .. i /\ c \in 1 .. 20
        OBVIOUS
    <2>2. a \in 1 .. Len(hs)
        BY <2>1
    <2> HIDE DEF a, c
    <2>3. hs[a] \in Hash(20)
        BY <2>2
    <2>4. hs[a][c] \in Octets
        BY <2>1, <2>3 DEF Hash
    <2> QED  BY <2>4 DEF a, c
<1>2. 20 * i \in Nat
    OBVIOUS
<1> DEFINE n == 20 * i
<1>3. Flat(hs, i) = [k \in 1 .. n |-> hs[((k - 1) \div 20) + 1][((k - 1) % 20) + 1]]
    BY DEF Flat
<1>4. Flat(hs, i) \in [1 .. n -> Octets]
    BY <1>1, <1>3
<1> HIDE DEF n
<1> QED  BY <1>2, <1>4 DEF n

LEMMA FlatNext ==
    ASSUME NEW hs \in Seq(Hash(20)), NEW i \in Nat, i + 1 <= Len(hs)
    PROVE  Flat(hs, i + 1) = Flat(hs, i) \o hs[i + 1]
<1> DEFINE s == Flat(hs, i)  t == hs[i + 1]  u == Flat(hs, i + 1)
<1>1. s \in Seq(Octets) /\ Len(s) = 20 * i /\ u \in Seq(Octets) /\ Len(u) = 20 * i + 20
    <2>1. i + 1 \in Nat /\ i <= Len(hs) /\ 20 * (i + 1) = 20 * i + 20
        OBVIOUS
    <2> QED  BY <2>1, FlatType
<1>2. t \in Seq(Octets) /\ Len(t) = 20
    <2>1. t \in Hash(20)
        OBVIOUS
    <2> DEFINE n == 20
    <2>2. n \in Nat /\ t \in Hash(n)
        BY <2>1
    <2> HIDE DEF t, n
    <2>3. t \in Seq(Octets) /\ Len(t) = n
        BY <2>2, HashIs
    <2> QED  BY <2>3 DEF n
<1>3. /\ s \o t \in Seq(Octets) /\ Len(s \o t) = 20 * i + 20
      /\ \A k \in 1 .. 20 * i + 20 :
            (s \o t)[k] = IF k <= 20 * i THEN s[k] ELSE t[k - 20 * i]
    <2> HIDE DEF s, t, u
    <2>1. /\ s \o t \in Seq(Octets) /\ Len(s \o t) = Len(s) + Len(t)
          /\ \A k \in 1 .. Len(s) + Len(t) :
                (s \o t)[k] = IF k <= Len(s) THEN s[k] ELSE t[k - Len(s)]
        BY <1>1, <1>2, ConcatProperties
    <2> QED  BY <1>1, <1>2, <2>1
<1>4. ASSUME NEW k \in 1 .. 20 * i + 20
      PROVE  u[k] = (s \o t)[k]
    <2>1. u[k] = hs[((k - 1) \div 20) + 1][((k - 1) % 20) + 1]
        <3>1. 20 * (i + 1) = 20 * i + 20
            OBVIOUS
        <3> QED  BY <3>1 DEF Flat
    <2>2. CASE k <= 20 * i
        <3>1. k \in 1 .. 20 * i
            BY <2>2
        <3>2. s[k] = hs[((k - 1) \div 20) + 1][((k - 1) % 20) + 1]
            BY <3>1 DEF Flat
        <3> HIDE DEF s, t, u
        <3> QED  BY <1>3, <2>1, <2>2, <3>2
    <2>3. CASE 20 * i < k
        <3>1. (k - 1) \div 20 = i /\ (k - 1) % 20 = k - 1 - 20 * i
            <4>1. k \in Int /\ k <= 20 * i + 20
                OBVIOUS
            <4> QED  BY <2>3, <4>1, Divided
        <3>2. ((k - 1) \div 20) + 1 = i + 1 /\ ((k - 1) % 20) + 1 = k - 20 * i
            BY <3>1
        <3>3. u[k] = t[k - 20 * i]
            BY <2>1, <3>2
        <3>4. ~ (k <= 20 * i)
            BY <2>3
        <3> HIDE DEF s, t, u
        <3> QED  BY <1>3, <3>3, <3>4
    <2>4. k <= 20 * i \/ 20 * i < k
        OBVIOUS
    <2> HIDE DEF s, t, u
    <2> QED  BY <2>2, <2>3, <2>4
<1> HIDE DEF s, t, u
<1>5. u = s \o t
    BY <1>1, <1>3, <1>4, SeqEqual
<1> QED  BY <1>5 DEF s, t, u

LEMMA FlatOne ==
    ASSUME NEW hs \in Seq(Hash(20)), Len(hs) > 0
    PROVE  Flat(hs, 1) = hs[1]
<1>1. hs[1] \in Hash(20)
    OBVIOUS
<1>2. \A k \in 1 .. 20 : ((k - 1) \div 20) + 1 = 1 /\ ((k - 1) % 20) + 1 = k
    OBVIOUS
<1>3. Flat(hs, 1) = [k \in 1 .. 20 |-> hs[((k - 1) \div 20) + 1][((k - 1) % 20) + 1]]
    <2>1. 20 * 1 = 20
        OBVIOUS
    <2> QED  BY <2>1 DEF Flat
<1>4. Flat(hs, 1) = [k \in 1 .. 20 |-> hs[1][k]]
    BY <1>2, <1>3
<1>5. hs[1] = [k \in 1 .. 20 |-> hs[1][k]]
    BY <1>1 DEF Hash
<1> QED  BY <1>4, <1>5

LEMMA FlattenIs ==
    ASSUME NEW hs \in Seq(Hash(20)), Len(hs) > 0
    PROVE  FlattenSeq(hs) = Flat(hs, Len(hs))
<1> DEFINE N == Len(hs)
           Def(f) == f = [i \in 1 .. N |-> IF i = 1 THEN hs[i] ELSE f[i - 1] \o hs[i]]
           c == CHOOSE f : Def(f)
           g == [i \in 1 .. N |-> Flat(hs, i)]
<1>1. N \in Nat /\ N > 0
    OBVIOUS
<1>2. Def(g)
    <2> SUFFICES ASSUME NEW i \in 1 .. N
                 PROVE  Flat(hs, i) = IF i = 1 THEN hs[i] ELSE g[i - 1] \o hs[i]
        OBVIOUS
    <2>1. CASE i = 1
        BY <2>1, FlatOne
    <2>2. CASE i # 1
        <3>1. /\ i - 1 \in Nat /\ i - 1 \in 1 .. N
              /\ (i - 1) + 1 = i /\ (i - 1) + 1 <= Len(hs)
            BY <2>2
        <3>2. Flat(hs, (i - 1) + 1) = Flat(hs, i - 1) \o hs[(i - 1) + 1]
            BY <3>1, FlatNext
        <3> QED  BY <2>2, <3>1, <3>2
    <2> QED  BY <2>1, <2>2
<1>3. Def(c)
    BY <1>2
<1>4. FlattenSeq(hs) = c[N]
    BY <1>1 DEF FlattenSeq
<1> HIDE DEF c
<1>5. \A i \in 1 .. N : c[i] = IF i = 1 THEN hs[i] ELSE c[i - 1] \o hs[i]
    BY <1>3
<1> DEFINE S == {n \in Nat : n + 1 <= N => c[n + 1] = Flat(hs, n + 1)}
<1>6. 0 \in S
    <2>1. 1 \in 1 .. N
        BY <1>1
    <2> QED  BY <1>5, <2>1, FlatOne
<1>7. ASSUME NEW n \in Nat, n \in S PROVE n + 1 \in S
    <2> SUFFICES ASSUME (n + 1) + 1 <= N PROVE c[(n + 1) + 1] = Flat(hs, (n + 1) + 1)
        OBVIOUS
    <2> DEFINE i == n + 1
    <2>1. i \in Nat /\ i + 1 <= N /\ i + 1 \in 1 .. N /\ i + 1 # 1 /\ (i + 1) - 1 = i
          /\ n + 1 <= N
        BY <1>1
    <2>2. c[i] = Flat(hs, i)
        BY <1>7, <2>1
    <2> HIDE DEF i
    <2>3. c[i + 1] = c[i] \o hs[i + 1]
        BY <1>5, <2>1
    <2>4. Flat(hs, i + 1) = Flat(hs, i) \o hs[i + 1]
        BY <2>1, FlatNext
    <2> QED  BY <2>2, <2>3, <2>4 DEF i
<1>8. N - 1 \in S
    <2>1. Nat \subseteq S
        <3> HIDE DEF S
        <3> QED  BY <1>6, <1>7, Induct
    <2>2. N - 1 \in Nat
        BY <1>1
    <2> HIDE DEF S
    <2> QED  BY <2>1, <2>2
<1>9. c[N] = Flat(hs, N)
    <2>1. (N - 1) + 1 = N
        BY <1>1
    <2> QED  BY <1>8, <2>1
<1> QED  BY <1>4, <1>9

\* Hashes that are joined can be told apart again.
LEMMA FlattenTells ==
    ASSUME NEW hs \in Seq(Hash(20)), Len(hs) > 0,
           NEW gs \in Seq(Hash(20)), Len(gs) > 0
    PROVE  /\ FlattenSeq(hs) \in Seq(Octets) /\ Len(FlattenSeq(hs)) = 20 * Len(hs)
           /\ FlattenSeq(hs) = FlattenSeq(gs) => hs = gs
<1> DEFINE N == Len(hs)
<1>1. /\ FlattenSeq(hs) = Flat(hs, Len(hs)) /\ FlattenSeq(gs) = Flat(gs, Len(gs))
      /\ Flat(hs, Len(hs)) \in Seq(Octets) /\ Len(Flat(hs, Len(hs))) = 20 * Len(hs)
      /\ Len(Flat(gs, Len(gs))) = 20 * Len(gs)
    BY FlattenIs, FlatType
<1>2. SUFFICES ASSUME Flat(hs, Len(hs)) = Flat(gs, Len(gs)) PROVE hs = gs
    BY <1>1
<1>3. Len(gs) = N /\ N \in Nat
    <2>1. 20 * Len(gs) = 20 * N /\ N \in Nat /\ Len(gs) \in Nat
        BY <1>1, <1>2
    <2> QED  BY <2>1
<1>4. Flat(hs, N) = Flat(gs, N)
    BY <1>2, <1>3
<1>5. ASSUME NEW i \in 1 .. N, NEW j \in 1 .. 20 PROVE hs[i][j] = gs[i][j]
    <2> DEFINE k == 20 * (i - 1) + j
    <2>1. k \in 1 .. 20 * N /\ k \in Int /\ i - 1 \in Nat
          /\ 20 * (i - 1) < k /\ k <= 20 * (i - 1) + 20 /\ k - 1 - 20 * (i - 1) + 1 = j
        BY <1>3
    <2> HIDE DEF k
    <2>2. (k - 1) \div 20 = i - 1 /\ (k - 1) % 20 = k - 1 - 20 * (i - 1)
        BY <2>1, Divided
    <2>3. ((k - 1) \div 20) + 1 = i /\ ((k - 1) % 20) + 1 = j
        BY <2>1, <2>2
    <2>4. Flat(hs, N)[k] = hs[i][j] /\ Flat(gs, N)[k] = gs[i][j]
        BY <2>1, <2>3 DEF Flat
    <2> QED  BY <1>4, <2>4
<1>6. ASSUME NEW i \in 1 .. N PROVE hs[i] = gs[i]
    <2>1. hs[i] \in Hash(20) /\ gs[i] \in Hash(20)
        BY <1>3
    <2> DEFINE h == hs[i]  g == gs[i]
    <2> DEFINE n == 20
    <2>2. n \in Nat /\ h \in Hash(n) /\ g \in Hash(n)
        BY <2>1
    <2>3. \A j \in 1 .. n : h[j] = g[j]
        BY <1>5
    <2> HIDE DEF h, g, n
    <2>4. h = g
        BY <2>2, <2>3, HashIs, SeqEqual
    <2> QED  BY <2>4 DEF h, g
<1> QED  BY <1>3, <1>6, SeqEqual

-----------------------------------------------------------------------------
\* The owners, and the key that each is known by.
Single    == {"key", "script", "wkey"} \X Hash(20)
Joint     == {o \in {"keys"} \X Seq(Hash(20)) : Len(o[2]) > 1}
AllOwners == Single \cup ({"wscript"} \X Hash(32)) \cup Joint
Mark(kind) == CASE kind = "key"    -> KEY_0
                [] kind = "script" -> KEY_S
                [] kind = "wkey"   -> KEY_W
KeyOf(o) == IF o[1] \in {"key", "script", "wkey"} THEN <<Mark(o[1])>> \o o[2]
            ELSE IF o[1] = "wscript" THEN o[2] ELSE FlattenSeq(o[2])

LEMMA OneJoined == ASSUME NEW h PROVE FlattenSeq(<<h>>) = h
<1> DEFINE hs == <<h>>
           Def(f) == f = [i \in 1 .. 1 |-> IF i = 1 THEN hs[i] ELSE f[i - 1] \o hs[i]]
           c == CHOOSE f : Def(f)
<1>1. Len(hs) = 1 /\ hs[1] = h
    OBVIOUS
<1>2. FlattenSeq(hs) = c[1]
    <2> HIDE DEF hs
    <2> QED  BY <1>1 DEF FlattenSeq
<1>3. Def([i \in {1} |-> h])
    <2>1. 1 .. 1 = {1}
        OBVIOUS
    <2> QED  BY <1>1, <2>1
<1>4. Def(c)
    BY <1>3
<1> HIDE DEF c
<1>5. c[1] = hs[1]
    BY <1>4
<1> QED  BY <1>1, <1>2, <1>5

LEMMA Marked ==
    ASSUME NEW c \in Octets, NEW h \in Hash(20)
    PROVE  LET k == <<c>> \o h
           IN  /\ k \in Seq(Octets) /\ Len(k) = 21 /\ k[1] = c
               /\ \A j \in 1 .. 20 : k[j + 1] = h[j]
<1> DEFINE n == 20  t == <<c>>
<1>1. h \in Seq(Octets) /\ Len(h) = n
    <2>1. n \in Nat /\ h \in Hash(n)
        OBVIOUS
    <2> HIDE DEF n
    <2> QED  BY <2>1, HashIs
<1>2. t \in Seq(Octets) /\ Len(t) = 1 /\ t[1] = c
    OBVIOUS
<1> HIDE DEF t
<1>3. /\ t \o h \in Seq(Octets) /\ Len(t \o h) = Len(t) + Len(h)
      /\ \A i \in 1 .. Len(t) + Len(h) :
            (t \o h)[i] = IF i <= Len(t) THEN t[i] ELSE h[i - Len(t)]
    BY <1>1, <1>2, ConcatProperties
<1> DEFINE k == t \o h
<1> HIDE DEF k
<1>4. k \in Seq(Octets) /\ Len(k) = 21 /\ k[1] = c
    BY <1>1, <1>2, <1>3 DEF k
<1>5. ASSUME NEW j \in 1 .. 20 PROVE k[j + 1] = h[j]
    <2>1. j + 1 \in 1 .. Len(t) + Len(h) /\ ~ (j + 1 <= Len(t)) /\ (j + 1) - Len(t) = j
        BY <1>1, <1>2
    <2> QED  BY <1>3, <2>1 DEF k
<1> QED  BY <1>4, <1>5 DEF k, t

LEMMA MarkIs == Mark("key") = 0 /\ Mark("script") = 1 /\ Mark("wkey") = 2
BY DEF Mark, KEY_0, KEY_S, KEY_W

\* Keys tell owners apart.
LEMMA KeyOfSingle ==
    ASSUME NEW o \in Single
    PROVE  /\ o[1] \in {"key", "script", "wkey"} /\ o[2] \in Hash(20)
           /\ o = <<o[1], o[2]>> /\ Len(KeyOf(o)) = 21 /\ KeyOf(o)[1] = Mark(o[1])
           /\ \A j \in 1 .. 20 : KeyOf(o)[j + 1] = o[2][j]
<1>1. o[1] \in {"key", "script", "wkey"} /\ o[2] \in Hash(20) /\ o = <<o[1], o[2]>>
    BY DEF Single
<1>2. KeyOf(o) = <<Mark(o[1])>> \o o[2]
    BY <1>1 DEF KeyOf
<1>3. Mark(o[1]) \in Octets
    BY <1>1, MarkIs DEF Octets
<1> DEFINE c == Mark(o[1])  h == o[2]
<1> HIDE DEF c, h
<1>4. LET k == <<c>> \o h
      IN  /\ k \in Seq(Octets) /\ Len(k) = 21 /\ k[1] = c
          /\ \A j \in 1 .. 20 : k[j + 1] = h[j]
    BY <1>1, <1>3, Marked DEF c, h
<1> QED  BY <1>1, <1>2, <1>4 DEF c, h

LEMMA KeyOfOther ==
    ASSUME NEW o \in AllOwners, o \notin Single
    PROVE  \/ /\ o[1] = "wscript" /\ o[2] \in Hash(32) /\ o = <<o[1], o[2]>>
              /\ KeyOf(o) = o[2] /\ Len(KeyOf(o)) = 32
           \/ /\ o[1] = "keys" /\ o[2] \in Seq(Hash(20))
              /\ Len(o[2]) \in Nat /\ Len(o[2]) > 1 /\ o = <<o[1], o[2]>>
              /\ KeyOf(o) = FlattenSeq(o[2]) /\ Len(KeyOf(o)) = 20 * Len(o[2])
<1>1. CASE o \in {"wscript"} \X Hash(32)
    <2>1. o[1] = "wscript" /\ o[2] \in Hash(32) /\ o = <<o[1], o[2]>>
        BY <1>1
    <2>2. KeyOf(o) = o[2]
        BY <2>1 DEF KeyOf
    <2>3. Len(o[2]) = 32
        <3> DEFINE n == 32  h == o[2]
        <3>1. n \in Nat /\ h \in Hash(n)
            BY <2>1
        <3> HIDE DEF n, h
        <3>2. Len(h) = n
            BY <3>1, HashIs
        <3> QED  BY <3>2 DEF n, h
    <2> QED  BY <2>1, <2>2, <2>3
<1>2. CASE o \in Joint
    <2>1. /\ o[1] = "keys" /\ o[2] \in Seq(Hash(20)) /\ Len(o[2]) > 1
          /\ o = <<o[1], o[2]>> /\ Len(o[2]) \in Nat
        BY <1>2 DEF Joint
    <2>2. KeyOf(o) = FlattenSeq(o[2])
        BY <2>1 DEF KeyOf
    <2>3. Len(o[2]) > 0
        BY <2>1
    <2>4. Len(FlattenSeq(o[2])) = 20 * Len(o[2])
        <3> DEFINE hs == o[2]
        <3>1. hs \in Seq(Hash(20)) /\ Len(hs) > 0
            BY <2>1, <2>3
        <3> HIDE DEF hs
        <3>2. Len(FlattenSeq(hs)) = 20 * Len(hs)
            BY <3>1, FlattenTells
        <3> QED  BY <3>2 DEF hs
    <2> QED  BY <2>1, <2>2, <2>4
<1> QED  BY <1>1, <1>2 DEF AllOwners

LEMMA KeysTell ==
    ASSUME NEW o \in AllOwners, NEW p \in AllOwners, KeyOf(o) = KeyOf(p)
    PROVE  o = p
<1>1. CASE o \in Single /\ p \in Single
    <2>1. /\ o[2] \in Hash(20) /\ p[2] \in Hash(20)
          /\ o = <<o[1], o[2]>> /\ p = <<p[1], p[2]>> /\ Mark(o[1]) = Mark(p[1])
          /\ o[1] \in {"key", "script", "wkey"} /\ p[1] \in {"key", "script", "wkey"}
        BY <1>1, KeyOfSingle
    <2>2. \A j \in 1 .. 20 : o[2][j] = p[2][j]
        BY <1>1, KeyOfSingle
    <2>3. o[1] = p[1]
        BY <2>1, MarkIs
    <2> DEFINE h == o[2]  g == p[2]  n == 20
    <2>4. n \in Nat /\ h \in Hash(n) /\ g \in Hash(n) /\ \A j \in 1 .. n : h[j] = g[j]
        BY <2>1, <2>2
    <2> HIDE DEF h, g, n
    <2>5. h = g
        BY <2>4, HashIs, SeqEqual
    <2> QED  BY <2>1, <2>3, <2>5 DEF h, g
<1>2. CASE o \in Single /\ p \notin Single
    <2>1. Len(KeyOf(o)) = 21
        BY <1>2, KeyOfSingle
    <2>2. Len(KeyOf(p)) = 32 \/ \E n \in Nat : Len(KeyOf(p)) = 20 * n
        BY <1>2, KeyOfOther
    <2>3. \A n \in Nat : 20 * n # 21
        OBVIOUS
    <2> QED  BY <2>1, <2>2, <2>3
<1>3. CASE o \notin Single /\ p \in Single
    <2>1. Len(KeyOf(p)) = 21
        BY <1>3, KeyOfSingle
    <2>2. Len(KeyOf(o)) = 32 \/ \E n \in Nat : Len(KeyOf(o)) = 20 * n
        BY <1>3, KeyOfOther
    <2>3. \A n \in Nat : 20 * n # 21
        OBVIOUS
    <2> QED  BY <2>1, <2>2, <2>3
<1>4. CASE o \notin Single /\ p \notin Single
    <2>1. \A n \in Nat : 20 * n # 32
        OBVIOUS
    <2>2. CASE o[1] = "wscript" /\ p[1] = "wscript"
        BY <1>4, <2>2, KeyOfOther
    <2>3. CASE o[1] = "wscript" /\ p[1] = "keys"
        BY <1>4, <2>1, <2>3, KeyOfOther
    <2>4. CASE o[1] = "keys" /\ p[1] = "wscript"
        BY <1>4, <2>1, <2>4, KeyOfOther
    <2>5. CASE o[1] = "keys" /\ p[1] = "keys"
        <3> DEFINE hs == o[2]  gs == p[2]
        <3>1. /\ hs \in Seq(Hash(20)) /\ Len(hs) > 1
              /\ gs \in Seq(Hash(20)) /\ Len(gs) > 1
              /\ o = <<o[1], hs>> /\ p = <<p[1], gs>> /\ FlattenSeq(hs) = FlattenSeq(gs)
            BY <1>4, <2>5, KeyOfOther
        <3> HIDE DEF hs, gs
        <3>2. Len(hs) > 0 /\ Len(gs) > 0
            BY <3>1
        <3>3. hs = gs
            BY <3>1, <3>2, FlattenTells
        <3> QED  BY <2>5, <3>1, <3>3
    <2>6. o[1] \in {"wscript", "keys"} /\ p[1] \in {"wscript", "keys"}
        BY <1>4, KeyOfOther
    <2> QED  BY <2>2, <2>3, <2>4, <2>5, <2>6
<1> QED  BY <1>1, <1>2, <1>3, <1>4

StandsFor(a, o) ==
    \/ /\ o \in {"key"} \X Hash(20)
       /\ \/ a = Addr("pubkey", <<o[2]>>) \/ a = Addr("pubkeyhash", <<o[2]>>)
          \/ a = Addr("multisig", <<o[2]>>)
    \/ o \in {"script"} \X Hash(20) /\ a = Addr("scripthash", <<o[2]>>)
    \/ o \in {"wkey"} \X Hash(20) /\ a = Addr("witness_v0_keyhash", <<o[2]>>)
    \/ o \in {"wscript"} \X Hash(32) /\ a = Addr("witness_v0_scripthash", <<o[2]>>)
    \/ o \in Joint /\ a = Addr("multisig", o[2])
Reaches(a, o) ==
    IsFull(a) /\ AsKey(a) = KeyOf(o) /\ o \in AllOwners /\ StandsFor(a, o)

LEMMA ReachesKey ==
    ASSUME NEW o \in {"key"} \X Hash(20), NEW a,
           \/ a = Addr("pubkey", <<o[2]>>) \/ a = Addr("pubkeyhash", <<o[2]>>)
           \/ a = Addr("multisig", <<o[2]>>)
    PROVE  Reaches(a, o)
<1>1. o[1] = "key" /\ o \in AllOwners
    BY DEF AllOwners, Single
<1>2. KeyOf(o) = <<KEY_0>> \o o[2]
    BY <1>1 DEF KeyOf, Mark
<1>3. IsFull(a) /\ AsKey(a) = <<KEY_0>> \o o[2]
    <2>1. Len(<<o[2]>>) = 1 /\ <<o[2]>>[1] = o[2]
        OBVIOUS
    <2> QED  BY <2>1 DEF IsFull, AsKey, Addr, NoAddress
<1>4. StandsFor(a, o)
    BY DEF StandsFor
<1> QED  BY <1>1, <1>2, <1>3, <1>4 DEF Reaches

LEMMA ReachesScript ==
    ASSUME NEW o \in {"script"} \X Hash(20)
    PROVE  Reaches(Addr("scripthash", <<o[2]>>), o)
<1>1. o[1] = "script" /\ o \in AllOwners
    BY DEF AllOwners, Single
<1>2. KeyOf(o) = <<KEY_S>> \o o[2]
    BY <1>1 DEF KeyOf, Mark
<1>4. StandsFor(Addr("scripthash", <<o[2]>>), o)
    BY DEF StandsFor
<1> QED  BY <1>1, <1>2, <1>4 DEF IsFull, AsKey, Addr, NoAddress, Reaches

LEMMA ReachesWKey ==
    ASSUME NEW o \in {"wkey"} \X Hash(20)
    PROVE  Reaches(Addr("witness_v0_keyhash", <<o[2]>>), o)
<1>1. o[1] = "wkey" /\ o \in AllOwners
    BY DEF AllOwners, Single
<1>2. KeyOf(o) = <<KEY_W>> \o o[2]
    BY <1>1 DEF KeyOf, Mark
<1>4. StandsFor(Addr("witness_v0_keyhash", <<o[2]>>), o)
    BY DEF StandsFor
<1> QED  BY <1>1, <1>2, <1>4 DEF IsFull, AsKey, Addr, NoAddress, Reaches

LEMMA ReachesWScript ==
    ASSUME NEW o \in {"wscript"} \X Hash(32)
    PROVE  Reaches(Addr("witness_v0_scripthash", <<o[2]>>), o)
<1>1. o[1] = "wscript" /\ o \in AllOwners
    BY DEF AllOwners
<1>2. KeyOf(o) = o[2]
    BY <1>1 DEF KeyOf
<1>3. FlattenSeq(<<o[2]>>) = o[2]
    BY OneJoined
<1>4. StandsFor(Addr("witness_v0_scripthash", <<o[2]>>), o)
    BY DEF StandsFor
<1> QED  BY <1>1, <1>2, <1>3, <1>4 DEF IsFull, AsKey, Addr, NoAddress, Reaches

LEMMA ReachesKeys ==
    ASSUME NEW o \in {"keys"} \X Seq(Hash(20)), Len(o[2]) > 1
    PROVE  Reaches(Addr("multisig", o[2]), o)
<1>1. o[1] = "keys" /\ o \in AllOwners
    BY DEF AllOwners, Joint
<1>2. KeyOf(o) = FlattenSeq(o[2])
    BY <1>1 DEF KeyOf
<1>3. Len(o[2]) # 1 /\ o[2] # <<>>
    OBVIOUS
<1>4. StandsFor(Addr("multisig", o[2]), o)
    BY DEF StandsFor, Joint
<1> QED  BY <1>1, <1>2, <1>3, <1>4 DEF IsFull, AsKey, Addr, NoAddress, Reaches

\* addr_decode() finds the owner that a script names.
LEMMA OwnerFound ==
    ASSUME NEW m, NEW s, Holds(m, s), NEW f, NEW o, Names(s, o, f)
    PROVE  Reaches(Decode(m, Len(s)), o)
<1>1. ASSUME o \in {"key"} \X Hash(20), PayKey(s),
             o[2] = Hash160(KeyFrom(s, 0, Len(s) - 1))
      PROVE  Reaches(Decode(m, Len(s)), o)
    BY <1>1, KeyDecoded, ReachesKey
<1>2. ASSUME o \in {"key"} \X Hash(20), PayKeyHash(s), o[2] = SubSeq(s, 4, 23)
      PROVE  Reaches(Decode(m, Len(s)), o)
    BY <1>2, KeyHashDecoded, ReachesKey
<1>3. ASSUME o \in {"key"} \X Hash(20), PayMany(s, f), Len(f) = 2,
             o[2] = KeyHashes(s, f)[1]
      PROVE  Reaches(Decode(m, Len(s)), o)
    <2>1. KeyHashes(s, f) = <<o[2]>>
        <3>1. Len(f) - 1 = 1
            BY <1>3
        <3> DEFINE h == KeyHashes(s, f)
        <3>2. h = [i \in 1 .. 1 |-> h[i]]
            BY <3>1 DEF KeyHashes
        <3>3. h[1] = o[2]
            BY <1>3
        <3> HIDE DEF h
        <3>4. h = [i \in 1 .. 1 |-> o[2]]
            BY <3>2, <3>3
        <3> QED  BY <3>4 DEF h
    <2> QED  BY <1>3, <2>1, ManyDecoded, ReachesKey
<1>4. ASSUME o \in {"script"} \X Hash(20), PayScriptHash(s), o[2] = SubSeq(s, 3, 22)
      PROVE  Reaches(Decode(m, Len(s)), o)
    BY <1>4, ScriptHashDecoded, ReachesScript
<1>5. ASSUME o \in {"wkey"} \X Hash(20), PayWitness(s, 20), o[2] = SubSeq(s, 3, 22)
      PROVE  Reaches(Decode(m, Len(s)), o)
    <2> DEFINE n == 20
    <2>1. n \in {20, 32} /\ PayWitness(s, n) /\ n + 2 = 22 /\ n = 20
        BY <1>5
    <2> HIDE DEF n
    <2>2. Decode(m, Len(s)) = Addr("witness_v0_keyhash", <<SubSeq(s, 3, 22)>>)
        BY <2>1, WitnessDecoded
    <2> QED  BY <1>5, <2>2, ReachesWKey
<1>6. ASSUME o \in {"wscript"} \X Hash(32), PayWitness(s, 32), o[2] = SubSeq(s, 3, 34)
      PROVE  Reaches(Decode(m, Len(s)), o)
    <2> DEFINE n == 32
    <2>1. n \in {20, 32} /\ PayWitness(s, n) /\ n + 2 = 34 /\ n # 20
        BY <1>6
    <2> HIDE DEF n
    <2>2. Decode(m, Len(s)) = Addr("witness_v0_scripthash", <<SubSeq(s, 3, 34)>>)
        BY <2>1, WitnessDecoded
    <2> QED  BY <1>6, <2>2, ReachesWScript
<1>7. ASSUME o \in {"keys"} \X Seq(Hash(20)), PayMany(s, f), Len(f) > 2,
             o[2] = KeyHashes(s, f)
      PROVE  Reaches(Decode(m, Len(s)), o)
    <2>1. Len(o[2]) > 1
        <3> DEFINE h == o[2]  k == Len(f)
        <3>1. h \in Seq(Hash(20)) /\ DOMAIN h = 1 .. k - 1
            BY <1>7 DEF KeyHashes
        <3>2. k \in Nat /\ k > 2
            BY <1>7 DEF PayMany
        <3> HIDE DEF h, k
        <3>3. DOMAIN h = 1 .. Len(h) /\ Len(h) \in Nat
            BY <3>1
        <3>4. 2 \in DOMAIN h
            BY <3>1, <3>2
        <3>5. Len(h) > 1
            BY <3>3, <3>4
        <3> QED  BY <3>5 DEF h
    <2> QED  BY <1>7, <2>1, ManyDecoded, ReachesKeys
<1> QED  BY <1>1, <1>2, <1>3, <1>4, <1>5, <1>6, <1>7 DEF Names

-----------------------------------------------------------------------------
LEMMA NoKey ==
    ASSUME NEW m, NEW s, Holds(m, s), Len(s) > 21, ~PayKey(s)
    PROVE  PubKey(m, Len(s)) = NoAddress
<1> DEFINE n == Len(s)
<1> SUFFICES ASSUME n = m[1] + 2, IsKey(m, 0), m[n] = OP_CHECKSIG
             PROVE  FALSE
    BY DEF PubKey
<1>1. s \in Seq(Octets) /\ n \in Nat /\ n > 21
    BY DEF Holds
<1>2. m[1] = s[1] /\ m[2] = s[2] /\ m[n] = s[n]
    BY <1>1, EndBytes
<1>3. \/ m[1] = 65 /\ m[2] \in {4, 6, 7}
      \/ m[1] = 33 /\ m[2] \in {2, 3}
    <2>1. 0 + 1 = 1 /\ 0 + 2 = 2
        OBVIOUS
    <2> QED  BY <2>1 DEF IsKey, PKuPrefix, PKcPrefix
<1> DEFINE k == SubSeq(s, 2, n - 1)
<1>4. k \in Seq(Octets) /\ Len(k) = n - 2 /\ k[1] = s[2]
    <2> DEFINE p == 1  q == n - 1
    <2>1. p \in Nat /\ q \in Nat /\ q <= Len(s) /\ p <= q /\ q - p = n - 2 /\ p + 1 = 2
          /\ 1 \in 1 .. q - p
        BY <1>1
    <2> HIDE DEF p, q
    <2>2. /\ Len(SubSeq(s, p + 1, q)) = q - p
          /\ \A i \in 1 .. q - p : SubSeq(s, p + 1, q)[i] = s[p + i]
        BY <1>1, <2>1, CutOut
    <2>3. SubSeq(s, p + 1, q) \in Seq(Octets)
        <3>1. \A i \in p + 1 .. q : s[i] \in Octets
            BY <1>1, <2>1
        <3> QED  BY <1>1, <2>1, <3>1
    <2> QED  BY <2>1, <2>2, <2>3 DEF q
<1>5. IsPubKey(k)
    <2> HIDE DEF k, n
    <2> QED  BY <1>1, <1>2, <1>3, <1>4 DEF IsPubKey
<1>6. KeyFrom(s, 0, n - 1) = k
    <2>1. 0 + 2 = 2
        OBVIOUS
    <2> QED  BY <2>1 DEF KeyFrom
<1>7. Pushed(s, 0, n - 1)
    <2>1. s[0 + 1] = (n - 1) - 0 - 1
        <3>1. 0 + 1 = 1 /\ (n - 1) - 0 - 1 = n - 2 /\ s[1] \in Int
            BY <1>1, <1>2, <1>3
        <3> QED  BY <1>1, <1>2, <3>1
    <2> HIDE DEF k, n
    <2> QED  BY <1>5, <1>6, <2>1 DEF Pushed
<1> QED  BY <1>1, <1>2, <1>7 DEF PayKey

LEMMA ShortOrText ==
    ASSUME NEW m, NEW n \in Nat, n <= 21 \/ m[1] = OP_RETURN
    PROVE  ~IsFull(Decode(m, n))
<1>1. CASE n = 0
    BY <1>1 DEF Decode, IsFull
<1>2. CASE n > 0 /\ m[1] = OP_RETURN
    <2>1. Decode(m, n) = Addr("nulldata", <<>>)
        BY <1>2 DEF Decode
    <2> QED  BY <2>1 DEF IsFull, Addr
<1>3. CASE n \in 1 .. 21 /\ m[1] # OP_RETURN
    <2>1. Decode(m, n) = NoAddress
        BY <1>3 DEF Decode
    <2> QED  BY <2>1 DEF IsFull
<1> QED  BY <1>1, <1>2, <1>3

\* addr_decode() finds nobody where a script names nobody.
LEMMA NobodyFound ==
    ASSUME NEW m, NEW s, Holds(m, s), NEW f, Nameless(s, f)
    PROVE  ~IsFull(Decode(m, Len(s)))
<1> DEFINE n == Len(s)
<1>1. n \in Nat /\ (n > 0 => m[1] = s[1])
    BY EndBytes DEF Holds
<1>2. CASE n <= 21 \/ s[1] = OP_RETURN
    <2>1. n = 0 \/ n <= 21 \/ m[1] = OP_RETURN
        <3> HIDE DEF n
        <3> QED  BY <1>1, <1>2
    <2>2. n <= 21 \/ m[1] = OP_RETURN
        BY <2>1
    <2> QED  BY <1>1, <2>2, ShortOrText
<1>3. CASE n > 21 /\ s[1] # OP_RETURN
    <2>1. /\ ~PayKey(s) /\ ~PayKeyHash(s) /\ ~PayScriptHash(s)
          /\ ~ (s[1] = OP_0 /\ s[2] \in {20, 32})
          /\ OfMany(s) => BadKey(s, f)
        BY <1>1, <1>3 DEF Nameless
    <2> DEFINE x == m[1]
    <2>2. /\ \A k \in 1 .. 3 : m[k] = s[k]
          /\ m[n - 1] = s[n - 1] /\ m[n] = s[n] /\ n > 0 /\ x = s[1] /\ x # OP_RETURN
        BY <1>1, <1>3, EndBytes
    <2>3. PubKey(m, n) = NoAddress
        BY <1>3, <2>1, NoKey
    <2>4. x = OP_DUP => PubKeyHash(m, n) = NoAddress
        <3>1. n = 25 => m[24] = s[24] /\ m[25] = s[25]
            BY EndBytes
        <3> QED  BY <2>1, <2>2, <3>1 DEF PubKeyHash, PayKeyHash
    <2>5. x = OP_HASH160 => ScriptHash(m, n) = NoAddress
        <3>1. n = 23 => m[23] = s[23]
            <4> HIDE DEF n
            <4> QED  BY <2>2
        <3> QED  BY <2>1, <2>2, <3>1 DEF ScriptHash, PayScriptHash
    <2>6. x = OP_0 => Witness(m, n) = NoAddress
        BY <2>1, <2>2 DEF Witness
    <2>7. x \in OP_1 .. OP_16 => Decode(m, n) = NoAddress
        <3> SUFFICES ASSUME x \in OP_1 .. OP_16 PROVE Decode(m, n) = NoAddress
            OBVIOUS
        <3>1. CASE OfMany(s)
            BY <1>3, <2>1, <3>1, BadKeyDecoded
        <3>2. CASE ~OfMany(s)
            <4>1. MultiSig(m, n) = NoAddress
                BY <2>2, <3>2 DEF MultiSig, OfMany
            <4>2. Decode(m, n) = MultiSig(m, n)
                <5> HIDE DEF n
                <5> QED  BY <1>1, <1>3, ManyCase
            <4> QED  BY <4>1, <4>2
        <3> QED  BY <3>1, <3>2
    <2>8. Decode(m, n) = NoAddress
        <3> HIDE DEF x, n
        <3>1. x = m[1] /\ n > 21 /\ x # OP_RETURN
            BY <1>3, <2>2 DEF x
        <3>2. Decode(m, n) =
                CASE x \in {33, 65}       -> PubKey(m, n)
                  [] x = OP_DUP           -> PubKeyHash(m, n)
                  [] x = OP_HASH160       -> ScriptHash(m, n)
                  [] x = OP_0             -> Witness(m, n)
                  [] x \in OP_1 .. OP_16  -> MultiSig(m, n)
                  [] OTHER                -> NoAddress
            BY <1>1, <3>1 DEF Decode
        <3>3. CASE x \in {33, 65}
            BY <1>1, <3>1, <2>3, <3>3
            DEF Decode, OP_0, OP_1, OP_16, OP_RETURN, OP_DUP, OP_HASH160
        <3>4. CASE x = OP_DUP
            BY <1>1, <3>1, <2>4, <3>4
            DEF Decode, OP_0, OP_1, OP_16, OP_RETURN, OP_DUP, OP_HASH160
        <3>5. CASE x = OP_HASH160
            BY <1>1, <3>1, <2>5, <3>5
            DEF Decode, OP_0, OP_1, OP_16, OP_RETURN, OP_DUP, OP_HASH160
        <3>6. CASE x = OP_0
            BY <1>1, <3>1, <2>6, <3>6
            DEF Decode, OP_0, OP_1, OP_16, OP_RETURN, OP_DUP, OP_HASH160
        <3>7. CASE x \in OP_1 .. OP_16
            BY <2>7, <3>7
        <3>8. CASE /\ x \notin {33, 65} /\ x # OP_DUP /\ x # OP_HASH160 /\ x # OP_0
                   /\ x \notin OP_1 .. OP_16
            BY <3>2, <3>8
        <3> QED  BY <3>3, <3>4, <3>5, <3>6, <3>7, <3>8
    <2> QED  BY <2>8 DEF IsFull
<1> QED  BY <1>1, <1>2, <1>3
-----------------------------------------------------------------------------
\* What parse() has behind it: transactions that are built, with the addresses of
\* their outputs, and of the one in hand the outputs before the vi-th.
Found(v) == v.addr = Decode(Script(v.script), v.script.len)
AddrInv ==
    /\ \A i \in Parsed : /\ Built(txs[i], i)
                         /\ \A j \in DOMAIN txs[i].vouts : Found(txs[i].vouts[j])
    /\ step = "addr" =>
          \A j \in DOMAIN txs[ti].vouts : j < vi => Found(txs[ti].vouts[j])

LEMMA AddrNext ==
    ASSUME block' = block
    PROVE  AddrInv' <=>
             /\ \A i \in 1 .. ti' - 1 :
                   /\ Built(txs'[i], i)
                   /\ \A j \in DOMAIN txs'[i].vouts : Found(txs'[i].vouts[j])
             /\ step' = "addr" => \A j \in DOMAIN txs'[ti'].vouts :
                   j < vi' => Found(txs'[ti'].vouts[j])
<1>1. TheLayout' = TheLayout
    BY LayoutNext
<1> QED  BY <1>1 DEF AddrInv, Parsed, Found, Script, Built, Place, Ref, Parts, CountPlace,
            SameTx, SameVin, SameVout, Text, Slice, Byte, TxSound, Refused, At, Inside

LEMMA AddrStays ==
    ASSUME AddrInv, block' = block, ti' = ti, \A i \in Parsed : txs'[i] = txs[i],
           step' = "addr" => \A j \in DOMAIN txs'[ti].vouts :
               j < vi' => Found(txs'[ti].vouts[j])
    PROVE  AddrInv'
<1>1. \A i \in 1 .. ti - 1 :
         /\ Built(txs'[i], i)
         /\ \A j \in DOMAIN txs'[i].vouts : Found(txs'[i].vouts[j])
    BY DEF AddrInv, Parsed
<1> QED  BY <1>1, AddrNext

\* Nothing is parsed yet.
LEMMA AddrWalks ==
    ASSUME PInv, AddrInv,
           \/ ReadHead \/ ReadTx \/ ReadVin \/ ReadVoutCount \/ ReadVout \/ EndVouts
           \/ ReadWit \/ SkipItem \/ EndTx \/ EndBlock \/ Throws \/ ParseBlock
    PROVE  AddrInv'
<1>1. Walking /\ step' # "addr" /\ block' = block /\ ti' = ti
    BY DEF ReadHead, ReadTx, ReadVin, ReadVoutCount, ReadVout, EndVouts, ReadWit,
           SkipItem, EndTx, EndBlock, Throws, ParseBlock, Walking, place
<1>2. ti = 1
    BY <1>1 DEF PInv, ThreadInv
<1>3. Parsed = {}
    BY <1>2 DEF Parsed
<1> QED  BY <1>1, <1>3, AddrStays

LEMMA AddrParseTx == ASSUME PInv, AddrInv, ParseTx PROVE AddrInv'
<1> USE DEF ParseTx
<1>1. /\ block' = block /\ ti' = ti /\ vi' = 1 /\ ti \in DOMAIN txs /\ txs \in Seq(TxT)
      /\ Parsed \subseteq DOMAIN txs \ {ti}
    BY DEF PInv, Types, Parsed
<1>2. \A i \in Parsed : txs'[i] = txs[i]
    <2>1. CASE MkHash(ti)
        BY <1>1, <2>1, MkHashParts
    <2>2. CASE UNCHANGED txs
        BY <2>2
    <2> QED  BY <2>1, <2>2
<1>3. \A j \in DOMAIN txs'[ti].vouts : ~ (j < 1)
    <2>1. PInv' /\ step' = "addr"
        BY ParseTxStep
    <2>2. ti \in DOMAIN txs' /\ txs' \in Seq(TxT)
        BY <1>1, <2>1 DEF PInv, Types, ThreadInv
    <2>3. txs'[ti] \in TxT
        BY <2>2, ElementOfSeq
    <2> DEFINE v == txs'[ti].vouts
    <2>4. v \in Seq(VoutT)
        BY <2>3 DEF TxT
    <2> HIDE DEF v
    <2>5. \A j \in DOMAIN v : ~ (j < 1)
        BY <2>4
    <2> QED  BY <2>5 DEF v
<1> QED  BY <1>1, <1>2, <1>3, AddrStays

LEMMA AddrThread == ASSUME PInv, AddrInv, NEW i, Thread(i) PROVE AddrInv'
<1> USE DEF Thread
<1>1. /\ i = ti /\ step = "addr" /\ step' = step /\ ti \in DOMAIN txs /\ block' = block
      /\ ti' = ti /\ vi' = vi /\ txs \in Seq(TxT) /\ MkHash(ti)
      /\ Parsed \subseteq DOMAIN txs \ {ti}
    BY DEF PInv, Types, ThreadInv, Parsed, place
<1>2. \A k \in Parsed : txs'[k] = txs[k]
    BY <1>1, MkHashParts
<1>3. txs'[ti].vouts = txs[ti].vouts
    <2> DEFINE h == Hash256(HashSrc(txs[ti]))
    <2>1. txs' = [txs EXCEPT ![ti] = [txs[ti] EXCEPT !.hash = h]]
        BY <1>1 DEF MkHash
    <2>2. txs[ti] \in TxT
        BY <1>1, ElementOfSeq
    <2> HIDE DEF h
    <2>3. [txs[ti] EXCEPT !.hash = h].vouts = txs[ti].vouts
        BY <2>2 DEF TxT
    <2> QED  BY <1>1, <2>1, <2>3
<1> QED  BY <1>1, <1>2, <1>3, AddrStays DEF AddrInv

LEMMA AddrParseVout == ASSUME PInv, AddrInv, ParseVout PROVE AddrInv'
<1> USE DEF ParseVout
<1>1. /\ step = "addr" /\ step' = "addr" /\ block' = block /\ ti' = ti /\ vi' = vi + 1
      /\ ti \in DOMAIN txs /\ txs \in Seq(TxT) /\ txs[ti] \in TxT
      /\ Parsed \subseteq DOMAIN txs \ {ti}
    BY ElementOfSeq DEF PInv, Types, ThreadInv, Parsed
<1> DEFINE V == txs[ti].vouts  w == V[vi]
           a == Decode(Script(w.script), w.script.len)
           x == [w EXCEPT !.addr = a]
           u == [txs[ti] EXCEPT !.vouts = [V EXCEPT ![vi] = x]]
<1>2. V \in Seq(VoutT) /\ vi \in DOMAIN V /\ vi \in Nat
    <2>1. V \in Seq(VoutT) /\ vi \in Nat \ {0}
        BY <1>1 DEF TxT, PInv, Types
    <2> QED  BY <2>1
<1>3. txs' = [txs EXCEPT ![ti] = u]
    OBVIOUS
<1>4. w \in VoutT
    BY <1>2, ElementOfSeq
<1> HIDE DEF a
<1>5. x.script = w.script /\ x.addr = a
    <2> HIDE DEF w
    <2> QED  BY <1>4 DEF VoutT
<1>6. Found(x)
    BY <1>5 DEF Found, a
<1> HIDE DEF x, w
<1>7. u.vouts = [V EXCEPT ![vi] = x]
    BY <1>1 DEF TxT
<1> HIDE DEF u
<1>8. txs'[ti] = u /\ \A i \in Parsed : txs'[i] = txs[i]
    BY <1>1, <1>3
<1>9. \A j \in DOMAIN V : j < vi => Found(V[j])
    BY <1>1 DEF AddrInv
<1> HIDE DEF V
<1>10. ASSUME NEW j \in DOMAIN u.vouts, j < vi + 1 PROVE Found(u.vouts[j])
    <2>1. CASE j = vi
        <3>1. u.vouts[j] = x
            BY <1>2, <1>7, <2>1
        <3> QED  BY <1>6, <3>1
    <2>2. CASE j # vi
        <3>1. j \in DOMAIN V /\ u.vouts[j] = V[j]
            BY <1>7, <2>2
        <3>2. j < vi
            BY <1>2, <1>10, <2>2, <3>1
        <3> QED  BY <1>9, <3>1, <3>2
    <2> QED  BY <2>1, <2>2
<1> QED  BY <1>1, <1>8, <1>10, AddrStays

\* All its outputs are decoded when parse() of a transaction returns.
LEMMA AddrEndParseTx == ASSUME AllLaid, PInv, WInv, AddrInv, EndParseTx PROVE AddrInv'
<1> USE DEF EndParseTx
<1>1. /\ step = "addr" /\ step' = "parse" /\ block' = block /\ ti' = ti + 1 /\ txs' = txs
      /\ ti \in DOMAIN txs /\ ti \in Nat /\ txs[ti] \in TxT
    BY ElementOfSeq DEF PInv, Types, ThreadInv
<1>2. Built(txs[ti], ti)
    BY <1>1 DEF WInv, BuiltInv, InTx
<1>3. \A j \in DOMAIN txs[ti].vouts : Found(txs[ti].vouts[j])
    <2> DEFINE V == txs[ti].vouts
    <2>1. V \in Seq(VoutT) /\ vi > Len(V) /\ vi \in Nat
        BY <1>1 DEF TxT, PInv, Types
    <2>2. \A j \in DOMAIN V : j < vi => Found(V[j])
        BY <1>1 DEF AddrInv
    <2> HIDE DEF V
    <2>3. \A j \in DOMAIN V : j < vi
        BY <2>1
    <2>4. \A j \in DOMAIN V : Found(V[j])
        BY <2>2, <2>3
    <2> QED  BY <2>4 DEF V
<1>4. \A i \in 1 .. ti' - 1 : i = ti \/ i \in 1 .. ti - 1
    BY <1>1
<1>5. \A i \in 1 .. ti - 1 : /\ Built(txs[i], i)
                             /\ \A j \in DOMAIN txs[i].vouts : Found(txs[i].vouts[j])
    BY DEF AddrInv, Parsed
<1>6. \A i \in 1 .. ti' - 1 : /\ Built(txs'[i], i)
                              /\ \A j \in DOMAIN txs'[i].vouts : Found(txs'[i].vouts[j])
    BY <1>1, <1>2, <1>3, <1>4, <1>5
<1> QED  BY <1>1, <1>6, AddrNext

LEMMA AddrRest ==
    ASSUME AddrInv, ThreadFails \/ EndParse \/ UNCHANGED pvars
    PROVE  AddrInv'
<1>1. /\ block' = block /\ ti' = ti /\ vi' = vi /\ txs' = txs
      /\ step' = "addr" => step = "addr"
    BY DEF ThreadFails, EndParse, pvars, place
<1> QED  BY <1>1, AddrStays DEF AddrInv

LEMMA AddrNextHolds ==
    AllLaid /\ PInv /\ WInv /\ AddrInv /\ [ParseNext]_pvars => AddrInv'
<1> SUFFICES ASSUME AllLaid, PInv, WInv, AddrInv, [ParseNext]_pvars PROVE AddrInv'
    OBVIOUS
<1>1. CASE Main
    BY <1>1, AddrWalks, AddrParseTx, AddrParseVout, AddrEndParseTx, AddrRest DEF Main
<1>2. CASE Threads
    BY <1>2, AddrThread DEF Threads
<1>3. CASE UNCHANGED pvars
    BY <1>3, AddrRest
<1> QED  BY <1>1, <1>2, <1>3 DEF ParseNext

LEMMA AddrInit == ParseInit => AddrInv
<1> SUFFICES ASSUME ParseInit PROVE AddrInv
    OBVIOUS
<1>1. Parsed = {} /\ step # "addr"
    BY DEF ParseInit, Parsed
<1> QED  BY <1>1 DEF AddrInv

-----------------------------------------------------------------------------
\* Whom the outputs of a block belong to is what their scripts say.
AllOwned ==
    \A b \in Blocks : \A i \in 1 .. Len(b.txs) : \A j \in 1 .. Len(b.txs[i].vouts) :
        \E f : Owned(b.txs[i].vouts[j], f)

LEMMA ScriptHolds ==
    ASSUME block \in Blocks, NEW v \in ScriptView, Inside(v)
    PROVE  Holds(Script(v), Text(v)) /\ Len(Text(v)) = v.len
<1> DEFINE bytes == block.bytes  N == Len(bytes)  p == v.at  n == v.len
           s == SubSeq(bytes, p + 1, N)  t == Text(v)
<1>1. /\ bytes \in Seq(Octets) /\ N \in Nat /\ p \in Nat /\ n \in Nat /\ p + n <= N
      /\ p <= N
    <2>1. bytes \in Seq(Octets) /\ N \in Nat /\ p \in Nat /\ n \in Nat
        BY BytesType DEF ScriptView
    <2>2. p + n <= N
        BY DEF Inside, End
    <2> HIDE DEF bytes, N, p, n
    <2> QED  BY <2>1, <2>2
<1>2. Script(v) = s \o Behind
    BY DEF Script
<1>3. t = [i \in 1 .. n |-> Byte(p + i - 1)]
    BY DEF Text, Slice
<1> HIDE DEF N, p, n
<1>4. s \in Seq(Octets) /\ Len(s) = N - p /\ \A i \in 1 .. N - p : s[i] = bytes[p + i]
    <2>1. s \in Seq(Octets)
        <3>1. \A i \in p + 1 .. N : bytes[i] \in Octets
            BY <1>1 DEF N
        <3> QED  BY <1>1, <3>1 DEF N
    <2>2. N <= Len(bytes)
        BY <1>1 DEF N
    <2> HIDE DEF bytes
    <2> QED  BY <1>1, <2>1, <2>2, CutOut
<1>5. \A i \in 1 .. n : t[i] = bytes[p + i] /\ bytes[p + i] \in Octets
    <2> TAKE i \in 1 .. n
    <2>1. p + i - 1 < N /\ (p + i - 1) + 1 = p + i /\ p + i \in 1 .. N
        BY <1>1
    <2>2. Byte(p + i - 1) = bytes[p + i]
        BY <2>1 DEF Byte, N
    <2>3. bytes[p + i] \in Octets
        BY <1>1, <2>1 DEF N
    <2> HIDE DEF bytes, t
    <2> QED  BY <1>3, <2>2, <2>3
<1> HIDE DEF bytes, t, s
<1>6. t \in [1 .. n -> Octets]
    <2>1. \A i \in 1 .. n : t[i] \in Octets
        BY <1>5
    <2> QED  BY <1>3, <2>1
<1>7. t \in Seq(Octets) /\ Len(t) = n
    BY <1>1, <1>6
<1>8. Behind \in Seq(Octets) /\ Len(Behind) = 34
    <2> DEFINE k == 34
    <2>1. Behind \in [1 .. k -> Octets] /\ k \in Nat
        BY DEF Behind, Octets
    <2> HIDE DEF Behind, k
    <2>2. Behind \in Seq(Octets) /\ Len(Behind) = k
        BY <2>1
    <2> QED  BY <2>2 DEF k
<1>9. /\ s \o Behind \in Seq(Octets) /\ Len(s \o Behind) = Len(s) + Len(Behind)
      /\ \A i \in 1 .. Len(s) + Len(Behind) :
            (s \o Behind)[i] = IF i <= Len(s) THEN s[i] ELSE Behind[i - Len(s)]
    BY <1>4, <1>8, ConcatProperties
<1>10. n <= Len(s \o Behind) /\ \A i \in 1 .. n : (s \o Behind)[i] = t[i]
    <2>1. /\ Len(s) = N - p /\ n <= N - p /\ Len(s) \in Nat
          /\ Len(s \o Behind) = (N - p) + 34
        BY <1>1, <1>4, <1>8, <1>9
    <2>2. ASSUME NEW i \in 1 .. n PROVE (s \o Behind)[i] = t[i]
        <3>1. i <= Len(s) /\ i \in 1 .. Len(s) + Len(Behind) /\ i \in 1 .. N - p
            BY <1>1, <1>8, <2>1
        <3> QED  BY <1>4, <1>5, <1>9, <3>1
    <2>3. n <= Len(s \o Behind)
        BY <1>1, <2>1
    <2> QED  BY <2>2, <2>3
<1>11. Holds(s \o Behind, t)
    BY <1>7, <1>9, <1>10 DEF Holds
<1> QED  BY <1>2, <1>7, <1>11 DEF t, n

\* What is known of an output whose transaction is parsed.
LEMMA OutputIs ==
    ASSUME AllOwned, PInv, AddrInv, NEW o \in Outputs
    PROVE  \/ OwnerOf(o) = Unspecified
           \/ OwnerOf(o) = Nobody /\ ~IsFull(AddrOf(o))
           \/ OwnerOf(o) # Nobody /\ Reaches(AddrOf(o), OwnerOf(o))
<1>1. PICK i \in Parsed : o \in {i} \X DOMAIN txs[i].vouts
    BY DEF Outputs
<1> DEFINE j == o[2]  v == txs[i].vouts[j]  r == block.txs[i].vouts[j]
<1>2. o[1] = i /\ j \in DOMAIN txs[i].vouts
    BY <1>1
<1>3. Built(txs[i], i) /\ Found(v) /\ block \in Blocks /\ i \in DOMAIN txs
    BY <1>2 DEF AddrInv, PInv, Types, Parsed
<1>4. txs[i].vouts \in Seq(VoutT)
    <2>1. txs[i] \in TxT
        BY <1>3, ElementOfSeq DEF PInv, Types
    <2> QED  BY <2>1 DEF TxT
<1>5. /\ i \in 1 .. Len(block.txs) /\ j \in 1 .. Len(block.txs[i].vouts)
      /\ Text(v.script) = r.script /\ Inside(v.script)
    <2>1. /\ i \in 1 .. Len(block.txs) /\ SameTx(txs[i], block.txs[i])
          /\ Inside(v.script)
        BY <1>2, <1>3 DEF Built, Ref
    <2>2. Len(txs[i].vouts) = Len(block.txs[i].vouts) /\ SameVout(v, r)
        BY <1>2, <2>1 DEF SameTx
    <2>3. j \in 1 .. Len(txs[i].vouts)
        BY <1>2, <1>4
    <2> QED  BY <2>1, <2>2, <2>3 DEF SameVout
<1>6. v.script \in ScriptView
    <2>1. v \in VoutT
        BY <1>2, <1>4, ElementOfSeq
    <2> HIDE DEF v
    <2> QED  BY <2>1 DEF VoutT
<1>7. OwnerOf(o) = r.owner /\ AddrOf(o) = v.addr
    BY <1>2 DEF OwnerOf, AddrOf
<1>8. PICK f : Owned(r, f)
    BY <1>3, <1>5 DEF AllOwned
<1> HIDE DEF v, r, j
<1> DEFINE s == r.script  m == Script(v.script)
<1>9. Holds(m, s) /\ v.addr = Decode(m, Len(s))
    BY <1>3, <1>5, <1>6, ScriptHolds DEF Found
<1> HIDE DEF s, m
<1>10. CASE r.owner = Nobody /\ Nameless(s, f)
    BY <1>7, <1>9, <1>10, NobodyFound
<1>11. CASE Names(s, r.owner, f)
    <2>1. Reaches(v.addr, r.owner)
        BY <1>9, <1>11, OwnerFound
    <2>2. r.owner # Nobody
        <3>1. r.owner \in AllOwners
            BY <2>1 DEF Reaches
        <3>2. r.owner[1] # "nobody"
            BY <3>1 DEF AllOwners, Single, Joint
        <3> QED  BY <3>2 DEF Nobody
    <2> QED  BY <1>7, <2>1, <2>2
<1> QED  BY <1>7, <1>8, <1>10, <1>11 DEF Owned, s

\* Resolve may take for granted that addresses stand for owners: an output has a key
\* iff its script names somebody, and two have the same key iff it is the same one,
\* for every block that has a layout and outputs of any form, and every schedule.
THEOREM AddrsRightCorrect == ASSUME AllLaid, AllOwned PROVE ParseSpec => []AddrsRight
<1>1. PInv /\ WInv /\ AddrInv => AddrsRight
    <2> SUFFICES ASSUME PInv, AddrInv PROVE AddrsRight
        OBVIOUS
    <2> DEFINE known == {o \in Outputs : OwnerOf(o) # Unspecified}
               owned == {o \in known : OwnerOf(o) # Nobody}
    <2>1. ASSUME NEW o \in known PROVE IsFull(AddrOf(o)) <=> o \in owned
        BY OutputIs DEF Reaches
    <2>2. ASSUME NEW o \in owned
          PROVE  AsKey(AddrOf(o)) = KeyOf(OwnerOf(o)) /\ OwnerOf(o) \in AllOwners
        BY OutputIs DEF Reaches
    <2>3. ASSUME NEW o \in owned, NEW p \in owned
          PROVE  AsKey(AddrOf(o)) = AsKey(AddrOf(p)) <=> OwnerOf(o) = OwnerOf(p)
        <3>1. /\ AsKey(AddrOf(o)) = KeyOf(OwnerOf(o)) /\ OwnerOf(o) \in AllOwners
              /\ AsKey(AddrOf(p)) = KeyOf(OwnerOf(p)) /\ OwnerOf(p) \in AllOwners
            BY <2>2
        <3> QED  BY <3>1, KeysTell
    <2> QED  BY <2>1, <2>3 DEF AddrsRight
<1> QED  BY <1>1, InitHolds, NextHolds, WalkInit, WalkNext, AddrInit, AddrNextHolds, PTL
         DEF ParseSpec

-----------------------------------------------------------------------------
\* Functions that are defined turn by turn: there is one.
Turns(f, n, a, G) == f = [i \in 0 .. n |-> IF i = 0 THEN a ELSE G[<<f[i - 1], i>>]]

LEMMA TurnsExist ==
    ASSUME NEW S, NEW a \in S, NEW n \in Nat, NEW G \in [S \X (1 .. n) -> S]
    PROVE  \E f \in [0 .. n -> S] : Turns(f, n, a, G)
<1> DEFINE T == {m \in Nat : m <= n => \E f \in [0 .. m -> S] : Turns(f, m, a, G)}
<1>1. 0 \in T
    <2> DEFINE f == [i \in 0 .. 0 |-> a]
    <2>1. f \in [0 .. 0 -> S] /\ Turns(f, 0, a, G)
        BY DEF Turns
    <2> QED  BY <2>1
<1>2. ASSUME NEW m \in Nat, m \in T
      PROVE  m + 1 \in T
    <2> SUFFICES ASSUME m + 1 <= n
                 PROVE  \E f \in [0 .. m + 1 -> S] : Turns(f, m + 1, a, G)
        OBVIOUS
    <2>1. PICK g \in [0 .. m -> S] : Turns(g, m, a, G)
        BY <1>2
    <2> DEFINE f == [i \in 0 .. m + 1 |-> IF i = m + 1 THEN G[<<g[m], m + 1>>] ELSE g[i]]
    <2>2. f \in [0 .. m + 1 -> S]
        OBVIOUS
    <2>3. ASSUME NEW i \in 0 .. m + 1
          PROVE  f[i] = IF i = 0 THEN a ELSE G[<<f[i - 1], i>>]
        <3>1. CASE i = 0
            BY <2>1, <3>1 DEF Turns
        <3>2. CASE i \in 1 .. m
            <4>1. f[i] = g[i] /\ f[i - 1] = g[i - 1] /\ i # 0 /\ i \in 0 .. m
                BY <3>2
            <4>2. g[i] = IF i = 0 THEN a ELSE G[<<g[i - 1], i>>]
                BY <2>1, <4>1 DEF Turns
            <4> QED  BY <4>1, <4>2
        <3>3. CASE i = m + 1
            <4>1. i - 1 = m /\ i # 0 /\ f[m] = g[m]
                BY <3>3
            <4> QED  BY <3>3, <4>1
        <3> QED  BY <3>1, <3>2, <3>3
    <2>4. Turns(f, m + 1, a, G)
        BY <2>3 DEF Turns
    <2> QED  BY <2>2, <2>4
<1>3. n \in T
    <2> HIDE DEF T
    <2> QED  BY <1>1, <1>2, Induct
<1> QED  BY <1>3

\* Whoever is defined so has its values where they are defined.
LEMMA TurnsIn ==
    ASSUME NEW S, NEW n \in Nat, NEW f, f[0] \in S,
           \A i \in 1 .. n : f[i - 1] \in S => f[i] \in S
    PROVE  \A i \in 0 .. n : f[i] \in S
<1> DEFINE T == {m \in Nat : m <= n => f[m] \in S}
<1>1. 0 \in T
    OBVIOUS
<1>2. ASSUME NEW m \in Nat, m \in T
      PROVE  m + 1 \in T
    <2>1. (m + 1) - 1 = m /\ (m + 1 <= n => m + 1 \in 1 .. n /\ m <= n)
        OBVIOUS
    <2> QED  BY <1>2, <2>1
<1> HIDE DEF T
<1>3. Nat \subseteq T
    BY <1>1, <1>2, Induct
<1> QED  BY <1>3 DEF T

-----------------------------------------------------------------------------
\* Two sequences, the second one behind the first.
IsJoin(u, s, t) ==
    /\ Len(s) \in Nat /\ Len(t) \in Nat /\ Len(u) = Len(s) + Len(t)
    /\ \A i \in 1 .. Len(s) : u[i] = s[i]
    /\ \A i \in 1 .. Len(t) : u[Len(s) + i] = t[i]

LEMMA Joined ==
    ASSUME NEW S, NEW s \in Seq(S), NEW t \in Seq(S)
    PROVE  s \o t \in Seq(S) /\ IsJoin(s \o t, s, t)
<1>1. /\ s \o t \in Seq(S) /\ Len(s) \in Nat /\ Len(t) \in Nat
      /\ Len(s \o t) = Len(s) + Len(t)
    BY ConcatProperties
<1> DEFINE u == s \o t
<1>2. \A i \in 1 .. Len(s) + Len(t) : u[i] = IF i <= Len(s) THEN s[i] ELSE t[i - Len(s)]
    BY ConcatProperties
<1> HIDE DEF u
<1>3. ASSUME NEW i \in 1 .. Len(s) PROVE u[i] = s[i]
    <2>1. i \in 1 .. Len(s) + Len(t) /\ i <= Len(s)
        BY <1>1
    <2> QED  BY <1>2, <2>1
<1>4. ASSUME NEW i \in 1 .. Len(t) PROVE u[Len(s) + i] = t[i]
    <2>1. /\ Len(s) + i \in 1 .. Len(s) + Len(t) /\ ~(Len(s) + i <= Len(s))
          /\ (Len(s) + i) - Len(s) = i
        BY <1>1
    <2> QED  BY <1>2, <2>1
<1>5. IsJoin(u, s, t)
    BY <1>1, <1>3, <1>4 DEF IsJoin, u
<1> QED  BY <1>1, <1>5 DEF u

\* Zero is an element of a set of digits.
LEMMA ZerosIs ==
    ASSUME NEW S, 0 \in S, NEW n \in Nat
    PROVE  Zeros(n) \in Seq(S) /\ Len(Zeros(n)) = n /\ \A i \in 1 .. n : Zeros(n)[i] = 0
<1>1. Zeros(n) \in [1 .. n -> S] /\ \A i \in 1 .. n : Zeros(n)[i] = 0
    BY DEF Zeros
<1> QED  BY <1>1

-----------------------------------------------------------------------------
\* The checksum of bech32, in Encode a set of bits: PolyStep() is the sum after one
\* symbol more, and the six that are put behind make the sum what a wallet asks for.
Word == SUBSET (0 .. 29)

LEMMA PolyStepWord == \A c, v : PolyStep(c, v) \in Word
BY DEF PolyStep, Word

\* The sum after each symbol.
Sums(c, v) == /\ c \in [0 .. Len(v) -> Word] /\ c[0] = {0}
              /\ \A i \in 1 .. Len(v) : c[i] = PolyStep(c[i - 1], v[i])

LEMMA PolyModUnfold ==
    ASSUME NEW v, Len(v) \in Nat
    PROVE  \E c : Sums(c, v) /\ PolyMod(v) = c[Len(v)]
<1> DEFINE N == Len(v)
           Def(c) == c = [i \in 0 .. N |-> IF i = 0 THEN {0} ELSE PolyStep(c[i - 1], v[i])]
           G == [x \in Word \X (1 .. N) |-> PolyStep(x[1], v[x[2]])]
<1>1. {0} \in Word /\ N \in Nat /\ G \in [Word \X (1 .. N) -> Word]
    BY PolyStepWord DEF Word
<1>2. \A d \in Word, i \in 1 .. N : G[<<d, i>>] = PolyStep(d, v[i])
    OBVIOUS
<1> HIDE DEF G, N
<1>3. PICK f \in [0 .. N -> Word] : Turns(f, N, {0}, G)
    BY <1>1, TurnsExist
<1>4. Def(f)
    <2>1. ASSUME NEW i \in 0 .. N
          PROVE  f[i] = IF i = 0 THEN {0} ELSE PolyStep(f[i - 1], v[i])
        <3>1. f[i] = IF i = 0 THEN {0} ELSE G[<<f[i - 1], i>>]
            BY <1>3 DEF Turns
        <3>2. CASE i = 0
            BY <3>1, <3>2
        <3>3. CASE i # 0
            <4>1. i \in 1 .. N /\ i - 1 \in 0 .. N
                BY <1>1, <3>3
            <4> QED  BY <1>2, <3>1, <3>3, <4>1
        <3> QED  BY <3>2, <3>3
    <2> QED  BY <1>3, <2>1
<1> DEFINE c == CHOOSE c : Def(c)
<1>5. Def(c)
    BY <1>4
<1>6. PolyMod(v) = c[N]
    BY DEF PolyMod, N
<1> HIDE DEF c
<1>7. c[0] = {0} /\ \A i \in 1 .. N : c[i] = PolyStep(c[i - 1], v[i])
    <2>1. ASSUME NEW i \in 1 .. N PROVE c[i] = PolyStep(c[i - 1], v[i])
        <3>1. i \in 0 .. N /\ i # 0
            BY <1>1
        <3> QED  BY <1>5, <3>1
    <2>2. 0 \in 0 .. N
        BY <1>1
    <2> QED  BY <1>5, <2>1, <2>2
<1>8. \A i \in 0 .. N : c[i] \in Word
    <2>1. \A i \in 1 .. N : c[i - 1] \in Word => c[i] \in Word
        BY <1>7, PolyStepWord
    <2>2. c[0] \in Word
        BY <1>1, <1>7
    <2> QED  BY <1>1, <2>1, <2>2, TurnsIn
<1>9. c \in [0 .. N -> Word]
    BY <1>5, <1>8
<1> QED  BY <1>6, <1>7, <1>9 DEF Sums, N
-----------------------------------------------------------------------------
\* The powers of 2, which the provers do not compute.
Pow(k) == 2^k
PowerIs(k, n) ==
    \/ (k = 0 /\ n = 1) \/ (k = 1 /\ n = 2) \/ (k = 2 /\ n = 4)
    \/ (k = 3 /\ n = 8) \/ (k = 4 /\ n = 16) \/ (k = 5 /\ n = 32)
    \/ (k = 6 /\ n = 64) \/ (k = 7 /\ n = 128) \/ (k = 8 /\ n = 256)
    \/ (k = 9 /\ n = 512) \/ (k = 10 /\ n = 1024) \/ (k = 11 /\ n = 2048)
    \/ (k = 12 /\ n = 4096) \/ (k = 13 /\ n = 8192) \/ (k = 14 /\ n = 16384)
    \/ (k = 15 /\ n = 32768) \/ (k = 16 /\ n = 65536) \/ (k = 17 /\ n = 131072)
    \/ (k = 18 /\ n = 262144) \/ (k = 19 /\ n = 524288) \/ (k = 20 /\ n = 1048576)
    \/ (k = 21 /\ n = 2097152) \/ (k = 22 /\ n = 4194304) \/ (k = 23 /\ n = 8388608)
    \/ (k = 24 /\ n = 16777216) \/ (k = 25 /\ n = 33554432) \/ (k = 26 /\ n = 67108864)
    \/ (k = 27 /\ n = 134217728) \/ (k = 28 /\ n = 268435456) \/ (k = 29 /\ n = 536870912)

LEMMA Power ==
    ASSUME NEW k \in 0 .. 29
    PROVE  PowerIs(k, Pow(k))
<1>1. CASE k = 0  BY <1>1, SMT DEF PowerIs, Pow
<1>2. CASE k = 1  BY <1>2, SMT DEF PowerIs, Pow
<1>3. CASE k = 2  BY <1>3, SMT DEF PowerIs, Pow
<1>4. CASE k = 3  BY <1>4, SMT DEF PowerIs, Pow
<1>5. CASE k = 4  BY <1>5, SMT DEF PowerIs, Pow
<1>6. CASE k = 5  BY <1>6, SMT DEF PowerIs, Pow
<1>7. CASE k = 6  BY <1>7, SMT DEF PowerIs, Pow
<1>8. CASE k = 7  BY <1>8, SMT DEF PowerIs, Pow
<1>9. CASE k = 8  BY <1>9, SMT DEF PowerIs, Pow
<1>10. CASE k = 9  BY <1>10, SMT DEF PowerIs, Pow
<1>11. CASE k = 10  BY <1>11, SMT DEF PowerIs, Pow
<1>12. CASE k = 11  BY <1>12, SMT DEF PowerIs, Pow
<1>13. CASE k = 12  BY <1>13, SMT DEF PowerIs, Pow
<1>14. CASE k = 13  BY <1>14, SMT DEF PowerIs, Pow
<1>15. CASE k = 14  BY <1>15, SMT DEF PowerIs, Pow
<1>16. CASE k = 15  BY <1>16, SMT DEF PowerIs, Pow
<1>17. CASE k = 16  BY <1>17, SMT DEF PowerIs, Pow
<1>18. CASE k = 17  BY <1>18, SMT DEF PowerIs, Pow
<1>19. CASE k = 18  BY <1>19, SMT DEF PowerIs, Pow
<1>20. CASE k = 19  BY <1>20, SMT DEF PowerIs, Pow
<1>21. CASE k = 20  BY <1>21, SMT DEF PowerIs, Pow
<1>22. CASE k = 21  BY <1>22, SMT DEF PowerIs, Pow
<1>23. CASE k = 22  BY <1>23, SMT DEF PowerIs, Pow
<1>24. CASE k = 23  BY <1>24, SMT DEF PowerIs, Pow
<1>25. CASE k = 24  BY <1>25, SMT DEF PowerIs, Pow
<1>26. CASE k = 25  BY <1>26, SMT DEF PowerIs, Pow
<1>27. CASE k = 26  BY <1>27, SMT DEF PowerIs, Pow
<1>28. CASE k = 27  BY <1>28, SMT DEF PowerIs, Pow
<1>29. CASE k = 28  BY <1>29, SMT DEF PowerIs, Pow
<1>30. CASE k = 29  BY <1>30, SMT DEF PowerIs, Pow
<1> QED  BY <1>1, <1>2, <1>3, <1>4, <1>5, <1>6, <1>7, <1>8, <1>9, <1>10, <1>11, <1>12, <1>13, <1>14, <1>15, <1>16, <1>17, <1>18, <1>19, <1>20, <1>21, <1>22, <1>23, <1>24, <1>25, <1>26, <1>27, <1>28, <1>29, <1>30


LEMMA Shifts ==
    /\ \A n, k : Shr(n, k) = n \div Pow(k) /\ BitAt(n, k) = (n \div Pow(k)) % 2
    /\ \A n, k : Shl(n, k) = n * Pow(k)
BY Zenon DEF Shr, Shl, BitAt, Pow

Up(e) == {b + 5 : b \in e}
Xor(c, e) == (c \ e) \cup (e \ c)

LEMMA GroupBits ==
    ASSUME NEW v \in 0 .. 31
    PROVE  BitsOf(v) \subseteq 0 .. 4
<1> SUFFICES ASSUME NEW k \in 5 .. 29
             PROVE  BitAt(v, k) = 0
    BY DEF BitsOf
<1>1. Pow(k) \in Nat /\ Pow(k) > v
    BY Power DEF PowerIs
<1>2. v \div Pow(k) = 0
    BY <1>1
<1> QED  BY <1>2, Shifts

LEMMA NoBits == BitsOf(0) = {}
<1> SUFFICES ASSUME NEW k \in 0 .. 29
             PROVE  BitAt(0, k) = 0
    BY DEF BitsOf
<1>1. Pow(k) \in Nat /\ Pow(k) > 0
    BY Power DEF PowerIs
<1>2. 0 \div Pow(k) = 0
    BY <1>1
<1> QED  BY <1>2, Shifts

LEMMA FreeStep ==
    ASSUME NEW c \in Word, NEW e \in SUBSET (0 .. 24), NEW v \in 0 .. 31
    PROVE  PolyStep(Xor(c, e), v) = Xor(PolyStep(c, 0), Up(e) \cup BitsOf(v))
<1> DEFINE d == Xor(c, e)
           K == {k \in 1 .. 5 : 24 + k \in c}
           odd(b) == Odd({k \in K : b \in Generator[k]})
           low(x, y) == {b + 5 : b \in {z \in x : z < 25}} \cup BitsOf(y)
<1>1. {k \in 1 .. 5 : 24 + k \in d} = K
    BY DEF Xor
<1>2. PolyStep(d, v) = {b \in 0 .. 29 : odd(b) # (b \in low(d, v))}
    BY <1>1, Zenon DEF PolyStep
<1>3. PolyStep(c, 0) = {b \in 0 .. 29 : odd(b) # (b \in low(c, 0))}
    BY Zenon DEF PolyStep
<1>4. \A b : odd(b) \in BOOLEAN
    BY DEF Odd
<1> HIDE DEF odd
<1>5. ASSUME NEW b \in 0 .. 29
      PROVE  b \in low(d, v) <=> ~ (b \in low(c, 0) <=> b \in Up(e) \cup BitsOf(v))
    <2>1. BitsOf(v) \subseteq 0 .. 4 /\ BitsOf(0) = {}
        BY GroupBits, NoBits
    <2>2. b \in low(d, v) <=> (b >= 5 /\ b - 5 \in d) \/ b \in BitsOf(v)
        BY DEF Word, Xor
    <2>3. b \in low(c, 0) <=> b >= 5 /\ b - 5 \in c
        BY <2>1 DEF Word
    <2>4. b \in Up(e) <=> b >= 5 /\ b - 5 \in e
        BY DEF Up
    <2>5. b - 5 \in d <=> ~ (b - 5 \in c <=> b - 5 \in e)
        BY DEF Xor
    <2>6. b \in BitsOf(v) => b < 5
        BY <2>1
    <2> HIDE DEF low, d
    <2> QED  BY <2>2, <2>3, <2>4, <2>5, <2>6
<1>6. Up(e) \cup BitsOf(v) \subseteq 0 .. 29
    BY GroupBits DEF Up
<1> HIDE DEF low
<1>7. ASSUME NEW b \in 0 .. 29
      PROVE  b \in PolyStep(d, v) <=> b \in Xor(PolyStep(c, 0), Up(e) \cup BitsOf(v))
    BY <1>2, <1>3, <1>4, <1>5 DEF Xor
<1> QED  BY <1>2, <1>3, <1>6, <1>7 DEF Xor, d

\* The groups of the checksum hold its bits, the first one the highest five.
LEMMA Nibble ==
    ASSUME NEW b0 \in 0 .. 1, NEW b1 \in 0 .. 1, NEW b2 \in 0 .. 1,
           NEW b3 \in 0 .. 1, NEW b4 \in 0 .. 1,
           NEW n, n = b0 + 2 * b1 + 4 * b2 + 8 * b3 + 16 * b4
    PROVE  /\ n \in 0 .. 31
           /\ \A k \in 0 .. 4 : k \in BitsOf(n) <=>
                 \/ (k = 0 /\ b0 = 1) \/ (k = 1 /\ b1 = 1) \/ (k = 2 /\ b2 = 1)
                 \/ (k = 3 /\ b3 = 1) \/ (k = 4 /\ b4 = 1)
<1>1. n \in 0 .. 31
    OBVIOUS
<1>2. \A k \in 0 .. 4 : k \in BitsOf(n) <=> (n \div Pow(k)) % 2 = 1
    BY Shifts DEF BitsOf
<1>3. /\ Pow(0) = 1 /\ Pow(1) = 2 /\ Pow(2) = 4 /\ Pow(3) = 8 /\ Pow(4) = 16
    BY SMT DEF Pow
<1>4. /\ (n \div 1) % 2 = b0 /\ (n \div 2) % 2 = b1 /\ (n \div 4) % 2 = b2
      /\ (n \div 8) % 2 = b3 /\ (n \div 16) % 2 = b4
    <2>1. n = b0 + 2 * (b1 + 2 * (b2 + 2 * (b3 + 2 * b4)))
        OBVIOUS
    <2>2. (n \div 1) % 2 = b0
        OBVIOUS
    <2>3. n \div 2 = b1 + 2 * (b2 + 2 * (b3 + 2 * b4))
        BY <2>1
    <2>4. n \div 4 = b2 + 2 * (b3 + 2 * b4)
        BY <2>1
    <2>5. n \div 8 = b3 + 2 * b4
        BY <2>1
    <2>6. n \div 16 = b4
        BY <2>1
    <2> QED  BY <2>2, <2>3, <2>4, <2>5, <2>6
<1>5. ASSUME NEW k \in 0 .. 4
      PROVE  k \in BitsOf(n) <=>
                 \/ (k = 0 /\ b0 = 1) \/ (k = 1 /\ b1 = 1) \/ (k = 2 /\ b2 = 1)
                 \/ (k = 3 /\ b3 = 1) \/ (k = 4 /\ b4 = 1)
    <2>1. k = 0 \/ k = 1 \/ k = 2 \/ k = 3 \/ k = 4
        OBVIOUS
    <2>2. /\ 0 \in BitsOf(n) <=> b0 = 1
          /\ 1 \in BitsOf(n) <=> b1 = 1
          /\ 2 \in BitsOf(n) <=> b2 = 1
          /\ 3 \in BitsOf(n) <=> b3 = 1
          /\ 4 \in BitsOf(n) <=> b4 = 1
        BY <1>2, <1>3, <1>4
    <2> HIDE DEF BitsOf
    <2> QED  BY <2>1, <2>2
<1> QED  BY <1>1, <1>5

\* The sum that the checksum is made of, and the bits in its group i.
SumOf(values) == Xor(PolyMod(ExpandHRP \o values \o Zeros(6)), {0})
GroupOf(mod, i) == {k \in 0 .. 4 : 5 * (6 - i) + k \in mod}

LEMMA CheckGroups ==
    ASSUME NEW values, NEW i \in 1 .. 6
    PROVE  /\ CreateChecksum(values)[i] \in 0 .. 31
           /\ BitsOf(CreateChecksum(values)[i]) = GroupOf(SumOf(values), i)
<1> DEFINE mod == SumOf(values)
           Bit(b) == IF b \in mod THEN 1 ELSE 0
           at == 5 * (6 - i)
           n == Bit(at) + 2 * Bit(at + 1) + 4 * Bit(at + 2) + 8 * Bit(at + 3) + 16 * Bit(at + 4)
<1>1. CreateChecksum(values)[i] = n
    BY DEF CreateChecksum, SumOf, Xor
<1> HIDE DEF mod
<1>2. \A b : Bit(b) \in 0 .. 1 /\ (Bit(b) = 1 <=> b \in mod)
    OBVIOUS
<1> DEFINE b0 == Bit(at)  b1 == Bit(at + 1)  b2 == Bit(at + 2)  b3 == Bit(at + 3)
           b4 == Bit(at + 4)
<1>3. n = b0 + 2 * b1 + 4 * b2 + 8 * b3 + 16 * b4
    OBVIOUS
<1>4. b0 \in 0 .. 1 /\ b1 \in 0 .. 1 /\ b2 \in 0 .. 1 /\ b3 \in 0 .. 1 /\ b4 \in 0 .. 1
    OBVIOUS
<1>5. /\ (b0 = 1 <=> at + 0 \in mod) /\ (b1 = 1 <=> at + 1 \in mod)
      /\ (b2 = 1 <=> at + 2 \in mod) /\ (b3 = 1 <=> at + 3 \in mod)
      /\ (b4 = 1 <=> at + 4 \in mod)
    BY <1>2
<1> HIDE DEF b0, b1, b2, b3, b4, n, at
<1>6. /\ n \in 0 .. 31
      /\ \A k \in 0 .. 4 : k \in BitsOf(n) <=>
            \/ (k = 0 /\ b0 = 1) \/ (k = 1 /\ b1 = 1) \/ (k = 2 /\ b2 = 1)
            \/ (k = 3 /\ b3 = 1) \/ (k = 4 /\ b4 = 1)
    BY <1>3, <1>4, Nibble
<1>a. at \in Nat
    BY DEF at
<1>7. ASSUME NEW k \in 0 .. 4 PROVE k \in BitsOf(n) <=> at + k \in mod
    <2>1. k \in BitsOf(n) <=>
            \/ (k = 0 /\ b0 = 1) \/ (k = 1 /\ b1 = 1) \/ (k = 2 /\ b2 = 1)
            \/ (k = 3 /\ b3 = 1) \/ (k = 4 /\ b4 = 1)
        BY <1>6
    <2> HIDE DEF BitsOf
    <2> QED  BY <1>5, <2>1
<1>8. BitsOf(n) \subseteq 0 .. 4
    BY <1>6, GroupBits
<1> QED  BY <1>1, <1>6, <1>7, <1>8 DEF GroupOf, at, mod

LEMMA CheckLen ==
    ASSUME NEW values
    PROVE  CreateChecksum(values) \in Seq(0 .. 31) /\ Len(CreateChecksum(values)) = 6
<1> DEFINE chk == CreateChecksum(values)
<1>1. DOMAIN chk = 1 .. 6 /\ chk = [i \in 1 .. 6 |-> chk[i]]
    BY DEF CreateChecksum
<1>2. \A i \in 1 .. 6 : chk[i] \in 0 .. 31
    BY CheckGroups
<1> HIDE DEF chk
<1> DEFINE n == 6  F == 0 .. 31
<1>3. chk \in [1 .. n -> F] /\ n \in Nat
    BY <1>1, <1>2
<1> HIDE DEF n, F
<1>4. chk \in Seq(F) /\ Len(chk) = n
    BY <1>3
<1> QED  BY <1>4 DEF chk, n, F

\* The bits that the first j groups of the sum make.
Lowest(mod, j) == {b \in 0 .. 5 * j - 1 : b + 5 * (6 - j) \in mod}

LEMMA LowestNext ==
    ASSUME NEW mod, NEW i \in 0 .. 5
    PROVE  /\ Lowest(mod, i) \subseteq 0 .. 24
           /\ Lowest(mod, i + 1) = Up(Lowest(mod, i)) \cup GroupOf(mod, i + 1)
<1>1. ASSUME NEW b \in Lowest(mod, i + 1)
      PROVE  b \in Up(Lowest(mod, i)) \cup GroupOf(mod, i + 1)
    <2>1. b \in 0 .. 5 * (i + 1) - 1 /\ b + 5 * (6 - (i + 1)) \in mod
        BY DEF Lowest
    <2>2. CASE b < 5
        <3>1. b \in 0 .. 4 /\ 5 * (6 - (i + 1)) + b = b + 5 * (6 - (i + 1))
            BY <2>1, <2>2
        <3> QED  BY <2>1, <3>1 DEF GroupOf
    <2>3. CASE b >= 5
        <3>1. /\ b - 5 \in 0 .. 5 * i - 1 /\ (b - 5) + 5 = b
              /\ (b - 5) + 5 * (6 - i) = b + 5 * (6 - (i + 1))
            BY <2>1, <2>3
        <3>2. b - 5 \in Lowest(mod, i)
            BY <2>1, <3>1 DEF Lowest
        <3> QED  BY <3>1, <3>2 DEF Up
    <2> QED  BY <2>1, <2>2, <2>3
<1>2. ASSUME NEW a \in Lowest(mod, i) PROVE a + 5 \in Lowest(mod, i + 1) /\ a \in 0 .. 24
    <2>1. a \in 0 .. 5 * i - 1 /\ a + 5 * (6 - i) \in mod
        BY DEF Lowest
    <2>2. /\ a + 5 \in 0 .. 5 * (i + 1) - 1 /\ a \in 0 .. 24
          /\ (a + 5) + 5 * (6 - (i + 1)) = a + 5 * (6 - i)
        BY <2>1
    <2> QED  BY <2>1, <2>2 DEF Lowest
<1>3. ASSUME NEW k \in GroupOf(mod, i + 1) PROVE k \in Lowest(mod, i + 1)
    <2>1. k \in 0 .. 4 /\ 5 * (6 - (i + 1)) + k \in mod
        BY DEF GroupOf
    <2>2. k \in 0 .. 5 * (i + 1) - 1 /\ 5 * (6 - (i + 1)) + k = k + 5 * (6 - (i + 1))
        BY <2>1
    <2> QED  BY <2>1, <2>2 DEF Lowest
<1> QED  BY <1>1, <1>2, <1>3 DEF Up

\* Six groups behind any others: what is read is 1, a wallet finds no error.
LEMMA ChecksumRight ==
    ASSUME NEW values \in Seq(0 .. 31)
    PROVE  PolyMod(ExpandHRP \o Bech32Encode(values)) = {0}
<1> DEFINE chk == CreateChecksum(values)
           u   == ExpandHRP \o values
           N   == Len(u)
           v   == u \o Zeros(6)
           w   == ExpandHRP \o (values \o chk)
           mod == SumOf(values)
<1>1. /\ N \in Nat /\ Len(v) = N + 6 /\ Len(w) = N + 6
      /\ \A i \in 1 .. N : v[i] = w[i]
      /\ \A j \in 1 .. 6 : v[N + j] = 0 /\ w[N + j] = chk[j]
    <2> DEFINE F == 0 .. 31
    <2>1. chk \in Seq(F) /\ Len(chk) = 6 /\ values \in Seq(F)
        BY CheckLen
    <2> HIDE DEF chk
    <2>2. ExpandHRP \in Seq(F) /\ Len(ExpandHRP) = 5
        BY DEF ExpandHRP
    <2>3. Zeros(6) \in Seq(F) /\ Len(Zeros(6)) = 6 /\ \A j \in 1 .. 6 : Zeros(6)[j] = 0
        <3>1. 6 \in Nat /\ 0 \in F
            OBVIOUS
        <3> HIDE DEF F
        <3> QED  BY <3>1, ZerosIs
    <2> HIDE DEF F
    <2> DEFINE x == values \o chk  H == ExpandHRP
    <2>a. u \in Seq(F) /\ IsJoin(u, H, values)
        BY <2>1, <2>2, Joined
    <2>b. x \in Seq(F) /\ IsJoin(x, values, chk)
        BY <2>1, Joined
    <2> HIDE DEF x, u
    <2>c. w = H \o x
        BY DEF x
    <2>d. IsJoin(w, H, x) /\ IsJoin(v, u, Zeros(6))
        BY <2>2, <2>3, <2>a, <2>b, <2>c, Joined
    <2> HIDE DEF v, w
    <2>4. /\ Len(values) \in Nat /\ N = Len(H) + Len(values)
          /\ \A i \in 1 .. Len(H) : u[i] = H[i]
          /\ \A i \in 1 .. Len(values) : u[Len(H) + i] = values[i]
        BY <2>a DEF IsJoin
    <2>5. /\ Len(x) = Len(values) + Len(chk)
          /\ \A i \in 1 .. Len(values) : x[i] = values[i]
          /\ \A i \in 1 .. Len(chk) : x[Len(values) + i] = chk[i]
        BY <2>b DEF IsJoin
    <2>6. /\ Len(w) = Len(H) + Len(x)
          /\ \A i \in 1 .. Len(H) : w[i] = H[i]
          /\ \A i \in 1 .. Len(x) : w[Len(H) + i] = x[i]
        BY <2>d DEF IsJoin
    <2>7. /\ Len(v) = N + Len(Zeros(6))
          /\ \A i \in 1 .. N : v[i] = u[i]
          /\ \A i \in 1 .. Len(Zeros(6)) : v[N + i] = Zeros(6)[i]
        BY <2>d DEF IsJoin
    <2>8. Len(H) = 5 /\ Len(chk) = 6 /\ Len(Zeros(6)) = 6
        BY <2>1, <2>2, <2>3
    <2> HIDE DEF N, H
    <2>9. ASSUME NEW i \in 1 .. N PROVE v[i] = w[i]
        <3>1. CASE i \in 1 .. Len(H)
            BY <2>4, <2>6, <2>7, <3>1
        <3>2. CASE i > Len(H)
            <4> DEFINE k == i - Len(H)
            <4>1. k \in 1 .. Len(values) /\ k \in 1 .. Len(x) /\ i = Len(H) + k
                BY <2>4, <2>5, <2>8, <3>2
            <4> HIDE DEF k
            <4> QED  BY <2>4, <2>5, <2>6, <2>7, <4>1
        <3> QED  BY <2>8, <3>1, <3>2
    <2>10. ASSUME NEW j \in 1 .. 6 PROVE v[N + j] = 0 /\ w[N + j] = chk[j]
        <3>1. Len(values) + j \in 1 .. Len(x) /\ N + j = Len(H) + (Len(values) + j)
            BY <2>4, <2>5, <2>8
        <3>2. w[N + j] = x[Len(values) + j]
            BY <2>6, <3>1
        <3> QED  BY <2>3, <2>5, <2>7, <2>8, <3>2
    <2>11. N \in Nat /\ Len(v) = N + 6 /\ Len(w) = N + 6
        <3>1. N = 5 + Len(values) /\ Len(x) = Len(values) + 6 /\ Len(w) = 5 + Len(x)
            BY <2>4, <2>5, <2>6, <2>8
        <3>2. Len(v) = N + 6 /\ Len(values) \in Nat
            BY <2>4, <2>7, <2>8
        <3> QED  BY <3>1, <3>2
    <2> QED  BY <2>9, <2>10, <2>11
<1> HIDE DEF N, v, w, chk
<1>a. Len(v) \in Nat /\ Len(w) \in Nat
    BY <1>1
<1>b. N \in Nat
    BY <1>1
<1>2. PICK c : Sums(c, v) /\ PolyMod(v) = c[Len(v)]
    BY <1>a, PolyModUnfold
<1>3. PICK d : Sums(d, w) /\ PolyMod(w) = d[Len(w)]
    BY <1>a, PolyModUnfold
<1>4. /\ c \in [0 .. N + 6 -> Word] /\ c[0] = {0}
      /\ \A i \in 1 .. N + 6 : c[i] = PolyStep(c[i - 1], v[i])
    BY <1>1, <1>2 DEF Sums
<1>5. d[0] = {0} /\ \A i \in 1 .. N + 6 : d[i] = PolyStep(d[i - 1], w[i])
    BY <1>1, <1>3 DEF Sums
<1>6. mod = Xor(c[N + 6], {0})
    <2>1. SumOf(values) = Xor(PolyMod(v), {0})
        BY DEF SumOf, v, u
    <2> QED  BY <1>1, <1>2, <2>1
<1> HIDE DEF mod
<1>7. d[N] = c[N]
    <2> DEFINE T == {i \in Nat : i <= N => d[i] = c[i]}
    <2>1. 0 \in T
        BY <1>4, <1>5
    <2>2. ASSUME NEW i \in Nat, i \in T PROVE i + 1 \in T
        <3>1. CASE i + 1 <= N
            <4>1. i + 1 \in 1 .. N /\ i + 1 \in 1 .. N + 6 /\ (i + 1) - 1 = i /\ i <= N
                BY <1>1, <3>1
            <4>2. d[i] = c[i]
                BY <2>2, <4>1
            <4> QED  BY <1>1, <1>4, <1>5, <4>1, <4>2
        <3> QED  BY <3>1
    <2> HIDE DEF T
    <2>3. N \in T
        BY <1>1, <2>1, <2>2, Induct
    <2> QED  BY <1>1, <2>3 DEF T
<1>8. ASSUME NEW j \in 0 .. 6 PROVE d[N + j] = Xor(c[N + j], Lowest(mod, j))
    <2> DEFINE T == {i \in Nat : i <= 6 => d[N + i] = Xor(c[N + i], Lowest(mod, i))}
    <2>1. 0 \in T
        <3>1. Lowest(mod, 0) = {} /\ N + 0 = N
            BY <1>1 DEF Lowest
        <3>2. d[N + 0] = Xor(c[N + 0], Lowest(mod, 0))
            BY <1>7, <3>1 DEF Xor
        <3> QED  BY <3>2
    <2>2. ASSUME NEW i \in Nat, i \in T PROVE i + 1 \in T
        <3> SUFFICES ASSUME i + 1 <= 6
                     PROVE  d[N + (i + 1)] = Xor(c[N + (i + 1)], Lowest(mod, i + 1))
            OBVIOUS
        <3>1. /\ i + 1 \in 1 .. 6 /\ N + (i + 1) \in 1 .. N + 6 /\ i \in 0 .. 5
              /\ N + (i + 1) - 1 = N + i /\ N + i \in 0 .. N + 6
            BY <1>1
        <3>2. d[N + i] = Xor(c[N + i], Lowest(mod, i))
            BY <2>2, <3>1
        <3>a. v[N + (i + 1)] = 0 /\ w[N + (i + 1)] = chk[i + 1]
            BY <1>1, <3>1
        <3> DEFINE m == N + (i + 1)
        <3>3. d[m] = PolyStep(d[N + i], chk[i + 1]) /\ c[m] = PolyStep(c[N + i], 0)
            <4>1. m \in 1 .. N + 6 /\ m - 1 = N + i /\ v[m] = 0 /\ w[m] = chk[i + 1]
                <5>1. v[m] = 0 /\ w[m] = chk[i + 1]
                    BY <3>a
                <5>2. m \in 1 .. N + 6 /\ m - 1 = N + i
                    BY <1>b, <3>1
                <5> QED  BY <5>1, <5>2
            <4> HIDE DEF m
            <4>2. d[m] = PolyStep(d[m - 1], w[m]) /\ c[m] = PolyStep(c[m - 1], v[m])
                BY <1>4, <1>5, <4>1
            <4> QED  BY <4>1, <4>2
        <3>5. /\ chk[i + 1] \in 0 .. 31
              /\ BitsOf(chk[i + 1]) = GroupOf(mod, i + 1)
            BY <3>1, CheckGroups DEF mod, chk
        <3>6. Lowest(mod, i) \in SUBSET (0 .. 24) /\ c[N + i] \in Word
            BY <1>4, <3>1, LowestNext
        <3>7. Lowest(mod, i + 1) = Up(Lowest(mod, i)) \cup GroupOf(mod, i + 1)
            BY <3>1, LowestNext
        <3> DEFINE a == c[N + i]  e == Lowest(mod, i)  g == chk[i + 1]
        <3>8. PolyStep(Xor(a, e), g) = Xor(PolyStep(a, 0), Up(e) \cup BitsOf(g))
            <4> HIDE DEF a, e, g
            <4>1. a \in Word /\ e \in SUBSET (0 .. 24) /\ g \in 0 .. 31
                BY <3>5, <3>6 DEF a, e, g
            <4> QED  BY <4>1, FreeStep
        <3> HIDE DEF m
        <3>9. d[m] = Xor(c[m], Lowest(mod, i + 1))
            BY <3>2, <3>3, <3>5, <3>7, <3>8
        <3> QED  BY <3>9 DEF m
    <2> HIDE DEF T
    <2>3. j \in T
        BY <2>1, <2>2, Induct
    <2> QED  BY <2>3 DEF T
<1>9. Lowest(mod, 6) = mod
    <2>1. c[N + 6] \in Word
        BY <1>1, <1>4
    <2>2. mod \subseteq 0 .. 29
        <3>1. \A b \in mod : b \in c[N + 6] \/ b = 0
            BY <1>6 DEF Xor
        <3>2. \A b \in c[N + 6] : b \in 0 .. 29
            BY <2>1, Zenon DEF Word
        <3>3. 0 \in 0 .. 29
            OBVIOUS
        <3> QED  BY <3>1, <3>2, <3>3
    <2>3. Lowest(mod, 6) = {b \in 0 .. 29 : b + 0 \in mod}
        BY DEF Lowest
    <2>4. \A b \in 0 .. 29 : b + 0 = b
        OBVIOUS
    <2> QED  BY <2>2, <2>3, <2>4
<1>10. d[N + 6] = Xor(c[N + 6], mod)
    BY <1>8, <1>9
<1>11. d[N + 6] = {0}
    BY <1>6, <1>10 DEF Xor
<1>12. PolyMod(w) = {0}
    BY <1>1, <1>3, <1>11
<1> QED  BY <1>12 DEF Bech32Encode, w, chk

-----------------------------------------------------------------------------
\* Division, for divisors that are not literals.
LEMMA DivIs ==
    ASSUME NEW p \in Nat, p > 0, NEW y \in Nat, NEW r \in 0 .. p - 1
    PROVE  (p * y + r) \div p = y /\ (p * y + r) % p = r
<1> DEFINE n == p * y + r  q == n \div p  e == n % p
<1>1. n \in Nat
    OBVIOUS
<1>2. q \in Int /\ e \in 0 .. p - 1 /\ n = p * q + e
    <2> HIDE DEF n
    <2> QED  BY <1>1
<1> HIDE DEF q, e
<1>3. p * (q - y) = r - e
    BY <1>2
<1>4. ~(q - y >= 1)
    <2> SUFFICES ASSUME q - y >= 1 PROVE FALSE
        OBVIOUS
    <2>1. p * (q - y) >= p
        BY <1>2
    <2> QED  BY <1>2, <1>3, <2>1
<1>5. ~(q - y <= -1)
    <2> SUFFICES ASSUME q - y <= -1 PROVE FALSE
        OBVIOUS
    <2>1. p * (q - y) <= -p
        BY <1>2
    <2> QED  BY <1>2, <1>3, <2>1
<1>6. q = y
    BY <1>2, <1>4, <1>5
<1>7. e = r
    BY <1>2, <1>6
<1> QED  BY <1>6, <1>7 DEF q, e

LEMMA PowIs ==
    /\ Pow(0) = 1 /\ Pow(1) = 2 /\ Pow(2) = 4 /\ Pow(3) = 8 /\ Pow(4) = 16
    /\ Pow(5) = 32 /\ Pow(6) = 64 /\ Pow(7) = 128 /\ Pow(8) = 256 /\ Pow(9) = 512
    /\ Pow(10) = 1024 /\ Pow(11) = 2048 /\ Pow(12) = 4096
BY SMT DEF Pow

LEMMA PowSum ==
    ASSUME NEW s \in 0 .. 12, NEW j \in 0 .. 12, s + j <= 12
    PROVE  Pow(s + j) = Pow(s) * Pow(j) /\ Pow(s) \in Nat /\ Pow(s) > 0
<1>1. CASE s = 0  BY <1>1, PowIs
<1>2. CASE s = 1  BY <1>2, PowIs
<1>3. CASE s = 2  BY <1>3, PowIs
<1>4. CASE s = 3  BY <1>4, PowIs
<1>5. CASE s = 4  BY <1>5, PowIs
<1>6. CASE s = 5  BY <1>6, PowIs
<1>7. CASE s = 6  BY <1>7, PowIs
<1>8. CASE s = 7  BY <1>8, PowIs
<1>9. CASE s = 8  BY <1>9, PowIs
<1>10. CASE s = 9  BY <1>10, PowIs
<1>11. CASE s = 10  BY <1>11, PowIs
<1>12. CASE s = 11  BY <1>12, PowIs
<1>13. CASE s = 12  BY <1>13, PowIs
<1> QED  BY <1>1, <1>2, <1>3, <1>4, <1>5, <1>6, <1>7, <1>8, <1>9, <1>10, <1>11, <1>12, <1>13

\* A number of two parts, s bits in the lower one.
Split(n, s, a, b) == /\ s \in 0 .. 12 /\ a \in Nat /\ b \in Nat /\ b < Pow(s)
                     /\ n = Pow(s) * a + b

LEMMA HighBits ==
    ASSUME NEW n, NEW s, NEW a, NEW b, Split(n, s, a, b), NEW m \in s .. 12
    PROVE  BitAt(n, m) = BitAt(a, m - s)
<1> DEFINE j == m - s
<1>a. /\ s \in 0 .. 12 /\ a \in Nat /\ b \in Nat /\ b < Pow(s) /\ n = Pow(s) * a + b
      /\ j \in 0 .. 12 /\ s + j <= 12 /\ m = s + j
    BY DEF Split
<1> HIDE DEF j
<1> DEFINE p == Pow(s)  q == Pow(j)  y == a \div q  r == a % q
<1>1. p \in Nat /\ q \in Nat /\ p > 0 /\ q > 0 /\ Pow(s + j) = p * q /\ b < p
    <2>1. Pow(s + j) = Pow(s) * Pow(j) /\ Pow(s) \in Nat /\ Pow(s) > 0
        BY <1>a, PowSum
    <2>2. Pow(j) \in Nat /\ Pow(j) > 0
        <3>1. j + s <= 12
            BY <1>a
        <3> QED  BY <1>a, <3>1, PowSum
    <2> QED  BY <1>a, <2>1, <2>2
<1> HIDE DEF p, q
<1>2. y \in Nat /\ r \in 0 .. q - 1 /\ a = q * y + r
    BY <1>1, <1>a
<1> HIDE DEF y, r
<1> DEFINE d == p * q  e == p * r + b
<1>3. d \in Nat /\ d > 0 /\ e \in Nat /\ e <= d - 1
    <2>1. p * q \in Nat /\ p * q > 0 /\ p * r \in Nat
        BY <1>1, <1>2, <1>a
    <2>2. p * r <= p * (q - 1)
        BY <1>1, <1>2
    <2>3. p * (q - 1) = p * q - p
        BY <1>1
    <2> QED  BY <1>1, <1>a, <2>1, <2>2, <2>3
<1>4. p * a + b = d * y + e
    BY <1>1, <1>2, <1>a
<1> HIDE DEF d, e
<1>5. (d * y + e) \div d = y
    BY <1>2, <1>3, DivIs
<1>6. BitAt(p * a + b, s + j) = ((p * a + b) \div d) % 2
    BY <1>1, Shifts DEF d
<1>7. BitAt(a, j) = y % 2
    BY Shifts DEF y, q
<1> QED  BY <1>4, <1>5, <1>6, <1>7, <1>a DEF p, j

LEMMA LowBits ==
    ASSUME NEW n, NEW s, NEW a, NEW b, Split(n, s, a, b), NEW m \in 0 .. s - 1
    PROVE  BitAt(n, m) = BitAt(b, m)
<1>a. /\ s \in 0 .. 12 /\ a \in Nat /\ b \in Nat /\ n = Pow(s) * a + b
      /\ m \in Nat /\ m < s
    BY DEF Split
<1> DEFINE k == s - (m + 1)
           p == Pow(m)  q == Pow(k)  y == b \div p  r == b % p
<1>1. Pow(s) = p * (2 * q) /\ p \in Nat /\ q \in Nat /\ p > 0
    <2>1. m \in 0 .. 12 /\ k \in 0 .. 12 /\ m + (1 + k) <= 12 /\ 1 + k \in 0 .. 12
          /\ 1 \in 0 .. 12 /\ s = m + (1 + k)
        BY <1>a
    <2> HIDE DEF k
    <2> DEFINE u == 1 + k  w == 1
    <2>a. w \in 0 .. 12 /\ w + k <= 12 /\ u \in 0 .. 12 /\ s = m + u /\ m + u <= 12
        BY <2>1
    <2>b. u = w + k
        OBVIOUS
    <2> HIDE DEF u, w
    <2>2. Pow(u) = Pow(w) * q /\ Pow(s) = p * Pow(u) /\ p \in Nat /\ p > 0
        BY <2>1, <2>a, <2>b, PowSum
    <2>3. q \in Nat
        <3>1. k + 0 <= 12 /\ 0 \in 0 .. 12
            BY <2>1
        <3> QED  BY <2>1, <3>1, PowSum
    <2>4. Pow(w) = 2
        BY PowIs DEF w
    <2> QED  BY <2>2, <2>3, <2>4
<1> HIDE DEF p, q
<1>2. y \in Nat /\ r \in 0 .. p - 1 /\ b = p * y + r
    BY <1>1, <1>a
<1> HIDE DEF y, r
<1> DEFINE z == 2 * (q * a) + y
<1>3. q * a \in Nat
    BY <1>1, <1>a
<1>4. Pow(s) * a + b = p * z + r
    <2>1. (p * (2 * q)) * a = p * (2 * (q * a))
        BY <1>1, <1>a
    <2>2. p * (2 * (q * a)) + p * y = p * z
        BY <1>1, <1>2, <1>3
    <2> QED  BY <1>1, <1>2, <1>a, <2>1, <2>2
<1>5. z \in Nat /\ z % 2 = y % 2
    BY <1>2, <1>3
<1> HIDE DEF z
<1>6. (p * z + r) \div p = z
    BY <1>1, <1>2, <1>5, DivIs
<1>7. BitAt(Pow(s) * a + b, m) = ((Pow(s) * a + b) \div p) % 2
    BY Shifts DEF p
<1>8. BitAt(b, m) = y % 2
    BY Shifts DEF y, p
<1> QED  BY <1>4, <1>5, <1>6, <1>7, <1>8, <1>a

\* What is lost at the top of acc does not reach its lowest twelve bits.
Accs == 0 .. 4095
Wide(acc, byte)  == 256 * acc + byte
Taken(acc, byte) == Wide(acc, byte) % 4096

LEMMA TakenIs ==
    ASSUME NEW acc \in Accs, NEW byte \in Octets
    PROVE  /\ Taken(acc, byte) \in Accs
           /\ \E q : Split(Wide(acc, byte), 12, q, Taken(acc, byte))
<1> DEFINE n == Wide(acc, byte)  q == n \div 4096  r == n % 4096
<1>1. n \in Nat
    BY DEF Accs, Octets, Wide
<1> HIDE DEF n
<1>2. r \in 0 .. 4095 /\ q \in Nat /\ n = 4096 * q + r
    BY <1>1
<1>3. Taken(acc, byte) = r
    BY DEF Taken, n
<1> HIDE DEF q, r
<1>4. Split(n, 12, q, r)
    BY <1>2, PowIs DEF Split
<1> QED  BY <1>2, <1>3, <1>4 DEF n, Accs

LEMMA TakenBits ==
    ASSUME NEW acc \in Accs, NEW byte \in Octets, NEW m \in 0 .. 11
    PROVE  BitAt(Taken(acc, byte), m) =
               IF m < 8 THEN BitAt(byte, m) ELSE BitAt(acc, m - 8)
<1> DEFINE x == Taken(acc, byte)  n == Wide(acc, byte)  s == 12  t == 8
<1>1. PICK q : Split(n, s, q, x)
    BY TakenIs
<1>2. Split(n, t, acc, byte)
    <2>1. acc \in Nat /\ byte \in Nat /\ byte < 256
        BY DEF Accs, Octets
    <2>2. Pow(t) = 256 /\ t \in 0 .. 12
        BY PowIs
    <2> HIDE DEF t
    <2>3. n = Pow(t) * acc + byte
        BY <2>2 DEF Wide
    <2> HIDE DEF n
    <2> QED  BY <2>1, <2>2, <2>3 DEF Split
<1>3. m \in 0 .. s - 1 /\ (m < t => m \in 0 .. t - 1) /\ (~(m < t) => m \in t .. 12)
    OBVIOUS
<1> HIDE DEF x, n, s, t
<1>4. BitAt(n, m) = BitAt(x, m)
    BY <1>1, <1>3, LowBits
<1>5. BitAt(n, m) = IF m < t THEN BitAt(byte, m) ELSE BitAt(acc, m - t)
    BY <1>2, <1>3, LowBits, HighBits
<1> QED  BY <1>4, <1>5 DEF x, t

\* The bits of a group are five that follow each other in acc.
LEMMA GroupBit ==
    ASSUME NEW a \in Nat, NEW s \in 0 .. 7, NEW j \in 0 .. 4
    PROVE  BitAt(Shr(a, s) % 32, j) = BitAt(a, s + j)
<1> DEFINE p == Pow(s)  y == a \div p  r == a % p  q == y \div 32  x == y % 32  t == 5
           m == s + j
<1>1. p \in Nat /\ p > 0
    <2>1. s \in 0 .. 12 /\ s + 0 <= 12 /\ 0 \in 0 .. 12
        OBVIOUS
    <2> QED  BY <2>1, PowSum
<1> HIDE DEF p
<1>2. y \in Nat /\ r \in 0 .. p - 1 /\ a = p * y + r
    BY <1>1
<1>3. Shr(a, s) = y
    BY Shifts DEF p
<1> HIDE DEF y, r
<1>4. q \in Nat /\ x \in 0 .. 31 /\ y = 32 * q + x
    BY <1>2
<1> HIDE DEF q, x
<1>5. Split(y, t, q, x) /\ j \in 0 .. t - 1
    BY <1>4, PowIs DEF Split
<1>6. Split(a, s, y, r) /\ m \in s .. 12 /\ m - s = j
    BY <1>1, <1>2 DEF Split, p
<1> HIDE DEF t, m
<1>7. BitAt(y, j) = BitAt(x, j)
    BY <1>5, LowBits
<1>8. BitAt(a, m) = BitAt(y, j)
    BY <1>6, HighBits
<1> QED  BY <1>3, <1>7, <1>8 DEF x, m

LEMMA NoBit ==
    ASSUME NEW k \in 0 .. 29
    PROVE  BitAt(0, k) = 0
<1>1. Pow(k) \in Nat /\ Pow(k) > 0
    BY Power DEF PowerIs
<1>2. 0 \div Pow(k) = 0
    BY <1>1
<1> QED  BY <1>2, Shifts

\* The last group: the bits that are left over, and zeros.
LEMMA LastBits ==
    ASSUME NEW acc \in Nat, NEW b \in 1 .. 4, NEW r \in 0 .. 4
    PROVE  /\ Shl(acc, 5 - b) % 32 \in 0 .. 31
           /\ BitAt(Shl(acc, 5 - b) % 32, 4 - r) =
                 IF r < b THEN BitAt(acc, b - 1 - r) ELSE 0
<1> DEFINE s == 5 - b  p == Pow(s)  n == Shl(acc, s)  q == n \div 32  x == n % 32
           m == 4 - r  t == 5  zero == 0
<1>1. /\ s \in 0 .. 12 /\ m \in 0 .. 29 /\ m \in 0 .. t - 1
      /\ (r < b => m \in s .. 12 /\ m - s = b - 1 - r) /\ (~(r < b) => m \in 0 .. s - 1)
    OBVIOUS
<1>2. p \in Nat /\ 0 < p
    <2>1. s + 0 <= 12 /\ 0 \in 0 .. 12
        OBVIOUS
    <2> HIDE DEF s
    <2> QED  BY <1>1, <2>1, PowSum
<1> HIDE DEF s
<1>3. n = p * acc
    <2>1. n = acc * p
        BY Shifts
    <2> HIDE DEF p, n
    <2> QED  BY <1>2, <2>1
<1>4. Split(n, s, acc, zero)
    <2> HIDE DEF n
    <2> QED  BY <1>1, <1>2, <1>3 DEF Split
<1>5. n \in Nat
    <2> HIDE DEF n, p
    <2> QED  BY <1>2, <1>3
<1> HIDE DEF n, zero
<1>6. q \in Nat /\ x \in 0 .. 31 /\ n = 32 * q + x
    BY <1>5
<1> HIDE DEF q, x
<1>7. Split(n, t, q, x)
    BY <1>6, PowIs DEF Split
<1> HIDE DEF t
<1>a. BitAt(zero, m) = 0
    BY <1>1, NoBit DEF zero
<1> HIDE DEF m
<1>8. BitAt(x, m) = BitAt(n, m)
    BY <1>1, <1>7, LowBits
<1>9. BitAt(n, m) = IF r < b THEN BitAt(acc, m - s) ELSE BitAt(zero, m)
    BY <1>1, <1>4, LowBits, HighBits
<1>10. BitAt(x, m) = IF r < b THEN BitAt(acc, b - 1 - r) ELSE 0
    BY <1>1, <1>8, <1>9, <1>a
<1> QED  BY <1>6, <1>10 DEF x, n, s, m

-----------------------------------------------------------------------------
\* __ConvertBits() conserves bits: bit i of the groups and bit i of the bytes.
Fives == 0 .. 31
Bit5(groups, i) == BitAt(groups[(i \div 5) + 1], 4 - (i % 5))
Bit8(bytes, i)  == BitAt(bytes[(i \div 8) + 1], 7 - (i % 8))

\* What __ConvertBits() has after i bytes: the bits of their groups and, in acc,
\* the bits that are left.
Left   == 0 .. 4
Buffer == [acc : Accs, bits : Left, out : Seq(Fives)]
Converted(p, src, i) ==
    /\ p \in Buffer /\ 5 * Len(p.out) + p.bits = 8 * i
    /\ \A q \in 0 .. 5 * Len(p.out) - 1 : Bit5(p.out, q) = Bit8(src, q)
    /\ \A q \in 0 .. p.bits - 1 :
          BitAt(p.acc, p.bits - 1 - q) = Bit8(src, 5 * Len(p.out) + q)

\* A byte more: its acc, and the one group or the two that are full then.
NextAcc(p, byte) == Taken(p.acc, byte)
Groups(p, byte) == [k \in 1 .. (p.bits + 8) \div 5 |->
                       Shr(NextAcc(p, byte), (p.bits + 8) - 5 * k) % 32]

LEMMA BufferIs ==
    ASSUME NEW p \in Buffer
    PROVE  p.acc \in Accs /\ p.bits \in Left /\ p.out \in Seq(Fives)
BY DEF Buffer

LEMMA Lengths ==
    ASSUME NEW b \in 0 .. 4, NEW B, B = b + 8, NEW n, n = B \div 5
    PROVE  n \in 1 .. 2 /\ B \in 8 .. 12 /\ B % 5 \in 0 .. 4 /\ B = 5 * n + (B % 5)
<1>1. B \in 8 .. 12
    OBVIOUS
<1>2. n \in Nat /\ B % 5 \in 0 .. 4 /\ B = 5 * n + (B % 5)
    BY <1>1
<1> QED  BY <1>1, <1>2

LEMMA ByteConverted ==
    ASSUME NEW p \in Buffer, NEW byte \in Octets
    PROVE  /\ ConvertByte(p, byte) \in Buffer
           /\ ConvertByte(p, byte).acc = NextAcc(p, byte)
           /\ ConvertByte(p, byte).bits = (p.bits + 8) % 5
           /\ IsJoin(ConvertByte(p, byte).out, p.out, Groups(p, byte))
           /\ Len(Groups(p, byte)) = (p.bits + 8) \div 5
<1> DEFINE a == NextAcc(p, byte)  B == p.bits + 8  n == B \div 5  g == Groups(p, byte)
           z == p.acc
<1>1. z \in Accs /\ p.bits \in 0 .. 4 /\ p.out \in Seq(Fives)
    BY BufferIs DEF Left
<1>2. a \in Accs
    <2>1. a = Taken(z, byte)
        BY DEF NextAcc
    <2>2. Taken(z, byte) \in Accs
        <3> HIDE DEF z
        <3> QED  BY <1>1, TakenIs
    <2> QED  BY <2>1, <2>2
<1>3. B \in 8 .. 12 /\ B % 5 \in 0 .. 4 /\ n \in 1 .. 2 /\ B = 5 * n + (B % 5)
    BY <1>1, Lengths
<1>5. g = [k \in 1 .. n |-> Shr(a, B - 5 * k) % 32]
    BY Zenon DEF Groups
<1>9. ConvertByte(p, byte) = [acc |-> a, bits |-> B % 5, out |-> p.out \o g]
    <2>1. ConvertByte(p, byte) =
              [acc |-> a, bits |-> B % 5,
               out |-> p.out \o [k \in 1 .. n |-> Shr(a, B - 5 * k) % 32]]
        BY Zenon DEF ConvertByte, NextAcc, Taken, Wide
    <2> HIDE DEF a, B, n, g
    <2> QED  BY <1>5, <2>1
<1> HIDE DEF a, n, g, B
<1>4. ASSUME NEW k \in 1 .. n PROVE Shr(a, B - 5 * k) % 32 \in Fives
    <2> DEFINE s == B - 5 * k  t == Pow(s)
    <2>1. s \in 0 .. 12 /\ s + 0 <= 12 /\ 0 \in 0 .. 12
        BY <1>3
    <2> HIDE DEF s
    <2>2. t \in Nat /\ t > 0
        BY <2>1, PowSum
    <2> HIDE DEF t
    <2>3. Shr(a, s) = a \div t
        BY Shifts DEF t
    <2>4. a \div t \in Nat
        BY <1>2, <2>2 DEF Accs
    <2> QED  BY <2>3, <2>4 DEF Fives, s
<1>6. g \in [1 .. n -> Fives] /\ n \in Nat
    BY <1>3, <1>4, <1>5
<1>7. g \in Seq(Fives) /\ Len(g) = n
    BY <1>6
<1>8. p.out \o g \in Seq(Fives) /\ IsJoin(p.out \o g, p.out, g)
    BY <1>1, <1>7, Joined
<1> DEFINE o == p.out \o g
<1> HIDE DEF o
<1>10. o \in Seq(Fives) /\ IsJoin(o, p.out, g) /\ ConvertByte(p, byte) = [acc |-> a, bits |-> B % 5, out |-> o]
    BY <1>8, <1>9 DEF o
<1>11. ConvertByte(p, byte) \in Buffer
    BY <1>2, <1>3, <1>10 DEF Buffer, Left
<1>12. (p.bits + 8) % 5 = B % 5 /\ (p.bits + 8) \div 5 = n
    BY DEF n, B
<1> QED  BY <1>7, <1>10, <1>11, <1>12 DEF a, g

\* The bits of acc, the highest first: those that were left and those of the byte.
LEMMA AccBits ==
    ASSUME NEW src \in Seq(Octets), NEW i \in Nat, i < Len(src), NEW p, Converted(p, src, i),
           NEW j \in 0 .. p.bits + 7
    PROVE  BitAt(NextAcc(p, src[i + 1]), p.bits + 7 - j) = Bit8(src, 5 * Len(p.out) + j)
<1> DEFINE b == p.bits  c == p.acc  m == b + 7 - j  byte == src[i + 1]  L == Len(p.out)
           a == NextAcc(p, byte)
<1>1. /\ c \in Accs /\ b \in 0 .. 4 /\ L \in Nat /\ byte \in Octets /\ j \in 0 .. b + 7
      /\ 5 * L + b = 8 * i
    <2>1. c \in Accs /\ b \in 0 .. 4 /\ p.out \in Seq(Fives) /\ 5 * L + b = 8 * i
        BY BufferIs DEF Converted, Left
    <2>2. i + 1 \in 1 .. Len(src)
        OBVIOUS
    <2>4. L \in Nat
        BY <2>1
    <2>5. byte \in Octets
        BY <2>2
    <2> QED  BY <2>1, <2>4, <2>5
<1>2. a = Taken(c, byte)
    BY DEF NextAcc
<1>3. \A q \in 0 .. b - 1 : BitAt(c, b - 1 - q) = Bit8(src, 5 * L + q)
    BY DEF Converted
<1>a. \A h : Bit8(src, h) = BitAt(src[(h \div 8) + 1], 7 - (h % 8))
    BY DEF Bit8
<1> SUFFICES BitAt(a, m) = Bit8(src, 5 * L + j)
    OBVIOUS
<1> HIDE DEF a, b, c, L
<1>b. m \in 0 .. 11
    BY <1>1
<1>4. BitAt(a, m) = IF m < 8 THEN BitAt(byte, m) ELSE BitAt(c, m - 8)
    <2> HIDE DEF m, byte
    <2>1. BitAt(Taken(c, byte), m) = IF m < 8 THEN BitAt(byte, m) ELSE BitAt(c, m - 8)
        BY <1>1, <1>b, TakenBits
    <2> QED  BY <1>2, <2>1
<1>5. CASE j < b
    <2>1. m >= 8 /\ m - 8 = b - 1 - j /\ j \in 0 .. b - 1
        BY <1>1, <1>5
    <2> HIDE DEF m
    <2> QED  BY <1>3, <1>4, <1>b, <2>1
<1>6. CASE j >= b
    <2> DEFINE t == j - b
    <2>1. t \in 0 .. 7 /\ m < 8 /\ m = 7 - t /\ 5 * L + j = 8 * i + t
        BY <1>1, <1>6
    <2> HIDE DEF t, m
    <2>2. (8 * i + t) \div 8 = i /\ (8 * i + t) % 8 = t
        BY <2>1
    <2>3. Bit8(src, 8 * i + t) = BitAt(byte, 7 - t)
        BY <1>a, <2>2
    <2> HIDE DEF byte
    <2>4. BitAt(a, m) = BitAt(byte, m)
        BY <1>4, <2>1
    <2> QED  BY <2>1, <2>3, <2>4
<1> QED  BY <1>1, <1>5, <1>6

LEMMA ConvertStep ==
    ASSUME NEW src \in Seq(Octets), NEW i \in Nat, i < Len(src), NEW p, Converted(p, src, i)
    PROVE  Converted(ConvertByte(p, src[i + 1]), src, i + 1)
<1> DEFINE byte == src[i + 1]  x == ConvertByte(p, byte)  L == Len(p.out)
           b == p.bits  B == b + 8  n == B \div 5  g == Groups(p, byte)  a == NextAcc(p, byte)
<1>1. byte \in Octets /\ p \in Buffer /\ b \in 0 .. 4 /\ L \in Nat /\ 5 * L + b = 8 * i
    <2>1. p \in Buffer /\ 5 * L + b = 8 * i
        BY DEF Converted
    <2>2. b \in 0 .. 4 /\ p.out \in Seq(Fives)
        BY <2>1, BufferIs DEF Left
    <2>3. i + 1 \in 1 .. Len(src)
        OBVIOUS
    <2>4. byte \in Octets
        BY <2>3
    <2>5. L \in Nat
        BY <2>2
    <2> QED  BY <2>1, <2>2, <2>4, <2>5
<1>2. /\ x \in Buffer /\ x.acc = a /\ x.bits = B % 5 /\ IsJoin(x.out, p.out, g) /\ Len(g) = n
    BY <1>1, ByteConverted
<1>6. \A k \in 1 .. n : g[k] = Shr(a, B - 5 * k) % 32
    <2>1. g = [k \in 1 .. n |-> Shr(a, B - 5 * k) % 32]
        BY Zenon DEF Groups
    <2> HIDE DEF g, a, n, B
    <2> QED  BY <2>1
<1>a. a \in Nat
    <2>1. x.acc \in Accs /\ x.acc = a
        BY <1>2, BufferIs
    <2> HIDE DEF a, x
    <2>2. a \in Accs
        BY <2>1
    <2> QED  BY <2>2 DEF Accs
<1> HIDE DEF x, g, a, byte
<1>3. /\ Len(x.out) = L + n
      /\ \A k \in 1 .. L : x.out[k] = p.out[k]
      /\ \A k \in 1 .. n : x.out[L + k] = g[k]
    BY <1>2 DEF IsJoin
<1>4. n \in 1 .. 2 /\ B % 5 \in 0 .. 4 /\ B = 5 * n + (B % 5) /\ B \in 8 .. 12
    BY <1>1, Lengths
<1>5. \A j \in 0 .. B - 1 : BitAt(a, B - 1 - j) = Bit8(src, 5 * L + j)
    <2> TAKE j \in 0 .. B - 1
    <2>1. j \in 0 .. b + 7 /\ B - 1 - j = b + 7 - j
        <3> HIDE DEF b
        <3> QED  BY <1>1
    <2>2. BitAt(a, b + 7 - j) = Bit8(src, 5 * L + j)
        <3> HIDE DEF B
        <3> QED  BY <2>1, AccBits DEF a, byte
    <2> HIDE DEF B, L, b
    <2> QED  BY <2>1, <2>2
<1> HIDE DEF L, n, b
<1>7. 5 * Len(x.out) + x.bits = 8 * (i + 1)
    <2>1. 5 * (L + n) + (B % 5) = 8 * (i + 1)
        <3> DEFINE e == B % 5
        <3>1. B = 5 * n + e /\ e \in 0 .. 4 /\ B = b + 8
            BY <1>4 DEF b
        <3> HIDE DEF e, B, b
        <3>2. 5 * (L + n) + e = 8 * (i + 1)
            BY <1>1, <1>4, <3>1
        <3> QED  BY <3>2 DEF e
    <2> DEFINE e == B % 5
    <2> HIDE DEF e
    <2>2. x.bits = e
        BY <1>2 DEF e
    <2>3. 5 * (L + n) + e = 8 * (i + 1)
        BY <2>1 DEF e
    <2> QED  BY <1>3, <2>2, <2>3
<1> HIDE DEF B
<1>8. ASSUME NEW q \in 0 .. 5 * Len(x.out) - 1
      PROVE  Bit5(x.out, q) = Bit8(src, q)
    <2> DEFINE r == q % 5  h == q \div 5
    <2>1. q \in Nat /\ r \in 0 .. 4 /\ h \in Nat /\ q = 5 * h + r /\ q < 5 * (L + n)
        BY <1>1, <1>3, <1>4
    <2>2. Bit5(x.out, q) = BitAt(x.out[h + 1], 4 - r)
        BY DEF Bit5
    <2>a. Bit5(p.out, q) = BitAt(p.out[h + 1], 4 - r)
        BY DEF Bit5
    <2> HIDE DEF h, r
    <2>3. CASE q < 5 * L
        <3>1. h + 1 \in 1 .. L /\ q \in 0 .. 5 * L - 1
            BY <1>1, <2>1, <2>3
        <3>2. Bit5(x.out, q) = Bit5(p.out, q)
            BY <1>3, <2>2, <2>a, <3>1
        <3>3. Bit5(p.out, q) = Bit8(src, q)
            BY <3>1 DEF Converted, L
        <3> QED  BY <3>2, <3>3
    <2>4. CASE q >= 5 * L
        <3> DEFINE k == h + 1 - L  s == B - 5 * k  m == 4 - r  j == q - 5 * L
        <3>1. /\ k \in 1 .. n /\ h + 1 = L + k /\ m \in 0 .. 4 /\ s \in 0 .. 7
              /\ j \in 0 .. B - 1 /\ s + m = B - 1 - j /\ 5 * L + j = q
            <4>1. h >= L /\ h < L + n
                BY <1>1, <1>4, <2>1, <2>4
            <4>2. k \in 1 .. n /\ h + 1 = L + k
                BY <1>1, <1>4, <2>1, <4>1
            <4>3. s \in 0 .. 7 /\ m \in 0 .. 4
                BY <1>4, <2>1, <4>2
            <4>4. j = 5 * (k - 1) + r /\ 5 * L + j = q
                BY <1>1, <1>4, <2>1, <4>2
            <4>5. j \in 0 .. B - 1 /\ s + m = B - 1 - j
                <5> HIDE DEF j, k
                <5>1. j <= 5 * (n - 1) + 4 /\ j >= 0
                    BY <1>4, <2>1, <4>2, <4>4
                <5>2. B >= 5 * n /\ j \in Int
                    BY <1>4, <2>1, <4>2, <4>4
                <5>3. j \in 0 .. B - 1
                    BY <1>4, <5>1, <5>2
                <5>4. s + m = B - 1 - j
                    BY <1>4, <2>1, <4>2, <4>4
                <5> QED  BY <5>3, <5>4
            <4> QED  BY <4>2, <4>3, <4>4, <4>5
        <3>2. x.out[h + 1] = Shr(a, s) % 32
            BY <1>3, <1>6, <3>1
        <3> HIDE DEF k, s, m, j
        <3>3. a \in Nat
            BY <1>a
        <3>4. BitAt(Shr(a, s) % 32, m) = BitAt(a, s + m)
            BY <3>1, <3>3, GroupBit
        <3>5. BitAt(a, s + m) = Bit8(src, q)
            BY <1>5, <3>1
        <3> QED  BY <2>2, <3>2, <3>4, <3>5 DEF m
    <2> QED  BY <1>1, <2>1, <2>3, <2>4
<1>9. ASSUME NEW q \in 0 .. x.bits - 1
      PROVE  BitAt(x.acc, x.bits - 1 - q) = Bit8(src, 5 * Len(x.out) + q)
    <2> DEFINE j == 5 * n + q
    <2> DEFINE e == B % 5  E == x.bits
    <2>a. E = e /\ e \in 0 .. 4 /\ B = 5 * n + e /\ q \in 0 .. E - 1
        BY <1>2, <1>4
    <2> HIDE DEF e, E
    <2>1. /\ j \in 0 .. B - 1 /\ E - 1 - q = B - 1 - j
          /\ 5 * Len(x.out) + q = 5 * L + j
        BY <1>1, <1>3, <1>4, <2>a
    <2> HIDE DEF j
    <2>2. BitAt(a, E - 1 - q) = Bit8(src, 5 * Len(x.out) + q)
        BY <1>5, <2>1
    <2> QED  BY <1>2, <2>2 DEF E
<1> QED  BY <1>2, <1>7, <1>8, <1>9 DEF Converted, x, byte

-----------------------------------------------------------------------------
\* What __ConvertBits() has after each byte.
LEMMA ConvertUnfold ==
    ASSUME NEW src \in Seq(Octets)
    PROVE  \E f : /\ f[0] = [acc |-> 0, bits |-> 0, out |-> <<>>]
                  /\ \A i \in 1 .. Len(src) : f[i] = ConvertByte(f[i - 1], src[i])
                  /\ ConvertBits(src) =
                        IF f[Len(src)].bits = 0 THEN f[Len(src)].out
                        ELSE Append(f[Len(src)].out,
                                    Shl(f[Len(src)].acc, 5 - f[Len(src)].bits) % 32)
<1> DEFINE N == Len(src)
           empty == [acc |-> 0, bits |-> 0, out |-> <<>>]
           Def(f) == f = [i \in 0 .. N |-> IF i = 0 THEN empty ELSE ConvertByte(f[i - 1], src[i])]
           G == [x \in Buffer \X (1 .. N) |-> ConvertByte(x[1], src[x[2]])]
<1>1. empty \in Buffer /\ N \in Nat /\ G \in [Buffer \X (1 .. N) -> Buffer]
    <2>1. empty \in Buffer
        BY DEF Buffer, Accs, Left
    <2>2. \A p \in Buffer, i \in 1 .. N : ConvertByte(p, src[i]) \in Buffer
        <3> TAKE p \in Buffer, i \in 1 .. N
        <3>1. src[i] \in Octets
            OBVIOUS
        <3> QED  BY <3>1, ByteConverted
    <2> QED  BY <2>1, <2>2
<1>2. \A p \in Buffer, i \in 1 .. N : G[<<p, i>>] = ConvertByte(p, src[i])
    OBVIOUS
<1> HIDE DEF G, N, empty
<1>3. PICK f \in [0 .. N -> Buffer] : Turns(f, N, empty, G)
    BY <1>1, TurnsExist
<1>4. Def(f)
    <2>1. ASSUME NEW i \in 0 .. N
          PROVE  f[i] = IF i = 0 THEN empty ELSE ConvertByte(f[i - 1], src[i])
        <3>1. f[i] = IF i = 0 THEN empty ELSE G[<<f[i - 1], i>>]
            BY <1>3 DEF Turns
        <3>2. CASE i = 0
            BY <3>1, <3>2
        <3>3. CASE i # 0
            <4>1. i \in 1 .. N /\ i - 1 \in 0 .. N
                BY <1>1, <3>3
            <4> QED  BY <1>2, <3>1, <3>3, <4>1
        <3> QED  BY <3>2, <3>3
    <2> QED  BY <1>3, <2>1
<1> DEFINE c == CHOOSE c : Def(c)
<1>5. Def(c)
    BY <1>4
<1>6. ConvertBits(src) = IF c[N].bits = 0 THEN c[N].out
                         ELSE Append(c[N].out, Shl(c[N].acc, 5 - c[N].bits) % 32)
    BY DEF ConvertBits, N, empty
<1> HIDE DEF c
<1>7. c[0] = empty /\ \A i \in 1 .. N : c[i] = ConvertByte(c[i - 1], src[i])
    <2>1. ASSUME NEW i \in 1 .. N PROVE c[i] = ConvertByte(c[i - 1], src[i])
        <3>1. i \in 0 .. N /\ i # 0
            BY <1>1
        <3> QED  BY <1>5, <3>1
    <2>2. 0 \in 0 .. N
        BY <1>1
    <2> QED  BY <1>5, <2>1, <2>2
<1> QED  BY <1>6, <1>7 DEF N, empty

\* __ConvertBits() puts the bits of the bytes into groups of five.
LEMMA ConvertedBits ==
    ASSUME NEW src \in Seq(Octets)
    PROVE  /\ ConvertBits(src) \in Seq(Fives)
           /\ 5 * Len(ConvertBits(src)) - 8 * Len(src) \in 0 .. 4
           /\ \A q \in 0 .. 5 * Len(ConvertBits(src)) - 1 :
                 Bit5(ConvertBits(src), q) = IF q < 8 * Len(src) THEN Bit8(src, q) ELSE 0
<1> DEFINE N == Len(src)
<1>1. PICK f : /\ f[0] = [acc |-> 0, bits |-> 0, out |-> <<>>]
               /\ \A i \in 1 .. N : f[i] = ConvertByte(f[i - 1], src[i])
               /\ ConvertBits(src) =
                     IF f[N].bits = 0 THEN f[N].out
                     ELSE Append(f[N].out, Shl(f[N].acc, 5 - f[N].bits) % 32)
    BY ConvertUnfold
<1>2. Converted(f[N], src, N)
    <2> DEFINE T == {i \in Nat : i <= N => Converted(f[i], src, i)}
    <2>1. 0 \in T
        <3> DEFINE empty == [acc |-> 0, bits |-> 0, out |-> <<>>]
        <3>1. empty \in Buffer
            BY DEF Buffer, Accs, Left
        <3>2. empty.bits = 0 /\ Len(empty.out) = 0
            OBVIOUS
        <3>3. f[0] = empty
            BY <1>1
        <3> HIDE DEF empty
        <3>4. Converted(empty, src, 0)
            BY <3>1, <3>2 DEF Converted
        <3> QED  BY <3>3, <3>4
    <2>2. ASSUME NEW i \in Nat, i \in T PROVE i + 1 \in T
        <3>1. CASE i + 1 <= N
            <4>1. i < Len(src) /\ i + 1 \in 1 .. N /\ (i + 1) - 1 = i /\ i <= N
                BY <3>1
            <4>2. Converted(f[i], src, i) /\ f[i + 1] = ConvertByte(f[i], src[i + 1])
                BY <1>1, <2>2, <4>1
            <4>3. Converted(f[i + 1], src, i + 1)
                BY <4>1, <4>2, ConvertStep
            <4> QED  BY <4>3
        <3> QED  BY <3>1
    <2> HIDE DEF T
    <2>3. N \in T
        BY <2>1, <2>2, Induct
    <2> QED  BY <2>3 DEF T
<1> DEFINE p == f[N]  b == p.bits  o == p.out  r == ConvertBits(src)
<1>3. /\ p.acc \in Nat /\ b \in 0 .. 4 /\ o \in Seq(Fives) /\ N \in Nat
      /\ 5 * Len(o) + b = 8 * N
      /\ \A q \in 0 .. 5 * Len(o) - 1 : Bit5(o, q) = Bit8(src, q)
      /\ \A q \in 0 .. b - 1 : BitAt(p.acc, b - 1 - q) = Bit8(src, 5 * Len(o) + q)
    <2>1. p.acc \in Accs /\ b \in Left /\ o \in Seq(Fives)
        BY <1>2, BufferIs DEF Converted
    <2>2. p.acc \in Nat /\ b \in 0 .. 4 /\ N \in Nat
        <3>1. (\A z \in Accs : z \in Nat) /\ (\A z \in Left : z \in 0 .. 4)
            BY DEF Accs, Left
        <3>2. N \in Nat
            OBVIOUS
        <3> HIDE DEF b, N
        <3> QED  BY <2>1, <3>1, <3>2
    <2>3. /\ 5 * Len(o) + b = 8 * N
          /\ \A q \in 0 .. 5 * Len(o) - 1 : Bit5(o, q) = Bit8(src, q)
          /\ \A q \in 0 .. b - 1 : BitAt(p.acc, b - 1 - q) = Bit8(src, 5 * Len(o) + q)
        <3> HIDE DEF N
        <3> QED  BY <1>2, Zenon DEF Converted
    <2> QED  BY <2>1, <2>2, <2>3
<1>4. r = IF b = 0 THEN o ELSE Append(o, Shl(p.acc, 5 - b) % 32)
    BY <1>1
<1>a. Len(o) \in Nat /\ N \in Nat /\ 5 * Len(o) + b = 8 * N
    BY <1>3
<1> DEFINE a == p.acc
<1> HIDE DEF r, N, a
<1>5. CASE b = 0
    <2>1. 5 * Len(o) = 8 * N
        BY <1>3, <1>a, <1>5
    <2>2. r = o
        BY <1>4, <1>5
    <2> QED  BY <1>3, <1>a, <2>1, <2>2 DEF r, N
<1>6. CASE b # 0
    <2> DEFINE g == Shl(a, 5 - b) % 32
    <2>1. a \in Nat /\ b \in 1 .. 4
        BY <1>3, <1>6 DEF a
    <2>2. g \in 0 .. 31 /\ \A t \in 0 .. 4 : BitAt(g, 4 - t) = IF t < b THEN BitAt(a, b - 1 - t) ELSE 0
        <3> HIDE DEF b
        <3> QED  BY <2>1, LastBits
    <2>3. r = Append(o, g)
        BY <1>4, <1>6 DEF a
    <2> HIDE DEF g, o, b
    <2>4. /\ r \in Seq(Fives) /\ Len(r) = Len(o) + 1 /\ r[Len(o) + 1] = g
          /\ \A k \in 1 .. Len(o) : r[k] = o[k]
        <3>1. g \in Fives
            BY <2>2 DEF Fives
        <3>2. o \in Seq(Fives)
            BY <1>3
        <3> QED  BY <2>3, <3>1, <3>2, AppendProperties
    <2>5. 5 * Len(r) - 8 * N \in 0 .. 4
        <3> DEFINE k == Len(o)  l == Len(r)
        <3>1. l = k + 1 /\ k \in Nat /\ N \in Nat /\ 5 * k + b = 8 * N
            BY <1>a, <2>4
        <3> HIDE DEF k, l
        <3> QED  BY <2>1, <3>1 DEF l
    <2>6. ASSUME NEW q \in 0 .. 5 * Len(r) - 1
          PROVE  Bit5(r, q) = IF q < 8 * N THEN Bit8(src, q) ELSE 0
        <3> DEFINE h == q \div 5  t == q % 5
        <3>1. h \in Nat /\ t \in 0 .. 4 /\ q = 5 * h + t /\ q < 5 * (Len(o) + 1)
            BY <1>a, <2>4
        <3>2. Bit5(r, q) = BitAt(r[h + 1], 4 - t) /\ Bit5(o, q) = BitAt(o[h + 1], 4 - t)
            BY DEF Bit5
        <3> HIDE DEF h, t
        <3>3. CASE h < Len(o)
            <4>1. h + 1 \in 1 .. Len(o) /\ q \in 0 .. 5 * Len(o) - 1 /\ q < 8 * N
                BY <1>3, <1>a, <2>1, <3>1, <3>3
            <4>2. Bit5(r, q) = Bit5(o, q)
                BY <2>4, <3>2, <4>1
            <4> QED  BY <1>3, <4>1, <4>2
        <3>4. CASE h >= Len(o)
            <4>1. h = Len(o) /\ q = 5 * Len(o) + t
                BY <1>a, <3>1, <3>4
            <4>2. Bit5(r, q) = IF t < b THEN BitAt(a, b - 1 - t) ELSE 0
                BY <2>2, <2>4, <3>1, <3>2, <4>1
            <4>3. t < b <=> q < 8 * N
                BY <1>3, <1>a, <2>1, <3>1, <4>1
            <4>4. CASE t < b
                <5>1. t \in 0 .. b - 1
                    BY <2>1, <3>1, <4>4
                <5>2. BitAt(a, b - 1 - t) = Bit8(src, 5 * Len(o) + t)
                    BY <1>3, <5>1 DEF a
                <5> QED  BY <4>1, <4>2, <4>3, <4>4, <5>2
            <4>5. CASE ~(t < b)
                BY <4>2, <4>3, <4>5
            <4> QED  BY <4>4, <4>5
        <3> QED  BY <1>a, <3>1, <3>3, <3>4
    <2> QED  BY <2>4, <2>5, <2>6 DEF r, N
<1> QED  BY <1>5, <1>6

LEMMA ConvertedSame ==
    ASSUME NEW src \in Seq(Octets)
    PROVE  Same5(ConvertBits(src), src)
<1>1. \A groups, i : Bit5(groups, i) = BitAt(groups[(i \div 5) + 1], 4 - (i % 5))
    BY DEF Bit5
<1>2. \A bytes, i : Bit8(bytes, i) = BitAt(bytes[(i \div 8) + 1], 7 - (i % 8))
    BY DEF Bit8
<1> DEFINE r == ConvertBits(src)
<1>3. /\ 5 * Len(r) - 8 * Len(src) \in 0 .. 4
      /\ \A q \in 0 .. 5 * Len(r) - 1 : Bit5(r, q) = IF q < 8 * Len(src) THEN Bit8(src, q) ELSE 0
    BY ConvertedBits
<1> HIDE DEF r
<1>4. Same5(r, src) <=>
          /\ 5 * Len(r) - 8 * Len(src) \in 0 .. 4
          /\ \A q \in 0 .. 5 * Len(r) - 1 :
                Bit5(r, q) = IF q < 8 * Len(src) THEN Bit8(src, q) ELSE 0
    BY DEF Same5, Bit5, Bit8
<1> QED  BY <1>3, <1>4 DEF r

-----------------------------------------------------------------------------
\* What a number becomes, digit after digit of base b, from x on.
Table(b, x, s, X) == /\ X \in [0 .. Len(s) -> Nat] /\ X[0] = x
                     /\ \A i \in 1 .. Len(s) : X[i] = b * X[i - 1] + s[i]
Chain(b, x, s, y) == \E X : Table(b, x, s, X) /\ X[Len(s)] = y

LEMMA ChainMade ==
    ASSUME NEW b \in Nat, NEW x \in Nat, NEW s \in Seq(Nat)
    PROVE  \E X : Table(b, x, s, X)
<1> DEFINE N == Len(s)  G == [z \in Nat \X (1 .. N) |-> b * z[1] + s[z[2]]]
<1>1. N \in Nat /\ G \in [Nat \X (1 .. N) -> Nat]
    <2>1. \A z \in Nat \X (1 .. N) : b * z[1] + s[z[2]] \in Nat
        <3> TAKE z \in Nat \X (1 .. N)
        <3>1. z[1] \in Nat /\ s[z[2]] \in Nat
            OBVIOUS
        <3>2. b * z[1] \in Nat
            BY <3>1
        <3> QED  BY <3>1, <3>2
    <2> QED  BY <2>1
<1>2. \A y \in Nat, i \in 1 .. N : G[<<y, i>>] = b * y + s[i]
    OBVIOUS
<1> HIDE DEF G, N
<1>3. PICK f \in [0 .. N -> Nat] : Turns(f, N, x, G)
    BY <1>1, TurnsExist
<1>4. ASSUME NEW i \in 1 .. N PROVE f[i] = b * f[i - 1] + s[i]
    <2>1. i \in 0 .. N /\ i # 0 /\ i - 1 \in 0 .. N
        BY <1>1
    <2>2. f[i] = G[<<f[i - 1], i>>]
        BY <1>3, <2>1 DEF Turns
    <2>3. f[i - 1] \in Nat
        BY <1>3, <2>1
    <2> QED  BY <1>2, <2>2, <2>3
<1>5. f[0] = x
    BY <1>1, <1>3 DEF Turns
<1> QED  BY <1>3, <1>4, <1>5 DEF Table, N

LEMMA ChainEmpty ==
    ASSUME NEW b, NEW x \in Nat
    PROVE  Chain(b, x, <<>>, x)
<1> DEFINE X == [i \in 0 .. 0 |-> x]
<1>1. Len(<<>>) = 0 /\ X \in [0 .. 0 -> Nat] /\ X[0] = x
    OBVIOUS
<1> HIDE DEF X
<1>2. Table(b, x, <<>>, X)
    BY <1>1 DEF Table
<1> QED  BY <1>1, <1>2 DEF Chain

LEMMA ChainAppend ==
    ASSUME NEW b \in Nat, NEW x, NEW s \in Seq(Nat), NEW y, Chain(b, x, s, y), NEW e \in Nat
    PROVE  Chain(b, x, Append(s, e), b * y + e) /\ y \in Nat
<1> DEFINE N == Len(s)  t == Append(s, e)
<1>1. PICK X : Table(b, x, s, X) /\ X[N] = y
    BY DEF Chain
<1>2. /\ N \in Nat /\ Len(t) = N + 1 /\ t[N + 1] = e
      /\ \A i \in 1 .. N : t[i] = s[i]
    BY AppendProperties
<1> HIDE DEF N, t
<1>3. /\ X \in [0 .. N -> Nat] /\ X[0] = x
      /\ \A i \in 1 .. N : X[i] = b * X[i - 1] + s[i]
    BY <1>1 DEF Table, N
<1>4. y \in Nat
    BY <1>1, <1>2, <1>3
<1> DEFINE z == b * y + e  Y == [i \in 0 .. N + 1 |-> IF i = N + 1 THEN z ELSE X[i]]
<1>5. z \in Nat
    <2>1. b * y \in Nat
        BY <1>4
    <2> QED  BY <2>1
<1>a. z = b * y + e
    OBVIOUS
<1> HIDE DEF z
<1>6. /\ Y \in [0 .. N + 1 -> Nat] /\ Y[0] = x /\ Y[N + 1] = z
      /\ \A i \in 0 .. N : Y[i] = X[i]
    <2>1. \A i \in 0 .. N + 1 : i = N + 1 \/ i \in 0 .. N
        BY <1>2
    <2>2. 0 \in 0 .. N /\ N + 1 \in 0 .. N + 1 /\ \A i \in 0 .. N : i # N + 1 /\ i \in 0 .. N + 1
        BY <1>2
    <2> QED  BY <1>3, <1>5, <2>1, <2>2
<1> HIDE DEF Y
<1>7. ASSUME NEW i \in 1 .. N + 1 PROVE Y[i] = b * Y[i - 1] + t[i]
    <2>1. CASE i = N + 1
        <3>1. i - 1 = N /\ N \in 0 .. N
            BY <1>2, <2>1
        <3> QED  BY <1>1, <1>2, <1>6, <1>a, <2>1, <3>1
    <2>2. CASE i \in 1 .. N
        <3>1. i \in 0 .. N /\ i - 1 \in 0 .. N
            BY <1>2, <2>2
        <3> QED  BY <1>2, <1>3, <1>6, <2>2, <3>1
    <2> QED  BY <1>2, <2>1, <2>2
<1>8. Table(b, x, t, Y)
    BY <1>2, <1>6, <1>7 DEF Table
<1> QED  BY <1>2, <1>4, <1>6, <1>8, <1>a DEF Chain, t

LEMMA ChainFront ==
    ASSUME NEW b \in Nat, NEW x, NEW s \in Seq(Nat), NEW e \in Nat, NEW y,
           Chain(b, x, Append(s, e), y)
    PROVE  \E w \in Nat : Chain(b, x, s, w) /\ y = b * w + e
<1> DEFINE N == Len(s)  t == Append(s, e)
<1>1. PICK X : Table(b, x, t, X) /\ X[Len(t)] = y
    BY DEF Chain
<1>2. /\ N \in Nat /\ Len(t) = N + 1 /\ t[N + 1] = e
      /\ \A i \in 1 .. N : t[i] = s[i]
    BY AppendProperties
<1> HIDE DEF N, t
<1>3. /\ X \in [0 .. N + 1 -> Nat] /\ X[0] = x
      /\ \A i \in 1 .. N + 1 : X[i] = b * X[i - 1] + t[i]
    BY <1>1, <1>2 DEF Table
<1> DEFINE Y == [i \in 0 .. N |-> X[i]]
<1>4. /\ Y \in [0 .. N -> Nat] /\ Y[0] = x /\ \A i \in 0 .. N : Y[i] = X[i]
    <2>1. 0 \in 0 .. N /\ \A i \in 0 .. N : i \in 0 .. N + 1
        BY <1>2
    <2> QED  BY <1>3, <2>1
<1> HIDE DEF Y
<1>5. ASSUME NEW i \in 1 .. N PROVE Y[i] = b * Y[i - 1] + s[i]
    <2>1. i \in 0 .. N /\ i - 1 \in 0 .. N /\ i \in 1 .. N + 1
        BY <1>2
    <2> QED  BY <1>2, <1>3, <1>4, <2>1
<1>6. N \in 0 .. N /\ N + 1 \in 1 .. N + 1 /\ (N + 1) - 1 = N
    BY <1>2
<1>7. Y[N] \in Nat /\ y = b * Y[N] + e
    BY <1>1, <1>2, <1>3, <1>4, <1>6
<1>8. Table(b, x, s, Y)
    BY <1>4, <1>5 DEF Table, N
<1> QED  BY <1>7, <1>8 DEF Chain, N

\* A digit in front.
LEMMA ChainPrepend ==
    ASSUME NEW b \in Nat, NEW x \in Nat, NEW e \in Nat, NEW s \in Seq(Nat), NEW y,
           NEW x1, x1 = b * x + e, Chain(b, x1, s, y)
    PROVE  Chain(b, x, <<e>> \o s, y)
<1> DEFINE N == Len(s)  t == <<e>> \o s
<1>1. PICK X : Table(b, x1, s, X) /\ X[N] = y
    BY DEF Chain
<1>2. /\ N \in Nat /\ Len(t) = N + 1 /\ t[1] = e
      /\ \A i \in 1 .. N : t[1 + i] = s[i]
    <2> DEFINE u == <<e>>
    <2>1. u \in Seq(Nat) /\ Len(u) = 1 /\ u[1] = e
        OBVIOUS
    <2> HIDE DEF u
    <2>2. IsJoin(u \o s, u, s)
        BY <2>1, Joined
    <2>3. t = u \o s
        BY DEF u
    <2> HIDE DEF t
    <2> QED  BY <2>1, <2>2, <2>3 DEF IsJoin
<1> HIDE DEF N, t
<1>3. /\ X \in [0 .. N -> Nat] /\ X[0] = x1
      /\ \A i \in 1 .. N : X[i] = b * X[i - 1] + s[i]
    BY <1>1 DEF Table, N
<1> DEFINE Y == [i \in 0 .. N + 1 |-> IF i = 0 THEN x ELSE X[i - 1]]
<1>4. /\ Y \in [0 .. N + 1 -> Nat] /\ Y[0] = x
      /\ \A i \in 0 .. N : Y[1 + i] = X[i]
    <2>1. 0 \in 0 .. N + 1 /\ \A i \in 0 .. N + 1 : i = 0 \/ i - 1 \in 0 .. N
        BY <1>2
    <2>2. \A i \in 0 .. N : 1 + i \in 0 .. N + 1 /\ 1 + i # 0 /\ (1 + i) - 1 = i
        BY <1>2
    <2> QED  BY <1>3, <2>1, <2>2
<1> HIDE DEF Y
<1>5. ASSUME NEW i \in 1 .. N + 1 PROVE Y[i] = b * Y[i - 1] + t[i]
    <2>1. CASE i = 1
        <3>1. Y[1] = X[0]
            <4>1. 0 \in 0 .. N /\ 1 + 0 = 1
                BY <1>2
            <4> QED  BY <1>4, <4>1
        <3>2. i - 1 = 0
            BY <2>1
        <3> QED  BY <1>2, <1>3, <1>4, <2>1, <3>1, <3>2
    <2>2. CASE i # 1
        <3> DEFINE k == i - 1
        <3>1. k \in 1 .. N /\ i = 1 + k /\ k \in 0 .. N /\ k - 1 \in 0 .. N /\ 1 + (k - 1) = k
            BY <1>2, <2>2
        <3>2. i - 1 = k
            OBVIOUS
        <3> HIDE DEF k
        <3>3. Y[1 + k] = X[k] /\ Y[k] = X[k - 1] /\ t[1 + k] = s[k]
            BY <1>2, <1>4, <3>1
        <3>4. X[k] = b * X[k - 1] + s[k]
            BY <1>3, <3>1
        <3> QED  BY <3>1, <3>2, <3>3, <3>4
    <2> QED  BY <2>1, <2>2
<1>6. Y[N + 1] = y
    <2>1. N \in 0 .. N /\ 1 + N = N + 1
        BY <1>2
    <2> QED  BY <1>1, <1>4, <2>1
<1>7. Table(b, x, t, Y)
    BY <1>2, <1>4, <1>5 DEF Table
<1> QED  BY <1>2, <1>6, <1>7 DEF Chain, t

-----------------------------------------------------------------------------
\* Two sequences of digits without zeros in front that write the same number are
\* the same.
LEMMA Numbers ==
    ASSUME NEW S, S \subseteq Nat, NEW s \in Seq(S)
    PROVE  s \in Seq(Nat)
<1>1. s \in [1 .. Len(s) -> S] /\ Len(s) \in Nat
    OBVIOUS
<1>2. s \in [1 .. Len(s) -> Nat]
    BY <1>1
<1> QED  BY <1>1, <1>2

LEMMA Plain ==
    ASSUME NEW s \in Seq(Octets)
    PROVE  s \in Seq(Nat)
<1>1. Octets \subseteq Nat
    BY DEF Octets
<1> QED  BY <1>1, Numbers

\* There is one value.
LEMMA ChainOne ==
    ASSUME NEW b \in Nat, NEW x, NEW s \in Seq(Nat), NEW y, NEW z,
           Chain(b, x, s, y), Chain(b, x, s, z)
    PROVE  y = z
<1> DEFINE N == Len(s)
<1>1. PICK X : Table(b, x, s, X) /\ X[N] = y
    BY DEF Chain
<1>2. PICK Z : Table(b, x, s, Z) /\ Z[N] = z
    BY DEF Chain
<1>3. /\ N \in Nat /\ X[0] = x /\ Z[0] = x
      /\ \A i \in 1 .. N : X[i] = b * X[i - 1] + s[i] /\ Z[i] = b * Z[i - 1] + s[i]
    BY <1>1, <1>2 DEF Table
<1> HIDE DEF N
<1> DEFINE T == {i \in Nat : i <= N => X[i] = Z[i]}
<1>4. 0 \in T
    BY <1>3
<1>5. ASSUME NEW i \in Nat, i \in T PROVE i + 1 \in T
    <2>1. (i + 1) - 1 = i /\ (i + 1 <= N => i + 1 \in 1 .. N /\ i <= N)
        BY <1>3
    <2> QED  BY <1>3, <1>5, <2>1
<1> HIDE DEF T
<1>6. N \in T
    BY <1>3, <1>4, <1>5, Induct
<1> QED  BY <1>1, <1>2, <1>3, <1>6 DEF T

\* It grows, and zeros in front do not count.
LEMMA TableGrows ==
    ASSUME NEW b \in Nat \ {0}, NEW x, NEW s \in Seq(Nat), NEW X, Table(b, x, s, X),
           NEW j \in Nat, NEW i \in Nat, j + i <= Len(s)
    PROVE  X[j] <= X[j + i]
<1> DEFINE N == Len(s)  T == {k \in Nat : j + k <= N => X[j] <= X[j + k]}
<1>1. /\ N \in Nat /\ X \in [0 .. N -> Nat]
      /\ \A k \in 1 .. N : s[k] \in Nat /\ X[k] = b * X[k - 1] + s[k]
    BY DEF Table
<1> HIDE DEF N
<1>2. 0 \in T
    <2>1. j + 0 = j /\ (j <= N => j \in 0 .. N)
        BY <1>1
    <2> QED  BY <1>1, <2>1
<1>3. ASSUME NEW k \in Nat, k \in T PROVE k + 1 \in T
    <2> SUFFICES ASSUME j + (k + 1) <= N PROVE X[j] <= X[j + (k + 1)]
        OBVIOUS
    <2> DEFINE m == j + (k + 1)  u == X[j]  v == X[j + k]
    <2>1. m \in 1 .. N /\ m - 1 = j + k /\ j + k <= N /\ j \in 0 .. N /\ j + k \in 0 .. N
        BY <1>1
    <2>2. u <= v /\ u \in Nat /\ v \in Nat
        BY <1>1, <1>3, <2>1
    <2>3. X[m] = b * v + s[m] /\ s[m] \in Nat
        BY <1>1, <2>1
    <2> HIDE DEF u, v, m
    <2>4. v <= b * v /\ b * v \in Nat
        BY <2>2
    <2> DEFINE g == b * v  e == s[m]  z == X[m]
    <2>a. z = g + e /\ e \in Nat /\ v <= g /\ g \in Nat
        BY <2>3, <2>4
    <2> HIDE DEF g, e, z
    <2>b. u <= z
        BY <2>2, <2>a
    <2>5. u <= X[m]
        BY <2>b DEF z
    <2> QED  BY <2>5 DEF u, m
<1> HIDE DEF T
<1>4. i \in T
    BY <1>2, <1>3, Induct
<1> QED  BY <1>4 DEF T, N

LEMMA ChainStrip ==
    ASSUME NEW b \in Nat, NEW u \in Seq(Nat), NEW n \in Nat, NEW s \in Seq(Nat),
           NEW y, Chain(b, 0, u, y), Len(u) = n + Len(s),
           \A i \in 1 .. n : u[i] = 0, \A i \in 1 .. Len(s) : u[n + i] = s[i]
    PROVE  Chain(b, 0, s, y)
<1> DEFINE N == Len(s)
<1>1. PICK X : Table(b, 0, u, X) /\ X[n + N] = y
    BY DEF Chain
<1>2. /\ N \in Nat /\ X \in [0 .. n + N -> Nat] /\ X[0] = 0
      /\ \A i \in 1 .. n + N : X[i] = b * X[i - 1] + u[i]
    BY <1>1 DEF Table
<1> HIDE DEF N
<1>3. X[n] = 0
    <2> DEFINE T == {i \in Nat : i <= n => X[i] = 0}
    <2>1. 0 \in T
        BY <1>2
    <2>2. ASSUME NEW i \in Nat, i \in T PROVE i + 1 \in T
        <3> SUFFICES ASSUME i + 1 <= n PROVE X[i + 1] = 0
            OBVIOUS
        <3>1. i + 1 \in 1 .. n /\ i + 1 \in 1 .. n + N /\ (i + 1) - 1 = i /\ i <= n
            BY <1>2
        <3>2. X[i + 1] = b * 0 + 0
            BY <1>2, <2>2, <3>1
        <3> QED  BY <3>2
    <2> HIDE DEF T
    <2>3. n \in T
        BY <2>1, <2>2, Induct
    <2> QED  BY <2>3 DEF T
<1> DEFINE Y == [i \in 0 .. N |-> X[n + i]]
<1>4. Y \in [0 .. N -> Nat] /\ Y[0] = 0 /\ \A i \in 0 .. N : Y[i] = X[n + i]
    <2>1. 0 \in 0 .. N /\ n + 0 = n /\ \A i \in 0 .. N : n + i \in 0 .. n + N
        BY <1>2
    <2> QED  BY <1>2, <1>3, <2>1
<1> HIDE DEF Y
<1>5. ASSUME NEW i \in 1 .. N PROVE Y[i] = b * Y[i - 1] + s[i]
    <2>1. /\ n + i \in 1 .. n + N /\ (n + i) - 1 = n + (i - 1) /\ i \in 0 .. N
          /\ i - 1 \in 0 .. N
        BY <1>2
    <2>2. X[n + i] = b * X[n + (i - 1)] + u[n + i]
        BY <1>2, <2>1
    <2> QED  BY <1>4, <2>1, <2>2 DEF N
<1>6. Y[N] = y
    BY <1>1, <1>2, <1>4
<1>7. Table(b, 0, s, Y)
    BY <1>4, <1>5 DEF Table, N
<1> QED  BY <1>6, <1>7 DEF Chain, N

\* The bytes of a number without zeros in front are its own.
NoLead(s) == Len(s) > 0 => s[1] # 0

LEMMA Positive ==
    ASSUME NEW s \in Seq(Nat), NoLead(s), Len(s) > 0, NEW y, Chain(256, 0, s, y)
    PROVE  y > 0
<1>1. PICK X : Table(256, 0, s, X) /\ X[Len(s)] = y
    BY DEF Chain
<1>2. Len(s) \in Nat /\ s[1] \in Nat /\ s[1] # 0 /\ 1 \in 1 .. Len(s)
    BY DEF NoLead
<1>3. X[0] = 0 /\ X[1] = 256 * X[0] + s[1]
    BY <1>1, <1>2 DEF Table
<1>4. X[1] <= X[1 + (Len(s) - 1)]
    <2> DEFINE i == Len(s) - 1  b == 256
    <2>1. i \in Nat /\ 1 + i <= Len(s) /\ 1 \in Nat /\ b \in Nat \ {0}
        BY <1>2
    <2>2. Table(b, 0, s, X)
        BY <1>1
    <2> HIDE DEF i, b
    <2>3. X[1] <= X[1 + i]
        BY <2>1, <2>2, TableGrows
    <2> QED  BY <2>3 DEF i
<1>5. 1 + (Len(s) - 1) = Len(s) /\ y \in Nat
    BY <1>1, <1>2 DEF Table
<1> QED  BY <1>1, <1>2, <1>3, <1>4, <1>5

\* A sequence that is not empty, as its front and its last element.
LEMMA FrontLast ==
    ASSUME NEW S, NEW s \in Seq(S), Len(s) > 0
    PROVE  \E r \in Seq(S), e \in S :
              /\ s = Append(r, e) /\ Len(s) = Len(r) + 1
              /\ \A i \in 1 .. Len(r) : s[i] = r[i]
<1>1. s # <<>>
    OBVIOUS
<1>2. PICK r \in Seq(S), e \in S : s = Append(r, e)
    BY <1>1, SequenceEmptyOrAppend
<1> QED  BY <1>2, AppendProperties

LEMMA Unique ==
    ASSUME NEW s \in Seq(Octets), NEW t \in Seq(Octets), NoLead(s), NoLead(t),
           NEW y, Chain(256, 0, s, y), Chain(256, 0, t, y)
    PROVE  s = t
<1> DEFINE Same(u, v) == \A w : NoLead(u) /\ NoLead(v) /\ Chain(256, 0, u, w) /\ Chain(256, 0, v, w)
                                => u = v
           T == {n \in Nat : \A u, v \in Seq(Octets) : Len(u) = n => Same(u, v)}
<1>0. Octets \subseteq Nat /\ 256 \in Nat
    BY DEF Octets
<1>1. 0 \in T
    <2> SUFFICES ASSUME NEW u \in Seq(Octets), NEW v \in Seq(Octets), Len(u) = 0, NEW w,
                        NoLead(v), Chain(256, 0, u, w), Chain(256, 0, v, w)
                 PROVE  u = v
        OBVIOUS
    <2>0. u \in Seq(Nat) /\ v \in Seq(Nat)
        BY Plain
    <2>1. u = <<>>
        OBVIOUS
    <2>2. w = 0
        <3>1. Chain(256, 0, u, 0)
            BY <2>1, ChainEmpty
        <3> QED  BY <1>0, <2>0, <3>1, ChainOne
    <2>3. ~ (Len(v) > 0)
        BY <2>0, <2>2, Positive
    <2>4. v = <<>>
        BY <2>3
    <2> QED  BY <2>1, <2>4
<1>2. ASSUME NEW n \in Nat, n \in T PROVE n + 1 \in T
    <2> SUFFICES ASSUME NEW u \in Seq(Octets), NEW v \in Seq(Octets), Len(u) = n + 1, NEW w,
                        NoLead(u), NoLead(v), Chain(256, 0, u, w), Chain(256, 0, v, w)
                 PROVE  u = v
        OBVIOUS
    <2>1. u \in Seq(Nat) /\ v \in Seq(Nat) /\ Len(u) > 0
        BY Plain
    <2>2. w > 0
        BY <2>1, Positive
    <2>3. Len(v) > 0
        <3> SUFFICES ASSUME Len(v) = 0 PROVE FALSE
            OBVIOUS
        <3>1. v = <<>> /\ 0 \in Nat
            OBVIOUS
        <3>2. Chain(256, 0, v, 0)
            BY <3>1, ChainEmpty
        <3>3. w = 0
            BY <1>0, <2>1, <3>2, ChainOne
        <3> QED  BY <2>2, <3>3
    <2>4. PICK q \in Seq(Octets), e \in Octets :
              /\ u = Append(q, e) /\ Len(u) = Len(q) + 1
              /\ \A i \in 1 .. Len(q) : u[i] = q[i]
        BY <2>1, FrontLast
    <2>5. PICK r \in Seq(Octets), f \in Octets :
              /\ v = Append(r, f) /\ Len(v) = Len(r) + 1
              /\ \A i \in 1 .. Len(r) : v[i] = r[i]
        BY <2>3, FrontLast
    <2>6. q \in Seq(Nat) /\ r \in Seq(Nat) /\ e \in Nat /\ f \in Nat
        BY <1>0, Numbers
    <2>7. PICK x \in Nat : Chain(256, 0, q, x) /\ w = 256 * x + e
        BY <1>0, <2>4, <2>6, ChainFront
    <2>8. PICK z \in Nat : Chain(256, 0, r, z) /\ w = 256 * z + f
        BY <1>0, <2>5, <2>6, ChainFront
    <2>9. x = z /\ e = f
        <3>1. e \in 0 .. 255 /\ f \in 0 .. 255
            BY DEF Octets
        <3> HIDE DEF T
        <3> QED  BY <2>7, <2>8, <3>1
    <2>10. NoLead(q) /\ NoLead(r)
        <3>1. Len(q) \in Nat /\ Len(r) \in Nat
            OBVIOUS
        <3>2. /\ Len(q) > 0 => 1 \in 1 .. Len(q) /\ Len(u) > 0
              /\ Len(r) > 0 => 1 \in 1 .. Len(r) /\ Len(v) > 0
            BY <2>4, <2>5, <3>1
        <3> QED  BY <2>4, <2>5, <3>2 DEF NoLead
    <2>11. q = r
        <3>1. Len(q) = n
            BY <2>4
        <3> QED  BY <1>2, <2>7, <2>8, <2>9, <2>10, <3>1
    <2> QED  BY <2>4, <2>5, <2>9, <2>11
<1> DEFINE k == Len(s)
<1>3. k \in Nat
    OBVIOUS
<1> HIDE DEF T
<1>4. k \in T
    BY <1>1, <1>2, <1>3, Induct
<1> QED  BY <1>4 DEF T

-----------------------------------------------------------------------------
\* The digits of base58, and sequences turned round.
Digits == 0 .. 57

LEMMA ReverseAppend ==
    ASSUME NEW S, NEW s \in Seq(S), NEW e \in S
    PROVE  Ext!Reverse(Append(s, e)) = <<e>> \o Ext!Reverse(s)
<1> DEFINE n == Len(s)  t == Append(s, e)  r == Ext!Reverse(s)  u == <<e>>
<1>1. /\ n \in Nat /\ Len(t) = n + 1 /\ t[n + 1] = e
      /\ \A i \in 1 .. n : t[i] = s[i]
    BY AppendProperties
<1>2. r = [i \in 1 .. n |-> s[(n - i) + 1]]
    BY DEF Ext!Reverse
<1> HIDE DEF n
<1>3. \A i \in 1 .. n : s[(n - i) + 1] \in S
    <2> TAKE i \in 1 .. n
    <2>1. (n - i) + 1 \in 1 .. n
        BY <1>1
    <2> QED  BY <2>1 DEF n
<1>4. r \in [1 .. n -> S]
    BY <1>2, <1>3
<1> HIDE DEF r
<1>5. r \in Seq(S) /\ Len(r) = n
    BY <1>1, <1>4
<1>6. u \in Seq(S) /\ Len(u) = 1 /\ u[1] = e
    OBVIOUS
<1>a. Ext!Reverse(t) = [i \in 1 .. Len(t) |-> t[(Len(t) - i) + 1]]
    BY DEF Ext!Reverse
<1> HIDE DEF u, t
<1>7. u \o r \in Seq(S) /\ IsJoin(u \o r, u, r)
    BY <1>5, <1>6, Joined
<1> DEFINE x == u \o r
<1> HIDE DEF x
<1>8. /\ x \in Seq(S) /\ Len(x) = n + 1 /\ x[1] = e
      /\ \A i \in 1 .. n : x[1 + i] = r[i]
    <2>1. x \in Seq(S) /\ IsJoin(x, u, r)
        BY <1>7 DEF x
    <2>2. Len(x) = 1 + n /\ x[1] = u[1] /\ \A i \in 1 .. n : x[1 + i] = r[i]
        <3>1. 1 \in 1 .. 1
            OBVIOUS
        <3> QED  BY <1>5, <1>6, <2>1, <3>1 DEF IsJoin
    <2> QED  BY <1>1, <1>6, <2>1, <2>2
<1>9. ASSUME NEW i \in 1 .. n + 1 PROVE t[((n + 1) - i) + 1] = x[i]
    <2>1. CASE i = 1
        <3>1. ((n + 1) - i) + 1 = n + 1
            BY <1>1, <2>1
        <3> QED  BY <1>1, <1>8, <2>1, <3>1
    <2>2. CASE i # 1
        <3> DEFINE k == i - 1  m == (n - k) + 1
        <3>1. k \in 1 .. n /\ i = 1 + k /\ m \in 1 .. n /\ ((n + 1) - i) + 1 = m
            BY <1>1, <2>2
        <3> HIDE DEF k
        <3>2. x[i] = s[m] /\ t[m] = s[m]
            BY <1>1, <1>2, <1>8, <3>1
        <3> QED  BY <3>1, <3>2
    <2> QED  BY <2>1, <2>2
<1>10. x = [i \in 1 .. n + 1 |-> x[i]]
    BY <1>1, <1>8
<1>11. Ext!Reverse(t) = x
    BY <1>1, <1>9, <1>10, <1>a
<1> QED  BY <1>11 DEF x, t, u, r

LEMMA ReverseEmpty == Ext!Reverse(<<>>) = <<>>
BY DEF Ext!Reverse

LEMMA ReverseIs ==
    ASSUME NEW S, NEW s \in Seq(S)
    PROVE  /\ Ext!Reverse(s) \in Seq(S) /\ Len(Ext!Reverse(s)) = Len(s)
           /\ \A i \in 1 .. Len(s) : Ext!Reverse(s)[i] = s[(Len(s) - i) + 1]
<1> DEFINE n == Len(s)  r == Ext!Reverse(s)
<1>1. n \in Nat /\ r = [i \in 1 .. n |-> s[(n - i) + 1]]
    BY DEF Ext!Reverse
<1> HIDE DEF n, r
<1>2. \A i \in 1 .. n : s[(n - i) + 1] \in S
    <2> TAKE i \in 1 .. n
    <2>1. (n - i) + 1 \in 1 .. n
        BY <1>1
    <2> QED  BY <2>1 DEF n
<1>3. r \in [1 .. n -> S]
    BY <1>1, <1>2
<1>4. r \in Seq(S) /\ Len(r) = n
    BY <1>1, <1>3
<1> QED  BY <1>1, <1>4 DEF n, r

-----------------------------------------------------------------------------
\* How many zeros are in front.
LEMMA ZeroesIs ==
    ASSUME NEW S, NEW s \in Seq(S)
    PROVE  /\ Zeroes(s) \in 0 .. Len(s)
           /\ \A i \in 1 .. Zeroes(s) : s[i] = 0
           /\ Zeroes(s) < Len(s) => s[Zeroes(s) + 1] # 0
<1> DEFINE N == Len(s)
           Q(n) == /\ \A i \in 1 .. n : s[i] = 0
                   /\ n < N => s[n + 1] # 0
<1>1. N \in Nat
    OBVIOUS
<1>2. \E n \in 0 .. N : Q(n)
    <2> SUFFICES ASSUME \A n \in 0 .. N : ~Q(n) PROVE FALSE
        OBVIOUS
    <2> HIDE DEF N
    <2> DEFINE T == {n \in Nat : n <= N => \A i \in 1 .. n : s[i] = 0}
    <2>1. 0 \in T
        OBVIOUS
    <2>2. ASSUME NEW n \in Nat, n \in T PROVE n + 1 \in T
        <3> SUFFICES ASSUME n + 1 <= N, NEW i \in 1 .. n + 1 PROVE s[i] = 0
            OBVIOUS
        <3>1. n \in 0 .. N /\ n < N /\ (i = n + 1 \/ i \in 1 .. n)
            BY <1>1
        <3>2. \A k \in 1 .. n : s[k] = 0
            BY <2>2, <3>1
        <3>3. s[n + 1] = 0
            BY <3>1, <3>2
        <3> QED  BY <3>1, <3>2, <3>3
    <2>a. T = {n \in Nat : n <= N => \A i \in 1 .. n : s[i] = 0}
        OBVIOUS
    <2> HIDE DEF T
    <2>3. N \in T
        BY <1>1, <2>1, <2>2, Induct
    <2>4. Q(N) /\ N \in 0 .. N
        BY <1>1, <2>3, <2>a
    <2> QED  BY <2>4
<1>3. Zeroes(s) = CHOOSE n \in 0 .. N : Q(n)
    BY DEF Zeroes
<1> HIDE DEF N
<1> DEFINE z == Zeroes(s)
<1> HIDE DEF z
<1>4. z \in 0 .. N /\ Q(z)
    BY <1>2, <1>3 DEF z
<1> QED  BY <1>4 DEF z, N

\* They are found again in front of what has none.
LEMMA ZeroesJoin ==
    ASSUME NEW S, NEW u \in Seq(S), NEW z \in Nat, NEW s, Len(s) \in Nat, NoLead(s),
           Len(u) = z + Len(s), \A i \in 1 .. z : u[i] = 0,
           \A i \in 1 .. Len(s) : u[z + i] = s[i]
    PROVE  Zeroes(u) = z
<1> DEFINE n == Zeroes(u)  N == Len(s)
<1>1. /\ n \in 0 .. z + N /\ \A i \in 1 .. n : u[i] = 0
      /\ n < z + N => u[n + 1] # 0
    BY ZeroesIs
<1>2. N \in Nat /\ (N > 0 => u[z + 1] # 0)
    BY DEF NoLead
<1> HIDE DEF n, N
<1>3. CASE n < z
    <2>1. n + 1 \in 1 .. z /\ n < z + N
        BY <1>1, <1>2, <1>3
    <2> QED  BY <1>1, <2>1
<1>4. CASE n > z
    <2>1. z + 1 \in 1 .. n /\ N > 0
        BY <1>1, <1>2, <1>4
    <2> QED  BY <1>1, <1>2, <2>1
<1> QED  BY <1>1, <1>3, <1>4 DEF n

-----------------------------------------------------------------------------
\* There are as many digits as the bytes need.
Powers(b, n, p) == /\ p \in [0 .. n -> Nat] /\ p[0] = 1
                   /\ \A i \in 1 .. n : p[i] = b * p[i - 1]

LEMMA PowersMade ==
    ASSUME NEW b \in Nat, NEW n \in Nat
    PROVE  \E p : Powers(b, n, p)
<1> DEFINE s == Zeros(n)
<1>1. s \in Seq(Nat) /\ Len(s) = n /\ \A i \in 1 .. n : s[i] = 0
    BY ZerosIs
<1> HIDE DEF s
<1>a. 1 \in Nat
    OBVIOUS
<1>2. PICK X : Table(b, 1, s, X)
    BY <1>1, <1>a, ChainMade
<1>3. /\ X \in [0 .. n -> Nat] /\ X[0] = 1
      /\ \A i \in 1 .. n : X[i] = b * X[i - 1] + s[i]
    BY <1>1, <1>2 DEF Table
<1>4. ASSUME NEW i \in 1 .. n PROVE X[i] = b * X[i - 1]
    <2> DEFINE x == X[i - 1]  y == b * x
    <2>1. i - 1 \in 0 .. n
        OBVIOUS
    <2>2. x \in Nat
        BY <1>3, <2>1
    <2>3. y \in Nat
        BY <2>2
    <2>4. X[i] = y + 0
        BY <1>1, <1>3
    <2> HIDE DEF y
    <2>5. X[i] = y
        BY <2>3, <2>4
    <2> QED  BY <2>5 DEF y
<1> QED  BY <1>3, <1>4 DEF Powers

LEMMA BytesBelow ==
    ASSUME NEW s \in Seq(Octets), NEW X, Table(256, 0, s, X),
           NEW n \in Nat, NEW p, Powers(256, n, p), NEW i \in Nat, i <= Len(s), i <= n
    PROVE  X[i] < p[i]
<1> DEFINE N == Len(s)  T == {k \in Nat : k <= N /\ k <= n => X[k] < p[k]}
<1>1. /\ N \in Nat /\ X \in [0 .. N -> Nat] /\ X[0] = 0
      /\ \A k \in 1 .. N : X[k] = 256 * X[k - 1] + s[k]
    BY DEF Table
<1>2. /\ p \in [0 .. n -> Nat] /\ p[0] = 1
      /\ \A k \in 1 .. n : p[k] = 256 * p[k - 1]
    BY DEF Powers
<1>3. \A k \in 1 .. N : s[k] \in 0 .. 255
    <2>1. \A k \in 1 .. N : s[k] \in Octets
        OBVIOUS
    <2> QED  BY <2>1, Zenon DEF Octets
<1> HIDE DEF N
<1>4. 0 \in T
    BY <1>1, <1>2
<1>5. ASSUME NEW k \in Nat, k \in T PROVE k + 1 \in T
    <2> SUFFICES ASSUME k + 1 <= N, k + 1 <= n PROVE X[k + 1] < p[k + 1]
        OBVIOUS
    <2>1. /\ k + 1 \in 1 .. N /\ k + 1 \in 1 .. n /\ (k + 1) - 1 = k
          /\ k \in 0 .. N /\ k \in 0 .. n
        BY <1>1
    <2>2. X[k] < p[k] /\ X[k] \in Nat /\ p[k] \in Nat
        BY <1>1, <1>2, <1>5, <2>1
    <2>3. X[k + 1] = 256 * X[k] + s[k + 1] /\ p[k + 1] = 256 * p[k] /\ s[k + 1] \in 0 .. 255
        BY <1>1, <1>2, <1>3, <2>1
    <2> DEFINE u == X[k]  v == p[k]  e == s[k + 1]
    <2>4. u < v /\ u \in Nat /\ v \in Nat /\ e \in 0 .. 255
        BY <2>2, <2>3
    <2> HIDE DEF u, v, e
    <2>5. 256 * u + e < 256 * v
        BY <2>4
    <2> QED  BY <2>3, <2>5 DEF u, v, e
<1> HIDE DEF T
<1>6. i \in T
    BY <1>4, <1>5, Induct
<1> QED  BY <1>6 DEF T, N

LEMMA DigitsAbove ==
    ASSUME NEW s \in Seq(Nat), NEW x \in Nat \ {0}, NEW y, Chain(58, x, s, y),
           NEW q, Powers(58, Len(s), q)
    PROVE  y >= q[Len(s)]
<1> DEFINE N == Len(s)
<1>0. PICK X : Table(58, x, s, X) /\ X[N] = y
    BY DEF Chain
<1>1. /\ N \in Nat /\ X \in [0 .. N -> Nat] /\ X[0] = x
      /\ \A k \in 1 .. N : s[k] \in Nat /\ X[k] = 58 * X[k - 1] + s[k]
    BY <1>0 DEF Table
<1>2. /\ q \in [0 .. N -> Nat] /\ q[0] = 1
      /\ \A k \in 1 .. N : q[k] = 58 * q[k - 1]
    BY DEF Powers
<1> HIDE DEF N
<1> DEFINE U == {k \in Nat : k <= N => q[k] <= X[k]}
<1>4. 0 \in U
    BY <1>1, <1>2
<1>5. ASSUME NEW k \in Nat, k \in U PROVE k + 1 \in U
    <2> SUFFICES ASSUME k + 1 <= N PROVE q[k + 1] <= X[k + 1]
        OBVIOUS
    <2>1. k + 1 \in 1 .. N /\ (k + 1) - 1 = k /\ k \in 0 .. N
        BY <1>1
    <2>2. q[k] <= X[k] /\ X[k] \in Nat /\ q[k] \in Nat
        BY <1>1, <1>2, <1>5, <2>1
    <2>3. X[k + 1] = 58 * X[k] + s[k + 1] /\ q[k + 1] = 58 * q[k] /\ s[k + 1] \in Nat
        BY <1>1, <1>2, <2>1
    <2> QED  BY <2>2, <2>3
<1> HIDE DEF U
<1>6. N \in U
    BY <1>1, <1>4, <1>5, Induct
<1>7. q[N] <= X[N] /\ q[N] \in Nat /\ X[N] \in Nat
    <2>1. N \in 0 .. N
        BY <1>1
    <2> QED  BY <1>1, <1>2, <1>6, <2>1 DEF U
<1> QED  BY <1>0, <1>7 DEF N

\* Eight bytes more are not more than eleven digits more.
LEMMA EightBytes ==
    ASSUME NEW n \in Nat, NEW p, Powers(256, n, p), NEW i \in Nat, i + 8 <= n
    PROVE  p[i + 8] = 18446744073709551616 * p[i] /\ p[i] \in Nat
<1>1. p \in [0 .. n -> Nat] /\ \A k \in 1 .. n : p[k] = 256 * p[k - 1]
    BY DEF Powers
<1>2. p[i] \in Nat
    BY <1>1
<1>3. \A k \in 1 .. 8 : p[i + k] = 256 * p[i + (k - 1)]
    <2> TAKE k \in 1 .. 8
    <2>1. i + k \in 1 .. n /\ (i + k) - 1 = i + (k - 1)
        OBVIOUS
    <2> QED  BY <1>1, <2>1
<1>4. p[i + 1] = 256 * p[i]
    <2>1. p[i + 1] = 256 * p[i + (1 - 1)] /\ i + (1 - 1) = i
        BY <1>3
    <2> QED  BY <2>1
<1>5. p[i + 2] = 65536 * p[i]
    <2>1. p[i + 2] = 256 * p[i + 1]
        <3>1. p[i + 2] = 256 * p[i + (2 - 1)] /\ 2 - 1 = 1
            BY <1>3
        <3> QED  BY <3>1
    <2> QED  BY <1>2, <1>4, <2>1
<1>6. p[i + 3] = 16777216 * p[i]
    <2>1. p[i + 3] = 256 * p[i + 2]
        <3>1. p[i + 3] = 256 * p[i + (3 - 1)] /\ 3 - 1 = 2
            BY <1>3
        <3> QED  BY <3>1
    <2> QED  BY <1>2, <1>5, <2>1
<1>7. p[i + 4] = 4294967296 * p[i]
    <2>1. p[i + 4] = 256 * p[i + 3]
        <3>1. p[i + 4] = 256 * p[i + (4 - 1)] /\ 4 - 1 = 3
            BY <1>3
        <3> QED  BY <3>1
    <2> QED  BY <1>2, <1>6, <2>1
<1>8. p[i + 5] = 1099511627776 * p[i]
    <2>1. p[i + 5] = 256 * p[i + 4]
        <3>1. p[i + 5] = 256 * p[i + (5 - 1)] /\ 5 - 1 = 4
            BY <1>3
        <3> QED  BY <3>1
    <2> QED  BY <1>2, <1>7, <2>1
<1>9. p[i + 6] = 281474976710656 * p[i]
    <2>1. p[i + 6] = 256 * p[i + 5]
        <3>1. p[i + 6] = 256 * p[i + (6 - 1)] /\ 6 - 1 = 5
            BY <1>3
        <3> QED  BY <3>1
    <2> QED  BY <1>2, <1>8, <2>1
<1>10. p[i + 7] = 72057594037927936 * p[i]
    <2>1. p[i + 7] = 256 * p[i + 6]
        <3>1. p[i + 7] = 256 * p[i + (7 - 1)] /\ 7 - 1 = 6
            BY <1>3
        <3> QED  BY <3>1
    <2> QED  BY <1>2, <1>9, <2>1
<1>11. p[i + 8] = 18446744073709551616 * p[i]
    <2>1. p[i + 8] = 256 * p[i + 7]
        <3>1. p[i + 8] = 256 * p[i + (8 - 1)] /\ 8 - 1 = 7
            BY <1>3
        <3> QED  BY <3>1
    <2> QED  BY <1>2, <1>10, <2>1
<1> QED  BY <1>2, <1>11

LEMMA ElevenDigits ==
    ASSUME NEW n \in Nat, NEW q, Powers(58, n, q), NEW i \in Nat, i + 11 <= n
    PROVE  q[i + 11] = 24986644000165537792 * q[i] /\ q[i] \in Nat
<1>1. q \in [0 .. n -> Nat] /\ \A k \in 1 .. n : q[k] = 58 * q[k - 1]
    BY DEF Powers
<1>2. q[i] \in Nat
    BY <1>1
<1>3. \A k \in 1 .. 11 : q[i + k] = 58 * q[i + (k - 1)]
    <2> TAKE k \in 1 .. 11
    <2>1. i + k \in 1 .. n /\ (i + k) - 1 = i + (k - 1)
        OBVIOUS
    <2> QED  BY <1>1, <2>1
<1>4. q[i + 1] = 58 * q[i]
    <2>1. q[i + 1] = 58 * q[i + (1 - 1)] /\ i + (1 - 1) = i
        BY <1>3
    <2> QED  BY <2>1
<1>5. q[i + 2] = 3364 * q[i]
    <2>1. q[i + 2] = 58 * q[i + 1]
        <3>1. q[i + 2] = 58 * q[i + (2 - 1)] /\ 2 - 1 = 1
            BY <1>3
        <3> QED  BY <3>1
    <2> QED  BY <1>2, <1>4, <2>1
<1>6. q[i + 3] = 195112 * q[i]
    <2>1. q[i + 3] = 58 * q[i + 2]
        <3>1. q[i + 3] = 58 * q[i + (3 - 1)] /\ 3 - 1 = 2
            BY <1>3
        <3> QED  BY <3>1
    <2> QED  BY <1>2, <1>5, <2>1
<1>7. q[i + 4] = 11316496 * q[i]
    <2>1. q[i + 4] = 58 * q[i + 3]
        <3>1. q[i + 4] = 58 * q[i + (4 - 1)] /\ 4 - 1 = 3
            BY <1>3
        <3> QED  BY <3>1
    <2> QED  BY <1>2, <1>6, <2>1
<1>8. q[i + 5] = 656356768 * q[i]
    <2>1. q[i + 5] = 58 * q[i + 4]
        <3>1. q[i + 5] = 58 * q[i + (5 - 1)] /\ 5 - 1 = 4
            BY <1>3
        <3> QED  BY <3>1
    <2> QED  BY <1>2, <1>7, <2>1
<1>9. q[i + 6] = 38068692544 * q[i]
    <2>1. q[i + 6] = 58 * q[i + 5]
        <3>1. q[i + 6] = 58 * q[i + (6 - 1)] /\ 6 - 1 = 5
            BY <1>3
        <3> QED  BY <3>1
    <2> QED  BY <1>2, <1>8, <2>1
<1>10. q[i + 7] = 2207984167552 * q[i]
    <2>1. q[i + 7] = 58 * q[i + 6]
        <3>1. q[i + 7] = 58 * q[i + (7 - 1)] /\ 7 - 1 = 6
            BY <1>3
        <3> QED  BY <3>1
    <2> QED  BY <1>2, <1>9, <2>1
<1>11. q[i + 8] = 128063081718016 * q[i]
    <2>1. q[i + 8] = 58 * q[i + 7]
        <3>1. q[i + 8] = 58 * q[i + (8 - 1)] /\ 8 - 1 = 7
            BY <1>3
        <3> QED  BY <3>1
    <2> QED  BY <1>2, <1>10, <2>1
<1>12. q[i + 9] = 7427658739644928 * q[i]
    <2>1. q[i + 9] = 58 * q[i + 8]
        <3>1. q[i + 9] = 58 * q[i + (9 - 1)] /\ 9 - 1 = 8
            BY <1>3
        <3> QED  BY <3>1
    <2> QED  BY <1>2, <1>11, <2>1
<1>13. q[i + 10] = 430804206899405824 * q[i]
    <2>1. q[i + 10] = 58 * q[i + 9]
        <3>1. q[i + 10] = 58 * q[i + (10 - 1)] /\ 10 - 1 = 9
            BY <1>3
        <3> QED  BY <3>1
    <2> QED  BY <1>2, <1>12, <2>1
<1>14. q[i + 11] = 24986644000165537792 * q[i]
    <2>1. q[i + 11] = 58 * q[i + 10]
        <3>1. q[i + 11] = 58 * q[i + (11 - 1)] /\ 11 - 1 = 10
            BY <1>3
        <3> QED  BY <3>1
    <2> QED  BY <1>2, <1>13, <2>1
<1> QED  BY <1>2, <1>14

LEMMA PowersNext ==
    ASSUME NEW b \in Nat, NEW n \in Nat, NEW p, Powers(b, n, p), NEW i \in Nat, i + 1 <= n
    PROVE  p[i + 1] = b * p[i] /\ p[i] \in Nat
<1>1. i + 1 \in 1 .. n /\ (i + 1) - 1 = i /\ i \in 0 .. n
    OBVIOUS
<1> QED  BY <1>1 DEF Powers

LEMMA FirstBytes ==
    ASSUME NEW n \in Nat, NEW p, Powers(256, n, p)
    PROVE  /\ 0 <= n => p[0] = 1
           /\ 1 <= n => p[1] = 256
           /\ 2 <= n => p[2] = 65536
           /\ 3 <= n => p[3] = 16777216
           /\ 4 <= n => p[4] = 4294967296
           /\ 5 <= n => p[5] = 1099511627776
           /\ 6 <= n => p[6] = 281474976710656
           /\ 7 <= n => p[7] = 72057594037927936
<1>0. p[0] = 1
    BY DEF Powers
<1>a. \A i \in 0 .. 6 : i + 1 <= n => p[i + 1] = 256 * p[i]
    <2> TAKE i \in 0 .. 6
    <2> HAVE i + 1 <= n
    <2> DEFINE b == 256
    <2>1. i \in Nat /\ i + 1 <= n /\ b \in Nat /\ Powers(b, n, p)
        OBVIOUS
    <2> HIDE DEF b
    <2>2. p[i + 1] = b * p[i]
        BY <2>1, PowersNext
    <2> QED  BY <2>2 DEF b
<1>1. 1 <= n => p[1] = 256
    <2>1. 1 <= n => p[0 + 1] = 256 * p[0] /\ 0 + 1 = 1
        BY <1>a
    <2> QED  BY <1>0, <2>1
<1>2. 2 <= n => p[2] = 65536
    <2>1. 2 <= n => p[1 + 1] = 256 * p[1] /\ 1 + 1 = 2
        BY <1>a
    <2> QED  BY <1>1, <2>1
<1>3. 3 <= n => p[3] = 16777216
    <2>1. 3 <= n => p[2 + 1] = 256 * p[2] /\ 2 + 1 = 3
        BY <1>a
    <2> QED  BY <1>2, <2>1
<1>4. 4 <= n => p[4] = 4294967296
    <2>1. 4 <= n => p[3 + 1] = 256 * p[3] /\ 3 + 1 = 4
        BY <1>a
    <2> QED  BY <1>3, <2>1
<1>5. 5 <= n => p[5] = 1099511627776
    <2>1. 5 <= n => p[4 + 1] = 256 * p[4] /\ 4 + 1 = 5
        BY <1>a
    <2> QED  BY <1>4, <2>1
<1>6. 6 <= n => p[6] = 281474976710656
    <2>1. 6 <= n => p[5 + 1] = 256 * p[5] /\ 5 + 1 = 6
        BY <1>a
    <2> QED  BY <1>5, <2>1
<1>7. 7 <= n => p[7] = 72057594037927936
    <2>1. 7 <= n => p[6 + 1] = 256 * p[6] /\ 6 + 1 = 7
        BY <1>a
    <2> QED  BY <1>6, <2>1
<1> QED  BY <1>0, <1>1, <1>2, <1>3, <1>4, <1>5, <1>6, <1>7

LEMMA FirstDigits ==
    ASSUME NEW n \in Nat, NEW p, Powers(58, n, p)
    PROVE  /\ 0 <= n => p[0] = 1
           /\ 1 <= n => p[1] = 58
           /\ 2 <= n => p[2] = 3364
           /\ 3 <= n => p[3] = 195112
           /\ 4 <= n => p[4] = 11316496
           /\ 5 <= n => p[5] = 656356768
           /\ 6 <= n => p[6] = 38068692544
           /\ 7 <= n => p[7] = 2207984167552
           /\ 8 <= n => p[8] = 128063081718016
           /\ 9 <= n => p[9] = 7427658739644928
           /\ 10 <= n => p[10] = 430804206899405824
<1>0. p[0] = 1
    BY DEF Powers
<1>a. \A i \in 0 .. 9 : i + 1 <= n => p[i + 1] = 58 * p[i]
    <2> TAKE i \in 0 .. 9
    <2> HAVE i + 1 <= n
    <2> DEFINE b == 58
    <2>1. i \in Nat /\ i + 1 <= n /\ b \in Nat /\ Powers(b, n, p)
        OBVIOUS
    <2> HIDE DEF b
    <2>2. p[i + 1] = b * p[i]
        BY <2>1, PowersNext
    <2> QED  BY <2>2 DEF b
<1>1. 1 <= n => p[1] = 58
    <2>1. 1 <= n => p[0 + 1] = 58 * p[0] /\ 0 + 1 = 1
        BY <1>a
    <2> QED  BY <1>0, <2>1
<1>2. 2 <= n => p[2] = 3364
    <2>1. 2 <= n => p[1 + 1] = 58 * p[1] /\ 1 + 1 = 2
        BY <1>a
    <2> QED  BY <1>1, <2>1
<1>3. 3 <= n => p[3] = 195112
    <2>1. 3 <= n => p[2 + 1] = 58 * p[2] /\ 2 + 1 = 3
        BY <1>a
    <2> QED  BY <1>2, <2>1
<1>4. 4 <= n => p[4] = 11316496
    <2>1. 4 <= n => p[3 + 1] = 58 * p[3] /\ 3 + 1 = 4
        BY <1>a
    <2> QED  BY <1>3, <2>1
<1>5. 5 <= n => p[5] = 656356768
    <2>1. 5 <= n => p[4 + 1] = 58 * p[4] /\ 4 + 1 = 5
        BY <1>a
    <2> QED  BY <1>4, <2>1
<1>6. 6 <= n => p[6] = 38068692544
    <2>1. 6 <= n => p[5 + 1] = 58 * p[5] /\ 5 + 1 = 6
        BY <1>a
    <2> QED  BY <1>5, <2>1
<1>7. 7 <= n => p[7] = 2207984167552
    <2>1. 7 <= n => p[6 + 1] = 58 * p[6] /\ 6 + 1 = 7
        BY <1>a
    <2> QED  BY <1>6, <2>1
<1>8. 8 <= n => p[8] = 128063081718016
    <2>1. 8 <= n => p[7 + 1] = 58 * p[7] /\ 7 + 1 = 8
        BY <1>a
    <2> QED  BY <1>7, <2>1
<1>9. 9 <= n => p[9] = 7427658739644928
    <2>1. 9 <= n => p[8 + 1] = 58 * p[8] /\ 8 + 1 = 9
        BY <1>a
    <2> QED  BY <1>8, <2>1
<1>10. 10 <= n => p[10] = 430804206899405824
    <2>1. 10 <= n => p[9 + 1] = 58 * p[9] /\ 9 + 1 = 10
        BY <1>a
    <2> QED  BY <1>9, <2>1
<1> QED  BY <1>0, <1>1, <1>2, <1>3, <1>4, <1>5, <1>6, <1>7, <1>8, <1>9, <1>10

LEMMA Sizes ==
    ASSUME NEW r \in 0 .. 7, NEW S, S = Size58(r)
    PROVE  \/ (r = 0 /\ S = 1) \/ (r = 1 /\ S = 2) \/ (r = 2 /\ S = 3) \/ (r = 3 /\ S = 5)
           \/ (r = 4 /\ S = 6) \/ (r = 5 /\ S = 7) \/ (r = 6 /\ S = 9) \/ (r = 7 /\ S = 10)
<1>1. S = (r * 138) \div 100 + 1
    BY DEF Size58
<1>2. CASE r = 0
    BY <1>1, <1>2
<1>3. CASE r = 1
    BY <1>1, <1>3
<1>4. CASE r = 2
    BY <1>1, <1>4
<1>5. CASE r = 3
    BY <1>1, <1>5
<1>6. CASE r = 4
    BY <1>1, <1>6
<1>7. CASE r = 5
    BY <1>1, <1>7
<1>8. CASE r = 6
    BY <1>1, <1>8
<1>9. CASE r = 7
    BY <1>1, <1>9
<1> QED  BY <1>2, <1>3, <1>4, <1>5, <1>6, <1>7, <1>8, <1>9

\* 256 times itself n times is not more than 58 times itself Size58(n) times.
LEMMA Capacity ==
    ASSUME NEW n \in Nat, NEW p, Powers(256, n, p), NEW q, Powers(58, Size58(n), q)
    PROVE  Size58(n) \in Nat /\ p[n] <= q[Size58(n)]
<1> DEFINE M == Size58(n)
           T == {k \in Nat : \A r \in 0 .. 7 : 8 * k + r <= n =>
                    p[8 * k + r] <= q[Size58(8 * k + r)]}
<1>1. M \in Nat /\ \A i \in 0 .. n : Size58(i) \in 0 .. M
    <2>1. \A i \in Nat : Size58(i) \in Nat
        BY DEF Size58
    <2>2. \A i \in 0 .. n : (i * 138) \div 100 <= (n * 138) \div 100
        OBVIOUS
    <2>3. \A i \in 0 .. n : Size58(i) <= M
        BY <2>2 DEF Size58
    <2> QED  BY <2>1, <2>3
<1> HIDE DEF M
<1>2. p \in [0 .. n -> Nat] /\ q \in [0 .. M -> Nat]
    BY DEF Powers, M
<1>3. 0 \in T
    <2> SUFFICES ASSUME NEW r \in 0 .. 7, r <= n
                 PROVE  p[8 * 0 + r] <= q[Size58(8 * 0 + r)]
        OBVIOUS
    <2> DEFINE S == Size58(r)
    <2>1. 8 * 0 + r = r /\ S <= M /\ S \in Nat
        BY <1>1
    <2>2. \/ (r = 0 /\ S = 1) \/ (r = 1 /\ S = 2) \/ (r = 2 /\ S = 3) \/ (r = 3 /\ S = 5)
          \/ (r = 4 /\ S = 6) \/ (r = 5 /\ S = 7) \/ (r = 6 /\ S = 9) \/ (r = 7 /\ S = 10)
        BY Sizes
    <2> HIDE DEF S
    <2>3. /\ 0 <= n => p[0] = 1
          /\ 1 <= n => p[1] = 256
          /\ 2 <= n => p[2] = 65536
          /\ 3 <= n => p[3] = 16777216
          /\ 4 <= n => p[4] = 4294967296
          /\ 5 <= n => p[5] = 1099511627776
          /\ 6 <= n => p[6] = 281474976710656
          /\ 7 <= n => p[7] = 72057594037927936
        BY FirstBytes
    <2>4. /\ 1 <= M => q[1] = 58
          /\ 2 <= M => q[2] = 3364
          /\ 3 <= M => q[3] = 195112
          /\ 5 <= M => q[5] = 656356768
          /\ 6 <= M => q[6] = 38068692544
          /\ 7 <= M => q[7] = 2207984167552
          /\ 9 <= M => q[9] = 7427658739644928
          /\ 10 <= M => q[10] = 430804206899405824
        BY <1>1, FirstDigits DEF M
    <2>5. p[r] <= q[S]
        BY <2>1, <2>2, <2>3, <2>4
    <2> QED  BY <2>1, <2>5 DEF S
<1>4. ASSUME NEW k \in Nat, k \in T PROVE k + 1 \in T
    <2> SUFFICES ASSUME NEW r \in 0 .. 7, 8 * (k + 1) + r <= n
                 PROVE  p[8 * (k + 1) + r] <= q[Size58(8 * (k + 1) + r)]
        OBVIOUS
    <2> DEFINE i == 8 * k + r  S == Size58(i)  U == Size58(i + 8)
    <2>1. i \in Nat /\ 8 * (k + 1) + r = i + 8 /\ i + 8 <= n
        OBVIOUS
    <2>2. p[i] <= q[S]
        BY <1>4, <2>1
    <2> HIDE DEF i
    <2>3. U = S + 11 \/ U = S + 12
        <3> DEFINE a == (i * 138) \div 100
        <3>1. a \in Nat /\ a * 100 <= i * 138 /\ i * 138 <= a * 100 + 99
            BY <2>1
        <3>2. (i + 8) * 138 = i * 138 + 1104
            BY <2>1
        <3>3. ((i + 8) * 138) \div 100 = a + 11 \/ ((i + 8) * 138) \div 100 = a + 12
            <4> HIDE DEF a
            <4> QED  BY <2>1, <3>1, <3>2
        <3>4. S = a + 1
            BY DEF Size58
        <3>5. U = ((i + 8) * 138) \div 100 + 1
            BY DEF Size58
        <3> HIDE DEF a, S, U
        <3> QED  BY <3>1, <3>3, <3>4, <3>5
    <2>4. S \in Nat /\ U \in 0 .. M
        BY <1>1, <2>1
    <2> HIDE DEF S, U
    <2>5. p[i + 8] = 18446744073709551616 * p[i] /\ p[i] \in Nat
        BY <2>1, EightBytes
    <2>6. q[S + 11] = 24986644000165537792 * q[S] /\ q[S] \in Nat
        <3>1. S + 11 <= M
            BY <1>1, <2>3, <2>4
        <3> QED  BY <1>1, <2>4, <3>1, ElevenDigits DEF M
    <2>7. q[S + 11] <= q[U]
        <3>1. CASE U = S + 11
            BY <2>6, <3>1
        <3>2. CASE U = S + 12
            <4> DEFINE j == S + 11  c == q[j]
            <4>1. j \in Nat /\ j + 1 <= M /\ U = j + 1
                BY <1>1, <2>4, <3>2
            <4> HIDE DEF j
            <4>2. 58 \in Nat
                OBVIOUS
            <4>3. q[U] = 58 * c /\ c \in Nat
                BY <1>1, <4>1, <4>2, PowersNext DEF M
            <4> HIDE DEF c
            <4>4. c <= q[U]
                BY <4>3
            <4> QED  BY <4>4 DEF c, j
        <3> QED  BY <2>3, <3>1, <3>2
    <2> DEFINE u == p[i]  v == q[S]  w == q[S + 11]
    <2>8. p[i + 8] <= q[U]
        <3>a. q[U] \in Nat
            BY <1>2, <2>4
        <3>1. u <= v /\ u \in Nat /\ v \in Nat /\ q[U] \in Nat
            BY <2>2, <2>5, <2>6, <3>a
        <3>2. p[i + 8] = 18446744073709551616 * u /\ w = 24986644000165537792 * v /\ w <= q[U]
            BY <2>5, <2>6, <2>7
        <3> HIDE DEF u, v, w
        <3> QED  BY <3>1, <3>2
    <2> QED  BY <2>1, <2>8 DEF U
<1> HIDE DEF T
<1>5. n \div 8 \in T
    <2>1. n \div 8 \in Nat
        OBVIOUS
    <2> QED  BY <1>3, <1>4, <2>1, Induct
<1>6. n % 8 \in 0 .. 7 /\ 8 * (n \div 8) + (n % 8) = n
    OBVIOUS
<1> QED  BY <1>1, <1>5, <1>6 DEF T, M

-----------------------------------------------------------------------------
\* TakeByte58(): 256 times the digits and the byte.
Taking == [b58 : Seq(Digits), carry : Nat]

Sum58(p, d) == p.carry + 256 * d
Carried58(t, p, n) == \E u \in Nat, e \in Digits :
    n = 58 * u + e /\ t.carry = u /\ t.b58 = Append(p.b58, e)

LEMMA DigitTaken ==
    ASSUME NEW p \in Taking, NEW d \in Digits
    PROVE  /\ TakeDigit58(p, d) \in Taking
           /\ Carried58(TakeDigit58(p, d), p, Sum58(p, d))
<1> DEFINE c == p.carry  s == p.b58  n == Sum58(p, d)
<1>1. s \in Seq(Digits) /\ c \in Nat
    BY DEF Taking
<1>2. TakeDigit58(p, d) = [b58 |-> Append(s, n % 58), carry |-> n \div 58]
    BY DEF TakeDigit58, Sum58
<1>3. n = c + 256 * d
    BY DEF Sum58
<1> HIDE DEF c, s, n
<1>4. n \in Nat
    BY <1>1, <1>3 DEF Digits
<1> DEFINE q == n \div 58  r == n % 58
<1>5. q \in Nat /\ r \in 0 .. 57 /\ n = 58 * q + r
    BY <1>4
<1>a. TakeDigit58(p, d) = [b58 |-> Append(s, r), carry |-> q]
    BY <1>2
<1> HIDE DEF q, r
<1>6. r \in Digits
    BY <1>5 DEF Digits
<1> DEFINE t == Append(s, r)
<1>7. t \in Seq(Digits)
    BY <1>1, <1>6, AppendProperties
<1>b. TakeDigit58(p, d) = [b58 |-> t, carry |-> q]
    BY <1>a
<1> HIDE DEF t
<1>8. TakeDigit58(p, d) \in Taking /\ TakeDigit58(p, d).carry = q /\ TakeDigit58(p, d).b58 = t
    BY <1>5, <1>7, <1>b DEF Taking
<1>9. Carried58(TakeDigit58(p, d), p, n)
    BY <1>5, <1>6, <1>8 DEF t, s, Carried58
<1> QED  BY <1>8, <1>9 DEF n

LEMMA TakeUnfold ==
    ASSUME NEW b58 \in Seq(Digits), NEW byte \in Octets
    PROVE  \E f : /\ f[0] = [b58 |-> <<>>, carry |-> byte]
                  /\ f \in [0 .. Len(b58) -> Taking]
                  /\ \A i \in 1 .. Len(b58) : f[i] = TakeDigit58(f[i - 1], b58[i])
                  /\ TakeByte58(b58, byte) = f[Len(b58)]
<1> DEFINE N == Len(b58)
           none == [b58 |-> <<>>, carry |-> byte]
           Def(f) == f = [i \in 0 .. N |-> IF i = 0 THEN none ELSE TakeDigit58(f[i - 1], b58[i])]
           G == [x \in Taking \X (1 .. N) |-> TakeDigit58(x[1], b58[x[2]])]
<1>1. none \in Taking /\ N \in Nat /\ G \in [Taking \X (1 .. N) -> Taking]
    <2>0. byte \in Nat /\ <<>> \in Seq(Digits)
        BY DEF Octets
    <2>1. none \in Taking
        BY <2>0 DEF Taking
    <2>2. \A p \in Taking, i \in 1 .. N : TakeDigit58(p, b58[i]) \in Taking
        <3> TAKE p \in Taking, i \in 1 .. N
        <3>1. b58[i] \in Digits
            OBVIOUS
        <3> QED  BY <3>1, DigitTaken
    <2> QED  BY <2>1, <2>2
<1>2. \A p \in Taking, i \in 1 .. N : G[<<p, i>>] = TakeDigit58(p, b58[i])
    OBVIOUS
<1> HIDE DEF G, N, none
<1>3. PICK f \in [0 .. N -> Taking] : Turns(f, N, none, G)
    BY <1>1, TurnsExist
<1>4. Def(f)
    <2>1. ASSUME NEW i \in 0 .. N
          PROVE  f[i] = IF i = 0 THEN none ELSE TakeDigit58(f[i - 1], b58[i])
        <3>1. f[i] = IF i = 0 THEN none ELSE G[<<f[i - 1], i>>]
            BY <1>3 DEF Turns
        <3>2. CASE i = 0
            BY <3>1, <3>2
        <3>3. CASE i # 0
            <4>1. i \in 1 .. N /\ i - 1 \in 0 .. N
                BY <1>1, <3>3
            <4> QED  BY <1>2, <3>1, <3>3, <4>1
        <3> QED  BY <3>2, <3>3
    <2> QED  BY <1>3, <2>1
<1> DEFINE c == CHOOSE c : Def(c)
<1>5. Def(c)
    BY <1>4
<1>6. TakeByte58(b58, byte) = c[N]
    BY DEF TakeByte58, N, none
<1> HIDE DEF c
<1>7. c[0] = none /\ \A i \in 1 .. N : c[i] = TakeDigit58(c[i - 1], b58[i])
    <2>1. ASSUME NEW i \in 1 .. N PROVE c[i] = TakeDigit58(c[i - 1], b58[i])
        <3>1. i \in 0 .. N /\ i # 0
            BY <1>1
        <3> QED  BY <1>5, <3>1
    <2>2. 0 \in 0 .. N
        BY <1>1
    <2> QED  BY <1>5, <2>1, <2>2
<1>8. \A i \in 0 .. N : c[i] \in Taking
    <2>1. \A i \in 1 .. N : c[i - 1] \in Taking => c[i] \in Taking
        <3> TAKE i \in 1 .. N
        <3> HAVE c[i - 1] \in Taking
        <3> DEFINE p == c[i - 1]
        <3>1. G[<<p, i>>] = TakeDigit58(p, b58[i]) /\ G[<<p, i>>] \in Taking
            BY <1>1, <1>2
        <3> QED  BY <1>7, <3>1
    <2>2. c[0] \in Taking
        BY <1>1, <1>7
    <2> QED  BY <1>1, <2>1, <2>2, TurnsIn
<1>9. c \in [0 .. N -> Taking]
    BY <1>5, <1>8
<1> QED  BY <1>6, <1>7, <1>9 DEF N, none

LEMMA Octet == \A e \in Octets : e \in Nat /\ e <= 255
BY DEF Octets

LEMMA Digit == \A e \in Digits : e \in Nat /\ e <= 57
BY DEF Digits

LEMMA ByteTaken ==
    ASSUME NEW b58 \in Seq(Digits), NEW byte \in Octets, NEW y \in Nat,
           Chain(58, 0, Ext!Reverse(b58), y), NEW z, z = 256 * y + byte,
           NEW q, Powers(58, Len(b58), q), z < q[Len(b58)]
    PROVE  /\ TakeByte58(b58, byte) \in Taking
           /\ Len(TakeByte58(b58, byte).b58) = Len(b58)
           /\ Chain(58, 0, Ext!Reverse(TakeByte58(b58, byte).b58), z)
<1> DEFINE S == Len(b58)  h == Ext!Reverse(b58)
<1>1. PICK f : /\ f[0] = [b58 |-> <<>>, carry |-> byte]
               /\ f \in [0 .. S -> Taking]
               /\ \A i \in 1 .. S : f[i] = TakeDigit58(f[i - 1], b58[i])
               /\ TakeByte58(b58, byte) = f[S]
    BY TakeUnfold
<1>2. h \in Seq(Digits) /\ Len(h) = S /\ \A i \in 1 .. S : h[i] = b58[(S - i) + 1]
    BY ReverseIs
<1>3. PICK X : Table(58, 0, h, X) /\ X[S] = y
    BY <1>2 DEF Chain
<1>4. /\ S \in Nat /\ X \in [0 .. S -> Nat] /\ X[0] = 0
      /\ \A i \in 1 .. S : X[i] = 58 * X[i - 1] + h[i]
    BY <1>2, <1>3 DEF Table
<1>5. byte \in Nat /\ z \in Nat
    <2>1. byte \in Nat
        BY Octet
    <2> QED  BY <2>1
<1>6. \A i \in 1 .. S : b58[i] \in Digits
    OBVIOUS
<1> HIDE DEF S, h
<1> DEFINE R(k) == Ext!Reverse(f[k].b58)
           I(k) == Len(f[k].b58) = k /\ Chain(58, 256 * X[S - k] + f[k].carry, R(k), z)
           T == {k \in Nat : k <= S => I(k)}
<1>7. 0 \in T
    <2>1. f[0].b58 = <<>> /\ f[0].carry = byte
        BY <1>1
    <2>2. R(0) = <<>> /\ Len(f[0].b58) = 0
        BY <2>1, ReverseEmpty
    <2>3. S - 0 = S
        BY <1>4
    <2>4. 256 * X[S - 0] + f[0].carry = z
        BY <1>3, <2>1, <2>3
    <2>5. Chain(58, z, <<>>, z)
        BY <1>5, ChainEmpty
    <2> QED  BY <2>2, <2>4, <2>5
<1>8. ASSUME NEW k \in Nat, k \in T PROVE k + 1 \in T
    <2> SUFFICES ASSUME k + 1 <= S PROVE I(k + 1)
        OBVIOUS
    <2> DEFINE p == f[k]  d == b58[k + 1]  j == S - k  g == f[k + 1]
               n == Sum58(p, d)
    <2>1. /\ k + 1 \in 1 .. S /\ (k + 1) - 1 = k /\ k \in 0 .. S /\ j \in 1 .. S
          /\ (S - j) + 1 = k + 1 /\ j - 1 \in 0 .. S /\ j \in 0 .. S /\ S - (k + 1) = j - 1
        BY <1>4
    <2>2. p \in Taking /\ d \in Digits /\ g = TakeDigit58(p, d)
        BY <1>1, <1>6, <2>1
    <2>3. I(k)
        BY <1>8, <2>1
    <2>4. h[j] = d
        BY <1>2, <2>1
    <2> HIDE DEF j
    <2>5. X[j] = 58 * X[j - 1] + d /\ X[j - 1] \in Nat /\ X[j] \in Nat
        BY <1>4, <2>1, <2>4
    <2>6. Len(p.b58) = k /\ Chain(58, 256 * X[j] + p.carry, Ext!Reverse(p.b58), z)
        BY <2>3 DEF j
    <2>7. p.b58 \in Seq(Digits) /\ p.carry \in Nat /\ d \in Nat
        BY <2>2, Digit DEF Taking
    <2>8. n = p.carry + 256 * d
        BY DEF Sum58
    <2> HIDE DEF p, d, g, n
    <2>9. PICK u \in Nat, e \in Digits :
              n = 58 * u + e /\ g.carry = u /\ g.b58 = Append(p.b58, e)
        BY <2>2, DigitTaken DEF Carried58, n
    <2> DEFINE x == 256 * X[j - 1] + u  x1 == 256 * X[j] + p.carry  c == p.carry
               r == Ext!Reverse(p.b58)
    <2>10. x \in Nat /\ e \in Nat /\ x1 = 58 * x + e
        <3> DEFINE v == X[j - 1]  w == X[j]
        <3>1. v \in Nat /\ w = 58 * v + d /\ u \in Nat /\ n = c + 256 * d /\ n = 58 * u + e
            BY <2>5, <2>8, <2>9
        <3>2. e \in Nat /\ c \in Nat /\ d \in Nat
            BY <2>7, <2>9, Digit
        <3>3. x = 256 * v + u /\ x1 = 256 * w + c
            OBVIOUS
        <3> HIDE DEF v, w, c, x, x1
        <3> QED  BY <3>1, <3>2, <3>3
    <2>11. r \in Seq(Digits)
        BY <2>7, ReverseIs
    <2>12. Ext!Reverse(g.b58) = <<e>> \o r /\ Len(g.b58) = k + 1
        <3> DEFINE a == p.b58
        <3>1. a \in Seq(Digits) /\ e \in Digits /\ g.b58 = Append(a, e) /\ Len(a) = k
            BY <2>6, <2>7, <2>9
        <3>2. r = Ext!Reverse(a)
            OBVIOUS
        <3> HIDE DEF a, r
        <3>3. Ext!Reverse(Append(a, e)) = <<e>> \o Ext!Reverse(a)
            BY <3>1, ReverseAppend
        <3>4. Len(Append(a, e)) = k + 1
            BY <3>1, AppendProperties
        <3> QED  BY <3>1, <3>2, <3>3, <3>4
    <2>a. 58 \in Nat /\ r \in Seq(Nat)
        <3>1. Digits \subseteq Nat
            BY Digit
        <3> QED  BY <2>11, <3>1, Numbers
    <2>b. Chain(58, x1, r, z)
        BY <2>6
    <2> HIDE DEF x, x1, r
    <2>13. Chain(58, x, <<e>> \o r, z)
        BY <2>10, <2>a, <2>b, ChainPrepend
    <2>14. x = 256 * X[S - (k + 1)] + g.carry
        BY <2>1, <2>9 DEF x
    <2>15. Len(f[k + 1].b58) = k + 1 /\ R(k + 1) = <<e>> \o r
        BY <2>12 DEF g
    <2>16. x = 256 * X[S - (k + 1)] + f[k + 1].carry
        BY <2>14 DEF g
    <2> QED  BY <2>13, <2>15, <2>16
<1> HIDE DEF T
<1>9. S \in T
    BY <1>4, <1>7, <1>8, Induct
<1> DEFINE t == f[S]  c == t.carry  r == R(S)
<1>10. t \in Taking
    <2>1. S \in 0 .. S
        BY <1>4
    <2> QED  BY <1>1, <2>1
<1>11. Len(t.b58) = S /\ Chain(58, 256 * X[S - S] + c, r, z)
    BY <1>4, <1>9 DEF T
<1>12. t.b58 \in Seq(Digits) /\ c \in Nat
    BY <1>10 DEF Taking
<1>13. r \in Seq(Digits) /\ Len(r) = S
    BY <1>11, <1>12, ReverseIs
<1>14. r \in Seq(Nat)
    <2>1. Digits \subseteq Nat
        BY Digit
    <2> QED  BY <1>13, <2>1, Numbers
<1>15. 256 * X[S - S] + c = c
    <2>1. S - S = 0
        BY <1>4
    <2> HIDE DEF c
    <2>2. 256 * 0 + c = c
        BY <1>12
    <2> QED  BY <1>4, <2>1, <2>2
<1> HIDE DEF t, c, r
<1>16. Chain(58, c, r, z)
    BY <1>11, <1>15
<1>17. c = 0
    <2> SUFFICES ASSUME c \in Nat \ {0} PROVE FALSE
        BY <1>12
    <2>1. Powers(58, Len(r), q)
        BY <1>13 DEF S
    <2>2. z >= q[S]
        BY <1>13, <1>14, <1>16, <2>1, DigitsAbove
    <2>3. z < q[S] /\ q[S] \in Nat
        <3>1. S \in 0 .. S
            BY <1>4
        <3> QED  BY <3>1 DEF S, Powers
    <2> QED  BY <1>5, <2>2, <2>3
<1>18. Chain(58, 0, r, z)
    BY <1>16, <1>17
<1> QED  BY <1>1, <1>10, <1>11, <1>18 DEF t, r, S

-----------------------------------------------------------------------------
\* What is left when the zeros in front are cut off.
Cut(h) == SubSeq(h, Zeroes(h) + 1, Len(h))

LEMMA CutIs ==
    ASSUME NEW h \in Seq(Digits), NEW y, Chain(58, 0, h, y)
    PROVE  Cut(h) \in Seq(Digits) /\ NoLead(Cut(h)) /\ Chain(58, 0, Cut(h), y)
<1> DEFINE z == Zeroes(h)  N == Len(h)  n == N - z  s == Cut(h)
<1>1. /\ z \in 0 .. N /\ N \in Nat /\ \A i \in 1 .. z : h[i] = 0
      /\ z < N => h[z + 1] # 0
    BY ZeroesIs
<1>2. s = SubSeq(h, z + 1, N)
    BY DEF Cut
<1>3. \A i \in 1 .. N : h[i] \in Digits
    OBVIOUS
<1>a. h \in Seq(Nat) /\ 58 \in Nat
    <2>1. Digits \subseteq Nat
        BY Digit
    <2> QED  BY <2>1, Numbers
<1> HIDE DEF z, s
<1>4. s \in Seq(Digits) /\ Len(s) = n /\ n \in Nat /\ \A i \in 1 .. n : s[i] = h[z + i]
    <2>1. (1 + N) - (z + 1) = n /\ n \in Nat /\ z \in Nat
        BY <1>1
    <2>2. s = [i \in 1 .. n |-> h[(i + (z + 1)) - 1]]
        BY <1>1, <1>2, <2>1
    <2>3. \A i \in 1 .. n : (i + (z + 1)) - 1 = z + i /\ z + i \in 1 .. N
        BY <1>1
    <2> HIDE DEF n, N
    <2>4. \A i \in 1 .. n : s[i] = h[z + i] /\ h[z + i] \in Digits
        BY <1>3, <2>2, <2>3
    <2>5. s \in [1 .. n -> Digits]
        BY <2>2, <2>4
    <2> QED  BY <2>1, <2>4, <2>5
<1>5. NoLead(s)
    <2> SUFFICES ASSUME n > 0 PROVE s[1] # 0
        BY <1>4 DEF NoLead
    <2>1. 1 \in 1 .. n /\ z < N
        BY <1>1, <1>4
    <2> QED  BY <1>1, <1>4, <2>1
<1>6. Chain(58, 0, s, y)
    <2>1. s \in Seq(Nat)
        <3>1. Digits \subseteq Nat
            BY Digit
        <3> QED  BY <1>4, <3>1, Numbers
    <2>2. z \in Nat /\ Len(h) = z + Len(s) /\ \A i \in 1 .. Len(s) : h[z + i] = s[i]
        BY <1>1, <1>4
    <2>3. Chain(58, 0, h, y)
        OBVIOUS
    <2> QED  BY <1>1, <1>a, <2>1, <2>2, <2>3, ChainStrip
<1> QED  BY <1>4, <1>5, <1>6 DEF s

LEMMA TakenAgain ==
    ASSUME NEW b58 \in Seq(Digits), NEW byte \in Octets
    PROVE  TakeByte58(b58, byte).b58 \in Seq(Digits)
<1> DEFINE N == Len(b58)
<1>1. PICK f : /\ f[0] = [b58 |-> <<>>, carry |-> byte]
               /\ f \in [0 .. N -> Taking]
               /\ \A i \in 1 .. N : f[i] = TakeDigit58(f[i - 1], b58[i])
               /\ TakeByte58(b58, byte) = f[N]
    BY TakeUnfold
<1>2. N \in 0 .. N
    OBVIOUS
<1> HIDE DEF N
<1>3. f[N] \in Taking
    BY <1>1, <1>2
<1> QED  BY <1>1, <1>3 DEF Taking

\* The bytes behind the zeros.
Behind0(data, i) == data[Zeroes(data) + i]
Count0(data)     == Len(data) - Zeroes(data)

LEMMA Behind0Is ==
    ASSUME NEW data \in Seq(Octets)
    PROVE  /\ Count0(data) \in Nat /\ Size58(Count0(data)) \in Nat
           /\ \A i \in 1 .. Count0(data) : Behind0(data, i) \in Octets
<1> DEFINE z == Zeroes(data)  N == Len(data)  n == Count0(data)
<1>1. z \in 0 .. N /\ N \in Nat
    BY ZeroesIs
<1>2. \A i \in 1 .. N : data[i] \in Octets
    OBVIOUS
<1>3. n = N - z
    BY DEF Count0
<1> HIDE DEF z, N, n
<1>4. n \in Nat
    BY <1>1, <1>3
<1>5. Size58(n) \in Nat
    BY <1>4 DEF Size58
<1>6. ASSUME NEW i \in 1 .. n PROVE data[z + i] \in Octets
    <2>1. z + i \in 1 .. N
        BY <1>1, <1>3
    <2> QED  BY <1>2, <2>1
<1> QED  BY <1>4, <1>5, <1>6 DEF Behind0, z, n

LEMMA DigitsUnfold ==
    ASSUME NEW data \in Seq(Octets)
    PROVE  \E f : /\ f[0] = Zeros(Size58(Count0(data)))
                  /\ f \in [0 .. Count0(data) -> Seq(Digits)]
                  /\ \A i \in 1 .. Count0(data) : f[i] = TakeByte58(f[i - 1], Behind0(data, i)).b58
                  /\ Digits58(data) = Cut(Ext!Reverse(f[Count0(data)]))
<1> DEFINE N == Count0(data)
           none == Zeros(Size58(Count0(data)))
           Def(f) == f = [i \in 0 .. N |-> IF i = 0 THEN none ELSE TakeByte58(f[i - 1], Behind0(data, i)).b58]
           G == [x \in Seq(Digits) \X (1 .. N) |-> TakeByte58(x[1], Behind0(data, x[2])).b58]
<1>1. none \in Seq(Digits) /\ N \in Nat /\ G \in [Seq(Digits) \X (1 .. N) -> Seq(Digits)]
    <2>1. none \in Seq(Digits)
        <3>1. 0 \in Digits
            BY DEF Digits
        <3> QED  BY <3>1, Behind0Is, ZerosIs
    <2>2. \A p \in Seq(Digits), i \in 1 .. N : TakeByte58(p, Behind0(data, i)).b58 \in Seq(Digits)
        <3> TAKE p \in Seq(Digits), i \in 1 .. N
        <3>1. Behind0(data, i) \in Octets
            BY Behind0Is
        <3> QED  BY <3>1, TakenAgain
    <2> QED  BY <2>1, <2>2, Behind0Is
<1>2. \A p \in Seq(Digits), i \in 1 .. N : G[<<p, i>>] = TakeByte58(p, Behind0(data, i)).b58
    OBVIOUS
<1> HIDE DEF G, N, none
<1>3. PICK f \in [0 .. N -> Seq(Digits)] : Turns(f, N, none, G)
    BY <1>1, TurnsExist
<1>4. Def(f)
    <2>1. ASSUME NEW i \in 0 .. N
          PROVE  f[i] = IF i = 0 THEN none ELSE TakeByte58(f[i - 1], Behind0(data, i)).b58
        <3>1. f[i] = IF i = 0 THEN none ELSE G[<<f[i - 1], i>>]
            BY <1>3 DEF Turns
        <3>2. CASE i = 0
            BY <3>1, <3>2
        <3>3. CASE i # 0
            <4>1. i \in 1 .. N /\ i - 1 \in 0 .. N
                BY <1>1, <3>3
            <4> QED  BY <1>2, <3>1, <3>3, <4>1
        <3> QED  BY <3>2, <3>3
    <2> QED  BY <1>3, <2>1
<1> DEFINE c == CHOOSE c : Def(c)
<1>5. Def(c)
    BY <1>4
<1>6. Digits58(data) = Cut(Ext!Reverse(c[N]))
    BY DEF Digits58, Count0, Behind0, Cut, N, none
<1> HIDE DEF c
<1>7. c[0] = none /\ \A i \in 1 .. N : c[i] = TakeByte58(c[i - 1], Behind0(data, i)).b58
    <2>1. ASSUME NEW i \in 1 .. N PROVE c[i] = TakeByte58(c[i - 1], Behind0(data, i)).b58
        <3>1. i \in 0 .. N /\ i # 0
            BY <1>1
        <3> QED  BY <1>5, <3>1
    <2>2. 0 \in 0 .. N
        BY <1>1
    <2> QED  BY <1>5, <2>1, <2>2
<1>8. \A i \in 0 .. N : c[i] \in Seq(Digits)
    <2>1. \A i \in 1 .. N : c[i - 1] \in Seq(Digits) => c[i] \in Seq(Digits)
        <3> TAKE i \in 1 .. N
        <3> HAVE c[i - 1] \in Seq(Digits)
        <3> DEFINE p == c[i - 1]
        <3>1. G[<<p, i>>] = TakeByte58(p, Behind0(data, i)).b58 /\ G[<<p, i>>] \in Seq(Digits)
            BY <1>1, <1>2
        <3> QED  BY <1>7, <3>1
    <2>2. c[0] \in Seq(Digits)
        BY <1>1, <1>7
    <2> QED  BY <1>1, <2>1, <2>2, TurnsIn
<1>9. c \in [0 .. N -> Seq(Digits)]
    BY <1>5, <1>8
<1> QED  BY <1>6, <1>7, <1>9 DEF N, none

\* The bytes behind the zeros, one after another.
Rest(data) == [i \in 1 .. Count0(data) |-> Behind0(data, i)]

LEMMA RestIs ==
    ASSUME NEW data \in Seq(Octets)
    PROVE  /\ Rest(data) \in Seq(Octets) /\ Len(Rest(data)) = Count0(data)
           /\ NoLead(Rest(data))
           /\ \A i \in 1 .. Count0(data) : Rest(data)[i] = Behind0(data, i)
<1> DEFINE n == Count0(data)  r == Rest(data)
<1>1. n \in Nat /\ \A i \in 1 .. n : Behind0(data, i) \in Octets
    BY Behind0Is
<1>2. r = [i \in 1 .. n |-> Behind0(data, i)]
    BY DEF Rest
<1>3. n > 0 => Behind0(data, 1) # 0
    <2> DEFINE z == Zeroes(data)  N == Len(data)
    <2>1. z \in 0 .. N /\ N \in Nat /\ (z < N => data[z + 1] # 0)
        BY ZeroesIs
    <2>2. n = N - z
        BY DEF Count0
    <2> HIDE DEF z, N, n
    <2>3. n > 0 => z < N
        BY <2>1, <2>2
    <2> QED  BY <2>1, <2>3 DEF Behind0, z
<1> HIDE DEF n, r
<1>4. r \in [1 .. n -> Octets]
    BY <1>1, <1>2
<1>5. r \in Seq(Octets) /\ Len(r) = n
    BY <1>1, <1>4
<1>6. NoLead(r)
    <2> SUFFICES ASSUME n > 0 PROVE r[1] # 0
        BY <1>5 DEF NoLead
    <2>1. 1 \in 1 .. n
        BY <1>1
    <2> QED  BY <1>2, <1>3, <2>1
<1> QED  BY <1>2, <1>5, <1>6 DEF n, r

\* EncodeBase58() writes a number: the same as the bytes behind the zeros.
LEMMA DigitsRight ==
    ASSUME NEW data \in Seq(Octets)
    PROVE  /\ Digits58(data) \in Seq(Digits) /\ NoLead(Digits58(data))
           /\ \E y : Chain(256, 0, Rest(data), y) /\ Chain(58, 0, Digits58(data), y)
<1> DEFINE n == Count0(data)  S == Size58(n)  r == Rest(data)
<1>1. PICK f : /\ f[0] = Zeros(Size58(Count0(data)))
               /\ f \in [0 .. n -> Seq(Digits)]
               /\ \A i \in 1 .. n : f[i] = TakeByte58(f[i - 1], Behind0(data, i)).b58
               /\ Digits58(data) = Cut(Ext!Reverse(f[n]))
    BY DigitsUnfold
<1>2. n \in Nat /\ S \in Nat
    BY Behind0Is
<1>3. r \in Seq(Octets) /\ Len(r) = n /\ \A i \in 1 .. n : r[i] = Behind0(data, i)
    BY RestIs
<1>4. r \in Seq(Nat)
    BY <1>3, Plain
<1> HIDE DEF n, r
<1>a. 256 \in Nat /\ 58 \in Nat /\ 0 \in Nat
    OBVIOUS
<1>5. PICK X : Table(256, 0, r, X)
    BY <1>4, <1>a, ChainMade
<1>6. /\ X \in [0 .. n -> Nat] /\ X[0] = 0
      /\ \A i \in 1 .. n : X[i] = 256 * X[i - 1] + r[i]
    BY <1>3, <1>5 DEF Table
<1>7. PICK p : Powers(256, n, p)
    BY <1>2, <1>a, PowersMade
<1>8. PICK q : Powers(58, S, q)
    BY <1>2, <1>a, PowersMade
<1>9. p[n] <= q[S]
    BY <1>2, <1>7, <1>8, Capacity
<1> HIDE DEF S
<1>10. ASSUME NEW i \in 0 .. n PROVE X[i] < q[S] /\ X[i] \in Nat
    <2> DEFINE k == n - i
    <2>1. k \in Nat /\ i \in Nat /\ i + k = n
        BY <1>2
    <2>2. X[i] <= X[i + k]
        <3> DEFINE b == 256
        <3>1. b \in Nat \ {0} /\ Table(b, 0, r, X) /\ i + k <= Len(r)
            BY <1>2, <1>3, <1>5, <2>1
        <3> HIDE DEF b, k
        <3> QED  BY <1>4, <2>1, <3>1, TableGrows
    <2>3. X[n] < p[n]
        <3>1. n \in Nat /\ n <= Len(r) /\ n <= n
            BY <1>2, <1>3
        <3> QED  BY <1>2, <1>3, <1>5, <1>7, <3>1, BytesBelow
    <2>4. n \in 0 .. n /\ S \in 0 .. S
        BY <1>2
    <2>5. X[i] \in Nat /\ X[n] \in Nat
        BY <1>6, <2>4
    <2>6. p[n] \in Nat /\ q[S] \in Nat
        BY <1>7, <1>8, <2>4 DEF Powers
    <2> HIDE DEF k
    <2> QED  BY <1>9, <2>1, <2>2, <2>3, <2>5, <2>6
<1> DEFINE I(i) == Len(f[i]) = S /\ Chain(58, 0, Ext!Reverse(f[i]), X[i])
           T == {i \in Nat : i <= n => I(i)}
<1>11. 0 \in T
    <2> DEFINE s == Zeros(S)  h == Ext!Reverse(s)  Z == [i \in 0 .. S |-> 0]
    <2>1. s \in Seq(Digits) /\ Len(s) = S /\ \A i \in 1 .. S : s[i] = 0
        <3>1. 0 \in Digits
            BY DEF Digits
        <3> QED  BY <1>2, <3>1, ZerosIs
    <2>2. f[0] = s
        BY <1>1 DEF S, n
    <2> HIDE DEF s
    <2>3. h \in Seq(Digits) /\ Len(h) = S /\ \A i \in 1 .. S : h[i] = s[(S - i) + 1]
        BY <2>1, ReverseIs
    <2>4. \A i \in 1 .. S : h[i] = 0
        <3> TAKE i \in 1 .. S
        <3>1. (S - i) + 1 \in 1 .. S
            BY <1>2
        <3> QED  BY <2>1, <2>3, <3>1
    <2>5. Z \in [0 .. S -> Nat] /\ \A i \in 0 .. S : Z[i] = 0
        OBVIOUS
    <2>b. f[0] = s /\ h = Ext!Reverse(s)
        BY <2>2
    <2> HIDE DEF h, Z
    <2>6. ASSUME NEW i \in 1 .. S PROVE Z[i] = 58 * Z[i - 1] + h[i]
        <3>1. i - 1 \in 0 .. S /\ i \in 0 .. S
            BY <1>2
        <3>2. Z[i] = 0 /\ Z[i - 1] = 0 /\ h[i] = 0
            BY <2>4, <2>5, <3>1
        <3> QED  BY <3>2
    <2>7. 0 \in 0 .. S /\ S \in 0 .. S
        BY <1>2
    <2>8. Table(58, 0, h, Z)
        BY <2>3, <2>5, <2>6, <2>7 DEF Table
    <2>9. Chain(58, 0, h, 0)
        BY <2>3, <2>5, <2>7, <2>8 DEF Chain
    <2>10. Len(f[0]) = S /\ Chain(58, 0, Ext!Reverse(f[0]), X[0])
        BY <1>6, <2>1, <2>9, <2>b
    <2> QED  BY <2>10
<1>12. ASSUME NEW i \in Nat, i \in T PROVE i + 1 \in T
    <2> SUFFICES ASSUME i + 1 <= n PROVE I(i + 1)
        OBVIOUS
    <2> DEFINE b58 == f[i]  byte == Behind0(data, i + 1)  y == X[i]  z == X[i + 1]
    <2>1. i + 1 \in 1 .. n /\ (i + 1) - 1 = i /\ i \in 0 .. n /\ i + 1 \in 0 .. n
        BY <1>2
    <2>2. b58 \in Seq(Digits) /\ byte \in Octets
        <3>1. r[i + 1] \in Octets
            BY <1>3, <2>1
        <3> QED  BY <1>1, <1>3, <2>1, <3>1
    <2>3. Len(b58) = S /\ Chain(58, 0, Ext!Reverse(b58), y)
        BY <1>12, <2>1
    <2>4. y \in Nat /\ z = 256 * y + byte /\ z < q[S]
        BY <1>3, <1>6, <1>10, <2>1
    <2>5. f[i + 1] = TakeByte58(b58, byte).b58
        BY <1>1, <2>1
    <2> HIDE DEF b58, byte, y, z
    <2>6. Powers(58, Len(b58), q) /\ z < q[Len(b58)]
        BY <1>8, <2>3, <2>4
    <2>7. /\ Len(TakeByte58(b58, byte).b58) = Len(b58)
          /\ Chain(58, 0, Ext!Reverse(TakeByte58(b58, byte).b58), z)
        BY <2>2, <2>3, <2>4, <2>6, ByteTaken
    <2> QED  BY <2>3, <2>5, <2>7 DEF z
<1> HIDE DEF T
<1>13. n \in T
    BY <1>2, <1>11, <1>12, Induct
<1> DEFINE h == Ext!Reverse(f[n])  y == X[n]
<1>14. Chain(58, 0, h, y)
    BY <1>2, <1>13 DEF T
<1>15. h \in Seq(Digits)
    <2>1. n \in 0 .. n
        BY <1>2
    <2>2. f[n] \in Seq(Digits)
        BY <1>1, <2>1
    <2> QED  BY <2>2, ReverseIs
<1>16. Digits58(data) = Cut(h)
    BY <1>1
<1> HIDE DEF h
<1>17. Cut(h) \in Seq(Digits) /\ NoLead(Cut(h)) /\ Chain(58, 0, Cut(h), y)
    BY <1>14, <1>15, CutIs
<1>18. Chain(256, 0, r, y)
    BY <1>3, <1>5 DEF Chain
<1> QED  BY <1>16, <1>17, <1>18 DEF r

-----------------------------------------------------------------------------
\* Times58Plus(): 58 times the bytes and the digit.
Summing == [bytes : Seq(Octets), carry : Digits]
Sum256(p, b) == p.carry + 58 * b
Carried256(t, p, n) == \E u \in Digits, e \in Octets :
    n = 256 * u + e /\ t.carry = u /\ t.bytes = <<e>> \o p.bytes

LEMMA OneBefore ==
    ASSUME NEW S, NEW e \in S, NEW s \in Seq(S)
    PROVE  /\ <<e>> \o s \in Seq(S) /\ Len(<<e>> \o s) = Len(s) + 1
           /\ (<<e>> \o s)[1] = e
<1> DEFINE u == <<e>>  t == u \o s
<1>1. u \in Seq(S) /\ Len(u) = 1 /\ u[1] = e
    OBVIOUS
<1> HIDE DEF u
<1>2. u \o s \in Seq(S) /\ IsJoin(u \o s, u, s)
    BY <1>1, Joined
<1> HIDE DEF t
<1>3. t \in Seq(S) /\ IsJoin(t, u, s)
    BY <1>2 DEF t
<1>4. Len(t) = 1 + Len(s) /\ t[1] = u[1] /\ Len(s) \in Nat
    <2>1. 1 \in 1 .. 1
        OBVIOUS
    <2> QED  BY <1>1, <1>3, <2>1 DEF IsJoin
<1>5. Len(t) = Len(s) + 1 /\ t[1] = e
    BY <1>1, <1>4
<1> QED  BY <1>3, <1>5 DEF t, u

LEMMA ByteSummed ==
    ASSUME NEW p \in Summing, NEW b \in Octets
    PROVE  /\ TakeByte256(p, b) \in Summing
           /\ Carried256(TakeByte256(p, b), p, Sum256(p, b))
<1> DEFINE c == p.carry  s == p.bytes  n == Sum256(p, b)
<1>1. s \in Seq(Octets) /\ c \in Digits
    BY DEF Summing
<1>2. TakeByte256(p, b) = [bytes |-> <<n % 256>> \o s, carry |-> n \div 256]
    BY DEF TakeByte256, Sum256
<1>3. n = c + 58 * b
    BY DEF Sum256
<1>a. c \in 0 .. 57 /\ b \in 0 .. 255
    BY <1>1 DEF Digits, Octets
<1> HIDE DEF c, s, n
<1>4. n \in 0 .. 14847
    BY <1>3, <1>a
<1> DEFINE q == n \div 256  r == n % 256
<1>5. q \in 0 .. 57 /\ r \in 0 .. 255 /\ n = 256 * q + r
    BY <1>4
<1>b. TakeByte256(p, b) = [bytes |-> <<r>> \o s, carry |-> q]
    BY <1>2
<1> HIDE DEF q, r
<1>6. r \in Octets /\ q \in Digits
    BY <1>5 DEF Octets, Digits
<1> DEFINE t == <<r>> \o s
<1>7. t \in Seq(Octets)
    BY <1>1, <1>6, OneBefore
<1>c. TakeByte256(p, b) = [bytes |-> t, carry |-> q]
    BY <1>b
<1> HIDE DEF t
<1>8. TakeByte256(p, b) \in Summing /\ TakeByte256(p, b).carry = q /\ TakeByte256(p, b).bytes = t
    BY <1>6, <1>7, <1>c DEF Summing
<1>9. Carried256(TakeByte256(p, b), p, n)
    BY <1>5, <1>6, <1>8 DEF t, s, Carried256
<1> QED  BY <1>8, <1>9 DEF n

LEMMA SumUnfold ==
    ASSUME NEW bytes \in Seq(Octets), NEW digit \in Digits
    PROVE  \E f : /\ f[0] = [bytes |-> <<>>, carry |-> digit]
                  /\ f \in [0 .. Len(bytes) -> Summing]
                  /\ \A i \in 1 .. Len(bytes) : f[i] = TakeByte256(f[i - 1], bytes[Len(bytes) + 1 - i])
                  /\ Times58Plus(bytes, digit) = (IF f[Len(bytes)].carry = 0 THEN <<>> ELSE <<f[Len(bytes)].carry>>) \o f[Len(bytes)].bytes
<1> DEFINE N == Len(bytes)
           none == [bytes |-> <<>>, carry |-> digit]
           Def(f) == f = [i \in 0 .. N |-> IF i = 0 THEN none ELSE TakeByte256(f[i - 1], bytes[Len(bytes) + 1 - i])]
           G == [x \in Summing \X (1 .. N) |-> TakeByte256(x[1], bytes[Len(bytes) + 1 - x[2]])]
<1>1. none \in Summing /\ N \in Nat /\ G \in [Summing \X (1 .. N) -> Summing]
    <2>1. none \in Summing
        BY DEF Summing
    <2>2. \A p \in Summing, i \in 1 .. N : TakeByte256(p, bytes[Len(bytes) + 1 - i]) \in Summing
        <3> TAKE p \in Summing, i \in 1 .. N
        <3>1. Len(bytes) + 1 - i \in 1 .. N
            OBVIOUS
        <3>2. bytes[Len(bytes) + 1 - i] \in Octets
            BY <3>1
        <3> QED  BY <3>2, ByteSummed
    <2> QED  BY <2>1, <2>2
<1>2. \A p \in Summing, i \in 1 .. N : G[<<p, i>>] = TakeByte256(p, bytes[Len(bytes) + 1 - i])
    OBVIOUS
<1> HIDE DEF G, N, none
<1>3. PICK f \in [0 .. N -> Summing] : Turns(f, N, none, G)
    BY <1>1, TurnsExist
<1>4. Def(f)
    <2>1. ASSUME NEW i \in 0 .. N
          PROVE  f[i] = IF i = 0 THEN none ELSE TakeByte256(f[i - 1], bytes[Len(bytes) + 1 - i])
        <3>1. f[i] = IF i = 0 THEN none ELSE G[<<f[i - 1], i>>]
            BY <1>3 DEF Turns
        <3>2. CASE i = 0
            BY <3>1, <3>2
        <3>3. CASE i # 0
            <4>1. i \in 1 .. N /\ i - 1 \in 0 .. N
                BY <1>1, <3>3
            <4> QED  BY <1>2, <3>1, <3>3, <4>1
        <3> QED  BY <3>2, <3>3
    <2> QED  BY <1>3, <2>1
<1> DEFINE c == CHOOSE c : Def(c)
<1>5. Def(c)
    BY <1>4
<1>6. Times58Plus(bytes, digit) = (IF c[N].carry = 0 THEN <<>> ELSE <<c[N].carry>>) \o c[N].bytes
    BY DEF Times58Plus, N, none
<1> HIDE DEF c
<1>7. c[0] = none /\ \A i \in 1 .. N : c[i] = TakeByte256(c[i - 1], bytes[Len(bytes) + 1 - i])
    <2>1. ASSUME NEW i \in 1 .. N PROVE c[i] = TakeByte256(c[i - 1], bytes[Len(bytes) + 1 - i])
        <3>1. i \in 0 .. N /\ i # 0
            BY <1>1
        <3> QED  BY <1>5, <3>1
    <2>2. 0 \in 0 .. N
        BY <1>1
    <2> QED  BY <1>5, <2>1, <2>2
<1>8. \A i \in 0 .. N : c[i] \in Summing
    <2>1. \A i \in 1 .. N : c[i - 1] \in Summing => c[i] \in Summing
        <3> TAKE i \in 1 .. N
        <3> HAVE c[i - 1] \in Summing
        <3> DEFINE p == c[i - 1]
        <3>1. G[<<p, i>>] = TakeByte256(p, bytes[Len(bytes) + 1 - i]) /\ G[<<p, i>>] \in Summing
            BY <1>1, <1>2
        <3> QED  BY <1>7, <3>1
    <2>2. c[0] \in Summing
        BY <1>1, <1>7
    <2> QED  BY <1>1, <2>1, <2>2, TurnsIn
<1>9. c \in [0 .. N -> Summing]
    BY <1>5, <1>8
<1> QED  BY <1>6, <1>7, <1>9 DEF N, none

LEMMA TimesRight ==
    ASSUME NEW bytes \in Seq(Octets), NoLead(bytes), NEW digit \in Digits, NEW y \in Nat,
           Chain(256, 0, bytes, y), NEW z, z = 58 * y + digit
    PROVE  /\ Times58Plus(bytes, digit) \in Seq(Octets) /\ NoLead(Times58Plus(bytes, digit))
           /\ Chain(256, 0, Times58Plus(bytes, digit), z)
<1> DEFINE N == Len(bytes)
<1>1. PICK f : /\ f[0] = [bytes |-> <<>>, carry |-> digit]
               /\ f \in [0 .. N -> Summing]
               /\ \A i \in 1 .. N : f[i] = TakeByte256(f[i - 1], bytes[N + 1 - i])
               /\ Times58Plus(bytes, digit) =
                     (IF f[N].carry = 0 THEN <<>> ELSE <<f[N].carry>>) \o f[N].bytes
    BY SumUnfold
<1>2. bytes \in Seq(Nat) /\ 256 \in Nat /\ 0 \in Nat
    BY Plain
<1>3. PICK X : Table(256, 0, bytes, X) /\ X[N] = y
    BY DEF Chain
<1>4. /\ N \in Nat /\ X \in [0 .. N -> Nat] /\ X[0] = 0
      /\ \A i \in 1 .. N : X[i] = 256 * X[i - 1] + bytes[i]
    BY <1>3 DEF Table
<1>5. digit \in Nat /\ z \in Nat
    <2>1. digit \in Nat
        BY Digit
    <2> QED  BY <2>1
<1>6. \A i \in 1 .. N : bytes[i] \in Octets
    OBVIOUS
<1>7. N > 0 => bytes[1] # 0
    BY DEF NoLead
<1> HIDE DEF N
\* A turn of the loop.
<1>8. ASSUME NEW k \in Nat, k + 1 <= N
      PROVE  /\ f[k] \in Summing /\ f[k].bytes \in Seq(Octets) /\ f[k].carry \in Nat
             /\ N - k \in 1 .. N /\ N - (k + 1) = (N - k) - 1 /\ bytes[N - k] \in Octets
             /\ Carried256(f[k + 1], f[k], Sum256(f[k], bytes[N - k]))
    <2>1. /\ k + 1 \in 1 .. N /\ (k + 1) - 1 = k /\ k \in 0 .. N /\ N - k \in 1 .. N
          /\ N + 1 - (k + 1) = N - k /\ N - (k + 1) = (N - k) - 1
        <3>1. k + 1 \in 1 .. N /\ k \in 0 .. N /\ N - k \in 1 .. N
            BY <1>4, <1>8
        <3>2. (k + 1) - 1 = k /\ N + 1 - (k + 1) = N - k
            BY <1>4
        <3>3. N - (k + 1) = (N - k) - 1
            BY <1>4
        <3> QED  BY <3>1, <3>2, <3>3
    <2>2. f[k] \in Summing /\ bytes[N - k] \in Octets
        BY <1>1, <1>6, <2>1
    <2>3. f[k + 1] = TakeByte256(f[k], bytes[N - k])
        BY <1>1, <2>1
    <2>4. f[k].bytes \in Seq(Octets) /\ f[k].carry \in Nat
        BY <2>2, Digit DEF Summing
    <2> QED  BY <2>1, <2>2, <2>3, <2>4, ByteSummed
<1> DEFINE I(k) == Len(f[k].bytes) = k /\ Chain(256, 58 * X[N - k] + f[k].carry, f[k].bytes, z)
           T == {k \in Nat : k <= N => I(k)}
<1>9. 0 \in T
    <2>1. f[0].bytes = <<>> /\ f[0].carry = digit /\ N - 0 = N
        BY <1>1, <1>4
    <2>2. Len(f[0].bytes) = 0 /\ 58 * X[N - 0] + f[0].carry = z
        BY <1>3, <2>1
    <2>3. Chain(256, z, <<>>, z)
        BY <1>5, ChainEmpty
    <2> QED  BY <2>1, <2>2, <2>3
<1>10. ASSUME NEW k \in Nat, k \in T PROVE k + 1 \in T
    <2> SUFFICES ASSUME k + 1 <= N PROVE I(k + 1)
        OBVIOUS
    <2> DEFINE p == f[k]  j == N - k  d == bytes[j]  g == f[k + 1]  n == Sum256(p, d)
               c == p.carry  r == p.bytes
    <2>1. /\ r \in Seq(Octets) /\ c \in Nat /\ j \in 1 .. N
          /\ N - (k + 1) = j - 1 /\ d \in Octets
        BY <1>8
    <2>a. Carried256(g, p, n)
        BY <1>8
    <2>2. Len(r) = k /\ Chain(256, 58 * X[j] + c, r, z)
        <3>1. k <= N
            BY <1>4
        <3> QED  BY <1>10, <3>1
    <2>3. j - 1 \in 0 .. N /\ j \in 0 .. N
        BY <1>4, <2>1
    <2> HIDE DEF j
    <2>4. X[j] = 256 * X[j - 1] + d /\ X[j - 1] \in Nat /\ X[j] \in Nat
        BY <1>4, <2>1, <2>3
    <2>5. n = c + 58 * d
        BY DEF Sum256
    <2> HIDE DEF d, n
    <2>6. PICK u \in Digits, e \in Octets : n = 256 * u + e /\ g.carry = u /\ g.bytes = <<e>> \o r
        BY <2>a DEF Carried256
    <2>7. d \in Nat /\ u \in Nat /\ e \in Nat
        BY <2>1, Octet, Digit
    <2> HIDE DEF p, g, c, r
    <2> DEFINE x == 58 * X[j - 1] + u  x1 == 58 * X[j] + c
    <2>8. x \in Nat /\ x1 = 256 * x + e
        <3> DEFINE v == X[j - 1]  w == X[j]
        <3>1. v \in Nat /\ w = 256 * v + d /\ u \in Nat /\ n = c + 58 * d /\ n = 256 * u + e
            BY <2>4, <2>5, <2>6, <2>7
        <3>2. e \in Nat /\ c \in Nat /\ d \in Nat
            BY <2>1, <2>7
        <3>3. x = 58 * v + u /\ x1 = 58 * w + c
            OBVIOUS
        <3> HIDE DEF v, w, x, x1
        <3> QED  BY <3>1, <3>2, <3>3
    <2>9. r \in Seq(Nat)
        BY <2>1, Plain
    <2>b. Chain(256, x1, r, z)
        BY <2>2
    <2> HIDE DEF x, x1
    <2>10. Chain(256, x, <<e>> \o r, z)
        BY <1>2, <2>7, <2>8, <2>9, <2>b, ChainPrepend
    <2>11. Len(<<e>> \o r) = k + 1
        BY <2>1, <2>2, <2>6, OneBefore
    <2>12. x = 58 * X[N - (k + 1)] + g.carry
        BY <2>1, <2>6 DEF x
    <2>13. Len(g.bytes) = k + 1 /\ Chain(256, 58 * X[N - (k + 1)] + g.carry, g.bytes, z)
        BY <2>6, <2>10, <2>11, <2>12
    <2> QED  BY <2>13 DEF g
<1> HIDE DEF T
<1>11. N \in T
    BY <1>4, <1>9, <1>10, Induct
<1> DEFINE t == f[N]  c == t.carry  r == t.bytes
<1>12. t \in Summing
    <2>1. N \in 0 .. N
        BY <1>4
    <2> QED  BY <1>1, <2>1
<1>13. r \in Seq(Octets) /\ c \in Digits /\ c \in Nat /\ c \in Octets
    <2>1. r \in Seq(Octets) /\ c \in Digits
        BY <1>12 DEF Summing
    <2>2. Digits \subseteq Octets
        BY DEF Digits, Octets
    <2> HIDE DEF c
    <2> QED  BY <2>1, <2>2, Digit
<1>14. Len(r) = N /\ Chain(256, c, r, z)
    <2>1. Len(r) = N /\ Chain(256, 58 * X[N - N] + c, r, z)
        BY <1>4, <1>11 DEF T
    <2>2. N - N = 0
        BY <1>4
    <2> HIDE DEF c, r
    <2>3. 58 * 0 + c = c
        BY <1>13
    <2> QED  BY <1>4, <2>1, <2>2, <2>3
\* The first byte is not 0 unless there is a carry before it.
<1>15. c = 0 => NoLead(r)
    <2> SUFFICES ASSUME c = 0, N > 0 PROVE r[1] # 0
        BY <1>14 DEF NoLead
    <2> DEFINE k == N - 1  p == f[k]  d == bytes[1]  n == Sum256(p, d)
    <2>1. k \in Nat /\ k + 1 = N /\ N - k = 1
        BY <1>4
    <2>2. /\ p.bytes \in Seq(Octets) /\ p.carry \in Nat /\ d \in Octets
          /\ Carried256(t, p, n)
        <3> HIDE DEF k
        <3>1. k + 1 <= N
            BY <1>4, <2>1
        <3> QED  BY <1>8, <2>1, <3>1
    <2>3. d # 0 /\ d \in Nat
        BY <1>7, <2>2, Octet
    <2> DEFINE a == p.carry
    <2>4. n = a + 58 * d
        BY DEF Sum256
    <2> HIDE DEF n, d, a
    <2>5. PICK u \in Digits, e \in Octets : n = 256 * u + e /\ c = u /\ r = <<e>> \o p.bytes
        BY <2>2 DEF Carried256
    <2> HIDE DEF c, r, p
    <2>6. e # 0
        <3>1. u = 0 /\ e \in Nat /\ a \in Nat
            BY <2>2, <2>5, Octet DEF a
        <3> QED  BY <2>3, <2>4, <2>5, <3>1
    <2>7. (<<e>> \o p.bytes)[1] = e
        BY <2>2, <2>5, OneBefore
    <2> QED  BY <2>5, <2>6, <2>7
<1>16. Times58Plus(bytes, digit) = (IF c = 0 THEN <<>> ELSE <<c>>) \o r
    BY <1>1
<1> HIDE DEF c, r
<1>17. CASE c = 0
    <2>1. Times58Plus(bytes, digit) = r
        <3>1. <<>> \o r = r
            BY <1>13
        <3> QED  BY <1>16, <1>17, <3>1
    <2>2. Chain(256, 0, r, z)
        BY <1>14, <1>17
    <2> QED  BY <1>13, <1>15, <1>17, <2>1, <2>2
<1>18. CASE c # 0
    <2>1. Times58Plus(bytes, digit) = <<c>> \o r
        BY <1>16, <1>18
    <2>2. <<c>> \o r \in Seq(Octets) /\ (<<c>> \o r)[1] = c
        BY <1>13, OneBefore
    <2>3. NoLead(<<c>> \o r)
        BY <1>18, <2>2 DEF NoLead
    <2>4. c = 256 * 0 + c /\ r \in Seq(Nat)
        BY <1>13, Plain
    <2>5. Chain(256, 0, <<c>> \o r, z)
        BY <1>2, <1>13, <1>14, <2>4, ChainPrepend
    <2> QED  BY <2>1, <2>2, <2>3, <2>5
<1> QED  BY <1>17, <1>18

LEMMA TimesAgain ==
    ASSUME NEW bytes \in Seq(Octets), NEW digit \in Digits
    PROVE  Times58Plus(bytes, digit) \in Seq(Octets)
<1> DEFINE N == Len(bytes)
<1>1. PICK f : /\ f[0] = [bytes |-> <<>>, carry |-> digit]
               /\ f \in [0 .. N -> Summing]
               /\ \A i \in 1 .. N : f[i] = TakeByte256(f[i - 1], bytes[N + 1 - i])
               /\ Times58Plus(bytes, digit) =
                     (IF f[N].carry = 0 THEN <<>> ELSE <<f[N].carry>>) \o f[N].bytes
    BY SumUnfold
<1>2. N \in 0 .. N
    OBVIOUS
<1> HIDE DEF N
<1> DEFINE c == f[N].carry  r == f[N].bytes
<1>3. r \in Seq(Octets) /\ c \in Octets
    <2>1. f[N] \in Summing
        BY <1>1, <1>2
    <2>2. r \in Seq(Octets) /\ c \in Digits
        BY <2>1 DEF Summing
    <2>3. Digits \subseteq Octets
        BY DEF Digits, Octets
    <2> QED  BY <2>2, <2>3
<1>4. Times58Plus(bytes, digit) = (IF c = 0 THEN <<>> ELSE <<c>>) \o r
    BY <1>1
<1> HIDE DEF c, r
<1>5. CASE c = 0
    <2>1. <<>> \o r = r
        BY <1>3
    <2> QED  BY <1>3, <1>4, <1>5, <2>1
<1>6. CASE c # 0
    BY <1>3, <1>4, <1>6, OneBefore
<1> QED  BY <1>5, <1>6

LEMMA BytesUnfold ==
    ASSUME NEW digits \in Seq(Digits)
    PROVE  \E f : /\ f[0] = <<>>
                  /\ f \in [0 .. Len(digits) -> Seq(Octets)]
                  /\ \A i \in 1 .. Len(digits) : f[i] = Times58Plus(f[i - 1], digits[i])
                  /\ Bytes58(digits) = Zeros(Zeroes(digits)) \o f[Len(digits)]
<1> DEFINE N == Len(digits)
           none == <<>>
           Def(f) == f = [i \in 0 .. N |-> IF i = 0 THEN none ELSE Times58Plus(f[i - 1], digits[i])]
           G == [x \in Seq(Octets) \X (1 .. N) |-> Times58Plus(x[1], digits[x[2]])]
<1>1. none \in Seq(Octets) /\ N \in Nat /\ G \in [Seq(Octets) \X (1 .. N) -> Seq(Octets)]
    <2>1. none \in Seq(Octets)
        OBVIOUS
    <2>2. \A p \in Seq(Octets), i \in 1 .. N : Times58Plus(p, digits[i]) \in Seq(Octets)
        <3> TAKE p \in Seq(Octets), i \in 1 .. N
        <3>1. digits[i] \in Digits
            OBVIOUS
        <3> QED  BY <3>1, TimesAgain
    <2> QED  BY <2>1, <2>2
<1>2. \A p \in Seq(Octets), i \in 1 .. N : G[<<p, i>>] = Times58Plus(p, digits[i])
    OBVIOUS
<1> HIDE DEF G, N, none
<1>3. PICK f \in [0 .. N -> Seq(Octets)] : Turns(f, N, none, G)
    BY <1>1, TurnsExist
<1>4. Def(f)
    <2>1. ASSUME NEW i \in 0 .. N
          PROVE  f[i] = IF i = 0 THEN none ELSE Times58Plus(f[i - 1], digits[i])
        <3>1. f[i] = IF i = 0 THEN none ELSE G[<<f[i - 1], i>>]
            BY <1>3 DEF Turns
        <3>2. CASE i = 0
            BY <3>1, <3>2
        <3>3. CASE i # 0
            <4>1. i \in 1 .. N /\ i - 1 \in 0 .. N
                BY <1>1, <3>3
            <4> QED  BY <1>2, <3>1, <3>3, <4>1
        <3> QED  BY <3>2, <3>3
    <2> QED  BY <1>3, <2>1
<1> DEFINE c == CHOOSE c : Def(c)
<1>5. Def(c)
    BY <1>4
<1>6. Bytes58(digits) = Zeros(Zeroes(digits)) \o c[N]
    BY DEF Bytes58, N, none
<1> HIDE DEF c
<1>7. c[0] = none /\ \A i \in 1 .. N : c[i] = Times58Plus(c[i - 1], digits[i])
    <2>1. ASSUME NEW i \in 1 .. N PROVE c[i] = Times58Plus(c[i - 1], digits[i])
        <3>1. i \in 0 .. N /\ i # 0
            BY <1>1
        <3> QED  BY <1>5, <3>1
    <2>2. 0 \in 0 .. N
        BY <1>1
    <2> QED  BY <1>5, <2>1, <2>2
<1>8. \A i \in 0 .. N : c[i] \in Seq(Octets)
    <2>1. \A i \in 1 .. N : c[i - 1] \in Seq(Octets) => c[i] \in Seq(Octets)
        <3> TAKE i \in 1 .. N
        <3> HAVE c[i - 1] \in Seq(Octets)
        <3> DEFINE p == c[i - 1]
        <3>1. G[<<p, i>>] = Times58Plus(p, digits[i]) /\ G[<<p, i>>] \in Seq(Octets)
            BY <1>1, <1>2
        <3> QED  BY <1>7, <3>1
    <2>2. c[0] \in Seq(Octets)
        BY <1>1, <1>7
    <2> QED  BY <1>1, <2>1, <2>2, TurnsIn
<1>9. c \in [0 .. N -> Seq(Octets)]
    BY <1>5, <1>8
<1> QED  BY <1>6, <1>7, <1>9 DEF N, none

\* What is read is the number that the digits write.
LEMMA BytesRight ==
    ASSUME NEW digits \in Seq(Digits), NEW y, Chain(58, 0, digits, y)
    PROVE  \E v \in Seq(Octets) : /\ NoLead(v) /\ Chain(256, 0, v, y)
                                  /\ Bytes58(digits) = Zeros(Zeroes(digits)) \o v
<1> DEFINE N == Len(digits)
<1>1. PICK f : /\ f[0] = <<>>
               /\ f \in [0 .. N -> Seq(Octets)]
               /\ \A i \in 1 .. N : f[i] = Times58Plus(f[i - 1], digits[i])
               /\ Bytes58(digits) = Zeros(Zeroes(digits)) \o f[N]
    BY BytesUnfold
<1>2. PICK X : Table(58, 0, digits, X) /\ X[N] = y
    BY DEF Chain
<1>3. /\ N \in Nat /\ X \in [0 .. N -> Nat] /\ X[0] = 0
      /\ \A i \in 1 .. N : X[i] = 58 * X[i - 1] + digits[i]
    BY <1>2 DEF Table
<1>4. \A i \in 1 .. N : digits[i] \in Digits
    OBVIOUS
<1> HIDE DEF N
<1> DEFINE I(i) == NoLead(f[i]) /\ Chain(256, 0, f[i], X[i])
           T == {i \in Nat : i <= N => I(i)}
<1>5. 0 \in T
    <2>1. NoLead(<<>>)
        BY DEF NoLead
    <2>2. Chain(256, 0, <<>>, 0)
        BY ChainEmpty
    <2> QED  BY <1>1, <1>3, <2>1, <2>2
<1>6. ASSUME NEW i \in Nat, i \in T PROVE i + 1 \in T
    <2> SUFFICES ASSUME i + 1 <= N PROVE I(i + 1)
        OBVIOUS
    <2> DEFINE s == f[i]  d == digits[i + 1]  a == X[i]  z == X[i + 1]
    <2>1. i + 1 \in 1 .. N /\ (i + 1) - 1 = i /\ i \in 0 .. N /\ i <= N
        BY <1>3
    <2>2. NoLead(s) /\ Chain(256, 0, s, a) /\ s \in Seq(Octets) /\ d \in Digits
        BY <1>1, <1>4, <1>6, <2>1
    <2>3. a \in Nat /\ z = 58 * a + d /\ f[i + 1] = Times58Plus(s, d)
        BY <1>1, <1>3, <2>1
    <2> HIDE DEF s, d, a, z
    <2>4. NoLead(Times58Plus(s, d)) /\ Chain(256, 0, Times58Plus(s, d), z)
        BY <2>2, <2>3, TimesRight
    <2> QED  BY <2>3, <2>4 DEF z
<1> HIDE DEF T
<1>7. N \in T
    BY <1>3, <1>5, <1>6, Induct
<1>8. NoLead(f[N]) /\ Chain(256, 0, f[N], y)
    BY <1>2, <1>3, <1>7 DEF T
<1>9. f[N] \in Seq(Octets)
    <2>1. N \in 0 .. N
        BY <1>3
    <2> QED  BY <1>1, <2>1
<1> QED  BY <1>1, <1>8, <1>9

\* What EncodeBase58() writes is read again, whatever the bytes are.
LEMMA ReadAgain ==
    ASSUME NEW data \in Seq(Octets)
    PROVE  Bytes58(EncodeBase58(data)) = data
<1> DEFINE z == Zeroes(data)  D == Digits58(data)  r == Rest(data)  O == Zeros(z)
           n == Count0(data)  N == Len(data)
<1>1. PICK y : Chain(256, 0, r, y) /\ Chain(58, 0, D, y)
    BY DigitsRight
<1>2. D \in Seq(Digits) /\ NoLead(D)
    BY DigitsRight
<1>3. r \in Seq(Octets) /\ Len(r) = n /\ NoLead(r) /\ \A i \in 1 .. n : r[i] = data[z + i]
    BY RestIs DEF Behind0
<1>4. /\ z \in 0 .. N /\ N \in Nat /\ n = N - z
      /\ \A i \in 1 .. z : data[i] = 0
    BY ZeroesIs DEF Count0
<1>5. EncodeBase58(data) = O \o D
    BY DEF EncodeBase58
<1>6. /\ O \in Seq(Digits) /\ O \in Seq(Octets) /\ Len(O) = z /\ \A i \in 1 .. z : O[i] = 0
    <2>1. 0 \in Digits /\ 0 \in Octets /\ z \in Nat
        BY <1>4 DEF Digits, Octets
    <2> HIDE DEF z
    <2> QED  BY <2>1, ZerosIs
<1>a. z \in Nat
    BY <1>4
<1> HIDE DEF z, D, r, O, n, N
<1> DEFINE u == O \o D
<1>7. u \in Seq(Digits) /\ IsJoin(u, O, D)
    BY <1>2, <1>6, Joined
<1> HIDE DEF u
<1>8. /\ Len(D) \in Nat /\ Len(u) = z + Len(D) /\ \A i \in 1 .. z : u[i] = 0
      /\ \A i \in 1 .. Len(D) : u[z + i] = D[i]
    BY <1>6, <1>7 DEF IsJoin
<1>9. Zeroes(u) = z
    BY <1>2, <1>7, <1>8, <1>a, ZeroesJoin
<1>10. u \in Seq(Nat) /\ D \in Seq(Nat) /\ 58 \in Nat /\ 0 \in Nat /\ 256 \in Nat
    <2>1. Digits \subseteq Nat
        BY Digit
    <2>2. u \in Seq(Digits) /\ D \in Seq(Digits)
        BY <1>2, <1>7
    <2>3. u \in Seq(Nat) /\ D \in Seq(Nat)
        BY <2>1, <2>2, Numbers
    <2> QED  BY <2>3
<1>11. Chain(58, 0, u, y)
    <2>1. PICK X : Table(58, 0, u, X)
        BY <1>10, ChainMade
    <2> DEFINE w == X[Len(u)]
    <2>2. Chain(58, 0, u, w)
        BY <2>1 DEF Chain
    <2> HIDE DEF w
    <2>3. Chain(58, 0, D, w)
        <3>1. u \in Seq(Nat) /\ D \in Seq(Nat) /\ 58 \in Nat
            BY <1>10
        <3>2. /\ Len(u) = z + Len(D) /\ \A i \in 1 .. z : u[i] = 0
              /\ \A i \in 1 .. Len(D) : u[z + i] = D[i]
            BY <1>8
        <3> QED  BY <1>a, <2>2, <3>1, <3>2, ChainStrip
    <2>4. w = y
        BY <1>1, <1>10, <2>3, ChainOne
    <2> QED  BY <2>2, <2>4
<1>12. PICK v \in Seq(Octets) : /\ NoLead(v) /\ Chain(256, 0, v, y)
                                /\ Bytes58(u) = Zeros(Zeroes(u)) \o v
    BY <1>7, <1>11, BytesRight
<1>13. v = r
    BY <1>1, <1>3, <1>12, Unique
<1>14. Bytes58(u) = O \o r
    BY <1>9, <1>12, <1>13 DEF O
<1> DEFINE x == O \o r
<1>15. x \in Seq(Octets) /\ IsJoin(x, O, r)
    BY <1>3, <1>6, Joined
<1> HIDE DEF x
<1>16. /\ Len(x) = N /\ \A i \in 1 .. z : x[i] = 0
       /\ \A i \in 1 .. n : x[z + i] = r[i]
    <2>1. Len(x) = z + n /\ \A i \in 1 .. z : x[i] = 0
        BY <1>3, <1>6, <1>15 DEF IsJoin
    <2>2. \A i \in 1 .. n : x[z + i] = r[i]
        BY <1>3, <1>6, <1>15 DEF IsJoin
    <2>3. z + n = N
        BY <1>4
    <2> QED  BY <2>1, <2>2, <2>3
<1>17. ASSUME NEW i \in 1 .. N PROVE x[i] = data[i]
    <2>1. CASE i <= z
        <3>1. i \in 1 .. z
            BY <1>4, <2>1
        <3> QED  BY <1>4, <1>16, <3>1
    <2>2. CASE i > z
        <3> DEFINE k == i - z
        <3>1. k \in 1 .. n /\ i = z + k
            BY <1>4, <2>2
        <3> HIDE DEF k
        <3> QED  BY <1>3, <1>16, <3>1
    <2> QED  BY <1>4, <2>1, <2>2
<1>18. x = data
    <2>1. x = [i \in 1 .. N |-> x[i]]
        BY <1>15, <1>16
    <2>2. data = [i \in 1 .. N |-> data[i]]
        BY DEF N
    <2> QED  BY <1>17, <2>1, <2>2
<1> QED  BY <1>5, <1>14, <1>18 DEF u, x

-----------------------------------------------------------------------------
\* The text of base58 is read as the prefix and the hash. All that is
\* assumed of Crc, which stands for a library: its checksum of 21 bytes has 4.
CrcFits == \A s \in Hash(21) : Crc(s) \in Hash(4)

Body(pfx, h) == <<pfx>> \o h

LEMMA BodyIs ==
    ASSUME CrcFits, NEW pfx \in Octets, NEW h \in Hash(20)
    PROVE  /\ Body(pfx, h) \in Seq(Octets) /\ Len(Body(pfx, h)) = 21
           /\ Body(pfx, h)[1] = pfx /\ \A j \in 1 .. 20 : Body(pfx, h)[j + 1] = h[j]
           /\ Crc(Body(pfx, h)) \in Seq(Octets)
           /\ ripe2addr(h, pfx) = EncodeBase58(Body(pfx, h) \o Crc(Body(pfx, h)))
<1> DEFINE k == Body(pfx, h)
<1>1. /\ k \in Seq(Octets) /\ Len(k) = 21 /\ k[1] = pfx
      /\ \A j \in 1 .. 20 : k[j + 1] = h[j]
    BY Marked DEF Body
<1>2. ripe2addr(h, pfx) = EncodeBase58(k \o Crc(k))
    BY DEF ripe2addr, Body
<1> HIDE DEF k
<1>3. k \in Hash(21)
    <2> DEFINE n == 21
    <2>0. k \in Seq(Octets) /\ Len(k) = n
        BY <1>1
    <2>1. k \in [1 .. Len(k) -> Octets] /\ Len(k) = n
        <3> HIDE DEF n
        <3> QED  BY <2>0
    <2> HIDE DEF n
    <2>2. k \in Hash(n)
        BY <2>1 DEF Hash
    <2> QED  BY <2>2 DEF n
<1> DEFINE c == Crc(k)  n == 4
<1>4. c \in Hash(n) /\ n \in Nat
    BY <1>3 DEF CrcFits
<1> HIDE DEF c, n
<1>5. c \in Seq(Octets)
    BY <1>4, HashIs
<1> QED  BY <1>1, <1>2, <1>5 DEF k, c

\* A text in base58 is read as the bytes, with their checksum, that it was made of.
LEMMA Base58Reads ==
    ASSUME CrcFits, NEW pfx \in Octets, NEW h \in Hash(20)
    PROVE  /\ Bytes58(ripe2addr(h, pfx)) = Body(pfx, h) \o Crc(Body(pfx, h))
           /\ Reads(Base58(ripe2addr(h, pfx)), pfx, h)
<1> DEFINE k == Body(pfx, h)  c == Crc(k)  d == k \o c  t == ripe2addr(h, pfx)
<1>1. k \in Seq(Octets) /\ c \in Seq(Octets) /\ t = EncodeBase58(d)
    BY BodyIs
<1> HIDE DEF k, c, t
<1>2. d \in Seq(Octets)
    BY <1>1, Joined
<1> HIDE DEF d
<1>3. Bytes58(t) = d
    BY <1>1, <1>2, ReadAgain
<1>4. Bytes58(t) = k \o c
    BY <1>3 DEF d
<1>5. Base58(t).alphabet = "base58" /\ Base58(t).text = t
    BY DEF Base58
<1>6. Reads(Base58(t), pfx, h)
    BY <1>4, <1>5 DEF Reads, c, k, Body
<1> QED  BY <1>4, <1>6 DEF t, c, k

LEMMA Base58Tells ==
    ASSUME CrcFits, NEW p \in Octets, NEW q \in Octets, NEW h \in Hash(20), NEW g \in Hash(20),
           ripe2addr(h, p) = ripe2addr(g, q)
    PROVE  p = q /\ h = g
<1> DEFINE k == Body(p, h)  l == Body(q, g)  c == Crc(k)  d == Crc(l)
<1>1. k \o c = l \o d
    BY Base58Reads
<1>2. /\ k \in Seq(Octets) /\ Len(k) = 21 /\ k[1] = p
      /\ \A j \in 1 .. 20 : k[j + 1] = h[j]
      /\ c \in Seq(Octets)
    BY BodyIs
<1>3. /\ l \in Seq(Octets) /\ Len(l) = 21 /\ l[1] = q
      /\ \A j \in 1 .. 20 : l[j + 1] = g[j]
      /\ d \in Seq(Octets)
    BY BodyIs
<1> HIDE DEF k, l, c, d
<1>4. IsJoin(k \o c, k, c) /\ IsJoin(l \o d, l, d)
    BY <1>2, <1>3, Joined
<1>5. \A i \in 1 .. 21 : k[i] = l[i]
    <2> DEFINE x == k \o c  y == l \o d
    <2>1. x = y /\ IsJoin(x, k, c) /\ IsJoin(y, l, d)
        BY <1>1, <1>4
    <2> HIDE DEF x, y
    <2>2. (\A i \in 1 .. 21 : x[i] = k[i]) /\ (\A i \in 1 .. 21 : y[i] = l[i])
        BY <1>2, <1>3, <2>1 DEF IsJoin
    <2> QED  BY <2>1, <2>2
<1>6. p = q
    <2>1. 1 \in 1 .. 21
        OBVIOUS
    <2> QED  BY <1>2, <1>3, <1>5, <2>1
<1>7. \A j \in 1 .. 20 : h[j] = g[j]
    <2> TAKE j \in 1 .. 20
    <2>1. j + 1 \in 1 .. 21
        OBVIOUS
    <2> QED  BY <1>2, <1>3, <1>5, <2>1
<1> DEFINE n == 20
<1>8. n \in Nat /\ h \in Hash(n) /\ g \in Hash(n) /\ \A j \in 1 .. n : h[j] = g[j]
    BY <1>7
<1> HIDE DEF n
<1>9. h = g
    BY <1>8, HashIs, SeqEqual
<1> QED  BY <1>6, <1>9

-----------------------------------------------------------------------------
\* A byte is its bits.
LEMMA ByteBits ==
    ASSUME NEW v \in Octets, NEW w \in Octets,
           \A k \in 0 .. 7 : BitAt(v, k) = BitAt(w, k)
    PROVE  v = w
<1>1. v \in 0 .. 255 /\ w \in 0 .. 255
    BY DEF Octets
<1>2. \A k \in 0 .. 7 : (v \div Pow(k)) % 2 = (w \div Pow(k)) % 2
    BY Shifts
<1>3. /\ Pow(0) = 1 /\ Pow(1) = 2 /\ Pow(2) = 4 /\ Pow(3) = 8 /\ Pow(4) = 16
      /\ Pow(5) = 32 /\ Pow(6) = 64 /\ Pow(7) = 128
    BY SMT DEF Pow
<1>4. /\ (v \div 1) % 2 = (w \div 1) % 2 /\ (v \div 2) % 2 = (w \div 2) % 2
      /\ (v \div 4) % 2 = (w \div 4) % 2 /\ (v \div 8) % 2 = (w \div 8) % 2
      /\ (v \div 16) % 2 = (w \div 16) % 2 /\ (v \div 32) % 2 = (w \div 32) % 2
      /\ (v \div 64) % 2 = (w \div 64) % 2 /\ (v \div 128) % 2 = (w \div 128) % 2
    BY <1>2, <1>3
<1>5. v \div 128 = w \div 128
    BY <1>1, <1>4
<1>6. v \div 64 = w \div 64
    BY <1>1, <1>4, <1>5
<1>7. v \div 32 = w \div 32
    BY <1>1, <1>4, <1>6
<1>8. v \div 16 = w \div 16
    BY <1>1, <1>4, <1>7
<1>9. v \div 8 = w \div 8
    BY <1>1, <1>4, <1>8
<1>10. v \div 4 = w \div 4
    BY <1>1, <1>4, <1>9
<1>11. v \div 2 = w \div 2
    BY <1>1, <1>4, <1>10
<1> QED  BY <1>1, <1>4, <1>11

LEMMA Place8 ==
    ASSUME NEW i \in Nat, NEW k \in 0 .. 7
    PROVE  (8 * i + (7 - k)) \div 8 = i /\ (8 * i + (7 - k)) % 8 = 7 - k
OBVIOUS

\* The groups tell bytes apart.
LEMMA GroupsTell ==
    ASSUME NEW g \in Seq(Octets), NEW h \in Seq(Octets), ConvertBits(g) = ConvertBits(h)
    PROVE  g = h
<1> DEFINE c == ConvertBits(g)  L == Len(c)  a == Len(g)  b == Len(h)
<1>1. /\ c \in Seq(Fives) /\ 5 * L - 8 * a \in 0 .. 4
      /\ \A q \in 0 .. 5 * L - 1 : Bit5(c, q) = IF q < 8 * a THEN Bit8(g, q) ELSE 0
    BY ConvertedBits
<1>2. /\ 5 * L - 8 * b \in 0 .. 4
      /\ \A q \in 0 .. 5 * L - 1 : Bit5(c, q) = IF q < 8 * b THEN Bit8(h, q) ELSE 0
    BY ConvertedBits
<1>3. a \in Nat /\ b \in Nat /\ L \in Nat
    BY <1>1
<1>a. /\ \A i \in 1 .. a : g[i] \in Octets
      /\ \A i \in 1 .. b : h[i] \in Octets
    OBVIOUS
<1> HIDE DEF c, L, a, b
<1>4. a = b
    BY <1>1, <1>2, <1>3
<1>5. \A q \in 0 .. 8 * a - 1 : Bit8(g, q) = Bit8(h, q)
    <2> TAKE q \in 0 .. 8 * a - 1
    <2>1. q \in 0 .. 5 * L - 1 /\ q < 8 * a /\ q < 8 * b
        BY <1>1, <1>3, <1>4
    <2> QED  BY <1>1, <1>2, <2>1
<1>6. ASSUME NEW i \in 1 .. a PROVE g[i] = h[i]
    <2> DEFINE j == i - 1  v == g[i]  w == h[i]
    <2>1. j \in Nat /\ j + 1 = i /\ j <= a - 1
        BY <1>3
    <2>2. v \in Octets /\ w \in Octets
        BY <1>4, <1>a
    <2> HIDE DEF j
    <2>3. ASSUME NEW k \in 0 .. 7 PROVE BitAt(v, k) = BitAt(w, k)
        <3> DEFINE q == 8 * j + (7 - k)
        <3>1. q \in 0 .. 8 * a - 1
            BY <1>3, <2>1
        <3>2. q \div 8 = j /\ q % 8 = 7 - k
            BY <2>1, Place8
        <3>3. 7 - (7 - k) = k
            OBVIOUS
        <3> HIDE DEF q
        <3>4. Bit8(g, q) = BitAt(v, k) /\ Bit8(h, q) = BitAt(w, k)
            BY <2>1, <3>2, <3>3 DEF Bit8
        <3> QED  BY <1>5, <3>1, <3>4
    <2> HIDE DEF v, w
    <2>4. v = w
        BY <2>2, <2>3, ByteBits
    <2> QED  BY <2>4 DEF v, w
<1>7. a = b /\ Len(g) = a /\ Len(h) = b
    BY <1>4 DEF a, b
<1> QED  BY <1>6, <1>7, SeqEqual

\* What stands in a text in bech32.
Witness5(h) == <<0>> \o ConvertBits(h)

LEMMA Bech32Is ==
    ASSUME NEW h \in Seq(Octets)
    PROVE  /\ Witness5(h) \in Seq(0 .. 31)
           /\ wpkh2addr(h)[1] = 0
           /\ SubSeq(wpkh2addr(h), 2, Len(wpkh2addr(h)) - 6) = ConvertBits(h)
           /\ wpkh2addr(h) = Bech32Encode(Witness5(h))
<1> DEFINE F == 0 .. 31  c == ConvertBits(h)  n == Len(c)  v == Witness5(h)
           k == CreateChecksum(v)  t == v \o k
<1>1. c \in Seq(F)
    BY ConvertedBits DEF Fives
<1>2. k \in Seq(F) /\ Len(k) = 6
    BY CheckLen
<1>3. wpkh2addr(h) = t /\ wpkh2addr(h) = Bech32Encode(v)
    BY DEF wpkh2addr, Bech32Encode, Witness5
<1> HIDE DEF k
<1> DEFINE z == <<0>>
<1>4. z \in Seq(F) /\ Len(z) = 1 /\ z[1] = 0
    OBVIOUS
<1>5. v = z \o c
    BY DEF Witness5
<1> HIDE DEF F, c, v, t, z
<1>6. v \in Seq(F) /\ IsJoin(v, z, c)
    BY <1>1, <1>4, <1>5, Joined
<1>7. t \in Seq(F) /\ IsJoin(t, v, k)
    BY <1>2, <1>6, Joined DEF t
<1>8. n \in Nat /\ Len(v) = 1 + n /\ v[1] = 0 /\ \A i \in 1 .. n : v[1 + i] = c[i]
    <2>1. 1 \in 1 .. 1
        OBVIOUS
    <2> QED  BY <1>4, <1>6, <2>1 DEF IsJoin
<1>a. c = [i \in 1 .. n |-> c[i]]
    BY <1>1
<1> HIDE DEF n
<1>9. Len(t) = (1 + n) + 6 /\ \A i \in 1 .. 1 + n : t[i] = v[i]
    BY <1>2, <1>7, <1>8 DEF IsJoin
<1>10. t[1] = 0
    <2>1. 1 \in 1 .. 1 + n
        BY <1>8
    <2> QED  BY <1>8, <1>9, <2>1
<1>11. SubSeq(t, 2, Len(t) - 6) = c
    <2>1. Len(t) - 6 = 1 + n /\ (1 + (1 + n)) - 2 = n
        BY <1>8, <1>9
    <2>2. SubSeq(t, 2, 1 + n) = [i \in 1 .. n |-> t[(i + 2) - 1]]
        BY <1>8, <2>1
    <2>3. \A i \in 1 .. n : t[(i + 2) - 1] = c[i]
        <3> TAKE i \in 1 .. n
        <3>1. (i + 2) - 1 = 1 + i /\ 1 + i \in 1 .. 1 + n
            BY <1>8
        <3> QED  BY <1>8, <1>9, <3>1
    <2> QED  BY <1>a, <2>1, <2>2, <2>3
<1> QED  BY <1>3, <1>6, <1>10, <1>11 DEF F, c, v

LEMMA Bech32Reads ==
    ASSUME NEW h \in Seq(Octets), NEW pfx
    PROVE  Reads(Bech32(wpkh2addr(h)), pfx, h)
<1> DEFINE t == wpkh2addr(h)  u == Bech32(t)
<1>1. u.alphabet # "base58" /\ u.text = t
    BY DEF Bech32
<1>2. t[1] = 0 /\ SubSeq(t, 2, Len(t) - 6) = ConvertBits(h)
    BY Bech32Is
<1>3. PolyMod(ExpandHRP \o t) = {0}
    <2> DEFINE v == Witness5(h)
    <2>1. t = Bech32Encode(v) /\ v \in Seq(0 .. 31)
        BY Bech32Is
    <2> HIDE DEF t, v
    <2> QED  BY <2>1, ChecksumRight
<1> HIDE DEF t, u
<1>4. Same5(SubSeq(t, 2, Len(t) - 6), h)
    BY <1>2, ConvertedSame
<1>5. Reads(u, pfx, h)
    BY <1>1, <1>2, <1>3, <1>4 DEF Reads
<1> QED  BY <1>5 DEF u, t

LEMMA Bech32Tells ==
    ASSUME NEW g \in Seq(Octets), NEW h \in Seq(Octets), wpkh2addr(g) = wpkh2addr(h)
    PROVE  g = h
<1>1. ConvertBits(g) = ConvertBits(h)
    <2> DEFINE s == wpkh2addr(g)  t == wpkh2addr(h)
    <2>1. /\ SubSeq(s, 2, Len(s) - 6) = ConvertBits(g)
          /\ SubSeq(t, 2, Len(t) - 6) = ConvertBits(h)
        BY Bech32Is
    <2>2. s = t
        OBVIOUS
    <2> HIDE DEF s, t
    <2> QED  BY <2>1, <2>2
<1> QED  BY <1>1, GroupsTell

-----------------------------------------------------------------------------
\* What is printed for an owner.
TextOf(o) ==
    CASE o[1] = "key"                  -> <<Base58(ripe2addr(o[2], 0))>>
      [] o[1] = "script"               -> <<Base58(ripe2addr(o[2], 5))>>
      [] o[1] \in {"wkey", "wscript"}  -> <<Bech32(wpkh2addr(o[2]))>>
      [] o[1] = "keys"                 -> [i \in DOMAIN o[2] |-> Base58(ripe2addr(o[2][i], 0))]
Told(a) == /\ Len(Repr(a)) = Len(a.data)
           /\ \A i \in DOMAIN Repr(a) : Reads(Repr(a)[i], Prefix(a), a.data[i])
Prints(a, o) == Repr(a) = TextOf(o) /\ Told(a)

LEMMA OneTold ==
    ASSUME NEW name, NEW h, NEW t, Repr(Addr(name, <<h>>)) = <<t>>,
           Reads(t, Prefix(Addr(name, <<h>>)), h)
    PROVE  Told(Addr(name, <<h>>))
<1> DEFINE a == Addr(name, <<h>>)  r == Repr(a)
<1>1. a.data = <<h>> /\ r = <<t>>
    BY DEF Addr
<1> HIDE DEF a
<1>2. Len(r) = 1 /\ DOMAIN r = {1} /\ r[1] = t /\ Len(a.data) = 1 /\ a.data[1] = h
    BY <1>1
<1> HIDE DEF r
<1> QED  BY <1>2 DEF Told, r, a

LEMMA PrintsKey ==
    ASSUME CrcFits, NEW o \in {"key"} \X Hash(20), NEW name \in {"pubkey", "pubkeyhash", "multisig"}
    PROVE  Prints(Addr(name, <<o[2]>>), o)
<1> DEFINE h == o[2]  t == Base58(ripe2addr(h, 0))  a == Addr(name, <<h>>)
<1>1. o[1] = "key" /\ h \in Hash(20) /\ 0 \in Octets
    BY DEF Octets
<1>2. TextOf(o) = <<t>>
    BY <1>1 DEF TextOf
<1>3. Repr(a) = <<t>>
    <2>1. a.name = name /\ a.data = <<h>> /\ a.data[1] = h
        BY DEF Addr
    <2> HIDE DEF a, h
    <2>2. CASE name = "multisig"
        <3>1. Repr(a) = [i \in DOMAIN <<h>> |-> Base58(ripe2addr(<<h>>[i], 0))]
            BY <2>1, <2>2 DEF Repr, ReprMulti
        <3>2. DOMAIN <<h>> = 1 .. 1 /\ \A i \in 1 .. 1 : <<h>>[i] = h
            OBVIOUS
        <3>3. Repr(a) = [i \in 1 .. 1 |-> t]
            BY <3>1, <3>2
        <3> QED  BY <3>3
    <2>3. CASE name # "multisig"
        BY <2>1, <2>3 DEF Repr, ReprKey
    <2> QED  BY <2>2, <2>3
<1>4. Prefix(a) = 0
    BY DEF Prefix, Addr
<1> HIDE DEF h
<1>5. Reads(t, 0, h)
    BY <1>1, Base58Reads
<1> HIDE DEF t
<1>6. Told(a)
    BY <1>3, <1>4, <1>5, OneTold
<1> QED  BY <1>2, <1>3, <1>6 DEF Prints, h

LEMMA PrintsScript ==
    ASSUME CrcFits, NEW o \in {"script"} \X Hash(20)
    PROVE  Prints(Addr("scripthash", <<o[2]>>), o)
<1> DEFINE h == o[2]  t == Base58(ripe2addr(h, 5))  a == Addr("scripthash", <<h>>)
<1>1. o[1] = "script" /\ h \in Hash(20) /\ 5 \in Octets
    BY DEF Octets
<1>2. TextOf(o) = <<t>>
    BY <1>1 DEF TextOf
<1>3. Repr(a) = <<t>> /\ Prefix(a) = 5
    BY DEF Repr, ReprScript, Addr, Prefix
<1> HIDE DEF h
<1>5. Reads(t, 5, h)
    BY <1>1, Base58Reads
<1> HIDE DEF t
<1>6. Told(a)
    BY <1>3, <1>5, OneTold
<1> QED  BY <1>2, <1>3, <1>6 DEF Prints, h

LEMMA PrintsWitness ==
    ASSUME NEW n \in {20, 32}, NEW o \in {"wkey", "wscript"} \X Hash(n),
           NEW name \in {"witness_v0_keyhash", "witness_v0_scripthash"}
    PROVE  Prints(Addr(name, <<o[2]>>), o)
<1> DEFINE h == o[2]  t == Bech32(wpkh2addr(h))  a == Addr(name, <<h>>)
<1>1. o[1] \in {"wkey", "wscript"} /\ h \in Hash(n) /\ n \in Nat
    OBVIOUS
<1>2. TextOf(o) = <<t>>
    BY <1>1 DEF TextOf
<1>3. Repr(a) = <<t>> /\ Prefix(a) = 0
    BY DEF Repr, ReprWitness, Addr, Prefix
<1> HIDE DEF h
<1>4. h \in Seq(Octets)
    BY <1>1, HashIs
<1>5. Reads(t, Prefix(a), h)
    BY <1>4, Bech32Reads
<1> HIDE DEF t
<1>6. Told(a)
    BY <1>3, <1>5, OneTold
<1> QED  BY <1>2, <1>3, <1>6 DEF Prints, h

LEMMA PrintsKeys ==
    ASSUME CrcFits, NEW o \in Joint
    PROVE  Prints(Addr("multisig", o[2]), o)
<1> DEFINE hs == o[2]  a == Addr("multisig", hs)  n == Len(hs)
           r == [i \in DOMAIN hs |-> Base58(ripe2addr(hs[i], 0))]
<1>1. o[1] = "keys" /\ hs \in Seq(Hash(20))
    BY DEF Joint
<1>2. TextOf(o) = r
    BY <1>1 DEF TextOf
<1>3. Repr(a) = r /\ Prefix(a) = 0 /\ a.data = hs
    BY DEF Repr, ReprMulti, Addr, Prefix
<1> HIDE DEF hs, a
<1>4. n \in Nat /\ DOMAIN hs = 1 .. n /\ \A i \in 1 .. n : hs[i] \in Hash(20)
    BY <1>1
<1>5. r = [i \in 1 .. n |-> Base58(ripe2addr(hs[i], 0))]
    BY <1>4
<1> HIDE DEF r, n
<1>6. Len(r) = n /\ DOMAIN r = 1 .. n
    BY <1>4, <1>5
<1>7. ASSUME NEW i \in 1 .. n PROVE Reads(r[i], 0, hs[i])
    <2>1. 0 \in Octets /\ hs[i] \in Hash(20) /\ r[i] = Base58(ripe2addr(hs[i], 0))
        BY <1>4, <1>5 DEF Octets
    <2> QED  BY <2>1, Base58Reads
<1>8. Told(a)
    BY <1>3, <1>6, <1>7 DEF Told, n
<1> QED  BY <1>2, <1>3, <1>8 DEF Prints, a, hs

\* What is printed is read again as what was found.
LEMMA PrintsOwner ==
    ASSUME CrcFits, NEW a, NEW o, Reaches(a, o)
    PROVE  Prints(a, o)
<1>1. StandsFor(a, o)
    BY DEF Reaches
<1>2. CASE /\ o \in {"key"} \X Hash(20)
           /\ \/ a = Addr("pubkey", <<o[2]>>) \/ a = Addr("pubkeyhash", <<o[2]>>)
              \/ a = Addr("multisig", <<o[2]>>)
    BY <1>2, PrintsKey
<1>3. CASE o \in {"script"} \X Hash(20) /\ a = Addr("scripthash", <<o[2]>>)
    BY <1>3, PrintsScript
<1>4. CASE o \in {"wkey"} \X Hash(20) /\ a = Addr("witness_v0_keyhash", <<o[2]>>)
    <2> DEFINE n == 20
    <2>1. n \in {20, 32} /\ o \in {"wkey", "wscript"} \X Hash(n)
        BY <1>4
    <2> HIDE DEF n
    <2> QED  BY <1>4, <2>1, PrintsWitness
<1>5. CASE o \in {"wscript"} \X Hash(32) /\ a = Addr("witness_v0_scripthash", <<o[2]>>)
    <2> DEFINE n == 32
    <2>1. n \in {20, 32} /\ o \in {"wkey", "wscript"} \X Hash(n)
        BY <1>5
    <2> HIDE DEF n
    <2> QED  BY <1>5, <2>1, PrintsWitness
<1>6. CASE o \in Joint /\ a = Addr("multisig", o[2])
    BY <1>6, PrintsKeys
<1> QED  BY <1>1, <1>2, <1>3, <1>4, <1>5, <1>6 DEF StandsFor

\* Texts tell owners apart.
OfHash(o) == /\ o[1] \in {"key", "script"} /\ o[2] \in Hash(20)
             /\ TextOf(o) = <<Base58(ripe2addr(o[2], IF o[1] = "key" THEN 0 ELSE 5))>>
OfWitness(o) == /\ o[1] \in {"wkey", "wscript"} /\ o[2] \in Seq(Octets)
                /\ Len(o[2]) = IF o[1] = "wkey" THEN 20 ELSE 32
                /\ TextOf(o) = <<Bech32(wpkh2addr(o[2]))>>
OfKeys(o) == /\ o[1] = "keys" /\ o[2] \in Seq(Hash(20)) /\ Len(o[2]) \in Nat /\ Len(o[2]) > 1
             /\ TextOf(o) = [i \in 1 .. Len(o[2]) |-> Base58(ripe2addr(o[2][i], 0))]

LEMMA TextIs ==
    ASSUME NEW o \in AllOwners
    PROVE  o = <<o[1], o[2]>> /\ (OfHash(o) \/ OfWitness(o) \/ OfKeys(o))
<1>1. CASE o \in {"key", "script"} \X Hash(20)
    <2>1. o = <<o[1], o[2]>> /\ o[1] \in {"key", "script"} /\ o[2] \in Hash(20)
        BY <1>1
    <2> QED  BY <2>1 DEF OfHash, TextOf
<1>2. ASSUME NEW n \in {20, 32}, NEW kind \in {"wkey", "wscript"},
             n = IF kind = "wkey" THEN 20 ELSE 32, o \in {kind} \X Hash(n)
      PROVE  o = <<o[1], o[2]>> /\ OfWitness(o)
    <2> DEFINE h == o[2]
    <2>1. o = <<o[1], o[2]>> /\ o[1] = kind /\ h \in Hash(n) /\ n \in Nat
        BY <1>2
    <2>2. TextOf(o) = <<Bech32(wpkh2addr(o[2]))>>
        BY <2>1 DEF TextOf
    <2> HIDE DEF h
    <2>3. h \in Seq(Octets) /\ Len(h) = n
        BY <2>1, HashIs
    <2> QED  BY <1>2, <2>1, <2>2, <2>3 DEF OfWitness, h
<1>3. CASE o \in Joint
    <2>1. /\ o[1] = "keys" /\ o[2] \in Seq(Hash(20)) /\ Len(o[2]) > 1
          /\ o = <<o[1], o[2]>> /\ Len(o[2]) \in Nat /\ DOMAIN o[2] = 1 .. Len(o[2])
        BY <1>3 DEF Joint
    <2> QED  BY <2>1 DEF OfKeys, TextOf
<1>4. \/ o \in {"key", "script"} \X Hash(20) \/ o \in {"wkey"} \X Hash(20)
      \/ o \in {"wscript"} \X Hash(32) \/ o \in Joint
    BY DEF AllOwners, Single
<1>5. CASE o \in {"wkey"} \X Hash(20)
    <2> DEFINE n == 20  kind == "wkey"
    <2>1. /\ n \in {20, 32} /\ kind \in {"wkey", "wscript"}
          /\ n = IF kind = "wkey" THEN 20 ELSE 32
          /\ o \in {kind} \X Hash(n)
        BY <1>5
    <2> HIDE DEF n, kind
    <2> QED  BY <1>2, <2>1
<1>6. CASE o \in {"wscript"} \X Hash(32)
    <2> DEFINE n == 32  kind == "wscript"
    <2>1. /\ n \in {20, 32} /\ kind \in {"wkey", "wscript"}
          /\ n = IF kind = "wkey" THEN 20 ELSE 32
          /\ o \in {kind} \X Hash(n)
        BY <1>6
    <2> HIDE DEF n, kind
    <2> QED  BY <1>2, <2>1
<1> QED  BY <1>1, <1>3, <1>4, <1>5, <1>6

LEMMA Alphabets ==
    ASSUME NEW s, NEW t
    PROVE  /\ Base58(s) = Base58(t) => s = t
           /\ Bech32(s) = Bech32(t) => s = t
           /\ Base58(s) # Bech32(t)
<1>1. /\ Base58(s).text = s /\ Base58(t).text = t /\ Base58(s).alphabet = "base58"
      /\ Bech32(s).text = s /\ Bech32(t).text = t /\ Bech32(t).alphabet = "bech32"
    BY DEF Base58, Bech32
<1> HIDE DEF Base58, Bech32
<1> QED  BY <1>1

LEMMA TextsTell ==
    ASSUME CrcFits, NEW o \in AllOwners, NEW p \in AllOwners, TextOf(o) = TextOf(p)
    PROVE  o = p
<1>1. /\ o = <<o[1], o[2]>> /\ (OfHash(o) \/ OfWitness(o) \/ OfKeys(o))
      /\ p = <<p[1], p[2]>> /\ (OfHash(p) \/ OfWitness(p) \/ OfKeys(p))
    BY TextIs
<1>2. \A s, t : <<s>> = <<t>> => s = t
    OBVIOUS
<1>3. CASE OfHash(o) /\ OfHash(p)
    <2> DEFINE a == IF o[1] = "key" THEN 0 ELSE 5  b == IF p[1] = "key" THEN 0 ELSE 5
               h == o[2]  g == p[2]
    <2>1. /\ TextOf(o) = <<Base58(ripe2addr(h, a))>> /\ TextOf(p) = <<Base58(ripe2addr(g, b))>>
          /\ h \in Hash(20) /\ g \in Hash(20) /\ a \in Octets /\ b \in Octets
        <3>1. TextOf(o) = <<Base58(ripe2addr(h, a))>> /\ h \in Hash(20)
            BY <1>3 DEF OfHash
        <3>2. TextOf(p) = <<Base58(ripe2addr(g, b))>> /\ g \in Hash(20)
            BY <1>3 DEF OfHash
        <3>3. 0 \in Octets /\ 5 \in Octets
            BY DEF Octets
        <3>4. a \in Octets /\ b \in Octets
            BY <3>3
        <3> QED  BY <3>1, <3>2, <3>4
    <2>2. a = b => o[1] = p[1]
        BY <1>3 DEF OfHash
    <2> HIDE DEF a, b, h, g
    <2>3. ripe2addr(h, a) = ripe2addr(g, b)
        BY <1>2, <2>1, Alphabets
    <2>4. a = b /\ h = g
        BY <2>1, <2>3, Base58Tells
    <2> QED  BY <1>1, <2>2, <2>4 DEF h, g
<1>4. CASE OfWitness(o) /\ OfWitness(p)
    <2> DEFINE h == o[2]  g == p[2]
    <2>1. /\ TextOf(o) = <<Bech32(wpkh2addr(h))>> /\ TextOf(p) = <<Bech32(wpkh2addr(g))>>
          /\ h \in Seq(Octets) /\ g \in Seq(Octets)
        BY <1>4 DEF OfWitness
    <2>2. h = g => o[1] = p[1]
        BY <1>4 DEF OfWitness
    <2> HIDE DEF h, g
    <2>3. wpkh2addr(h) = wpkh2addr(g)
        BY <1>2, <2>1, Alphabets
    <2>4. h = g
        BY <2>1, <2>3, Bech32Tells
    <2> QED  BY <1>1, <2>2, <2>4 DEF h, g
<1>5. CASE OfKeys(o) /\ OfKeys(p)
    <2> DEFINE h == o[2]  g == p[2]  n == Len(h)  m == Len(g)
    <2>1. /\ h \in Seq(Hash(20)) /\ g \in Seq(Hash(20)) /\ n \in Nat /\ m \in Nat
          /\ o[1] = p[1]
          /\ TextOf(o) = [i \in 1 .. n |-> Base58(ripe2addr(h[i], 0))]
          /\ TextOf(p) = [i \in 1 .. m |-> Base58(ripe2addr(g[i], 0))]
        BY <1>5 DEF OfKeys
    <2>2. (\A i \in 1 .. n : h[i] \in Hash(20)) /\ (\A i \in 1 .. m : g[i] \in Hash(20))
        <3> HIDE DEF h, g
        <3> QED  BY <2>1
    <2> HIDE DEF h, g
    <2> HIDE DEF n, m
    <2> DEFINE s == TextOf(o)  u == [i \in 1 .. n |-> Base58(ripe2addr(h[i], 0))]
                               v == [i \in 1 .. m |-> Base58(ripe2addr(g[i], 0))]
    <2>6. s = u /\ s = v
        BY <2>1
    <2>7. DOMAIN u = 1 .. n /\ DOMAIN v = 1 .. m
        OBVIOUS
    <2>8. /\ \A i \in 1 .. n : u[i] = Base58(ripe2addr(h[i], 0))
          /\ \A i \in 1 .. m : v[i] = Base58(ripe2addr(g[i], 0))
        OBVIOUS
    <2> HIDE DEF s, u, v
    <2>3. n = m
        <3>1. 1 .. n = 1 .. m
            BY <2>6, <2>7
        <3>2. n \in Nat /\ m \in Nat
            BY <2>1
        <3> QED  BY <3>1, <3>2
    <2>4. ASSUME NEW i \in 1 .. n PROVE h[i] = g[i]
        <3>1. Base58(ripe2addr(h[i], 0)) = Base58(ripe2addr(g[i], 0))
            BY <2>3, <2>6, <2>8
        <3>2. ripe2addr(h[i], 0) = ripe2addr(g[i], 0)
            BY <3>1, Alphabets
        <3>3. h[i] \in Hash(20) /\ g[i] \in Hash(20) /\ 0 \in Octets
            BY <2>2, <2>3 DEF Octets
        <3> QED  BY <3>2, <3>3, Base58Tells
    <2>5. h = g
        BY <2>1, <2>3, <2>4, SeqEqual DEF n, m
    <2> QED  BY <1>1, <2>1, <2>5 DEF h, g
<1>6. CASE OfKeys(o) /\ ~OfKeys(p)
    <2>1. Len(TextOf(p)) = 1 /\ Len(TextOf(o)) > 1
        <3>1. Len(TextOf(o)) > 1
            <4> DEFINE n == Len(o[2])
            <4>1. TextOf(o) = [i \in 1 .. n |-> Base58(ripe2addr(o[2][i], 0))] /\ n \in Nat /\ n > 1
                BY <1>6 DEF OfKeys
            <4> HIDE DEF n
            <4> QED  BY <4>1
        <3>2. Len(TextOf(p)) = 1
            BY <1>1, <1>6 DEF OfHash, OfWitness
        <3> QED  BY <3>1, <3>2
    <2> QED  BY <2>1
<1>7. CASE OfKeys(p) /\ ~OfKeys(o)
    <2>1. Len(TextOf(o)) = 1 /\ Len(TextOf(p)) > 1
        <3>1. Len(TextOf(p)) > 1
            <4> DEFINE n == Len(p[2])
            <4>1. TextOf(p) = [i \in 1 .. n |-> Base58(ripe2addr(p[2][i], 0))] /\ n \in Nat /\ n > 1
                BY <1>7 DEF OfKeys
            <4> HIDE DEF n
            <4> QED  BY <4>1
        <3>2. Len(TextOf(o)) = 1
            BY <1>1, <1>7 DEF OfHash, OfWitness
        <3> QED  BY <3>1, <3>2
    <2> QED  BY <2>1
<1>8. CASE OfHash(o) /\ OfWitness(p)
    <2> DEFINE u == ripe2addr(o[2], IF o[1] = "key" THEN 0 ELSE 5)  w == wpkh2addr(p[2])
    <2>1. TextOf(o) = <<Base58(u)>>
        BY <1>8 DEF OfHash
    <2>2. TextOf(p) = <<Bech32(w)>>
        BY <1>8 DEF OfWitness
    <2> HIDE DEF u, w
    <2>3. Base58(u) = Bech32(w)
        BY <1>2, <2>1, <2>2
    <2> QED  BY <2>3, Alphabets
<1>9. CASE OfWitness(o) /\ OfHash(p)
    <2> DEFINE u == ripe2addr(p[2], IF p[1] = "key" THEN 0 ELSE 5)  w == wpkh2addr(o[2])
    <2>1. TextOf(p) = <<Base58(u)>>
        BY <1>9 DEF OfHash
    <2>2. TextOf(o) = <<Bech32(w)>>
        BY <1>9 DEF OfWitness
    <2> HIDE DEF u, w
    <2>3. Base58(u) = Bech32(w)
        BY <1>2, <2>1, <2>2
    <2> QED  BY <2>3, Alphabets
<1> QED  BY <1>1, <1>3, <1>4, <1>5, <1>6, <1>7, <1>8, <1>9

\* A wallet reads in what is printed the hash that was found, finds no error, and
\* tells by the text whose an output is, for every block that has a layout and
\* outputs of any form, and for hashes of any bytes: digits in base58, groups of
\* bits and the checksum of bech32 included.
THEOREM PrintedRightCorrect ==
    ASSUME AllLaid, AllOwned, CrcFits PROVE ParseSpec => []PrintedRight
<1>1. PInv /\ WInv /\ AddrInv => PrintedRight
    <2> SUFFICES ASSUME PInv, AddrInv PROVE PrintedRight
        OBVIOUS
    <2> DEFINE owned == {o \in Outputs : OwnerOf(o) \notin {Nobody, Unspecified}}
               text  == [o \in owned |-> Repr(AddrOf(o))]
    <2>1. ASSUME NEW o \in owned
          PROVE  /\ Repr(AddrOf(o)) = TextOf(OwnerOf(o)) /\ Told(AddrOf(o))
                 /\ OwnerOf(o) \in AllOwners
        <3>1. Reaches(AddrOf(o), OwnerOf(o))
            BY OutputIs
        <3>2. Prints(AddrOf(o), OwnerOf(o))
            BY <3>1, PrintsOwner
        <3> QED  BY <3>1, <3>2 DEF Prints, Reaches
    <2>2. \A o \in owned : text[o] = Repr(AddrOf(o))
        OBVIOUS
    <2> HIDE DEF text
    <2>3. ASSUME NEW o \in owned
          PROVE  /\ Len(text[o]) = Len(AddrOf(o).data)
                 /\ \A i \in DOMAIN text[o] :
                       Reads(text[o][i], Prefix(AddrOf(o)), AddrOf(o).data[i])
        BY <2>1, <2>2 DEF Told
    <2>4. ASSUME NEW o \in owned, NEW p \in owned
          PROVE  text[o] = text[p] <=> OwnerOf(o) = OwnerOf(p)
        <3>1. /\ text[o] = TextOf(OwnerOf(o)) /\ OwnerOf(o) \in AllOwners
              /\ text[p] = TextOf(OwnerOf(p)) /\ OwnerOf(p) \in AllOwners
            BY <2>1, <2>2
        <3> QED  BY <3>1, TextsTell
    <2> QED  BY <2>3, <2>4 DEF PrintedRight, text
<1> QED  BY <1>1, InitHolds, NextHolds, WalkInit, WalkNext, AddrInit, AddrNextHolds, PTL
         DEF ParseSpec

=============================================================================
