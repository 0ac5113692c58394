----------------------------- MODULE ScriptForms -----------------------------
(***************************************************************************)
(* Which owner a script names, form by form: what addr_decode() is         *)
(* compared with.  Parse is proved right for every block whose outputs     *)
(* have the owners that are given here.  An owner is a kind and a hash, or *)
(* the hashes of two keys or more.                                         *)
(* The keys of a script follow each other without a gap: f[i] is the place *)
(* of the i-th one, with its length, and the last place is where they end. *)
(***************************************************************************)
EXTENDS Parse, Layout

Hash(n) == [1 .. n -> Octets]

IsPubKey(k) == /\ k \in Seq(Octets)
               /\ \/ Len(k) = 65 /\ k[1] \in {4, 6, 7}
                  \/ Len(k) = 33 /\ k[1] \in {2, 3}
KeyFrom(s, p, q) == SubSeq(s, p + 2, q)
Pushed(s, p, q)  == IsPubKey(KeyFrom(s, p, q)) /\ s[p + 1] = q - p - 1
KeyHashes(s, f)  == [i \in 1 .. Len(f) - 1 |-> Hash160(KeyFrom(s, f[i], f[i + 1]))]

\* A key, its hash, the hash of a script, a witness program of n bytes.
PayKey(s) == Len(s) > 2 /\ Pushed(s, 0, Len(s) - 1) /\ s[Len(s)] = OP_CHECKSIG
PayKeyHash(s) ==
    /\ Len(s) = 25 /\ s[1] = OP_DUP /\ s[2] = OP_HASH160 /\ s[3] = 20
    /\ s[24] = OP_EQUALVERIFY /\ s[25] = OP_CHECKSIG
PayScriptHash(s) == Len(s) = 23 /\ s[1] = OP_HASH160 /\ s[2] = 20 /\ s[23] = OP_EQUAL
PayWitness(s, n) == Len(s) = n + 2 /\ s[1] = OP_0 /\ s[2] = n

\* m keys of n, for 1 <= m <= n <= 16.
OfMany(s) ==
    /\ s[1] \in OP_1 .. OP_16 /\ s[Len(s)] = OP_CHKMULTISIG
    /\ s[1] <= s[Len(s) - 1] /\ s[Len(s) - 1] <= OP_16
KeysAt(s, f) ==
    /\ f[1] = 1
    /\ \A i \in 1 .. Len(f) - 1 : f[i + 1] <= Len(s) - 2 /\ Pushed(s, f[i], f[i + 1])
PayMany(s, f) ==
    /\ Len(s) > 21 /\ f \in Seq(Nat) /\ Len(f) > 1 /\ OfMany(s) /\ KeysAt(s, f)
    /\ s[Len(s) - 1] = OP_1 + Len(f) - 2 /\ f[Len(f)] = Len(s) - 2

Names(s, o, f) ==
    \/ /\ o \in {"key"} \X Hash(20)
       /\ \/ PayKey(s) /\ o[2] = Hash160(KeyFrom(s, 0, Len(s) - 1))
          \/ PayKeyHash(s) /\ o[2] = SubSeq(s, 4, 23)
          \/ PayMany(s, f) /\ Len(f) = 2 /\ o[2] = KeyHashes(s, f)[1]
    \/ o \in {"script"} \X Hash(20) /\ PayScriptHash(s) /\ o[2] = SubSeq(s, 3, 22)
    \/ o \in {"wkey"} \X Hash(20) /\ PayWitness(s, 20) /\ o[2] = SubSeq(s, 3, 22)
    \/ o \in {"wscript"} \X Hash(32) /\ PayWitness(s, 32) /\ o[2] = SubSeq(s, 3, 34)
    \/ /\ o \in {"keys"} \X Seq(Hash(20))
       /\ PayMany(s, f) /\ Len(f) > 2 /\ o[2] = KeyHashes(s, f)

\* A script that names nobody is short, or it is text, or none of the forms; with
\* keys it is none if where a key should be, at the last of the places, none is.
NotAKey(s, p) ==
    /\ ~ (s[p + 1] = 65 /\ s[p + 2] \in {4, 6, 7})
    /\ ~ (s[p + 1] = 33 /\ s[p + 2] \in {2, 3})
BadKey(s, f) ==
    /\ f \in Seq(Nat) /\ Len(f) > 0 /\ KeysAt(s, f)
    /\ Len(f) <= s[Len(s) - 1] - OP_1 + 1
    /\ f[Len(f)] < Len(s) - 2 /\ NotAKey(s, f[Len(f)])
Nameless(s, f) ==
    \/ Len(s) <= 21 \/ s[1] = OP_RETURN
    \/ /\ ~PayKey(s) /\ ~PayKeyHash(s) /\ ~PayScriptHash(s)
       /\ ~ (s[1] = OP_0 /\ s[2] \in {20, 32})
       /\ OfMany(s) => BadKey(s, f)

\* The output r has the owner that its script names.  Nothing is said of a witness
\* program of another length than its second byte says, nor of keys followed by
\* something else or cut off.
Owned(r, f) ==
    \/ r.owner = Unspecified
    \/ r.owner = Nobody /\ Nameless(r.script, f)
    \/ Names(r.script, r.owner, f)
=============================================================================
