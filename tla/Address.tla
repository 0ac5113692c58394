------------------------------- MODULE Address -------------------------------
(***************************************************************************)
(* addr_decode(): from the script of an output to an address and to the    *)
(* key of the address in the store.  A script is given as in the code: by  *)
(* the memory it begins and by its length n; m[i] below is byte i-1.       *)
(* NoAddress stands for nullptr, and for an AddrException, which VOUT_T    *)
(* takes for the same.                                                     *)
(***************************************************************************)
EXTENDS Integers, Sequences
LOCAL INSTANCE SequencesExt

CONSTANT Hash160(_)     \* SHA256 and RIPEMD160 of a sequence of bytes

OP_0 == 0
OP_1 == 81
OP_16 == 96
OP_RETURN == 106
OP_DUP == 118
OP_EQUAL == 135
OP_EQUALVERIFY == 136
OP_HASH160 == 169
OP_CHECKSIG == 172
OP_CHKMULTISIG == 174

KEY_0 == 0
KEY_S == 1
KEY_W == 2

NoAddress == [name |-> "nonstandard", data |-> <<>>]
Addr(name, hashes) == [name |-> name, data |-> hashes]

\* n bytes from byte i on.
Bytes(m, i, n) == SubSeq(m, i + 1, i + n)

PKuPrefix(b) == b \in {4, 6, 7}
PKcPrefix(b) == b \in {2, 3}

\* A key of a script, after the byte with its length.
IsKey(m, i) == \/ m[i + 1] = 65 /\ PKuPrefix(m[i + 2])
               \/ m[i + 1] = 33 /\ PKcPrefix(m[i + 2])
NextKey(m, i) == i + m[i + 1] + 1
KeyHash(m, i) == Hash160(Bytes(m, i + 1, m[i + 1]))

PubKey(m, n) ==
    IF n = m[1] + 2 /\ IsKey(m, 0) /\ m[n] = OP_CHECKSIG
      THEN Addr("pubkey", <<KeyHash(m, 0)>>)
      ELSE NoAddress

PubKeyHash(m, n) ==
    IF /\ n = 25
       /\ m[2] = OP_HASH160 /\ m[3] = 20
       /\ m[24] = OP_EQUALVERIFY /\ m[25] = OP_CHECKSIG
      THEN Addr("pubkeyhash", <<Bytes(m, 3, 20)>>)
      ELSE NoAddress

ScriptHash(m, n) ==
    IF n = 23 /\ m[2] = 20 /\ m[23] = OP_EQUAL
      THEN Addr("scripthash", <<Bytes(m, 2, 20)>>)
      ELSE NoAddress

\* The length of the script is not looked at.
Witness(m, n) ==
    CASE m[2] = 20 -> Addr("witness_v0_keyhash", <<Bytes(m, 2, 20)>>)
      [] m[2] = 32 -> Addr("witness_v0_scripthash", <<Bytes(m, 2, 32)>>)
      [] OTHER     -> NoAddress

\* The keys are read one after another, until there are as many as the script
\* says or its end is reached; what is left over is ignored.  They stay in the
\* order of the script: sort_multisig() sorts a copy.
MultiSig(m, n) ==
    LET qty      == m[n - 1] - (OP_1 - 1)
        at[i \in 0 .. 16] == IF i = 0 THEN 1 ELSE NextKey(m, at[i - 1])
        atEnd(i) == i = qty \/ at[i] >= n - 2
        last     == CHOOSE i \in 0 .. qty :
                       /\ atEnd(i) \/ ~IsKey(m, at[i])
                       /\ \A j \in 0 .. i - 1 : ~atEnd(j) /\ IsKey(m, at[j])
    IN  IF m[n] = OP_CHKMULTISIG /\ m[1] <= m[n - 1] /\ m[n - 1] <= OP_16
          THEN IF atEnd(last)
                 THEN Addr("multisig", [i \in 1 .. last |-> KeyHash(m, at[i - 1])])
                 ELSE NoAddress
          ELSE NoAddress

Decode(m, n) ==
    CASE n = 0                           -> NoAddress
      [] n > 0 /\ m[1] = OP_RETURN       -> Addr("nulldata", <<>>)
      [] n \in 1 .. 21 /\ m[1] # OP_RETURN -> NoAddress
      [] n > 21 /\ m[1] # OP_RETURN ->
           CASE m[1] \in {33, 65}       -> PubKey(m, n)
             [] m[1] = OP_DUP           -> PubKeyHash(m, n)
             [] m[1] = OP_HASH160       -> ScriptHash(m, n)
             [] m[1] = OP_0             -> Witness(m, n)
             [] m[1] \in OP_1 .. OP_16  -> MultiSig(m, n)
             [] OTHER                   -> NoAddress

\* is_full(): only such an address is stored.
IsFull(a) == a # NoAddress /\ a.name # "nulldata"

\* Mutant: a key does not tell what kind of hash it holds.
AsKeyPlain(a) == FlattenSeq(a.data)

\* as_key(): what AddrDB knows the address by.
AsKey(a) ==
    CASE a.name \in {"pubkey", "pubkeyhash"} -> <<KEY_0>> \o a.data[1]
      [] a.name = "scripthash"               -> <<KEY_S>> \o a.data[1]
      [] a.name = "witness_v0_keyhash"       -> <<KEY_W>> \o a.data[1]
      [] a.name = "multisig" /\ Len(a.data) = 1 -> <<KEY_0>> \o a.data[1]
      [] OTHER                               -> FlattenSeq(a.data)
=============================================================================
