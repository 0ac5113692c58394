------------------------------- MODULE Printing -------------------------------
(***************************************************************************)
(* What is printed for the addresses that Parse has found.                 *)
(***************************************************************************)
EXTENDS Parse, Encode

Base58(digits) == [alphabet |-> "base58", text |-> digits]
Bech32(digits) == [alphabet |-> "bech32", text |-> digits]

\* repr() and as_json() of each kind of address: a list of texts.
ReprKey(a)     == <<Base58(ripe2addr(a.data[1], 0))>>
ReprScript(a)  == <<Base58(ripe2addr(a.data[1], 5))>>
ReprWitness(a) == <<Bech32(wpkh2addr(a.data[1]))>>
ReprMulti(a)   == [i \in DOMAIN a.data |-> Base58(ripe2addr(a.data[i], 0))]

Repr(a) ==
    CASE a.name \in {"pubkey", "pubkeyhash"} -> ReprKey(a)
      [] a.name = "scripthash"               -> ReprScript(a)
      [] a.name \in {"witness_v0_keyhash", "witness_v0_scripthash"} -> ReprWitness(a)
      [] a.name = "multisig"                 -> ReprMulti(a)
      [] OTHER                               -> <<>>

-----------------------------------------------------------------------------
\* The reference: how an address is read.

\* The bytes of a number that is written with 58 digits: a digit more is 58 times
\* the bytes, from the last one on, and the digit.
TakeByte256(prev, byte) ==
    LET n == prev.carry + 58 * byte
    IN  [bytes |-> <<n % 256>> \o prev.bytes, carry |-> n \div 256]
Times58Plus(bytes, digit) ==
    LET sum[i \in 0 .. Len(bytes)] ==
            IF i = 0 THEN [bytes |-> <<>>, carry |-> digit]
            ELSE TakeByte256(sum[i - 1], bytes[Len(bytes) + 1 - i])
        last == sum[Len(bytes)]
    IN  (IF last.carry = 0 THEN <<>> ELSE <<last.carry>>) \o last.bytes
Bytes58(digits) ==
    LET value[i \in 0 .. Len(digits)] ==
            IF i = 0 THEN <<>> ELSE Times58Plus(value[i - 1], digits[i])
    IN  Zeros(Zeroes(digits)) \o value[Len(digits)]

\* Groups of 5 bits are these bytes and less than 5 bits that are 0.
Same5(groups, bytes) ==
    LET Bit5(i) == BitAt(groups[(i \div 5) + 1], 4 - (i % 5))
        Bit8(i) == BitAt(bytes[(i \div 8) + 1], 7 - (i % 8))
    IN  /\ 5 * Len(groups) - 8 * Len(bytes) \in 0 .. 4
        /\ \A i \in 0 .. 5 * Len(groups) - 1 :
              Bit5(i) = IF i < 8 * Len(bytes) THEN Bit8(i) ELSE 0

Reads(t, pfx, hash) ==
    IF t.alphabet = "base58"
      THEN LET body == <<pfx>> \o hash IN Bytes58(t.text) = body \o Crc(body)
      ELSE /\ PolyMod(ExpandHRP \o t.text) = {0}
           /\ t.text[1] = 0
           /\ Same5(SubSeq(t.text, 2, Len(t.text) - 6), hash)

Prefix(a) == IF a.name = "scripthash" THEN 5 ELSE 0

\* A wallet that reads what is printed, and checks the sums, finds the hash of
\* the owner in it, with zeros in front and with groups of bits that are not
\* full, and an address that was found twice is printed once more the same:
\* two outputs have the same text iff they have the same owner.
PrintedRight ==
    (step = "parsed" /\ OPTS.out) =>
        LET owned == {o \in Outputs : OwnerOf(o) \notin {Nobody, Unspecified}}
            text  == [o \in owned |-> Repr(AddrOf(o))]
        IN  /\ \A o \in owned :
                  /\ Len(text[o]) = Len(AddrOf(o).data)
                  /\ \A i \in DOMAIN text[o] :
                        Reads(text[o][i], Prefix(AddrOf(o)), AddrOf(o).data[i])
            /\ \A o, p \in owned : text[o] = text[p] <=> OwnerOf(o) = OwnerOf(p)
=============================================================================
