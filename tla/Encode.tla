------------------------------- MODULE Encode -------------------------------
(***************************************************************************)
(* How an address is written: EncodeBase58() with the checksum of          *)
(* ripe2addr(), and Bech32Encode() of wpkh2addr() and wsh2addr().  A text  *)
(* is the sequence of the places of its symbols in the alphabet.           *)
(***************************************************************************)
EXTENDS Integers, Sequences, FiniteSets
Ext == INSTANCE SequencesExt

CONSTANT Crc(_)   \* the first 4 bytes of SHA256 of SHA256

Zeros(n) == [i \in 1 .. n |-> 0]

\* n >> k, n << k, and a bit of n.
Shr(n, k)   == n \div 2^k
Shl(n, k)   == n * 2^k
BitAt(n, k) == Shr(n, k) % 2

-----------------------------------------------------------------------------
\* EncodeBase58().  b58 is here the other way round: the lowest digit first.

\* b58 = b58 * 256 + byte, digit after digit.
TakeDigit58(prev, digit) ==
    LET n == prev.carry + 256 * digit
    IN  [b58 |-> Append(prev.b58, n % 58), carry |-> n \div 58]
TakeByte58(b58, byte) ==
    LET step[i \in 0 .. Len(b58)] ==
            IF i = 0 THEN [b58 |-> <<>>, carry |-> byte]
            ELSE TakeDigit58(step[i - 1], b58[i])
    IN  step[Len(b58)]

Size58(n) == (n * 138) \div 100 + 1

\* Zero bytes in front, and digits that are zero behind the highest one.
Zeroes(data) ==
    CHOOSE n \in 0 .. Len(data) :
        /\ \A i \in 1 .. n : data[i] = 0
        /\ n < Len(data) => data[n + 1] # 0

\* The digits of the bytes behind them, the highest first.
Digits58(data) ==
    LET zeroes == Zeroes(data)
        length == Len(data) - zeroes
        b58[i \in 0 .. length] ==
            IF i = 0 THEN Zeros(Size58(length))
            ELSE TakeByte58(b58[i - 1], data[zeroes + i]).b58
        high == Ext!Reverse(b58[length])
    IN  SubSeq(high, Zeroes(high) + 1, Len(high))

\* Mutant: the zero bytes in front are skipped and not counted.
EncodeBase58Short(data) == Digits58(data)

EncodeBase58(data) == Zeros(Zeroes(data)) \o Digits58(data)

ripe2addr(src, pfx) == EncodeBase58(<<pfx>> \o src \o Crc(<<pfx>> \o src))

-----------------------------------------------------------------------------
\* __ConvertBits<8, 5, true>(): groups of 5 bits, the last one filled up.
ConvertByte(prev, byte) ==
    LET acc  == (256 * prev.acc + byte) % 4096
        bits == prev.bits + 8
    IN  [acc |-> acc, bits |-> bits % 5,
         out |-> prev.out \o [k \in 1 .. bits \div 5 |-> Shr(acc, bits - 5 * k) % 32]]
ConvertBits(src) ==
    LET step[i \in 0 .. Len(src)] ==
            IF i = 0 THEN [acc |-> 0, bits |-> 0, out |-> <<>>]
            ELSE ConvertByte(step[i - 1], src[i])
        last == step[Len(src)]
    IN  IF last.bits = 0 THEN last.out
        ELSE Append(last.out, Shl(last.acc, 5 - last.bits) % 32)

\* A number as the set of its bits: exclusive or leaves what is in an odd
\* number of them.
BitsOf(n) == {k \in 0 .. 29 : BitAt(n, k) = 1}
Odd(S)    == Cardinality(S) % 2 = 1

Generator == <<BitsOf(\h3b6a57b2), BitsOf(\h26508e6d), BitsOf(\h1ea119fa),
               BitsOf(\h3d4233dd), BitsOf(\h2a1462b3)>>

PolyStep(c, v) ==
    LET c0      == {k \in 1 .. 5 : 24 + k \in c}
        shifted == {b + 5 : b \in {x \in c : x < 25}} \cup BitsOf(v)
    IN  {b \in 0 .. 29 :
            Odd({k \in c0 : b \in Generator[k]}) # (b \in shifted)}

PolyMod(v) ==
    LET c[i \in 0 .. Len(v)] == IF i = 0 THEN {0} ELSE PolyStep(c[i - 1], v[i])
    IN  c[Len(v)]

\* ExpandHRP() of "bc".
ExpandHRP == <<3, 3, 0, 2, 3>>

\* CreateChecksum(): six groups that make the sum 1.
CreateChecksum(values) ==
    LET sum == PolyMod(ExpandHRP \o values \o Zeros(6))
        mod == (sum \ {0}) \cup ({0} \ sum)
        Bit(b) == IF b \in mod THEN 1 ELSE 0
    IN  [i \in 1 .. 6 |->
            LET at == 5 * (6 - i)
            IN  Bit(at) + 2 * Bit(at + 1) + 4 * Bit(at + 2) + 8 * Bit(at + 3)
                + 16 * Bit(at + 4)]

\* Behind "bc1".
Bech32Encode(values) == values \o CreateChecksum(values)

\* wpkh2addr(), and wsh2addr() for a hash of 32 bytes: the version is 0.
wpkh2addr(src) == Bech32Encode(<<0>> \o ConvertBits(src))
=============================================================================
