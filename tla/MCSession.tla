------------------------------ MODULE MCSession ------------------------------
(***************************************************************************)
(* Instances of Session for TLC.                                           *)
(***************************************************************************)
EXTENDS SessionInv

CONSTANTS ta, tb, tc, td,  \* transactions
          A, B, C          \* addresses

T(hash, vins, vouts) == [hash |-> hash, vins |-> vins, vouts |-> vouts]

\* Block 1 is skipped, block 3 does not resolve.
MCChain ==
    <<{<<T(ta, <<Coinbase>>, <<A, B>>)>>},
      {<<T(ta, <<Coinbase>>, <<A>>)>>},
      {<<T(tb, <<ta>>, <<NoAddr, B, C>>)>>},
      {<<T(tc, <<tb>>, <<A>>), T(td, <<tb, Coinbase>>, <<C>>), T(ta, <<tb>>, <<B>>)>>}>>
MCGlitch == {1}

\* The first block can fail after it has added three addresses, one of which
\* is all that the next block with transactions pays to.
TornChain ==
    <<{<<T(ta, <<Coinbase>>, <<A, B, C>>), T(tb, <<ta>>, <<A>>)>>},
      {<<>>},
      {<<T(tc, <<Coinbase>>, <<C>>)>>}>>
TornGlitch == {1}

Opt(from, num, info, infile) ==
    [from |-> from, num |-> num, info |-> info, out |-> FALSE, kv |-> TRUE,
     infile |-> infile]
Printing(opts) == {[o EXCEPT !.out = TRUE] : o \in opts}

All == Len(Chain) + 1

\* Any start, one block or all of them, on file.
FileOptions == {Opt(f, n, FALSE, TRUE) : f \in {Omitted} \cup 0 .. Len(Chain),
                                         n \in {1, All}}
\* As well in memory, and -i; with -o, and some without; without an engine.
AllOptions ==
    Printing(FileOptions \cup {Opt(Omitted, All, FALSE, FALSE), Opt(1, 1, FALSE, FALSE)})
    \cup {Opt(f, 1, FALSE, TRUE) : f \in 0 .. 1}
    \cup {Opt(f, 1, TRUE, TRUE) : f \in {Omitted, 0, 1}}
    \cup {[Opt(f, 2, i, FALSE) EXCEPT !.kv = FALSE] : f \in {Omitted, 3}, i \in BOOLEAN}
InfoOptions == {Opt(Omitted, 1, FALSE, TRUE), Opt(0, 1, TRUE, TRUE)}

TheTxHash  == {ta, tb, tc, td}
TheAddrKey == {A, B, C}
=============================================================================
