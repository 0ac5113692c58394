------------------------------ MODULE MCResolve ------------------------------
(***************************************************************************)
(* Instances of Resolve for TLC.  A height offers several blocks: what a   *)
(* chain holds, and blocks that do not fit it, so that each way to fail is *)
(* met early, late and in the middle of a block.                           *)
(***************************************************************************)
EXTENDS ResolveLedger, ResolveInv, SequencesExt

CONSTANTS ta, tb, tc, td, te,  \* transactions
          A, B, C, D          \* addresses

T(hash, vins, vouts) == [hash |-> hash, vins |-> vins, vouts |-> vouts]

Base == <<T(ta, <<Coinbase>>, <<A>>)>>

\* An address paid twice, a spend within the block, an output without address.
Good == <<T(tb, <<Coinbase>>, <<B, A, B>>), T(tc, <<tb, ta>>, <<NoAddr, C>>)>>

\* The third transaction spends what is unknown; the first two are undone.
BadSpend == <<T(tb, <<Coinbase>>, <<B, A>>), T(tc, <<ta, tb>>, <<C, B>>),
              T(td, <<tb, te>>, <<D>>)>>

\* The third transaction is one that an earlier block holds.
Duplicate == <<T(tb, <<Coinbase>>, <<B>>), T(tc, <<tb>>, <<A, C, B>>),
               T(ta, <<Coinbase>>, <<A>>)>>

\* Fits after Good only.
Late == <<T(td, <<tc, ta>>, <<D, C>>), T(te, <<td>>, <<NoAddr, B, D>>)>>

\* All blocks of at most two small transactions.
Small(hashes, inputs, outputs) ==
    {t \in {T(h, <<i>>, o) : h \in hashes, i \in inputs, o \in SeqOf(outputs, 2)} :
        t \in Tx}
BlocksOf(S) == SeqOf(S, 2)

\* Height 2 is a glitch height: its block would not resolve.
FaultChain ==
    <<{Base},
      {Good, BadSpend, Duplicate} \cup BlocksOf(Small({tb, tc}, {Coinbase}, {A, B, C})),
      {Duplicate},
      {Late}>>
FaultGlitch == {2}

\* All small blocks on stores that are soon full.
Nearly == <<T(ta, <<Coinbase>>, <<A>>), T(tb, <<ta>>, <<B, A>>)>>
LimitChain ==
    <<{Nearly}, BlocksOf(Small({tc, td}, {ta, tc}, {A, C, D})), {Late}>>

Put2(db, pairs) == [k \in DOMAIN db |->
    IF \E p \in pairs : p[1] = k THEN (CHOOSE p \in pairs : p[1] = k)[2] ELSE db[k]]
Start(n, t, a) == [bk |-> n, tx |-> Put2(EmptyStore({ta, tb, tc, td, te}), t),
                   addr |-> Put2(EmptyStore({A, B, C, D}), a)]

\* Nothing is stored yet; or another chain of blocks was resolved before.
FromScratch == {Start(0, {}, {})}
Resumed     == {Start(0, {}, {}), Start(1, {<<ta, 1>>, <<tc, 0>>}, {<<A, 0>>})}

TheTxHash  == {ta, tb, tc, td, te}
TheAddrKey == {A, B, C, D}
=============================================================================
