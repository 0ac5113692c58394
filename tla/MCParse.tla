------------------------------- MODULE MCParse -------------------------------
(***************************************************************************)
(* Instances of Printing for TLC: blocks are serialized by WireFormat.     *)
(***************************************************************************)
EXTENDS Printing, WireFormat, ScriptForms

\* Hash functions without collisions among what is hashed here.  A key is its
\* first byte and one other byte, many times.
MCHash160(s) == Fill(10 * s[1] + s[2], 20)
MCHash256(s) == <<s>>
MCCrc(s) == <<s[1], s[2], s[Len(s)], 200>>

Out(script, owner) == [satoshi |-> <<5, 4, 3, 2, 1, 0, 0, 9>>, script |-> script,
                       owner |-> owner]
KeyOwner(key)  == <<"key", MCHash160(key)>>
Plain(script)  == Out(script, Nobody)

\* Two owners of each kind.  The key that hashes to 31s and the script and the
\* witness with the same hash are different owners.
Pubkey  == Out(P2PK(Short(1)), KeyOwner(Short(1)))
Script7 == Out(P2SH(Fill(7, 20)), <<"script", Fill(7, 20)>>)
FromZeros == <<0, 0>> \o Fill(31, 17) \o <<1>>
Owners ==
    {Pubkey, Out(P2PKH(FromZeros), <<"key", FromZeros>>),
      Out(P2PK(Long(2)), KeyOwner(Long(2))), Out(P2PK(Hybrid(2)), KeyOwner(Hybrid(2))),
      Out(P2PKH(MCHash160(Short(1))), KeyOwner(Short(1))),
      Out(P2PKH(MCHash160(Long(2))), KeyOwner(Long(2))),
      Out(P2MS(1, <<Short(1)>>), KeyOwner(Short(1))),
      Out(P2SH(Fill(31, 20)), <<"script", Fill(31, 20)>>),
      Out(P2SH(Fill(42, 20)), <<"script", Fill(42, 20)>>),
      Out(P2W(Fill(31, 20)), <<"wkey", Fill(31, 20)>>),
      Out(P2W(Fill(42, 20)), <<"wkey", Fill(42, 20)>>),
      Out(P2W(Fill(31, 32)), <<"wscript", Fill(31, 32)>>),
      Out(P2W(Fill(42, 32)), <<"wscript", Fill(42, 32)>>)}
Shared ==
    LET Keys(m, keys) ==
            Out(P2MS(m, keys), <<"keys", [i \in DOMAIN keys |-> MCHash160(keys[i])]>>)
    IN  {Keys(1, <<Short(1), Long(2)>>), Keys(2, <<Short(1), Long(2)>>),
          Keys(2, <<Long(2), Short(1)>>), Keys(3, <<Long(2), Short(1), Hybrid(2)>>)}

\* Scripts of nobody: too short, without a form, or with one byte wrong.
Unowned ==
    {Plain(<<>>), Plain(<<106>>), Plain(<<106>> \o Push(Fill(3, 40))),
      Plain(Fill(118, 21)), Plain(Fill(97, 30)),
      Plain(P2PK(<<5>> \o Fill(1, 64))), Plain(P2PK(Short(1)) \o <<97>>),
      Plain(Push(Short(1)) \o <<135>>), Plain(P2PKH(Fill(31, 20)) \o <<97>>),
      Plain(P2SH(Fill(31, 21))), Plain(P2W(Fill(31, 21))),
      Plain(P2MS(2, <<Short(1), <<5>> \o Fill(1, 64)>>)),
      Plain(P2MS(3, <<Short(1), Long(2)>>))}
Cut == Out(<<0, 32>> \o Fill(31, 20), Unspecified)

In(n, len) == [tx_hash |-> Fill(n, 32), vout |-> <<0, 0, 0, n>>,
               script |-> Fill(9, len)]
Tx(vins, vouts, wits) ==
    [segwit |-> wits # <<>>, vins |-> vins, vouts |-> vouts, wits |-> wits]
MCBlock(height, txlist, count) ==
    [height |-> height, bytes |-> BlockBytes(txlist, count), good |-> TRUE,
     txs |-> [i \in DOMAIN txlist |-> txlist[i] @@ [stripped |-> Stripped(txlist[i])]]]

\* Every two owners, and an owner beside nobody.
PairBlock(pair) == MCBlock(1, <<Tx(<<In(1, 2)>>, pair, <<>>)>>, <<1>>)
AddrPairs == ((Owners \cup Shared) \X (Owners \cup Shared))
             \cup ({Pubkey} \X (Unowned \cup {Cut}))

\* Lengths around those where a number gets wider, in every place of a block of
\* two transactions, one of them segwit with an empty witness.
Lengths == {0, 252, 253, 300}
WireTxs(a, b) ==
    <<Tx(<<In(1, a)>>, <<Plain(Fill(97, b))>>, <<>>),
      Tx(<<In(2, b), In(3, 0)>>, <<Plain(Fill(97, a)), Script7>>,
         <<<<>>, <<Fill(1, a), <<>>, Fill(2, b)>>>>)>>
WireBlock(pair) == MCBlock(2, WireTxs(pair[1], pair[2]), <<2>>)

\* Numbers wider than they need be, at an ordinary height and at a glitch.
WideBlock(pair) == MCBlock(pair[1], WireTxs(1, 30), pair[2])
WidePairs == {2, 9} \X {Wide16(2), Wide32(2)}

\* Three transactions to hash beside their outputs.
Three == LET t == Tx(<<In(1, 1)>>, <<Plain(<<106>>), Plain(<<>>)>>, <<<<>>>>)
         IN  MCBlock(3, <<t, t, t>>, <<3>>)

\* Blocks that throw: a number of the widest form in each place where a number
\* may be, and no inputs.
OneTx == MCBlock(4, <<Tx(<<In(1, 1)>>, <<Plain(<<>>)>>, <<<<<<1>>>>>>)>>, <<1>>)
BadBlock(pair) == [OneTx EXCEPT !.bytes[pair[1]] = pair[2], !.good = FALSE]
BadPairs == ({81, 88, 125, 131, 140, 141, 142} \X {255}) \cup {<<88, 0>>}

MCBlocks == {PairBlock(p) : p \in AddrPairs} \cup {WireBlock(p) : p \in Lengths \X Lengths}
            \cup {WideBlock(p) : p \in WidePairs} \cup {BadBlock(p) : p \in BadPairs}
            \cup {Three}
\* Every block has a layout: the places, from the one where its first transaction
\* begins.  Behind a number of another width than Number gives it all is later.
Places(from, parts, bytes(_)) ==
    [i \in 1 .. Len(parts) + 1 |-> from + Len(Each(SubSeq(parts, 1, i - 1), bytes))]
PartsOf(p, r) ==
    LET After0(at, s) == at + Len(Number(Len(s)))
        vins  == Places(After0(BodyOf(p, r), r.vins), r.vins, VinBytes)
        vouts == Places(After0(vins[Len(vins)], r.vouts), r.vouts, VoutBytes)
        wits  == Places(vouts[Len(vouts)], r.wits, WitBytes)
    IN  [vins |-> vins, vouts |-> vouts, wits |-> wits,
         items |-> [w \in DOMAIN r.wits |->
                      Places(After0(wits[w], r.wits[w]), r.wits[w], Counted)]]
LayoutFrom(first, b) ==
    LET places == Places(first, b.txs, TxBytes)
    IN  [txs |-> places, parts |-> [i \in DOMAIN b.txs |-> PartsOf(places[i], b.txs[i])]]
ASSUME MCLaid == \A b \in MCBlocks : \E n \in {1, 3, 5} : Laid(b, LayoutFrom(80 + n, b))

\* Every output has the owner that its script names.
KeyLists == {<<>>, <<Short(1)>>, <<Short(1), Long(2)>>, <<Long(2), Short(1)>>,
             <<Long(2), Short(1), Hybrid(2)>>}
ASSUME MCOwned ==
    \A b \in MCBlocks : \A i \in DOMAIN b.txs : \A j \in DOMAIN b.txs[i].vouts :
        \E keys \in KeyLists : Owned(b.txs[i].vouts[j], Places(1, keys, Push))

MCOptions == [out : BOOLEAN, mt : BOOLEAN, kv : BOOLEAN]
=============================================================================
