------------------------------- MODULE Ledger -------------------------------
(***************************************************************************)
(* What resolving promises (doc/Output.md: a transaction or an address is  *)
(* known by its serial number): blocks are committed whole, in the order   *)
(* of the chain, and a key gets the next number when it is first seen.     *)
(* A block that cannot be committed stops the program, with the ledger as  *)
(* it was, or, if undoing fails too, with records that nobody committed    *)
(* but never without one that was.                                         *)
(***************************************************************************)
EXTENDS Numbering, SequencesExt

CONSTANTS TxHash, AddrKey, Coinbase, NoAddr, Chain, Glitch, Starts

VARIABLES
    txs, addrs,   \* the numbers of the transactions and of the addresses
    height,       \* how many blocks are committed
    status        \* "running", "stopped" or "torn"

vars == <<txs, addrs, height, status>>

\* What the loader may deliver at a height, without what is skipped there.
BlocksAt(n) == IF n \in Glitch THEN {<<>>} ELSE Chain[n + 1]

\* Every transaction is new, and spends only what is in the ledger or was
\* before it in the block.
Valid(b) ==
    /\ \A i \in DOMAIN b : Hashes(b)[i] \notin Keys(txs)
    /\ IsInjective(Hashes(b))
    /\ \A i \in DOMAIN b : \A h \in ToSet(b[i].vins) \ {Coinbase} :
          h \in Keys(txs) \cup {Hashes(b)[j] : j \in 1 .. i - 1}

Init ==
    /\ \E s \in Starts : txs = s.tx /\ addrs = s.addr /\ height = s.bk
    /\ status = "running"

\* A whole block, if there are numbers left for what it brings.
Commit ==
    /\ status = "running" /\ height < Len(Chain)
    /\ \E b \in BlocksAt(height) :
          /\ Valid(b)
          /\ txs' = Numbered(txs, HashPlaces(b))
          /\ addrs' = Numbered(addrs, AddrPlaces(b, NoAddr))
    /\ height' = height + 1
    /\ UNCHANGED status

\* A block that brings nothing cannot fail.
Fallible == \E b \in BlocksAt(height) : b # <<>>

Stop ==
    /\ status = "running" /\ height < Len(Chain) /\ Fallible
    /\ status' = "stopped"
    /\ UNCHANGED <<txs, addrs, height>>

Extends(big, small) == \A k \in Keys(small) : big[k] = small[k]

Tear ==
    /\ status = "running" /\ height < Len(Chain) /\ Fallible
    /\ status' = "torn"
    /\ txs' \in Store(TxHash) /\ addrs' \in Store(AddrKey)
    /\ Extends(txs', txs) /\ Extends(addrs', addrs)
    /\ txs' # txs \/ addrs' # addrs
    /\ UNCHANGED height

Next == Commit \/ Stop \/ Tear

Spec == Init /\ [][Next]_vars
=============================================================================
