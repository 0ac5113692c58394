---------------------------- MODULE ResolveLedger ----------------------------
(***************************************************************************)
(* Resolving implements the Ledger: of a block in hand the ledger sees     *)
(* nothing until it is resolved, and after a failure or an abort it sees   *)
(* what is left in the stores.                                             *)
(***************************************************************************)
EXTENDS Resolve

InHand == pc \in Forward \cup Back

Committed == INSTANCE Ledger WITH
    txs    <- IF InHand THEN txdb0 ELSE txdb,
    addrs  <- IF InHand THEN addrdb0 ELSE addrdb,
    height <- COUNT.bk + (IF pc = "resolved" THEN 1 ELSE 0),
    status <- IF pc \notin Ended THEN "running"
              ELSE IF txdb = txdb0 /\ addrdb = addrdb0 THEN "stopped"
              ELSE "torn"

\* Blocks are committed whole and in order, their transactions and addresses
\* numbered as they are first seen; a failure adds nothing, or, when undoing
\* fails or the process aborts, adds records but never loses one.
ImplementsLedger == Committed!Spec
=============================================================================
