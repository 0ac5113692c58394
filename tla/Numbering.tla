------------------------------ MODULE Numbering ------------------------------
(***************************************************************************)
(* The numbers that transactions and addresses are meant to get: each the  *)
(* next one, in the order in which they are first seen.  This is the       *)
(* reference that the resolving and the sessions are compared with.        *)
(***************************************************************************)
EXTENDS KvStore, Sequences

\* Keys are seen at places of a block: pairs that are gone through in order.
Earlier(p, q) == p[1] < q[1] \/ (p[1] = q[1] /\ p[2] < q[2])

\* The keys seen before a place, and the place where a key is first seen.
Seen(key, p)  == {key[q] : q \in {r \in DOMAIN key : Earlier(r, p)}}
First(key, k) == CHOOSE p \in DOMAIN key : key[p] = k /\ k \notin Seen(key, p)

\* db with the keys it has not yet: the number of each is how many keys were
\* there before it.
Numbered(db, key) ==
    [k \in DOMAIN db |->
       IF db[k] = NotFound /\ \E p \in DOMAIN key : key[p] = k
         THEN Cardinality(Keys(db) \cup Seen(key, First(key, k)))
         ELSE db[k]]

\* A hash is seen before the outputs of its transaction, which count from 1.
HashPlaces(b) == [p \in (DOMAIN b) \X {0} |-> b[p[1]].hash]
OutPlaces(b)  == UNION {{i} \X DOMAIN b[i].vouts : i \in DOMAIN b}
AddrPlaces(b, none) ==
    [p \in {q \in OutPlaces(b) : b[q[1]].vouts[q[2]] # none} |->
       b[p[1]].vouts[p[2]]]

Hashes(b) == [i \in DOMAIN b |-> b[i].hash]
=============================================================================
