------------------------------ MODULE KvStore ------------------------------
(***************************************************************************)
(* The key-value contract of bce2 (include/kv/base.h) as the Tkrzw engines *)
(* implement it (src/kv/tk.cpp): a store maps a key to the uint32 serial   *)
(* number under which the key was first seen.  A store is a total function *)
(* on the keys; an absent key is mapped to NotFound, which is also what    *)
(* get() returns for it.                                                   *)
(***************************************************************************)
EXTENDS Integers, FiniteSets

CONSTANT MaxU32     \* the greatest uint32: 2^32-1 in the code, small in a run

ASSUME MaxU32Assumption == MaxU32 \in Nat \ {0}

U32 == 0 .. MaxU32

\* NOT_FOUND_U32: the absent key, and every failed call of the store.
NotFound == MaxU32

\* uint32 arithmetic: conversion from int64, ++ and --.
ToU32(n) == IF n \in U32 THEN n ELSE n % (MaxU32 + 1)
\* Mutant: the counter is not decremented.
DecForgotten(n) == n

Inc(n)   == IF n = MaxU32 THEN 0 ELSE n + 1
Dec(n)   == IF n = 0 THEN MaxU32 ELSE n - 1

Store(K)      == [K -> U32]
Keys(db)      == {k \in DOMAIN db : db[k] # NotFound}
EmptyStore(K) == [k \in K |-> NotFound]

\* count(): the number of records, an int64 of the engine cut to a uint32.
Count(db) == ToU32(Cardinality(Keys(db)))

\* add(): the value a new record gets; NotFound if the count cannot be used
\* as a value, or if the key is there already (Set does not overwrite).
AddValue(db, k) == IF db[k] = NotFound THEN Count(db) ELSE NotFound

\* Mutant: Set overwrites, so that a known key gets a new number.
GetOrAddOverwrites(db, k) == Count(db)

\* get_or_add(): the value the key has, or gets.  The count is asked for
\* first: a store that is full answers no key, not even one that it holds.
GetOrAddValue(db, k) ==
    IF Count(db) # NotFound /\ db[k] # NotFound THEN db[k] ELSE Count(db)

\* The store after add() or get_or_add() answered v.
Put(db, k, v) == [db EXCEPT ![k] = v]

\* del(): possible only if the key is there.
Deletable(db, k) == db[k] # NotFound
Deleted(db, k)   == [db EXCEPT ![k] = NotFound]

-----------------------------------------------------------------------------
\* What the numbers of a store ought to be: no two the same, and none left out.
Unique(db) == \A k, l \in Keys(db) : db[k] = db[l] => k = l
Dense(db)  == {db[k] : k \in Keys(db)} = 0 .. Cardinality(Keys(db)) - 1
=============================================================================
