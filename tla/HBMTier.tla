-------------------------------- MODULE HBMTier --------------------------------
(***************************************************************************)
(* The engine-owned HBM pool of src/src/acr/replay.py (HBMTier): a byte-   *)
(* capped LRU list that the simulator can fill but not order.  The list is *)
(* oldest first, and used is kept beside it, never recomputed from it.     *)
(***************************************************************************)
EXTENDS ItemLists, FiniteSetsExt

CONSTANT HbmCapacity    \* capacity_bytes

VARIABLES
    pool,   \* sequence of [key, nbytes], oldest first
    used    \* bytes accounted for

contains(key) == key \in Keys(pool)

\* The record an item has after a fill: a block already held keeps the size it
\* was first stored with, whatever size it is offered with now.
\* Mutant: a block already held takes the size it is offered with.
Held_NewSize(item) == item
Held(item) ==
    IF contains(item.key)
    THEN pool[CHOOSE i \in DOMAIN pool : pool[i].key = item.key]
    ELSE item

\* Mutant: a block already held keeps its place.
Filled_HitsStay(items) ==
    pool \o Off(items, Keys(pool))

\* The pool after a fill: the items of the request, in order, are the newest.
Filled(items) ==
    Off(pool, Keys(items)) \o [i \in DOMAIN items |-> Held(items[i])]

NewItems(items) == Off(items, Keys(pool))

\* Mutants: one victim is taken to be enough; a full pool is taken for one over
\* its capacity.
Surplus_One(filled, total, protected) ==
    LET free == Off(filled, protected)
    IN  SubSeq(free, 1, IF total <= HbmCapacity \/ free = <<>> THEN 0 ELSE 1)
Surplus_Strict(filled, total, protected) ==
    LET free == Off(filled, protected)
        enough == {n \in 0..Len(free) :
                      total - Bytes(SubSeq(free, 1, n)) < HbmCapacity}
    IN  SubSeq(free, 1, IF enough = {} THEN Len(free) ELSE Min(enough))

\* The victims of one forward pass over the unprotected blocks, oldest first:
\* as few as bring the pool under its capacity, or all of them.
Surplus(filled, total, protected) ==
    LET free == Off(filled, protected)
        enough == {n \in 0..Len(free) :
                      total - Bytes(SubSeq(free, 1, n)) <= HbmCapacity}
    IN  SubSeq(free, 1, IF enough = {} THEN Len(free) ELSE Min(enough))

\* What store(items, protected) drops.
Dropped(items, protected) ==
    Surplus(Filled(items), used + Bytes(NewItems(items)), protected)

EmptyPool == pool = <<>> /\ used = 0

store(items, protected) ==
    LET dropped == Dropped(items, protected)
    IN  /\ pool' = Off(Filled(items), Keys(dropped))
        /\ used' = (used + Bytes(NewItems(items))) - Bytes(dropped)

(***************************************************************************)
(* Properties                                                              *)
(***************************************************************************)
\* The running total is the sum over the blocks held, whatever fills, growths
\* and forward passes made it; no block is held twice.
Accounted ==
    /\ used = Bytes(pool)
    /\ Cardinality(Keys(pool)) = Len(pool)
================================================================================
