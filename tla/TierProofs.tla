-------------------------------- MODULE TierProofs --------------------------------
(***************************************************************************)
(* What the two tiers promise their callers.  HBMTier.store, for any       *)
(* capacity, any pool without duplicates and any request: the running      *)
(* total stays the sum over the blocks held, nothing protected is dropped, *)
(* and the pool ends within its cap unless only protected blocks are left. *)
(* evict of each host policy, for any entries and any view of the index:   *)
(* each eviction order is a total order of the candidates, victims are the *)
(* beginning of it that frees enough, and what that makes of the chains of *)
(* adaptive_value.                                                         *)
(***************************************************************************)
EXTENDS HBMTier, TierPolicy, ItemListsProofs

(***************************************************************************)
(* The pool                                                                *)
(***************************************************************************)
\* The records of the request: a block it has in common with the pool keeps the
\* pool's record.
LEMMA HeldFacts ==
    ASSUME NEW S, pool \in Seq(S), NEW items \in Seq(S)
    PROVE  LET new == [i \in DOMAIN items |-> Held(items[i])]
           IN  /\ new \in Seq(S) /\ Keys(new) = Keys(items)
               /\ Range(new) = {Held(items[i]) : i \in DOMAIN items}
               /\ Distinct(items) => Distinct(new)
               /\ \A i \in DOMAIN items :
                     /\ Held(items[i]).key = items[i].key
                     /\ contains(items[i].key) => Held(items[i]) \in Range(pool)
                     /\ ~contains(items[i].key) => Held(items[i]) = items[i]
<1> DEFINE new == [i \in DOMAIN items |-> Held(items[i])]
<1>1. ASSUME NEW i \in DOMAIN items
      PROVE  /\ Held(items[i]) \in S /\ Held(items[i]).key = items[i].key
             /\ contains(items[i].key) => Held(items[i]) \in Range(pool)
             /\ ~contains(items[i].key) => Held(items[i]) = items[i]
  <2>1. CASE contains(items[i].key)
    <3>1. \E j \in DOMAIN pool : pool[j].key = items[i].key
      BY <2>1 DEF contains, Keys
    <3> DEFINE j == CHOOSE j \in DOMAIN pool : pool[j].key = items[i].key
    <3>2. j \in DOMAIN pool /\ pool[j].key = items[i].key
      BY <3>1
    <3>3. Held(items[i]) = pool[j]
      BY <2>1 DEF Held
    <3> HIDE DEF j
    <3> QED
      BY <2>1, <3>2, <3>3 DEF Range
  <2>2. CASE ~contains(items[i].key)
    BY <2>2 DEF Held
  <2> QED
    BY <2>1, <2>2
<1>2. new \in Seq(S) /\ DOMAIN new = DOMAIN items
  BY <1>1
<1>3. Keys(new) = Keys(items) /\ (Distinct(items) => Distinct(new))
  BY <1>1, <1>2 DEF Keys, Distinct
<1>4. Range(new) = {Held(items[i]) : i \in DOMAIN items}
  BY DEF Range
<1> HIDE DEF new
<1> QED
  BY <1>1, <1>2, <1>3, <1>4 DEF new

\* The pool with the request as its newest part.
LEMMA FilledFacts ==
    ASSUME NEW S, pool \in Seq(S), Distinct(pool), NEW items \in Seq(S), Distinct(items)
    PROVE  /\ Filled(items) \in Seq(S) /\ Distinct(Filled(items))
           /\ Keys(Filled(items)) = Keys(pool) \cup Keys(items)
           /\ Range(Filled(items)) = Range(pool) \cup Range(NewItems(items))
<1> DEFINE old == Off(pool, Keys(items))
           new == [i \in DOMAIN items |-> Held(items[i])]
<1>1. /\ old \in Seq(S) /\ Distinct(old) /\ Keys(old) = Keys(pool) \ Keys(items)
      /\ Range(old) = {b \in Range(pool) : b.key \notin Keys(items)}
  BY OffFacts
<1>2. /\ new \in Seq(S) /\ Keys(new) = Keys(items) /\ Distinct(new)
      /\ Range(new) = {Held(items[i]) : i \in DOMAIN items}
      /\ \A i \in DOMAIN items :
            /\ Held(items[i]).key = items[i].key
            /\ contains(items[i].key) => Held(items[i]) \in Range(pool)
            /\ ~contains(items[i].key) => Held(items[i]) = items[i]
  BY HeldFacts
<1> HIDE DEF new, old
<1>6. /\ old \o new \in Seq(S) /\ Distinct(old \o new)
      /\ Keys(old \o new) = Keys(old) \cup Keys(new)
      /\ Range(old \o new) = Range(old) \cup Range(new)
  BY <1>1, <1>2, JoinFacts
<1>7. Filled(items) = old \o new
  BY DEF Filled, old, new
<1>8. Range(NewItems(items)) = {b \in Range(items) : b.key \notin Keys(pool)}
  BY OffFacts DEF NewItems
<1>9. ASSUME NEW b \in Range(new) PROVE b \in Range(pool) \cup Range(NewItems(items))
  <2>1. PICK i \in DOMAIN items : b = Held(items[i])
    BY <1>2
  <2>2. items[i] \in Range(items)
    BY DEF Range
  <2>3. ~contains(items[i].key) => items[i] \in Range(NewItems(items))
    BY <1>8, <2>2 DEF contains
  <2> QED
    BY <1>2, <2>1, <2>3
<1>10. ASSUME NEW b \in Range(pool) PROVE b \in Range(old) \cup Range(new)
  <2>1. CASE b.key \notin Keys(items)
    BY <1>1, <2>1
  <2>2. CASE b.key \in Keys(items)
    <3>1. PICK i \in DOMAIN items : items[i].key = b.key
      BY <2>2 DEF Keys
    <3>2. contains(items[i].key)
      BY <3>1 DEF contains, Keys, Range
    <3>3. Held(items[i]) \in Range(pool) /\ Held(items[i]).key = b.key
      BY <1>2, <3>1, <3>2
    <3>4. Held(items[i]) = b
      BY <3>3 DEF Distinct, Range
    <3> QED
      BY <1>2, <3>4
  <2> QED
    BY <2>1, <2>2
<1>11. ASSUME NEW b \in Range(NewItems(items)) PROVE b \in Range(new)
  <2>1. PICK i \in DOMAIN items : b = items[i]
    BY <1>8 DEF Range
  <2>2. Held(items[i]) = items[i]
    BY <1>2, <1>8, <2>1 DEF contains
  <2> QED
    BY <1>2, <2>1, <2>2
<1>12. Range(Filled(items)) = Range(pool) \cup Range(NewItems(items))
  BY <1>1, <1>6, <1>7, <1>9, <1>10, <1>11
<1> QED
  BY <1>1, <1>2, <1>6, <1>7, <1>12

\* The victims are the first of the unprotected blocks.
LEMMA SurplusPrefix ==
    ASSUME NEW S, NEW filled \in Seq(S), NEW total, NEW protected
    PROVE  \E n \in 0..Len(Off(filled, protected)) :
               Surplus(filled, total, protected) = SubSeq(Off(filled, protected), 1, n)
<1> DEFINE free == Off(filled, protected)
           enough == {n \in 0..Len(free) :
                         total - Bytes(SubSeq(free, 1, n)) <= HbmCapacity}
           n == IF enough = {} THEN Len(free) ELSE Min(enough)
<1>1. free \in Seq(S)
  BY OffFacts
<1>2. Surplus(filled, total, protected) = SubSeq(free, 1, n)
  BY DEF Surplus
<1> HIDE DEF free
<1>3. Len(free) \in Nat
  BY <1>1
<1>4. n \in 0..Len(free)
  <2>1. enough \subseteq Nat
    BY <1>3
  <2>2. enough # {} => \E m \in enough : \A k \in enough : m <= k
    <3> HIDE DEF enough
    <3> QED
      BY <2>1, NatMin
  <2>3. enough # {} => Min(enough) \in enough
    <3> HIDE DEF enough
    <3> QED
      BY <2>2 DEF Min
  <2> QED
    BY <1>3, <2>3
<1> HIDE DEF n
<1> QED
  BY <1>2, <1>4 DEF free

\* Some unprotected blocks, enough of them or all.
LEMMA SurplusFacts ==
    ASSUME NEW S, NEW filled \in Seq(S), NEW total, NEW protected
    PROVE  LET dropped == Surplus(filled, total, protected)
           IN  /\ dropped \in Seq(S) /\ Range(dropped) \subseteq Range(filled)
               /\ Keys(dropped) \subseteq Keys(filled) \ protected
               /\ Distinct(filled) => Distinct(dropped)
               /\ \/ total - Bytes(dropped) <= HbmCapacity
                  \/ Keys(filled) \ Keys(dropped) \subseteq protected
<1> DEFINE free == Off(filled, protected)
           enough == {n \in 0..Len(free) :
                         total - Bytes(SubSeq(free, 1, n)) <= HbmCapacity}
           n == IF enough = {} THEN Len(free) ELSE Min(enough)
           dropped == SubSeq(free, 1, n)
<1>1. /\ free \in Seq(S) /\ Range(free) \subseteq Range(filled)
      /\ Keys(free) = Keys(filled) \ protected
      /\ Distinct(filled) => Distinct(free)
  BY OffFacts
<1>2. Surplus(filled, total, protected) = dropped
  BY DEF Surplus
<1> HIDE DEF free
<1>3. Len(free) \in Nat
  BY <1>1
<1>4. enough # {} => n \in enough
  <2>1. enough \subseteq Nat
    BY <1>3
  <2>2. enough # {} => \E m \in enough : \A k \in enough : m <= k
    <3> HIDE DEF enough
    <3> QED
      BY <2>1, NatMin
  <2> HIDE DEF enough
  <2> QED
    BY <2>2 DEF Min
<1>5. n \in 0..Len(free)
  BY <1>3, <1>4
<1>6. /\ dropped \in Seq(S) /\ Range(dropped) \subseteq Range(free)
      /\ Keys(dropped) \subseteq Keys(free)
      /\ Distinct(free) => Distinct(dropped)
      /\ n = Len(free) => dropped = free
  <2> HIDE DEF n
  <2> QED
    BY <1>1, <1>5, PrefixFacts
<1>7. enough # {} => total - Bytes(dropped) <= HbmCapacity
  BY <1>4
<1>8. enough = {} => dropped = free
  BY <1>6
<1> HIDE DEF dropped, n, enough
<1> QED
  BY <1>1, <1>2, <1>6, <1>7, <1>8

LEMMA StoreFacts ==
    ASSUME NEW S, \A b \in S : b.nbytes \in Nat,
           pool \in Seq(S), Distinct(pool), used = Bytes(pool),
           NEW items \in Seq(S), Distinct(items), NEW protected,
           store(items, protected)
    PROVE  /\ pool' \in Seq(S) /\ Distinct(pool') /\ used' = Bytes(pool')
           /\ Range(pool') \subseteq Range(pool) \cup Range(items)
           /\ Keys(pool') = (Keys(pool) \cup Keys(items)) \ Keys(Dropped(items, protected))
           /\ Keys(Dropped(items, protected))
                 \subseteq (Keys(pool) \cup Keys(items)) \ protected
           /\ used' <= HbmCapacity \/ Keys(pool') \subseteq protected
<1> DEFINE filled == Filled(items)
           fresh == NewItems(items)
           dropped == Dropped(items, protected)
           g == SizeOf(filled)
<1>1. /\ filled \in Seq(S) /\ Distinct(filled)
      /\ Keys(filled) = Keys(pool) \cup Keys(items)
      /\ Range(filled) = Range(pool) \cup Range(fresh)
  BY FilledFacts
<1>2. /\ fresh \in Seq(S) /\ Distinct(fresh)
      /\ Keys(fresh) = Keys(items) \ Keys(pool) /\ Range(fresh) \subseteq Range(items)
  BY OffFacts DEF NewItems
<1>3. /\ dropped \in Seq(S) /\ Range(dropped) \subseteq Range(filled)
      /\ Keys(dropped) \subseteq Keys(filled) \ protected
      /\ Distinct(dropped)
      /\ \/ (used + Bytes(fresh)) - Bytes(dropped) <= HbmCapacity
         \/ Keys(filled) \ Keys(dropped) \subseteq protected
  BY <1>1, SurplusFacts DEF Dropped
<1>4. pool' = Off(filled, Keys(dropped)) /\ used' = (used + Bytes(fresh)) - Bytes(dropped)
  BY DEF store
<1> HIDE DEF filled, fresh, dropped
<1>5. /\ pool' \in Seq(S) /\ Distinct(pool')
      /\ Keys(pool') = Keys(filled) \ Keys(dropped)
      /\ Range(pool') \subseteq Range(filled)
  BY <1>1, <1>4, OffFacts
<1>6. Sized(filled)
  BY <1>1 DEF Sized
<1>7. /\ Bytes(pool) = SumFunctionOnSet(g, Keys(pool)) /\ IsFiniteSet(Keys(pool))
      /\ \A k \in Keys(pool) : g[k] \in Nat
  BY <1>1, <1>6, BytesOfPart
<1>8. /\ Bytes(fresh) = SumFunctionOnSet(g, Keys(fresh)) /\ IsFiniteSet(Keys(fresh))
      /\ \A k \in Keys(fresh) : g[k] \in Nat
  BY <1>1, <1>2, <1>6, BytesOfPart
<1>9. /\ Bytes(dropped) = SumFunctionOnSet(g, Keys(dropped)) /\ IsFiniteSet(Keys(dropped))
      /\ \A k \in Keys(dropped) : g[k] \in Nat
  BY <1>1, <1>3, <1>6, BytesOfPart
<1>10. /\ Bytes(pool') = SumFunctionOnSet(g, Keys(pool')) /\ IsFiniteSet(Keys(pool'))
       /\ \A k \in Keys(pool') : g[k] \in Nat
  BY <1>1, <1>5, <1>6, BytesOfPart
<1> HIDE DEF g
<1>11. SumFunctionOnSet(g, Keys(pool) \cup Keys(fresh))
          = SumFunctionOnSet(g, Keys(pool)) + SumFunctionOnSet(g, Keys(fresh))
  <2>1. Keys(pool) \cap Keys(fresh) = {}
    BY <1>2
  <2> QED
    BY <1>7, <1>8, <2>1, SumUnion
<1>12. SumFunctionOnSet(g, Keys(pool') \cup Keys(dropped))
          = SumFunctionOnSet(g, Keys(pool')) + SumFunctionOnSet(g, Keys(dropped))
  <2>1. Keys(pool') \cap Keys(dropped) = {}
    BY <1>5
  <2> QED
    BY <1>9, <1>10, <2>1, SumUnion
<1>13. Keys(pool) \cup Keys(fresh) = Keys(pool') \cup Keys(dropped)
  BY <1>1, <1>2, <1>3, <1>5
<1>14. Bytes(pool) + Bytes(fresh) = Bytes(pool') + Bytes(dropped)
  BY <1>7, <1>8, <1>9, <1>10, <1>11, <1>12, <1>13, Zenon
<1>15. /\ Bytes(pool) \in Nat /\ Bytes(fresh) \in Nat
       /\ Bytes(dropped) \in Nat /\ Bytes(pool') \in Nat
  BY <1>7, <1>8, <1>9, <1>10, SumNat
<1>16. used' = Bytes(pool')
  BY <1>4, <1>14, <1>15
<1>17. used' <= HbmCapacity \/ Keys(pool') \subseteq protected
  BY <1>3, <1>4, <1>5
<1> QED
  BY <1>1, <1>2, <1>3, <1>5, <1>16, <1>17 DEF dropped

\* With the last victim kept the total would be over the cap.
LEMMA SurplusNeeded ==
    ASSUME NEW S, \A b \in S : b.nbytes \in Nat, NEW filled \in Seq(S),
           NEW total \in Int, NEW protected, HbmCapacity \in Nat,
           Surplus(filled, total, protected) # <<>>
    PROVE  LET dropped == Surplus(filled, total, protected)
           IN  \E m \in DOMAIN dropped :
                   /\ \A j \in DOMAIN dropped : j <= m
                   /\ (total - Bytes(dropped)) + dropped[m].nbytes > HbmCapacity
<1> DEFINE free == Off(filled, protected)
           enough == {n \in 0..Len(free) :
                         total - Bytes(SubSeq(free, 1, n)) <= HbmCapacity}
           n == IF enough = {} THEN Len(free) ELSE Min(enough)
           dropped == SubSeq(free, 1, n)
<1>1. free \in Seq(S)
  BY OffFacts
<1>2. Surplus(filled, total, protected) = dropped
  BY DEF Surplus
<1> HIDE DEF free
<1>3. Len(free) \in Nat
  BY <1>1
<1>4. enough # {} => n \in enough /\ \A m \in enough : n <= m
  <2>1. enough \subseteq Nat
    BY <1>3
  <2>2. enough # {} => \E m \in enough : \A k \in enough : m <= k
    <3> HIDE DEF enough
    <3> QED
      BY <2>1, NatMin
  <2> HIDE DEF enough
  <2> QED
    BY <2>2 DEF Min
<1>5. n \in 0..Len(free)
  BY <1>3, <1>4
<1>6. n - 1 \in 0..Len(free) => n - 1 \notin enough
  BY <1>4
<1>7. n # 0
  <2>1. n = 0 => dropped = <<>>
    <3> HIDE DEF n
    <3> QED
      BY <1>1
  <2> QED
    BY <1>2, <2>1
<1>8. n - 1 \in 0..Len(free) /\ n \in 1..Len(free)
  <2> HIDE DEF n
  <2> QED
    BY <1>3, <1>5, <1>7
<1>9. ~(total - Bytes(SubSeq(free, 1, n - 1)) <= HbmCapacity)
  BY <1>6, <1>8
<1> HIDE DEF n, enough
<1>10. /\ Bytes(SubSeq(free, 1, n)) \in Nat /\ Bytes(SubSeq(free, 1, n - 1)) \in Nat
       /\ Bytes(SubSeq(free, 1, n)) = Bytes(SubSeq(free, 1, n - 1)) + free[n].nbytes
  BY <1>1, <1>8, BytesPrefix
<1>11. /\ n \in DOMAIN dropped /\ dropped[n] = free[n]
       /\ \A j \in DOMAIN dropped : j <= n
  BY <1>1, <1>3, <1>8
<1>12. free[n].nbytes \in Nat
  BY <1>1, <1>8
<1>13. (total - Bytes(dropped)) + free[n].nbytes > HbmCapacity
  <2>1. Bytes(SubSeq(free, 1, n - 1)) = Bytes(dropped) - free[n].nbytes
    BY <1>10, <1>12
  <2>2. Bytes(dropped) \in Nat
    BY <1>10
  <2> HIDE DEF dropped
  <2> QED
    BY <1>9, <1>12, <2>1, <2>2
<1> QED
  BY <1>2, <1>11, <1>13

\* A fill leaves the pool in the order of any clock by which the request is the newest.
LEMMA FilledRises ==
    ASSUME NEW S, pool \in Seq(S), Distinct(pool), NEW items \in Seq(S), Distinct(items),
           NEW f,
           \A i, j \in DOMAIN pool :
               (i < j /\ pool[i].key \notin Keys(items) /\ pool[j].key \notin Keys(items))
                   => f[pool[i].key] <= f[pool[j].key],
           \A j \in Keys(pool) \cup Keys(items), k \in Keys(items) : f[j] <= f[k]
    PROVE  Rising(Filled(items), f)
<1> DEFINE old == Off(pool, Keys(items))
           new == [i \in DOMAIN items |-> Held(items[i])]
<1>1. old \in Seq(S) /\ Keys(old) = Keys(pool) \ Keys(items)
  BY OffFacts
<1>2. new \in Seq(S) /\ Keys(new) = Keys(items)
  BY HeldFacts
<1>3. Rising(old, f)
  <2> DEFINE I == {i \in DOMAIN pool : pool[i].key \notin Keys(items)}
  <2>1. old = Sublist(pool, I)
    BY DEF Off
  <2>2. \A i, j \in I \cap DOMAIN pool : i < j => f[pool[i].key] <= f[pool[j].key]
    OBVIOUS
  <2> HIDE DEF I, old
  <2> QED
    BY <2>1, <2>2, RisingSublist
<1>4. Rising(new, f)
  <2> HIDE DEF new
  <2> QED
    BY <1>2 DEF Rising, Keys
<1>5. Filled(items) = old \o new
  BY DEF Filled
<1> HIDE DEF old, new
<1>6. \A j \in Keys(old), k \in Keys(new) : f[j] <= f[k]
  BY <1>1, <1>2
<1> QED
  BY <1>1, <1>2, <1>3, <1>4, <1>5, <1>6, RisingJoin

\* store stops at the first victim that is enough: with the last block it drops, in
\* the order of the pool, still there the total would be over the cap.
LEMMA StoreStops ==
    ASSUME HbmCapacity \in Nat,
           NEW S, \A b \in S : b.nbytes \in Nat,
           pool \in Seq(S), Distinct(pool), used = Bytes(pool),
           NEW items \in Seq(S), Distinct(items),
           NEW protected, Keys(items) \subseteq protected,
           store(items, protected)
    PROVE  \/ Keys(pool) \subseteq Keys(pool')
           \/ \E i \in DOMAIN pool :
                 /\ pool[i].key \notin Keys(pool')
                 /\ \A j \in DOMAIN pool : pool[j].key \notin Keys(pool') => j <= i
                 /\ used' + pool[i].nbytes > HbmCapacity
<1> DEFINE filled == Filled(items)
           fresh == NewItems(items)
           dropped == Dropped(items, protected)
           free == Off(filled, protected)
           place(k) == CHOOSE i \in DOMAIN pool : pool[i].key = k
           f == [k \in Keys(pool) \cup Keys(items) |->
                    IF k \in Keys(items) THEN Len(pool) + 1 ELSE place(k)]
<1>1. /\ filled \in Seq(S) /\ Distinct(filled)
      /\ Range(filled) = Range(pool) \cup Range(fresh)
  BY FilledFacts
<1>2. fresh \in Seq(S) /\ Distinct(fresh) /\ Range(fresh) \subseteq Range(items)
  BY OffFacts DEF NewItems
<1>3. Bytes(pool) \in Nat /\ Bytes(fresh) \in Nat
  BY <1>2, BytesNat
<1>4. /\ Keys(pool') = (Keys(pool) \cup Keys(items)) \ Keys(dropped)
      /\ Keys(dropped) \subseteq (Keys(pool) \cup Keys(items)) \ protected
  BY StoreFacts
<1>5. used' = (used + Bytes(fresh)) - Bytes(dropped)
  BY DEF store
<1>6. CASE dropped = <<>>
  <2>1. Keys(dropped) = {}
    BY <1>6 DEF Keys
  <2> QED
    BY <1>4, <2>1
<1>7. DOMAIN pool = 1..Len(pool) /\ Len(pool) \in Nat
  OBVIOUS
<1>8. ASSUME NEW i \in DOMAIN pool
      PROVE  /\ pool[i].key \in Keys(pool) /\ place(pool[i].key) = i
             /\ pool[i].key \notin Keys(items) => f[pool[i].key] = i
  <2>1. pool[i].key \in Keys(pool)
    BY DEF Keys
  <2>2. place(pool[i].key) = i
    BY DEF Distinct
  <2> QED
    BY <2>1, <2>2
<1>9. \A k \in Keys(items) : f[k] = Len(pool) + 1
  OBVIOUS
<1> HIDE DEF f, place
<1>10. Rising(filled, f)
  <2>1. ASSUME NEW i \in DOMAIN pool, NEW j \in DOMAIN pool, i < j,
               pool[i].key \notin Keys(items), pool[j].key \notin Keys(items)
        PROVE  f[pool[i].key] <= f[pool[j].key]
    <3>1. f[pool[i].key] = i /\ f[pool[j].key] = j
      BY <1>8, <2>1
    <3> QED
      BY <1>7, <2>1, <3>1
  <2>2. ASSUME NEW j \in Keys(pool) \cup Keys(items), NEW k \in Keys(items)
        PROVE  f[j] <= f[k]
    <3>1. f[k] = Len(pool) + 1
      BY <1>9
    <3>2. CASE j \in Keys(items)
      BY <1>7, <1>9, <3>1, <3>2
    <3>3. CASE j \notin Keys(items)
      <4>1. PICK i \in DOMAIN pool : pool[i].key = j
        BY <3>3 DEF Keys
      <4>2. f[j] = i
        BY <1>8, <3>3, <4>1
      <4> QED
        BY <1>7, <3>1, <4>2
    <3> QED
      BY <3>2, <3>3
  <2> QED
    BY <2>1, <2>2, FilledRises
<1>11. CASE dropped # <<>>
  <2>1. dropped = Surplus(filled, used + Bytes(fresh), protected)
    BY DEF Dropped
  <2>2. Rising(free, f) /\ free \in Seq(S)
    <3>1. \A i, j \in DOMAIN filled : i < j => f[filled[i].key] <= f[filled[j].key]
      BY <1>10 DEF Rising
    <3> HIDE DEF filled
    <3>2. filled \in Seq(S)
      BY <1>1
    <3>3. Off(filled, protected) \in Seq(S)
      BY <3>2, OffFacts
    <3>4. Rising(Off(filled, protected), f)
      BY <3>1, <3>2, RisingSublist DEF Off
    <3> QED
      BY <3>3, <3>4
  <2> HIDE DEF dropped, filled, fresh, free
  <2>3. PICK n \in 0..Len(free) : dropped = SubSeq(free, 1, n)
    BY <1>1, <2>1, SurplusPrefix DEF free
  <2>4. PICK m \in DOMAIN dropped :
            /\ \A j \in DOMAIN dropped : j <= m
            /\ ((used + Bytes(fresh)) - Bytes(dropped)) + dropped[m].nbytes > HbmCapacity
    <3>1. used + Bytes(fresh) \in Int
      BY <1>3
    <3> QED
      BY <1>1, <1>11, <2>1, <3>1, SurplusNeeded
  <2>5. /\ DOMAIN dropped = 1..n /\ \A j \in 1..n : dropped[j] = free[j] /\ j \in DOMAIN free
        /\ n \in Nat
    BY <2>2, <2>3
  <2>6. dropped[m].key \in Keys(dropped) /\ dropped[m] \in Range(filled)
    <3>1. Range(dropped) \subseteq Range(filled)
      BY <1>1, <2>1, SurplusFacts
    <3> QED
      BY <3>1 DEF Keys, Range
  <2>7. PICK i \in DOMAIN pool : pool[i] = dropped[m]
    <3>1. dropped[m].key \notin Keys(items)
      BY <1>4, <2>6
    <3>2. dropped[m] \in Range(pool)
      BY <1>1, <1>2, <2>6, <3>1, KeysOfRange
    <3> QED
      BY <3>2 DEF Range
  <2>8. ASSUME NEW j \in DOMAIN pool, pool[j].key \notin Keys(pool') PROVE j <= i
    <3>1. pool[j].key \in Keys(dropped)
      BY <1>4, <1>8, <2>8
    <3>2. PICK l \in DOMAIN dropped : dropped[l].key = pool[j].key
      BY <3>1 DEF Keys
    <3>3. l \in Nat /\ m \in Nat /\ l <= m
      BY <2>4, <2>5
    <3>4. f[dropped[l].key] <= f[dropped[m].key] \/ l = m
      <4>1. /\ l \in DOMAIN free /\ dropped[l] = free[l]
            /\ m \in DOMAIN free /\ dropped[m] = free[m]
        BY <2>5
      <4>2. l < m => f[free[l].key] <= f[free[m].key]
        BY <2>2, <4>1 DEF Rising
      <4> QED
        BY <3>3, <4>1, <4>2
    <3>5. f[pool[j].key] = j /\ f[pool[i].key] = i
      BY <1>4, <1>8, <2>6, <2>7, <3>1
    <3>6. l = m => j <= i
      BY <1>7, <2>7, <3>2, <3>5
    <3> QED
      BY <2>7, <3>2, <3>4, <3>5, <3>6
  <2> QED
    BY <1>4, <1>5, <2>4, <2>6, <2>7, <2>8
<1> QED
  BY <1>6, <1>11

\* With the keys of the request the newest by some clock f, the pool is in the
\* order of f again, and nothing is dropped before something older.
LEMMA StoreOrder ==
    ASSUME NEW S, pool \in Seq(S), Distinct(pool), NEW items \in Seq(S), Distinct(items),
           store(items, Keys(items)), NEW f,
           \A i, j \in DOMAIN pool :
               (i < j /\ pool[i].key \notin Keys(items) /\ pool[j].key \notin Keys(items))
                   => f[pool[i].key] <= f[pool[j].key],
           \A j \in Keys(pool) \cup Keys(items), k \in Keys(items) : f[j] <= f[k]
    PROVE  /\ Rising(pool', f)
           /\ \A d \in Keys(Dropped(items, Keys(items))), k \in Keys(pool') : f[d] <= f[k]
<1> DEFINE filled == Filled(items)
           dropped == Dropped(items, Keys(items))
           free == Off(filled, Keys(items))
<1>1. /\ filled \in Seq(S) /\ Distinct(filled)
      /\ Keys(filled) = Keys(pool) \cup Keys(items)
  BY FilledFacts
<1>2. Rising(filled, f)
  BY FilledRises
<1> HIDE DEF filled
<1>3. \A i, j \in DOMAIN filled : i < j => f[filled[i].key] <= f[filled[j].key]
  BY <1>2 DEF Rising
<1>4. Rising(pool', f) /\ Rising(free, f)
  <2>1. pool' = Off(filled, Keys(dropped))
    BY DEF store, filled
  <2> HIDE DEF dropped
  <2> QED
    BY <1>1, <1>3, <2>1, RisingSublist DEF Off
<1>5. /\ free \in Seq(S) /\ Distinct(free) /\ Keys(free) = Keys(filled) \ Keys(items)
  <2>1. filled \in Seq(S) /\ Distinct(filled)
    BY <1>1
  <2> QED
    BY <2>1, OffFacts
<1>6. PICK n \in 0..Len(free) : dropped = SubSeq(free, 1, n)
  <2>1. filled \in Seq(S)
    BY <1>1
  <2>2. dropped = Surplus(filled, used + Bytes(NewItems(items)), Keys(items))
    BY DEF Dropped, filled
  <2> HIDE DEF dropped
  <2> QED
    BY <2>1, <2>2, SurplusPrefix
<1>7. Keys(pool') = Keys(filled) \ Keys(dropped)
  <2>1. pool' = Off(filled, Keys(dropped))
    BY DEF store, filled
  <2>2. filled \in Seq(S)
    BY <1>1
  <2> HIDE DEF dropped
  <2> QED
    BY <2>1, <2>2, OffFacts
<1> HIDE DEF free, dropped
<1>8. ASSUME NEW d \in Keys(dropped), NEW k \in Keys(pool') PROVE f[d] <= f[k]
  <2>1. d \in Keys(free) /\ d \in Keys(filled)
    BY <1>5, <1>6, PrefixFacts
  <2>2. CASE k \in Keys(items)
    BY <1>1, <2>1, <2>2
  <2>3. CASE k \notin Keys(items)
    <3>1. k \in Keys(free)
      BY <1>5, <1>7, <2>3
    <3>2. PICK j \in DOMAIN free : free[j].key = k
      BY <3>1 DEF Keys
    <3>3. PICK i \in DOMAIN dropped : dropped[i].key = d
      BY DEF Keys
    <3>4. /\ DOMAIN dropped = 1..n /\ \A m \in 1..n : dropped[m] = free[m]
          /\ n \in Nat /\ DOMAIN free = 1..Len(free) /\ Len(free) \in Nat /\ n <= Len(free)
      BY <1>5, <1>6
    <3>5. j \notin 1..n
      BY <1>7, <3>2, <3>4 DEF Keys
    <3>6. i \in DOMAIN free /\ i < j /\ free[i].key = d
      BY <3>2, <3>3, <3>4, <3>5
    <3> QED
      BY <1>4, <3>2, <3>6 DEF Rising
  <2> QED
    BY <2>2, <2>3
<1> QED
  BY <1>4, <1>8 DEF dropped

(***************************************************************************)
(* Lists arranged by a total order of their positions                      *)
(***************************************************************************)
TotalOrder(ahead, n) ==
    \A i, j, k \in 1..n :
        /\ <<i, i>> \notin ahead
        /\ <<i, j>> \in ahead /\ <<j, k>> \in ahead => <<i, k>> \in ahead
        /\ i # j => <<i, j>> \in ahead \/ <<j, i>> \in ahead

Before(i, n, ahead) == {j \in 1..n : <<j, i>> \in ahead}
RankOf(n, ahead) == [i \in 1..n |-> Cardinality(Before(i, n, ahead))]

\* As many different ranks as positions.
LEMMA Ranks ==
    ASSUME NEW n \in Nat, NEW ahead, TotalOrder(ahead, n)
    PROVE  /\ \A i \in 1..n : RankOf(n, ahead)[i] \in 0..(n - 1)
           /\ \A i, j \in 1..n : <<i, j>> \in ahead => RankOf(n, ahead)[i] < RankOf(n, ahead)[j]
           /\ \A i, j \in 1..n : RankOf(n, ahead)[i] = RankOf(n, ahead)[j] => i = j
           /\ \A r \in 0..(n - 1) : \E i \in 1..n : RankOf(n, ahead)[i] = r
<1> DEFINE rank == RankOf(n, ahead)
<1>1. IsFiniteSet(1..n) /\ Cardinality(1..n) = n
  BY FS_Interval
<1>2. ASSUME NEW i \in 1..n
      PROVE  /\ IsFiniteSet(Before(i, n, ahead)) /\ Before(i, n, ahead) \subseteq 1..n
             /\ i \notin Before(i, n, ahead) /\ rank[i] = Cardinality(Before(i, n, ahead))
             /\ rank[i] \in 0..(n - 1)
  <2>1. /\ Before(i, n, ahead) \subseteq 1..n /\ i \notin Before(i, n, ahead)
        /\ rank[i] = Cardinality(Before(i, n, ahead))
    BY DEF Before, TotalOrder, RankOf
  <2>2. /\ IsFiniteSet(Before(i, n, ahead)) /\ Cardinality(Before(i, n, ahead)) <= n
        /\ Cardinality(Before(i, n, ahead)) # n
    BY <1>1, <2>1, FS_Subset
  <2>3. Cardinality(Before(i, n, ahead)) \in Nat
    BY <2>2, FS_CardinalityType
  <2> HIDE DEF rank
  <2> QED
    BY <2>1, <2>2, <2>3
<1>3. ASSUME NEW i \in 1..n, NEW j \in 1..n, <<i, j>> \in ahead
      PROVE  rank[i] < rank[j]
  <2>1. /\ Before(i, n, ahead) \subseteq Before(j, n, ahead)
        /\ i \in Before(j, n, ahead)
    BY <1>3 DEF Before, TotalOrder
  <2>2. /\ Cardinality(Before(i, n, ahead)) <= Cardinality(Before(j, n, ahead))
        /\ Cardinality(Before(i, n, ahead)) # Cardinality(Before(j, n, ahead))
    BY <1>2, <2>1, FS_Subset
  <2> HIDE DEF rank
  <2> QED
    BY <1>2, <2>2
<1>4. ASSUME NEW i \in 1..n, NEW j \in 1..n, rank[i] = rank[j] PROVE i = j
  <2>1. i # j => rank[i] < rank[j] \/ rank[j] < rank[i]
    BY <1>3 DEF TotalOrder
  <2>2. rank[i] \in Int /\ rank[j] \in Int
    BY <1>2
  <2> HIDE DEF rank
  <2> QED
    BY <1>4, <2>1, <2>2
<1>5. rank \in Surjection(1..n, 0..(n - 1))
  <2>1. rank \in Injection(1..n, 0..(n - 1))
    <3>1. rank \in [1..n -> 0..(n - 1)]
      BY <1>2 DEF RankOf
    <3> HIDE DEF rank
    <3> QED
      BY <1>4, <3>1 DEF Injection, IsInjective
  <2>2. IsFiniteSet(0..(n - 1)) /\ Cardinality(0..(n - 1)) = n
    BY FS_Interval
  <2> HIDE DEF rank
  <2> QED
    BY <1>1, <2>1, <2>2, FS_Injection
<1>6. \A r \in 0..(n - 1) : \E i \in 1..n : rank[i] = r
  <2> HIDE DEF rank
  <2> QED
    BY <1>5 DEF Surjection
<1> QED
  BY <1>2, <1>3, <1>4, <1>6

\* place names the positions that an arranged list takes its elements from.
Placed(place, out, seq, ahead) ==
    /\ place \in [DOMAIN seq -> DOMAIN seq]
    /\ out = [n \in DOMAIN seq |-> seq[place[n]]]
    /\ \A m, n \in DOMAIN seq : m < n => <<place[m], place[n]>> \in ahead
    /\ \A i \in DOMAIN seq : \E n \in DOMAIN seq : place[n] = i

LEMMA ArrangedPlaces ==
    ASSUME NEW S, NEW seq \in Seq(S), NEW ahead, TotalOrder(ahead, Len(seq))
    PROVE  \E place : Placed(place, Arranged(seq, ahead), seq, ahead)
<1> DEFINE N == Len(seq)
           rank == RankOf(N, ahead)
           place == [m \in 1..N |-> CHOOSE i \in 1..N : rank[i] = m - 1]
<1>1. N \in Nat /\ DOMAIN seq = 1..N
  OBVIOUS
<1>2. /\ \A i \in 1..N : rank[i] \in 0..(N - 1)
      /\ \A i, j \in 1..N : <<i, j>> \in ahead => rank[i] < rank[j]
      /\ \A i, j \in 1..N : rank[i] = rank[j] => i = j
      /\ \A r \in 0..(N - 1) : \E i \in 1..N : rank[i] = r
  BY <1>1, Ranks
<1>3. Arranged(seq, ahead) = [m \in 1..N |-> seq[place[m]]]
  BY <1>1 DEF Arranged, RankOf, Before
<1> HIDE DEF rank
<1>4. ASSUME NEW m \in 1..N PROVE place[m] \in 1..N /\ rank[place[m]] = m - 1
  <2>1. m - 1 \in 0..(N - 1)
    BY <1>1
  <2> QED
    BY <1>2, <2>1
<1>5. place \in [1..N -> 1..N]
  BY <1>4
<1> HIDE DEF place
<1>6. ASSUME NEW m \in 1..N, NEW n \in 1..N, m < n PROVE <<place[m], place[n]>> \in ahead
  <2>1. rank[place[m]] < rank[place[n]]
    BY <1>1, <1>4, <1>6
  <2>2. place[m] # place[n] /\ ~(rank[place[n]] < rank[place[m]])
    BY <1>1, <1>4, <1>6
  <2>3. <<place[n], place[m]>> \notin ahead
    BY <1>2, <1>4, <2>2
  <2> QED
    BY <1>4, <2>2, <2>3 DEF TotalOrder
<1>7. ASSUME NEW i \in 1..N PROVE \E n \in 1..N : place[n] = i
  <2>1. rank[i] + 1 \in 1..N /\ (rank[i] + 1) - 1 = rank[i]
    BY <1>1, <1>2
  <2>2. /\ place[rank[i] + 1] \in 1..N
        /\ rank[place[rank[i] + 1]] = (rank[i] + 1) - 1
    BY <1>4, <2>1
  <2>3. place[rank[i] + 1] = i
    BY <1>2, <2>1, <2>2
  <2> QED
    BY <2>1, <2>3
<1>8. Placed(place, Arranged(seq, ahead), seq, ahead)
  BY <1>1, <1>3, <1>5, <1>6, <1>7 DEF Placed
<1> QED
  BY <1>8

(***************************************************************************)
(* The orders of the policies                                              *)
(***************************************************************************)
\* Entries that can be sorted, with what the index says of them.
Sortable(held, probe) ==
    /\ held \in Seq(Range(held)) /\ Distinct(held)
    /\ \A e \in Range(held) :
          /\ e.nbytes \in Nat /\ e.last_touch \in Int /\ e.uses \in Int /\ e.expires_at \in Int
          /\ probe.depth[e.key] \in Int /\ probe.density[e.key] \in Nat
          /\ policy = "oracle" => probe.next_use[e.key] \in Int

SortCard == [at : Int, by : Int \X Int]

LEMMA SoonerOrders ==
    ASSUME NEW a \in SortCard, NEW b \in SortCard, NEW c \in SortCard
    PROVE  /\ ~Sooner(a, a)
           /\ Sooner(a, b) /\ Sooner(b, c) => Sooner(a, c)
           /\ a.at # b.at => Sooner(a, b) \/ Sooner(b, a)
BY DEF SortCard, Sooner, Lex

\* Products keep an order, and a common factor can be dropped.
LEMMA ProductMono ==
    ASSUME NEW x \in Nat, NEW y \in Nat, NEW m \in Nat \ {0}
    PROVE  /\ x < y <=> x * m < y * m
           /\ x <= y <=> x * m <= y * m
<1>1. ASSUME x < y PROVE x * m < y * m
  <2>1. PICK d \in Nat \ {0} : y = x + d
    <3>1. y = x + (y - x) /\ y - x \in Nat \ {0}
      BY <1>1
    <3> QED
      BY <3>1
  <2>2. y * m = x * m + d * m
    BY <2>1
  <2>3. d * m > 0 /\ x * m \in Nat
    BY <2>1
  <2> QED
    BY <2>2, <2>3
<1>2. ASSUME y < x PROVE y * m < x * m
  <2>1. PICK d \in Nat \ {0} : x = y + d
    <3>1. x = y + (x - y) /\ x - y \in Nat \ {0}
      BY <1>2
    <3> QED
      BY <3>1
  <2>2. x * m = y * m + d * m
    BY <2>1
  <2>3. d * m > 0 /\ y * m \in Nat
    BY <2>1
  <2> QED
    BY <2>2, <2>3
<1>3. x * m \in Nat /\ y * m \in Nat
  OBVIOUS
<1> QED
  BY <1>1, <1>2, <1>3

\* Fractions v/p, w/q, x/r compared by their cross products.
LEMMA CrossProducts ==
    ASSUME NEW v \in Nat, NEW w \in Nat, NEW x \in Nat,
           NEW p \in Nat \ {0}, NEW q \in Nat \ {0}, NEW r \in Nat \ {0},
           v * q <= w * p, w * r <= x * q
    PROVE  /\ v * r <= x * p
           /\ v * q < w * p \/ w * r < x * q => v * r < x * p
           /\ v * q = w * p /\ w * r = x * q => v * r = x * p
<1> DEFINE vq == v * q
           wp == w * p
           wr == w * r
           xq == x * q
           vr == v * r
           xp == x * p
<1>1. vq \in Nat /\ wp \in Nat /\ wr \in Nat /\ xq \in Nat /\ vr \in Nat /\ xp \in Nat
  OBVIOUS
<1>2. vq * r = vr * q /\ wp * r = wr * p /\ xq * p = xp * q
  OBVIOUS
<1>3. vq <= wp /\ wr <= xq
  OBVIOUS
<1> SUFFICES /\ vr <= xp
             /\ vq < wp \/ wr < xq => vr < xp
             /\ vq = wp /\ wr = xq => vr = xp
  OBVIOUS
<1> HIDE DEF vq, wp, wr, xq, vr, xp
<1>4. vq * r <= wp * r /\ (vq < wp => vq * r < wp * r)
  BY <1>1, <1>3, ProductMono
<1>5. wr * p <= xq * p /\ (wr < xq => wr * p < xq * p)
  BY <1>1, <1>3, ProductMono
<1>6. /\ vr <= xp <=> vr * q <= xp * q
      /\ vr < xp <=> vr * q < xp * q
      /\ xp <= vr <=> xp * q <= vr * q
  BY <1>1, ProductMono
<1> DEFINE A == vr * q
           M == wr * p
           Z == xp * q
<1>7. A \in Nat /\ M \in Nat /\ Z \in Nat
  BY <1>1
<1>8. A <= M /\ (vq < wp => A < M)
  BY <1>2, <1>4
<1>9. M <= Z /\ (wr < xq => M < Z)
  BY <1>2, <1>5
<1>10. vq = wp /\ wr = xq => A = Z
  BY <1>2
<1>11. /\ vr <= xp <=> A <= Z
       /\ vr < xp <=> A < Z
       /\ xp <= vr <=> Z <= A
  BY <1>6
<1> HIDE DEF A, M, Z
<1> QED
  BY <1>1, <1>7, <1>8, <1>9, <1>10, <1>11

ChainCard == [at : Int, depth : Int, head : Int, rank : Int, worth : Nat, bytes : Nat]

\* Entries of one chain know the same of it.
Kin(a, b) == a.head = b.head => a.rank = b.rank /\ a.worth = b.worth /\ a.bytes = b.bytes

Ahead(a, b) == ChainBefore(a, b) \/ Deeper(a, b)

LEMMA ChainsOrdered ==
    ASSUME NEW a \in ChainCard, NEW b \in ChainCard, NEW c \in ChainCard,
           Kin(a, b), Kin(b, c), Kin(a, c)
    PROVE  /\ ChainBefore(a, b) => a.head # b.head
           /\ ChainBefore(a, b) /\ ChainBefore(b, c) => ChainBefore(a, c)
           /\ a.head # b.head => ChainBefore(a, b) \/ ChainBefore(b, a)
           /\ a.head = b.head => (ChainBefore(a, c) <=> ChainBefore(b, c))
           /\ b.head = c.head => (ChainBefore(a, b) <=> ChainBefore(a, c))
<1> DEFINE p == Larger(1, a.bytes)
           q == Larger(1, b.bytes)
           r == Larger(1, c.bytes)
<1>1. /\ p \in Nat \ {0} /\ q \in Nat \ {0} /\ r \in Nat \ {0}
      /\ a.worth \in Nat /\ b.worth \in Nat /\ c.worth \in Nat
      /\ a.rank \in Int /\ b.rank \in Int /\ c.rank \in Int
      /\ a.head \in Int /\ b.head \in Int /\ c.head \in Int
  BY DEF ChainCard, Larger
<1>2. /\ a.head = b.head => a.worth = b.worth /\ a.rank = b.rank /\ p = q
      /\ b.head = c.head => b.worth = c.worth /\ b.rank = c.rank /\ q = r
  BY DEF Kin
<1>3. /\ ChainBefore(a, b) <=>
            \/ Lex(a.rank, b.rank, a.worth * q, b.worth * p)
            \/ a.rank = b.rank /\ a.worth * q = b.worth * p /\ a.head < b.head
      /\ ChainBefore(b, a) <=>
            \/ Lex(b.rank, a.rank, b.worth * p, a.worth * q)
            \/ b.rank = a.rank /\ b.worth * p = a.worth * q /\ b.head < a.head
      /\ ChainBefore(b, c) <=>
            \/ Lex(b.rank, c.rank, b.worth * r, c.worth * q)
            \/ b.rank = c.rank /\ b.worth * r = c.worth * q /\ b.head < c.head
      /\ ChainBefore(a, c) <=>
            \/ Lex(a.rank, c.rank, a.worth * r, c.worth * p)
            \/ a.rank = c.rank /\ a.worth * r = c.worth * p /\ a.head < c.head
  BY DEF ChainBefore
<1> HIDE DEF p, q, r
<1> DEFINE aq == a.worth * q
           bp == b.worth * p
           br == b.worth * r
           cq == c.worth * q
           ar == a.worth * r
           cp == c.worth * p
<1>4. aq \in Nat /\ bp \in Nat /\ br \in Nat /\ cq \in Nat /\ ar \in Nat /\ cp \in Nat
  BY <1>1
<1>5. aq <= bp /\ br <= cq =>
         /\ ar <= cp
         /\ aq < bp \/ br < cq => ar < cp
         /\ aq = bp /\ br = cq => ar = cp
  <2>1. ASSUME NEW v \in Nat, NEW w \in Nat, NEW x \in Nat,
               v * q <= w * p, w * r <= x * q
        PROVE  /\ v * r <= x * p
               /\ v * q < w * p \/ w * r < x * q => v * r < x * p
               /\ v * q = w * p /\ w * r = x * q => v * r = x * p
    BY <1>1, <2>1, CrossProducts
  <2> QED
    BY <1>1, <2>1
<1>6. /\ a.head = b.head => aq = bp /\ ar = br /\ cp = cq
      /\ b.head = c.head => br = cq /\ aq = ar /\ bp = cp
  BY <1>2
<1>7. /\ ChainBefore(a, b) <=>
            \/ Lex(a.rank, b.rank, aq, bp)
            \/ a.rank = b.rank /\ aq = bp /\ a.head < b.head
      /\ ChainBefore(b, a) <=>
            \/ Lex(b.rank, a.rank, bp, aq)
            \/ b.rank = a.rank /\ bp = aq /\ b.head < a.head
      /\ ChainBefore(b, c) <=>
            \/ Lex(b.rank, c.rank, br, cq)
            \/ b.rank = c.rank /\ br = cq /\ b.head < c.head
      /\ ChainBefore(a, c) <=>
            \/ Lex(a.rank, c.rank, ar, cp)
            \/ a.rank = c.rank /\ ar = cp /\ a.head < c.head
  BY <1>3
<1> HIDE DEF aq, bp, br, cq, ar, cp
<1>8. ChainBefore(a, b) => a.head # b.head
  BY <1>1, <1>2, <1>4, <1>6, <1>7 DEF Lex
<1>9. ChainBefore(a, b) /\ ChainBefore(b, c) => ChainBefore(a, c)
  BY <1>1, <1>4, <1>5, <1>7 DEF Lex
<1>10. a.head # b.head => ChainBefore(a, b) \/ ChainBefore(b, a)
  BY <1>1, <1>4, <1>7 DEF Lex
<1>11. a.head = b.head => (ChainBefore(a, c) <=> ChainBefore(b, c))
  BY <1>1, <1>2, <1>4, <1>6, <1>7 DEF Lex
<1>12. b.head = c.head => (ChainBefore(a, b) <=> ChainBefore(a, c))
  BY <1>1, <1>2, <1>4, <1>6, <1>7 DEF Lex
<1> QED
  BY <1>8, <1>9, <1>10, <1>11, <1>12

LEMMA AheadOrders ==
    ASSUME NEW a \in ChainCard, NEW b \in ChainCard, NEW c \in ChainCard,
           Kin(a, b), Kin(b, c), Kin(a, c)
    PROVE  /\ ~Ahead(a, a)
           /\ Ahead(a, b) /\ Ahead(b, c) => Ahead(a, c)
           /\ a.at # b.at => Ahead(a, b) \/ Ahead(b, a)
<1>1. ~ChainBefore(a, a)
  <2>1. Kin(a, a)
    BY DEF Kin
  <2> QED
    BY <2>1, ChainsOrdered
<1>2. ~Deeper(a, a)
  BY DEF Deeper, Lex, ChainCard
<1>3. Deeper(a, b) => a.head = b.head
  BY DEF Deeper
<1>4. Deeper(b, c) => b.head = c.head
  BY DEF Deeper
<1>5. Deeper(a, b) /\ Deeper(b, c) => Deeper(a, c)
  BY DEF Deeper, Lex, ChainCard
<1>6. a.head = b.head /\ a.at # b.at => Deeper(a, b) \/ Deeper(b, a)
  BY DEF Deeper, Lex, ChainCard
<1> QED
  BY <1>1, <1>2, <1>3, <1>4, <1>5, <1>6, ChainsOrdered DEF Ahead

\* What KeyOrder compares of two entries.
KeyCard(held, i, probe) == [at |-> i, by |-> SortKey(held[i], probe)]

LEMMA KeyOrderPairs ==
    ASSUME NEW held, NEW probe, NEW i \in DOMAIN held, NEW j \in DOMAIN held
    PROVE  <<i, j>> \in KeyOrder(held, probe)
              <=> Sooner(KeyCard(held, i, probe), KeyCard(held, j, probe))
<1> DEFINE card(m) == KeyCard(held, m, probe)
           keyed == {card(m) : m \in DOMAIN held}
           pairs == {p \in keyed \X keyed : Sooner(p[1], p[2])}
<1>1. KeyOrder(held, probe) = {<<p[1].at, p[2].at>> : p \in pairs}
  BY DEF KeyOrder, KeyCard
<1>2. \A m : card(m).at = m
  BY DEF KeyCard
<1> HIDE DEF card
<1>3. ASSUME Sooner(card(i), card(j)) PROVE <<i, j>> \in KeyOrder(held, probe)
  <2>1. <<card(i), card(j)>> \in pairs
    BY <1>3
  <2>2. <<card(i).at, card(j).at>> = <<i, j>>
    BY <1>2
  <2> HIDE DEF pairs
  <2> QED
    BY <1>1, <2>1, <2>2
<1>4. ASSUME <<i, j>> \in KeyOrder(held, probe) PROVE Sooner(card(i), card(j))
  <2>1. PICK p \in pairs : <<i, j>> = <<p[1].at, p[2].at>>
    BY <1>1, <1>4
  <2>2. PICK k \in DOMAIN held, l \in DOMAIN held :
            p = <<card(k), card(l)>> /\ Sooner(card(k), card(l))
    BY <2>1
  <2>3. i = k /\ j = l
    BY <1>2, <2>1, <2>2
  <2> QED
    BY <2>2, <2>3
<1> QED
  BY <1>3, <1>4 DEF card

LEMMA KeyOrderTotal ==
    ASSUME NEW held, NEW probe, Sortable(held, probe), policy \in POLICIES \ {"adaptive_value"}
    PROVE  TotalOrder(KeyOrder(held, probe), Len(held))
<1> DEFINE n == Len(held)
           card(i) == [at |-> i, by |-> SortKey(held[i], probe)]
<1>1. n \in Nat /\ DOMAIN held = 1..n
  BY DEF Sortable
<1>2. ASSUME NEW i \in 1..n PROVE card(i) \in SortCard /\ card(i).at = i
  <2>1. held[i] \in Range(held)
    BY <1>1 DEF Range
  <2>2. SortKey(held[i], probe) \in Int \X Int
    BY <2>1 DEF SortKey, POLICIES, Sortable
  <2> HIDE DEF n
  <2> QED
    BY <2>2 DEF SortCard
<1>3. ASSUME NEW i \in 1..n, NEW j \in 1..n
      PROVE  <<i, j>> \in KeyOrder(held, probe) <=> Sooner(card(i), card(j))
  BY <1>1, KeyOrderPairs DEF KeyCard
<1> HIDE DEF card
<1> SUFFICES ASSUME NEW i \in 1..n, NEW j \in 1..n, NEW k \in 1..n
             PROVE  /\ <<i, i>> \notin KeyOrder(held, probe)
                    /\ (<<i, j>> \in KeyOrder(held, probe) /\ <<j, k>> \in KeyOrder(held, probe))
                          => <<i, k>> \in KeyOrder(held, probe)
                    /\ i # j => \/ <<i, j>> \in KeyOrder(held, probe)
                                \/ <<j, i>> \in KeyOrder(held, probe)
  BY DEF TotalOrder
<1> QED
  BY <1>2, <1>3, SoonerOrders

\* What ChainOrder compares of two entries.
LEMMA RankedFacts ==
    ASSUME NEW held, NEW probe, Sortable(held, probe),
           NEW i \in DOMAIN held, NEW j \in DOMAIN held
    PROVE  LET a == Ranked(held, i, probe)
               b == Ranked(held, j, probe)
           IN  /\ a \in ChainCard /\ a.at = i /\ Kin(a, b)
               /\ a.head = b.head <=> ChainOf(held[i].key, probe) = ChainOf(held[j].key, probe)
               /\ a.rank = SharedRank(held, ChainAt(held, i, probe), probe)
               /\ a.depth = probe.depth[held[i].key]
<1> DEFINE chain(m) == ChainAt(held, m, probe)
           size == [m \in DOMAIN held |-> held[m].nbytes]
           worths == [m \in DOMAIN held |-> held[m].nbytes * probe.density[held[m].key]]
           of(m) == ChainOf(held[m].key, probe)
<1>1. /\ Len(held) \in Nat /\ DOMAIN held = 1..Len(held) /\ IsFiniteSet(DOMAIN held)
  BY PositionsFinite DEF Sortable
<1>2. ASSUME NEW m \in DOMAIN held
      PROVE  /\ held[m].nbytes \in Nat /\ probe.density[held[m].key] \in Nat
             /\ probe.depth[held[m].key] \in Int
  BY DEF Sortable, Range
<1>3. ASSUME NEW m \in DOMAIN held
      PROVE  /\ chain(m) \subseteq DOMAIN held /\ m \in chain(m) /\ IsFiniteSet(chain(m))
             /\ \A l \in DOMAIN held : l \in chain(m) <=> of(l) = of(m)
  <2>1. /\ chain(m) \subseteq DOMAIN held /\ m \in chain(m)
        /\ \A l \in DOMAIN held : l \in chain(m) <=> of(l) = of(m)
    BY DEF ChainAt
  <2> HIDE DEF chain, of
  <2> QED
    BY <1>1, <2>1, FS_Subset
<1>4. ASSUME NEW m \in DOMAIN held PROVE Min(chain(m)) \in chain(m)
  <2>1. chain(m) \subseteq Nat /\ chain(m) # {}
    BY <1>1, <1>3
  <2> HIDE DEF chain
  <2>2. \E l \in chain(m) : \A o \in chain(m) : l <= o
    BY <2>1, NatMin
  <2> QED
    BY <2>2 DEF Min
<1>5. Ranked(held, i, probe).head = Min(chain(i)) /\ Ranked(held, j, probe).head = Min(chain(j))
  BY DEF Ranked
<1>6. Min(chain(i)) = Min(chain(j)) <=> of(i) = of(j)
  <2>1. of(i) = of(j) => chain(i) = chain(j)
    BY DEF ChainAt
  <2>2. Min(chain(i)) = Min(chain(j)) => of(i) = of(j)
    <3> HIDE DEF chain, of
    <3> QED
      BY <1>3, <1>4
  <2> QED
    BY <2>1, <2>2
<1>7. of(i) = of(j) => chain(i) = chain(j)
  BY DEF ChainAt
<1>8. Kin(Ranked(held, i, probe), Ranked(held, j, probe))
  <2>1. Ranked(held, i, probe).head = Ranked(held, j, probe).head => chain(i) = chain(j)
    BY <1>5, <1>6, <1>7
  <2> QED
    BY <2>1 DEF Kin, Ranked
<1>9. Ranked(held, i, probe) \in ChainCard
  <2>1. Min(chain(i)) \in Int
    BY <1>1, <1>3, <1>4
  <2>2. SumFunctionOnSet(size, chain(i)) \in Nat
    <3>1. \A m \in chain(i) : size[m] \in Nat
      BY <1>2, <1>3
    <3> HIDE DEF size, chain
    <3> QED
      BY <1>3, <3>1, SumNat
  <2>3. SumFunctionOnSet(worths, chain(i)) \in Nat
    <3>1. \A m \in chain(i) : worths[m] \in Nat
      BY <1>2, <1>3
    <3> HIDE DEF worths, chain
    <3> QED
      BY <1>3, <3>1, SumNat
  <2>4. Worth(held, chain(i), probe) = SumFunctionOnSet(worths, chain(i))
    BY DEF Worth
  <2>5. SharedRank(held, chain(i), probe) \in Int
    BY DEF SharedRank
  <2>6. Ranked(held, i, probe) =
           [at |-> i, depth |-> probe.depth[held[i].key], head |-> Min(chain(i)),
            rank |-> SharedRank(held, chain(i), probe),
            worth |-> Worth(held, chain(i), probe),
            bytes |-> SumFunctionOnSet(size, chain(i))]
    BY DEF Ranked
  <2> HIDE DEF size, worths, chain
  <2> QED
    BY <1>1, <1>2, <2>1, <2>2, <2>3, <2>4, <2>5, <2>6 DEF ChainCard
<1>10. /\ Ranked(held, i, probe).at = i
       /\ Ranked(held, i, probe).rank = SharedRank(held, chain(i), probe)
       /\ Ranked(held, i, probe).depth = probe.depth[held[i].key]
  BY DEF Ranked
<1> QED
  BY <1>5, <1>6, <1>8, <1>9, <1>10

LEMMA ChainOrderPairs ==
    ASSUME NEW held, NEW probe, NEW i \in DOMAIN held, NEW j \in DOMAIN held
    PROVE  <<i, j>> \in ChainOrder(held, probe)
              <=> Ahead(Ranked(held, i, probe), Ranked(held, j, probe))
<1> DEFINE card(m) == Ranked(held, m, probe)
           ranked == {card(m) : m \in DOMAIN held}
           pairs == {p \in ranked \X ranked : ChainBefore(p[1], p[2]) \/ Deeper(p[1], p[2])}
<1>1. ChainOrder(held, probe) = {<<p[1].at, p[2].at>> : p \in pairs}
  BY DEF ChainOrder
<1>2. \A m : card(m).at = m
  BY DEF Ranked
<1> HIDE DEF card
<1>3. ASSUME Ahead(card(i), card(j)) PROVE <<i, j>> \in ChainOrder(held, probe)
  <2>1. <<card(i), card(j)>> \in pairs
    BY <1>3 DEF Ahead
  <2>2. <<card(i).at, card(j).at>> = <<i, j>>
    BY <1>2
  <2> HIDE DEF pairs
  <2> QED
    BY <1>1, <2>1, <2>2
<1>4. ASSUME <<i, j>> \in ChainOrder(held, probe) PROVE Ahead(card(i), card(j))
  <2>1. PICK p \in pairs : <<i, j>> = <<p[1].at, p[2].at>>
    BY <1>1, <1>4
  <2>2. PICK k \in DOMAIN held, l \in DOMAIN held :
            p = <<card(k), card(l)>> /\ Ahead(card(k), card(l))
    BY <2>1 DEF Ahead
  <2>3. i = k /\ j = l
    BY <1>2, <2>1, <2>2
  <2> QED
    BY <2>2, <2>3
<1> QED
  BY <1>3, <1>4 DEF card

LEMMA ChainOrderTotal ==
    ASSUME NEW held, NEW probe, Sortable(held, probe)
    PROVE  TotalOrder(ChainOrder(held, probe), Len(held))
<1> DEFINE n == Len(held)
           card(i) == Ranked(held, i, probe)
<1>1. n \in Nat /\ DOMAIN held = 1..n
  BY DEF Sortable
<1>2. \A i, j \in 1..n : card(i) \in ChainCard /\ card(i).at = i /\ Kin(card(i), card(j))
  BY <1>1, RankedFacts
<1>3. \A i, j \in 1..n : <<i, j>> \in ChainOrder(held, probe) <=> Ahead(card(i), card(j))
  BY <1>1, ChainOrderPairs
<1> HIDE DEF card
<1> SUFFICES ASSUME NEW i \in 1..n, NEW j \in 1..n, NEW k \in 1..n
             PROVE  /\ <<i, i>> \notin ChainOrder(held, probe)
                    /\ (<<i, j>> \in ChainOrder(held, probe) /\ <<j, k>> \in ChainOrder(held, probe))
                          => <<i, k>> \in ChainOrder(held, probe)
                    /\ i # j => \/ <<i, j>> \in ChainOrder(held, probe)
                                \/ <<j, i>> \in ChainOrder(held, probe)
  BY DEF TotalOrder
<1> QED
  BY <1>2, <1>3, AheadOrders

\* The order of every policy is total.
LEMMA OrdersTotal ==
    ASSUME policy \in POLICIES, NEW held, NEW probe, Sortable(held, probe)
    PROVE  TotalOrder(OrderOf(held, probe), Len(held))
BY KeyOrderTotal, ChainOrderTotal DEF OrderOf

(***************************************************************************)
(* Victims                                                                 *)
(***************************************************************************)
LEMMA SortableSublist ==
    ASSUME NEW held, NEW probe, Sortable(held, probe), NEW I
    PROVE  /\ Sortable(Sublist(held, I), probe)
           /\ Range(Sublist(held, I)) = {held[i] : i \in I \cap DOMAIN held}
<1> DEFINE sub == Sublist(held, I)
<1>1. held \in Seq(Range(held)) /\ Distinct(held)
  BY DEF Sortable
<1>2. /\ sub \in Seq(Range(held)) /\ Range(sub) = {held[i] : i \in I \cap DOMAIN held}
      /\ Distinct(sub)
  BY <1>1, SublistRange, SublistDistinct
<1> HIDE DEF sub
<1>3. Range(sub) \subseteq Range(held)
  BY <1>2 DEF Range
<1>4. sub \in Seq(Range(sub))
  <2>1. Len(sub) \in Nat /\ sub \in [1..Len(sub) -> Range(sub)]
    BY <1>2 DEF Range
  <2> QED
    BY <2>1
<1>5. Sortable(sub, probe)
  BY <1>2, <1>3, <1>4 DEF Sortable
<1> QED
  BY <1>2, <1>5 DEF sub

\* The entries an evict chooses among.
Free(held, protected, t) == Off(Expire(held, t), protected)

LEMMA FreeFacts ==
    ASSUME NEW held, NEW probe, Sortable(held, probe), NEW protected, NEW t
    PROVE  /\ Sortable(Expire(held, t), probe)
           /\ Range(Expire(held, t)) = {e \in Range(held) : ~Expired(e, t)}
           /\ Sortable(Free(held, protected, t), probe)
           /\ Range(Free(held, protected, t)) =
                 {e \in Range(held) : ~Expired(e, t) /\ e.key \notin protected}
           /\ Keys(Free(held, protected, t)) = Keys(Expire(held, t)) \ protected
<1> DEFINE alive == Expire(held, t)
           free == Free(held, protected, t)
<1>1. /\ Sortable(alive, probe)
      /\ Range(alive) = {e \in Range(held) : ~Expired(e, t)}
  <2> DEFINE I == {i \in DOMAIN held : ~Expired(held[i], t)}
  <2>1. alive = Sublist(held, I)
    BY DEF Expire
  <2>2. {held[i] : i \in I \cap DOMAIN held} = {e \in Range(held) : ~Expired(e, t)}
    BY DEF Range
  <2> HIDE DEF I, alive
  <2> QED
    BY <2>1, <2>2, SortableSublist
<1>2. Sortable(free, probe)
  BY <1>1, SortableSublist DEF Free, Off
<1>3. /\ Range(free) = {e \in Range(alive) : e.key \notin protected}
      /\ Keys(free) = Keys(alive) \ protected
  BY <1>1, OffFacts DEF Free, Sortable
<1> HIDE DEF alive, free
<1> QED
  BY <1>1, <1>2, <1>3 DEF alive, free

LEMMA PrefixElements ==
    ASSUME NEW S, NEW items \in Seq(S), NEW n \in 0..Len(items)
    PROVE  /\ Len(SubSeq(items, 1, n)) = n /\ DOMAIN SubSeq(items, 1, n) = 1..n
           /\ \A i \in 1..n : SubSeq(items, 1, n)[i] = items[i]
           /\ \A m \in 0..n : SubSeq(SubSeq(items, 1, n), 1, m) = SubSeq(items, 1, m)
<1>1. /\ Len(SubSeq(items, 1, n)) = n /\ DOMAIN SubSeq(items, 1, n) = 1..n
      /\ \A i \in 1..n : SubSeq(items, 1, n)[i] = items[i]
  OBVIOUS
<1>2. ASSUME NEW m \in 0..n
      PROVE  SubSeq(SubSeq(items, 1, n), 1, m) = SubSeq(items, 1, m)
  <2> DEFINE whole == SubSeq(items, 1, n)
  <2>1. whole \in Seq(S) /\ m \in 0..Len(whole) /\ m \in 0..Len(items)
    BY <1>1, PrefixFacts
  <2>2. \A i \in 1..m : whole[i] = items[i]
    BY <1>1
  <2> HIDE DEF whole
  <2>3. /\ SubSeq(whole, 1, m) = [i \in 1..m |-> whole[i]]
        /\ SubSeq(items, 1, m) = [i \in 1..m |-> items[i]]
    BY <2>1
  <2> QED
    BY <2>2, <2>3 DEF whole
<1> QED
  BY <1>1, <1>2

\* The shortest beginning that is enough, or everything.
LEMMA TakeFacts ==
    ASSUME NEW S, \A b \in S : b.nbytes \in Nat, NEW order \in Seq(S), NEW needed \in Nat \ {0}
    PROVE  \E m \in 0..Len(order) :
              /\ Take(order, needed) = SubSeq(order, 1, m)
              /\ m = Len(order) \/ Bytes(SubSeq(order, 1, m)) >= needed
              /\ m > 0 => Bytes(SubSeq(order, 1, m - 1)) < needed
<1> DEFINE enough == {n \in DOMAIN order : Occupancy(SubSeq(order, 1, n)) >= needed}
<1>1. Len(order) \in Nat /\ DOMAIN order = 1..Len(order)
  OBVIOUS
<1>2. \A n \in 1..Len(order) : Bytes(SubSeq(order, 1, n)) \in Nat
  BY BytesPrefix
<1>3. Bytes(SubSeq(order, 1, 0)) = 0
  <2>1. SubSeq(order, 1, 0) = <<>>
    OBVIOUS
  <2> QED
    BY <2>1, EmptyBytes
<1>4. \A n \in 1..Len(order) : n \notin enough => Bytes(SubSeq(order, 1, n)) < needed
  BY <1>1, <1>2 DEF Occupancy
<1>5. Take(order, needed) = IF enough = {} THEN order ELSE SubSeq(order, 1, Min(enough))
  BY DEF Take
<1>6. enough \subseteq 1..Len(order) /\ \A n \in enough : Bytes(SubSeq(order, 1, n)) >= needed
  BY <1>1 DEF Occupancy
<1> HIDE DEF enough
<1>7. CASE enough = {}
  <2>1. SubSeq(order, 1, Len(order)) = order
    BY PrefixFacts, <1>1
  <2>2. Len(order) > 0 => Bytes(SubSeq(order, 1, Len(order) - 1)) < needed
    <3>1. CASE Len(order) = 1
      BY <1>3, <3>1
    <3>2. CASE Len(order) > 1
      <4>1. Len(order) - 1 \in 1..Len(order)
        BY <1>1, <3>2
      <4> QED
        BY <1>4, <1>7, <4>1
    <3> QED
      BY <1>1, <3>1, <3>2
  <2>3. Take(order, needed) = SubSeq(order, 1, Len(order)) /\ Len(order) \in 0..Len(order)
    BY <1>1, <1>5, <1>7, <2>1
  <2> DEFINE m == Len(order)
  <2>4. /\ m \in 0..Len(order) /\ Take(order, needed) = SubSeq(order, 1, m)
        /\ m = Len(order)
        /\ m > 0 => Bytes(SubSeq(order, 1, m - 1)) < needed
    BY <2>2, <2>3
  <2> HIDE DEF m
  <2> QED
    BY <2>4
<1>8. CASE enough # {}
  <2>1. \E n \in enough : \A m \in enough : n <= m
    <3>1. enough \subseteq Nat
      BY <1>1, <1>6
    <3> QED
      BY <1>8, <3>1, NatMin
  <2>2. Min(enough) \in enough /\ \A m \in enough : Min(enough) <= m
    BY <2>1 DEF Min
  <2> DEFINE m == Min(enough)
  <2>3. m \in 1..Len(order) /\ Bytes(SubSeq(order, 1, m)) >= needed
    BY <1>6, <2>2
  <2>4. m - 1 \notin enough
    <3>1. m \in Int /\ \A o \in enough : m <= o
      BY <2>2, <2>3
    <3> HIDE DEF m
    <3> QED
      BY <3>1
  <2>5. Bytes(SubSeq(order, 1, m - 1)) < needed
    <3>1. CASE m = 1
      BY <1>3, <3>1
    <3>2. CASE m # 1
      <4>1. m - 1 \in 1..Len(order)
        BY <1>1, <2>3, <3>2
      <4> QED
        BY <1>4, <2>4, <4>1
    <3> QED
      BY <3>1, <3>2
  <2>6. Take(order, needed) = SubSeq(order, 1, m)
    BY <1>5, <1>8
  <2> HIDE DEF m
  <2>7. m \in 0..Len(order)
    BY <1>1, <2>3
  <2>8. /\ Take(order, needed) = SubSeq(order, 1, m)
        /\ m = Len(order) \/ Bytes(SubSeq(order, 1, m)) >= needed
        /\ m > 0 => Bytes(SubSeq(order, 1, m - 1)) < needed
    BY <2>3, <2>5, <2>6
  <2> QED
    BY <2>7, <2>8
<1> QED
  BY <1>7, <1>8

\* What an evict of needed bytes takes from free: different entries, enough of them or
\* all, none too many, and each after everything that the order puts before it.
Taken(victims, free, needed, probe) ==
    /\ victims \in Seq(Range(free)) /\ Distinct(victims)
    /\ Bytes(victims) >= needed \/ Range(victims) = Range(free)
    /\ victims # <<>> => Bytes(SubSeq(victims, 1, Len(victims) - 1)) < needed
    /\ \A n \in DOMAIN victims : \E j \in DOMAIN free :
          /\ victims[n] = free[j]
          /\ \A i \in DOMAIN free : <<i, j>> \in OrderOf(free, probe) =>
                \E m \in 1..(n - 1) : victims[m] = free[i]

LEMMA OrderTakes ==
    ASSUME policy \in POLICIES, NEW free, NEW probe, Sortable(free, probe),
           NEW needed \in Nat \ {0}
    PROVE  Taken(Take(Order(free, probe), needed), free, needed, probe)
<1> DEFINE ahead == OrderOf(free, probe)
           order == Order(free, probe)
           victims == Take(order, needed)
           N == Len(free)
<1>1. /\ free \in Seq(Range(free)) /\ Distinct(free) /\ N \in Nat /\ DOMAIN free = 1..N
      /\ \A b \in Range(free) : b.nbytes \in Nat
  BY DEF Sortable
<1>2. PICK place : Placed(place, order, free, ahead)
  <2>1. TotalOrder(ahead, N)
    BY OrdersTotal
  <2> HIDE DEF ahead
  <2> QED
    BY <1>1, <2>1, ArrangedPlaces DEF Order, ahead
<1>3. TotalOrder(ahead, N)
  BY OrdersTotal
<1> HIDE DEF ahead, order
<1>4. /\ \A n \in 1..N : place[n] \in 1..N /\ order[n] = free[place[n]]
      /\ \A m, n \in 1..N : m < n => <<place[m], place[n]>> \in ahead
      /\ \A i \in 1..N : \E n \in 1..N : place[n] = i
      /\ order = [n \in 1..N |-> free[place[n]]]
  BY <1>1, <1>2 DEF Placed
<1>5. order \in Seq(Range(free)) /\ Len(order) = N /\ DOMAIN order = 1..N
  <2>1. \A n \in 1..N : free[place[n]] \in Range(free)
    BY <1>1, <1>4 DEF Range
  <2>2. order \in [1..N -> Range(free)]
    BY <1>4, <2>1
  <2> QED
    BY <1>1, <2>2
<1>6. Range(order) = Range(free)
  <2>1. \A i \in 1..N : \E n \in 1..N : order[n] = free[i]
    BY <1>4
  <2>2. \A n \in 1..N : \E i \in 1..N : order[n] = free[i]
    BY <1>4
  <2>3. Range(order) = {order[n] : n \in 1..N} /\ Range(free) = {free[i] : i \in 1..N}
    BY <1>1, <1>5 DEF Range
  <2> QED
    BY <2>1, <2>2, <2>3
<1>7. \A m, n \in 1..N : place[m] = place[n] => m = n
  <2> SUFFICES ASSUME NEW m \in 1..N, NEW n \in 1..N, m # n, place[m] = place[n] PROVE FALSE
    OBVIOUS
  <2>1. m < n \/ n < m
    BY <1>1
  <2> QED
    BY <1>3, <1>4, <2>1 DEF TotalOrder
<1>8. Distinct(order)
  <2> SUFFICES ASSUME NEW m \in 1..N, NEW n \in 1..N, order[m].key = order[n].key
               PROVE  m = n
    BY <1>5 DEF Distinct
  <2>1. free[place[m]].key = free[place[n]].key /\ place[m] \in 1..N /\ place[n] \in 1..N
    BY <1>4
  <2>2. place[m] = place[n]
    BY <1>1, <2>1 DEF Distinct
  <2> QED
    BY <1>7, <2>2
<1>9. PICK m \in 0..N :
          /\ victims = SubSeq(order, 1, m)
          /\ m = N \/ Bytes(SubSeq(order, 1, m)) >= needed
          /\ m > 0 => Bytes(SubSeq(order, 1, m - 1)) < needed
  BY <1>1, <1>5, TakeFacts
<1> HIDE DEF victims
<1>10. /\ victims \in Seq(Range(free)) /\ Distinct(victims)
       /\ m = N => victims = order
  BY <1>5, <1>8, <1>9, PrefixFacts
<1>11. /\ Len(victims) = m /\ DOMAIN victims = 1..m
       /\ \A n \in 1..m : victims[n] = order[n]
       /\ \A n \in 0..m : SubSeq(victims, 1, n) = SubSeq(order, 1, n)
  BY <1>5, <1>9, PrefixElements
<1>12. victims # <<>> => Bytes(SubSeq(victims, 1, Len(victims) - 1)) < needed
  <2> SUFFICES ASSUME victims # <<>>
               PROVE  Bytes(SubSeq(victims, 1, Len(victims) - 1)) < needed
    OBVIOUS
  <2>1. m > 0
    BY <1>10, <1>11
  <2>2. SubSeq(victims, 1, m - 1) = SubSeq(order, 1, m - 1)
    BY <1>1, <1>11, <2>1
  <2> QED
    BY <1>9, <1>11, <2>1, <2>2
<1>13. ASSUME NEW n \in DOMAIN victims
       PROVE  \E j \in DOMAIN free :
                 /\ victims[n] = free[j]
                 /\ \A i \in DOMAIN free : <<i, j>> \in ahead =>
                       \E l \in 1..(n - 1) : victims[l] = free[i]
  <2>0. n \in 1..m /\ n \in 1..N
    BY <1>1, <1>11
  <2>1. n \in 1..m /\ n \in 1..N /\ victims[n] = free[place[n]] /\ place[n] \in DOMAIN free
    BY <1>1, <1>4, <1>11, <2>0
  <2>2. ASSUME NEW i \in DOMAIN free, <<i, place[n]>> \in ahead
        PROVE  \E l \in 1..(n - 1) : victims[l] = free[i]
    <3>1. PICK l \in 1..N : place[l] = i
      BY <1>1, <1>4
    <3>2. ~(n < l) /\ n # l
      BY <1>1, <1>3, <1>4, <2>1, <2>2, <3>1 DEF TotalOrder
    <3>3. l \in 1..(n - 1) /\ l \in 1..m
      BY <1>1, <2>1, <3>1, <3>2
    <3> QED
      BY <1>4, <1>11, <3>1, <3>3
  <2> QED
    BY <2>1, <2>2
<1>14. Bytes(victims) >= needed \/ Range(victims) = Range(free)
  BY <1>6, <1>9, <1>10
<1> QED
  BY <1>10, <1>12, <1>13, <1>14 DEF Taken, victims, order, ahead

\* out is a right answer to evict(held, needed, protected) at t.
Evicted(out, held, needed, protected, t, probe) ==
    /\ Taken(out.victims, Free(held, protected, t), needed, probe)
    /\ out.entries = Off(Expire(held, t), Keys(out.victims))
    /\ Sortable(out.entries, probe)
    /\ Keys(out.entries) = Keys(Expire(held, t)) \ Keys(out.victims)
    /\ Keys(out.victims) \subseteq Keys(Expire(held, t)) \ protected

\* So answers every policy.
LEMMA EvictTakes ==
    ASSUME policy \in POLICIES, NEW held, NEW probe, Sortable(held, probe), NEW protected,
           NEW needed \in Nat \ {0}, NEW t
    PROVE  Evicted(evict(held, needed, protected, t, probe), held, needed, protected, t, probe)
<1> DEFINE out == evict(held, needed, protected, t, probe)
           alive == Expire(held, t)
           free == Free(held, protected, t)
<1>1. /\ out.victims = Take(Order(free, probe), needed)
      /\ out.entries = Off(alive, Keys(out.victims))
  BY DEF evict, Free
<1>2. /\ Sortable(alive, probe) /\ Sortable(free, probe)
      /\ Keys(free) = Keys(alive) \ protected
  BY FreeFacts
<1> HIDE DEF out, alive, free
<1>3. Taken(out.victims, free, needed, probe)
  BY <1>1, <1>2, OrderTakes
<1>4. Sortable(out.entries, probe)
  BY <1>1, <1>2, SortableSublist DEF Off
<1>5. Keys(out.entries) = Keys(alive) \ Keys(out.victims)
  BY <1>1, <1>2, OffFacts DEF Sortable
<1>6. Keys(out.victims) \subseteq Keys(free)
  <2>1. Range(out.victims) \subseteq Range(free)
    BY <1>3 DEF Taken, Range
  <2> QED
    BY <2>1, KeysOfRange
<1> QED
  BY <1>1, <1>2, <1>3, <1>4, <1>5, <1>6 DEF out, alive, free, Evicted

\* No entry that is ahead of a victim is kept.
LEMMA KeptBehind ==
    ASSUME NEW free, NEW probe, Sortable(free, probe),
           NEW needed, NEW victims, Taken(victims, free, needed, probe),
           NEW i \in DOMAIN free, NEW j \in DOMAIN free,
           free[j] \in Range(victims), free[i] \notin Range(victims)
    PROVE  <<i, j>> \notin OrderOf(free, probe)
<1>1. PICK n \in DOMAIN victims : victims[n] = free[j]
  BY DEF Range
<1>2. PICK l \in DOMAIN free :
          /\ victims[n] = free[l]
          /\ \A m \in DOMAIN free : <<m, l>> \in OrderOf(free, probe) =>
                \E o \in 1..(n - 1) : victims[o] = free[m]
  BY DEF Taken
<1>3. l = j
  BY <1>1, <1>2 DEF Sortable, Distinct
<1>4. \A o \in 1..(n - 1) : o \in DOMAIN victims
  BY DEF Taken
<1> QED
  BY <1>2, <1>3, <1>4 DEF Range

\* The oracle keeps nothing that is used later than a victim.
LEMMA OracleTakesFarthest ==
    ASSUME policy = "oracle", NEW free, NEW probe, Sortable(free, probe),
           NEW needed, NEW victims, Taken(victims, free, needed, probe),
           NEW i \in DOMAIN free, NEW j \in DOMAIN free,
           free[j] \in Range(victims), free[i] \notin Range(victims)
    PROVE  probe.next_use[free[i].key] <= probe.next_use[free[j].key]
<1>1. <<i, j>> \notin KeyOrder(free, probe)
  BY KeptBehind DEF OrderOf
<1>2. ~Sooner(KeyCard(free, i, probe), KeyCard(free, j, probe))
  BY <1>1, KeyOrderPairs
<1>3. /\ SortKey(free[i], probe)[1] = -probe.next_use[free[i].key]
      /\ SortKey(free[j], probe)[1] = -probe.next_use[free[j].key]
  BY DEF SortKey
<1>4. ~(SortKey(free[i], probe)[1] < SortKey(free[j], probe)[1])
  BY <1>2 DEF Sooner, Lex, KeyCard
<1>5. probe.next_use[free[i].key] \in Int /\ probe.next_use[free[j].key] \in Int
  BY DEF Sortable, Range
<1> QED
  BY <1>3, <1>4, <1>5

\* A block of adaptive_value's victims ranks before all that are kept: no later than
\* shared blocks, and in its own chain before the blocks above it.
LEMMA VictimRanks ==
    ASSUME policy = "adaptive_value", NEW free, NEW probe, Sortable(free, probe),
           NEW needed, NEW victims, Taken(victims, free, needed, probe),
           NEW i \in DOMAIN free, NEW j \in DOMAIN free,
           free[j] \in Range(victims), free[i] \notin Range(victims)
    PROVE  LET a == Ranked(free, j, probe)
               b == Ranked(free, i, probe)
           IN  /\ a.rank <= b.rank
               /\ ChainOf(free[i].key, probe) = ChainOf(free[j].key, probe) => a.depth >= b.depth
<1> DEFINE a == Ranked(free, j, probe)
           b == Ranked(free, i, probe)
<1>1. /\ a \in ChainCard /\ b \in ChainCard /\ a.at = j /\ b.at = i /\ i # j
      /\ Kin(a, b) /\ Kin(b, a)
      /\ a.head = b.head <=> ChainOf(free[i].key, probe) = ChainOf(free[j].key, probe)
  BY RankedFacts
<1>2. \A m, n \in DOMAIN free :
          <<m, n>> \in OrderOf(free, probe)
             <=> Ahead(Ranked(free, m, probe), Ranked(free, n, probe))
  BY ChainOrderPairs DEF OrderOf
<1>3. ~Ahead(b, a)
  <2>1. <<i, j>> \notin OrderOf(free, probe)
    BY KeptBehind
  <2> QED
    BY <1>2, <2>1
<1> HIDE DEF a, b
<1>4. Ahead(a, b)
  <2>1. Kin(b, b)
    BY DEF Kin
  <2> QED
    BY <1>1, <1>3, <2>1, AheadOrders
<1>5. /\ a.rank <= b.rank
      /\ a.head = b.head => a.depth >= b.depth
  <2>1. ChainBefore(a, b) => a.head # b.head /\ a.rank <= b.rank
    <3>1. ChainBefore(a, b) => a.head # b.head
      <4>1. Kin(a, a) /\ Kin(b, b)
        BY DEF Kin
      <4> QED
        BY <1>1, <4>1, ChainsOrdered
    <3>2. ChainBefore(a, b) => a.rank <= b.rank
      BY <1>1 DEF ChainBefore, Lex, ChainCard
    <3> QED
      BY <3>1, <3>2
  <2>2. Deeper(a, b) => a.head = b.head /\ a.depth >= b.depth /\ a.rank = b.rank
    BY <1>1 DEF Deeper, Lex, Kin, ChainCard
  <2>3. a.rank \in Int /\ b.rank \in Int
    BY <1>1 DEF ChainCard
  <2> QED
    BY <1>4, <2>1, <2>2, <2>3 DEF Ahead
<1> QED
  BY <1>1, <1>5 DEF a, b

\* adaptive_value takes a chain whole before it takes from another.
LEMMA ChainsWhole ==
    ASSUME policy = "adaptive_value", NEW free, NEW probe, Sortable(free, probe),
           NEW needed, NEW victims, Taken(victims, free, needed, probe),
           NEW m \in DOMAIN victims, NEW n \in DOMAIN victims, m < n,
           ChainOf(victims[m].key, probe) # ChainOf(victims[n].key, probe),
           NEW i \in DOMAIN free,
           ChainOf(free[i].key, probe) = ChainOf(victims[m].key, probe)
    PROVE  \E l \in 1..(n - 1) : victims[l] = free[i]
<1> DEFINE card(j) == Ranked(free, j, probe)
<1>1. PICK a \in DOMAIN free :
          /\ victims[m] = free[a]
          /\ \A j \in DOMAIN free : <<j, a>> \in OrderOf(free, probe) =>
                \E l \in 1..(m - 1) : victims[l] = free[j]
  BY DEF Taken
<1>2. PICK b \in DOMAIN free :
          /\ victims[n] = free[b]
          /\ \A j \in DOMAIN free : <<j, b>> \in OrderOf(free, probe) =>
                \E l \in 1..(n - 1) : victims[l] = free[j]
  BY DEF Taken
<1>3. \A j, l \in DOMAIN free :
          /\ card(j) \in ChainCard /\ Kin(card(j), card(l))
          /\ card(j).head = card(l).head
                <=> ChainOf(free[j].key, probe) = ChainOf(free[l].key, probe)
  BY RankedFacts
<1>4. \A j, l \in DOMAIN free : <<j, l>> \in OrderOf(free, probe) <=> Ahead(card(j), card(l))
  BY ChainOrderPairs DEF OrderOf
<1> HIDE DEF card
<1>5. card(a).head # card(b).head /\ card(i).head = card(a).head
  BY <1>1, <1>2, <1>3
<1>6. ~ChainBefore(card(b), card(a))
  <2> SUFFICES ASSUME ChainBefore(card(b), card(a)) PROVE FALSE
    OBVIOUS
  <2>1. PICK l \in 1..(m - 1) : victims[l] = free[b]
    BY <1>1, <1>4 DEF Ahead
  <2>2. l \in DOMAIN victims /\ l # n /\ victims[l] = victims[n]
    BY <1>2, <2>1 DEF Taken
  <2> QED
    BY <2>2 DEF Taken, Distinct
<1>7. ChainBefore(card(a), card(b))
  BY <1>3, <1>5, <1>6, ChainsOrdered
<1>8. ChainBefore(card(i), card(b))
  BY <1>3, <1>5, <1>7, ChainsOrdered
<1> QED
  BY <1>2, <1>4, <1>8 DEF Ahead
================================================================================
