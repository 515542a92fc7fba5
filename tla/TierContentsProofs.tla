---------------------------- MODULE TierContentsProofs ----------------------------
(***************************************************************************)
(* Proofs about one host tier, for any policy, any sequence of calls and   *)
(* anything the index may say.  The answer of the last evict is right      *)
(* because the entries it chose among were different blocks, all of a kind *)
(* that can be sorted: that is the invariant.                              *)
(***************************************************************************)
EXTENDS TierContents, TierProofs

KnownView(view) ==
    \A k \in Key :
        /\ {view.density[k], view.depth[k], view.chain_bytes[k], view.session_eta[k]}
              \subseteq Nat
        /\ policy = "oracle" => view.next_use[k] \in Nat

EntryShape == {"key", "nbytes", "last_touch", "uses", "expires_at"}

\* An entry of a block, with times and counts that can be compared.
IsEntry(e) ==
    /\ DOMAIN e = EntryShape
    /\ e.key \in Key /\ e.nbytes \in Nat /\ e.last_touch \in Nat /\ e.uses \in Nat
    /\ e.expires_at \in Int

IsTier(held) ==
    /\ held \in Seq(Range(held)) /\ Distinct(held)
    /\ \A e \in Range(held) : IsEntry(e)

\* The tier is such a list, whoever is in charge and whatever the index says.
ContentsInv ==
    /\ policy \in Policies /\ KnownView(probe) /\ now \in Nat
    /\ IsTier(entries)

LEMMA TierSortable ==
    ASSUME NEW held, IsTier(held), KnownView(probe) PROVE Sortable(held, probe)
BY DEF IsTier, IsEntry, KnownView, Sortable

LEMMA ExpiryInt ==
    ASSUME KnownView(probe), NEW k \in Key, NEW n \in Nat, NEW t \in Nat
    PROVE  expiry(k, n, t, probe) \in Int
<1>1. /\ probe.chain_bytes[k] \in Nat /\ probe.session_eta[k] \in Nat
      /\ BaseTtl \in Nat /\ TtlPerByte \in Nat /\ ChainTtlPerByte \in Nat
      /\ MinTtl \in Nat /\ MaxTtl \in Nat
  BY PolicyAssumption DEF KnownView
<1>2. \A x \in Nat, y \in Nat : x * y \in Nat
  OBVIOUS
<1>3. \A x \in Nat, y \in Nat : Larger(x, y) \in Nat /\ Smaller(x, y) \in Nat
  BY DEF Larger, Smaller
<1>4. CASE policy = "fixed_ttl"
  <2>1. expiry(k, n, t, probe) = t + BaseTtl + TtlPerByte * n
    BY <1>4 DEF expiry
  <2> QED
    BY <1>1, <1>2, <2>1
<1>5. CASE policy = "continuum_ttl"
  <2> DEFINE size == IF probe.chain_bytes[k] = 0 THEN n ELSE probe.chain_bytes[k]
             cost == ChainTtlPerByte * size
             span == Smaller(MaxTtl, Larger(MinTtl, cost))
  <2>1. size \in Nat
    BY <1>1
  <2>2. expiry(k, n, t, probe) = t + span + probe.session_eta[k]
    BY <1>5 DEF expiry
  <2> HIDE DEF size
  <2>3. cost \in Nat
    BY <1>1, <1>2, <2>1
  <2> HIDE DEF cost
  <2>4. span \in Nat
    BY <1>1, <1>3, <2>3
  <2> HIDE DEF span
  <2> QED
    BY <1>1, <2>2, <2>4
<1>6. CASE policy \notin {"fixed_ttl", "continuum_ttl"}
  BY <1>6 DEF expiry, Never
<1> QED
  BY <1>4, <1>5, <1>6

LEMMA InsertKeepsTier ==
    ASSUME KnownView(probe), NEW held, IsTier(held), NEW k \in Key, NEW n \in Nat, NEW t \in Nat
    PROVE  IsTier(insert(held, k, n, t, probe))
<1> DEFINE lapse == expiry(k, n, t, probe)
           new == insert(held, k, n, t, probe)
           item == [key |-> k, nbytes |-> n, last_touch |-> t, uses |-> 1, expires_at |-> lapse]
           met(i) == IF held[i].key = k
                     THEN [held[i] EXCEPT !.last_touch = t, !.uses = @ + 1, !.expires_at = lapse]
                     ELSE held[i]
<1>1. lapse \in Int
  BY ExpiryInt
<1>2. held \in Seq(Range(held)) /\ Distinct(held) /\ Len(held) \in Nat /\ DOMAIN held = 1..Len(held)
  BY DEF IsTier
<1>3. new = IF k \in Keys(held) THEN [i \in DOMAIN held |-> met(i)] ELSE Append(held, item)
  BY DEF insert
<1> HIDE DEF lapse
<1>4. ASSUME NEW i \in DOMAIN held PROVE IsEntry(met(i)) /\ met(i).key = held[i].key
  <2>1. IsEntry(held[i])
    BY DEF IsTier, Range
  <2> QED
    BY <1>1, <2>1 DEF IsEntry, EntryShape
<1>5. IsEntry(item) /\ item.key = k
  BY <1>1 DEF IsEntry, EntryShape
<1> HIDE DEF item, met, new
<1>6. CASE k \in Keys(held)
  <2>1. new = [i \in 1..Len(held) |-> met(i)]
    BY <1>2, <1>3, <1>6
  <2>2. DOMAIN new = 1..Len(held) /\ new \in Seq(Range(new))
    <3>1. new \in [1..Len(held) -> Range(new)]
      BY <2>1 DEF Range
    <3> QED
      BY <1>2, <2>1, <3>1
  <2>3. \A e \in Range(new) : IsEntry(e)
    BY <1>2, <1>4, <2>1 DEF Range
  <2>4. Distinct(new)
    BY <1>2, <1>4, <2>1 DEF Distinct
  <2> QED
    BY <2>2, <2>3, <2>4 DEF IsTier, new
<1>7. CASE k \notin Keys(held)
  <2>1. new = Append(held, item)
    BY <1>3, <1>7
  <2> DEFINE one == <<item>>
             S == Range(held) \cup {item}
  <2>2. new = held \o one
    BY <1>2, <2>1
  <2>3. one \in Seq(S) /\ Distinct(one) /\ Keys(one) = {k} /\ Range(one) = {item}
    BY <1>5 DEF Distinct, Keys, Range
  <2>4. held \in Seq(S)
    BY <1>2 DEF Range
  <2> HIDE DEF one, S
  <2>5. /\ held \o one \in Seq(S) /\ Range(held \o one) = Range(held) \cup Range(one)
        /\ Distinct(held \o one)
    BY <1>2, <1>7, <2>3, <2>4, JoinFacts
  <2>6. Range(new) = S
    BY <2>2, <2>3, <2>5 DEF S
  <2>7. \A e \in Range(new) : IsEntry(e)
    BY <1>5, <2>6 DEF S, IsTier
  <2> QED
    BY <2>2, <2>5, <2>6, <2>7 DEF IsTier, new
<1> QED
  BY <1>6, <1>7

LEMMA TouchKeepsTier ==
    ASSUME KnownView(probe), NEW held, IsTier(held), NEW K, NEW t \in Nat
    PROVE  IsTier(touch(held, K, t, probe))
<1> DEFINE lapse(e) == expiry(e.key, e.nbytes, t, probe)
           met(e) == IF e.key \in K
                     THEN [e EXCEPT !.last_touch = t, !.uses = @ + 1, !.expires_at = lapse(e)]
                     ELSE e
           new == touch(held, K, t, probe)
<1>1. held \in Seq(Range(held)) /\ Distinct(held) /\ Len(held) \in Nat /\ DOMAIN held = 1..Len(held)
  BY DEF IsTier
<1>2. new = [i \in 1..Len(held) |-> met(held[i])]
  BY <1>1 DEF touch
<1>3. ASSUME NEW i \in DOMAIN held PROVE IsEntry(met(held[i])) /\ met(held[i]).key = held[i].key
  <2>1. IsEntry(held[i])
    BY DEF IsTier, Range
  <2>2. lapse(held[i]) \in Int
    BY <2>1, ExpiryInt DEF IsEntry
  <2> HIDE DEF lapse
  <2> QED
    BY <2>1, <2>2 DEF IsEntry, EntryShape
<1> HIDE DEF met, new
<1>4. DOMAIN new = 1..Len(held) /\ new \in Seq(Range(new))
  <2>1. new \in [1..Len(held) -> Range(new)]
    BY <1>2 DEF Range
  <2> QED
    BY <1>1, <1>2, <2>1
<1>5. \A e \in Range(new) : IsEntry(e)
  BY <1>1, <1>2, <1>3 DEF Range
<1>6. Distinct(new)
  BY <1>1, <1>2, <1>3 DEF Distinct
<1> QED
  BY <1>4, <1>5, <1>6 DEF IsTier, new

LEMMA SublistKeepsTier ==
    ASSUME NEW held, IsTier(held), NEW I PROVE IsTier(Sublist(held, I))
<1> DEFINE sub == Sublist(held, I)
<1>1. /\ sub \in Seq(Range(held)) /\ Range(sub) = {held[i] : i \in I \cap DOMAIN held}
      /\ Distinct(sub)
  BY SublistRange, SublistDistinct DEF IsTier
<1> HIDE DEF sub
<1>2. Range(sub) \subseteq Range(held)
  BY <1>1 DEF Range
<1>3. sub \in Seq(Range(sub))
  <2>1. Len(sub) \in Nat /\ sub \in [1..Len(sub) -> Range(sub)]
    BY <1>1 DEF Range
  <2> QED
    BY <2>1
<1> QED
  BY <1>1, <1>2, <1>3 DEF IsTier, sub

(***************************************************************************)
(* What an evict answers                                                   *)
(***************************************************************************)
\* The answer asked of a tier held before it, and what it left.
Answered(answer, left, held, t) ==
    LET free == Free(held, answer.protected, t)
    IN  /\ answer.needed \in Nat \ {0}
        /\ IsTier(held) /\ Sortable(free, probe) /\ Sortable(left, probe)
        /\ Keys(free) = Keys(Expire(held, t)) \ answer.protected
        /\ Taken(answer.victims, free, answer.needed, probe)
        /\ Keys(left) = Keys(Expire(held, t)) \ Keys(answer.victims)
        /\ Keys(answer.victims) \subseteq Keys(Expire(held, t)) \ answer.protected

LEMMA EvictAnswers ==
    ASSUME ContentsInv, NEW needed \in Asks, NEW protected, NEW t \in Nat,
           Evict(needed, protected, t)
    PROVE  /\ Answered(asked', entries', entries, t)
           /\ IsTier(entries')
<1>1. needed \in Nat \ {0} /\ policy \in POLICIES
  BY ContentsAssumption DEF ContentsInv
<1>2. Sortable(entries, probe) /\ IsTier(entries)
  BY TierSortable DEF ContentsInv
<1> DEFINE out == evict(entries, needed, protected, t, probe)
<1>3. /\ entries' = out.entries
      /\ asked' = [needed |-> needed, protected |-> protected, victims |-> out.victims]
  BY DEF Evict
<1>4. Evicted(out, entries, needed, protected, t, probe)
  BY <1>1, <1>2, EvictTakes
<1>5. /\ Sortable(Free(entries, protected, t), probe)
      /\ Keys(Free(entries, protected, t)) = Keys(Expire(entries, t)) \ protected
  BY <1>2, FreeFacts
<1> HIDE DEF out
<1>6. Answered(asked', entries', entries, t)
  BY <1>1, <1>2, <1>3, <1>4, <1>5 DEF Answered, Evicted
<1>7. IsTier(entries')
  BY <1>2, <1>3, <1>4, SublistKeepsTier DEF Off, Expire, Evicted
<1> QED
  BY <1>6, <1>7

LEMMA ContentsInit == ASSUME Init PROVE ContentsInv
<1>1. policy \in Policies /\ probe \in Views /\ entries = <<>> /\ now = 0
  BY DEF Init
<1>2. KnownView(probe)
  BY <1>1, ContentsAssumption DEF KnownView
<1>3. IsTier(entries)
  <2>1. DOMAIN entries = {} /\ Range(entries) = {} /\ entries \in Seq(Range(entries))
    BY <1>1 DEF Range
  <2> QED
    BY <2>1 DEF IsTier, Distinct
<1> QED
  BY <1>1, <1>2, <1>3 DEF ContentsInv

LEMMA ContentsNext == ASSUME ContentsInv, [Next]_vars PROVE ContentsInv'
<1>1. CASE UNCHANGED vars
  BY <1>1 DEF vars, ContentsInv, KnownView, IsTier, IsEntry
<1>2. CASE Next
  <2>1. PICK t \in now..LastTime :
            /\ now' = t
            /\ \/ \E k \in Key, n \in Sizes : Insert(k, n, t)
               \/ \E k \in Key : Touch(k, t)
               \/ \E k \in Key : Forget(k)
               \/ \E needed \in Asks, protected \in SUBSET Key : Evict(needed, protected, t)
    BY <1>2 DEF Next
  <2>2. UNCHANGED <<policy, probe>>
    BY <1>2 DEF Next
  <2>3. t \in Nat /\ KnownView(probe) /\ IsTier(entries)
    BY <2>1, ContentsAssumption DEF ContentsInv
  <2>4. IsTier(entries')
    <3>1. ASSUME NEW k \in Key, NEW n \in Sizes, Insert(k, n, t) PROVE IsTier(entries')
      BY <2>3, <3>1, ContentsAssumption, InsertKeepsTier DEF Insert
    <3>2. ASSUME NEW k \in Key, Touch(k, t) PROVE IsTier(entries')
      BY <2>3, <3>2, TouchKeepsTier DEF Touch
    <3>3. ASSUME NEW k \in Key, Forget(k) PROVE IsTier(entries')
      BY <2>3, <3>3, SublistKeepsTier DEF Forget, remove, Off
    <3>4. ASSUME NEW needed \in Asks, NEW protected \in SUBSET Key, Evict(needed, protected, t)
          PROVE  IsTier(entries')
      BY <2>3, <3>4, EvictAnswers
    <3> QED
      BY <2>1, <3>1, <3>2, <3>3, <3>4
  <2> QED
    BY <2>1, <2>2, <2>3, <2>4 DEF ContentsInv, KnownView, IsTier, IsEntry
<1> QED
  BY <1>1, <1>2

\* The tier stays a list of different blocks that every policy can sort.
THEOREM ContentsHold == Spec => []ContentsInv
<1>1. Init => ContentsInv
  BY ContentsInit
<1>2. ContentsInv /\ [Next]_vars => ContentsInv'
  BY ContentsNext
<1> QED
  BY <1>1, <1>2, PTL DEF Spec

\* A call is an evict with its answer, or it forgets the last answer.
LEMMA Calls ==
    ASSUME ContentsInv, Next
    PROVE  \/ asked' = NotAsked
           \/ Answered(asked', entries', entries, now')
<1>1. PICK t \in now..LastTime :
          /\ now' = t
          /\ \/ \E k \in Key, n \in Sizes : Insert(k, n, t)
             \/ \E k \in Key : Touch(k, t)
             \/ \E k \in Key : Forget(k)
             \/ \E needed \in Asks, protected \in SUBSET Key : Evict(needed, protected, t)
  BY DEF Next
<1>2. t \in Nat
  BY <1>1, ContentsAssumption DEF ContentsInv
<1>3. ASSUME NEW needed \in Asks, NEW protected \in SUBSET Key, Evict(needed, protected, t)
      PROVE  Answered(asked', entries', entries, now')
  BY <1>1, <1>2, <1>3, EvictAnswers
<1>4. ASSUME NEW k \in Key, NEW n \in Sizes, Insert(k, n, t) PROVE asked' = NotAsked
  BY <1>4 DEF Insert
<1>5. ASSUME NEW k \in Key, Touch(k, t) \/ Forget(k) PROVE asked' = NotAsked
  BY <1>5 DEF Touch, Forget
<1> QED
  BY <1>1, <1>3, <1>4, <1>5

LEMMA AnswerPartitions ==
    ASSUME NEW answer, NEW left, NEW held, NEW t, Answered(answer, left, held, t)
    PROVE  /\ Keys(answer.victims) \cap answer.protected = {}
           /\ Len(answer.victims) = Cardinality(Keys(answer.victims))
           /\ Keys(Expire(held, t)) = Keys(left) \cup Keys(answer.victims)
           /\ Keys(left) \cap Keys(answer.victims) = {}
<1>1. Len(answer.victims) = Cardinality(Keys(answer.victims))
  <2> DEFINE free == Free(held, answer.protected, t)
  <2>1. answer.victims \in Seq(Range(free)) /\ Distinct(answer.victims)
    BY DEF Answered, Taken
  <2> HIDE DEF free
  <2> QED
    BY <2>1, DistinctCount
<1> QED
  BY <1>1 DEF Answered

\* Every evict divides what has not lapsed into its victims and what stays, takes
\* nothing twice and nothing protected.
THEOREM VictimsPartition == Spec => VictimsArePartition
<1>1. ContentsInv /\ [Next]_vars =>
        [asked' # NotAsked =>
            /\ Victims' \cap asked'.protected = {}
            /\ Len(asked'.victims) = Cardinality(Victims')
            /\ Keys(Expire(entries, now')) = Keys(entries') \cup Victims'
            /\ Keys(entries') \cap Victims' = {}]_vars
  <2> SUFFICES ASSUME ContentsInv, Next, asked' # NotAsked
               PROVE  /\ Victims' \cap asked'.protected = {}
                      /\ Len(asked'.victims) = Cardinality(Victims')
                      /\ Keys(Expire(entries, now')) = Keys(entries') \cup Victims'
                      /\ Keys(entries') \cap Victims' = {}
    OBVIOUS
  <2>1. Answered(asked', entries', entries, now')
    BY Calls
  <2>2. Victims' = Keys(asked'.victims)
    BY DEF Victims
  <2> QED
    BY <2>1, <2>2, AnswerPartitions
<1> QED
  BY <1>1, ContentsHold, PTL DEF Spec, VictimsArePartition

LEMMA AnswerIsEnough ==
    ASSUME NEW answer, NEW left, NEW held, NEW t, Answered(answer, left, held, t)
    PROVE  /\ \/ Occupancy(answer.victims) >= answer.needed
              \/ Off(left, answer.protected) = <<>>
           /\ answer.victims # <<>> => Occupancy(Front(answer.victims)) < answer.needed
<1> DEFINE free == Free(held, answer.protected, t)
           kept == Off(left, answer.protected)
<1>1. /\ Bytes(answer.victims) >= answer.needed \/ Range(answer.victims) = Range(free)
      /\ answer.victims # <<>> =>
            Bytes(SubSeq(answer.victims, 1, Len(answer.victims) - 1)) < answer.needed
  BY DEF Answered, Taken
<1>2. ASSUME Range(answer.victims) = Range(free) PROVE kept = <<>>
  <2>1. Keys(answer.victims) = Keys(free)
    BY <1>2, KeysOfRange
  <2>2. Keys(left) \ answer.protected = {}
    BY <2>1 DEF Answered
  <2>3. kept \in Seq(Range(left)) /\ Keys(kept) = Keys(left) \ answer.protected
    BY OffFacts DEF Answered, Sortable
  <2> HIDE DEF kept
  <2>4. DOMAIN kept = {}
    BY <2>2, <2>3 DEF Keys
  <2> QED
    BY <2>3, <2>4
<1> QED
  BY <1>1, <1>2 DEF Occupancy, Front

\* An evict frees what it was asked for or leaves only protected entries, and frees
\* nothing beyond the block that made it enough.
THEOREM EvictFreesEnoughOnly == Spec => []FreesEnoughOnly
<1>1. Init => FreesEnoughOnly
  BY DEF Init, FreesEnoughOnly
<1>2. ContentsInv /\ FreesEnoughOnly /\ [Next]_vars => FreesEnoughOnly'
  <2> SUFFICES ASSUME ContentsInv, FreesEnoughOnly, [Next]_vars PROVE FreesEnoughOnly'
    OBVIOUS
  <2>1. CASE UNCHANGED vars
    BY <2>1 DEF vars, FreesEnoughOnly, Survivors
  <2>2. CASE asked' = NotAsked
    BY <2>2 DEF FreesEnoughOnly
  <2>3. CASE Answered(asked', entries', entries, now')
    <3>1. Survivors' = Off(entries', asked'.protected)
      BY DEF Survivors
    <3> QED
      BY <2>3, <3>1, AnswerIsEnough DEF FreesEnoughOnly
  <2> QED
    BY <2>1, <2>2, <2>3, Calls
<1> QED
  BY <1>1, <1>2, ContentsHold, PTL DEF Spec

\* A candidate of a chain that lost a block before the n-th victim went before it too,
\* if the n-th is of another chain.
LEMMA CandidateGone ==
    ASSUME policy = "adaptive_value",
           NEW answer, NEW left, NEW held, NEW t, Answered(answer, left, held, t),
           NEW m \in DOMAIN answer.victims, NEW n \in DOMAIN answer.victims, m < n,
           ChainOf(answer.victims[m].key, probe) # ChainOf(answer.victims[n].key, probe),
           NEW k \in Keys(Off(left, answer.protected)) \cup Keys(answer.victims),
           ChainOf(k, probe) = ChainOf(answer.victims[m].key, probe)
    PROVE  k \in Keys(SubSeq(answer.victims, 1, n - 1))
<1> DEFINE free == Free(held, answer.protected, t)
           victims == answer.victims
<1>1. /\ Sortable(free, probe) /\ Taken(victims, free, answer.needed, probe)
      /\ victims \in Seq(Range(free))
  BY DEF Answered, Taken
<1>2. Keys(Off(left, answer.protected)) = Keys(left) \ answer.protected
  BY OffFacts DEF Answered, Sortable
<1>3. k \in Keys(free)
  <2>1. Keys(left) \ answer.protected \subseteq Keys(free)
    BY DEF Answered
  <2>2. Keys(victims) \subseteq Keys(free)
    BY DEF Answered
  <2> QED
    BY <1>2, <2>1, <2>2
<1> HIDE DEF free
<1>4. PICK i \in DOMAIN free : free[i].key = k
  BY <1>3 DEF Keys
<1>5. PICK l \in 1..(n - 1) : victims[l] = free[i]
  <2>1. m \in DOMAIN victims /\ n \in DOMAIN victims
    OBVIOUS
  <2>2. ChainOf(victims[m].key, probe) # ChainOf(victims[n].key, probe)
    OBVIOUS
  <2>3. ChainOf(free[i].key, probe) = ChainOf(victims[m].key, probe)
    BY <1>4
  <2> HIDE DEF victims
  <2> QED
    BY <1>1, <2>1, <2>2, <2>3, ChainsWhole
<1>6. n - 1 \in 0..Len(victims) /\ l \in 1..(n - 1)
  BY <1>1
<1>7. /\ DOMAIN SubSeq(victims, 1, n - 1) = 1..(n - 1)
      /\ SubSeq(victims, 1, n - 1)[l] = victims[l]
  BY <1>1, <1>6, PrefixElements
<1> QED
  BY <1>4, <1>5, <1>7 DEF Keys

\* adaptive_value cuts at most one chain: the others it took blocks of are gone.
THEOREM OneChainIsCut == Spec => []OneChainCut
<1>1. Init => OneChainCut
  BY DEF Init, OneChainCut, NotAsked
<1>2. ContentsInv /\ OneChainCut /\ [Next]_vars => OneChainCut'
  <2> SUFFICES ASSUME ContentsInv, OneChainCut, [Next]_vars PROVE OneChainCut'
    OBVIOUS
  <2>1. CASE UNCHANGED vars
    BY <2>1 DEF vars, OneChainCut, Group, Candidates, Survivors
  <2>2. CASE asked' = NotAsked
    BY <2>2 DEF OneChainCut, NotAsked
  <2>3. CASE Next /\ Answered(asked', entries', entries, now')
    <3>1. policy' = policy /\ probe' = probe
      BY <2>3 DEF Next
    <3> DEFINE victims == asked'.victims
               kept == Off(entries', asked'.protected)
               both == kept \o victims
    <3>2. /\ entries' \in Seq(Range(entries')) /\ Range(entries') \subseteq Range(entries')
          /\ victims \in Seq(Range(victims))
      <4>1. victims \in Seq(Range(Free(entries, asked'.protected, now')))
        BY <2>3 DEF Answered, Taken
      <4>2. victims \in [1..Len(victims) -> Range(victims)] /\ Len(victims) \in Nat
        BY <4>1 DEF Range
      <4> QED
        BY <2>3, <4>2 DEF Answered, Sortable
    <3>3. kept \in Seq(Range(entries'))
      BY <3>2, OffFacts
    <3> DEFINE S == Range(entries') \cup Range(victims)
    <3> HIDE DEF kept, victims
    <3>4. kept \in Seq(S) /\ victims \in Seq(S)
      BY <3>2, <3>3
    <3> HIDE DEF S
    <3>5. both \in Seq(S) /\ Keys(both) = Keys(kept) \cup Keys(victims)
      BY <3>4, JoinFacts
    <3>6. Candidates' = both
      BY DEF Candidates, Survivors, kept, victims
    <3> HIDE DEF both
    <3> DEFINE group(c) == On(both, {l \in Key : ChainOf(l, probe) = c})
    <3>7. ASSUME NEW c, NEW k \in Keys(group(c))
          PROVE  k \in Keys(kept) \cup Keys(victims) /\ ChainOf(k, probe) = c
      <4> DEFINE I == {i \in DOMAIN both : both[i].key \in {l \in Key : ChainOf(l, probe) = c}}
      <4>1. group(c) = Sublist(both, I)
        BY DEF On
      <4>2. Range(Sublist(both, I)) = {both[i] : i \in I \cap DOMAIN both}
        BY <3>5, SublistRange
      <4>3. PICK b \in Range(Sublist(both, I)) : b.key = k
        BY <3>7, <4>1, KeysOfRange
      <4>4. PICK i \in I \cap DOMAIN both : b = both[i]
        BY <4>2, <4>3
      <4>5. k = both[i].key /\ k \in Keys(both)
        BY <4>3, <4>4 DEF Keys
      <4>6. ChainOf(k, probe) = c
        BY <4>4, <4>5
      <4> QED
        BY <3>5, <4>5, <4>6
    <3> HIDE DEF group
    <3> SUFFICES ASSUME policy = "adaptive_value",
                        NEW i \in DOMAIN victims, NEW j \in DOMAIN victims, i < j,
                        ChainOf(victims[i].key, probe) # ChainOf(victims[j].key, probe),
                        NEW k \in Keys(group(ChainOf(victims[i].key, probe)))
                 PROVE  k \in Keys(SubSeq(victims, 1, j - 1))
      BY <3>1, <3>6 DEF OneChainCut, Group, victims, group
    <3>8. k \in Keys(kept) \cup Keys(victims) /\ ChainOf(k, probe) = ChainOf(victims[i].key, probe)
      BY <3>7
    <3> QED
      BY <2>3, <3>1, <3>8, CandidateGone DEF victims, kept
  <2> QED
    BY <2>1, <2>2, <2>3, Calls
<1> QED
  BY <1>1, <1>2, ContentsHold, PTL DEF Spec
================================================================================
