------------------------------- MODULE TierPolicy -------------------------------
(***************************************************************************)
(* The residency policies of src/src/acr/policies.py as functions of a     *)
(* tier's entries.  Entries are a sequence in the insertion order of the   *)
(* dict that holds them, which is what breaks the ties of every sort.      *)
(*                                                                         *)
(* A probe is the view of the index a policy may consult, one function of  *)
(* keys per question: leases (live sessions), depth, shared, chain_bytes,  *)
(* session_eta, density, the reuse probability that adaptive_value ranks   *)
(* by, up to its constant factor of seconds saved per byte, and next_use,  *)
(* which the code keeps in the entries of the oracle's tier.               *)
(***************************************************************************)
EXTENDS ItemLists, FiniteSetsExt

CONSTANTS
    Capacity,        \* capacity of the tier in bytes
    BaseTtl,         \* fixed_ttl: seconds granted to any block
    TtlPerByte,      \* fixed_ttl: seconds added per byte
    ChainTtlPerByte, \* continuum_ttl: k times the cost of recomputing a byte
    MinTtl, MaxTtl   \* continuum_ttl: bounds of the cost term

ASSUME PolicyAssumption ==
    /\ Capacity \in Nat \ {0}
    /\ {BaseTtl, TtlPerByte, ChainTtlPerByte, MinTtl, MaxTtl} \subseteq Nat

VARIABLE policy      \* name of the policy in charge; no step changes it

POLICIES == {"lru", "lfu", "fixed_ttl", "continuum_ttl", "adaptive_value", "oracle"}

Never == -1     \* expires_at of a policy without lifetimes

Occupancy(entries) == Bytes(entries)
Larger(a, b) == IF a > b THEN a ELSE b
Smaller(a, b) == IF a < b THEN a ELSE b

(***************************************************************************)
(* Lifetimes                                                               *)
(***************************************************************************)
\* Mutant: the announced return is forgotten.
expiry_NoEta(key, nbytes, now, probe) ==
    now + Smaller(MaxTtl, Larger(MinTtl, ChainTtlPerByte * probe.chain_bytes[key]))
expiry(key, nbytes, now, probe) ==
    CASE policy = "fixed_ttl" -> now + BaseTtl + TtlPerByte * nbytes
      [] policy = "continuum_ttl" ->
            LET held == IF probe.chain_bytes[key] = 0 THEN nbytes
                        ELSE probe.chain_bytes[key]
            IN  now + Smaller(MaxTtl, Larger(MinTtl, ChainTtlPerByte * held))
                    + probe.session_eta[key]
      [] OTHER -> Never

Expired(e, now) == e.expires_at # Never /\ e.expires_at <= now

\* Only the policies whose evict calls _expire ever drop a lapsed entry.
Expire(entries, now) ==
    Sublist(entries, {i \in DOMAIN entries : ~Expired(entries[i], now)})

(***************************************************************************)
(* insert and touch                                                        *)
(***************************************************************************)
\* A key held already keeps the size it was stored with, but its lifetime is
\* that of the size offered now.
insert(entries, key, nbytes, now, probe) ==
    LET lapse == expiry(key, nbytes, now, probe)
    IN  IF key \in Keys(entries)
        THEN [i \in DOMAIN entries |->
                 IF entries[i].key = key
                 THEN [entries[i] EXCEPT !.last_touch = now, !.uses = @ + 1,
                                         !.expires_at = lapse]
                 ELSE entries[i]]
        ELSE Append(entries, [key |-> key, nbytes |-> nbytes, last_touch |-> now,
                              uses |-> 1, expires_at |-> lapse])

\* One touch of every entry whose key is in keys.
touch(entries, keys, now, probe) ==
    [i \in DOMAIN entries |->
        IF entries[i].key \in keys
        THEN [entries[i] EXCEPT !.last_touch = now, !.uses = @ + 1,
                                !.expires_at = expiry(entries[i].key, entries[i].nbytes,
                                                      now, probe)]
        ELSE entries[i]]

remove(entries, key) == Off(entries, {key})

(***************************************************************************)
(* Eviction order                                                          *)
(***************************************************************************)
Lex(a, b, a2, b2) == a < b \/ (a = b /\ a2 < b2)

\* seq in the order that ahead, a set of pairs, makes of its positions: the n-th has
\* n - 1 of them ahead of it.
Arranged(seq, ahead) ==
    LET rank == [i \in DOMAIN seq |->
                    Cardinality({j \in DOMAIN seq : <<j, i>> \in ahead})]
    IN  [n \in DOMAIN seq |-> seq[CHOOSE i \in DOMAIN seq : rank[i] = n - 1]]

\* What the policies but adaptive_value sort by, least first.  The oracle's first is
\* the block used next the latest.
\* Mutant: the oracle's is the one used next the soonest.
SortKey_Nearest(e, probe) ==
    CASE policy = "lru" -> <<e.last_touch, 0>>
      [] policy = "lfu" -> <<e.uses, e.last_touch>>
      [] policy \in {"fixed_ttl", "continuum_ttl"} -> <<e.expires_at, e.last_touch>>
      [] policy = "oracle" -> <<probe.next_use[e.key], e.last_touch>>
SortKey(e, probe) ==
    CASE policy = "lru" -> <<e.last_touch, 0>>
      [] policy = "lfu" -> <<e.uses, e.last_touch>>
      [] policy \in {"fixed_ttl", "continuum_ttl"} -> <<e.expires_at, e.last_touch>>
      [] policy = "oracle" -> <<-probe.next_use[e.key], e.last_touch>>

\* The sort is stable: entries with the same key keep their order.
Sooner(a, b) ==
    \/ Lex(a.by[1], b.by[1], a.by[2], b.by[2])
    \/ a.by = b.by /\ a.at < b.at

KeyOrder(entries, probe) ==
    LET keyed == {[at |-> i, by |-> SortKey(entries[i], probe)] : i \in DOMAIN entries}
        pairs == {p \in keyed \X keyed : Sooner(p[1], p[2])}
    IN  {<<p[1].at, p[2].at>> : p \in pairs}

\* The chain a block is evicted with: all blocks with the same single live
\* lease together, any other block alone.
ChainOf(key, probe) ==
    LET live == probe.leases[key]
    IN  IF Cardinality(live) = 1 THEN <<"session", live>> ELSE <<"block", {key}>>

\* The entries of the chain of the i-th.
ChainAt(entries, i, probe) ==
    {j \in DOMAIN entries : ChainOf(entries[j].key, probe) = ChainOf(entries[i].key, probe)}

\* Bytes weighted by density, of the items at I; divided by their bytes it is the
\* average density of the group.
Worth(items, I, probe) ==
    SumFunctionOnSet([i \in DOMAIN items |-> items[i].nbytes * probe.density[items[i].key]], I)

\* Chains made of shared blocks only rank behind the others.
\* Mutant: no chain does.
SharedRank_None(items, I, probe) == 0
SharedRank(items, I, probe) == IF \A i \in I : probe.shared[items[i].key] THEN 1 ELSE 0

\* What adaptive_value knows of the entry at i and of its chain, whose head is where
\* the chain is met.
Ranked(entries, i, probe) ==
    LET chain == ChainAt(entries, i, probe)
    IN  [at    |-> i,
         depth |-> probe.depth[entries[i].key],
         head  |-> Min(chain),
         rank  |-> SharedRank(entries, chain, probe),
         worth |-> Worth(entries, chain, probe),
         bytes |-> SumFunctionOnSet([j \in DOMAIN entries |-> entries[j].nbytes], chain)]

\* Chains of shared blocks last, the least dense chain first.
ChainBefore(a, b) ==
    LET worthA == a.worth * Larger(1, b.bytes)
        worthB == b.worth * Larger(1, a.bytes)
    IN  \/ Lex(a.rank, b.rank, worthA, worthB)
        \/ a.rank = b.rank /\ worthA = worthB /\ a.head < b.head

\* Within a chain the deepest block first.
\* Mutant: the block nearest the root.
Deeper_Reversed(a, b) == a.head = b.head /\ Lex(a.depth, b.depth, a.at, b.at)
Deeper(a, b) == a.head = b.head /\ Lex(b.depth, a.depth, a.at, b.at)

\* Mutant: blocks compared one by one.
ChainOrder_ByBlock(entries, probe) ==
    {p \in (DOMAIN entries) \X (DOMAIN entries) :
        Lex(probe.density[entries[p[1]].key], probe.density[entries[p[2]].key],
            p[1], p[2])}
ChainOrder(entries, probe) ==
    LET ranked == {Ranked(entries, i, probe) : i \in DOMAIN entries}
        pairs == {p \in ranked \X ranked : ChainBefore(p[1], p[2]) \/ Deeper(p[1], p[2])}
    IN  {<<p[1].at, p[2].at>> : p \in pairs}

OrderOf(entries, probe) ==
    IF policy = "adaptive_value" THEN ChainOrder(entries, probe) ELSE KeyOrder(entries, probe)
Order(entries, probe) == Arranged(entries, OrderOf(entries, probe))

\* Mutant: exactly enough is taken for too little.
Take_Strict(order, needed) ==
    LET enough == {n \in DOMAIN order : Occupancy(SubSeq(order, 1, n)) > needed}
    IN  IF enough = {} THEN order ELSE SubSeq(order, 1, Min(enough))

\* The shortest beginning of an order that frees enough, or all of it.
Take(order, needed) ==
    LET enough == {n \in DOMAIN order : Occupancy(SubSeq(order, 1, n)) >= needed}
    IN  IF enough = {} THEN order ELSE SubSeq(order, 1, Min(enough))

(***************************************************************************)
(* evict and admit_chain                                                   *)
(***************************************************************************)
\* Mutants: protected entries may be taken; victims are not deleted.
evict_Unprotected(entries, needed, protected, now, probe) ==
    LET alive == Expire(entries, now)
        victims == Take(Order(alive, probe), needed)
    IN  [victims |-> victims,
         entries |-> Off(alive, Keys(victims))]
evict_NotDeleted(entries, needed, protected, now, probe) ==
    LET alive == Expire(entries, now)
        free == Off(alive, protected)
    IN  [victims |-> Take(Order(free, probe), needed), entries |-> alive]

\* What evict(needed, protected) does to the entries.  An empty victim list is
\* the None of the code; lapsed entries are gone whether it is None or not.
evict(entries, needed, protected, now, probe) ==
    LET alive == Expire(entries, now)
        victims == Take(Order(Off(alive, protected), probe), needed)
    IN  [victims |-> victims,
         entries |-> Off(alive, Keys(victims))]

\* adaptive_value refuses a chain that is worth less, on average, than the
\* worst entry held, once the tier is nine tenths full; the others admit all.
Admits(entries, items, probe) ==
    \/ policy # "adaptive_value"
    \/ 10 * Occupancy(entries) < 9 * Capacity
    \/ entries = <<>>
    \/ LET worst == Min({probe.density[k] : k \in Keys(entries)})
       IN  Worth(items, DOMAIN items, probe) >= worst * Occupancy(items)

admit_chain(entries, items, probe) ==
    IF Admits(entries, items, probe) THEN items ELSE <<>>
================================================================================
