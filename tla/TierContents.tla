------------------------------ MODULE TierContents ------------------------------
(***************************************************************************)
(* One host tier under one policy (class TierPolicy of                     *)
(* src/src/acr/policies.py) and any sequence of calls on it.  Replay makes *)
(* some of these calls, in the order of a turn; here their order is free,  *)
(* what the index says of a block is anything, and an evict may protect    *)
(* blocks that are held.                                                   *)
(***************************************************************************)
EXTENDS TierPolicy, SequencesExt

CONSTANTS
    Policies,  \* policies that may be in charge
    Key,       \* blocks
    Sizes,     \* bytes a block may have
    Asks,      \* bytes an evict may be asked for
    Views,     \* what the index may say: the probes, fixed in a behaviour
    LastTime,  \* bound on time, for model checking
    MaxUses    \* bound on the uses of an entry, for model checking

\* Nobody asks a tier for nothing, and the index has an answer for every block.
ASSUME ContentsAssumption ==
    /\ Policies \subseteq POLICIES
    /\ Sizes \subseteq Nat /\ Asks \subseteq Nat \ {0} /\ LastTime \in Nat
    /\ \A view \in Views, k \in Key :
          /\ {view.density[k], view.depth[k], view.chain_bytes[k], view.session_eta[k]}
                \subseteq Nat
          /\ "oracle" \in Policies => view.next_use[k] \in Nat

VARIABLES
    entries,   \* the tier, in insertion order
    probe,     \* what the index says
    now,       \* time of the last call
    asked      \* the last evict: [needed, protected, victims], or none

vars == <<policy, entries, probe, now, asked>>

NotAsked == [needed |-> 0, protected |-> {}, victims |-> <<>>]

Init ==
    /\ policy \in Policies
    /\ entries = <<>>
    /\ probe \in Views
    /\ now = 0
    /\ asked = NotAsked

WornOut(k) == \E i \in DOMAIN entries : entries[i].key = k /\ entries[i].uses = MaxUses

\* Callers store only what the policy admits and what fits; storing a block again
\* takes no more room.
Insert(k, n, t) ==
    LET item == [key |-> k, nbytes |-> n]
    IN  /\ k \in Keys(entries) \/ Occupancy(entries) + n <= Capacity
        /\ ~WornOut(k)
        /\ admit_chain(entries, <<item>>, probe) # <<>>
        /\ entries' = insert(entries, k, n, t, probe)
        /\ asked' = NotAsked

Touch(k, t) ==
    /\ ~WornOut(k)
    /\ entries' = touch(entries, {k}, t, probe)
    /\ asked' = NotAsked

Forget(k) ==
    /\ entries' = remove(entries, k)
    /\ asked' = NotAsked

Evict(needed, protected, t) ==
    LET answer == evict(entries, needed, protected, t, probe)
    IN  /\ entries' = answer.entries
        /\ asked' = [needed |-> needed, protected |-> protected,
                     victims |-> answer.victims]

Next ==
    /\ UNCHANGED <<policy, probe>>
    /\ \E t \in now..LastTime :
          /\ now' = t
          /\ \/ \E k \in Key, n \in Sizes : Insert(k, n, t)
             \/ \E k \in Key : Touch(k, t)
             \/ \E k \in Key : Forget(k)
             \/ \E needed \in Asks, protected \in SUBSET Key :
                    Evict(needed, protected, t)

Spec == Init /\ [][Next]_vars

(***************************************************************************)
(* Properties                                                              *)
(***************************************************************************)
Victims == Keys(asked.victims)
Survivors == Off(entries, asked.protected)

\* An evict frees what it was asked for or leaves only protected entries, and
\* frees nothing beyond the block that made it enough.
FreesEnoughOnly ==
    asked # NotAsked =>
        /\ \/ Occupancy(asked.victims) >= asked.needed
           \/ Survivors = <<>>
        /\ asked.victims # <<>> => Occupancy(Front(asked.victims)) < asked.needed

\* An evict takes no protected entry as a victim and nothing twice, and keeps
\* what it does not take, but for entries that have lapsed.
VictimsArePartition ==
    [][asked' # NotAsked =>
          /\ Victims' \cap asked'.protected = {}
          /\ Len(asked'.victims) = Cardinality(Victims')
          /\ Keys(Expire(entries, now')) = Keys(entries') \cup Victims'
          /\ Keys(entries') \cap Victims' = {}]_vars

\* The candidates of the last evict by chain, as they stood before it.
Candidates == Survivors \o asked.victims
Group(c) == On(Candidates, {k \in Key : ChainOf(k, probe) = c})

\* adaptive_value drops whole chains: a chain is gone before another one loses
\* a block, so at most the last one is cut.
OneChainCut ==
    policy = "adaptive_value" =>
        \A i, j \in DOMAIN asked.victims :
            LET chain(n) == ChainOf(asked.victims[n].key, probe)
            IN  (i < j /\ chain(i) # chain(j)) =>
                    Keys(Group(chain(i))) \subseteq Keys(SubSeq(asked.victims, 1, j - 1))
================================================================================
