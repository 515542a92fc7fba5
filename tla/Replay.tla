--------------------------------- MODULE Replay ---------------------------------
(***************************************************************************)
(* The trace-driven replay of src/src/acr/replay.py: one step is one turn, *)
(* the whole of Simulator._one.  It composes the prefix index, the HBM     *)
(* pool the engine owns and the host tier whose contents a policy decides. *)
(*                                                                         *)
(* A block takes one byte per token.  The two servers that turn recompute  *)
(* and restore into seconds are not here: no residency decision reads them.*)
(***************************************************************************)
EXTENDS Integers, Sequences, SequencesExt, FiniteSetsExt

CONSTANTS
    Session, Role, BlockTokens, Prompts, SharedSizes, StaleAfter, NoRole,
    FirstTime, LastTime,                        \* PrefixIndex
    HbmCapacity,                                \* HBMTier
    Capacity, BaseTtl, TtlPerByte, ChainTtlPerByte, MinTtl, MaxTtl,
                                                \* TierPolicy
    Policies,     \* policies a replay may be run with
    ThrashWindow, \* thrash_window_s
    Turns,        \* policy -> turns its trace is made of, without their times:
                  \* [session, role, prompt, shared, aborted, eta]
    Gaps,         \* times that may pass between two turns
    MaxTurns,     \* bound on the length of a trace, for model checking
    Densities     \* values that a block's reuse probability may have

NoEta == -1       \* a turn without tool_eta_s

\* A turn of a trace, without its time.
TurnRecord ==
    [session : Session, role : Role, prompt : Prompts, shared : SharedSizes,
     aborted : BOOLEAN, eta : Nat \cup {NoEta}]

ASSUME ReplayAssumption ==
    /\ BlockTokens \in Nat \ {0}
    /\ Prompts \subseteq Nat /\ SharedSizes \subseteq Nat
    /\ {StaleAfter, FirstTime, LastTime, HbmCapacity} \subseteq Nat
    /\ Session \cap Role = {} /\ NoRole \notin Session \cup Role
    /\ Capacity \in Nat \ {0}
    /\ {BaseTtl, TtlPerByte, ChainTtlPerByte, MinTtl, MaxTtl} \subseteq Nat
    /\ \A pol \in Policies : Turns[pol] \subseteq TurnRecord
    /\ MaxTurns \in Nat /\ Gaps \subseteq Nat /\ Densities \subseteq Nat

VARIABLES
    policy,           \* policy of the host tier
    plan,             \* the trace with its times, where the policy sees it ahead
    blocks, session_path, session_role, session_last_seen, invalidations, now,
    pool, used,       \* HBM
    entries,          \* host tier, in insertion order
    next_use,         \* key held -> its next use in the plan
    tool_eta,         \* session -> last reported return time, 0: none
    left_hbm_at,      \* key -> when HBM dropped it last
    left_host_at,     \* key -> when the host tier evicted it last
    thrash, reacquires, demotions,
    turns,            \* number of turns replayed
    last,             \* what the last turn found and what it meant to store
    done              \* the replay has ended

Index == INSTANCE PrefixIndex
Hbm == INSTANCE HBMTier
Host == INSTANCE TierPolicy

\* A policy is built from its name; a name that is not one of these is an error.
ASSUME KnownPolicies == Policies \subseteq Host!POLICIES

indexVars == <<blocks, session_path, session_role, session_last_seen,
               invalidations, now>>
vars == <<policy, plan, indexVars, pool, used, entries, next_use, tool_eta, left_hbm_at, left_host_at,
          thrash, reacquires, demotions, turns, last, done>>

\* Mutant: a stamp is never renewed.
Stamp_Once(f, K, v) ==
    [k \in DOMAIN f \cup K |-> IF k \in DOMAIN f THEN f[k] ELSE v]

\* f with every key of K mapped to v.
Stamp(f, K, v) == [k \in DOMAIN f \cup K |-> IF k \in K THEN v ELSE f[k]]

BytesOf(k) == blocks[k].tokens
TotalBytes(K) == SumFunctionOnSet([k \in DOMAIN blocks |-> BytesOf(k)], K)
HostKeys == Host!Keys(entries)
Path(s) == session_path[s]

(***************************************************************************)
(* What a turn sees                                                        *)
(***************************************************************************)
\* Bytes of the longest path of a session that leases k.
chain_bytes(k) == Max({0} \cup {TotalBytes(Index!Elems(Path(s))) : s \in blocks[k].refs})

\* The longest absence announced by a session with a live lease on k.
session_eta(k) == Max({0} \cup {tool_eta[s] : s \in Index!live_leases(k, now)})

\* The probe handed to the policy once the index has taken the turn in, with p
\* for the reuse probabilities.
ProbeWith(p) ==
    LET K == DOMAIN blocks'
    IN  [density      |-> p,
         leases       |-> [k \in K |-> Index!live_leases(k, now)'],
         depth        |-> [k \in K |-> blocks'[k].depth],
         shared       |-> [k \in K |-> Index!IsShared(k)],
         chain_bytes  |-> [k \in K |-> chain_bytes(k)'],
         session_eta  |-> [k \in K |-> session_eta(k)'],
         next_use     |-> next_use]

\* How far the resident blocks of a path reach: HBM or host, no hole.
Cut(keys) ==
    LET missing == {i \in DOMAIN keys : /\ ~Hbm!contains(keys[i])
                                        /\ keys[i] \notin HostKeys}
    IN  IF missing = {} THEN Len(keys) ELSE Min(missing) - 1

\* Mutant: blocks that are in HBM count as well.
Restored_All(keys) == {keys[i] : i \in 1..Cut(keys)}

\* The blocks of that stretch that have to come from the host.
Restored(keys) == {keys[i] : i \in {j \in 1..Cut(keys) : ~Hbm!contains(keys[j])}}

\* Restored blocks that left HBM a moment ago.
Thrashed(keys, t) ==
    {k \in Restored(keys) :
        k \in DOMAIN left_hbm_at /\ t - left_hbm_at[k] \in 0..ThrashWindow}

(***************************************************************************)
(* What the oracle sees                                                    *)
(***************************************************************************)
\* Every trace of MaxTurns turns.
Traces ==
    {[i \in 1..MaxTurns |->
         [turn |-> steps[i][1],
          t |-> FirstTime + SumFunctionOnSet([j \in 1..MaxTurns |-> steps[j][2]], 1..i)]] :
        steps \in [1..MaxTurns -> Turns[policy] \X Gaps]}

NoUse == LastTime + 1     \* float("inf")

\* The turns of the plan that use a block; the first use at a time later than t.
UsesOf(k) ==
    {i \in DOMAIN plan :
        LET turn == plan[i].turn
        IN  k \in Index!Elems(Index!KeysOf(Index!chain(turn.session, turn.role,
                                                     turn.prompt, turn.shared)))}
NextUse(k, t) == Min({NoUse} \cup {u \in {plan[i].t : i \in UsesOf(k)} : u > t})

\* next_use once a turn is over: the oracle looks ahead for the blocks of the turn.
\* Mutant: for new blocks only.
Refreshed_Fresh(keys, t) ==
    [k \in HostKeys' |-> IF k \in DOMAIN next_use THEN next_use[k] ELSE NextUse(k, t)]
Refreshed(keys, t) ==
    [k \in HostKeys' |-> IF k \in keys THEN NextUse(k, t) ELSE next_use[k]]

(***************************************************************************)
(* Host fill                                                               *)
(***************************************************************************)
\* Mutant: the last block that fits exactly is left out.
Fitting_Strict(items, room) ==
    LET fits == {n \in 0..Len(items) :
                    n = 0 \/ Host!Occupancy(SubSeq(items, 1, n)) < room}
    IN  SubSeq(items, 1, Max(fits))

\* As many of the items, from the first, as the room allows.
Fitting(items, room) ==
    LET fits == {n \in 0..Len(items) :
                    n = 0 \/ Host!Occupancy(SubSeq(items, 1, n)) <= room}
    IN  SubSeq(items, 1, Max(fits))

\* Mutant: room is made although there is enough.
MustEvict_Always(fresh, needed) == fresh # <<>>
MustEvict(fresh, needed) == fresh # <<>> /\ needed > 0

\* The blocks of a path as items.
Items(keys, bytes) == [i \in DOMAIN keys |-> [key |-> keys[i], nbytes |-> bytes[keys[i]]]]

\* The blocks of the path that the tier does not hold, if the policy admits them.
Fresh(keys, bytes, probe) ==
    Host!admit_chain(entries,
        Host!Off(Items(keys, bytes), HostKeys), probe)

FreeRoom == Host!Larger(0, Capacity - Host!Occupancy(entries))

\* One insert after the other.
InsertedAll(held, items, t, probe) ==
    LET upto[n \in 0..Len(items)] ==
            IF n = 0 THEN held
            ELSE Host!insert(upto[n - 1], items[n].key, items[n].nbytes, t, probe)
    IN  upto[Len(items)]

\* The beginning of fresh that fits is inserted.  The room gained by a victim is
\* what the index says it takes now (bytes), not what its entry was charged with.
\* An evict that answered None ends the batch.
Fill(fresh, bytes, t, probe, asked, evicted) ==
    LET none   == asked /\ evicted.victims = <<>>
        gained == SumFunctionOnSet(bytes, Host!Keys(evicted.victims))
        stored == IF none THEN <<>> ELSE Fitting(fresh, FreeRoom + gained)
    IN  [fresh   |-> Host!Keys(fresh),
         refused |-> none,
         victims |-> Host!Keys(evicted.victims),
         stored  |-> Host!Keys(stored),
         entries |-> InsertedAll(evicted.entries, stored, t, probe)]

\* Room is made in one eviction if there is too little.
MakeRoom(fresh, needed, t, probe) ==
    IF MustEvict(fresh, needed)
    THEN Host!evict(entries, needed, Host!Keys(fresh), t, probe)
    ELSE [victims |-> <<>>, entries |-> entries]

Store(fresh, needed, bytes, t, probe) ==
    Fill(fresh, bytes, t, probe, MustEvict(fresh, needed),
         MakeRoom(fresh, needed, t, probe))

StoreFresh(fresh, bytes, t, probe) ==
    Store(fresh, Host!Occupancy(fresh) - FreeRoom, bytes, t, probe)

\* _store_batch_to_host.
StoreBatch(keys, bytes, t, probe) == StoreFresh(Fresh(keys, bytes, probe), bytes, t, probe)

(***************************************************************************)
(* Turns                                                                   *)
(***************************************************************************)
Init ==
    /\ Index!Init
    /\ Hbm!EmptyPool
    /\ policy \in Policies
    /\ plan \in IF policy = "oracle" THEN Traces ELSE {<<>>}
    /\ next_use = [k \in {} |-> 0]
    /\ entries = <<>>
    /\ tool_eta = [s \in Session |-> 0]
    /\ left_hbm_at = [k \in {} |-> 0]
    /\ left_host_at = [k \in {} |-> 0]
    /\ thrash = 0 /\ reacquires = 0 /\ demotions = 0
    /\ turns = 0
    /\ done = FALSE
    /\ last = [served |-> {}, recomputed |-> {}, fresh |-> {}, refused |-> FALSE]

\* The reuse probabilities of the blocks that a decision of this turn compares:
\* any values, and only adaptive_value compares any.
Estimates(keys) ==
    IF policy = "adaptive_value" THEN [keys -> Densities] ELSE {[k \in keys |-> 0]}

\* The host part of a turn: the batch is stored, the whole path touched.
HostFill(keys, t, batch, probe) ==
    /\ entries' = Host!touch(batch.entries, Index!Elems(keys), t, probe)
    /\ next_use' = IF policy = "oracle" THEN Refreshed(Index!Elems(keys), t) ELSE next_use
    /\ left_host_at' = Stamp(left_host_at, batch.victims, t)
    /\ reacquires' = reacquires
           + Cardinality(batch.stored \cap (DOMAIN left_host_at \cup batch.victims))

\* Where the blocks of the turn came from, and what its batch was.
Metric(keys, batch) ==
    LET missed == {keys[i] : i \in (Cut(keys) + 1)..Len(keys)}
    IN  [served |-> Index!Elems(keys) \ missed, recomputed |-> missed,
         fresh |-> batch.fresh, refused |-> batch.refused]

\* The HBM part of a turn: the path is filled in, what it displaces is stamped.
HbmFill(keys, bytes, t) ==
    LET dropped == Hbm!Keys(Hbm!Dropped(Items(keys, bytes), Index!Elems(keys)))
    IN  /\ Hbm!store(Items(keys, bytes), Index!Elems(keys))
        /\ demotions' = demotions + Cardinality(dropped)
        /\ left_hbm_at' = Stamp(left_hbm_at, dropped, t)

Fills(keys, bytes, t) ==
    /\ thrash' = thrash + Cardinality(Thrashed(keys, t))
    /\ HbmFill(keys, bytes, t)
    /\ \E p \in Estimates(Index!Elems(keys) \cup HostKeys) :
       \E probe \in {ProbeWith(p)} :
       \E batch \in {StoreBatch(keys, bytes, t, probe)} :
          /\ HostFill(keys, t, batch, probe)
          /\ last' = Metric(keys, batch)

\* _one: the whole of a turn.
One(turn, t) ==
    /\ Index!touch_path(turn.session, turn.role, turn.prompt, turn.shared, t,
                        turn.aborted)
    /\ tool_eta' = IF turn.eta = NoEta THEN tool_eta
                   ELSE [tool_eta EXCEPT ![turn.session] = turn.eta]
    /\ Fills(session_path'[turn.session], [k \in DOMAIN blocks' |-> blocks'[k].tokens], t)

Turn ==
    /\ ~done /\ UNCHANGED <<policy, plan, done>>
    /\ turns < MaxTurns
    /\ turns' = turns + 1
    /\ \E turn \in Turns[policy], gap \in Gaps :
          /\ now + gap <= LastTime
          /\ plan # <<>> => plan[turns + 1] = [turn |-> turn, t |-> now + gap]
          /\ One(turn, now + gap)

\* The blocks once every session has released its path.
\* Mutant: the first block of a path is forgotten.
Released_NotRoot ==
    [k \in DOMAIN blocks |->
        [blocks[k] EXCEPT !.refs = @ \ {s \in Session : k \in Index!Elems(Path(s))
                                                          /\ k # Path(s)[1]}]]
Released ==
    [k \in DOMAIN blocks |->
        [blocks[k] EXCEPT !.refs = @ \ {s \in Session : k \in Index!Elems(Path(s))}]]

\* The trace is over, at any length unless it is planned: every session releases
\* its leases.
Finish ==
    /\ ~done /\ done' = TRUE
    /\ plan # <<>> => turns = Len(plan)
    /\ blocks' = Released
    /\ session_path' = [s \in Session |-> <<>>]
    /\ session_last_seen' = [s \in Session |-> Index!Unset]
    /\ UNCHANGED <<policy, plan, session_role, invalidations, now, pool, used, entries, next_use, tool_eta,
                   left_hbm_at, left_host_at, thrash, reacquires, demotions,
                   turns, last>>

Next == Turn \/ Finish

Spec == Init /\ [][Next]_vars

(***************************************************************************)
(* Invariants                                                              *)
(***************************************************************************)
HbmKeys == Hbm!Keys(pool)
LastPath == last.served \cup last.recomputed

\* HBMTier!Accounted in the composition, where blocks grow between fills.
HbmAccounted == Hbm!Accounted

\* HBM is over its cap only while everything in it is the path of the last
\* turn, which store may not evict.
HbmBounded == used <= HbmCapacity \/ HbmKeys \subseteq LastPath

\* No tier is charged more for a block than the block takes, and none holds a
\* block the index does not know.
ChargesKnownBlocks ==
    \A b \in ToSet(pool) \cup ToSet(entries) :
        b.key \in DOMAIN blocks /\ b.nbytes <= BytesOf(b.key)

\* The host tier is never over its capacity: a turn stores what fits.
HostFits == Host!Occupancy(entries) <= Capacity

\* Each restore counted as thrash answers a demotion of its own: beside those
\* answered there is one for every demoted block that is still out of HBM.
ThrashAnswersDemotion ==
    thrash + Cardinality(DOMAIN left_hbm_at \ HbmKeys) <= demotions

\* Without lifetimes and without admission control a turn whose path is no
\* larger than the tier lands all its new blocks.
NewBlocksLand ==
    (policy \in {"lru", "lfu", "oracle"} /\ TotalBytes(LastPath) <= Capacity)
        => last.fresh \subseteq HostKeys

\* Whether the tier is larger than the working set; for adaptive_value, whose
\* admission control begins there, whether nine tenths of it are.
Ample ==
    LET total == TotalBytes(DOMAIN blocks)
    IN  IF policy = "adaptive_value" THEN 10 * total < 9 * Capacity ELSE total < Capacity

\* An ample tier keeps everything it was ever shown: no block is refused, evicted
\* or lapsed.
KeepsEverything == Ample => DOMAIN blocks \subseteq HostKeys

\* Once the replay has ended no block is leased any more.
NoLeaseAfterEnd == done => \A k \in DOMAIN blocks : blocks[k].refs = {}

(***************************************************************************)
(* Action properties                                                       *)
(***************************************************************************)
Left == HostKeys \ HostKeys'

RecordedNow(k) == k \in DOMAIN left_host_at' /\ left_host_at'[k] = now'

\* A block that leaves the host tier before its lifetime is over is recorded as
\* having left it, so that a later store of it is counted as a reacquire; and it
\* leaves in no turn whose batch is refused, although evict deletes before it
\* knows whether it can answer.
Recorded ==
    \A e \in ToSet(entries) :
        e.key \in Left =>
            (RecordedNow(e.key) /\ ~last'.refused) \/ Host!Expired(e, now')

DeparturesRecorded == [][Recorded]_vars

\* What an abort has discarded is not served from any tier to the session that
\* discarded it when its path grows over it again.
AbortedNotServed ==
    [][\A k \in invalidations :
          Index!IsShared(k) \/ ~(turns' # turns /\ k \in last'.served)]_vars

\* The sessions that lease k and are live after the step.
LiveAfter(k) == Index!live_leases(k, now)'

\* adaptive_value drops a session's private blocks from the leaf end: none is
\* dropped while a deeper one, known to be its session's only, stays.
LeafFirst ==
    \A k \in Left, survivor \in HostKeys \ Left :
        (/\ k[1] = survivor[1] /\ k[1] \in Session
         /\ LiveAfter(k) = {k[1]} /\ LiveAfter(survivor) = {k[1]})
            => k[2] > survivor[2]

PrivateLeafFirst == [][policy = "adaptive_value" => LeafFirst]_vars

\* adaptive_value drops a block that several live sessions lease only when no
\* private block is left to drop.
SharedLast ==
    (\E k \in Left : Cardinality(LiveAfter(k)) > 1)
        => \A k \in HostKeys \ Left : Index!IsShared(k)

SharedGoLast == [][policy = "adaptive_value" => SharedLast]_vars

\* continuum_ttl: a block does not lapse while a session whose path it is on is
\* still away, by its own announcement, however the leases of the block and the
\* announcements of its other sessions have changed since its lifetime was given.
\* It may still be evicted to make room.
OutlivesAbsence ==
    \A e \in ToSet(entries), s \in Session :
        (/\ e.key \in Index!Elems(Path(s))
         /\ now' < session_last_seen[s] + tool_eta[s])
            => ~Host!Expired(e, now')

NoLapseBeforeReturn == [][policy = "continuum_ttl" => OutlivesAbsence]_vars

\* The next use of a block held, counted from the turn that comes next.
FirstUse(k) == Min({NoUse} \cup {plan[i].t : i \in {u \in UsesOf(k) : u > turns}})

\* A use at the very time the block was used last is overlooked.
Overlooked(e) == FirstUse(e.key) = e.last_touch

\* The oracle knows the next use of every block it holds, of those too that its
\* last turns did not touch.
NextUseKnown ==
    policy = "oracle" =>
        \A e \in ToSet(entries) : next_use[e.key] = FirstUse(e.key) \/ Overlooked(e)

\* It drops no block whose next use is nearer than that of a block it keeps.
FarthestOut ==
    \A v \in {e \in ToSet(entries) : e.key \in Left /\ ~Overlooked(e)},
       k \in HostKeys \ Left :
        FirstUse(v.key) >= FirstUse(k)

FarthestFirst == [][policy = "oracle" => FarthestOut]_vars

\* HBM drops what was used longest ago, by the clock of the index: a hit counts
\* as a use wherever the block is in the pool.
OldestGoFirst ==
    [][\A d \in HbmKeys \ HbmKeys', k \in HbmKeys' :
          blocks[d].last_use <= blocks'[k].last_use]_vars

\* HBM stops as soon as there is room: with the last block dropped, in the order
\* of the pool, still there it would be over its cap.
StopsInTime ==
    LET dropped == {i \in DOMAIN pool : pool[i].key \notin HbmKeys'}
    IN  dropped # {} => used' + pool[Max(dropped)].nbytes > HbmCapacity

StopsWhenEnough == [][StopsInTime]_vars
================================================================================
