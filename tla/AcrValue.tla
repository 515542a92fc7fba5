-------------------------------- MODULE AcrValue ---------------------------------
(***************************************************************************)
(* AcrValuePolicy of src/src/acr/vllm/policy.py under the engine's offload *)
(* manager.  Each action is one call of the manager with every call it     *)
(* makes of the policy; transfers end later, in any order, well or badly.  *)
(*                                                                         *)
(* Every block has the same size, so score() is the weight of the block    *)
(* times (p * Gain - Rent * blocks held), up to a constant factor.  p, the *)
(* reuse probability, is any value of Probs where the block's intervals    *)
(* decide it, and the one that its leases make for a block that has none.  *)
(***************************************************************************)
EXTENDS OffloadManager

CONSTANTS
    Weights,    \* role -> role_weight, as integers
    Gain,       \* seconds saved per unit of probability, io charge deducted
    Rent,       \* charge of a block per block held: lambda_mem and pressure
    LeaseProbs, \* leases -> reuse_prob of a block without intervals
    Probs,      \* values that reuse_prob may have where there are intervals
    Hints,      \* what the gateway stamps: [role, eta, leases], or NoHints
    NoHints,
    Roles,
    LastTime,   \* bound on the clock, for model checking
    MaxCalls    \* bound on the calls that start something, for model checking

MaxLeases == 8  \* more leases than these count for no more

ASSUME ValueAssumption ==
    /\ Weights \in [Roles -> Nat \ {0}]
    /\ {Gain, Rent} \subseteq Nat /\ Probs \subseteq Nat
    /\ LeaseProbs \in [1..MaxLeases -> Nat]
    /\ \A m, n \in 1..MaxLeases : m < n => LeaseProbs[m] < LeaseProbs[n]
    /\ NoHints \notin [role : Roles, eta : Nat, leases : Nat]
    /\ Hints \subseteq [role : Roles, eta : Nat, leases : Nat] \cup {NoHints}

VARIABLES
    evictable,  \* keys that evict may return
    meta,       \* key -> what score() needs to know of the block
    pinned,     \* keys taken out of evictable by hand, until next marked
    now,        \* time.monotonic()
    calls       \* number of calls made

vars == <<blocks, evictable, meta, pinned, now, calls>>

Unit == 10      \* weight 1.0

\* meta of a new block; iat_known: the smoothed interval is positive, as after any use that came
\* later than the one before it.
Fresh == [last_use |-> now, uses |-> 0, iat_known |-> FALSE, leases |-> 1, weight |-> Unit]

Lesser(a, b) == IF a < b THEN a ELSE b

(***************************************************************************)
(* The policy                                                              *)
(***************************************************************************)
\* touch() of one block.
Touched(m, hints) ==
    LET seen == [m EXCEPT !.last_use = now, !.uses = @ + 1,
                          !.iat_known = @ \/ now > m.last_use]
    IN  IF hints = NoHints THEN seen
        ELSE [seen EXCEPT !.weight = Weights[hints.role],
                          !.last_use = Lesser(now + hints.eta, now),
                          !.leases = IF hints.leases = 0 THEN @ ELSE hints.leases]

\* Mutant: a key that the tier does not hold is recorded.
touch_Unknown(keys, hints) ==
    meta' = [k \in DOMAIN meta \cup keys |->
                IF k \in keys \cap DOMAIN meta THEN Touched(meta[k], hints)
                ELSE IF k \in keys THEN Fresh ELSE meta[k]]
touch(keys, hints) ==
    meta' = [k \in DOMAIN meta |-> IF k \in keys THEN Touched(meta[k], hints) ELSE meta[k]]

\* The leases that count: one at least, for a block that nobody has stamped.
Sessions(m) == IF m.leases < 1 THEN 1 ELSE Lesser(m.leases, MaxLeases)

\* The values reuse_prob may return.
\* Mutant: the leases are not aggregated.
ProbsOf_OneLease(m) == IF m.iat_known THEN Probs ELSE {LeaseProbs[1]}
ProbsOf(m) == IF m.iat_known THEN Probs ELSE {LeaseProbs[Sessions(m)]}

\* Estimates of all blocks of K.
Estimates(K) ==
    {p \in [K -> UNION {ProbsOf(meta[k]) : k \in K}] : \A k \in K : p[k] \in ProbsOf(meta[k])}

score(k, p) == meta[k].weight * (p[k] * Gain - Rent * Cardinality(Held))

\* The order of evict: score, then recency, then reuse, all ascending.
\* Mutant: score alone.
Before_ScoreOnly(k, j, p) == score(k, p) < score(j, p)
Before(k, j, p) ==
    \/ score(k, p) < score(j, p)
    \/ score(k, p) = score(j, p) /\ meta[k].last_use < meta[j].last_use
    \/ score(k, p) = score(j, p) /\ meta[k].last_use = meta[j].last_use
                                  /\ meta[k].uses < meta[j].uses

\* The answers evict(n, protected) may give: the n least candidates, ties in any
\* order, since a set is sorted.  No answer: None.
\* Mutant: a block in use is a candidate.
evict_Busy(n, protected) ==
    {V \in SUBSET (Held \ protected) : Cardinality(V) = n}
evict(n, protected) ==
    LET candidates == evictable \ protected
    IN  UNION {{V \in SUBSET candidates :
                  /\ Cardinality(V) = n
                  /\ \A v \in V, c \in candidates \ V : ~Before(c, v, p)} :
               p \in Estimates(candidates)}

(***************************************************************************)
(* The calls of the manager                                                *)
(***************************************************************************)
Init ==
    /\ blocks = <<>> /\ evictable = {} /\ meta = <<>> /\ pinned = {}
    /\ now = 1 /\ calls = 0

Call == calls < MaxCalls /\ calls' = calls + 1

\* evict, remove of each victim, then insert of each new key: not evictable
\* while its reference count is that of a block in flight.
\* Mutant: insert does not look at the reference count.
Inserted_Evictable(keys, victims) == (evictable \ victims) \cup KeysToStore(keys)
Inserted(keys, victims) == evictable \ victims

PrepareStore(keys) ==
    /\ Call
    /\ KeysToStore(keys) # {}
    /\ \E victims \in evict(Shortfall(keys), keys) :
          /\ prepare_store(keys, victims)
          /\ evictable' = Inserted(keys, victims)
          /\ meta' = Extended(Without(meta, victims), KeysToStore(keys), Fresh)
    /\ UNCHANGED <<pinned, now>>

\* mark_evictable of each key that landed.
\* Mutant: it is not called.
Marked_Never(keys) == evictable
Marked(keys) == evictable \cup keys

CompleteStore(keys) ==
    /\ complete_store(keys)
    /\ evictable' = Marked(keys)
    /\ pinned' = pinned \ keys
    /\ UNCHANGED <<meta, now, calls>>

\* remove of each key.
FailStore(keys) ==
    /\ fail_store(keys)
    /\ evictable' = evictable \ keys
    /\ meta' = Without(meta, keys)
    /\ pinned' = pinned \ keys
    /\ UNCHANGED <<now, calls>>

\* The first load of a block marks it not evictable.
PrepareLoad(k) ==
    /\ Call
    /\ prepare_load(k)
    /\ evictable' = evictable \ {k}
    /\ UNCHANGED <<meta, pinned, now>>

\* The last one to end marks it evictable, pinned by hand or not.
CompleteLoad(k) ==
    /\ complete_load(k)
    /\ IF blocks[k] = 1
       THEN evictable' = Marked({k}) /\ pinned' = pinned \ {k}
       ELSE UNCHANGED <<evictable, pinned>>
    /\ UNCHANGED <<meta, now, calls>>

Touch(keys, hints) ==
    /\ Call
    /\ touch(keys, hints)
    /\ UNCHANGED <<blocks, evictable, pinned, now>>

\* mark_non_evictable by hand, as the harness pins a patient's blocks.
Pin(k) ==
    /\ Call
    /\ evictable' = evictable \ {k}
    /\ pinned' = pinned \cup {k}
    /\ UNCHANGED <<blocks, meta, now>>

\* reset_cache drops everything while nothing is in use.
Clear ==
    /\ Call
    /\ Held = Idle
    /\ blocks' = <<>> /\ evictable' = {} /\ meta' = <<>> /\ pinned' = {}
    /\ UNCHANGED now

Tick ==
    /\ now < LastTime /\ now' = now + 1
    /\ UNCHANGED <<blocks, evictable, meta, pinned, calls>>

Request ==
    \/ \E keys \in SUBSET Key : PrepareStore(keys)
    \/ \E k \in Idle \cup Loading : PrepareLoad(k)
    \/ \E keys \in SUBSET Key, hints \in Hints : Touch(keys, hints)
    \/ \E k \in Held : Pin(k)
    \/ Clear

StoreEnds == \E keys \in SUBSET Storing \ {{}} : CompleteStore(keys) \/ FailStore(keys)
LoadEnds == \E k \in Loading : CompleteLoad(k)

Next == Request \/ StoreEnds \/ LoadEnds \/ Tick

Spec == Init /\ [][Next]_vars

\* The worker finishes every transfer it was given, one way or the other.
FairSpec == Spec /\ WF_vars(StoreEnds) /\ WF_vars(LoadEnds)

(***************************************************************************)
(* Properties                                                              *)
(***************************************************************************)
BlockMeta ==
    [last_use : Nat, uses : Nat, iat_known : BOOLEAN, leases : Nat, weight : Nat \ {0}]

\* Type invariant.  A block and what is known of it come and go together.
TypeOK ==
    /\ blocks \in [Held -> Int] /\ Held \subseteq Key
    /\ \A k \in Held : blocks[k] >= InFlight
    /\ meta \in [Held -> BlockMeta]
    /\ evictable \subseteq Key /\ pinned \subseteq Held
    /\ {now, calls} \subseteq Nat

\* evict may return exactly the blocks that nobody reads, writes or has pinned.
EvictableExact == evictable = Idle \ pinned

\* The manager with this policy keeps the promise of an offload tier.
Contract == INSTANCE OffloadContract
    WITH held <- Held, busy <- (Held \ Idle) \cup pinned

ImplementsContract == Contract!Spec

\* What the step took, and what it might have taken, when it made room for keys.
Victims == Held \ DOMAIN blocks'
Spared(keys) == (evictable \ keys) \ Victims

\* Of two blocks that were never used twice and differ only in the time and the
\* number of their uses, the staler goes first, and then the less used.
StalerFirst(v, s) ==
    \/ meta[v].last_use < meta[s].last_use
    \/ meta[v].last_use = meta[s].last_use /\ meta[v].uses <= meta[s].uses

AlikeBut(v, s, fields) ==
    \A f \in {"last_use", "uses", "iat_known", "leases", "weight"} \ fields :
        meta[v][f] = meta[s][f]

Cold(k) == ~meta[k].iat_known

ColdGoStalestFirst ==
    [][\A keys \in SUBSET Key : PrepareStore(keys) =>
          \A v \in Victims, s \in Spared(keys) :
             Cold(v) /\ AlikeBut(v, s, {"last_use", "uses"}) => StalerFirst(v, s)]_vars

\* Of two blocks that differ only in their leases, the one more sessions hold is
\* not the first to go, as long as neither has intervals of its own.  Nothing tells
\* apart two that MaxLeases sessions or more hold.
LeasesProtect ==
    [][\A keys \in SUBSET Key : PrepareStore(keys) =>
          \A v \in Victims, s \in Spared(keys) :
             Cold(v) /\ AlikeBut(v, s, {"leases"}) =>
                 Sessions(meta[v]) <= Sessions(meta[s])]_vars

\* Of two blocks that differ only in the weight of the role that used them last,
\* the one trusted to come back sooner is not the first to go.
TrustedStay ==
    [][\A keys \in SUBSET Key : PrepareStore(keys) =>
          \A v \in Victims, s \in Spared(keys) :
             Cold(v) /\ AlikeBut(v, s, {"weight"}) => meta[v].weight <= meta[s].weight]_vars

\* Once the engine asks for nothing more, every block becomes evictable again
\* unless it is pinned: no reference is ever lost.
ReferencesReturn == <>[](evictable = Held \ pinned)
================================================================================
