------------------------------- MODULE SessionTtl --------------------------------
(***************************************************************************)
(* SessionTtlPolicy of src/src/acr/vllm/ttl.py: evict what has lapsed, then*)
(* what lapses soonest.  The policy's calls are functions of its state;    *)
(* the actions are those of the engine's offload manager, whose transfers  *)
(* end later, in any order.                                                *)
(*                                                                         *)
(* Lapsed blocks go in dict order among themselves and so do blocks that   *)
(* lapse together: the model lets either go first.                         *)
(***************************************************************************)
EXTENDS OffloadManager

CONSTANTS
    Roles,       \* roles a request may declare, NoRole: none
    NoRole,
    Ttl,         \* ttl_s: role -> seconds
    DefaultTtl,  \* default_ttl_s, for a role without a lifetime of its own
    LastTime     \* bound on the clock, for model checking

ASSUME TtlAssumption ==
    /\ Ttl \in [DOMAIN Ttl -> Nat] /\ DOMAIN Ttl \subseteq Roles
    /\ NoRole \in Roles \ DOMAIN Ttl
    /\ DefaultTtl \in Nat

VARIABLES
    expires,    \* key -> when its lifetime ends
    role,       \* key -> role that declared it, for the blocks a role touched
    pinned,     \* keys marked not evictable
    now         \* time.monotonic()

policyVars == <<blocks, expires, role, pinned>>
ttlVars == <<policyVars, now>>

Lifetime(r) == IF r \in DOMAIN Ttl THEN Ttl[r] ELSE DefaultTtl

\* expires after touch(keys) at time t: only blocks the tier holds are refreshed.
Refreshed(keys, r, t) == Extended(expires, keys \cap Held, t + Lifetime(r))
Declared(keys, r) == IF r = NoRole THEN role ELSE Extended(role, keys \cap Held, r)

\* The blocks evict may take, given when they lapse.
Live(protected) == Held \ (protected \cup pinned)

\* k goes before j at time t: it has lapsed and j has not, or neither has and k
\* is sooner.
\* Mutant: the one that lapses last goes first.
Sooner_Reversed(k, j, lapse, t) == lapse[k] > lapse[j]
Sooner(k, j, lapse, t) ==
    IF lapse[k] <= t THEN lapse[j] > t ELSE lapse[k] < lapse[j]

\* The answers evict(n, protected) may give at time t, none standing for None.
evict(n, protected, lapse, t) ==
    {V \in SUBSET Live(protected) :
        /\ Cardinality(V) = n
        /\ \A v \in V, c \in Live(protected) \ V : ~Sooner(c, v, lapse, t)}

\* prepare_store(keys) once room is made, with lapse and roles as they were
\* before: victims are removed, new keys inserted with the default lifetime.
Stored(keys, victims, lapse) ==
    Extended(Without(lapse, victims), KeysToStore(keys), now + DefaultTtl)

Init ==
    /\ blocks = <<>> /\ expires = <<>> /\ role = <<>> /\ pinned = {}
    /\ now = 0

PrepareStore(keys) ==
    /\ KeysToStore(keys) # {}
    /\ \E victims \in evict(Shortfall(keys), keys, expires, now) :
          /\ prepare_store(keys, victims)
          /\ expires' = Stored(keys, victims, expires)
          /\ role' = Without(role, victims)
    /\ UNCHANGED <<pinned, now>>

CompleteStore(keys) ==
    /\ complete_store(keys)
    /\ pinned' = pinned \ keys
    /\ UNCHANGED <<expires, role, now>>

FailStore(keys) ==
    /\ fail_store(keys)
    /\ expires' = Without(expires, keys)
    /\ role' = Without(role, keys)
    /\ pinned' = pinned \ keys
    /\ UNCHANGED now

PrepareLoad(k) ==
    /\ prepare_load(k)
    /\ pinned' = pinned \cup {k}
    /\ UNCHANGED <<expires, role, now>>

CompleteLoad(k) ==
    /\ complete_load(k)
    /\ pinned' = IF blocks[k] = 1 THEN pinned \ {k} ELSE pinned
    /\ UNCHANGED <<expires, role, now>>

Touch(keys, r) ==
    /\ expires' = Refreshed(keys, r, now)
    /\ role' = Declared(keys, r)
    /\ UNCHANGED <<blocks, pinned, now>>

\* reset_cache drops everything while nothing is in use.
Clear ==
    /\ Held = Idle
    /\ blocks' = <<>> /\ expires' = <<>> /\ role' = <<>> /\ pinned' = {}
    /\ UNCHANGED now

Tick == now < LastTime /\ now' = now + 1 /\ UNCHANGED policyVars

\* A block is loaded by one request at a time: a bound, for model checking.
Next ==
    \/ \E keys \in SUBSET Key : PrepareStore(keys)
    \/ \E keys \in SUBSET Storing \ {{}} : CompleteStore(keys) \/ FailStore(keys)
    \/ \E k \in Idle : PrepareLoad(k)
    \/ \E k \in Loading : CompleteLoad(k)
    \/ \E keys \in SUBSET Key, r \in Roles : Touch(keys, r)
    \/ Clear
    \/ Tick

Spec == Init /\ [][Next]_ttlVars
================================================================================
