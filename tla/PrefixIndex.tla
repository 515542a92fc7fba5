------------------------------ MODULE PrefixIndex ------------------------------
(***************************************************************************)
(* The prefix block index of src/src/acr/index.py: which KV blocks the     *)
(* prompt of each session needs, in prefix order, and which sessions hold  *)
(* a lease on each block.                                                  *)
(*                                                                         *)
(* A block key is <<owner, pos>>: owner is the role for a block of the     *)
(* role's shared root ("root:{role}:b{i}") and the session for a private   *)
(* one ("{sid}:p{base+i}").  Bytes are tokens times a constant, so only    *)
(* tokens are kept; the inter-arrival average keeps its sign only, which   *)
(* is all that live_reuse_prob branches on; uses saturates at Many.        *)
(***************************************************************************)
EXTENDS Integers, Sequences

CONSTANTS
    Session,      \* session identifiers
    Role,         \* roles, each the name of one shared prefix
    BlockTokens,  \* tokens per block
    Prompts,      \* prompt sizes a request may have, in tokens
    SharedSizes,  \* shared-prefix sizes a request may carry, in tokens
    StaleAfter,   \* idle time after which a lease no longer counts as live
    NoRole,       \* the role of a session that has made no request yet
    FirstTime,    \* time at which the trace starts
    LastTime      \* bound on time, for model checking

ASSUME IndexAssumption ==
    /\ BlockTokens \in Nat \ {0}
    /\ Prompts \subseteq Nat
    /\ SharedSizes \subseteq Nat
    /\ StaleAfter \in Nat
    /\ FirstTime \in Nat
    /\ LastTime \in Nat
    /\ Session \cap Role = {}
    /\ NoRole \notin Session \cup Role

VARIABLES
    blocks,             \* key -> BlockInfo, for every key ever seen
    session_path,       \* session -> its keys in prefix order (<<>>: none)
    session_role,       \* session -> role of its last request
    session_last_seen,  \* session -> time of its last request
    invalidations,      \* keys recorded as rolled back by an abort
    now                 \* time of the last request

indexVars == <<blocks, session_path, session_role, session_last_seen,
               invalidations, now>>

Unset == -1               \* a key missing from session_last_seen
Many == 2                 \* uses saturates here: never, once, more than once

Owner == Session \cup Role
Key == Owner \X Nat
IsShared(k) == k[1] \in Role

(***************************************************************************)
(* Block construction                                                      *)
(***************************************************************************)
Lesser(a, b) == IF a < b THEN a ELSE b

\* Blocks a run of n tokens takes, and the tokens of the i-th of them (from 0):
\* every one is full except a partial last one.
\* Mutant: a last block even where the run ends at a block edge.
BlocksOf_Extra(n) == n \div BlockTokens + 1
BlocksOf(n) == (n + BlockTokens - 1) \div BlockTokens
PartTokens(n, i) == Lesser(BlockTokens, n - i * BlockTokens)

\* The blocks of one prompt in prefix order: the shared run under the role's
\* name, then the private run, numbered on from the end of the shared one.
chain(s, role, prompt, sharedTokens) ==
    LET shared == Lesser(sharedTokens, prompt)
        base   == BlocksOf(shared)
    IN  [i \in 1..(base + BlocksOf(prompt - shared)) |->
            IF i <= base
            THEN [key |-> <<role, i - 1>>, tokens |-> PartTokens(shared, i - 1)]
            ELSE [key |-> <<s, i - 1>>,
                  tokens |-> PartTokens(prompt - shared, i - 1 - base)]]

KeysOf(parts) == [i \in DOMAIN parts |-> parts[i].key]
Elems(seq) == {seq[i] : i \in DOMAIN seq}

(***************************************************************************)
(* Block records                                                           *)
(***************************************************************************)
IatSign == {"none", "zero", "positive"}

\* The sign of 0.7 * iat + 0.3 * gap, or of gap when there is no average yet.
SmoothedIat(iat, gap) ==
    IF gap = 0 /\ iat # "positive" THEN "zero" ELSE "positive"

\* A last_use of 0.0 is falsy: such a block is taken for one never used.
observe_use(info, t) ==
    [info EXCEPT
        !.iat = IF info.last_use = 0 THEN @ ELSE SmoothedIat(@, t - info.last_use),
        !.uses = Lesser(Many, @ + 1),
        !.last_use = t]

\* Mutant: depths counted from one.
NewBlock_FromOne(tokens, depth) ==
    [tokens |-> tokens, depth |-> depth + 1, last_use |-> 0, uses |-> 0,
     iat |-> "none", refs |-> {}, roles |-> {}]
NewBlock(tokens, depth) ==
    [tokens |-> tokens, depth |-> depth, last_use |-> 0, uses |-> 0,
     iat |-> "none", refs |-> {}, roles |-> {}]

\* Mutants: a partial block is never filled in; a full one is cut back.
Leased_NoGrowth(info, tokens, s, role, t) ==
    observe_use([info EXCEPT !.refs = @ \cup {s}, !.roles = @ \cup {role}], t)
Leased_Overwritten(info, tokens, s, role, t) ==
    observe_use([info EXCEPT !.tokens = tokens, !.refs = @ \cup {s},
                             !.roles = @ \cup {role}], t)

\* Tokens only grow: a partial block is filled in, never cut back.
Leased(info, tokens, s, role, t) ==
    observe_use([info EXCEPT !.tokens = IF tokens > @ THEN tokens ELSE @,
                             !.refs = @ \cup {s},
                             !.roles = @ \cup {role}], t)

\* Mutant: the lease is not discarded.
Unleased_Kept(info, s) == info
Unleased(info, s) == [info EXCEPT !.refs = @ \ {s}]

(***************************************************************************)
(* Operations                                                              *)
(***************************************************************************)
Init ==
    /\ blocks = [k \in {} |-> NewBlock(0, 0)]
    /\ session_path = [s \in Session |-> <<>>]
    /\ session_role = [s \in Session |-> NoRole]
    /\ session_last_seen = [s \in Session |-> Unset]
    /\ invalidations = {}
    /\ now = FirstTime

\* Register or refresh the chain one request needs.  An abort that leaves the
\* path shorter records the tail it cut; a key that left the path loses the
\* session's lease.
touch_path(s, role, prompt, sharedTokens, t, aborted) ==
    LET parts == chain(s, role, prompt, sharedTokens)
        keys  == KeysOf(parts)
        old   == session_path[s]
        stale == Elems(old) \ Elems(keys)
        place(k) == CHOOSE i \in DOMAIN parts : parts[i].key = k
    IN  /\ invalidations' =
               IF aborted /\ Len(keys) < Len(old)
               THEN invalidations \cup {old[i] : i \in (Len(keys) + 1)..Len(old)}
               ELSE invalidations
        /\ session_path' = [session_path EXCEPT ![s] = keys]
        /\ session_role' = [session_role EXCEPT ![s] = role]
        /\ session_last_seen' = [session_last_seen EXCEPT ![s] = t]
        /\ blocks' =
               [k \in DOMAIN blocks \cup Elems(keys) |->
                   IF k \in Elems(keys)
                   THEN Leased(IF k \in DOMAIN blocks THEN blocks[k]
                               ELSE NewBlock(parts[place(k)].tokens, place(k) - 1),
                               parts[place(k)].tokens, s, role, t)
                   ELSE IF k \in stale THEN Unleased(blocks[k], s)
                   ELSE blocks[k]]
        /\ now' = t

\* The session closed: its leases drop, its blocks stay known.
release_session(s) ==
    /\ blocks' = [k \in DOMAIN blocks |->
                     IF k \in Elems(session_path[s]) THEN Unleased(blocks[k], s)
                     ELSE blocks[k]]
    /\ session_path' = [session_path EXCEPT ![s] = <<>>]
    /\ session_last_seen' = [session_last_seen EXCEPT ![s] = Unset]
    /\ UNCHANGED <<session_role, invalidations, now>>

TouchPath ==
    \E s \in Session, role \in Role, prompt \in Prompts,
       sharedTokens \in SharedSizes, t \in now..LastTime, aborted \in BOOLEAN :
        touch_path(s, role, prompt, sharedTokens, t, aborted)

ReleaseSession ==
    \E s \in Session :
        /\ session_last_seen[s] # Unset
        /\ release_session(s)

Next == TouchPath \/ ReleaseSession

Spec == Init /\ [][Next]_indexVars

(***************************************************************************)
(* Lease queries                                                           *)
(***************************************************************************)
\* A session missing from session_last_seen reads as infinitely recent.
live_leases(k, t) ==
    IF k \notin DOMAIN blocks THEN {}
    ELSE {s \in blocks[k].refs :
             \/ session_last_seen[s] = Unset
             \/ t - session_last_seen[s] <= StaleAfter}

(***************************************************************************)
(* Properties                                                              *)
(***************************************************************************)
BlockInfo ==
    [tokens : 1..BlockTokens, depth : Nat, last_use : Nat, uses : 0..Many,
     iat : IatSign, refs : SUBSET Session, roles : SUBSET Role]

\* Type invariant of the index.
TypeOK ==
    /\ DOMAIN blocks \subseteq Key
    /\ blocks \in [DOMAIN blocks -> BlockInfo]
    /\ session_path \in [Session -> Seq(Key)]
    /\ session_role \in [Session -> Role \cup {NoRole}]
    /\ session_last_seen \in [Session -> Nat \cup {Unset}]
    /\ invalidations \subseteq Key
    /\ now \in Nat

\* A session's lease is on a block exactly when the block is on the session's
\* current path: touch_path adds and drops leases one by one, release_session
\* drops them by the path, and no order of the two may leave one behind.
LeaseExact ==
    /\ \A s \in Session : Elems(session_path[s]) \subseteq DOMAIN blocks
    /\ \A k \in DOMAIN blocks :
           blocks[k].refs = {s \in Session : k \in Elems(session_path[s])}

\* The depth recorded when a block was first seen is its position on every
\* path that holds it now, whoever recorded it: leaf-first eviction sorts by it.
DepthIsPosition ==
    \A s \in Session : \A i \in DOMAIN session_path[s] :
        LET k == session_path[s][i]
        IN  k \in DOMAIN blocks /\ blocks[k].depth = i - 1

\* Inside the shared run and inside the private run of a path, every block
\* followed by another one of the run is full: a partial block that the prompt
\* has grown past has been filled in.
InteriorFull ==
    \A s \in Session : \A i \in DOMAIN session_path[s] :
        LET k == session_path[s][i]
        IN  (/\ i < Len(session_path[s])
             /\ session_path[s][i + 1][1] = k[1])
                => blocks[k].tokens = BlockTokens

\* No false sharing: a private block is leased by its own session only, and a
\* shared block only by sessions whose last request had the block's role.
LeasesInNamespace ==
    \A k \in DOMAIN blocks : \A s \in blocks[k].refs :
        IF IsShared(k) THEN session_role[s] = k[1] ELSE s = k[1]

\* A lease holder always has a time of last use, so the default of
\* live_leases, which would make a lease live for ever, is never taken.
LeaseHasClock ==
    \A k \in DOMAIN blocks : \A s \in blocks[k].refs :
        session_last_seen[s] # Unset

\* A block that was used again after the start of the trace has an inter-arrival
\* estimate: live_reuse_prob gives the floor to a block without one, which it
\* calls "never reused".  Refuted where the trace starts at time 0, as those of
\* the loaders do: observe_use takes a last use at 0.0 for no use, so that the
\* second use of such a block starts no average.
ReusedHasHistory ==
    \A k \in DOMAIN blocks :
        (blocks[k].uses = Many /\ blocks[k].last_use > FirstTime)
            => blocks[k].iat # "none"

\* A block that stays known never shrinks, keeps its depth and never takes its
\* last use back, whatever shorter prompt, abort or older session asks for it.
\* Whether a key is ever forgotten is left open: the docstring of chain says
\* that touch_path forgets a partial key once it is superseded.
BlocksOnlyGrow ==
    [][\A k \in DOMAIN blocks \cap DOMAIN blocks' :
           /\ blocks'[k].tokens >= blocks[k].tokens
           /\ blocks'[k].depth = blocks[k].depth
           /\ blocks'[k].last_use >= blocks[k].last_use]_indexVars

(***************************************************************************)
(* What the index promises about leases, stated without paths or records   *)
(***************************************************************************)
Table == INSTANCE LeaseTable WITH
    Holder   <- Session,
    Resource <- Key,
    wants    <- [s \in Session |-> Elems(session_path[s])],
    leases   <- {l \in Session \X DOMAIN blocks : l[1] \in blocks[l[2]].refs}

\* Adding and discarding the session in the refs of single blocks amounts to
\* replacing all its leases at once and touching nobody else's.
ImplementsLeaseTable == Table!Spec
================================================================================
