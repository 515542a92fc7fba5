# Verification of adaptive-context-residency

TLA+ models of the residency simulator, of the two policies that run inside an
engine's offload manager and of the harnesses around them; TLC runs that check the
models on small instances; and TLAPS proofs about the prefix index, both tiers and their
policies, the whole replay, the engine value policy, the offline replay and the
generated workload for every value of their constants.
Paths are relative to the repository root (`src/...`).

    tlc -workers 2 -config MCReplay.cfg MCReplay.tla     # one run
    tlapm PrefixIndexProofs.tla                          # one module of proofs

`PROJECT.json` lists the components, every run with its properties, the mutants
that show each property can fail, the source lines each definition models, the
findings, the hazards and the theorems.

## 1. The system

The program decides which KV-cache blocks of agent sessions stay in which memory
tier. A trace is a sequence of *turns* (session, role, prompt size, shared prefix,
abort flag, announced tool duration); the simulator replays it under one policy and
counts what had to be recomputed or restored. Two more policies run inside an
engine's CPU offload manager instead of the simulator.

| Component | State it keeps | Operations | Talks to |
|---|---|---|---|
| Prefix index, `src/src/acr/index.py` | blocks (size, depth, uses, inter-arrival average, leases, roles), path and last-seen time of each session, invalidated keys | `touch_path`, `release_session`; queries `live_leases`, `live_reuse_prob` | called by the simulator once per turn; read by policies through `Probe` |
| HBM pool, `HBMTier` in `src/src/acr/replay.py` | ordered dict key → bytes, running total | `store`, `contains` | filled by the simulator, ordered by itself |
| Host-tier policies, `src/src/acr/policies.py` | entries (bytes, last touch, uses, expiry) in insertion order | `insert`, `touch`, `remove`, `expiry`, `admit_chain`, `evict` | called by the simulator; ask `Probe` |
| Simulator, `Simulator` in `src/src/acr/replay.py` | the above, plus announced returns, departure times, counters, two queueing servers | `run`, `_one`, `_store_batch_to_host`, `_refresh_oracle`, `_finalize` | composes the three above |
| Engine value policy, `src/src/acr/vllm/policy.py` | evictable set, chains, blocks with reference counts | `insert`, `get`, `touch`, `evict`, `mark_(non_)evictable`, `remove` | called by the engine's offload manager |
| Engine TTL policy, `src/src/acr/vllm/ttl.py` | as above, with expiry and a pinned set | the same | the same |
| Offload harnesses, `src/experiments/offload_*.py`, `policy_*.py` | a manager with a policy, what each session was served, counters, a substitute clock | `touch_stream`, `stream_mixed`, `advance`, pins by hand | engine policies, through the manager |
| Connector probes, `src/experiments/connector_*.py` | chunks stored per cache group | `predict`, `simulate_store`, `store_group` | mirror or drive the engine's offloading connector |
| Traces, `src/src/acr/trace.py` | none (loaders and a generator) | `load_*`, `synthetic_mix` | feeds the simulator |
| Cost model, `src/src/acr/config.py`; launch plan, `src/src/acr/vllm/launch.py`; command line | none | arithmetic and rendering | everything |

What makes it hard to test:

* **Order of legal calls.** Sessions change role, grow, shrink, abort, close and come
  back in any order. Leases are dropped by the difference of two paths in one place and
  by the path in another; depth and size of a shared block are recorded by whoever came
  first and used for everybody else.
* **Values recorded in one place and used later in another.** HBM and the host tier are
  charged with the size a block had when it was stored, the index knows a larger one
  later; a lifetime is computed at a touch and consulted turns later; the mistake
  counters depend on departure times written by a different function.
* **Partial failure.** `evict` may free too little or answer `None`; the turn goes on.
* **Limits.** Requests larger than a tier, fills that fit exactly, eviction that stops
  one block too early or too late.
* **Positional keys.** A block's key is a role or session and a position, so what an
  abort discards and what grows back afterwards have the same key.
* **Transfers under way.** In the engine a block is inserted before its store has
  completed; loads, failures, touches, pins and other stores happen before it ends, and
  each moves the block in or out of what may be evicted. `evict` must be all or nothing.
* **A clock put in place of another.** The offline replay replaces `time.monotonic`.
* **Several groups, one answer.** The connector's lookup walks cache groups whose chunks
  have different widths; what one group finds bounds the next one, in a single pass.

There is no thread or event loop in the simulator: turns are processed one after the
other, so a turn is one atomic step of the model. The nondeterminism is in which turn
comes next, how much time has passed, and what the estimates say. In the engine each
call of the manager is a step, and the end of a transfer is a step of its own.

## 2. The modules

| Module | Models | Lines it stands for |
|---|---|---|
| `LeaseTable` | the abstract promise of the index: a request replaces all leases of its holder, a close drops them, nobody else's change | (specification) |
| `PrefixIndex` | the prefix index | `index.py` 24-138 |
| `ItemLists` | lists of blocks with their sizes: parts of a list, its keys and bytes | the dicts of `replay.py` and `policies.py` |
| `HBMTier` | the HBM pool | `replay.py` 28-62 |
| `TierPolicy` | the six policies as functions of a tier's entries and a probe | `policies.py` 31-433 |
| `TierContents` | one host tier under any sequence of calls | `TierPolicy` class |
| `Replay` | a whole turn, `Simulator._one`, over `PrefixIndex`, `HBMTier` and `TierPolicy`; the oracle's schedule | `replay.py` 126-285, `Probe` |
| `OffloadContract` | the abstract promise of an offload tier to the engine | (specification) |
| `OffloadManager` | the engine's manager as the policies meet it: reference counts, store and load | external; head of `policy.py` |
| `AcrValue` | the value policy under that manager | `policy.py` |
| `SessionTtl` | the TTL policy under that manager; checked through `StreamRunner`, under the engine's own calls by theorems only | `ttl.py` |
| `StreamRunner` | the offline replay of several sessions over `SessionTtl`, with its clock | `offload_replay_real.py` |
| `ConnectorLookup` | store gating and lookup over three cache groups | `connector_lookup_veto_probe.py`, `connector_ring_classify_probe.py` |
| `SyntheticMix` | the generated workload over `PrefixIndex` | `trace.py` 145-210 |
| `PrefixIndexProofs`, `AcrValueProofs`, `ReplayProofs`, `SyntheticMixProofs`, `TierContentsProofs` | theorems about the module of that name | |
| `ExperimentsProofs` | theorems about `StreamRunner`, `SessionTtl` and `ConnectorLookup` | |
| `ItemListsProofs`, `TierProofs` | what they rest on: finite sums and lists; one call of a tier | |
| `MC*` | instances for TLC | |

`Replay` instantiates the three component modules over its own variables, so a turn
uses exactly the definitions checked (and, for the index, proved) on their own.
`SyntheticMix` extends `PrefixIndex`, and `AcrValue` and `SessionTtl` extend
`OffloadManager`, in the same way.

### PrefixIndex

A block key is `<<owner, position>>`: the owner is the role for the shared root
(`"root:{role}:b{i}"`) and the session for the private part (`"{sid}:p{i}"`). `chain`
cuts a prompt into the shared run and the private run, `touch_path` registers the
chain: existing blocks grow, gain the lease and observe a use, new ones are recorded
with their depth, blocks that left the path lose the lease, and an abort that shortened
the path records the tail. All of it is one action, as in the code. `release_session`
drops leases, path and clock.

Abstractions: bytes are tokens (a constant factor); `iat_ema` keeps only its sign,
which is all that `live_reuse_prob` branches on (none, zero, positive); `uses`
saturates at `Many` = 2.

### HBMTier

`pool` is the ordered dict as a sequence, oldest first, and `used` the running total
kept beside it. `store` moves hits to the end without charging their growth, charges
and appends the new items, then drops unprotected items from the front until the pool
is within its cap. `HBMTier.touch` has no caller and is left out.

### TierPolicy and TierContents

Entries are a sequence in insertion order, because that order breaks the ties of every
stable sort in `evict`. `policy` is a variable that no step changes, so that one run
covers several policies. `evict` expires, filters the protected entries, orders the
rest (`lru`, `lfu`, by lifetime, or by chain for `adaptive_value`) and takes the
shortest beginning that frees enough; the `None` of the code is the empty list of
victims. The two TTL policies remove lapsed entries even when the answer is `None`.
An order is a total order of the positions of a list, by key and then by position, and
`Arranged` puts each entry at the place numbered by how many go before it. That is what a
stable sort returns, said without saying how the sort works, so that it can be reasoned
about for a tier of any length.
A lapsed entry of the other policies does not exist: their `expires_at` is infinite.

`adaptive_value` ranks by expected saved seconds per byte. Recompute and restore costs
are linear in bytes, so the density of a block is its reuse probability times a
constant; the model lets that probability be any value of a small set, chosen anew at
each turn. This allows everything the exponential estimate can produce and more; what
holds for it holds whatever the estimator says. The nine-tenths threshold of
`admit_chain` and the comparison of average densities are modelled exactly, with
integers instead of divisions.

### Replay

`One(turn, t)` follows `_one`: register the path, note the announced return, find how
far the resident prefix reaches (`Cut`), count restored blocks that left HBM within the
thrash window, fill HBM and stamp what it dropped, store the new blocks to the host in
one batch (`StoreBatch`: admission, one `evict`, then the blocks that fit, in path
order, with the room that was gained), touch the path. `Finish` ends the trace at any
length and releases every session. `last` keeps what the last turn found resident and
what it meant to store. Under the oracle the whole trace is chosen in the first state
(`plan`); `next_use` is refreshed after every turn for the blocks of that turn, as
`_refresh_oracle` does, and looks for uses strictly later than the turn.

### OffloadContract, OffloadManager and AcrValue

The manager is not in the repository. `OffloadManager` says what the contract at the
head of `policy.py` and the calls of `src/experiments` say of it: a block is inserted
with reference count -1 (`InFlight`) before its transfer starts, the count is 0 when the
store completes and then the number of loads that read it. `prepare_store` asks the
policy for exactly as many victims as slots are missing; a `None` has no effect.

`AcrValue` models every callback of the policy inside the manager's call that makes it.
`score` is computed with integers from the role's weight, a probability and the rent of
a full tier. For a block without intervals of its own the probability is the floor the
code gives it, `LeaseProbs` indexed by the number of leases up to `MaxLeases` (more for
more leases, never less); for another one it is any value of a
small set, chosen anew at each eviction. Ties of the sort go either way, since the
candidates come from a set. `uses` and the block's reuse interval follow `touch`; the
smoothed interval keeps its sign only.

`OffloadContract` knows only which keys have a slot and which must keep it. The mapping
takes `held` to the manager's blocks and `busy` to those in transfer or pinned.

### SessionTtl and StreamRunner

`SessionTtl` is the TTL policy under the same manager. `StreamRunner` is
`Runner.touch_stream` over it: look every block of the session's context up, load the
hits, touch all, store the cold ones, count displaced blocks as the code does (`Wasted`). Transfers end inside the
turn, as in the harness. The clock is modelled as written: the *n*-th reading after
`advance(gap)` is *n* gaps after a fixed epoch.

### ConnectorLookup

A chunk is a group and an index. `predict` narrows the boundary group by group;
`Storable` is what the store gating leaves. What it asks of a windowed group, `Reachable`,
is a function of the engine (`is_store_reachable_swa_chunk`) and not of the repository: its
formula is inferred from the counts the classify probe expects. `store_group` are the three ways the probe
fills a group. `mode` is one of the three classifications of the ring that the probes
compare, `eagle` whether a draft model is used. With the widths of the deployed engine
(816, 8, 16) the model gives the probe's own numbers: 3264 tokens for a store of 4080
with the ring left out, 0 with it.

### SyntheticMix

A coding session's context grows by a turn and is now and then cut back; the generator
then replaces the turn it has *just appended* by a marked copy. A turn is drawn when it
is replayed, which makes no difference because sessions are drawn independently.

## 3. The runs and what they show

| Run | Instance | Distinct states | Shows |
|---|---|---|---|
| `index` | 2 sessions, 2 roles, blocks of 2 tokens, prompts of 1 and 4, shared prefixes of 0 and 3, 4 requests, any closes | 125,875 | types, leases exactly on paths, depths are positions, interior blocks full, no false sharing, every lease holder has a clock, blocks only grow, implements `LeaseTable` |
| `tier` | 3 blocks in 5 bytes, 5 policies, 56 views of the index | 151,325 | `evict` frees enough and no more, never takes a protected entry, cuts at most one chain |
| `replay` | 2 sessions with private paths of up to 4 bytes or shared ones of up to 7, HBM of 4, host tier of 5, 4 turns, all 6 policies; the oracle's trace chosen beforehand | 123,056 | both tiers, the counters and the oracle's schedule agree with the index through whole turns; eviction order of HBM, of `adaptive_value` and of the oracle |
| `engine_value` | 3 keys in 2 slots, 2 roles, 5 calls that start something, transfers that end later in any order or fail | 83,253 | nothing in use is given up, implements `OffloadContract`, ranking of blocks without history, every reference comes back |
| `ttl_stream` | a coding session and two patients (alike, by symmetry), 3 turns each, 4 slots, gaps of 0 and 1 | 33,524 | declared lifetimes decide who stays |
| `lookup` | widths 6, 2 and 1, prompts of 12, 15 and 18 tokens, 3 modes, with and without a draft model, any local prefix | 117,966 | the lookup is exact without the ring, always vetoed with it, and served by the store gating |

The bounds are chosen so that the interesting cases happen. Two tokens per block give
full, partial and grown blocks; prompts of 1 and 4 tokens and a shared prefix of 3 end
inside a block, at an edge and one block further, and a prompt shorter than its shared
prefix occurs. Two sessions are enough for a block to be leased by none, one or several;
two roles for a role change. The tiers hold a session's longest private path but not two,
so the turns of one session evict blocks of the other. Four turns allow demote, evict,
return and store again, which is what the mistake counters count. In `replay` the host
tier is large enough that what its blocks have grown by does not overcommit it, which
only the run `host_overcommit`, with a smaller one, shows to happen. Under
`continuum_ttl` two sessions share a root, each may announce its return, both or neither,
and one may leave the root, so that the leases of a block and what is announced for it
change after its lifetime was given. Three keys for two slots make stores evict, and five
calls are enough to store, load, pin, fail and store again. Three turns of three sessions
fill four slots more than twice. The lookup's widths keep the ratios of the real
geometry, so that one group's boundary falls inside another group's chunk.

Deadlock is not checked: every model stops at its bound on requests, turns or time.

Each property is accompanied by a mutant, a plausible bug in one definition (a dropped
guard, an off-by-one, a missing reset), under which TLC finds it violated: these are the
definitions marked `Mutant` next to the definition they replace. Nothing else uses them.

### What the properties mean for the code

* `LeaseExact`, `LeaseHasClock`, `ImplementsLeaseTable`: no order of requests, role
  changes, aborts and closes leaks a lease. `live_leases` treats a holder without a clock
  as live for ever; that branch is never taken.
* `DepthIsPosition`: leaf-first eviction sorts by a depth that is right for every session.
* `HbmAccounted`, `ChargesKnownBlocks`: totals never drift, and a tier never charges more
  than a block takes (it may charge less: blocks grow).
* `OldestGoFirst`, `StopsWhenEnough`: the pool's order, kept by moving hits to its end,
  agrees with the clock of the index, which is kept elsewhere; it is followed no further
  than to the block whose departure brings the pool within its cap.
* `ThrashAnswersDemotion`, `DeparturesRecorded`: the mistake counters miss no departure
  and count none twice. A lapsed entry may leave the tier without a record, so that for
  the TTL policies `reacquires` counts only what `evict` chose; `DeparturesRecorded` says
  that nothing else does, and that a turn whose batch is refused loses nothing else.
* `NewBlocksLand`: under `lru`, `lfu` and `oracle` a path that fits the tier is wholly
  stored. Not so under the TTL policies nor under `adaptive_value`, see section 4.
* `KeepsEverything`: while the tier is larger than everything seen so far, as the test
  puts it, nothing is refused, evicted or lost, lapsed or not; under `adaptive_value`,
  while everything seen takes less than nine tenths of it (`Ample`). The instance has one
  path below nine tenths of the tier (4 bytes of 5) and nothing between nine tenths and the
  whole; that the boundary is right for a tier filled turn by turn is what the theorem
  `LargeTierKeepsEverything` shows.
* `NoLapseBeforeReturn`: under `continuum_ttl` a block does not lapse while a session whose
  path it is on is away as announced, although its lifetime is computed at a touch, often of
  another session, and leases and announcements change afterwards. The lifetime is no
  pin: the block may be evicted for room. The announced durations of the instance do not
  exceed `StaleAfter`: a session idle for longer is no live lease and its announcement is
  not seen by `session_eta`.
* `NextUseKnown`, `FarthestFirst`: the oracle looks ahead only for the blocks of the turn
  it has just seen, and yet knows the next use of every block it holds; it drops the
  farthest. One exception is built in and stated: a second use at the very time of the
  last turn is overlooked, since `next_use` takes strictly later times.
* `EvictableExact`, `ImplementsContract`: whatever transfers are under way, and however
  they end, the value policy can give up exactly the blocks that nobody reads, writes or
  has pinned, and the manager gets as many victims as it needs or no effect at all. A
  block pinned by hand becomes evictable when a load of it ends; the model takes the pin as
  over then, so neither property says that a pin outlives a load (section 4).
* `ColdGoStalestFirst`, `LeasesProtect`: among blocks without history the tie-break is by
  recency, then reuse; a block that more sessions lease is not the first to go.
* `LongerLivedStay`: while lifetimes differ by more than the clock ever shows, the role's
  lifetime alone decides who goes. The clock shows a gap per reading, at most one for each
  block of the context and two more: with lifetimes of 60, 300 and 3600 s and the 162
  readings of the longest turn of the mixed stream, gaps of a second satisfy this
  outright; longer ones do when fewer blocks are cold.
* `HitIsLongest`: the single pass over the groups finds the longest boundary that every
  group can serve, no more and no less, without going back to a group already asked.

## 4. Where code and documentation disagree

Each of these has a run in which TLC finds the stated property violated, and each was
reproduced by running the Python code.

| Run | The text says | The code does |
|---|---|---|
| `host_overcommit` | "store the prefix that fits" (`replay.py:269`) | room is credited with the present size of a victim, which may exceed what its entry was charged with: the tier ends over its capacity |
| `aborted_served` | "keys that must not be reused after an abort" (`index.py:56`) | nothing reads the list; keys are positional, so the regrown prompt is served the discarded blocks |
| `trusted_stay` | patient traffic is "trusted to come back sooner" (`policy.py:66-67`) | `score` multiplies a negative number by the weight: in a full tier the trusted role's blocks without history go first |
| `never_reused` | "never reused: unproven, so unremarkable" (`index.py:150`) of a block without history | `if self.last_use:` (`index.py:39`) takes a use at time 0.0 for none, and loaded traces start there (`trace.py:84`, 109): a block used at the start and once more has no history |
| `abort_marks` | `aborted` says "previous branch was logically discarded" (`trace.py:30`) | the generator marks the turn before the rollback, the index compares the marked turn with the one before it: a lone abort records nothing, a second one the tail of the first |
| `replay_clock` | "Move the virtual clock" (`offload_replay_real.py:77`) | each `advance` starts again from the same epoch: a later turn may read an earlier time |

Others were met while modelling; they are in the models as the code has them, but no run
is devoted to them:

* `index.py:64-66` against 72-75 and `touch_path`: the docstring of `chain` gives a partial
  block "a length-qualified key" and has the superseded one "forgotten by `touch_path`". Keys
  are positional, and `touch_path` drops leases only: no block is ever forgotten.
  `BlocksOnlyGrow` is therefore about the blocks the index keeps.
* `offload_replay_real.py:16` and 120: wasted stores are "stored then evicted untouched", of
  blocks that "had never been read back". Line 121 looks for the block among all that was
  ever stored, where every block is: each displacement counts, of blocks read back many times
  too. The theorem `WastedIsEveryDeparture` says so: stored = wasted + held.
* `vllm/policy.py:14` says of `insert` that it "also moves the key into the evictable set";
  line 106 does so only for a block that nobody reads or writes. Taken at its word it would
  let a block go whose transfer is under way, which is what the mutant of `EvictableExact`
  does.
* `vllm/ttl.py:63-65`: `insert` does not look at the reference count, as `AcrValuePolicy`'s
  does, and nothing pins the block before its first load: a block whose store is under way
  may be displaced by the next store. Nothing in the repository says otherwise of this
  policy; `TtlKeepsContract` (section 6) says when it cannot happen.
* `offload_policy_harness.py:151` and 225: "pinned medical KV" is "immune to eviction". A pin
  is a removal from the evictable set, and `mark_evictable` at the end of a load undoes it:
  the pin lasts until the next load of the block ends. The harness loads nothing it pinned.
* `policies.py:418-420` against `replay.py:269`: with a first new block larger than the
  room left, no part of a turn lands.
* `policies.py:239` against 196-197: the TTL policies delete lapsed entries and then
  answer `None` when nothing else is left; the simulator stores nothing of the turn in a
  tier that has just become empty.
* `policies.py:325` against `test_replay.py:93-94`: from nine tenths of the capacity on,
  `adaptive_value` refuses a block though nothing need be displaced.
* `policies.py:353` against 340: each block leased by several sessions is a chain of its
  own, and ties keep insertion order, so a root's first block may go before its second.
* `vllm/policy.py:133`: the minimum with `now` undoes the shift of `last_use` to the
  announced return; an announcement has no effect.
* `connector_lookup_veto_probe.py`: `groups` of `predict` is never refilled, so that the
  loop runs once and `defer`, `looked_up_sw` and the guard have no effect; `HitIsLongest`
  shows that one pass is enough for the widths that divide each other.

## 5. Fairness and liveness

`ReferencesReturn` (run `engine_value`) says that once the engine asks for nothing more,
every block is evictable again unless pinned: `<>[](evictable = Held \ pinned)`. It
assumes weak fairness of `StoreEnds` and `LoadEnds` and of nothing else. That is what the
engine's worker gives: every transfer it was handed is reported back, finished or failed.
Requests are not fair; the bound on calls makes them end. Which transfer ends, and how,
is left open, so fairness is of the ends together, never of a success.

Nothing else waits: a replay is a finite loop over a trace, the models let it stop
anywhere, and the other component models accept calls in any order.

## 6. What is proved

For any values of the constants, under the named assumptions of the modules, which TLC
evaluates in the runs, and the hypotheses stated with a theorem.

`PrefixIndexProofs`: any sets of sessions and roles (disjoint), any block size, prompts
and shared prefixes, any start and any length of the history.

    IndexInvariant         Spec => []IndexInv
    TypeCorrect            Spec => []TypeOK
    LeasesExact            Spec => []LeaseExact
    InteriorBlocksFull     Spec => []InteriorFull
    DepthsArePositions     Spec => []DepthIsPosition
    NoFalseSharing         Spec => []LeasesInNamespace
    LeasesHaveClock        Spec => []LeaseHasClock
    IndexImplementsTable   Spec => ImplementsLeaseTable
    KeptBlocksOnlyGrow     Spec => BlocksOnlyGrow

Hardly any of these is inductive alone. That a request finds the right
depth recorded for a block that somebody else saw first needs to know that a recorded
depth is what the *key* says, on whatever path it was seen; that a shared block is leased
only by sessions of its role needs the role of a session to agree with every key of its
path. `IndexInv` therefore says, beside `TypeOK`, `LeaseExact` and `InteriorFull`, that the
depth of each known block is the number in its key (`DepthsNumbered`), that the *i*-th key
of each path has number *i* - 1 and belongs to the session or to the role of its last
request (`PathsNumbered`), and that a session with a path has a clock (`PathsClocked`).
`HistoryInv`, proved on top of `TypeOK`, says that no use lies in the future and that what
was used was used at or after the start; without it a request could move `last_use` back.
The lemmas go bottom up: block counts and sizes of a run
(`BlocksOfBounds`, `PartTokensBounds`), the shape of a chain as two runs (`ChainShape`,
`TwoRunsChained`), what `touch_path` does to each field of each block (`TouchEffect`,
`TouchedFields`), then one lemma per operation (`TouchPreservesInv`,
`ReleasePreservesInv`). The refinement maps the lease table's relation to the pairs
(session, block) with the session in the block's `refs`; by `LeasesFromPaths` that is the
relation given by the paths, and both operations replace one path
(`PathStepIsTableStep`).

`AcrValueProofs`: any finite set of keys, any number of slots, any weights, costs,
estimates and hints.

    ManagerInvariant       Spec => []Inv
    ValueTypeCorrect       Spec => []TypeOK
    EvictableIsExact       Spec => []EvictableExact
    ManagerKeepsContract   Spec => ImplementsContract
    WithinSlots            Spec => []SlotsInv
    StalestColdGoFirst     Spec => ColdGoStalestFirst
    LeasesProtectBlocks    0 < Gain => (Spec => LeasesProtect)
    PaidTrustStays         Rent * Slots < LeaseProbs[1] * Gain => (Spec => TrustedStay)

`Inv` is `TypeOK /\ EvictableExact`; the two need each other, since a victim that is idle
and not pinned leaves the pinned keys held. All that is used of the ranking is that
`evict` returns as many candidates as asked, all of them evictable and unprotected
(`EvictAnswers`), so the first four theorems hold of any scoring. The refinement has one
lemma per call: `ReserveStep`, `StoreEndsStep`, `LoadStep`, `LoadEndsStep`, `OtherSteps`.
`SlotsInv` adds that no more blocks are held than there are slots, which needs `evict` to
return exactly as many victims as are missing. The ranking theorems compare the scores of
two blocks: with no history the probability is the floor for their leases, so that equal
leases give equal scores and the tie-break decides, and more leases give no smaller score
when a hit saves anything at all (`0 < Gain`). `PaidTrustStays` is the other half of the
finding `trusted_stay`: the property that run refutes does hold where the rent of a full
tier is less than what a hit on a block of one lease is expected to save.

`TierContentsProofs`, on top of `TierProofs`: a host tier of any capacity, any blocks and
sizes, any views of the index, under each of the five policies without foresight. Of the
calls it assumes only that nobody asks `evict` for zero or fewer bytes (`ContentsAssumption`;
the simulator asks only when room is missing).

    ContentsHold           Spec => []ContentsInv
    EvictFreesEnoughOnly   Spec => []FreesEnoughOnly
    VictimsPartition       Spec => VictimsArePartition
    OneChainIsCut          Spec => []OneChainCut

`ContentsInv` says that no key is in the tier twice and every size is a natural number;
without the first, a sum over keys is not the sum over entries and "the shortest beginning
that frees enough" may free a block twice. `TierProofs` has what one call does: the
victims are a beginning of the order and the shortest one that frees enough; the order is
a permutation (`Arranged` has exactly one answer, `VictimRanks` and the lemmas before it),
chains come after one another, and the HBM pool drops a beginning of what is unprotected.

`ReplayProofs`: any of the six policies (`KnownPolicies`), any trace, estimates and
capacities; any sessions, roles, prompts.

    ReplayKeepsIndex         Spec => []IndexP!IndexInv
    LeasesEndWithReplay      Spec => []NoLeaseAfterEnd
    TiersHold                Spec => []TiersInv
    HbmAccountedThroughout   Spec => []HbmAccounted
    HbmBoundedThroughout     Spec => []HbmBounded
    TiersChargeKnownBlocks   Spec => []ChargesKnownBlocks
    ThrashIsDemotion         Spec => []ThrashAnswersDemotion
    NewBlocksAlwaysLand      Spec => []NewBlocksLand
    LargeTierKeepsEverything Spec => []KeepsEverything
    HostDeparturesRecorded   Spec => DeparturesRecorded
    HostFitsAsCharged        Spec /\ [][VictimsAsCharged]_vars => []HostFits
    HbmOldestGoFirst         Spec => OldestGoFirst
    HbmStopsWhenEnough       Spec => StopsWhenEnough
    SharedBlocksGoLast       Spec => SharedGoLast
    PrivateChainsGoLeafFirst Spec => PrivateLeafFirst
    OracleHolds              Spec => [](TiersInv /\ OracleInv)
    OracleKnowsNextUse       Spec => []NextUseKnown
    OracleDropsFarthest      Spec => FarthestFirst
    LapsesAwaitReturns       ASSUME ReturnsInWindow PROVE Spec => NoLapseBeforeReturn

A turn is a request of the index whatever the tiers do (`RequestInv`, from
`TouchPreservesInv`), so what is proved of the index alone holds inside a replay; since
every lease is on its holder's path (`LeaseExact`), releasing the paths leaves none
(`FinishReleases`).

`TiersInv` ties the three components together. Of the pool it says that no key is in it
twice, that `used` is the sum of its sizes, that each size is at most what the index knows
of the block, and that the pool is in the order of the index's `last_use` (`PoolInv`); the
last is why `OldestGoFirst` holds although the pool never looks at a clock. Of the host tier
it says that no key is in it twice, that each entry is known to the index and charged with
no more than the block takes, and that it has a lifetime only under a policy that gives
one (`KnownEntries`). It adds the counters, the oracle's knowledge of some next use of
what it holds (`PlanInv`), `IndexInv` with the history of the blocks, and those of the
properties that are inductive only beside all this: `HbmBounded`, `ThrashAnswersDemotion`,
`KeepsEverything`, `NewBlocksLand`. The parts need each other: what fills HBM is the cut
of the path that both tiers' contents give, and a block is charged what the index says of
it at that time.

`HostFitsAsCharged` is the other half of the finding `host_overcommit`. `HostFits` fails
there because room is credited with what the index says of a victim now;
`VictimsAsCharged` says that no block `evict` gives up in a turn takes more than its entry
was charged with, and is the whole hypothesis. What a batch then inserts is at most the
room the tier had and the room its victims gave back (`RoomGained`, `BatchFits`), for
every policy, refused and cut batches included; `LifeInv` adds that lifetimes are numbers,
which the order of the TTL policies' victims needs.

`OracleInv` says of each entry that its recorded next use is the first planned use after
its last touch, and that no turn has used the block since: a use of a block the tier holds
is a hit, and a hit is touched in that same turn and looked ahead for again. So a schedule
refreshed only for the blocks of the last turn is never stale for a block that is held.
`ReturnInv`, for `continuum_ttl`, says that an entry on the path of a session whose
announced return is still ahead does not lapse before it (`Awaited`). It assumes that no
return is announced farther ahead than `StaleAfter` (`ReturnsInWindow`), after which the
code no longer counts the lease as live; without it the property is false.

`ExperimentsProofs`, the offline replay: any sessions, contexts, roles, lifetimes and gaps,
in any order; the blocks of a context are distinct and there is one of its own for each turn
(`RunnerAssumption`).

    WastedIsEveryDeparture   RunnerSpec => []WastedIsTurnover
    ShorterLivedGoFirst      ASSUME LifetimesApart PROVE RunnerSpec => LongerLivedStay
    OffloadReplayKeepsRoom   RunnerSpec => []WithinSlots /\ ExactRoom

Every block held was stored by some session and stays in `served` for good
(`TurnoverInv`), which is why each displacement finds it there. `LifetimesInv` brackets
`expires` of a block between the lifetime it was given last and that lifetime plus the
last reading some session's turn can take; nothing is pinned between turns. If lifetimes are
farther apart than that, a smaller lifetime means an earlier expiry, and one that has
lapsed at the reading of the eviction is never the longer one. `LifetimesApart` is evaluated
on the instance TLC checks. `ExactRoom` says that a turn displaces exactly as many blocks as
those it stores need, and a refused turn none; with it the tier never outgrows its slots.

`ExperimentsProofs`, the policy of lifetimes under the engine's own calls: any keys, slots,
roles and lifetimes, stores and loads ending in any order or failing.

    TtlPolicyFollowsTier   Spec => [](LifetimesKept /\ WithinSlots)
    TtlSparesReaders       Spec => ReadersStay
    TtlKeepsContract       Spec /\ MakesRoomAlone => Contract!Spec
    InUseStayAlone         Spec /\ MakesRoomAlone => InUseStay

`TtlInv` says that the policy has a lifetime for exactly the blocks the tier holds and
that the keys it has marked are those being read. That alone keeps readers safe, but not
writers, which `insert` does not mark, so that neither `InUseStay` nor the contract holds of
`Spec` alone. `MakesRoomAlone` is what is missing, and all that is: room is
made for a store only when no other store is under way, as in every stream of
`src/experiments`, where `complete_store` follows `prepare_store` in one call. Under it the
policy implements `OffloadContract`, busy being what is read or written. `Spec` loads a block for one request at a time.

`ExperimentsProofs`, the connector's lookup: any chunk widths of which each divides the
next wider one, any prompts of at least a full-attention chunk, any holes in the tier, any
number of tokens already computed, with a draft model or without.

    LookupIsLongest    ASSUME mamba < fa PROVE LookupSpec => []HitIsLongest
    StoreIsServed      ASSUME 2 * mamba < fa, prompts of two full-attention chunks
                       PROVE LookupSpec => []StoreServesLookup
    RingAlwaysVetoes   ASSUME qsa < mamba PROVE LookupSpec => []RingVetoes

`LookupInv` says what the tier can hold and where a lookup can start: only chunks a group
has, after a store just those that pass its filter, and whole Mamba chunks computed. The
rest is about one lookup of one such state. `AttentionPass` shows that full attention
leaves the largest boundary its unbroken run can carry; `RecurrentPass` that the Mamba
group takes the last of the boundaries up to there at which its state is held, and a veto
exactly if there is none: where no run of the window's length is found, the leading hits
the code falls back to never make a chunk. That no group need be asked again is the
content of `LoadableBoundaries`: what full attention leaves is a Mamba boundary, so
narrowing it further to another one takes nothing from full attention. `StoreIsServed`
follows from `LookupIsLongest` by comparing the filter's remainders with the boundaries.
`RingFound` is the ring's part: its single block makes one hit, at index 0 only, so that
at most one of its chunks is left, which is less than a Mamba chunk.

The hypotheses hold for the deployed widths (816, 8, 16) and on the instance TLC checks,
which evaluates them. They are needed, as TLC shows on instances without them: with a draft
model and chunks of equal width, full attention is asked for no chunk beyond the first
boundary tried, loses the draft's from what it finds and answers a chunk less than it
could; with only two Mamba chunks to a full-attention chunk the filter for a draft model
keeps all states, and the lookup finds one boundary more than `StoreServesLookup` says; of
a prompt of one full-attention chunk a draft model can load nothing; and a ring as wide as
a Mamba chunk vetoes nothing.

`SyntheticMixProofs`: any sessions, sizes and block size, as long as a coding turn adds at
least a block (`GrowsByABlock`; with the defaults, 880 tokens to a block of 816).

    EarlierRollbackRecorded   ASSUME MixAssumption, GrowsByABlock
                              PROVE MixSpec => RecordsEarlierRollback

It says what is recorded where the run `abort_marks` shows what is not: only the tail of a
rollback that came before the one marked. `MixAssumption` says what the parameters of a mix
are. The invariant says that a coding session's path is that of a prompt at least a block
smaller than the next prompt and the last cut together. A path is shorter only if
something was cut (`PathLengthMonotone`), and then by no more blocks than were cut, even
where the cut reaches into the shared root (`PathLengthCut`).

*How sums and lists of any length are reasoned about.* The library's induction theorems
take the property as an operator, which the installed provers cannot instantiate. An
induction is therefore written as its contrapositive: the counterexamples form a set, a set
of numbers or of finite sets has a least element (`NatMin`, `FiniteMin` in
`ItemListsProofs`, from the well-foundedness of the order, whose theorem takes a set), and
the step shows that the least one is none. Sums are `SumFunctionOnSet`, which takes
elements in an order that `CHOOSE` fixes; `AddsExists` and `AddsUnique` establish the
recursive function behind it, and `SumRemove`, `SumUnion`, `SumSubset` free it from the
order. `Sublist` is a recursive function over positions, and `Enumerates` says which
increasing map of positions it realises. The other modules cite those lemmas only.
`Replay` uses its components through INSTANCE; the lemmas named `Same...` say that an operator
of a component and its instance inside `Replay` are the same function of the same state.

Only model-checked:

* `HostFits` without a hypothesis: it does not hold for every value of the constants, as
  `host_overcommit` shows. The run `replay` checks the rest of the accounting, where
  growth does not add up to an overcommitment.
* `ReferencesReturn`: liveness, out of the prover's reach.

## 7. Not modelled, and the plan

* *Floating-point values*: costs, the exponential reuse estimate and its smoothed
  interval. Where a decision reads them the models allow every value of a small set.
* *Queueing servers* of the simulator and `_finalize`: they turn recompute and restore
  into seconds that no residency decision reads.
* *Loaders* of `trace.py`: parsing of recorded files. `load_cc_transcript` takes the gap
  that has already passed for the announced one.
* *Command line, report table, launch plan, cost model and configuration*: arithmetic,
  parsing and rendering without state.
* *Engine*: the probes that drive real engine classes, and everything of the engine
  beyond what `OffloadManager` says.
* *Without a caller*: `Probe.chain_reuse_prob`, `has_history`, `TierPolicy.admit`,
  `AdaptiveValuePolicy.value`, `HBMTier.touch`.
* *The other streams of the offline replay*: the recorded one and the library's own `lru`
  and `arc`. Only the mixed stream over the TTL policy is modelled.

Left to do, in this order:

1. `TtlKeepsContract` without its hypothesis, once `insert` looks at the reference count,
   and a refinement of `OffloadContract` by the offline replay, whose transfers end inside
   a turn (a step of the replay is a reservation and a release).
2. A replay whose trace is the generated workload, so that the marks of section 4 meet
   the tiers.
