----------------------------- MODULE ConnectorLookup -----------------------------
(***************************************************************************)
(* How far a stored prompt can be loaded back: the lookup of the offloading*)
(* connector over cache groups with chunks of different widths, as predict *)
(* of src/experiments/connector_lookup_veto_probe.py mirrors it, after the *)
(* store whose gating connector_ring_classify_probe.py reproduces.         *)
(*                                                                         *)
(* The three groups are full attention, the QSA ring, which is one pinned  *)
(* block, and the Mamba state, of which only the latest counts.  A mode is *)
(* one of the three classifications of the ring that the probe compares.   *)
(* A chunk is <<group, index>>; the prompt is the same throughout.         *)
(***************************************************************************)
EXTENDS Integers, FiniteSetsExt

CONSTANTS
    Width,      \* group -> tokens_per_chunk
    Prompts     \* prompt sizes in tokens

Groups == {"fa", "qsa", "mamba"}
MODES == {"old05", "classify_only", "fixed"}

ASSUME WidthAssumption ==
    /\ Width \in [Groups -> Nat \ {0}]
    /\ Width["fa"] % Width["mamba"] = 0 /\ Width["mamba"] % Width["qsa"] = 0

ASSUME PromptsAssumption == Prompts \subseteq {n \in Nat : n >= Width["fa"]}

VARIABLES
    mode, eagle,    \* classification of the ring, is_eagle_group of every group
    num_tokens,     \* size of the prompt
    resident,       \* chunks the manager holds
    gated,          \* they are what the store gating left, not a population by hand
    computed,       \* num_locally_computed_tokens of the last lookup
    hit             \* its answer in tokens, NotAsked: none yet

lookupVars == <<mode, eagle, num_tokens, resident, gated, computed, hit>>

NotAsked == -1
Full == 0       \* window of a full-attention group, the None of the code
Smaller(a, b) == IF a < b THEN a ELSE b
cdiv(a, b) == (a + b - 1) \div b
round_down(a, b) == (a \div b) * b

(***************************************************************************)
(* Groups                                                                  *)
(***************************************************************************)
\* sliding_window_size_in_chunks: the ring is full attention in the shipped patch.
Window(g) ==
    CASE g = "fa" -> Full
      [] g = "qsa" -> IF mode = "old05" THEN Full ELSE 1
      [] g = "mamba" -> 1

\* _lookup_groups, which are asked full attention first and then the windowed ones;
\* the revised patch leaves the ring out.
lookup_groups == IF mode = "fixed" THEN Groups \ {"qsa"} ELSE Groups

\* offload_keys of a group: whole chunks only.
NumKeys(g) == num_tokens \div Width[g]

(***************************************************************************)
(* Store                                                                   *)
(***************************************************************************)
\* Chunks a group of the request has a block for: the ring has one, pinned.
\* Mutant: it has one per chunk.
HasBlock_Always(g, i) == TRUE
HasBlock(g, i) == g # "qsa" \/ i = 0

\* is_store_reachable_swa_chunk: of a windowed group only the chunks that a
\* lookup can end at, those before a full-attention boundary, one more of them
\* for a draft model.  While the ring counts as full attention its boundaries
\* leave every chunk reachable.  The engine's own function, which simulate_store
\* calls: inferred from the counts and boundaries its probe expects.
\* Mutant: the draft model is not allowed for.
Reachable_NoDraft(g, i) ==
    Window(g) = Full \/ mode = "old05" \/
    LET aligned == Width["fa"] \div Width[g]
    IN  (i % aligned) >= aligned - Window(g)
Reachable(g, i) ==
    Window(g) = Full \/ mode = "old05" \/
    LET aligned == Width["fa"] \div Width[g]
    IN  (i % aligned) >= aligned - (Window(g) + IF eagle THEN 1 ELSE 0)

\* simulate_store: what a prompt leaves in the tier.
Storable ==
    {chunk \in Groups \X (0..num_tokens) :
        LET g == chunk[1]
            i == chunk[2]
        IN  /\ i < NumKeys(g)
            /\ ~(mode = "fixed" /\ g = "qsa")
            /\ HasBlock(g, i) /\ Reachable(g, i)}

\* store_group: all keys of a group, the last one, or a number of leading ones.
store_group(g) ==
    LET Chunks(lo, hi) == {<<g, i>> : i \in lo..(hi - 1)}
    IN  {Chunks(0, n) : n \in 0..NumKeys(g)} \cup {Chunks(NumKeys(g) - 1, NumKeys(g))}

(***************************************************************************)
(* Lookup                                                                  *)
(***************************************************************************)
\* Chunks of group g from index lo, below hi: how many are held without a hole.
leading_hits(g, lo, hi) ==
    LET missing == {i \in lo..(hi - 1) : <<g, i>> \notin resident}
    IN  IF missing = {} THEN (IF hi < lo THEN 0 ELSE hi - lo) ELSE Min(missing) - lo

\* The end of the last run of window held chunks, counted from lo; without one,
\* the leading hits.
\* Mutant: the first run is taken.
trailing_run_First(g, lo, hi, window) ==
    LET starts == {i \in lo..(hi - window) : \A j \in i..(i + window - 1) : <<g, j>> \in resident}
    IN  IF starts = {} THEN leading_hits(g, lo, hi) ELSE Min(starts) + window - lo
trailing_run(g, lo, hi, window) ==
    LET starts == {i \in lo..(hi - window) : \A j \in i..(i + window - 1) : <<g, j>> \in resident}
    IN  IF starts = {} THEN leading_hits(g, lo, hi) ELSE Max(starts) + window - lo

\* Chunks of g that the lookup finds below max_hit.  An unverified draft group is
\* asked for one chunk more, which is then taken off again.
Found(g, max_hit, from) ==
    LET w == Width[g]
        reach == IF eagle /\ Window(g) # Full
                 THEN Smaller(max_hit + w, NumKeys(g) * w) ELSE max_hit
        hi == Smaller(cdiv(reach, w), NumKeys(g))
    IN  IF Window(g) = Full THEN leading_hits(g, from, hi)
        ELSE trailing_run(g, from, hi, Window(g) + IF eagle THEN 1 ELSE 0)

\* One group lowers the boundary or, left with less than a chunk, vetoes it (0).
Narrowed(max_hit, g, from_tokens) ==
    LET w == Width[g]
        capped == Smaller(max_hit, NumKeys(g) * w)
        from == from_tokens \div w
        nhit == Found(g, capped, from)
        reached == Smaller(capped, w * (from + nhit - IF eagle THEN 1 ELSE 0))
    IN  IF capped - from_tokens < w \/ nhit = 0 \/ reached - from_tokens < w
        THEN 0 ELSE reached

\* A veto is final, and a group the lookup leaves out has no say.
Passed(max_hit, g, from_tokens) ==
    IF max_hit = 0 \/ g \notin lookup_groups THEN max_hit
    ELSE Narrowed(max_hit, g, from_tokens)

\* predict: the boundary every lookup group agrees on, in one pass over them.
predict(from_tokens) ==
    LET attended == Passed(round_down(num_tokens - 1, Width["mamba"]), "fa", from_tokens)
        boundary == Passed(Passed(attended, "qsa", from_tokens), "mamba", from_tokens)
    IN  IF boundary = 0 THEN 0 ELSE boundary - from_tokens

(***************************************************************************)
(* Actions                                                                 *)
(***************************************************************************)
LookupInit ==
    /\ mode \in MODES /\ eagle \in BOOLEAN /\ num_tokens \in Prompts
    /\ resident = {} /\ gated = FALSE
    /\ computed = 0 /\ hit = NotAsked

\* A prompt of whole full-attention chunks, as the one of the probe is, is stored
\* in the fresh tier.
Store ==
    /\ resident = {} /\ num_tokens % Width["fa"] = 0
    /\ resident' = Storable /\ gated' = TRUE
    /\ computed' = 0 /\ hit' = NotAsked
    /\ UNCHANGED <<mode, eagle, num_tokens>>

\* A probe case fills the fresh tier group by group.
Populate ==
    /\ resident = {} /\ hit = NotAsked
    /\ \E fa \in store_group("fa"), qsa \in store_group("qsa"), mamba \in store_group("mamba") :
          resident' = fa \cup qsa \cup mamba
    /\ gated' = FALSE
    /\ computed' = 0 /\ hit' = NotAsked
    /\ UNCHANGED <<mode, eagle, num_tokens>>

\* lookup_after_store and run_case: the first tokens of the prompt may have been
\* computed locally, in whole Mamba chunks.
Lookup ==
    /\ hit = NotAsked
    /\ \E n \in {round_down(m, Width["mamba"]) : m \in 0..(num_tokens - 1)} :
          computed' = n /\ hit' = predict(n)
    /\ UNCHANGED <<mode, eagle, num_tokens, resident, gated>>

LookupNext == Store \/ Populate \/ Lookup

LookupSpec == LookupInit /\ [][LookupNext]_lookupVars

(***************************************************************************)
(* Properties                                                              *)
(***************************************************************************)
\* Chunks a draft model needs beyond the boundary it loads to.
Draft == IF eagle THEN 1 ELSE 0

\* Full attention has every chunk up to token b, and the draft's.
Attended(b) ==
    \A i \in (computed \div Width["fa"])..(cdiv(b, Width["fa"]) + Draft - 1) : <<"fa", i>> \in resident

\* The Mamba state at token b, and the draft's, are there.
Recurrent(b) ==
    /\ b % Width["mamba"] = 0
    /\ \A k \in 0..Draft : <<"mamba", b \div Width["mamba"] - 1 + k>> \in resident

\* The tokens up to b can be loaded on top of the computed ones; there is a whole
\* chunk of full attention to load, and the last token is left to compute.
Loadable(b) ==
    LET loaded == Max({b, computed + Width["fa"]})
    IN  /\ loaded <= round_down(num_tokens - 1, Width["mamba"])
        /\ Attended(loaded) /\ Recurrent(b)

\* With the ring out of the lookup, the single pass over the groups finds the
\* longest boundary that every group can really serve: it promises no tokens
\* whose state is missing, and misses none, wherever the tier has holes and
\* however much the engine had computed (predict, lines 276-338).
HitIsLongest ==
    (mode = "fixed" /\ hit # NotAsked) =>
        hit = Max({b - computed : b \in {c \in (computed + 1)..num_tokens : Loadable(c)}} \cup {0})

\* What store gating leaves serves the next lookup of the same prompt up to the
\* last boundary before the token that must be recomputed, less one state for a
\* draft model: the store filter and the lookup window agree (classify probe,
\* "fixed restores a large hybrid match", lines 279-301).
StoreServesLookup ==
    (mode = "fixed" /\ gated /\ hit # NotAsked /\ computed = 0) =>
        hit = num_tokens - Width["fa"] - Draft * Width["mamba"]

\* As long as the ring takes part in the lookup, whatever its window, its one
\* pinned block vetoes every load of a stored prompt (classify probe, lines
\* 276-282: "positive window without exclusion is insufficient").
RingVetoes == (mode # "fixed" /\ gated) => hit \in {NotAsked, 0}
================================================================================
