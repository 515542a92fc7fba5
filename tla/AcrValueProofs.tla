----------------------------- MODULE AcrValueProofs ------------------------------
(***************************************************************************)
(* Theorems of AcrValue, for any finite set of keys, any number of slots,  *)
(* any weights, costs, estimates and hints, and any number of calls.       *)
(*                                                                         *)
(* What the proofs of the invariant and of the contract use of evict is    *)
(* EvictAnswers alone: as many victims as asked, all of them evictable and *)
(* none protected.  How they are ranked matters to the last section only.  *)
(***************************************************************************)
EXTENDS AcrValue, FiniteSetTheorems, TLAPS

\* What a call leaves of the tier: the domain and the values of the manager's
\* counts, as sets of keys.
LEMMA EvictAnswers ==
    ASSUME NEW n, NEW protected, NEW V \in evict(n, protected)
    PROVE  V \subseteq evictable \ protected /\ Cardinality(V) = n
BY DEF evict

LEMMA PrepareStoreEffect ==
    ASSUME NEW keys, NEW victims, prepare_store(keys, victims)
    PROVE  /\ Held' = (Held \ victims) \cup KeysToStore(keys)
           /\ \A k \in Held' :
                 blocks'[k] = IF k \in KeysToStore(keys) THEN InFlight ELSE blocks[k]
BY DEF prepare_store, Held, Extended, Without

LEMMA CompleteStoreEffect ==
    ASSUME NEW keys \in SUBSET Storing, complete_store(keys)
    PROVE  /\ Held' = Held
           /\ \A k \in Held' : blocks'[k] = IF k \in keys THEN 0 ELSE blocks[k]
BY DEF complete_store, Held, Extended, Storing

LEMMA FailStoreEffect ==
    ASSUME NEW keys, fail_store(keys)
    PROVE  Held' = Held \ keys /\ \A k \in Held' : blocks'[k] = blocks[k]
BY DEF fail_store, Held, Without

\* What a touch makes of the meta of a block is the meta of a block.
LEMMA TouchedMeta ==
    ASSUME TypeOK, NEW m \in BlockMeta, NEW hints \in Hints
    PROVE  Touched(m, hints) \in BlockMeta
<1> DEFINE seen == [m EXCEPT !.last_use = now, !.uses = @ + 1,
                             !.iat_known = @ \/ now > m.last_use]
<1>1. now \in Nat
  BY DEF TypeOK
<1>2. (m.iat_known \/ now > m.last_use) \in BOOLEAN
  BY DEF BlockMeta
<1>3. seen \in BlockMeta
  <2>1. seen = [m EXCEPT !.last_use = now, !.uses = m.uses + 1,
                         !.iat_known = m.iat_known \/ now > m.last_use]
    OBVIOUS
  <2>2. \A b \in BOOLEAN :
           [m EXCEPT !.last_use = now, !.uses = m.uses + 1, !.iat_known = b] \in BlockMeta
    <3>1. m.uses + 1 \in Nat
      BY DEF BlockMeta
    <3>2. \A u \in Nat, b \in BOOLEAN :
             [m EXCEPT !.last_use = now, !.uses = u, !.iat_known = b] \in BlockMeta
      BY <1>1, Zenon DEF BlockMeta
    <3> QED
      BY <3>1, <3>2
  <2> QED
    BY <2>1, <2>2, <1>2
<1>4. CASE hints = NoHints
  BY <1>3, <1>4 DEF Touched
<1>5. CASE hints # NoHints
  <2>1. hints \in [role : Roles, eta : Nat, leases : Nat]
    BY <1>5, ValueAssumption
  <2>2. Weights[hints.role] \in Nat \ {0}
    BY <2>1, ValueAssumption
  <2>3. Lesser(now + hints.eta, now) \in Nat
    BY <2>1, <1>1 DEF Lesser
  <2>4. (IF hints.leases = 0 THEN seen.leases ELSE hints.leases) \in Nat
    BY <2>1, <1>3 DEF BlockMeta
  <2>5. Touched(m, hints) =
           [seen EXCEPT !.weight = Weights[hints.role],
                        !.last_use = Lesser(now + hints.eta, now),
                        !.leases = IF hints.leases = 0 THEN @ ELSE hints.leases]
    BY <1>5 DEF Touched
  <2> HIDE DEF seen
  <2> QED
    BY <2>2, <2>3, <2>4, <2>5, <1>3 DEF BlockMeta
<1> QED
  BY <1>4, <1>5

LEMMA FreshMeta == ASSUME TypeOK PROVE Fresh \in BlockMeta
BY DEF TypeOK, Fresh, BlockMeta, Unit

--------------------------------------------------------------------------------
(***************************************************************************)
(* The invariant: types, and the evictable set agrees with the counts of   *)
(* the manager.  Neither is inductive alone: that a victim is in no use is *)
(* what keeps the pinned keys held, and that pinned keys are held is what  *)
(* makes the set of a failed store the right one.                          *)
(***************************************************************************)
Inv == TypeOK /\ EvictableExact

LEMMA InitInv == ASSUME Init PROVE Inv
<1>1. DOMAIN <<>> = {}
  OBVIOUS
<1>2. <<>> \in [{} -> Int] /\ <<>> \in [{} -> BlockMeta]
  BY <1>1
<1> QED
  BY <1>1, <1>2 DEF Init, Inv, TypeOK, EvictableExact, Held, Idle

LEMMA PrepareStoreInv ==
    ASSUME Inv, NEW keys \in SUBSET Key, PrepareStore(keys)
    PROVE  Inv'
<1>1. PICK victims \in evict(Shortfall(keys), keys) :
         /\ prepare_store(keys, victims)
         /\ evictable' = Inserted(keys, victims)
         /\ meta' = Extended(Without(meta, victims), KeysToStore(keys), Fresh)
  BY DEF PrepareStore
<1>2. victims \subseteq Idle \ pinned
  BY EvictAnswers DEF Inv, EvictableExact
<1>3. /\ Held' = (Held \ victims) \cup KeysToStore(keys)
      /\ \A k \in Held' :
            blocks'[k] = IF k \in KeysToStore(keys) THEN InFlight ELSE blocks[k]
  BY <1>1, PrepareStoreEffect
<1>4. KeysToStore(keys) \cap Held = {} /\ KeysToStore(keys) \subseteq Key
  BY DEF KeysToStore
<1>5. Idle' = Idle \ victims
  BY <1>2, <1>3, <1>4 DEF Idle, InFlight
<1>6. evictable' = (Idle \ pinned) \ victims /\ UNCHANGED <<pinned, now>>
      /\ calls' = calls + 1
  BY <1>1 DEF PrepareStore, Call, Inserted, Inv, EvictableExact
<1>7. EvictableExact'
  BY <1>5, <1>6 DEF EvictableExact
<1>8. blocks' \in [Held' -> Int] /\ \A k \in Held' : blocks'[k] >= InFlight
  <2>1. blocks' = [k \in Held' |-> IF k \in KeysToStore(keys) THEN InFlight ELSE blocks[k]]
    BY <1>1, <1>3 DEF prepare_store, Extended, Without, Held
  <2>2. \A k \in Held' \ KeysToStore(keys) : blocks[k] \in Int /\ blocks[k] >= InFlight
    BY <1>3 DEF Inv, TypeOK
  <2> QED
    BY <2>1, <2>2 DEF InFlight
<1>9. meta' \in [Held' -> BlockMeta]
  BY <1>1, <1>3, FreshMeta DEF Inv, TypeOK, Extended, Without
<1>10. TypeOK'
  BY <1>2, <1>3, <1>4, <1>5, <1>6, <1>8, <1>9 DEF Inv, TypeOK, Idle
<1> QED
  BY <1>7, <1>10 DEF Inv

LEMMA CompleteStoreInv ==
    ASSUME Inv, NEW keys \in SUBSET Storing, CompleteStore(keys)
    PROVE  Inv'
<1>1. Held' = Held /\ \A k \in Held' : blocks'[k] = IF k \in keys THEN 0 ELSE blocks[k]
  BY CompleteStoreEffect DEF CompleteStore
<1>2. Idle' = Idle \cup keys
  BY <1>1 DEF Idle, Storing, InFlight
<1>3. /\ evictable' = evictable \cup keys /\ pinned' = pinned \ keys
      /\ UNCHANGED <<meta, now, calls>>
  BY DEF CompleteStore, Marked
<1>4. keys \cap Idle = {} /\ keys \subseteq Held
  BY DEF Idle, Storing, InFlight
<1>5. EvictableExact'
  BY <1>2, <1>3, <1>4 DEF Inv, EvictableExact
<1>6. blocks' \in [Held' -> Int] /\ \A k \in Held' : blocks'[k] >= InFlight
  BY <1>1 DEF Inv, TypeOK, InFlight, CompleteStore, complete_store, Extended, Held
<1>7. TypeOK'
  BY <1>1, <1>3, <1>4, <1>6 DEF Inv, TypeOK
<1> QED
  BY <1>5, <1>7 DEF Inv

LEMMA FailStoreInv ==
    ASSUME Inv, NEW keys \in SUBSET Storing, FailStore(keys)
    PROVE  Inv'
<1>1. Held' = Held \ keys /\ \A k \in Held' : blocks'[k] = blocks[k]
  BY FailStoreEffect DEF FailStore
<1>2. keys \cap Idle = {}
  BY DEF Idle, Storing, InFlight
<1>3. Idle' = Idle
  BY <1>1, <1>2 DEF Idle
<1>4. /\ evictable' = evictable \ keys /\ pinned' = pinned \ keys
      /\ meta' = Without(meta, keys) /\ UNCHANGED <<now, calls>>
  BY DEF FailStore
<1>5. EvictableExact'
  BY <1>2, <1>3, <1>4 DEF Inv, EvictableExact
<1>6. blocks' \in [Held' -> Int] /\ \A k \in Held' : blocks'[k] >= InFlight
  BY <1>1 DEF Inv, TypeOK, FailStore, fail_store, Without, Held
<1>7. meta' \in [Held' -> BlockMeta]
  BY <1>1, <1>4 DEF Inv, TypeOK, Without
<1>8. TypeOK'
  BY <1>1, <1>4, <1>6, <1>7 DEF Inv, TypeOK
<1> QED
  BY <1>5, <1>8 DEF Inv

\* A load is one reference more or less; a block it leaves behind was in the tier.
LEMMA PrepareLoadInv ==
    ASSUME Inv, NEW k \in Idle \cup Loading, PrepareLoad(k)
    PROVE  Inv'
<1>1. k \in Held /\ blocks[k] \in Nat
  BY DEF Inv, TypeOK, Idle, Loading
<1>2. blocks' = [blocks EXCEPT ![k] = blocks[k] + 1] /\ evictable' = evictable \ {k}
      /\ UNCHANGED <<meta, pinned, now>> /\ calls' = calls + 1
  BY DEF PrepareLoad, prepare_load, Call
<1>3. Held' = Held /\ \A j \in Held : blocks'[j] = IF j = k THEN blocks[k] + 1 ELSE blocks[j]
  BY <1>1, <1>2 DEF Inv, TypeOK, Held
<1>4. Idle' = Idle \ {k}
  BY <1>1, <1>3 DEF Idle
<1>5. EvictableExact'
  BY <1>2, <1>4 DEF Inv, EvictableExact
<1>6. blocks' \in [Held' -> Int] /\ \A j \in Held' : blocks'[j] >= InFlight
  BY <1>1, <1>2, <1>3 DEF Inv, TypeOK, InFlight
<1>7. TypeOK'
  BY <1>2, <1>3, <1>6 DEF Inv, TypeOK
<1> QED
  BY <1>5, <1>7 DEF Inv

LEMMA CompleteLoadInv ==
    ASSUME Inv, NEW k \in Loading, CompleteLoad(k)
    PROVE  Inv'
<1>1. k \in Held /\ blocks[k] \in Nat \ {0}
  BY DEF Inv, TypeOK, Loading
<1>2. blocks' = [blocks EXCEPT ![k] = blocks[k] - 1] /\ UNCHANGED <<meta, now, calls>>
  BY DEF CompleteLoad, complete_load
<1>3. Held' = Held /\ \A j \in Held : blocks'[j] = IF j = k THEN blocks[k] - 1 ELSE blocks[j]
  BY <1>1, <1>2 DEF Inv, TypeOK, Held
<1>4. blocks' \in [Held' -> Int] /\ \A j \in Held' : blocks'[j] >= InFlight
  BY <1>1, <1>2, <1>3 DEF Inv, TypeOK, InFlight
<1>5. CASE blocks[k] = 1
  <2>1. evictable' = evictable \cup {k} /\ pinned' = pinned \ {k}
    BY <1>5 DEF CompleteLoad, Marked
  <2>2. Idle' = Idle \cup {k}
    BY <1>1, <1>3, <1>5 DEF Idle
  <2>3. EvictableExact' /\ TypeOK'
    BY <1>1, <1>2, <1>3, <1>4, <2>1, <2>2 DEF Inv, EvictableExact, TypeOK
  <2> QED
    BY <2>3 DEF Inv
<1>6. CASE blocks[k] # 1
  <2>1. UNCHANGED <<evictable, pinned>>
    BY <1>6 DEF CompleteLoad
  <2>2. Idle' = Idle
    BY <1>1, <1>3, <1>6 DEF Idle
  <2>3. EvictableExact' /\ TypeOK'
    BY <1>2, <1>3, <1>4, <2>1, <2>2 DEF Inv, EvictableExact, TypeOK
  <2> QED
    BY <2>3 DEF Inv
<1> QED
  BY <1>5, <1>6

LEMMA TouchInv ==
    ASSUME Inv, NEW keys \in SUBSET Key, NEW hints \in Hints, Touch(keys, hints)
    PROVE  Inv'
<1>1. meta' = [k \in DOMAIN meta |-> IF k \in keys THEN Touched(meta[k], hints) ELSE meta[k]]
      /\ UNCHANGED <<blocks, evictable, pinned, now>> /\ calls' = calls + 1
  BY DEF Touch, touch, Call
<1>2. meta \in [Held -> BlockMeta]
  BY DEF Inv, TypeOK
<1>3. \A k \in Held : Touched(meta[k], hints) \in BlockMeta
  BY <1>2, TouchedMeta DEF Inv
<1>4. meta' \in [Held -> BlockMeta]
  BY <1>1, <1>2, <1>3
<1>5. Held' = Held /\ Idle' = Idle
  BY <1>1 DEF Held, Idle
<1> QED
  BY <1>1, <1>4, <1>5 DEF Inv, TypeOK, EvictableExact

LEMMA OthersInv ==
    ASSUME Inv,
           (\E k \in Held : Pin(k)) \/ Clear \/ Tick \/ UNCHANGED vars
    PROVE  Inv'
<1>1. ASSUME NEW k \in Held, Pin(k) PROVE Inv'
  <2>1. /\ evictable' = evictable \ {k} /\ pinned' = pinned \cup {k}
        /\ UNCHANGED <<blocks, meta, now>> /\ calls' = calls + 1
    BY <1>1 DEF Pin, Call
  <2>2. Held' = Held /\ Idle' = Idle
    BY <2>1 DEF Held, Idle
  <2> QED
    BY <2>1, <2>2 DEF Inv, TypeOK, EvictableExact
<1>2. CASE Clear
  <2>1. DOMAIN <<>> = {} /\ <<>> \in [{} -> Int] /\ <<>> \in [{} -> BlockMeta]
    OBVIOUS
  <2> QED
    BY <1>2, <2>1 DEF Clear, Call, Inv, TypeOK, EvictableExact, Held, Idle
<1>3. CASE Tick
  BY <1>3 DEF Tick, Inv, TypeOK, EvictableExact, Held, Idle
<1>4. CASE UNCHANGED vars
  BY <1>4 DEF vars, Inv, TypeOK, EvictableExact, Held, Idle
<1> QED
  BY <1>1, <1>2, <1>3, <1>4

LEMMA NextInv == ASSUME Inv, [Next]_vars PROVE Inv'
BY PrepareStoreInv, CompleteStoreInv, FailStoreInv, PrepareLoadInv, CompleteLoadInv,
   TouchInv, OthersInv
   DEF Next, Request, StoreEnds, LoadEnds

\* Types, and the two sets side by side, in every reachable state.
THEOREM ManagerInvariant == Spec => []Inv
<1>1. Init => Inv
  BY InitInv
<1>2. Inv /\ [Next]_vars => Inv'
  BY NextInv
<1> QED
  BY <1>1, <1>2, PTL DEF Spec

\* What the policy knows of a block comes and goes with the block, whatever fails.
THEOREM ValueTypeCorrect == Spec => []TypeOK
<1>1. Inv => TypeOK
  BY DEF Inv
<1> QED
  BY <1>1, ManagerInvariant, PTL

\* evict can never return a block that a transfer reads or writes, nor one pinned
\* by hand, and can always return every other one.
THEOREM EvictableIsExact == Spec => []EvictableExact
<1>1. Inv => EvictableExact
  BY DEF Inv
<1> QED
  BY <1>1, ManagerInvariant, PTL

--------------------------------------------------------------------------------
(***************************************************************************)
(* Refinement of OffloadContract: busy is what a transfer or a pin holds.  *)
(***************************************************************************)
busy == (Held \ Idle) \cup pinned

LEMMA ContractCounts == ASSUME NEW S PROVE Contract!Cardinality(S) = Cardinality(S)
BY DEF Contract!Cardinality, Cardinality

LEMMA ShortfallIs ==
    ASSUME NEW keys
    PROVE  Shortfall(keys) =
              IF Cardinality(Held) + Cardinality(KeysToStore(keys)) <= Slots THEN 0
              ELSE (Cardinality(Held) + Cardinality(KeysToStore(keys))) - Slots
BY DEF Shortfall

LEMMA ReserveStep ==
    ASSUME Inv, NEW keys \in SUBSET Key, PrepareStore(keys)
    PROVE  \E new, victims \in SUBSET Key : Contract!Reserve(new, victims)
<1>1. PICK victims \in evict(Shortfall(keys), keys) :
         /\ prepare_store(keys, victims)
         /\ evictable' = Inserted(keys, victims)
  BY DEF PrepareStore
<1> DEFINE new == KeysToStore(keys)
<1>2. victims \subseteq Idle \ pinned /\ Cardinality(victims) = Shortfall(keys)
  BY EvictAnswers DEF Inv, EvictableExact
<1>3. /\ Held' = (Held \ victims) \cup new
      /\ \A k \in Held' : blocks'[k] = IF k \in new THEN InFlight ELSE blocks[k]
  BY <1>1, PrepareStoreEffect
<1>4. new # {} /\ new \cap Held = {} /\ new \subseteq Key
  BY DEF PrepareStore, KeysToStore
<1>5. Idle' = Idle \ victims /\ Idle \subseteq Held /\ pinned \subseteq Held
  BY <1>2, <1>3, <1>4 DEF Idle, InFlight, Inv, TypeOK
<1>6. pinned' = pinned
  BY DEF PrepareStore
<1>7. busy' = busy \cup new
  BY <1>2, <1>3, <1>4, <1>5, <1>6 DEF busy
<1>8. victims \subseteq Held \ busy /\ victims \in SUBSET Key
  BY <1>2, <1>5 DEF busy, Inv, TypeOK
<1>9. Cardinality(victims) = IF Cardinality(Held) + Cardinality(new) <= Slots THEN 0
                             ELSE (Cardinality(Held) + Cardinality(new)) - Slots
  BY <1>2, ShortfallIs
<1>10. Contract!Reserve(new, victims)
  <2> HIDE DEF new
  <2> QED
    BY <1>3, <1>4, <1>7, <1>8, <1>9, ContractCounts DEF Contract!Reserve, busy
<1> QED
  BY <1>4, <1>8, <1>10

LEMMA StoreEndsStep ==
    ASSUME Inv, NEW keys \in SUBSET Storing, CompleteStore(keys) \/ FailStore(keys)
    PROVE  Contract!Release(keys) \/ Contract!Abandon(keys)
<1>1. keys \subseteq Held /\ keys \cap Idle = {}
  BY DEF Storing, Idle, InFlight
<1>2. CASE CompleteStore(keys)
  <2>1. Held' = Held /\ \A k \in Held' : blocks'[k] = IF k \in keys THEN 0 ELSE blocks[k]
    BY <1>2, CompleteStoreEffect DEF CompleteStore
  <2>2. Idle' = Idle \cup keys
    BY <2>1, <1>1 DEF Idle
  <2>3. pinned' = pinned \ keys
    BY <1>2 DEF CompleteStore
  <2> QED
    BY <1>1, <2>1, <2>2, <2>3 DEF Contract!Release
<1>3. CASE FailStore(keys)
  <2>1. Held' = Held \ keys /\ \A k \in Held' : blocks'[k] = blocks[k]
    BY <1>3, FailStoreEffect DEF FailStore
  <2>2. Idle' = Idle
    BY <2>1, <1>1 DEF Idle
  <2>3. pinned' = pinned \ keys
    BY <1>3 DEF FailStore
  <2> QED
    BY <1>1, <2>1, <2>2, <2>3 DEF Contract!Abandon
<1> QED
  BY <1>2, <1>3

LEMMA LoadStep ==
    ASSUME Inv, NEW k \in Idle \cup Loading, PrepareLoad(k)
    PROVE  Contract!Take(k)
<1>1. k \in Held /\ blocks[k] \in Nat
  BY DEF Inv, TypeOK, Idle, Loading
<1>2. blocks' = [blocks EXCEPT ![k] = blocks[k] + 1] /\ pinned' = pinned
  BY DEF PrepareLoad, prepare_load
<1>3. Held' = Held /\ \A j \in Held : blocks'[j] = IF j = k THEN blocks[k] + 1 ELSE blocks[j]
  BY <1>1, <1>2 DEF Inv, TypeOK, Held
<1>4. Idle' = Idle \ {k}
  BY <1>1, <1>3 DEF Idle
<1> QED
  BY <1>1, <1>2, <1>3, <1>4 DEF Contract!Take

LEMMA LoadEndsStep ==
    ASSUME Inv, NEW k \in Loading, CompleteLoad(k)
    PROVE  Contract!Release({k}) \/ UNCHANGED Contract!vars
<1>1. k \in Held /\ blocks[k] \in Nat \ {0}
  BY DEF Inv, TypeOK, Loading
<1>2. blocks' = [blocks EXCEPT ![k] = blocks[k] - 1]
  BY DEF CompleteLoad, complete_load
<1>3. Held' = Held /\ \A j \in Held : blocks'[j] = IF j = k THEN blocks[k] - 1 ELSE blocks[j]
  BY <1>1, <1>2 DEF Inv, TypeOK, Held
<1>4. CASE blocks[k] = 1
  <2>1. pinned' = pinned \ {k}
    BY <1>4 DEF CompleteLoad
  <2>2. Idle' = Idle \cup {k} /\ k \notin Idle
    BY <1>1, <1>3, <1>4 DEF Idle
  <2> QED
    BY <1>1, <1>3, <2>1, <2>2 DEF Contract!Release
<1>5. CASE blocks[k] # 1
  <2>1. pinned' = pinned
    BY <1>5 DEF CompleteLoad
  <2>2. Idle' = Idle
    BY <1>1, <1>3, <1>5 DEF Idle
  <2> QED
    BY <1>3, <2>1, <2>2 DEF Contract!vars
<1> QED
  BY <1>4, <1>5

LEMMA OtherSteps ==
    ASSUME Inv
    PROVE  /\ \A k \in Held : Pin(k) => Contract!Take(k)
           /\ Clear => Contract!Reset
           /\ Tick \/ UNCHANGED vars \/ (\E keys \in SUBSET Key, hints \in Hints : Touch(keys, hints))
                 => UNCHANGED Contract!vars
<1>1. ASSUME NEW k \in Held, Pin(k) PROVE Contract!Take(k)
  BY <1>1 DEF Pin, Contract!Take, Held, Idle
<1>2. ASSUME Clear PROVE Contract!Reset
  <2>1. DOMAIN <<>> = {}
    OBVIOUS
  <2> QED
    BY <1>2, <2>1 DEF Clear, Contract!Reset, Held, Idle
<1>3. ASSUME blocks' = blocks, pinned' = pinned PROVE UNCHANGED Contract!vars
  BY <1>3 DEF Contract!vars, Held, Idle
<1> QED
  BY <1>1, <1>2, <1>3 DEF Tick, vars, Touch

LEMMA ContractStep ==
    ASSUME Inv, [Next]_vars
    PROVE  Contract!Next \/ UNCHANGED Contract!vars
<1>0. Held \subseteq Key
  BY DEF Inv, TypeOK
<1>1. ASSUME NEW keys \in SUBSET Key, PrepareStore(keys) PROVE Contract!Next
  BY <1>1, ReserveStep DEF Contract!Next
<1>2. ASSUME NEW k \in Idle \cup Loading, PrepareLoad(k) PROVE Contract!Next
  BY <1>0, <1>2, LoadStep DEF Contract!Next, Idle, Loading
<1>3. ASSUME NEW keys \in SUBSET Storing, CompleteStore(keys) \/ FailStore(keys)
      PROVE  Contract!Next
  BY <1>0, <1>3, StoreEndsStep DEF Contract!Next, Storing
<1>4. ASSUME NEW k \in Loading, CompleteLoad(k)
      PROVE  Contract!Next \/ UNCHANGED Contract!vars
  BY <1>0, <1>4, LoadEndsStep DEF Contract!Next, Loading
<1>5. ASSUME NEW k \in Held, Pin(k) PROVE Contract!Next
  BY <1>0, <1>5, OtherSteps DEF Contract!Next
<1>6. ASSUME Clear PROVE Contract!Next
  BY <1>6, OtherSteps DEF Contract!Next
<1> QED
  BY <1>1, <1>2, <1>3, <1>4, <1>5, <1>6, OtherSteps
     DEF Next, Request, StoreEnds, LoadEnds

\* The manager with this policy keeps the promise of an offload tier: room for all
\* new blocks with no more victims than needed, or nothing changes, and a block that
\* is read, written or pinned keeps its slot.
THEOREM ManagerKeepsContract == Spec => ImplementsContract
<1>1. Init => Contract!Init
  <2>1. DOMAIN <<>> = {}
    OBVIOUS
  <2> QED
    BY <2>1 DEF Init, Contract!Init, Held, Idle
<1>2. Inv /\ [Next]_vars => [Contract!Next]_(Contract!vars)
  BY ContractStep
<1> QED
  BY <1>1, <1>2, ManagerInvariant, PTL DEF Spec, ImplementsContract, Contract!Spec

--------------------------------------------------------------------------------
(***************************************************************************)
(* What the order of evict is worth.                                       *)
(***************************************************************************)
\* No block is taken before one that comes before it in the order of some estimates.
LEMMA StoreTakesLeast ==
    ASSUME Inv, NEW keys \in SUBSET Key, PrepareStore(keys)
    PROVE  \E p : /\ \A v \in Victims, s \in Spared(keys) : ~Before(s, v, p)
                  /\ \A k \in Victims \cup Spared(keys) :
                        k \in Held /\ p[k] \in ProbsOf(meta[k])
<1>1. PICK victims \in evict(Shortfall(keys), keys) : prepare_store(keys, victims)
  BY DEF PrepareStore
<1> DEFINE candidates == evictable \ keys
<1>2. PICK p \in Estimates(candidates) :
          /\ victims \subseteq candidates
          /\ \A v \in victims, c \in candidates \ victims : ~Before(c, v, p)
  BY <1>1 DEF evict
<1>3. \A k \in candidates : p[k] \in ProbsOf(meta[k])
  BY <1>2 DEF Estimates
<1>4. candidates \subseteq Held
  BY DEF Inv, EvictableExact, Idle
<1>5. Held' = (Held \ victims) \cup KeysToStore(keys)
  BY <1>1, PrepareStoreEffect
<1>6. Victims = victims
  BY <1>2, <1>4, <1>5 DEF Victims, KeysToStore, Held
<1>7. Spared(keys) = candidates \ victims
  BY <1>6 DEF Spared
<1> QED
  BY <1>2, <1>3, <1>4, <1>6, <1>7

LEMMA MetaFields ==
    ASSUME NEW m \in BlockMeta
    PROVE  /\ m.last_use \in Nat /\ m.uses \in Nat /\ m.iat_known \in BOOLEAN
           /\ m.leases \in Nat /\ m.weight \in Nat \ {0}
           /\ m.leases = m["leases"] /\ m.weight = m["weight"]
           /\ Sessions(m) \in 1..MaxLeases
BY DEF BlockMeta, Sessions, Lesser, MaxLeases

\* A heavier weight makes more of a positive score.
LEMMA Heavier ==
    ASSUME NEW v \in Int, NEW w \in Int, v < w, NEW x \in Int, 0 < x
    PROVE  v * x < w * x
<1>1. w = v + (w - v) /\ w - v \in Int /\ 0 < w - v
  OBVIOUS
<1>2. ASSUME NEW d \in Int, 0 < d PROVE 0 < d * x
  BY <1>2
<1>3. ASSUME NEW d \in Int PROVE (v + d) * x = v * x + d * x
  BY <1>3
<1> QED
  BY <1>1, <1>2, <1>3

\* Of two blocks without intervals that differ in one respect only: the staler goes
\* first, then the less used; and if a use is worth anything at all, the one that
\* fewer sessions hold.
LEMMA ColdOrder ==
    ASSUME Inv, NEW v \in Held, NEW s \in Held, Cold(v), NEW p,
           p[v] \in ProbsOf(meta[v]), p[s] \in ProbsOf(meta[s]), ~Before(s, v, p)
    PROVE  /\ AlikeBut(v, s, {"last_use", "uses"}) => StalerFirst(v, s)
           /\ 0 < Gain /\ AlikeBut(v, s, {"leases"}) =>
                 Sessions(meta[v]) <= Sessions(meta[s])
<1>1. meta[v] \in BlockMeta /\ meta[s] \in BlockMeta
  BY DEF Inv, TypeOK
<1> DEFINE a == meta[v]
           b == meta[s]
           h == Cardinality(Held)
<1>2. a \in BlockMeta /\ b \in BlockMeta /\ ~a.iat_known
  BY <1>1 DEF Cold
<1>3. score(v, p) = a.weight * (p[v] * Gain - Rent * h)
      /\ score(s, p) = b.weight * (p[s] * Gain - Rent * h)
  BY DEF score
<1>4. /\ ~(score(s, p) < score(v, p))
      /\ score(s, p) = score(v, p) => ~(b.last_use < a.last_use)
      /\ score(s, p) = score(v, p) /\ b.last_use = a.last_use => ~(b.uses < a.uses)
  BY DEF Before
<1>5. p[v] = LeaseProbs[Sessions(a)] /\ (~b.iat_known => p[s] = LeaseProbs[Sessions(b)])
  BY <1>2 DEF ProbsOf
<1>6. ASSUME AlikeBut(v, s, {"last_use", "uses"}) PROVE StalerFirst(v, s)
  <2>1. a.iat_known = b.iat_known /\ a.leases = b.leases /\ a.weight = b.weight
    BY <1>6 DEF AlikeBut
  <2>2. Sessions(a) = Sessions(b)
    BY <2>1 DEF Sessions
  <2>3. score(s, p) = score(v, p)
    BY <1>2, <1>3, <1>5, <2>1, <2>2
  <2>4. a.last_use \in Nat /\ b.last_use \in Nat /\ a.uses \in Nat /\ b.uses \in Nat
    BY <1>2, MetaFields
  <2> QED
    BY <1>4, <2>3, <2>4 DEF StalerFirst
<1>7. ASSUME 0 < Gain, AlikeBut(v, s, {"leases"}) PROVE Sessions(a) <= Sessions(b)
  <2>1. a.iat_known = b.iat_known /\ a.weight = b.weight
    BY <1>7 DEF AlikeBut
  <2> SUFFICES ASSUME Sessions(b) < Sessions(a) PROVE FALSE
    <3>1. Sessions(a) \in 1..MaxLeases /\ Sessions(b) \in 1..MaxLeases
      BY <1>2, MetaFields
    <3> QED
      BY <3>1 DEF MaxLeases
  <2>2. p[s] < p[v] /\ p[s] \in Nat /\ p[v] \in Nat
    BY <1>2, <1>5, <2>1, MetaFields, ValueAssumption
  <2>3. score(s, p) < score(v, p)
    <3>1. ASSUME NEW w \in Nat \ {0}, NEW q \in Nat, NEW r \in Nat, q < r, NEW c \in Int
          PROVE  w * (q * Gain - c) < w * (r * Gain - c)
      <4>1. Gain \in Int
        BY ValueAssumption
      <4>2. q * Gain < r * Gain /\ q * Gain \in Int /\ r * Gain \in Int
        BY <1>7, <3>1, <4>1, Heavier
      <4> DEFINE x == (r * Gain - c) - (q * Gain - c)
                 y == q * Gain - c
      <4>3. x \in Int /\ y \in Int /\ 0 < x /\ r * Gain - c = y + x
        BY <4>2
      <4> HIDE DEF x, y
      <4>4. w * (y + x) = w * y + w * x /\ 0 < w * x
        BY <4>3
      <4> QED
        BY <4>3, <4>4 DEF y
    <3>2. a.weight \in Nat \ {0}
      BY <1>2, MetaFields
    <3>3. Rent * h \in Int
      <4>1. h \in Nat
        BY ManagerAssumption, FS_Subset, FS_CardinalityType DEF Inv, TypeOK
      <4> QED
        BY <4>1, ValueAssumption
    <3>4. \A c \in Int : a.weight * (p[s] * Gain - c) < a.weight * (p[v] * Gain - c)
      BY <2>2, <3>1, <3>2
    <3> HIDE DEF a, b, h
    <3> QED
      BY <1>3, <2>1, <3>3, <3>4
  <2> QED
    BY <1>4, <2>3
<1> QED
  BY <1>6, <1>7

\* A step that keeps the contract keeps the tier within its slots.
LEMMA ContractFits ==
    ASSUME Inv, Cardinality(Held) <= Slots, Contract!Next \/ UNCHANGED Contract!vars
    PROVE  Cardinality(Held') <= Slots
<1>1. IsFiniteSet(Key) /\ Slots \in Nat /\ Held \subseteq Key
  BY ManagerAssumption DEF Inv, TypeOK
<1>2. IsFiniteSet(Held) /\ Cardinality(Held) \in Nat
  BY <1>1, FS_Subset, FS_CardinalityType
<1>3. ASSUME Held' \subseteq Held PROVE Cardinality(Held') <= Slots
  <2>1. IsFiniteSet(Held') /\ Cardinality(Held') <= Cardinality(Held)
    BY <1>2, <1>3, FS_Subset
  <2>2. Cardinality(Held') \in Nat
    BY <2>1, FS_CardinalityType
  <2> QED
    BY <1>1, <1>2, <2>1, <2>2
<1>4. ASSUME NEW new \in SUBSET Key, NEW victims \in SUBSET Key, Contract!Reserve(new, victims)
      PROVE  Cardinality(Held') <= Slots
  <2>1. /\ new \cap Held = {} /\ victims \subseteq Held
        /\ Held' = (Held \ victims) \cup new
        /\ Cardinality(victims) =
              IF Cardinality(Held) + Cardinality(new) <= Slots THEN 0
              ELSE (Cardinality(Held) + Cardinality(new)) - Slots
    BY <1>4, ContractCounts DEF Contract!Reserve
  <2>2. /\ IsFiniteSet(new) /\ IsFiniteSet(victims) /\ IsFiniteSet(Held \ victims)
    BY <1>1, <1>2, FS_Subset
  <2>3. Cardinality(Held \ victims) = Cardinality(Held) - Cardinality(victims)
    <3>1. Cardinality(Held \ victims) = Cardinality(Held) - Cardinality(Held \cap victims)
      BY <1>2, FS_Difference
    <3>2. Held \cap victims = victims
      BY <2>1
    <3> QED
      BY <3>1, <3>2
  <2>4. Cardinality((Held \ victims) \cup new) =
            Cardinality(Held \ victims) + Cardinality(new)
    <3>1. (Held \ victims) \cap new = {}
      BY <2>1
    <3>2. Cardinality((Held \ victims) \cup new) =
             Cardinality(Held \ victims) + Cardinality(new) - Cardinality((Held \ victims) \cap new)
      BY <2>2, FS_Union
    <3>3. Cardinality(Held \ victims) \in Nat /\ Cardinality(new) \in Nat
      BY <2>2, FS_CardinalityType
    <3> QED
      BY <3>1, <3>2, <3>3, FS_EmptySet
  <2>5. Cardinality(new) \in Nat /\ Cardinality(victims) \in Nat
    BY <2>2, FS_CardinalityType
  <2> QED
    BY <1>1, <1>2, <2>1, <2>3, <2>4, <2>5
<1>5. CASE UNCHANGED Contract!vars
  BY <1>3, <1>5 DEF Contract!vars
<1>6. CASE \E k \in Key : Contract!Take(k)
  BY <1>3, <1>6 DEF Contract!Take
<1>7. CASE \E K \in SUBSET Key : Contract!Release(K) \/ Contract!Abandon(K)
  BY <1>3, <1>7 DEF Contract!Release, Contract!Abandon
<1>8. CASE Contract!Reset
  BY <1>3, <1>8 DEF Contract!Reset
<1> QED
  BY <1>4, <1>5, <1>6, <1>7, <1>8 DEF Contract!Next

SlotsInv == Inv /\ Cardinality(Held) <= Slots

\* The tier never holds more blocks than it has slots: however many new blocks a call
\* brings, as many victims leave as the slots are short.
THEOREM WithinSlots == Spec => []SlotsInv
<1>1. Init => SlotsInv
  <2> SUFFICES ASSUME Init PROVE SlotsInv
    OBVIOUS
  <2>1. Held = {}
    BY DEF Init, Held
  <2> QED
    BY <2>1, InitInv, FS_EmptySet, ManagerAssumption DEF SlotsInv
<1>2. SlotsInv /\ [Next]_vars => SlotsInv'
  BY NextInv, ContractStep, ContractFits DEF SlotsInv
<1> QED
  BY <1>1, <1>2, PTL DEF Spec

\* If what a block without history is expected to save is worth more than its rent in a
\* full tier, then the block whose role is trusted more is not the first to go.
LEMMA PaidTrust ==
    ASSUME SlotsInv, Rent * Slots < LeaseProbs[1] * Gain, NEW v \in Held, NEW s \in Held,
           Cold(v), AlikeBut(v, s, {"weight"}), NEW p,
           p[v] \in ProbsOf(meta[v]), p[s] \in ProbsOf(meta[s]), ~Before(s, v, p)
    PROVE  meta[v].weight <= meta[s].weight
<1>1. meta[v] \in BlockMeta /\ meta[s] \in BlockMeta
  BY DEF SlotsInv, Inv, TypeOK
<1> DEFINE a == meta[v]
           b == meta[s]
           h == Cardinality(Held)
           x == p[v] * Gain - Rent * h
<1>2. a \in BlockMeta /\ b \in BlockMeta /\ ~a.iat_known
  BY <1>1 DEF Cold
<1>3. a.iat_known = b.iat_known /\ a.leases = b.leases
  BY DEF AlikeBut
<1>4. p[v] = LeaseProbs[Sessions(a)] /\ p[s] = p[v]
  BY <1>2, <1>3 DEF ProbsOf, Sessions
<1>5. score(s, p) = b.weight * x /\ score(v, p) = a.weight * x
  BY <1>4 DEF score
<1>6. ~(score(s, p) < score(v, p))
  BY DEF Before
<1>7. h \in Nat /\ h <= Slots /\ Slots \in Nat
  BY ManagerAssumption, FS_Subset, FS_CardinalityType DEF SlotsInv, Inv, TypeOK
<1>8. /\ p[v] \in Nat /\ LeaseProbs[1] \in Nat /\ LeaseProbs[1] <= p[v]
      /\ Gain \in Nat /\ Rent \in Nat
  <2>1. Sessions(a) \in 1..MaxLeases
    BY <1>2, MetaFields
  <2> HIDE DEF a
  <2> QED
    BY <1>4, <2>1, ValueAssumption DEF MaxLeases
<1>9. x \in Int /\ 0 < x
  <2>1. ASSUME NEW c \in Nat, NEW m \in Nat, NEW n \in Nat, m <= n PROVE m * c <= n * c
    <3>1. n = m + (n - m) /\ n - m \in Nat
      BY <2>1
    <3>2. \A d \in Nat : (m + d) * c = m * c + d * c /\ d * c \in Nat /\ m * c \in Nat
      OBVIOUS
    <3> QED
      BY <3>1, <3>2
  <2>2. LeaseProbs[1] * Gain <= p[v] * Gain /\ h * Rent <= Slots * Rent
    BY <1>7, <1>8, <2>1
  <2>3. \A m, n \in Nat : m * n \in Int /\ m * n = n * m
    OBVIOUS
  <2>4. /\ Rent * h = h * Rent /\ Rent * Slots = Slots * Rent
        /\ Rent * h \in Int /\ Rent * Slots \in Int
        /\ p[v] * Gain \in Int /\ LeaseProbs[1] * Gain \in Int
    BY <1>7, <1>8, <2>3
  <2> HIDE DEF h
  <2> QED
    BY <2>2, <2>4
<1>10. a.weight \in Nat \ {0} /\ b.weight \in Nat \ {0}
  BY <1>2, MetaFields
<1> HIDE DEF x, a, b
<1> SUFFICES ASSUME b.weight < a.weight PROVE FALSE
  BY <1>10 DEF a, b
<1>11. b.weight * x < a.weight * x
  BY <1>9, <1>10, Heavier
<1> QED
  BY <1>5, <1>6, <1>11

\* evict takes the stalest first, of blocks that were never used twice and differ in
\* nothing else.
THEOREM StalestColdGoFirst == Spec => ColdGoStalestFirst
<1>1. Inv /\ [Next]_vars =>
        [\A keys \in SUBSET Key : PrepareStore(keys) =>
            \A v \in Victims, s \in Spared(keys) :
               Cold(v) /\ AlikeBut(v, s, {"last_use", "uses"}) => StalerFirst(v, s)]_vars
  BY StoreTakesLeast, ColdOrder
<1> QED
  BY <1>1, ManagerInvariant, PTL DEF Spec, ColdGoStalestFirst

\* If a use is worth anything, leases protect a block until its own intervals decide.
THEOREM LeasesProtectBlocks == 0 < Gain => (Spec => LeasesProtect)
<1> SUFFICES ASSUME 0 < Gain PROVE Spec => LeasesProtect
  OBVIOUS
<1>1. Inv /\ [Next]_vars =>
        [\A keys \in SUBSET Key : PrepareStore(keys) =>
            \A v \in Victims, s \in Spared(keys) :
               Cold(v) /\ AlikeBut(v, s, {"leases"}) =>
                   Sessions(meta[v]) <= Sessions(meta[s])]_vars
  BY StoreTakesLeast, ColdOrder
<1> QED
  BY <1>1, ManagerInvariant, PTL DEF Spec, LeasesProtect

\* Where a block without history is worth its rent even in a full tier, trust in a role
\* protects its blocks.  The default rates are not like that.
THEOREM PaidTrustStays == Rent * Slots < LeaseProbs[1] * Gain => (Spec => TrustedStay)
<1> SUFFICES ASSUME Rent * Slots < LeaseProbs[1] * Gain PROVE Spec => TrustedStay
  OBVIOUS
<1>1. SlotsInv /\ [Next]_vars =>
        [\A keys \in SUBSET Key : PrepareStore(keys) =>
            \A v \in Victims, s \in Spared(keys) :
               Cold(v) /\ AlikeBut(v, s, {"weight"}) =>
                   meta[v].weight <= meta[s].weight]_vars
  BY StoreTakesLeast, PaidTrust DEF SlotsInv
<1> QED
  BY <1>1, WithinSlots, PTL DEF Spec, TrustedStay
================================================================================
