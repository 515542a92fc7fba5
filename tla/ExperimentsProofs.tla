--------------------------- MODULE ExperimentsProofs ----------------------------
(***************************************************************************)
(* Proofs about the experiments.                                           *)
(*                                                                         *)
(* The offline replay: what its counter of wasted stores counts, for any   *)
(* sessions in any order, and which lifetimes the policy honours under the *)
(* replay's clock.                                                         *)
(*                                                                         *)
(* The connector's lookup: the longest boundary all groups can serve, what *)
(* the store's filter leaves of it, and what the ring makes of it, for any *)
(* chunk widths, prompts and contents of the tier.                         *)
(*                                                                         *)
(* The policy of lifetimes under the engine's own calls: what it keeps of  *)
(* the contract of an offload tier, in any order of stores and loads.      *)
(***************************************************************************)
EXTENDS StreamRunner, ConnectorLookup, ItemListsProofs

(***************************************************************************)
(* Part 1: the offline replay.                                             *)
(***************************************************************************)
--------------------------------------------------------------------------------
(***************************************************************************)
(* The context of a turn and its cold blocks.                              *)
(***************************************************************************)
ColdOf(s) == Sublist(Context(s), {i \in DOMAIN Context(s) : Context(s)[i] \notin Held})

LEMMA ConcatAt ==
    ASSUME NEW S, NEW a \in Seq(S), NEW b \in Seq(S)
    PROVE  /\ a \o b \in Seq(S)
           /\ Len(a) \in Nat /\ Len(b) \in Nat /\ Len(a \o b) = Len(a) + Len(b)
           /\ DOMAIN (a \o b) = 1..(Len(a) + Len(b))
           /\ \A i \in 1..(Len(a) + Len(b)) :
                 (a \o b)[i] = IF i <= Len(a) THEN a[i] ELSE b[i - Len(a)]
OBVIOUS

LEMMA ContextFacts ==
    ASSUME NEW s \in Session, turn[s] \in Nat, turn[s] < MaxTurns
    PROVE  /\ Context(s) \in Seq(Key)
           /\ IsInjective(Context(s))
           /\ Len(Context(s)) <= Len(Prefix[s]) + MaxTurns
<1>1. Prefix[s] \in Seq(Key) /\ Own[s] \in Seq(Key) /\ MaxTurns <= Len(Own[s])
      /\ IsInjective(Prefix[s] \o Own[s])
  BY RunnerAssumption
<1> DEFINE own == SubSeq(Own[s], 1, turn[s] + 1)
<1>2. own \in Seq(Key) /\ Len(own) = turn[s] + 1
      /\ \A i \in 1..Len(own) : own[i] = Own[s][i]
  BY <1>1, RunnerAssumption
<1>3. Context(s) \in Seq(Key) /\ Len(Context(s)) = Len(Prefix[s]) + turn[s] + 1
  BY <1>1, <1>2 DEF Context
<1> DEFINE all == Prefix[s] \o Own[s]
<1> HIDE DEF own
<1>4. ASSUME NEW i \in DOMAIN Context(s)
      PROVE  i \in DOMAIN all /\ Context(s)[i] = all[i]
  <2>1. Context(s) = Prefix[s] \o own
    BY DEF Context, own
  <2>2. /\ Len(Prefix[s]) \in Nat /\ Len(own) \in Nat /\ Len(Own[s]) \in Nat
        /\ i \in 1..(Len(Prefix[s]) + Len(own)) /\ Len(own) <= Len(Own[s])
        /\ Context(s)[i] = IF i <= Len(Prefix[s]) THEN Prefix[s][i] ELSE own[i - Len(Prefix[s])]
    BY <1>1, <1>2, <2>1, ConcatAt, RunnerAssumption
  <2>3. /\ DOMAIN all = 1..(Len(Prefix[s]) + Len(Own[s]))
        /\ \A j \in 1..(Len(Prefix[s]) + Len(Own[s])) :
              all[j] = IF j <= Len(Prefix[s]) THEN Prefix[s][j] ELSE Own[s][j - Len(Prefix[s])]
    BY <1>1, ConcatAt
  <2> DEFINE p == Len(Prefix[s])
             o == Len(own)
             q == Len(Own[s])
  <2>4. p \in Nat /\ o \in Nat /\ q \in Nat /\ i \in 1..(p + o) /\ o <= q
    BY <2>2
  <2> HIDE DEF all, p, o, q
  <2>5. i \in 1..(p + q) /\ (i > p => i - p \in 1..o)
    BY <2>4
  <2>6. CASE i <= p
    BY <2>2, <2>3, <2>4, <2>5, <2>6 DEF p, q
  <2>7. CASE i > p
    <3>1. own[i - p] = Own[s][i - p]
      BY <1>2, <2>5, <2>7 DEF o
    <3> QED
      BY <2>2, <2>3, <2>4, <2>5, <2>7, <3>1 DEF p, q
  <2> QED
    BY <2>4, <2>6, <2>7
<1>5. IsInjective(Context(s))
  BY <1>1, <1>4 DEF IsInjective
<1> QED
  BY <1>3, <1>5, RunnerAssumption

\* The cold blocks are those of the context the tier does not hold, each once.
LEMMA ColdFacts ==
    ASSUME NEW s \in Session, turn[s] \in Nat, turn[s] < MaxTurns
    PROVE  /\ ColdOf(s) \in Seq(Key)
           /\ Range(ColdOf(s)) = Range(Context(s)) \ Held
           /\ IsFiniteSet(Range(ColdOf(s)))
           /\ Cardinality(Range(ColdOf(s))) = Len(ColdOf(s))
           /\ Len(ColdOf(s)) <= Len(Prefix[s]) + MaxTurns
<1> DEFINE keys == Context(s)
           I == {i \in DOMAIN keys : keys[i] \notin Held}
           cold == Sublist(keys, I)
<1>0. cold = ColdOf(s)
  BY DEF ColdOf
<1>1. keys \in Seq(Key) /\ IsInjective(keys) /\ Len(keys) <= Len(Prefix[s]) + MaxTurns
  BY ContextFacts
<1>2. cold \in Seq(Key) /\ Range(cold) = {keys[i] : i \in I \cap DOMAIN keys}
  <2> HIDE DEF keys, I
  <2> QED
    BY <1>1, SublistRange
<1>3. Range(cold) = Range(keys) \ Held
  BY <1>2 DEF Range
<1>4. PICK e : Enumerates(e, cold, keys, I, Len(keys))
  <2> HIDE DEF keys, I
  <2> QED
    BY <1>1, SublistEnumerates
<1> HIDE DEF keys, cold, I
<1>5. \A i, j \in DOMAIN cold : cold[i] = cold[j] => i = j
  BY <1>1, <1>2, <1>4 DEF Enumerates, IsInjective
<1>6. Len(cold) \in Nat /\ DOMAIN cold = 1..Len(cold) /\ IsFiniteSet(1..Len(cold))
      /\ Cardinality(1..Len(cold)) = Len(cold)
  BY <1>2, PositionsFinite
<1>7. cold \in Bijection(1..Len(cold), Range(cold))
  BY <1>2, <1>5, <1>6 DEF Bijection, Injection, Surjection, IsInjective, Range
<1>8. IsFiniteSet(Range(cold)) /\ Cardinality(Range(cold)) = Len(cold)
  <2>1. ExistsBijection(1..Len(cold), Range(cold))
    BY <1>7 DEF ExistsBijection
  <2> QED
    BY <1>6, <2>1, FS_Bijection
<1>9. Len(cold) <= Len(keys)
  <2>0. \A i, j \in 1..Len(cold) : i # j => i < j \/ j < i
    BY <1>6
  <2>1. e \in Injection(1..Len(cold), 1..Len(keys))
    <3>1. e \in [1..Len(cold) -> 1..Len(keys)]
      BY <1>4, <1>6 DEF Enumerates
    <3>2. ASSUME NEW i \in 1..Len(cold), NEW j \in 1..Len(cold), e[i] = e[j] PROVE i = j
      <4>1. e[i] \in Int /\ e[j] \in Int
        BY <3>1
      <4> QED
        BY <1>4, <1>6, <2>0, <3>2, <4>1 DEF Enumerates
    <3> QED
      BY <3>1, <3>2 DEF Injection, IsInjective
  <2>2. IsFiniteSet(1..Len(keys)) /\ Cardinality(1..Len(keys)) = Len(keys)
    BY <1>1, PositionsFinite
  <2> QED
    BY <1>6, <2>1, <2>2, FS_Injection
<1>10. Len(cold) <= Len(Prefix[s]) + MaxTurns
  BY <1>1, <1>6, <1>9, RunnerAssumption
<1> QED
  BY <1>0, <1>2, <1>3, <1>8, <1>10 DEF keys

--------------------------------------------------------------------------------
(***************************************************************************)
(* Turnover.                                                               *)
(***************************************************************************)
Served == UNION {served[t] : t \in Session}

\* What was stored is either still held or counted as wasted: wasted_stores
\* counts every block ever displaced, one read back in every turn included.
WastedIsTurnover == stored = wasted_stores + Cardinality(Held)

\* Every block in the tier was stored by some session, which is why displacing
\* it is always counted.
TurnoverInv ==
    /\ IsFiniteSet(Held)
    /\ served \in [Session -> SUBSET Key]
    /\ turn \in [Session -> Nat]
    /\ stored \in Nat /\ wasted_stores \in Nat
    /\ Held \subseteq Served
    /\ WastedIsTurnover

LEMMA TurnoverInit == RunnerInit => TurnoverInv
<1> SUFFICES ASSUME RunnerInit PROVE TurnoverInv
  OBVIOUS
<1>1. Held = {}
  BY DEF RunnerInit, Init, Held
<1>2. IsFiniteSet({}) /\ Cardinality({}) = 0
  BY FS_EmptySet
<1> QED
  BY <1>1, <1>2 DEF RunnerInit, TurnoverInv, WastedIsTurnover

\* Storing the cold blocks exchanges the victims for them.
LEMMA StoreExchanges ==
    ASSUME TurnoverInv, NEW s \in Session, turn[s] < MaxTurns,
           NEW victims, NEW lapse, NEW gap,
           victims \in Answers(ColdOf(s), lapse, gap)
    PROVE  /\ victims \subseteq Held \ pinned
           /\ IsFiniteSet(victims)
           /\ DOMAIN Extended(Without(blocks, victims), Range(ColdOf(s)), 0)
                 = (Held \ victims) \cup Range(ColdOf(s))
           /\ IsFiniteSet((Held \ victims) \cup Range(ColdOf(s)))
           /\ Cardinality((Held \ victims) \cup Range(ColdOf(s)))
                 = Cardinality(Held) - Cardinality(victims) + Len(ColdOf(s))
<1> DEFINE cold == Range(ColdOf(s))
<1>1. cold \cap Held = {} /\ IsFiniteSet(cold) /\ Cardinality(cold) = Len(ColdOf(s))
  BY ColdFacts DEF TurnoverInv
<1>2. victims \subseteq Held \ pinned
  BY DEF Answers, evict, Live
<1>3. IsFiniteSet(Held) /\ IsFiniteSet(victims) /\ IsFiniteSet(Held \ victims)
  BY <1>2, FS_Subset DEF TurnoverInv
<1>4. Cardinality(Held \ victims) = Cardinality(Held) - Cardinality(victims)
  <2>1. Held \cap victims = victims
    BY <1>2
  <2>2. Cardinality(Held \ victims) = Cardinality(Held) - Cardinality(Held \cap victims)
    BY <1>3, FS_Difference
  <2> QED
    BY <2>1, <2>2
<1>5. (Held \ victims) \cap cold = {}
  BY <1>1
<1>6. IsFiniteSet((Held \ victims) \cup cold)
      /\ Cardinality((Held \ victims) \cup cold)
            = Cardinality(Held \ victims) + Cardinality(cold)
                 - Cardinality((Held \ victims) \cap cold)
  BY <1>1, <1>3, FS_Union
<1>7. Cardinality((Held \ victims) \cap cold) = 0
  BY <1>5, FS_EmptySet
<1>8. Cardinality(Held \ victims) \in Nat /\ Cardinality(cold) \in Nat
      /\ Cardinality(Held) \in Nat /\ Cardinality(victims) \in Nat
  BY <1>1, <1>3, FS_CardinalityType
<1>9. DOMAIN Extended(Without(blocks, victims), cold, 0) = (Held \ victims) \cup cold
  BY DEF Extended, Without, Held
<1>10. Cardinality((Held \ victims) \cup cold)
          = Cardinality(Held) - Cardinality(victims) + Len(ColdOf(s))
  BY <1>1, <1>4, <1>6, <1>7, <1>8
<1> QED
  BY <1>2, <1>3, <1>6, <1>9, <1>10

LEMMA TurnoverStep == TurnoverInv /\ [RunnerNext]_vars => TurnoverInv'
<1> SUFFICES ASSUME TurnoverInv, [RunnerNext]_vars PROVE TurnoverInv'
  OBVIOUS
<1>1. CASE UNCHANGED vars
  BY <1>1 DEF vars, ttlVars, policyVars, TurnoverInv, WastedIsTurnover, Held, Served
<1>2. ASSUME NEW s \in Session, Turn(s) PROVE TurnoverInv'
  <2> DEFINE cold == ColdOf(s)
  <2>1. PICK gap \in 0..MaxGap : touch_stream(s, Context(s), RoleOf[s], gap)
    BY <1>2 DEF Turn
  <2>2. /\ turn[s] \in Nat /\ turn[s] < MaxTurns
        /\ turn' = [turn EXCEPT ![s] = @ + 1]
    BY <1>2 DEF Turn, TurnoverInv
  <2>3. /\ cold \in Seq(Key) /\ Range(cold) \subseteq Key
        /\ Len(cold) \in Nat
    <3>1. cold \in Seq(Key)
      BY <2>2, ColdFacts
    <3> HIDE DEF cold
    <3> QED
      BY <3>1 DEF Range
  <2> DEFINE lapse == Refreshed(Range(Context(s)), RoleOf[s], gap)
             roles == Declared(Range(Context(s)), RoleOf[s])
  <2>4. /\ served' = [served EXCEPT ![s] = @ \cup Range(cold)]
        /\ StoreCold(s, cold, lapse, roles, gap) \/ RefuseCold(cold, lapse, roles, gap)
    BY <2>1 DEF touch_stream, ColdOf
  <2> HIDE DEF cold, lapse, roles
  <2>5. /\ served' \in [Session -> SUBSET Key]
        /\ Served' = Served \cup Range(cold)
        /\ turn' \in [Session -> Nat]
    <3>1. served' \in [Session -> SUBSET Key] /\ turn' \in [Session -> Nat]
      BY <2>2, <2>3, <2>4 DEF TurnoverInv
    <3>2. \A t \in Session : served'[t] = IF t = s THEN served[s] \cup Range(cold) ELSE served[t]
      BY <2>4 DEF TurnoverInv
    <3> QED
      BY <3>1, <3>2 DEF Served
  <2>6. CASE RefuseCold(cold, lapse, roles, gap)
    <3>1. Held' = Held /\ stored' = stored /\ wasted_stores' = wasted_stores
      BY <2>6 DEF RefuseCold, Held
    <3> QED
      BY <2>5, <3>1 DEF TurnoverInv, WastedIsTurnover
  <2>7. CASE StoreCold(s, cold, lapse, roles, gap)
    <3>1. PICK victims \in Answers(cold, lapse, gap) :
             /\ blocks' = Extended(Without(blocks, victims), Range(cold), 0)
             /\ stored' = stored + Len(cold)
             /\ wasted_stores' = wasted_stores + Cardinality(Wasted(victims))
      BY <2>7 DEF StoreCold
    <3>2. /\ victims \subseteq Held /\ IsFiniteSet(victims)
          /\ Held' = (Held \ victims) \cup Range(cold)
          /\ IsFiniteSet(Held')
          /\ Cardinality(Held') = Cardinality(Held) - Cardinality(victims) + Len(cold)
      <4>1. DOMAIN blocks' = DOMAIN Extended(Without(blocks, victims), Range(cold), 0)
        BY <3>1
      <4>2. victims \in Answers(ColdOf(s), lapse, gap)
        BY <3>1 DEF cold
      <4>3. /\ victims \subseteq Held \ pinned /\ IsFiniteSet(victims)
            /\ DOMAIN Extended(Without(blocks, victims), Range(cold), 0)
                  = (Held \ victims) \cup Range(cold)
            /\ IsFiniteSet((Held \ victims) \cup Range(cold))
            /\ Cardinality((Held \ victims) \cup Range(cold))
                  = Cardinality(Held) - Cardinality(victims) + Len(cold)
        BY <2>2, <4>2, StoreExchanges DEF cold
      <4>4. Held' = (Held \ victims) \cup Range(cold)
        BY <4>1, <4>3 DEF Held
      <4> QED
        BY <4>3, <4>4
    <3>3. Wasted(victims) = victims
      BY <3>2 DEF Wasted, TurnoverInv, Served
    <3>4. Cardinality(victims) \in Nat /\ Cardinality(Held) \in Nat
      BY <3>2, FS_CardinalityType DEF TurnoverInv
    <3>5. wasted_stores' = wasted_stores + Cardinality(victims)
      BY <3>1, <3>3
    <3>6. stored' \in Nat /\ wasted_stores' \in Nat /\ WastedIsTurnover'
      <4>1. /\ stored \in Nat /\ wasted_stores \in Nat
            /\ stored = wasted_stores + Cardinality(Held)
        BY DEF TurnoverInv, WastedIsTurnover
      <4>2. stored' = stored + Len(cold)
        BY <3>1
      <4>3. Cardinality(Held') = Cardinality(Held) - Cardinality(victims) + Len(cold)
        BY <3>2
      <4>4. stored' = wasted_stores' + Cardinality(Held')
        BY <2>3, <3>4, <3>5, <4>1, <4>2, <4>3
      <4>5. stored' \in Nat /\ wasted_stores' \in Nat
        BY <2>3, <3>4, <3>5, <4>1, <4>2
      <4> QED
        BY <4>4, <4>5 DEF WastedIsTurnover
    <3>7. Held' \subseteq Served'
      BY <2>5, <3>2 DEF TurnoverInv
    <3> QED
      BY <2>5, <3>2, <3>6, <3>7 DEF TurnoverInv
  <2> QED
    BY <2>4, <2>6, <2>7
<1> QED
  BY <1>1, <1>2 DEF RunnerNext

(***************************************************************************)
(* wasted_stores counts every displacement, not the stores that were       *)
(* wasted: whatever the sessions, their order and the victims, the blocks  *)
(* stored are those still held and those counted.  The replay reports it   *)
(* as "stored then evicted untouched" (offload_replay_real.py, line 16)    *)
(* and looks up whether a block "had never been read back" (line 120) in   *)
(* the record of what was stored, which cannot tell: every block is in it. *)
(***************************************************************************)
THEOREM WastedIsEveryDeparture == RunnerSpec => []WastedIsTurnover
<1>1. TurnoverInv => WastedIsTurnover
  BY DEF TurnoverInv
<1> QED
  BY <1>1, TurnoverInit, TurnoverStep, PTL DEF RunnerSpec

--------------------------------------------------------------------------------
(***************************************************************************)
(* Lifetimes under the replay's clock.                                     *)
(***************************************************************************)
\* The lifetime block k was given last.
LifetimeOf(k) == IF k \in DOMAIN role THEN Lifetime(role[k]) ELSE DefaultTtl

Lifetimes == {Ttl[r] : r \in DOMAIN Ttl} \cup {DefaultTtl}

\* expires[k] is what a turn of some session set it to: the lifetime the block
\* was given and a reading of the clock.
SetBy(k, s) ==
    /\ expires[k] \in Nat
    /\ LifetimeOf(k) <= expires[k]
    /\ expires[k] <= LifetimeOf(k) + LastReading(s)

\* Loads end inside their turn, so nothing is pinned when a turn evicts.
LifetimesInv ==
    /\ pinned = {}
    /\ DOMAIN expires = Held /\ DOMAIN role \subseteq Held
    /\ \A k \in Held : \E s \in Session : SetBy(k, s)

LEMMA LifetimeNat ==
    ASSUME NEW r PROVE Lifetime(r) \in Lifetimes /\ Lifetime(r) \in Nat
BY TtlAssumption DEF Lifetime, Lifetimes

LEMMA LifetimeOfNat ==
    ASSUME NEW k
    PROVE  /\ LifetimeOf(k) \in Lifetimes /\ LifetimeOf(k) \in Nat
           /\ LifetimeOf(k)' \in Nat
BY LifetimeNat, TtlAssumption DEF LifetimeOf, Lifetimes, Lifetime

LEMMA ProductGrows ==
    ASSUME NEW a \in Nat, NEW b \in Nat, NEW g \in Nat, NEW h \in Nat, a <= b, g <= h
    PROVE  a * g \in Nat /\ b * h \in Nat /\ a * g <= b * h
<1>1. PICK c \in Nat : b = a + c
  <2>1. b - a \in Nat /\ b = a + (b - a)
    OBVIOUS
  <2> QED
    BY <2>1
<1>2. PICK d \in Nat : h = g + d
  <2>1. h - g \in Nat /\ h = g + (h - g)
    OBVIOUS
  <2> QED
    BY <2>1
<1>3. (a + c) * (g + d) = a * g + a * d + c * g + c * d
  OBVIOUS
<1>4. a * g \in Nat /\ a * d \in Nat /\ c * g \in Nat /\ c * d \in Nat
  OBVIOUS
<1> QED
  BY <1>1, <1>2, <1>3, <1>4

\* A turn reads the clock no later than LastReading.
LEMMA Readings ==
    ASSUME NEW s \in Session, NEW n \in Nat, n <= 2 + Len(Prefix[s]) + MaxTurns,
           NEW gap \in 0..MaxGap
    PROVE  LastReading(s) \in Nat /\ n * gap \in Nat /\ n * gap <= LastReading(s)
<1>1. Prefix[s] \in Seq(Key) /\ MaxGap \in Nat /\ MaxTurns \in Nat
  BY RunnerAssumption
<1>2. 2 + Len(Prefix[s]) + MaxTurns \in Nat /\ gap \in Nat /\ gap <= MaxGap
  BY <1>1
<1> QED
  BY <1>1, <1>2, ProductGrows DEF LastReading

LEMMA LifetimesInit == RunnerInit => LifetimesInv
BY DEF RunnerInit, Init, LifetimesInv, Held

\* The state of the policy once session s has touched its context.
LapseAt(s, gap) == Refreshed(Range(Context(s)), RoleOf[s], gap)
RolesAt(s) == Declared(Range(Context(s)), RoleOf[s])
GivenAt(k, s) == IF k \in DOMAIN RolesAt(s) THEN Lifetime(RolesAt(s)[k]) ELSE DefaultTtl

LEMMA TouchKeeps ==
    ASSUME LifetimesInv, NEW s \in Session, NEW gap \in 0..MaxGap
    PROVE  /\ DOMAIN LapseAt(s, gap) = Held /\ DOMAIN RolesAt(s) \subseteq Held
           /\ \A k \in Held :
                 /\ GivenAt(k, s) = DeclaredAt(k, s)
                 /\ GivenAt(k, s) \in Lifetimes /\ GivenAt(k, s) \in Nat
                 /\ LapseAt(s, gap)[k] \in Nat
                 /\ GivenAt(k, s) <= LapseAt(s, gap)[k]
                 /\ \E t \in Session : LapseAt(s, gap)[k] <= GivenAt(k, s) + LastReading(t)
<1> DEFINE T == Range(Context(s)) \cap Held
<1>1. LapseAt(s, gap) = [k \in DOMAIN expires \cup T |->
                            IF k \in T THEN gap + Lifetime(RoleOf[s]) ELSE expires[k]]
  BY DEF LapseAt, Refreshed, Extended
<1>2. RolesAt(s) = [k \in DOMAIN role \cup T |-> IF k \in T THEN RoleOf[s] ELSE role[k]]
  BY RunnerAssumption DEF RolesAt, Declared, Extended
<1>3. DOMAIN expires = Held /\ DOMAIN role \subseteq Held
  BY DEF LifetimesInv
<1>4. gap \in Nat /\ gap <= LastReading(s) /\ LastReading(s) \in Nat
  <2>1. Prefix[s] \in Seq(Key) /\ MaxGap \in Nat /\ MaxTurns \in Nat
    BY RunnerAssumption
  <2>2. gap \in Nat /\ 1 <= 2 + Len(Prefix[s]) + MaxTurns
    BY <2>1
  <2>3. LastReading(s) \in Nat /\ 1 * gap <= LastReading(s)
    BY <2>2, Readings
  <2> QED
    BY <2>2, <2>3
<1>5. ASSUME NEW k \in Held
      PROVE  /\ GivenAt(k, s) = DeclaredAt(k, s)
             /\ GivenAt(k, s) \in Lifetimes /\ GivenAt(k, s) \in Nat
             /\ LapseAt(s, gap)[k] \in Nat
             /\ GivenAt(k, s) <= LapseAt(s, gap)[k]
             /\ \E t \in Session : LapseAt(s, gap)[k] <= GivenAt(k, s) + LastReading(t)
  <2>1. CASE k \in T
    <3>1. /\ GivenAt(k, s) = Lifetime(RoleOf[s]) /\ DeclaredAt(k, s) = Lifetime(RoleOf[s])
          /\ LapseAt(s, gap)[k] = gap + Lifetime(RoleOf[s])
      BY <1>1, <1>2, <2>1 DEF GivenAt, DeclaredAt
    <3>2. Lifetime(RoleOf[s]) \in Lifetimes /\ Lifetime(RoleOf[s]) \in Nat
      BY LifetimeNat
    <3> QED
      BY <1>4, <3>1, <3>2
  <2>2. CASE k \notin T
    <3>1. /\ GivenAt(k, s) = LifetimeOf(k) /\ DeclaredAt(k, s) = LifetimeOf(k)
          /\ LapseAt(s, gap)[k] = expires[k]
      BY <1>1, <1>2, <1>3, <2>2 DEF GivenAt, DeclaredAt, LifetimeOf
    <3>2. PICK t \in Session : SetBy(k, t)
      BY DEF LifetimesInv
    <3>3. LifetimeOf(k) \in Lifetimes /\ LifetimeOf(k) \in Nat
      BY LifetimeOfNat
    <3> QED
      BY <3>1, <3>2, <3>3 DEF SetBy
  <2> QED
    BY <2>1, <2>2
<1>6. DOMAIN LapseAt(s, gap) = Held /\ DOMAIN RolesAt(s) \subseteq Held
  BY <1>1, <1>2, <1>3
<1> QED
  BY <1>5, <1>6

LEMMA TurnIs ==
    ASSUME TurnoverInv, NEW s \in Session, Turn(s)
    PROVE  /\ turn[s] \in Nat /\ turn[s] < MaxTurns /\ turn'[s] # turn[s]
           /\ \A t \in Session : t # s => turn'[t] = turn[t]
           /\ pinned' = pinned
           /\ \E gap \in 0..MaxGap :
                 \/ StoreCold(s, ColdOf(s), LapseAt(s, gap), RolesAt(s), gap)
                 \/ RefuseCold(ColdOf(s), LapseAt(s, gap), RolesAt(s), gap)
<1>1. turn[s] \in Nat /\ turn[s] < MaxTurns /\ turn' = [turn EXCEPT ![s] = @ + 1]
  BY DEF Turn, TurnoverInv
<1>2. PICK gap \in 0..MaxGap : touch_stream(s, Context(s), RoleOf[s], gap)
  BY DEF Turn
<1>3. /\ pinned' = pinned
      /\ \/ StoreCold(s, ColdOf(s), LapseAt(s, gap), RolesAt(s), gap)
         \/ RefuseCold(ColdOf(s), LapseAt(s, gap), RolesAt(s), gap)
  BY <1>2 DEF touch_stream, ColdOf, LapseAt, RolesAt
<1>4. turn'[s] # turn[s] /\ \A t \in Session : t # s => turn'[t] = turn[t]
  BY <1>1 DEF TurnoverInv
<1> QED
  BY <1>1, <1>3, <1>4

LEMMA LifetimesStep == TurnoverInv /\ LifetimesInv /\ [RunnerNext]_vars => LifetimesInv'
<1> SUFFICES ASSUME TurnoverInv, LifetimesInv, [RunnerNext]_vars PROVE LifetimesInv'
  OBVIOUS
<1>1. CASE UNCHANGED vars
  BY <1>1 DEF vars, ttlVars, policyVars, LifetimesInv, SetBy, LifetimeOf, Held
<1>2. ASSUME NEW s \in Session, Turn(s) PROVE LifetimesInv'
  <2>1. turn[s] \in Nat /\ turn[s] < MaxTurns /\ pinned' = {}
    BY <1>2, TurnIs DEF LifetimesInv
  <2>2. PICK gap \in 0..MaxGap :
           \/ StoreCold(s, ColdOf(s), LapseAt(s, gap), RolesAt(s), gap)
           \/ RefuseCold(ColdOf(s), LapseAt(s, gap), RolesAt(s), gap)
    BY <1>2, TurnIs
  <2> DEFINE lapse == LapseAt(s, gap)
             roles == RolesAt(s)
             cold == ColdOf(s)
  <2>3. /\ DOMAIN lapse = Held /\ DOMAIN roles \subseteq Held
        /\ \A k \in Held :
              /\ GivenAt(k, s) \in Nat /\ lapse[k] \in Nat
              /\ GivenAt(k, s) <= lapse[k]
              /\ \E t \in Session : lapse[k] <= GivenAt(k, s) + LastReading(t)
    BY TouchKeeps
  <2>4. CASE RefuseCold(cold, lapse, roles, gap)
    <3>1. expires' = lapse /\ role' = roles /\ Held' = Held
      BY <2>4 DEF RefuseCold, Held
    <3>2. \A k \in Held : LifetimeOf(k)' = GivenAt(k, s)
      BY <3>1 DEF LifetimeOf, GivenAt
    <3> HIDE DEF lapse, roles, cold
    <3>3. \A k \in Held : \E t \in Session : SetBy(k, t)'
      BY <2>3, <3>1, <3>2 DEF SetBy, LastReading
    <3> QED
      BY <2>1, <2>3, <3>1, <3>3 DEF LifetimesInv
  <2>5. CASE StoreCold(s, cold, lapse, roles, gap)
    <3>1. PICK victims \in Answers(cold, lapse, gap) :
             /\ blocks' = Extended(Without(blocks, victims), Range(cold), 0)
             /\ expires' = Inserted(Without(lapse, victims), cold, gap)
             /\ role' = Without(roles, victims)
      BY <2>5 DEF StoreCold
    <3>2. Held' = (Held \ victims) \cup Range(cold)
      <4>1. DOMAIN blocks' = DOMAIN Extended(Without(blocks, victims), Range(cold), 0)
        BY <3>1
      <4>2. DOMAIN Extended(Without(blocks, victims), Range(cold), 0)
               = (Held \ victims) \cup Range(cold)
        BY <2>1, <3>1, StoreExchanges
      <4> QED
        BY <4>1, <4>2 DEF Held
    <3>3. /\ cold \in Seq(Key) /\ Range(cold) \cap Held = {}
          /\ Len(cold) <= Len(Prefix[s]) + MaxTurns
      BY <2>1, ColdFacts
    <3> HIDE DEF lapse, cold
    <3>4. DOMAIN expires' = Held' /\ DOMAIN role' \subseteq Held'
      BY <2>3, <3>1, <3>2 DEF Inserted, Without
    <3>5. ASSUME NEW k \in Held \ victims PROVE \E t \in Session : SetBy(k, t)'
      <4>1. expires'[k] = lapse[k]
        BY <2>3, <3>1, <3>5 DEF Inserted, Without
      <4>2. LifetimeOf(k)' = GivenAt(k, s)
        BY <3>1, <3>5 DEF LifetimeOf, GivenAt, Without
      <4> HIDE DEF roles
      <4> QED
        BY <2>3, <3>5, <4>1, <4>2 DEF SetBy, LastReading
    <3>6. ASSUME NEW k \in Range(cold) PROVE SetBy(k, s)'
      <4> DEFINE i == CHOOSE i \in DOMAIN cold : cold[i] = k
                 n == ReadingsBefore(cold) + i
      <4>1. i \in DOMAIN cold
        BY <3>6 DEF Range
      <4>2. i \in Nat /\ i <= Len(cold) /\ Len(cold) \in Nat
        <5> HIDE DEF i
        <5> QED
          BY <3>3, <4>1
      <4>3. ReadingsBefore(cold) \in {1, 2}
        BY DEF ReadingsBefore
      <4>4. expires'[k] = n * gap + DefaultTtl
        BY <2>3, <3>1, <3>3, <3>6 DEF Inserted, Without
      <4>5. LifetimeOf(k)' = DefaultTtl
        BY <2>3, <3>1, <3>3, <3>6 DEF LifetimeOf, Without
      <4> HIDE DEF i
      <4>6. n \in Nat /\ n <= 2 + Len(Prefix[s]) + MaxTurns
        <5>1. Len(Prefix[s]) \in Nat /\ MaxTurns \in Nat
          BY RunnerAssumption
        <5> QED
          BY <5>1, <3>3, <4>2, <4>3
      <4> HIDE DEF n
      <4>7. LastReading(s) \in Nat /\ n * gap \in Nat /\ n * gap <= LastReading(s)
        BY <4>6, Readings
      <4>8. DefaultTtl \in Nat
        BY TtlAssumption
      <4> DEFINE m == n * gap
      <4> HIDE DEF m
      <4>9. expires'[k] \in Nat /\ DefaultTtl <= expires'[k]
            /\ expires'[k] <= DefaultTtl + LastReading(s)
        BY <4>4, <4>7, <4>8 DEF m
      <4> QED
        BY <4>5, <4>9 DEF SetBy, LastReading
    <3> QED
      BY <2>1, <3>2, <3>4, <3>5, <3>6 DEF LifetimesInv
  <2> QED
    BY <2>2, <2>4, <2>5
<1> QED
  BY <1>1, <1>2 DEF RunnerNext

\* What a turn displaces lapses no later, by its declared lifetime, than what stays.
LEMMA TurnSpares ==
    ASSUME LifetimesApart, TurnoverInv, LifetimesInv, NEW s \in Session, Turn(s),
           NEW v \in Held \ DOMAIN blocks', NEW k \in Held \cap DOMAIN blocks'
    PROVE  DeclaredAt(v, s) <= DeclaredAt(k, s)
<1>1. turn[s] \in Nat /\ turn[s] < MaxTurns
  BY TurnIs
<1>2. PICK gap \in 0..MaxGap :
         \/ StoreCold(s, ColdOf(s), LapseAt(s, gap), RolesAt(s), gap)
         \/ RefuseCold(ColdOf(s), LapseAt(s, gap), RolesAt(s), gap)
  BY TurnIs
<1> DEFINE lapse == LapseAt(s, gap)
           cold == ColdOf(s)
<1>3. /\ DeclaredAt(v, s) \in Lifetimes /\ DeclaredAt(v, s) \in Nat
      /\ lapse[v] \in Nat /\ DeclaredAt(v, s) <= lapse[v]
  BY TouchKeeps
<1>4. /\ DeclaredAt(k, s) \in Lifetimes /\ DeclaredAt(k, s) \in Nat /\ lapse[k] \in Nat
      /\ \E t \in Session : lapse[k] <= DeclaredAt(k, s) + LastReading(t)
  BY TouchKeeps
<1>5. ~RefuseCold(cold, lapse, RolesAt(s), gap)
  BY DEF RefuseCold, Held
<1>6. PICK victims \in Answers(cold, lapse, gap) :
         blocks' = Extended(Without(blocks, victims), Range(cold), 0)
  BY <1>2, <1>5 DEF StoreCold
<1>7. DOMAIN blocks' = (Held \ victims) \cup Range(cold) /\ Range(cold) \cap Held = {}
  <2>1. DOMAIN Extended(Without(blocks, victims), Range(cold), 0)
           = (Held \ victims) \cup Range(cold)
    BY <1>1, <1>6, StoreExchanges
  <2>2. Range(cold) \cap Held = {}
    BY <1>1, ColdFacts
  <2> QED
    BY <1>6, <2>1, <2>2
<1>8. v \in victims /\ k \in Live(Range(cold)) \ victims
  BY <1>7 DEF Live, LifetimesInv
<1>9. ~Sooner(k, v, lapse, 2 * gap)
  BY <1>6, <1>8 DEF Answers, evict
<1>10. LastReading(s) \in Nat /\ 2 * gap \in Nat /\ 2 * gap <= LastReading(s)
  <2>1. Len(Prefix[s]) \in Nat /\ MaxTurns \in Nat
    BY RunnerAssumption
  <2>2. 2 <= 2 + Len(Prefix[s]) + MaxTurns
    BY <2>1
  <2> QED
    BY <2>2, Readings
<1> HIDE DEF lapse, cold
<1>11. ASSUME DeclaredAt(k, s) < DeclaredAt(v, s) PROVE FALSE
  <2> DEFINE a == DeclaredAt(k, s)
             b == DeclaredAt(v, s)
  <2> HIDE DEF a, b
  <2>1. \A t \in Session : a + LastReading(t) < b
    BY <1>3, <1>4, <1>11 DEF LifetimesApart, Lifetimes, a, b
  <2>2. a \in Nat /\ b \in Nat /\ lapse[k] \in Nat /\ lapse[v] \in Nat /\ b <= lapse[v]
    BY <1>3, <1>4 DEF a, b
  <2>3. PICK t \in Session : lapse[k] <= a + LastReading(t)
    BY <1>4 DEF a
  <2>4. LastReading(t) \in Int
    BY RunnerAssumption DEF LastReading
  <2>5. lapse[k] < lapse[v]
    BY <2>1, <2>2, <2>3, <2>4
  <2>6. 2 * gap < lapse[v]
    BY <1>10, <2>1, <2>2
  <2> QED
    BY <1>9, <2>5, <2>6 DEF Sooner
<1> QED
  BY <1>3, <1>4, <1>11

LEMMA LifetimesAction ==
    LifetimesApart /\ TurnoverInv /\ LifetimesInv /\ [RunnerNext]_vars
    => [\A s \in Session : turn'[s] # turn[s] =>
           \A v \in Held \ DOMAIN blocks', k \in Held \cap DOMAIN blocks' :
               DeclaredAt(v, s) <= DeclaredAt(k, s)]_vars
<1> SUFFICES ASSUME LifetimesApart, TurnoverInv, LifetimesInv, RunnerNext,
                    NEW s \in Session, turn'[s] # turn[s],
                    NEW v \in Held \ DOMAIN blocks', NEW k \in Held \cap DOMAIN blocks'
             PROVE  DeclaredAt(v, s) <= DeclaredAt(k, s)
  OBVIOUS
<1>1. PICK t \in Session : Turn(t)
  BY DEF RunnerNext
<1>2. t = s
  BY <1>1, TurnIs
<1> QED
  BY <1>1, <1>2, TurnSpares

\* Where declared lifetimes differ by more than any reading of the replay's clock,
\* no turn displaces a block with a longer one and leaves one with a shorter one.
THEOREM ShorterLivedGoFirst ==
    ASSUME LifetimesApart PROVE RunnerSpec => LongerLivedStay
<1>1. RunnerInit => TurnoverInv /\ LifetimesInv
  BY TurnoverInit, LifetimesInit
<1>2. TurnoverInv /\ LifetimesInv /\ [RunnerNext]_vars => (TurnoverInv /\ LifetimesInv)'
  BY TurnoverStep, LifetimesStep
<1>3. TurnoverInv /\ LifetimesInv /\ [RunnerNext]_vars
      => [\A s \in Session : turn'[s] # turn[s] =>
             \A v \in Held \ DOMAIN blocks', k \in Held \cap DOMAIN blocks' :
                 DeclaredAt(v, s) <= DeclaredAt(k, s)]_vars
  BY LifetimesAction
<1> QED
  BY <1>1, <1>2, <1>3, PTL DEF RunnerSpec, LongerLivedStay

(***************************************************************************)
(* Part 2: the connector's lookup.                                         *)
(***************************************************************************)
--------------------------------------------------------------------------------
(***************************************************************************)
(* Whole chunks.                                                           *)
(***************************************************************************)
LEMMA DivFacts ==
    ASSUME NEW w \in Nat \ {0}, NEW x \in Nat
    PROVE  /\ x \div w \in Nat /\ x % w \in Nat /\ x % w < w
           /\ x = w * (x \div w) + (x % w)
OBVIOUS

LEMMA TimesMono ==
    ASSUME NEW w \in Nat \ {0}, NEW a \in Int, NEW b \in Int
    PROVE  /\ w * a \in Int
           /\ a <= b <=> w * a <= w * b
           /\ a < b <=> w * a < w * b
<1>1. ASSUME NEW c \in Nat, NEW d \in Int PROVE w * (d + c) = w * d + w * c /\ w * c \in Nat
                                                /\ (c # 0 => w * c > 0)
  OBVIOUS
<1>2. CASE a <= b
  <2>1. b - a \in Nat /\ b = a + (b - a)
    BY <1>2
  <2> QED
    BY <2>1, <1>1, <1>2
<1>3. CASE b < a
  <2>1. a - b \in Nat /\ a = b + (a - b) /\ a - b # 0
    BY <1>3
  <2> QED
    BY <2>1, <1>1, <1>3
<1> QED
  BY <1>2, <1>3

\* Whole chunks of x tokens, and the chunks x tokens reach into.
LEMMA Chunks ==
    ASSUME NEW w \in Nat \ {0}, NEW x \in Nat, NEW c \in Int
    PROVE  /\ x \div w \in Nat /\ cdiv(x, w) \in Nat
           /\ c <= x \div w <=> w * c <= x
           /\ cdiv(x, w) <= c <=> x <= w * c
<1> DEFINE q == x \div w
           y == (x + w - 1)
           p == y \div w
<1>1. q \in Nat /\ x % w \in Nat /\ x % w < w /\ x = w * q + (x % w)
  BY DivFacts
<1>2. y \in Nat /\ y = x + w - 1
  OBVIOUS
<1>3. p \in Nat /\ y % w \in Nat /\ y % w < w /\ y = w * p + (y % w)
  <2> HIDE DEF y
  <2> QED
    BY <1>2, DivFacts
<1>4. cdiv(x, w) = p
  BY DEF cdiv
<1> HIDE DEF q, p, y
<1>5. w * (q + 1) = w * q + w /\ w * (p - 1) = w * p - w
  BY <1>1, <1>3
<1>6. c <= q <=> w * c <= x
  <2>1. CASE c <= q
    <3>1. w * c <= w * q
      BY <1>1, <2>1, TimesMono
    <3> QED
      BY <1>1, <2>1, <3>1
  <2>2. CASE c > q
    <3>1. w * (q + 1) <= w * c
      BY <1>1, <2>2, TimesMono
    <3> QED
      BY <1>1, <1>5, <2>2, <3>1
  <2> QED
    BY <1>1, <2>1, <2>2
<1>7. p <= c <=> x <= w * c
  <2>1. CASE p <= c
    <3>1. w * p <= w * c
      BY <1>3, <2>1, TimesMono
    <3> QED
      BY <1>2, <1>3, <2>1, <3>1
  <2>2. CASE c < p
    <3>1. w * c <= w * (p - 1)
      BY <1>3, <2>2, TimesMono
    <3> QED
      BY <1>2, <1>3, <1>5, <2>2, <3>1
  <2> QED
    BY <1>3, <2>1, <2>2
<1> QED
  BY <1>1, <1>3, <1>4, <1>6, <1>7 DEF q

LEMMA WidthFacts ==
    ASSUME NEW g \in Groups
    PROVE  /\ Width[g] \in Nat \ {0}
           /\ \E a \in Nat \ {0} : Width["fa"] = Width["mamba"] * a
           /\ \E a \in Nat \ {0} : Width["fa"] = Width[g] * a
<1>1. /\ Width["fa"] \in Nat \ {0} /\ Width["mamba"] \in Nat \ {0} /\ Width["qsa"] \in Nat \ {0}
      /\ Width["fa"] % Width["mamba"] = 0 /\ Width["mamba"] % Width["qsa"] = 0
  BY WidthAssumption DEF Groups
<1>0. ASSUME NEW w \in Nat \ {0}, NEW x \in Nat, x % w = 0
      PROVE  \E a \in Nat : x = w * a
  <2>1. x \div w \in Nat /\ x = w * (x \div w) + (x % w)
    BY DivFacts
  <2>2. x = w * (x \div w)
    BY <2>1, <1>0
  <2> QED
    BY <2>1, <2>2
<1>2. PICK a \in Nat : Width["fa"] = Width["mamba"] * a
  BY <1>1, <1>0
<1>3. PICK b \in Nat : Width["mamba"] = Width["qsa"] * b
  BY <1>1, <1>0
<1>4. a # 0 /\ b # 0 /\ Width["fa"] = Width["qsa"] * (b * a) /\ b * a \in Nat \ {0}
  BY <1>1, <1>2, <1>3
<1>5. Width["fa"] = Width["fa"] * 1
  BY <1>1
<1> QED
  BY <1>1, <1>2, <1>4, <1>5 DEF Groups

LEMMA KeysFacts ==
    ASSUME num_tokens \in Prompts, NEW g \in Groups
    PROVE  /\ num_tokens \in Nat \ {0} /\ Width["fa"] <= num_tokens
           /\ NumKeys(g) \in Nat \ {0} /\ Width[g] * NumKeys(g) \in Nat
           /\ \A c \in Int : c <= NumKeys(g) <=> Width[g] * c <= num_tokens
<1>1. num_tokens \in Nat /\ Width["fa"] <= num_tokens /\ Width["fa"] \in Nat \ {0}
  BY PromptsAssumption, WidthFacts DEF Groups
<1>2. Width[g] \in Nat \ {0} /\ NumKeys(g) \in Nat
  <2>1. Width[g] \in Nat \ {0}
    BY WidthFacts
  <2> QED
    BY <1>1, <2>1, DivFacts DEF NumKeys
<1>3. \A c \in Int : c <= NumKeys(g) <=> Width[g] * c <= num_tokens
  BY <1>1, <1>2, Chunks DEF NumKeys
<1>4. PICK a \in Nat \ {0} : Width["fa"] = Width[g] * a
  BY WidthFacts
<1>5. a <= NumKeys(g)
  BY <1>1, <1>3, <1>4
<1> QED
  BY <1>1, <1>2, <1>3, <1>4, <1>5

--------------------------------------------------------------------------------
(***************************************************************************)
(* The two ways a group counts its hits.                                   *)
(***************************************************************************)
RunAt(g, i, window) == \A j \in i..(i + window - 1) : <<g, j>> \in resident

\* h chunks of g from lo on are there, and if they end before hi the next one is not.
LeadsTo(g, lo, hi, h) ==
    /\ h \in Nat
    /\ RunAt(g, lo, h)
    /\ lo <= hi => lo + h <= hi
    /\ hi <= lo => h = 0
    /\ lo + h < hi => <<g, lo + h>> \notin resident

LEMMA LeadingHits ==
    ASSUME NEW g, NEW lo \in Nat, NEW hi \in Nat
    PROVE  LeadsTo(g, lo, hi, leading_hits(g, lo, hi))
<1> DEFINE missing == {i \in lo..(hi - 1) : <<g, i>> \notin resident}
           h == leading_hits(g, lo, hi)
<1>1. h = IF missing = {} THEN (IF hi < lo THEN 0 ELSE hi - lo) ELSE Min(missing) - lo
  BY DEF leading_hits
<1>2. CASE missing = {}
  BY <1>1, <1>2 DEF LeadsTo, RunAt
<1>3. CASE missing # {}
  <2>1. \E m \in missing : \A n \in missing : m <= n
    <3>1. missing \subseteq Nat
      OBVIOUS
    <3> HIDE DEF missing
    <3> QED
      BY <1>3, <3>1, NatMin
  <2>2. Min(missing) \in missing /\ \A n \in missing : Min(missing) <= n
    BY <2>1 DEF Min
  <2> DEFINE m == Min(missing)
  <2>3. /\ m \in lo..(hi - 1) /\ <<g, m>> \notin resident
        /\ \A n \in lo..(hi - 1) : n < m => <<g, n>> \in resident
    <3>1. m \in missing /\ \A n \in missing : m <= n
      BY <2>2
    <3> HIDE DEF m
    <3> QED
      BY <3>1
  <2> HIDE DEF missing, m
  <2>4. h = m - lo /\ m \in lo..(hi - 1)
    BY <1>1, <1>3, <2>3 DEF m
  <2>5. h \in Nat /\ lo + h = m /\ lo + h <= hi /\ ~(hi <= lo)
    BY <2>4
  <2>6. RunAt(g, lo, h)
    BY <2>3, <2>4, <2>5 DEF RunAt, m
  <2>7. <<g, lo + h>> \notin resident
    BY <2>3, <2>5 DEF m
  <2> HIDE DEF h
  <2>8. LeadsTo(g, lo, hi, h)
    BY <2>5, <2>6, <2>7 DEF LeadsTo
  <2> QED
    BY <2>8 DEF h
<1> QED
  BY <1>2, <1>3

\* t chunks from lo on end with the last run of window chunks below hi.
TrailsTo(g, lo, hi, window, t) ==
    \E i \in lo..(hi - window) :
        /\ RunAt(g, i, window) /\ t = i + window - lo
        /\ \A j \in lo..(hi - window) : RunAt(g, j, window) => j <= i

LEMMA TrailingRun ==
    ASSUME NEW g, NEW lo \in Nat, NEW hi \in Nat, NEW window \in Nat \ {0}
    PROVE  \/ TrailsTo(g, lo, hi, window, trailing_run(g, lo, hi, window))
           \/ /\ \A j \in lo..(hi - window) : ~RunAt(g, j, window)
              /\ LeadsTo(g, lo, hi, trailing_run(g, lo, hi, window))
<1> DEFINE starts == {i \in lo..(hi - window) : RunAt(g, i, window)}
           t == trailing_run(g, lo, hi, window)
<1>1. t = IF starts = {} THEN leading_hits(g, lo, hi) ELSE Max(starts) + window - lo
  BY DEF trailing_run, RunAt
<1>2. CASE starts = {}
  BY <1>1, <1>2, LeadingHits
<1>3. CASE starts # {}
  <2>1. \E m \in starts : \A n \in starts : m >= n
    <3>1. starts \subseteq 0..hi
      OBVIOUS
    <3> HIDE DEF starts
    <3> QED
      BY <1>3, <3>1, NatMax
  <2>2. Max(starts) \in starts /\ \A n \in starts : Max(starts) >= n
    BY <2>1 DEF Max
  <2> QED
    BY <1>1, <1>3, <2>2 DEF TrailsTo
<1> QED
  BY <1>2, <1>3

--------------------------------------------------------------------------------
(***************************************************************************)
(* What a lookup starts from.                                              *)
(***************************************************************************)
LookupInv ==
    /\ mode \in MODES /\ eagle \in BOOLEAN /\ num_tokens \in Prompts
    /\ resident \subseteq {chunk \in Groups \X Nat : chunk[2] < NumKeys(chunk[1])}
    /\ gated => resident = Storable /\ num_tokens % Width["fa"] = 0
    /\ computed < num_tokens
    /\ \E q \in 0..num_tokens : computed = Width["mamba"] * q

LEMMA LookupInvInit == LookupInit => LookupInv
<1> SUFFICES ASSUME LookupInit PROVE LookupInv
  OBVIOUS
<1>1. num_tokens \in Prompts
  BY DEF LookupInit
<1>2. num_tokens \in Nat \ {0} /\ Width["mamba"] \in Nat
  BY <1>1, KeysFacts, WidthFacts DEF Groups
<1>3. 0 = Width["mamba"] * 0 /\ 0 \in 0..num_tokens
  BY <1>2
<1> QED
  BY <1>2, <1>3 DEF LookupInit, LookupInv

LEMMA StorableKnown ==
    ASSUME num_tokens \in Prompts
    PROVE  Storable \subseteq {chunk \in Groups \X Nat : chunk[2] < NumKeys(chunk[1])}
<1>1. num_tokens \in Nat
  BY KeysFacts DEF Groups
<1> QED
  BY <1>1 DEF Storable

LEMMA PopulationKnown ==
    ASSUME num_tokens \in Prompts, NEW g \in Groups, NEW P \in store_group(g)
    PROVE  P \subseteq {chunk \in Groups \X Nat : chunk[2] < NumKeys(chunk[1])}
<1>1. NumKeys(g) \in Nat \ {0}
  BY KeysFacts
<1>2. \/ \E n \in 0..NumKeys(g) : P = {<<g, i>> : i \in 0..(n - 1)}
      \/ P = {<<g, i>> : i \in (NumKeys(g) - 1)..(NumKeys(g) - 1)}
  BY DEF store_group
<1> QED
  BY <1>1, <1>2

LEMMA StartFacts ==
    ASSUME num_tokens \in Prompts, NEW m \in 0..(num_tokens - 1)
    PROVE  LET n == round_down(m, Width["mamba"])
           IN  /\ n \in Nat /\ n <= m
               /\ \E q \in 0..num_tokens : n = Width["mamba"] * q
               /\ \A c \in Int : Width["mamba"] * c <= m => Width["mamba"] * c <= n
<1> DEFINE w == Width["mamba"]
           q == m \div w
<1>1. num_tokens \in Nat \ {0} /\ w \in Nat \ {0} /\ m \in Nat
  BY KeysFacts, WidthFacts DEF Groups
<1>2. q \in Nat /\ m = w * q + (m % w) /\ m % w \in Nat
  BY <1>1, DivFacts
<1>3. \A c \in Int : c <= q <=> w * c <= m
  <2> HIDE DEF w
  <2> QED
    BY <1>1, Chunks
<1>4. round_down(m, w) = w * q
  BY <1>1, <1>2 DEF round_down
<1> HIDE DEF w, q
<1>5. q <= w * q /\ w * q <= m /\ w * q \in Nat
  BY <1>1, <1>2, <1>3
<1>6. \A c \in Int : w * c <= m => w * c <= w * q
  BY <1>1, <1>2, <1>3, TimesMono
<1>7. q \in 0..num_tokens
  BY <1>1, <1>2, <1>5
<1> QED
  BY <1>4, <1>5, <1>6, <1>7 DEF w

LEMMA LookupInvStep == LookupInv /\ [LookupNext]_lookupVars => LookupInv'
<1> SUFFICES ASSUME LookupInv, [LookupNext]_lookupVars PROVE LookupInv'
  OBVIOUS
<1>1. num_tokens \in Prompts /\ num_tokens \in Nat \ {0} /\ Width["mamba"] \in Nat
      /\ 0 = Width["mamba"] * 0 /\ 0 \in 0..num_tokens
  BY KeysFacts, WidthFacts DEF Groups, LookupInv
<1>2. CASE Store
  <2>1. /\ num_tokens' = num_tokens /\ mode' = mode /\ eagle' = eagle
        /\ resident' = Storable /\ num_tokens % Width["fa"] = 0
        /\ computed' = 0 /\ hit' = NotAsked
    BY <1>2 DEF Store
  <2>2. Storable' = Storable /\ \A g : NumKeys(g)' = NumKeys(g)
    BY <2>1 DEF Storable, NumKeys, HasBlock, Reachable, Window
  <2> QED
    BY <1>1, <2>1, <2>2, StorableKnown DEF LookupInv, NotAsked, NumKeys
<1>3. CASE Populate
  <2>1. /\ num_tokens' = num_tokens /\ mode' = mode /\ eagle' = eagle
        /\ gated' = FALSE /\ computed' = 0 /\ hit' = NotAsked
    BY <1>3 DEF Populate
  <2>2. resident' \subseteq {chunk \in Groups \X Nat : chunk[2] < NumKeys(chunk[1])}
    <3>1. PICK fa \in store_group("fa"), qsa \in store_group("qsa"), mamba \in store_group("mamba") :
             resident' = fa \cup qsa \cup mamba
      BY <1>3 DEF Populate
    <3>2. "fa" \in Groups /\ "qsa" \in Groups /\ "mamba" \in Groups
      BY DEF Groups
    <3> QED
      BY <1>1, <3>1, <3>2, PopulationKnown
  <2> QED
    BY <1>1, <2>1, <2>2 DEF LookupInv, NotAsked, NumKeys
<1>4. CASE Lookup
  <2>1. /\ num_tokens' = num_tokens /\ mode' = mode /\ eagle' = eagle
        /\ resident' = resident /\ gated' = gated
    BY <1>4 DEF Lookup
  <2>2. PICK m \in 0..(num_tokens - 1) :
           computed' = round_down(m, Width["mamba"])
    BY <1>4 DEF Lookup
  <2>3. computed' < num_tokens /\ \E q \in 0..num_tokens : computed' = Width["mamba"] * q
    BY <1>1, <2>2, StartFacts
  <2>4. Storable' = Storable
    BY <2>1 DEF Storable, NumKeys, HasBlock, Reachable, Window
  <2> QED
    BY <2>1, <2>3, <2>4 DEF LookupInv, NumKeys
<1>5. CASE UNCHANGED lookupVars
  BY <1>5 DEF lookupVars, LookupInv, NumKeys, Storable, HasBlock, Reachable, Window
<1> QED
  BY <1>2, <1>3, <1>4, <1>5 DEF LookupNext

--------------------------------------------------------------------------------
(***************************************************************************)
(* One group.                                                              *)
(***************************************************************************)
LEMMA WindowFacts ==
    ASSUME NEW g \in Groups
    PROVE  Window(g) \in {Full, 1} /\ (Window(g) # Full => Window(g) + Draft \in Nat \ {0})
BY DEF Window, Full, Groups, Draft

\* Where the chunks of g that the lookup looks at end.
AskedTo(g, max_hit) ==
    LET w == Width[g]
        reach == IF eagle /\ Window(g) # Full
                 THEN Smaller(max_hit + w, NumKeys(g) * w) ELSE max_hit
    IN  Smaller(cdiv(reach, w), NumKeys(g))

LEMMA FoundFacts ==
    ASSUME num_tokens \in Prompts, NEW g \in Groups, NEW max_hit \in Nat, NEW from \in Nat
    PROVE  LET hi == AskedTo(g, max_hit)
               n == Found(g, max_hit, from)
               window == Window(g) + Draft
           IN  /\ hi \in Nat /\ n \in Nat
               /\ Window(g) = Full => LeadsTo(g, from, hi, n)
               /\ Window(g) # Full =>
                     /\ window \in Nat \ {0}
                     /\ \/ TrailsTo(g, from, hi, window, n)
                        \/ /\ \A j \in from..(hi - window) : ~RunAt(g, j, window)
                           /\ LeadsTo(g, from, hi, n)
<1> DEFINE w == Width[g]
           reach == IF eagle /\ Window(g) # Full
                    THEN Smaller(max_hit + w, NumKeys(g) * w) ELSE max_hit
           hi == AskedTo(g, max_hit)
           n == Found(g, max_hit, from)
           window == Window(g) + Draft
<1>1. w \in Nat \ {0} /\ NumKeys(g) \in Nat
  BY WidthFacts, KeysFacts
<1>2. reach \in Nat
  BY <1>1 DEF Smaller
<1>3. hi \in Nat
  <2>1. hi = Smaller(cdiv(reach, w), NumKeys(g))
    BY DEF AskedTo
  <2> HIDE DEF reach, w
  <2>2. cdiv(reach, w) \in Nat
    <3>1. 0 \in Int
      OBVIOUS
    <3> QED
      BY <1>1, <1>2, <3>1, Chunks
  <2> QED
    BY <1>1, <2>1, <2>2 DEF Smaller
<1>4. n = IF Window(g) = Full THEN leading_hits(g, from, hi)
          ELSE trailing_run(g, from, hi, window)
  BY DEF Found, Draft, AskedTo
<1> HIDE DEF hi
<1>5. CASE Window(g) = Full
  <2>1. LeadsTo(g, from, hi, n)
    BY <1>3, <1>4, <1>5, LeadingHits
  <2> QED
    BY <1>3, <1>5, <2>1 DEF LeadsTo, hi
<1>6. CASE Window(g) # Full
  <2>1. window \in Nat \ {0}
    BY <1>6, WindowFacts
  <2> HIDE DEF window
  <2>2. \/ TrailsTo(g, from, hi, window, n)
        \/ /\ \A j \in from..(hi - window) : ~RunAt(g, j, window)
           /\ LeadsTo(g, from, hi, n)
    BY <1>3, <1>4, <1>6, <2>1, TrailingRun DEF window
  <2> HIDE DEF n
  <2>3. n \in Nat
    BY <1>3, <2>1, <2>2 DEF TrailsTo, LeadsTo
  <2> QED
    BY <1>3, <1>6, <2>1, <2>2, <2>3 DEF hi, n, window
<1> QED
  BY <1>5, <1>6

LEMMA NarrowedFacts ==
    ASSUME num_tokens \in Prompts, NEW g \in Groups, NEW max_hit \in Nat, NEW n \in Nat
    PROVE  LET w == Width[g]
               capped == Smaller(max_hit, NumKeys(g) * w)
               from == n \div w
               b == Narrowed(max_hit, g, n)
           IN  /\ capped \in Nat /\ from \in Nat /\ b \in Nat
               /\ Found(g, capped, from) \in Nat
               /\ b # 0 => /\ b = Smaller(capped, w * (from + Found(g, capped, from) - Draft))
                           /\ w <= b - n /\ Found(g, capped, from) # 0
               /\ b = 0 => \/ capped - n < w \/ Found(g, capped, from) = 0
                           \/ Smaller(capped, w * (from + Found(g, capped, from) - Draft)) - n < w
<1> DEFINE w == Width[g]
           capped == Smaller(max_hit, NumKeys(g) * w)
           from == n \div w
           nhit == Found(g, capped, from)
           reached == Smaller(capped, w * (from + nhit - Draft))
<1>1. w \in Nat \ {0} /\ NumKeys(g) \in Nat
  BY WidthFacts, KeysFacts
<1>2. capped \in Nat
  BY <1>1 DEF Smaller
<1>3. from \in Nat
  BY <1>1, DivFacts
<1>4. nhit \in Nat
  <2> HIDE DEF capped, from
  <2> QED
    BY <1>2, <1>3, FoundFacts
<1>5. Draft \in {0, 1}
  BY DEF Draft
<1>6. Narrowed(max_hit, g, n) =
         IF capped - n < w \/ nhit = 0 \/ reached - n < w THEN 0 ELSE reached
  BY DEF Narrowed, Draft
<1>7. reached \in Int
  <2> HIDE DEF w, capped, from, nhit
  <2>1. from + nhit - Draft \in Int
    BY <1>3, <1>4, <1>5
  <2>2. w * (from + nhit - Draft) \in Int
    BY <1>1, <2>1
  <2> QED
    BY <1>2, <2>2 DEF Smaller
<1> HIDE DEF w, capped, from, nhit, reached
<1>8. reached - n >= w => reached \in Nat /\ reached # 0
  BY <1>1, <1>7
<1>9. /\ Narrowed(max_hit, g, n) \in Nat
      /\ Narrowed(max_hit, g, n) # 0 =>
            Narrowed(max_hit, g, n) = reached /\ w <= reached - n /\ nhit # 0
      /\ Narrowed(max_hit, g, n) = 0 => capped - n < w \/ nhit = 0 \/ reached - n < w
  BY <1>1, <1>6, <1>7, <1>8
<1> QED
  BY <1>2, <1>3, <1>4, <1>9 DEF w, capped, from, nhit, reached

--------------------------------------------------------------------------------
(***************************************************************************)
(* The ring.                                                               *)
(***************************************************************************)
LEMMA RingFound ==
    ASSUME LookupInv, gated, NEW max_hit \in Nat, NEW from \in Nat
    PROVE  Found("qsa", max_hit, from) <= 1 /\ (from # 0 => Found("qsa", max_hit, from) = 0)
<1> DEFINE n == Found("qsa", max_hit, from)
           hi == AskedTo("qsa", max_hit)
           window == Window("qsa") + Draft
<1>1. \A i \in Int : <<"qsa", i>> \in resident => i = 0
  BY DEF LookupInv, Storable, HasBlock
<1>2. /\ hi \in Nat /\ n \in Nat
      /\ Window("qsa") = Full => LeadsTo("qsa", from, hi, n)
      /\ Window("qsa") # Full =>
            /\ window \in Nat \ {0}
            /\ TrailsTo("qsa", from, hi, window, n) \/ LeadsTo("qsa", from, hi, n)
  BY FoundFacts DEF Groups, LookupInv
<1> HIDE DEF n, hi, window
<1>3. ASSUME RunAt("qsa", from, n) PROVE n <= 1 /\ (from # 0 => n = 0)
  <2>1. ASSUME n >= 1 PROVE from = 0
    <3>1. from \in from..(from + n - 1) /\ from \in Int
      BY <1>2, <2>1
    <3> QED
      BY <1>1, <1>3, <3>1 DEF RunAt
  <2>2. ASSUME n >= 2 PROVE FALSE
    <3>1. from + 1 \in from..(from + n - 1) /\ from + 1 # 0 /\ from + 1 \in Int
      BY <1>2, <2>2
    <3> QED
      BY <1>1, <1>3, <3>1 DEF RunAt
  <2> QED
    BY <1>2, <2>1, <2>2
<1>4. ASSUME window \in Nat \ {0}, TrailsTo("qsa", from, hi, window, n)
      PROVE  n <= 1 /\ (from # 0 => n = 0)
  <2>1. PICK i \in from..(hi - window) : RunAt("qsa", i, window) /\ n = i + window - from
    BY <1>4 DEF TrailsTo
  <2>2. i \in Int /\ from <= i
    BY <1>2, <1>4, <2>1
  <2>3. i = 0
    <3>1. i \in i..(i + window - 1)
      BY <1>4, <2>2
    <3> QED
      BY <1>1, <2>1, <2>2, <3>1 DEF RunAt
  <2>4. i + window - 1 = 0
    <3>1. (i + window - 1) \in i..(i + window - 1) /\ (i + window - 1) \in Int
      BY <1>4, <2>2
    <3> QED
      BY <1>1, <2>1, <3>1 DEF RunAt
  <2> QED
    BY <1>4, <2>1, <2>2, <2>3, <2>4
<1> QED
  BY <1>2, <1>3, <1>4 DEF LeadsTo, n

LEMMA PassedNat ==
    ASSUME num_tokens \in Prompts, NEW g \in Groups, NEW b \in Nat, NEW n \in Nat
    PROVE  Passed(b, g, n) \in Nat
BY NarrowedFacts DEF Passed

\* A lookup that asks the ring is left with less than a Mamba chunk.
LEMMA RingStops ==
    ASSUME LookupInv, gated, mode # "fixed", Width["qsa"] < Width["mamba"], NEW n \in Nat
    PROVE  predict(n) = 0
<1> DEFINE start == round_down(num_tokens - 1, Width["mamba"])
           x == Passed(start, "fa", n)
           y == Passed(x, "qsa", n)
           z == Passed(y, "mamba", n)
<1>1. /\ num_tokens \in Prompts /\ num_tokens \in Nat \ {0}
      /\ Width["qsa"] \in Nat \ {0} /\ Width["mamba"] \in Nat \ {0}
      /\ NumKeys("mamba") \in Nat
  BY KeysFacts, WidthFacts DEF LookupInv, Groups
<1>2. "fa" \in Groups /\ "qsa" \in Groups /\ "mamba" \in Groups /\ lookup_groups = Groups
  BY DEF Groups, lookup_groups
<1>3. start \in Nat
  <2>1. num_tokens - 1 \in 0..(num_tokens - 1)
    BY <1>1
  <2> QED
    BY <1>1, <2>1, StartFacts
<1> HIDE DEF start
<1>4. x \in Nat
  BY <1>1, <1>2, <1>3, PassedNat
<1> HIDE DEF x
<1>5. y \in Nat
  BY <1>1, <1>2, <1>4, PassedNat
<1>6. y <= Width["qsa"]
  <2>1. CASE x = 0
    BY <1>1, <2>1 DEF Passed
  <2>2. CASE x # 0
    <3> DEFINE w == Width["qsa"]
               capped == Smaller(x, NumKeys("qsa") * w)
               from == n \div w
               nhit == Found("qsa", capped, from)
    <3>1. y = Narrowed(x, "qsa", n)
      BY <1>2, <2>2 DEF Passed
    <3>2. /\ capped \in Nat /\ from \in Nat /\ nhit \in Nat
          /\ y # 0 => y = Smaller(capped, w * (from + nhit - Draft)) /\ nhit # 0
      BY <1>1, <1>2, <1>4, <3>1, NarrowedFacts
    <3> HIDE DEF capped, from
    <3>3. nhit <= 1 /\ (from # 0 => nhit = 0)
      BY <3>2, RingFound
    <3> HIDE DEF nhit, y, w
    <3>4. CASE y = 0
      BY <1>1, <3>4
    <3>5. CASE y # 0
      <4>1. from = 0 /\ nhit = 1 /\ y = Smaller(capped, w * (from + nhit - Draft))
        BY <3>2, <3>3, <3>5
      <4>2. from + nhit - Draft \in {0, 1}
        BY <4>1 DEF Draft
      <4>3. w * (from + nhit - Draft) \in {0, w}
        BY <1>1, <4>2 DEF w
      <4> QED
        BY <1>1, <3>2, <4>1, <4>3 DEF Smaller, w
    <3> QED
      BY <3>4, <3>5
  <2> QED
    BY <2>1, <2>2
<1> HIDE DEF y
<1>7. z = 0
  <2>1. CASE y = 0
    BY <2>1 DEF Passed
  <2>2. CASE y # 0
    <3> DEFINE w == Width["mamba"]
               capped == Smaller(y, NumKeys("mamba") * w)
    <3>1. z = IF capped - n < w THEN 0 ELSE z
      BY <1>2, <2>2 DEF Passed, Narrowed
    <3>2. NumKeys("mamba") * w \in Nat
      BY <1>1
    <3>3. capped - n < w
      <4> HIDE DEF w
      <4> QED
        BY <1>1, <1>5, <1>6, <3>2 DEF Smaller, w
    <3> QED
      BY <3>1, <3>3
  <2> QED
    BY <2>1, <2>2
<1>8. predict(n) = IF z = 0 THEN 0 ELSE z - n
  BY DEF predict, start, x, y
<1> QED
  BY <1>7, <1>8

(***************************************************************************)
(* As long as the ring takes part in the lookup, its one pinned block      *)
(* vetoes every load of a stored prompt, once a ring chunk is smaller than *)
(* a Mamba chunk (classify probe, lines 276-282).                          *)
(***************************************************************************)
THEOREM RingAlwaysVetoes ==
    ASSUME Width["qsa"] < Width["mamba"]
    PROVE  LookupSpec => []RingVetoes
<1>1. LookupInit => LookupInv /\ RingVetoes
  BY LookupInvInit DEF LookupInit, RingVetoes
<1>2. (LookupInv /\ RingVetoes) /\ [LookupNext]_lookupVars => (LookupInv /\ RingVetoes)'
  <2> SUFFICES ASSUME LookupInv, RingVetoes, [LookupNext]_lookupVars PROVE RingVetoes'
    BY LookupInvStep
  <2>1. CASE Store
    BY <2>1 DEF Store, RingVetoes
  <2>2. CASE Populate
    BY <2>2 DEF Populate, RingVetoes
  <2>3. CASE Lookup
    <3>1. mode' = mode /\ gated' = gated
      BY <2>3 DEF Lookup
    <3>2. PICK m \in 0..(num_tokens - 1) : hit' = predict(round_down(m, Width["mamba"]))
      BY <2>3 DEF Lookup
    <3> DEFINE n == round_down(m, Width["mamba"])
    <3>3. n \in Nat
      BY <3>2, StartFacts DEF LookupInv
    <3> HIDE DEF n
    <3>4. mode # "fixed" /\ gated => predict(n) = 0
      BY <3>3, RingStops
    <3> QED
      BY <3>1, <3>2, <3>4 DEF RingVetoes, n
  <2>4. CASE UNCHANGED lookupVars
    BY <2>4 DEF lookupVars, RingVetoes
  <2> QED
    BY <2>1, <2>2, <2>3, <2>4 DEF LookupNext
<1>3. LookupInv /\ RingVetoes => RingVetoes
  OBVIOUS
<1> QED
  BY <1>1, <1>2, <1>3, PTL DEF LookupSpec

--------------------------------------------------------------------------------
(***************************************************************************)
(* The longest boundary.                                                   *)
(***************************************************************************)
\* Attended and Loadable for a prompt of which n tokens were computed.
AttendedFrom(n, b) ==
    \A i \in (n \div Width["fa"])..(cdiv(b, Width["fa"]) + Draft - 1) : <<"fa", i>> \in resident

LoadableFrom(n, b) ==
    LET loaded == Max({b, n + Width["fa"]})
    IN  /\ loaded <= round_down(num_tokens - 1, Width["mamba"])
        /\ AttendedFrom(n, loaded) /\ Recurrent(b)

\* The full-attention group is asked for all its chunks.
LEMMA AttentionAskedTo ==
    ASSUME num_tokens \in Prompts, Width["mamba"] < Width["fa"]
    PROVE  LET start == round_down(num_tokens - 1, Width["mamba"])
               capped == Smaller(start, NumKeys("fa") * Width["fa"])
           IN  /\ AskedTo("fa", capped) = NumKeys("fa")
               /\ start \in Nat /\ start < num_tokens
               /\ \A c \in Int : Width["fa"] * c <= num_tokens - 1 => Width["fa"] * c <= start
<1> DEFINE v == Width["mamba"]
           w == Width["fa"]
           k == NumKeys("fa")
           start == round_down(num_tokens - 1, v)
           capped == Smaller(start, k * w)
<1>1. /\ num_tokens \in Nat \ {0} /\ v \in Nat \ {0} /\ w \in Nat \ {0}
      /\ k \in Nat \ {0} /\ v < w /\ w <= num_tokens
      /\ \A c \in Int : c <= k <=> w * c <= num_tokens
  BY KeysFacts, WidthFacts DEF Groups
<1>2. PICK a \in Nat \ {0} : w = v * a
  BY WidthFacts DEF Groups
<1>3. /\ start \in Nat /\ start <= num_tokens - 1
      /\ \A c \in Int : v * c <= num_tokens - 1 => v * c <= start
  <2>1. num_tokens - 1 \in 0..(num_tokens - 1)
    BY <1>1
  <2> QED
    BY <2>1, StartFacts
<1>4. start >= num_tokens - v
  <2> DEFINE s == (num_tokens - 1) \div v
  <2>1. s \in Nat /\ start = s * v /\ num_tokens - 1 = v * s + ((num_tokens - 1) % v)
        /\ (num_tokens - 1) % v \in Nat /\ (num_tokens - 1) % v < v
    <3>1. num_tokens - 1 \in Nat
      BY <1>1
    <3> QED
      BY <1>1, <3>1, DivFacts DEF round_down
  <2> HIDE DEF s, v
  <2>2. s * v = v * s
    BY <1>1, <2>1
  <2> HIDE DEF start
  <2>3. v * s \in Nat
    BY <1>1, <2>1
  <2> DEFINE r == (num_tokens - 1) % v
  <2>4. r \in Nat /\ r < v /\ num_tokens - 1 = start + r
    BY <2>1, <2>2
  <2> HIDE DEF r
  <2> QED
    BY <1>1, <1>3, <2>4
<1>5. \A c \in Int : w * c <= num_tokens - 1 => w * c <= start
  <2> SUFFICES ASSUME NEW c \in Int, w * c <= num_tokens - 1 PROVE w * c <= start
    OBVIOUS
  <2>1. w * c = v * (a * c) /\ a * c \in Int
    BY <1>1, <1>2
  <2> QED
    BY <1>3, <2>1
<1> HIDE DEF v, w, k, start
<1>6. k * w = w * k /\ w * k \in Nat /\ w * (k - 1) = w * k - w /\ w * (k + 1) = w * k + w
  BY <1>1
<1>7. w * k <= num_tokens /\ ~(w * (k + 1) <= num_tokens)
  BY <1>1
<1>8. capped \in Nat /\ capped <= w * k /\ capped > w * (k - 1)
  BY <1>1, <1>3, <1>4, <1>6, <1>7 DEF Smaller
<1>9. cdiv(capped, w) = k
  <2> HIDE DEF capped
  <2>1. cdiv(capped, w) \in Nat
    BY <1>1, <1>8, Chunks
  <2>2. cdiv(capped, w) <= k
    BY <1>1, <1>8, Chunks
  <2>3. ~(cdiv(capped, w) <= k - 1)
    <3>1. k - 1 \in Int /\ ~(capped <= w * (k - 1))
      BY <1>1, <1>6, <1>8
    <3> QED
      BY <1>1, <1>8, <3>1, Chunks
  <2> QED
    BY <1>1, <2>1, <2>2, <2>3
<1>10. AskedTo("fa", capped) = Smaller(cdiv(capped, w), k)
  BY DEF AskedTo, Window, Full, w, k
<1>11. AskedTo("fa", capped) = k
  BY <1>9, <1>10 DEF Smaller
<1> QED
  BY <1>1, <1>3, <1>5, <1>11 DEF v, w, k, start

\* The chunk full attention is held up to is the end of what the lookup attends
\* to, and of what it may load.
LEMMA AttentionPass ==
    ASSUME LookupInv, mode = "fixed", Width["mamba"] < Width["fa"],
           NEW n \in Nat, n < num_tokens
    PROVE  LET w == Width["fa"]
               start == round_down(num_tokens - 1, Width["mamba"])
           IN  \E p \in Int :
                  /\ \A b \in Nat : b >= n + w => (AttendedFrom(n, b) <=> b <= w * p)
                  /\ Passed(start, "fa", n) =
                        IF Smaller(start, w * p) >= n + w THEN Smaller(start, w * p) ELSE 0
<1> DEFINE w == Width["fa"]
           k == NumKeys("fa")
           start == round_down(num_tokens - 1, Width["mamba"])
           capped == Smaller(start, k * w)
           from == n \div w
           h == Found("fa", capped, from)
           p == from + h - Draft
           b1 == Narrowed(start, "fa", n)
<1>1. /\ num_tokens \in Nat \ {0} /\ w \in Nat \ {0}
      /\ k \in Nat \ {0} /\ num_tokens \in Prompts
      /\ \A c \in Int : c <= k <=> w * c <= num_tokens
  BY KeysFacts, WidthFacts DEF Groups, LookupInv
<1>2. AskedTo("fa", capped) = k /\ start \in Nat /\ start < num_tokens
      /\ (\A c \in Int : w * c <= num_tokens - 1 => w * c <= start)
  BY <1>1, AttentionAskedTo
<1>3. /\ capped \in Nat /\ from \in Nat /\ b1 \in Nat /\ h \in Nat
      /\ b1 # 0 => b1 = Smaller(capped, w * p) /\ w <= b1 - n /\ h # 0
      /\ b1 = 0 => \/ capped - n < w \/ h = 0
                   \/ Smaller(capped, w * p) - n < w
  BY <1>1, <1>2, NarrowedFacts DEF Groups
<1>4. LeadsTo("fa", from, k, h)
  <2>1. Window("fa") = Full /\ "fa" \in Groups
    BY DEF Window, Groups
  <2> HIDE DEF h, from, capped
  <2>2. LeadsTo("fa", from, AskedTo("fa", capped), Found("fa", capped, from))
    BY <1>1, <1>3, <2>1, FoundFacts
  <2> QED
    BY <1>2, <2>2 DEF h
<1>5. w * from <= n /\ (\A c \in Int : c <= from <=> w * c <= n)
  <2>1. from \in Int
    BY <1>3
  <2> HIDE DEF w
  <2>2. \A c \in Int : c <= from <=> w * c <= n
    BY <1>1, Chunks
  <2> QED
    BY <2>1, <2>2
<1>6. from <= k
  BY <1>1, <1>3, <1>5
<1>7. Passed(start, "fa", n) = IF start = 0 THEN 0 ELSE b1
  BY DEF Passed, lookup_groups, Groups
<1>0. Draft \in {0, 1}
  BY DEF Draft
<1>8. ASSUME NEW b \in Nat, b >= n + w PROVE AttendedFrom(n, b) <=> b <= w * p
  <2> DEFINE c == cdiv(b, w)
  <2>1. c \in Nat /\ (\A d \in Int : c <= d <=> b <= w * d)
    <3>1. 0 \in Int
      OBVIOUS
    <3> HIDE DEF w
    <3> QED
      BY <1>1, <3>1, Chunks
  <2>2. AttendedFrom(n, b) <=> \A i \in from..(c + Draft - 1) : <<"fa", i>> \in resident
    BY DEF AttendedFrom
  <2>3. \A i \in Int : <<"fa", i>> \in resident => i < k
    BY DEF LookupInv
  <2> HIDE DEF c, w, k, from, h, p
  <2>4. p \in Int /\ (c <= p <=> b <= w * p)
    BY <1>0, <1>3, <2>1 DEF p
  <2>5. c > from
    <3>1. ~(b <= w * from)
      BY <1>1, <1>3, <1>5, <1>8
    <3> QED
      BY <1>3, <2>1, <3>1
  <2>6. c <= p => AttendedFrom(n, b)
    BY <1>0, <1>3, <1>4, <2>1, <2>2 DEF LeadsTo, RunAt, p
  <2>7. ASSUME c > p PROVE ~AttendedFrom(n, b)
    <3>1. from + h \in from..(c + Draft - 1) /\ from + h \in Int
      BY <1>0, <1>3, <2>1, <2>7 DEF p
    <3>2. <<"fa", from + h>> \notin resident
      BY <1>1, <1>3, <1>4, <2>3, <3>1 DEF LeadsTo
    <3> QED
      BY <2>2, <3>1, <3>2
  <2> QED
    BY <2>1, <2>4, <2>6, <2>7
<1>9. p \in Int /\ p <= k /\ w * p \in Int /\ w * k \in Nat /\ w * p <= w * k /\ k * w = w * k
  <2> HIDE DEF w, k, from, h, p
  <2>1. p \in Int /\ p <= k
    BY <1>0, <1>1, <1>3, <1>4, <1>6 DEF LeadsTo, p
  <2> QED
    BY <1>1, <2>1, TimesMono
<1>10. h = 0 => w * p <= n
  <2> HIDE DEF w, from, h, p
  <2>1. h = 0 => p <= from
    BY <1>0, <1>3, <1>9 DEF p
  <2> QED
    BY <1>3, <1>5, <1>9, <2>1
<1> HIDE DEF start, w, k, from, h, p, b1
<1>11. Smaller(capped, w * p) = Smaller(start, w * p)
  BY <1>1, <1>2, <1>9 DEF Smaller
<1>12. capped >= Smaller(start, w * p) /\ w * p >= Smaller(start, w * p)
       /\ Smaller(start, w * p) <= start /\ Smaller(start, w * p) \in Int
  BY <1>1, <1>2, <1>9 DEF Smaller
<1> DEFINE r == Smaller(start, w * p)
<1>13. Passed(start, "fa", n) = IF r >= n + w THEN r ELSE 0
  <2> HIDE DEF r, capped
  <2>1. /\ r \in Int /\ capped >= r /\ w * p >= r /\ r <= start
        /\ b1 # 0 => b1 = r /\ w <= b1 - n
        /\ b1 = 0 => capped - n < w \/ h = 0 \/ r - n < w
    BY <1>3, <1>11, <1>12 DEF r
  <2>2. CASE r >= n + w
    <3>1. start # 0 /\ b1 # 0
      BY <1>1, <1>2, <1>3, <1>9, <1>10, <2>1, <2>2
    <3> QED
      BY <1>7, <2>1, <2>2, <3>1
  <2>3. CASE r < n + w
    <3>1. b1 = 0
      BY <1>1, <1>3, <2>1, <2>3
    <3> QED
      BY <1>1, <1>7, <2>1, <2>3, <3>1
  <2> QED
    BY <1>1, <2>1, <2>2, <2>3
<1> QED
  BY <1>8, <1>9, <1>13 DEF start, w, r

LEMMA RecurrentRun ==
    ASSUME NEW c \in Nat \ {0}
    PROVE  Recurrent(Width["mamba"] * c) <=> RunAt("mamba", c - 1, 1 + Draft)
<1> DEFINE v == Width["mamba"]
           b == v * c
<1>1. v \in Nat \ {0} /\ b \in Nat
  BY WidthFacts DEF Groups
<1>2. b \div v \in Nat /\ b % v \in Nat /\ b % v < v /\ b = v * (b \div v) + (b % v)
  <2> HIDE DEF b, v
  <2> QED
    BY <1>1, DivFacts
<1>3. b \div v <= c /\ c <= b \div v
  <2>1. \A d \in Int : d <= b \div v <=> v * d <= b
    <3> HIDE DEF b, v
    <3> QED
      BY <1>1, Chunks
  <2>2. c \in Int /\ v * c <= b
    BY <1>1
  <2> DEFINE x == b \div v
  <2>3. x \in Int /\ v * x <= b
    BY <1>2, <2>1
  <2> HIDE DEF v, x
  <2>4. x <= c
    BY <1>1, <2>3, TimesMono
  <2> QED
    BY <2>1, <2>2, <2>4 DEF x
<1>4. b \div v = c /\ b % v = 0
  <2> DEFINE x == b \div v
             r == b % v
  <2>1. x \in Nat /\ r \in Nat /\ b = v * x + r /\ x <= c /\ c <= x
    BY <1>2, <1>3
  <2> HIDE DEF x, r
  <2>2. x = c
    BY <2>1
  <2>3. v * x \in Nat /\ b = v * x
    BY <1>1, <2>1, <2>2
  <2>4. r = 0
    <3> HIDE DEF b, v
    <3> QED
      BY <2>1, <2>3
  <2> QED
    BY <2>2, <2>4 DEF x, r
<1>5. Recurrent(b) <=> \A k \in 0..Draft : <<"mamba", c - 1 + k>> \in resident
  BY <1>4 DEF Recurrent
<1> HIDE DEF b, v
<1>6. Draft \in Nat
  BY DEF Draft
<1>7. (\A k \in 0..Draft : <<"mamba", c - 1 + k>> \in resident) <=> RunAt("mamba", c - 1, 1 + Draft)
  <2>1. ASSUME \A k \in 0..Draft : <<"mamba", c - 1 + k>> \in resident,
               NEW j \in (c - 1)..(c - 1 + (1 + Draft) - 1)
        PROVE  <<"mamba", j>> \in resident
    <3>1. j - (c - 1) \in 0..Draft /\ c - 1 + (j - (c - 1)) = j
      BY <1>6
    <3> QED
      BY <2>1, <3>1
  <2>2. ASSUME RunAt("mamba", c - 1, 1 + Draft), NEW k \in 0..Draft
        PROVE  <<"mamba", c - 1 + k>> \in resident
    <3>1. c - 1 + k \in (c - 1)..(c - 1 + (1 + Draft) - 1)
      BY <1>6
    <3> QED
      BY <2>2, <3>1 DEF RunAt
  <2> QED
    BY <2>1, <2>2 DEF RunAt
<1> QED
  BY <1>5, <1>7 DEF b, v

\* Out of the Mamba boundaries up to b the group finds the last one it can serve.
LEMMA RecurrentPass ==
    ASSUME LookupInv, mode = "fixed", NEW q \in Nat, NEW last \in Nat,
           Width["mamba"] * last <= num_tokens
    PROVE  LET v == Width["mamba"]
               z == Narrowed(v * last, "mamba", v * q)
           IN  \/ /\ z = 0
                  /\ \A d \in (q + 1)..last : ~RunAt("mamba", d - 1, 1 + Draft)
               \/ \E c \in (q + 1)..last :
                     /\ z = v * c /\ RunAt("mamba", c - 1, 1 + Draft)
                     /\ \A d \in (q + 1)..last : RunAt("mamba", d - 1, 1 + Draft) => d <= c
<1> DEFINE v == Width["mamba"]
           k == NumKeys("mamba")
           b == v * last
           n == v * q
           capped == Smaller(b, k * v)
           from == n \div v
           t == Found("mamba", capped, from)
           z == Narrowed(b, "mamba", n)
           hi == AskedTo("mamba", capped)
           window == 1 + Draft
<1>1. /\ num_tokens \in Nat \ {0} /\ v \in Nat \ {0}
      /\ k \in Nat \ {0} /\ num_tokens \in Prompts
      /\ \A c \in Int : c <= k <=> v * c <= num_tokens
  BY KeysFacts, WidthFacts DEF Groups, LookupInv
<1>2. Draft \in {0, 1} /\ (eagle <=> Draft = 1) /\ Window("mamba") = 1 /\ "mamba" \in Groups
  BY DEF Draft, LookupInv, Window, Groups
<1>3. b \in Nat /\ n \in Nat
  BY <1>1
<1>4. /\ capped \in Nat /\ from \in Nat /\ z \in Nat /\ t \in Nat
      /\ z # 0 => z = Smaller(capped, v * (from + t - Draft)) /\ v <= z - n /\ t # 0
      /\ z = 0 => \/ capped - n < v \/ t = 0
                  \/ Smaller(capped, v * (from + t - Draft)) - n < v
  <2> HIDE DEF b, n
  <2> QED
    BY <1>1, <1>2, <1>3, NarrowedFacts
<1>5. last <= k /\ k * v = v * k /\ capped = b
  <2>1. last <= k
    BY <1>1
  <2>2. v * last <= v * k /\ v * k \in Nat /\ k * v = v * k
    <3> HIDE DEF k, v
    <3> QED
      BY <1>1, <2>1, TimesMono
  <2> QED
    BY <1>1, <2>1, <2>2 DEF Smaller
<1>6. from = q
  <2>1. \A c \in Int : c <= from <=> v * c <= n
    <3> HIDE DEF n, v
    <3> QED
      BY <1>1, <1>3, Chunks
  <2>2. q <= from
    BY <1>1, <2>1
  <2>3. from <= q
    <3> HIDE DEF v, from
    <3>1. v * from <= v * q
      BY <1>4, <2>1
    <3> QED
      BY <1>1, <1>4, <3>1, TimesMono
  <2> QED
    BY <1>4, <2>2, <2>3
<1>7. hi = Smaller(last + Draft, k)
  <2> DEFINE reach == IF eagle /\ Window("mamba") # Full
                      THEN Smaller(capped + v, k * v) ELSE capped
             top == Smaller(last + Draft, k)
  <2>1. hi = Smaller(cdiv(reach, v), k)
    BY DEF AskedTo
  <2>2. top \in Nat /\ top <= k /\ reach = v * top
    <3>1. CASE eagle
      <4>1. reach = Smaller(v * last + v, v * k) /\ top = Smaller(last + 1, k)
        BY <1>2, <1>5, <3>1 DEF Full
      <4> HIDE DEF reach, top, k, v
      <4>2. v * last + v = v * (last + 1) /\ last + 1 \in Int /\ k \in Int
        BY <1>1
      <4>3. v * (last + 1) \in Int /\ v * k \in Int
            /\ (last + 1 < k <=> v * (last + 1) < v * k)
        BY <1>1, <4>2, TimesMono
      <4> QED
        BY <1>1, <4>1, <4>2, <4>3 DEF Smaller
    <3>2. CASE ~eagle
      BY <1>1, <1>2, <1>5, <3>2 DEF Smaller
    <3> QED
      BY <3>1, <3>2
  <2>3. cdiv(v * top, v) = top
    <3> HIDE DEF v, top
    <3>1. v * top \in Nat /\ top \in Int /\ top - 1 \in Int
      BY <1>1, <2>2
    <3>2. cdiv(v * top, v) \in Nat /\ cdiv(v * top, v) <= top
      BY <1>1, <3>1, Chunks
    <3>3. ~(cdiv(v * top, v) <= top - 1)
      <4>1. ~(v * top <= v * (top - 1))
        BY <1>1, <3>1, TimesMono
      <4> QED
        BY <1>1, <3>1, <4>1, Chunks
    <3> QED
      BY <2>2, <3>2, <3>3
  <2>4. hi = Smaller(top, k)
    BY <2>1, <2>2, <2>3
  <2> HIDE DEF top
  <2> QED
    BY <1>1, <2>2, <2>4 DEF Smaller, top
<1>8. \/ TrailsTo("mamba", q, hi, window, t)
      \/ /\ \A j \in q..(hi - window) : ~RunAt("mamba", j, window)
         /\ LeadsTo("mamba", q, hi, t)
  <2>1. Window("mamba") # Full /\ Window("mamba") + Draft = window
    BY <1>2 DEF Full
  <2> HIDE DEF hi, t, window, capped, from
  <2>2. \/ TrailsTo("mamba", from, hi, window, t)
        \/ /\ \A j \in from..(hi - window) : ~RunAt("mamba", j, window)
           /\ LeadsTo("mamba", from, hi, t)
    BY <1>1, <1>2, <1>4, <2>1, FoundFacts DEF hi, t
  <2> QED
    BY <1>6, <2>2
\* The boundaries up to last are those the runs below hi end at.
<1>9. ASSUME NEW d \in (q + 1)..last, RunAt("mamba", d - 1, window)
      PROVE  d - 1 \in q..(hi - window)
  <2>1. \A i \in Int : <<"mamba", i>> \in resident => i < k
    BY DEF LookupInv
  <2> HIDE DEF k, hi
  <2>2. d - 1 + Draft \in (d - 1)..(d - 1 + window - 1) /\ d - 1 + Draft \in Int
    BY <1>2
  <2>3. d - 1 + Draft < k
    BY <1>9, <2>1, <2>2 DEF RunAt
  <2> QED
    BY <1>1, <1>2, <1>7, <2>3 DEF Smaller
<1>10. hi \in Nat /\ hi <= last + Draft
  <2> HIDE DEF k, hi
  <2> QED
    BY <1>1, <1>2, <1>7 DEF Smaller
<1> HIDE DEF k, hi, from, capped, t, z
<1>11. ASSUME TrailsTo("mamba", q, hi, window, t)
       PROVE  \E c \in (q + 1)..last :
                 /\ z = v * c /\ RunAt("mamba", c - 1, window)
                 /\ \A d \in (q + 1)..last : RunAt("mamba", d - 1, window) => d <= c
  <2>1. PICK i \in q..(hi - window) :
               /\ RunAt("mamba", i, window) /\ t = i + window - q
               /\ \A j \in q..(hi - window) : RunAt("mamba", j, window) => j <= i
    BY <1>11 DEF TrailsTo
  <2> DEFINE c == i + 1
  <2>2. c \in (q + 1)..last /\ c - 1 = i /\ from + t - Draft = c /\ t # 0
    <3>1. i \in Int /\ q <= i /\ i <= hi - (1 + Draft) /\ t = (i + (1 + Draft)) - q
      BY <1>2, <1>10, <2>1
    <3> QED
      BY <1>2, <1>4, <1>6, <1>10, <3>1
  <2>3. \A d \in (q + 1)..last : RunAt("mamba", d - 1, window) => d <= c
    <3> SUFFICES ASSUME NEW d \in (q + 1)..last, RunAt("mamba", d - 1, window) PROVE d <= c
      OBVIOUS
    <3>1. d - 1 <= i
      BY <1>9, <2>1
    <3> QED
      BY <2>1, <3>1
  <2> HIDE DEF c
  <2>4. z = v * c
    <3> HIDE DEF v
    <3>1. v * c \in Int /\ v * c <= v * last /\ v * (q + 1) <= v * c
      <4>1. c \in Int /\ last \in Int /\ q + 1 \in Int /\ c <= last /\ q + 1 <= c
        BY <2>2
      <4> QED
        BY <1>1, <4>1, TimesMono
    <3>2. Smaller(capped, v * (from + t - Draft)) = v * c
      <4>1. from + t - Draft = c
        BY <2>2
      <4>2. Smaller(capped, v * c) = v * c
        BY <1>3, <1>5, <3>1 DEF Smaller
      <4> QED
        BY <4>1, <4>2
    <3>3. v * (q + 1) = n + v
      BY <1>1
    <3> HIDE DEF n, b
    <3>4. capped - n >= v /\ v * c - n >= v
      BY <1>1, <1>3, <1>4, <1>5, <3>1, <3>3 DEF b
    <3>5. z # 0
      BY <1>1, <1>3, <1>4, <2>2, <3>1, <3>2, <3>4
    <3> QED
      BY <1>4, <3>2, <3>5
  <2> QED
    BY <2>1, <2>2, <2>3, <2>4
<1>12. ASSUME \A j \in q..(hi - window) : ~RunAt("mamba", j, window),
              LeadsTo("mamba", q, hi, t)
       PROVE  /\ z = 0
              /\ \A d \in (q + 1)..last : ~RunAt("mamba", d - 1, window)
  <2>1. \A d \in (q + 1)..last : ~RunAt("mamba", d - 1, window)
    BY <1>9, <1>12
  <2>2. t <= Draft
    <3>1. SUFFICES ASSUME t > Draft PROVE FALSE
      BY <1>2, <1>4
    <3>2. q <= hi /\ q + t <= hi
      BY <1>2, <1>4, <1>10, <1>12, <3>1 DEF LeadsTo
    <3>3. q \in q..(hi - window)
      BY <1>2, <1>4, <1>10, <3>1, <3>2
    <3>4. RunAt("mamba", q, window)
      <4>1. \A j \in q..(q + t - 1) : <<"mamba", j>> \in resident
        BY <1>12 DEF LeadsTo, RunAt
      <4>2. \A j \in q..(q + window - 1) : j \in q..(q + t - 1)
        BY <1>2, <1>4, <3>1
      <4> QED
        BY <4>1, <4>2 DEF RunAt
    <3> QED
      BY <1>12, <3>3, <3>4
  <2>3. z = 0
    <3> DEFINE x == v * (from + t - Draft)
    <3>1. x \in Int /\ x <= n
      <4> HIDE DEF v
      <4>1. (from + t - Draft) \in Int /\ from + t - Draft <= q /\ q \in Int
        BY <1>2, <1>4, <1>6, <2>2
      <4> QED
        BY <1>1, <4>1, TimesMono
    <3> HIDE DEF x, n
    <3>2. z # 0 => z = Smaller(capped, x) /\ v <= z - n
      BY <1>4 DEF x
    <3> QED
      BY <1>1, <1>3, <1>4, <3>1, <3>2 DEF Smaller
  <2> QED
    BY <2>1, <2>3
<1> QED
  BY <1>8, <1>11, <1>12 DEF z

LEMMA MaxIs ==
    ASSUME NEW S, S \subseteq Int, NEW x \in S, \A y \in S : y <= x
    PROVE  Max(S) = x
<1>1. Max(S) \in S /\ \A y \in S : Max(S) >= y
  <2>1. \E m \in S : \A y \in S : m >= y
    OBVIOUS
  <2> QED
    BY <2>1 DEF Max
<1>2. Max(S) \in Int /\ x \in Int /\ Max(S) <= x /\ x <= Max(S)
  BY <1>1
<1> QED
  BY <1>2

\* Of the boundaries up to the one full attention leaves, the recurrent ones can
\* be loaded.
LEMMA LoadableBoundaries ==
    ASSUME LookupInv, mode = "fixed", Width["mamba"] < Width["fa"],
           NEW n \in Nat, n < num_tokens
    PROVE  LET start == round_down(num_tokens - 1, Width["mamba"])
               B == Passed(start, "fa", n)
           IN  /\ \E last \in Nat : B = Width["mamba"] * last /\ B < num_tokens
               /\ \A b \in (n + 1)..num_tokens :
                     LoadableFrom(n, b) <=> B # 0 /\ b <= B /\ Recurrent(b)
<1> DEFINE w == Width["fa"]
           v == Width["mamba"]
           start == round_down(num_tokens - 1, v)
           B == Passed(start, "fa", n)
<1>1. /\ num_tokens \in Nat \ {0} /\ v \in Nat \ {0} /\ w \in Nat \ {0} /\ num_tokens \in Prompts
  BY KeysFacts, WidthFacts DEF Groups, LookupInv
<1>2. start \in Nat /\ start < num_tokens /\ \E c \in Nat : start = v * c
  <2>1. num_tokens - 1 \in 0..(num_tokens - 1)
    BY <1>1
  <2> QED
    BY <1>1, <2>1, StartFacts
<1>3. PICK a \in Nat \ {0} : w = v * a
  BY WidthFacts DEF Groups
<1>4. PICK p \in Int :
         /\ \A b \in Nat : b >= n + w => (AttendedFrom(n, b) <=> b <= w * p)
         /\ B = IF Smaller(start, w * p) >= n + w THEN Smaller(start, w * p) ELSE 0
  BY AttentionPass
<1>5. w * p = v * (a * p) /\ a * p \in Int /\ w * p \in Int
  BY <1>1, <1>3
<1> DEFINE r == Smaller(start, w * p)
<1>6. r \in Int /\ r <= start /\ r <= w * p /\ (r = start \/ r = w * p)
  <2> HIDE DEF w, start
  <2> QED
    BY <1>2, <1>5 DEF Smaller
<1>7. \A b : LoadableFrom(n, b) <=>
                /\ Max({b, n + w}) <= start
                /\ AttendedFrom(n, Max({b, n + w})) /\ Recurrent(b)
  BY DEF LoadableFrom
<1> HIDE DEF w, v, start, B, r
<1>8. \E last \in Nat : B = v * last /\ B < num_tokens
  <2>1. CASE B = 0
    BY <1>1, <2>1
  <2>2. CASE B # 0
    <3>1. B = r /\ r >= n + w /\ B \in Nat
      BY <1>1, <1>4, <1>6, <2>2 DEF r
    <3>2. B < num_tokens
      BY <1>1, <1>2, <1>6, <3>1
    <3>3. PICK x \in Int : B = v * x
      BY <1>2, <1>5, <1>6, <3>1
    <3>4. x \in Nat
      <4>1. ASSUME x < 0 PROVE FALSE
        <5>1. v * x < v * 0 /\ v * 0 = 0
          BY <1>1, <4>1, TimesMono
        <5> QED
          BY <3>1, <3>3, <5>1
      <4> QED
        BY <4>1
    <3> QED
      BY <3>2, <3>3, <3>4
  <2> QED
    BY <2>1, <2>2
<1>9. ASSUME NEW b \in (n + 1)..num_tokens
      PROVE  LoadableFrom(n, b) <=> B # 0 /\ b <= B /\ Recurrent(b)
  <2> DEFINE loaded == Max({b, n + w})
  <2>1. loaded = IF b >= n + w THEN b ELSE n + w
    <3>1. {b, n + w} \subseteq Int
      BY <1>1
    <3>2. CASE b >= n + w
      BY <1>1, <3>1, <3>2, MaxIs
    <3>3. CASE ~(b >= n + w)
      BY <1>1, <3>1, <3>3, MaxIs
    <3> QED
      BY <3>2, <3>3
  <2> HIDE DEF loaded
  <2>2. loaded \in Nat /\ loaded >= n + w /\ (\A x \in Int : loaded <= x <=> b <= x /\ n + w <= x)
    BY <1>1, <2>1
  <2>3. AttendedFrom(n, loaded) <=> loaded <= w * p
    BY <1>4, <2>2
  <2>4. loaded <= start /\ loaded <= w * p <=> loaded <= r
    BY <1>2, <1>5, <1>6, <2>2
  <2>5. loaded <= r <=> b <= r /\ n + w <= r
    BY <1>6, <2>2
  <2>6. b <= r /\ n + w <= r <=> B # 0 /\ b <= B
    <3>1. B = IF r >= n + w THEN r ELSE 0
      BY <1>4 DEF r
    <3> QED
      BY <1>1, <1>6, <3>1
  <2>7. LoadableFrom(n, b) <=> loaded <= start /\ AttendedFrom(n, loaded) /\ Recurrent(b)
    BY <1>7 DEF loaded
  <2> QED
    BY <2>3, <2>4, <2>5, <2>6, <2>7
<1> QED
  BY <1>8, <1>9 DEF v, start, B

LEMMA LookupFinds ==
    ASSUME LookupInv, mode = "fixed", Width["mamba"] < Width["fa"],
           NEW q \in Nat, Width["mamba"] * q < num_tokens
    PROVE  LET n == Width["mamba"] * q
           IN  predict(n) = Max({b - n : b \in {c \in (n + 1)..num_tokens : LoadableFrom(n, c)}} \cup {0})
<1> DEFINE v == Width["mamba"]
           n == v * q
           start == round_down(num_tokens - 1, v)
           B == Passed(start, "fa", n)
           z == Passed(B, "mamba", n)
           Boundaries == {c \in (n + 1)..num_tokens : LoadableFrom(n, c)}
           gains == {b - n : b \in Boundaries} \cup {0}
<1>1. num_tokens \in Nat \ {0} /\ v \in Nat \ {0} /\ n \in Nat /\ n < num_tokens
  <2>1. num_tokens \in Nat \ {0} /\ v \in Nat \ {0}
    BY KeysFacts, WidthFacts DEF Groups, LookupInv
  <2> HIDE DEF v
  <2> QED
    BY <2>1 DEF v
<1>2. predict(n) = IF z = 0 THEN 0 ELSE z - n
  <2>1. Passed(B, "qsa", n) = B
    BY DEF Passed, lookup_groups
  <2> HIDE DEF n
  <2> QED
    BY <2>1 DEF predict
<1>3. /\ \E last \in Nat : B = v * last /\ B < num_tokens
      /\ \A b \in (n + 1)..num_tokens :
            LoadableFrom(n, b) <=> B # 0 /\ b <= B /\ Recurrent(b)
  <2> HIDE DEF n
  <2> QED
    BY <1>1, LoadableBoundaries
<1>4. z = IF B = 0 THEN 0 ELSE Narrowed(B, "mamba", n)
  BY DEF Passed, lookup_groups, Groups
<1>5. gains \subseteq Int /\ 0 \in gains
  <2> HIDE DEF n
  <2> QED
    BY <1>1
<1>6. ASSUME Boundaries = {}, z = 0 PROVE predict(n) = Max(gains)
  <2>1. gains = {0}
    BY <1>6
  <2> HIDE DEF gains
  <2>2. Max(gains) = 0
    BY <1>5, <2>1, MaxIs
  <2> QED
    BY <1>2, <1>6, <2>2
<1>7. ASSUME NEW top \in Boundaries, z = top, \A b \in Boundaries : b <= top
      PROVE  predict(n) = Max(gains)
  <2>1. top \in Int /\ top > n /\ Boundaries \subseteq Int
    <3> HIDE DEF n
    <3> QED
      BY <1>1
  <2>2. top - n \in gains
    OBVIOUS
  <2>3. \A y \in gains : y <= top - n
    <3> HIDE DEF n, Boundaries
    <3> QED
      BY <1>1, <1>7, <2>1
  <2> HIDE DEF gains, n
  <2>4. Max(gains) = top - n
    BY <1>5, <2>2, <2>3, MaxIs
  <2> QED
    BY <1>1, <1>2, <1>7, <2>1, <2>4
<1>8. PICK last \in Nat : B = v * last /\ B < num_tokens
  BY <1>3
<1>9. ASSUME B = 0 PROVE predict(n) = Max(gains)
  <2>1. Boundaries = {}
    BY <1>3, <1>9
  <2> QED
    BY <1>4, <1>6, <1>9, <2>1
<1>10. ASSUME B # 0 PROVE predict(n) = Max(gains)
  <2>1. z = Narrowed(v * last, "mamba", v * q)
    BY <1>4, <1>8, <1>10
  <2>2. v * last <= num_tokens
    BY <1>1, <1>8
  <2>3. \/ /\ z = 0
           /\ \A d \in (q + 1)..last : ~RunAt("mamba", d - 1, 1 + Draft)
        \/ \E c \in (q + 1)..last :
              /\ z = v * c /\ RunAt("mamba", c - 1, 1 + Draft)
              /\ \A d \in (q + 1)..last : RunAt("mamba", d - 1, 1 + Draft) => d <= c
    <3> HIDE DEF z
    <3> QED
      BY <2>1, <2>2, RecurrentPass
  \* Boundaries are the ends of runs.
  <2>4. ASSUME NEW b \in Boundaries
        PROVE  \E d \in (q + 1)..last : b = v * d /\ RunAt("mamba", d - 1, 1 + Draft)
    <3>1. b \in Nat /\ n < b /\ b <= B /\ Recurrent(b)
      <4> HIDE DEF n, B
      <4> QED
        BY <1>1, <1>3
    <3>2. b % v = 0
      BY <3>1 DEF Recurrent
    <3> DEFINE d == b \div v
    <3>3. d \in Nat /\ b = v * d
      <4>1. b \div v \in Nat /\ b = v * (b \div v) + (b % v)
        <5> HIDE DEF v, n, B
        <5> QED
          BY <1>1, <3>1, DivFacts
      <4>2. v * d \in Nat
        BY <1>1, <4>1
      <4> HIDE DEF v
      <4> QED
        BY <3>2, <4>1, <4>2
    <3> HIDE DEF d
    <3>4. d > q /\ d <= last
      <4>1. v * q < v * d /\ v * d <= v * last
        BY <1>8, <3>1, <3>3
      <4> HIDE DEF v
      <4> QED
        BY <1>1, <1>8, <3>3, <4>1, TimesMono
    <3>5. RunAt("mamba", d - 1, 1 + Draft)
      <4>1. d \in Nat \ {0}
        BY <3>3, <3>4
      <4> QED
        BY <3>1, <3>3, <4>1, RecurrentRun
    <3>6. d \in (q + 1)..last
      BY <3>3, <3>4
    <3> QED
      BY <3>3, <3>5, <3>6
  <2>5. ASSUME NEW d \in (q + 1)..last, RunAt("mamba", d - 1, 1 + Draft)
        PROVE  v * d \in Boundaries
    <3>1. d \in Nat \ {0} /\ d > q /\ d <= last
      OBVIOUS
    <3>2. v * d \in Int /\ v * q < v * d /\ v * d <= v * last
      <4> HIDE DEF v
      <4> QED
        BY <1>1, <3>1, TimesMono
    <3>3. v * d \in (n + 1)..num_tokens /\ v * d <= B
      <4> DEFINE x == v * d
                 y == v * last
      <4>1. x \in Int /\ n < x /\ x <= y /\ y <= num_tokens /\ B = y /\ y \in Int
        BY <1>1, <1>8, <2>2, <3>2
      <4> HIDE DEF x, y, n, v, B
      <4>2. x \in (n + 1)..num_tokens /\ x <= B
        BY <1>1, <4>1
      <4> QED
        BY <4>2 DEF x
    <3>4. Recurrent(v * d)
      BY <2>5, <3>1, RecurrentRun
    <3> QED
      BY <1>3, <1>10, <3>3, <3>4
  <2>6. CASE /\ z = 0 /\ \A d \in (q + 1)..last : ~RunAt("mamba", d - 1, 1 + Draft)
    <3>1. Boundaries = {}
      <4> HIDE DEF Boundaries
      <4> QED
        BY <2>4, <2>6
    <3> QED
      BY <1>6, <2>6, <3>1
  <2>7. ASSUME NEW c \in (q + 1)..last,
               z = v * c, RunAt("mamba", c - 1, 1 + Draft),
               \A d \in (q + 1)..last : RunAt("mamba", d - 1, 1 + Draft) => d <= c
        PROVE  predict(n) = Max(gains)
    <3>1. v * c \in Boundaries
      <4> HIDE DEF Boundaries
      <4> QED
        BY <2>5, <2>7
    <3>2. \A b \in Boundaries : b <= v * c
      <4> SUFFICES ASSUME NEW b \in Boundaries PROVE b <= v * c
        OBVIOUS
      <4> HIDE DEF Boundaries
      <4>1. PICK d \in (q + 1)..last : b = v * d /\ d <= c
        BY <2>4, <2>7
      <4> HIDE DEF v
      <4>2. d \in Int /\ c \in Int
        OBVIOUS
      <4> QED
        BY <1>1, <4>1, <4>2, TimesMono
    <3> HIDE DEF Boundaries, gains, n
    <3> QED
      BY <1>7, <2>7, <3>1, <3>2
  <2> HIDE DEF z, gains, n, v
  <2> QED
    BY <2>3, <2>6, <2>7
<1>11. predict(n) = Max(gains)
  <2> HIDE DEF B, gains, n
  <2> QED
    BY <1>9, <1>10
<1> QED
  BY <1>11 DEF v, n, gains, Boundaries

LEMMA LookupIsLongestStep ==
    LookupInv /\ HitIsLongest /\ [LookupNext]_lookupVars /\ Width["mamba"] < Width["fa"]
        => HitIsLongest'
<1> SUFFICES ASSUME LookupInv, HitIsLongest, [LookupNext]_lookupVars, Width["mamba"] < Width["fa"]
             PROVE  HitIsLongest'
  OBVIOUS
<1>1. CASE Store
  BY <1>1 DEF Store, HitIsLongest
<1>2. CASE Populate
  BY <1>2 DEF Populate, HitIsLongest
<1>3. CASE Lookup
  <2>1. mode' = mode /\ eagle' = eagle /\ num_tokens' = num_tokens /\ resident' = resident
    BY <1>3 DEF Lookup
  <2>2. PICK m \in 0..(num_tokens - 1) :
           LET n == round_down(m, Width["mamba"]) IN computed' = n /\ hit' = predict(n)
    BY <1>3 DEF Lookup
  <2> DEFINE n == round_down(m, Width["mamba"])
  <2>3. n < num_tokens /\ \E q \in 0..num_tokens : n = Width["mamba"] * q
    <3>1. num_tokens \in Nat /\ num_tokens \in Prompts
      BY KeysFacts DEF LookupInv, Groups
    <3> QED
      BY <2>2, <3>1, StartFacts
  <2>4. computed' = n /\ hit' = predict(n)
    BY <2>2
  <2> HIDE DEF n
  <2>5. PICK q \in 0..num_tokens : n = Width["mamba"] * q
    BY <2>3
  <2>6. mode = "fixed" =>
           hit' = Max({b - n : b \in {c \in (n + 1)..num_tokens : LoadableFrom(n, c)}} \cup {0})
    BY <2>3, <2>4, <2>5, LookupFinds
  <2>7. ASSUME NEW c PROVE Loadable(c)' <=> LoadableFrom(n, c)
    BY <2>1, <2>4 DEF Loadable, LoadableFrom, Attended, AttendedFrom, Recurrent, Draft
  <2>8. {c \in (computed' + 1)..num_tokens' : Loadable(c)'}
          = {c \in (n + 1)..num_tokens : LoadableFrom(n, c)}
    BY <2>1, <2>4, <2>7
  <2>9. (mode = "fixed" /\ hit' # NotAsked) =>
           hit' = Max({b - computed' : b \in {c \in (computed' + 1)..num_tokens' : Loadable(c)'}} \cup {0})
    BY <2>4, <2>6, <2>8
  <2> QED
    BY <2>1, <2>9 DEF HitIsLongest
<1>4. CASE UNCHANGED lookupVars
  BY <1>4 DEF lookupVars, HitIsLongest, Loadable, Attended, Recurrent, Draft
<1> QED
  BY <1>1, <1>2, <1>3, <1>4 DEF LookupNext

(***************************************************************************)
(* With the ring out of the lookup, and a full-attention chunk wider than  *)
(* a Mamba chunk, the single pass over the groups finds the longest        *)
(* boundary that every group can really serve, wherever the tier has holes *)
(* and however much was computed (predict, lines 276-338).                 *)
(***************************************************************************)
THEOREM LookupIsLongest ==
    ASSUME Width["mamba"] < Width["fa"]
    PROVE  LookupSpec => []HitIsLongest
<1>1. LookupInit => LookupInv /\ HitIsLongest
  BY LookupInvInit DEF LookupInit, HitIsLongest
<1>2. (LookupInv /\ HitIsLongest) /\ [LookupNext]_lookupVars => (LookupInv /\ HitIsLongest)'
  BY LookupInvStep, LookupIsLongestStep
<1>3. LookupInv /\ HitIsLongest => HitIsLongest
  OBVIOUS
<1> QED
  BY <1>1, <1>2, <1>3, PTL DEF LookupSpec

--------------------------------------------------------------------------------
(***************************************************************************)
(* What the store leaves, seen from the next lookup.                       *)
(***************************************************************************)
LEMMA QuotientIs ==
    ASSUME NEW a \in Nat \ {0}, NEW k \in Nat, NEW r \in 0..(a - 1)
    PROVE  (a * k + r) \div a = k /\ (a * k + r) % a = r
<1> DEFINE x == a * k + r
           u == x \div a
           s == x % a
<1>1. x \in Nat
  OBVIOUS
<1>2. u \in Nat /\ s \in Nat /\ s < a /\ x = a * u + s
  <2> HIDE DEF x
  <2> QED
    BY <1>1, DivFacts
<1>3. a * k \in Nat /\ a * u \in Nat /\ a * u + s = a * k + r
  BY <1>2
<1> HIDE DEF x, u, s
<1>4. a * (u + 1) = a * u + a /\ a * (k + 1) = a * k + a
  BY <1>2
<1>5. ~(u + 1 <= k)
  <2>1. u + 1 <= k => a * (u + 1) <= a * k
    BY <1>2, TimesMono
  <2> QED
    BY <1>2, <1>3, <1>4, <2>1
<1>6. ~(k + 1 <= u)
  <2>1. k + 1 <= u => a * (k + 1) <= a * u
    BY <1>2, TimesMono
  <2> QED
    BY <1>2, <1>3, <1>4, <2>1
<1>7. u = k
  BY <1>2, <1>5, <1>6
<1>8. s = r
  BY <1>2, <1>3, <1>7
<1> QED
  BY <1>7, <1>8 DEF u, s, x

\* All of full attention is stored, and of the Mamba states those before a
\* full-attention boundary.
LEMMA StoredFacts ==
    ASSUME num_tokens \in Prompts, mode = "fixed",
           NEW a \in Nat \ {0}, Width["fa"] = Width["mamba"] * a,
           NEW k \in Nat \ {0}, num_tokens = Width["fa"] * k
    PROVE  \A i \in Int :
             /\ <<"fa", i>> \in Storable <=> 0 <= i /\ i < k
             /\ <<"mamba", i>> \in Storable <=> 0 <= i /\ i < a * k /\ i % a >= a - (1 + Draft)
<1> DEFINE w == Width["fa"]
           v == Width["mamba"]
<1>1. num_tokens \in Nat \ {0} /\ v \in Nat \ {0} /\ w \in Nat \ {0}
  BY KeysFacts, WidthFacts DEF Groups
<1>2. NumKeys("fa") = k /\ k <= num_tokens
  <2> HIDE DEF w
  <2>1. num_tokens = w * k + 0 /\ 0 \in 0..(w - 1)
    BY <1>1 DEF w
  <2>2. NumKeys("fa") = k
    BY <1>1, <2>1, QuotientIs DEF NumKeys, w
  <2>3. k <= w * k /\ num_tokens = w * k
    BY <1>1 DEF w
  <2> QED
    BY <2>2, <2>3
<1>3. NumKeys("mamba") = a * k /\ a * k \in Nat /\ a * k <= num_tokens
  <2> DEFINE m == a * k
  <2>1. num_tokens = v * m /\ m \in Nat
    BY <1>1
  <2> HIDE DEF v, m
  <2>2. num_tokens = v * m + 0 /\ 0 \in 0..(v - 1)
    BY <1>1, <2>1
  <2>3. NumKeys("mamba") = m
    BY <1>1, <2>1, <2>2, QuotientIs DEF NumKeys, v
  <2>4. m <= v * m
    BY <1>1, <2>1
  <2> QED
    BY <2>1, <2>2, <2>3, <2>4 DEF m
<1>4. Width["fa"] \div Width["mamba"] = a
  <2> HIDE DEF v
  <2>1. w = v * a + 0 /\ 0 \in 0..(v - 1)
    BY <1>1 DEF v
  <2> QED
    BY <1>1, <2>1, QuotientIs DEF v
<1>5. \A i : /\ Reachable("fa", i)
             /\ Reachable("mamba", i) <=> (i % a) >= a - (1 + Draft)
  BY <1>4 DEF Reachable, Window, Full, Draft
<1>6. \A g, i : <<g, i>> \in Storable <=>
          /\ g \in Groups /\ i \in 0..num_tokens /\ i < NumKeys(g)
          /\ g # "qsa" /\ HasBlock(g, i) /\ Reachable(g, i)
  BY DEF Storable
<1>7. \A i : HasBlock("fa", i) /\ HasBlock("mamba", i)
  BY DEF HasBlock
<1> TAKE i \in Int
<1>8. <<"fa", i>> \in Storable <=> 0 <= i /\ i < k
  BY <1>1, <1>2, <1>5, <1>6, <1>7 DEF Groups
<1>9. <<"mamba", i>> \in Storable <=> 0 <= i /\ i < a * k /\ i % a >= a - (1 + Draft)
  <2> DEFINE m == a * k
  <2>1. NumKeys("mamba") = m /\ m \in Nat /\ m <= num_tokens
    BY <1>3
  <2> HIDE DEF m
  <2>2. <<"mamba", i>> \in Storable <=>
          i \in 0..num_tokens /\ i < m /\ i % a >= a - (1 + Draft)
    BY <1>5, <1>6, <1>7, <2>1 DEF Groups
  <2>3. <<"mamba", i>> \in Storable <=> 0 <= i /\ i < m /\ i % a >= a - (1 + Draft)
    BY <1>1, <2>1, <2>2
  <2> QED
    BY <2>3 DEF m
<1> QED
  BY <1>8, <1>9

LEMMA StoreIsServedState ==
    ASSUME LookupInv, HitIsLongest, 2 * Width["mamba"] < Width["fa"],
           \A n \in Prompts : 2 * Width["fa"] <= n
    PROVE  StoreServesLookup
<1> SUFFICES ASSUME mode = "fixed", gated, hit # NotAsked, computed = 0
             PROVE  hit = num_tokens - Width["fa"] - Draft * Width["mamba"]
  BY DEF StoreServesLookup
<1> DEFINE w == Width["fa"]
           v == Width["mamba"]
           e == Draft
<1>1. /\ num_tokens \in Nat \ {0} /\ v \in Nat \ {0} /\ w \in Nat \ {0}
      /\ num_tokens \in Prompts /\ w + w <= num_tokens /\ v + v < w
      /\ resident = Storable /\ num_tokens % w = 0 /\ e \in {0, 1}
  <2>1. num_tokens \in Prompts /\ resident = Storable /\ num_tokens % w = 0 /\ e \in {0, 1}
    BY DEF LookupInv, Draft
  <2>2. num_tokens \in Nat \ {0} /\ v \in Nat \ {0} /\ w \in Nat \ {0}
    BY <2>1, KeysFacts, WidthFacts DEF Groups
  <2>3. 2 * w <= num_tokens /\ 2 * v < w
    BY <2>1
  <2> HIDE DEF w, v, e
  <2> QED
    BY <2>1, <2>2, <2>3
<1>2. PICK a \in Nat \ {0} : w = v * a
  BY WidthFacts DEF Groups
<1>3. PICK k \in Nat : num_tokens = w * k
  <2>1. num_tokens \div w \in Nat /\ num_tokens = w * (num_tokens \div w) + (num_tokens % w)
    <3> HIDE DEF w
    <3> QED
      BY <1>1, DivFacts
  <2> DEFINE x == num_tokens \div w
  <2>2. x \in Nat /\ num_tokens = w * x + 0
    BY <1>1, <2>1
  <2> HIDE DEF x
  <2>3. num_tokens = w * x
    BY <1>1, <2>2
  <2> QED
    BY <2>2, <2>3
<1> HIDE DEF w, v, e
<1>4. a >= 3 /\ k >= 2
  <2>1. v * 2 < v * a /\ w * 2 <= w * k
    BY <1>1, <1>2, <1>3
  <2>2. 2 < a /\ 2 <= k
    <3>1. 2 \in Int /\ a \in Int /\ k \in Int
      OBVIOUS
    <3> QED
      BY <1>1, <2>1, <3>1, TimesMono
  <2> QED
    BY <2>2
<1>5. \A i \in Int :
         /\ <<"fa", i>> \in resident <=> 0 <= i /\ i < k
         /\ <<"mamba", i>> \in resident <=> 0 <= i /\ i < a * k /\ i % a >= a - (1 + e)
  <2>1. k \in Nat \ {0}
    BY <1>4
  <2>2. Width["fa"] = Width["mamba"] * a /\ num_tokens = Width["fa"] * k
    BY <1>2, <1>3 DEF w, v
  <2>3. \A i \in Int :
           /\ <<"fa", i>> \in Storable <=> 0 <= i /\ i < k
           /\ <<"mamba", i>> \in Storable <=> 0 <= i /\ i < a * k /\ i % a >= a - (1 + Draft)
    BY <1>1, <2>1, <2>2, StoredFacts
  <2> QED
    BY <1>1, <2>3 DEF e
\* The last full-attention boundary before the last chunk, in Mamba chunks.
<1> DEFINE c == a * (k - 1) - e
           best == v * c
           start == round_down(num_tokens - 1, v)
<1>6. /\ a * (k - 1) \in Nat /\ a * (k - 2) \in Nat
      /\ a * (k - 1) = a * (k - 2) + a /\ a * k = a * (k - 1) + a
      /\ c \in Nat \ {0} /\ best \in Nat
  <2>1. /\ a * (k - 1) \in Nat /\ a * (k - 2) \in Nat
        /\ a * (k - 1) = a * (k - 2) + a /\ a * k = a * (k - 1) + a
    <3>1. k - 1 \in Nat /\ k - 2 \in Nat
      BY <1>4
    <3> QED
      BY <3>1
  <2>2. c \in Nat \ {0}
    BY <1>1, <1>4, <2>1
  <2> HIDE DEF c
  <2> QED
    BY <1>1, <2>1, <2>2
<1>7. best = num_tokens - w - e * v
  <2>1. v * (a * (k - 1)) = w * (k - 1) /\ w * (k - 1) = num_tokens - w
    BY <1>1, <1>2, <1>3
  <2> DEFINE m == a * (k - 1)
  <2>2. m \in Nat /\ v * m = num_tokens - w
    BY <1>6, <2>1
  <2> HIDE DEF m
  <2>3. v * (m - e) = v * m - v * e /\ v * e = e * v
    BY <1>1, <2>2
  <2>4. e * v \in Nat /\ best = v * (m - e)
    BY <1>1 DEF m
  <2> HIDE DEF best
  <2> QED
    BY <1>1, <2>2, <2>3, <2>4
<1>8. e * v \in {0, v} /\ e * v \in Nat
  BY <1>1
<1> HIDE DEF best
<1>9. /\ start \in Nat /\ start < num_tokens
      /\ \A d \in Int : v * d <= num_tokens - 1 => v * d <= start
  <2>1. num_tokens - 1 \in 0..(num_tokens - 1)
    BY <1>1
  <2> QED
    BY <1>1, <2>1, StartFacts DEF v
<1> HIDE DEF start
<1>10. 0 \div w = 0
  <2>1. 0 = w * 0 + 0 /\ 0 \in 0..(w - 1) /\ 0 \in Nat
    BY <1>1
  <2>2. (w * 0 + 0) \div w = 0
    BY <1>1, <2>1, QuotientIs
  <2> QED
    BY <2>1, <2>2
\* Full attention can be used up to whole chunks before the end.
<1>11. ASSUME NEW b \in Nat
       PROVE  Attended(b) <=> b <= w * (k - e)
  <2>1. cdiv(b, w) \in Nat /\ (cdiv(b, w) <= k - e <=> b <= w * (k - e))
    <3>1. k - e \in Int
      BY <1>1
    <3> QED
      BY <1>1, <3>1, Chunks
  <2> DEFINE u == cdiv(b, w)
  <2>2. Attended(b) <=> \A i \in 0..(u + e - 1) : <<"fa", i>> \in resident
    BY <1>10 DEF Attended, w, e
  <2> HIDE DEF u
  <2>3. u \in Nat /\ (u <= k - e <=> b <= w * (k - e))
    BY <2>1 DEF u
  <2>4. ASSUME u + e - 1 < k PROVE Attended(b)
    <3> SUFFICES ASSUME NEW i \in 0..(u + e - 1) PROVE <<"fa", i>> \in resident
      BY <2>2
    <3>1. i \in Int /\ 0 <= i /\ i < k
      BY <1>1, <2>3, <2>4
    <3> QED
      BY <1>5, <3>1
  <2>5. ASSUME ~(u + e - 1 < k) PROVE ~Attended(b)
    <3>1. k \in 0..(u + e - 1) /\ k \in Int /\ ~(k < k)
      BY <1>1, <2>3, <2>5
    <3> QED
      BY <1>5, <2>2, <3>1
  <2> QED
    BY <1>1, <2>3, <2>4, <2>5
<1>12. w * (k - 1) = num_tokens - w /\ w * (k - e) \in Int /\ w * (k - e) >= num_tokens - w
       /\ (e = 1 => w * (k - e) = num_tokens - w)
  <2>1. w * (k - 1) = num_tokens - w /\ w * (k - 0) = num_tokens
    BY <1>1, <1>3
  <2> QED
    BY <1>1, <2>1
<1>13. Loadable(best)
  <2> DEFINE loaded == Max({best, computed + w})
  <2>1. best \in Nat /\ best <= num_tokens - w /\ w <= num_tokens - w
    BY <1>1, <1>6, <1>7, <1>8
  <2>2. loaded \in Nat /\ (loaded = best \/ loaded = w) /\ loaded <= num_tokens - w
    <3>1. computed + w = w
      BY <1>1
    <3>2. CASE best <= w
      <4>1. Max({best, w}) = w
        BY <1>1, <2>1, <3>2, MaxIs
      <4> QED
        BY <1>1, <2>1, <3>1, <4>1
    <3>3. CASE ~(best <= w)
      <4>1. Max({best, w}) = best
        BY <1>1, <2>1, <3>3, MaxIs
      <4> QED
        BY <1>1, <2>1, <3>1, <4>1
    <3> QED
      BY <3>2, <3>3
  <2>3. loaded <= start
    <3>1. loaded <= num_tokens - 1
      BY <1>1, <2>2
    <3>2. CASE loaded = best
      <4>1. best = v * c /\ c \in Int
        BY <1>6 DEF best
      <4> QED
        BY <1>9, <3>1, <3>2, <4>1
    <3>3. CASE loaded = w
      BY <1>2, <1>9, <3>1, <3>3
    <3> QED
      BY <2>2, <3>2, <3>3
  <2>4. Attended(loaded)
    <3> HIDE DEF loaded
    <3> QED
      BY <1>1, <1>11, <1>12, <2>2
  <2>5. Recurrent(best)
    <3>1. RunAt("mamba", c - 1, 1 + e)
      <4> SUFFICES ASSUME NEW j \in (c - 1)..(c - 1 + (1 + e) - 1)
                   PROVE  <<"mamba", j>> \in resident
        BY DEF RunAt
      <4> DEFINE r == j - a * (k - 2)
                 m == a * (k - 2)
      <4>1. m \in Nat /\ c = (m + a) - e /\ a * k = m + a + a
        BY <1>4, <1>6
      <4>2. r \in 0..(a - 1) /\ j = m + r /\ r >= a - (1 + e) /\ j \in Int
            /\ 0 <= j /\ j < a * k
        <5>1. r = j - m
          OBVIOUS
        <5> HIDE DEF c, m, r
        <5> QED
          BY <1>1, <1>4, <4>1, <5>1
      <4>3. j % a = r
        <5>1. k - 2 \in Nat /\ j = a * (k - 2) + r
          BY <1>4, <4>2
        <5>2. r \in 0..(a - 1)
          BY <4>2
        <5> HIDE DEF r, m
        <5>3. (a * (k - 2) + r) % a = r
          BY <5>1, <5>2, QuotientIs
        <5> QED
          BY <5>1, <5>3
      <4> QED
        BY <1>5, <4>2, <4>3
    <3> HIDE DEF c
    <3> QED
      BY <1>6, <3>1, RecurrentRun DEF best, v, e
  <2> QED
    BY <2>3, <2>4, <2>5 DEF Loadable, start, v, w
<1>14. ASSUME NEW b \in 1..num_tokens, Loadable(b), b > best
       PROVE  FALSE
  <2> DEFINE loaded == Max({b, computed + w})
  <2>1. loaded \in Nat /\ b <= loaded
    <3>1. computed + w = w
      BY <1>1
    <3>2. CASE b <= w
      <4>1. Max({b, w}) = w
        BY <1>1, <3>2, MaxIs
      <4> QED
        BY <1>1, <3>1, <3>2, <4>1
    <3>3. CASE ~(b <= w)
      <4>1. Max({b, w}) = b
        BY <1>1, <3>3, MaxIs
      <4> QED
        BY <1>1, <3>1, <4>1
    <3> QED
      BY <3>2, <3>3
  <2>2. loaded <= start /\ Attended(loaded) /\ Recurrent(b)
    BY <1>14 DEF Loadable, start, v, w
  <2> HIDE DEF loaded
  <2>3. b < num_tokens /\ b <= w * (k - e)
    BY <1>1, <1>9, <1>11, <1>12, <2>1, <2>2
  <2> DEFINE d == b \div v
  <2>4. d \in Nat /\ b = v * d
    <3>1. d \in Nat /\ b = v * d + (b % v) /\ b % v = 0
      <4>1. b % v = 0
        BY <2>2 DEF Recurrent, v
      <4>2. b \in Nat
        BY <1>1
      <4>3. b \div v \in Nat /\ b = v * (b \div v) + (b % v)
        BY <1>1, <4>2, DivFacts
      <4> QED
        BY <4>1, <4>3
    <3> HIDE DEF d
    <3> QED
      BY <1>1, <3>1
  <2> HIDE DEF d
  <2>5. d > c /\ d < a * k /\ d <= a * (k - e)
    <3>1. num_tokens = v * (a * k) /\ w * (k - e) = v * (a * (k - e))
          /\ a * k \in Int /\ a * (k - e) \in Int
      BY <1>1, <1>2, <1>3
    <3>2. v * d < v * (a * k) /\ v * d <= v * (a * (k - e)) /\ v * c < v * d
      BY <1>14, <2>3, <2>4, <3>1 DEF best
    <3>3. d \in Int /\ c \in Int
      BY <1>6, <2>4
    <3> HIDE DEF c
    <3> QED
      BY <1>1, <3>1, <3>2, <3>3, TimesMono
  <2>6. RunAt("mamba", d - 1, 1 + e)
    <3>1. d \in Nat \ {0}
      BY <1>6, <2>4, <2>5
    <3> QED
      BY <2>2, <2>4, <3>1, RecurrentRun DEF v, e
  <2> DEFINE m == a * (k - 1)
             j == d - 1 + e
  <2>7. j % a >= a - (1 + e)
    <3>1. j \in (d - 1)..(d - 1 + (1 + e) - 1) /\ j \in Int
      BY <1>1, <2>4
    <3> HIDE DEF j
    <3> QED
      BY <1>5, <2>6, <3>1 DEF RunAt
  <2>8. /\ e = 0 => j - m \in 0..(a - 2)
        /\ e = 1 => j - m = 0
    <3>1. m \in Nat /\ c = m - e /\ a * k = m + a /\ (e = 1 => a * (k - e) = m)
      BY <1>6
    <3> HIDE DEF m, c
    <3>2. CASE e = 0
      BY <1>4, <2>4, <2>5, <3>1, <3>2
    <3>3. CASE e = 1
      BY <1>4, <2>4, <2>5, <3>1, <3>3
    <3> QED
      BY <1>1, <3>2, <3>3
  <2> DEFINE r == j - m
  <2>9. r \in 0..(a - 1) /\ r < a - (1 + e)
    <3> HIDE DEF m, j
    <3>1. (e = 0 => r \in 0..(a - 2)) /\ (e = 1 => r = 0)
      BY <2>8
    <3> HIDE DEF r
    <3> QED
      BY <1>1, <1>4, <3>1
  <2>10. j % a = r
    <3>1. k - 1 \in Nat /\ j = a * (k - 1) + r
      BY <1>1, <1>4, <1>6, <2>4
    <3> HIDE DEF r, j
    <3> QED
      BY <2>9, <3>1, QuotientIs
  <2> HIDE DEF r, j
  <2> QED
    BY <1>1, <1>4, <2>7, <2>9, <2>10
<1>15. hit = best
  <2> DEFINE Boundaries == {b \in (computed + 1)..num_tokens : Loadable(b)}
             gains == {b - computed : b \in Boundaries} \cup {0}
  <2>1. hit = Max(gains)
    BY DEF HitIsLongest
  <2>2. best \in Boundaries
    <3>1. best \in Nat \ {0} /\ best <= num_tokens
      <4>1. best # 0
        <5>1. best = v * c
          BY DEF best
        <5> HIDE DEF c
        <5> QED
          BY <1>1, <1>6, <5>1
      <4> QED
        BY <1>1, <1>6, <1>7, <1>8, <4>1
    <3>2. best \in (computed + 1)..num_tokens
      BY <1>1, <3>1
    <3> QED
      BY <1>13, <3>2
  <2>3. \A b \in Boundaries : b <= best /\ b \in Int
    BY <1>1, <1>6, <1>14
  <2>4. gains \subseteq Int /\ best \in gains /\ \A y \in gains : y <= best
    <3>1. \A b \in Boundaries : b - computed = b
      BY <2>3
    <3> HIDE DEF Boundaries
    <3> QED
      BY <1>6, <2>2, <2>3, <3>1
  <2> HIDE DEF gains
  <2> QED
    BY <2>1, <2>4, MaxIs
<1> QED
  BY <1>7, <1>15 DEF w, v, e

(***************************************************************************)
(* What store gating leaves serves the next lookup of the same prompt up   *)
(* to the last boundary before the token that must be recomputed, less one *)
(* state for a draft model, once a full-attention chunk is wider than two  *)
(* Mamba chunks and a prompt has two of them (classify probe, lines        *)
(* 279-301).                                                               *)
(***************************************************************************)
THEOREM StoreIsServed ==
    ASSUME 2 * Width["mamba"] < Width["fa"],
           \A n \in Prompts : 2 * Width["fa"] <= n
    PROVE  LookupSpec => []StoreServesLookup
<1>0. Width["mamba"] < Width["fa"]
  <2>1. Width["mamba"] \in Nat /\ Width["fa"] \in Nat
    BY WidthFacts DEF Groups
  <2> QED
    BY <2>1
<1>1. LookupInit => LookupInv /\ HitIsLongest
  BY LookupInvInit DEF LookupInit, HitIsLongest
<1>2. (LookupInv /\ HitIsLongest) /\ [LookupNext]_lookupVars => (LookupInv /\ HitIsLongest)'
  BY <1>0, LookupInvStep, LookupIsLongestStep
<1>3. LookupInv /\ HitIsLongest => StoreServesLookup
  BY StoreIsServedState
<1> QED
  BY <1>1, <1>2, <1>3, PTL DEF LookupSpec

--------------------------------------------------------------------------------
(***************************************************************************)
(* Part 3: the policy of lifetimes under the engine's own calls.           *)
(*                                                                         *)
(* It marks what is being read as pinned, never what is being written.     *)
(***************************************************************************)
Contract == INSTANCE OffloadContract WITH held <- Held, busy <- Storing \cup pinned

\* Room is made for a store only when no other is under way, as in the replay and
\* in the harness, whose stores are completed before the next is prepared.
MakesRoomAlone ==
    [][\A keys \in SUBSET Key :
          PrepareStore(keys) /\ Shortfall(keys) > 0 => Storing = {}]_ttlVars

\* What makes room for other blocks is neither being written nor being read.
InUseStay ==
    [][\A keys \in SUBSET Key : PrepareStore(keys) => Held \ DOMAIN blocks' \subseteq Idle]_ttlVars

\* What makes room for other blocks is not being read.
ReadersStay ==
    [][\A keys \in SUBSET Key :
          PrepareStore(keys) => Held \ DOMAIN blocks' \subseteq Idle \cup Storing]_ttlVars

\* The tier never holds more blocks than it has slots.
WithinSlots == Cardinality(Held) <= Slots

\* The policy has a lifetime for every block and for no other: evict, which reads
\* it for each block it may take, never misses one.
LifetimesKept ==
    /\ expires \in [Held -> Nat] /\ DOMAIN role \subseteq Held
    /\ now \in Nat

CountsKept ==
    /\ Held \subseteq Key
    /\ \A k \in Held : blocks[k] \in Int /\ blocks[k] >= InFlight
    /\ pinned = Loading

TtlInv == LifetimesKept /\ CountsKept /\ WithinSlots

LEMMA ReservesRoom ==
    ASSUME Held \subseteq Key, NEW keys \in SUBSET Key, NEW victims \in SUBSET Held,
           Cardinality(victims) = Shortfall(keys)
    PROVE  LET after == (Held \ victims) \cup KeysToStore(keys)
           IN  /\ Cardinality(Held) <= Slots => Cardinality(after) <= Slots
               /\ Shortfall(keys) \in Nat
               /\ Shortfall(keys) = 0 => victims = {}
<1> DEFINE new == KeysToStore(keys)
           left == Held \ victims
<1>1. new \subseteq Key /\ left \cap new = {} /\ Held \cap victims = victims
  BY DEF KeysToStore
<1>2. /\ IsFiniteSet(Held) /\ IsFiniteSet(new)
      /\ IsFiniteSet(victims) /\ IsFiniteSet(left)
  BY <1>1, FS_Subset, ManagerAssumption
<1>3. /\ Cardinality(Held) \in Nat /\ Cardinality(new) \in Nat /\ Slots \in Nat
      /\ Cardinality(victims) \in Nat /\ Cardinality(left) \in Nat
  BY <1>2, FS_CardinalityType, ManagerAssumption
<1>4. Cardinality(left) = Cardinality(Held) - Cardinality(victims)
  BY <1>1, <1>2, FS_Difference
<1>5. Cardinality(left \cup new)
         = Cardinality(left) + Cardinality(new) - Cardinality(left \cap new)
  BY <1>2, FS_Union
<1>6. Cardinality(left \cap new) = 0
  BY <1>1, FS_EmptySet
<1>7. Cardinality(left \cup new) = (Cardinality(Held) - Cardinality(victims)) + Cardinality(new)
  BY <1>3, <1>4, <1>5, <1>6
<1>8. Shortfall(keys) = IF Cardinality(Held) + Cardinality(new) <= Slots THEN 0
                        ELSE (Cardinality(Held) + Cardinality(new)) - Slots
  BY DEF Shortfall
<1>9. Shortfall(keys) = 0 => victims = {}
  BY <1>2, FS_EmptySet
<1> HIDE DEF new, left
<1>10. Shortfall(keys) \in Nat
       /\ (Cardinality(Held) <= Slots => Cardinality(left \cup new) <= Slots)
  BY <1>3, <1>7, <1>8
<1> QED
  BY <1>9, <1>10 DEF new, left

\* What prepare_store makes of the tier and of the policy.
LEMMA TtlStore ==
    ASSUME TtlInv, NEW keys \in SUBSET Key, PrepareStore(keys)
    PROVE  \E victims \in SUBSET (Held \ pinned) :
              /\ Cardinality(victims) = Shortfall(keys)
              /\ Held' = (Held \ victims) \cup KeysToStore(keys)
              /\ \A k \in Held' :
                    blocks'[k] = IF k \in KeysToStore(keys) THEN InFlight ELSE blocks[k]
              /\ expires' = Stored(keys, victims, expires)
              /\ role' = Without(role, victims)
              /\ UNCHANGED <<pinned, now>>
<1>1. PICK victims \in evict(Shortfall(keys), keys, expires, now) :
         /\ prepare_store(keys, victims)
         /\ expires' = Stored(keys, victims, expires)
         /\ role' = Without(role, victims)
  BY DEF PrepareStore
<1>2. victims \in SUBSET (Held \ pinned) /\ Cardinality(victims) = Shortfall(keys)
  BY DEF evict, Live
<1>3. /\ Held' = (Held \ victims) \cup KeysToStore(keys)
      /\ \A k \in Held' :
            blocks'[k] = IF k \in KeysToStore(keys) THEN InFlight ELSE blocks[k]
  BY <1>1 DEF prepare_store, Held, Extended, Without
<1> QED
  BY <1>1, <1>2, <1>3 DEF PrepareStore

LEMMA TtlStoreInv ==
    ASSUME TtlInv, NEW keys \in SUBSET Key, PrepareStore(keys)
    PROVE  TtlInv'
<1>1. PICK victims \in SUBSET (Held \ pinned) :
              /\ Cardinality(victims) = Shortfall(keys)
              /\ Held' = (Held \ victims) \cup KeysToStore(keys)
              /\ \A k \in Held' :
                    blocks'[k] = IF k \in KeysToStore(keys) THEN InFlight ELSE blocks[k]
              /\ expires' = Stored(keys, victims, expires)
              /\ role' = Without(role, victims)
              /\ UNCHANGED <<pinned, now>>
  BY TtlStore
<1>2. KeysToStore(keys) \subseteq Key /\ KeysToStore(keys) \cap Held = {}
  BY DEF KeysToStore
<1>3. WithinSlots'
  BY <1>1, ReservesRoom DEF TtlInv, CountsKept, WithinSlots
<1>4. Loading' = Loading
  BY <1>1, <1>2 DEF Loading, InFlight, TtlInv, CountsKept
<1>5. CountsKept'
  BY <1>1, <1>2, <1>4 DEF CountsKept, TtlInv, InFlight
<1>6. now + DefaultTtl \in Nat /\ DOMAIN expires = Held
      /\ \A k \in Held : expires[k] \in Nat
  BY TtlAssumption DEF TtlInv, LifetimesKept
<1>7. expires' \in [Held' -> Nat]
  BY <1>1, <1>6 DEF Stored, Extended, Without
<1>8. DOMAIN role' \subseteq Held'
  BY <1>1 DEF Without, TtlInv, LifetimesKept
<1> QED
  BY <1>1, <1>3, <1>5, <1>7, <1>8 DEF TtlInv, LifetimesKept

\* What the ends of stores make of the tier.
LEMMA TtlStoreEnds ==
    ASSUME TtlInv, NEW keys \in SUBSET Storing
    PROVE  /\ keys \subseteq Held /\ keys \cap Loading = {}
           /\ CompleteStore(keys) =>
                 /\ Held' = Held /\ Loading' = Loading /\ Storing' = Storing \ keys
                 /\ pinned' = pinned \ keys
                 /\ \A k \in Held : blocks'[k] = IF k \in keys THEN 0 ELSE blocks[k]
           /\ FailStore(keys) =>
                 /\ Held' = Held \ keys /\ Loading' = Loading /\ Storing' = Storing \ keys
                 /\ pinned' = pinned \ keys
                 /\ \A k \in Held' : blocks'[k] = blocks[k]
<1>1. keys \subseteq Held /\ \A k \in keys : blocks[k] = InFlight
  BY DEF Storing
<1>2. keys \cap Loading = {}
  BY <1>1 DEF Loading, InFlight
<1>3. ASSUME CompleteStore(keys)
      PROVE  /\ Held' = Held /\ pinned' = pinned \ keys
             /\ \A k \in Held : blocks'[k] = IF k \in keys THEN 0 ELSE blocks[k]
  BY <1>1, <1>3 DEF CompleteStore, complete_store, Extended, Held
<1>4. ASSUME CompleteStore(keys)
      PROVE  Loading' = Loading /\ Storing' = Storing \ keys
  BY <1>1, <1>2, <1>3, <1>4 DEF Loading, Storing, InFlight
<1>5. ASSUME FailStore(keys)
      PROVE  /\ Held' = Held \ keys /\ pinned' = pinned \ keys
             /\ \A k \in Held' : blocks'[k] = blocks[k]
  BY <1>1, <1>5 DEF FailStore, fail_store, Without, Held
<1>6. ASSUME FailStore(keys)
      PROVE  Loading' = Loading /\ Storing' = Storing \ keys
  BY <1>1, <1>2, <1>5, <1>6 DEF Loading, Storing, InFlight
<1> QED
  BY <1>1, <1>2, <1>3, <1>4, <1>5, <1>6

LEMMA TtlStoreEndsInv ==
    ASSUME TtlInv, NEW keys \in SUBSET Storing, CompleteStore(keys) \/ FailStore(keys)
    PROVE  TtlInv'
<1>1. IsFiniteSet(Held) /\ Cardinality(Held \ keys) <= Cardinality(Held)
      /\ Cardinality(Held \ keys) \in Nat /\ Cardinality(Held) \in Nat /\ Slots \in Nat
  <2>1. IsFiniteSet(Held)
    BY FS_Subset, ManagerAssumption DEF TtlInv, CountsKept
  <2>2. IsFiniteSet(Held \ keys) /\ Cardinality(Held \ keys) <= Cardinality(Held)
    BY <2>1, FS_Subset
  <2> QED
    BY <2>1, <2>2, FS_CardinalityType, ManagerAssumption
<1>2. CASE CompleteStore(keys)
  <2>1. CountsKept'
    <3>1. \A k \in Held' : blocks'[k] \in Int /\ blocks'[k] >= InFlight
      BY <1>2, TtlStoreEnds DEF TtlInv, CountsKept, InFlight
    <3> QED
      BY <1>2, <3>1, TtlStoreEnds DEF TtlInv, CountsKept
  <2>2. LifetimesKept' /\ WithinSlots'
    BY <1>2, TtlStoreEnds DEF CompleteStore, TtlInv, LifetimesKept, WithinSlots
  <2> QED
    BY <2>1, <2>2 DEF TtlInv
<1>3. CASE FailStore(keys)
  <2>1. CountsKept'
    BY <1>3, TtlStoreEnds DEF TtlInv, CountsKept
  <2>2. WithinSlots'
    BY <1>1, <1>3, TtlStoreEnds DEF TtlInv, WithinSlots
  <2>3. LifetimesKept'
    BY <1>3, TtlStoreEnds DEF FailStore, Without, TtlInv, LifetimesKept
  <2> QED
    BY <2>1, <2>2, <2>3 DEF TtlInv
<1> QED
  BY <1>2, <1>3

\* What loads make of the tier; a block that is loaded is loaded once.
LEMMA TtlLoads ==
    ASSUME TtlInv, NEW k \in Held
    PROVE  /\ k \in Idle /\ PrepareLoad(k) =>
                 /\ Held' = Held /\ Loading' = Loading \cup {k} /\ Storing' = Storing
                 /\ pinned' = pinned \cup {k}
                 /\ \A j \in Held : blocks'[j] \in Int /\ blocks'[j] >= InFlight
           /\ k \in Loading /\ CompleteLoad(k) =>
                 /\ Held' = Held /\ Storing' = Storing /\ pinned' = Loading'
                 /\ pinned' = pinned \ {k} \/ pinned' = pinned
                 /\ \A j \in Held : blocks'[j] \in Int /\ blocks'[j] >= InFlight
<1>0. /\ \A j \in Held : blocks[j] \in Int /\ blocks[j] >= InFlight
      /\ pinned = Loading
  BY DEF TtlInv, CountsKept
<1>1. ASSUME k \in Idle, PrepareLoad(k)
      PROVE  /\ Held' = Held /\ pinned' = pinned \cup {k}
             /\ \A j \in Held : blocks'[j] = IF j = k THEN 1 ELSE blocks[j]
  BY <1>1 DEF PrepareLoad, prepare_load, Idle, Held
<1>2. ASSUME k \in Idle, PrepareLoad(k)
      PROVE  Loading' = Loading \cup {k} /\ Storing' = Storing
  BY <1>0, <1>1, <1>2 DEF Loading, Storing, Idle, InFlight
<1>3. ASSUME k \in Loading, CompleteLoad(k)
      PROVE  /\ Held' = Held /\ blocks[k] > 0
             /\ \A j \in Held : blocks'[j] = IF j = k THEN blocks[k] - 1 ELSE blocks[j]
             /\ pinned' = IF blocks[k] = 1 THEN pinned \ {k} ELSE pinned
  BY <1>3 DEF CompleteLoad, complete_load, Loading, Held
<1>4. ASSUME k \in Loading, CompleteLoad(k)
      PROVE  Storing' = Storing /\ pinned' = Loading'
  BY <1>0, <1>3, <1>4 DEF Loading, Storing, InFlight
<1>5. ASSUME k \in Idle, PrepareLoad(k)
      PROVE  \A j \in Held : blocks'[j] \in Int /\ blocks'[j] >= InFlight
  BY <1>0, <1>1, <1>5 DEF InFlight
<1>6. ASSUME k \in Loading, CompleteLoad(k)
      PROVE  \A j \in Held : blocks'[j] \in Int /\ blocks'[j] >= InFlight
  BY <1>0, <1>3, <1>6 DEF InFlight
<1> QED
  BY <1>1, <1>2, <1>3, <1>4, <1>5, <1>6

LEMMA TtlLoadsInv ==
    ASSUME TtlInv, NEW k \in Held,
           (k \in Idle /\ PrepareLoad(k)) \/ (k \in Loading /\ CompleteLoad(k))
    PROVE  TtlInv'
<1>1. Held' = Held /\ UNCHANGED <<expires, role, now>>
  BY TtlLoads DEF PrepareLoad, CompleteLoad
<1>2. CountsKept'
  BY TtlLoads, <1>1 DEF TtlInv, CountsKept
<1> QED
  BY <1>1, <1>2 DEF TtlInv, LifetimesKept, WithinSlots

LEMMA TtlTouchInv ==
    ASSUME TtlInv, NEW keys \in SUBSET Key, NEW r \in Roles, Touch(keys, r)
    PROVE  TtlInv'
<1>1. UNCHANGED <<Held, Loading, blocks, pinned, now>>
  BY DEF Touch, Held, Loading
<1>2. Lifetime(r) \in Nat /\ now \in Nat
      /\ DOMAIN expires = Held /\ \A k \in Held : expires[k] \in Nat
  BY TtlAssumption DEF Lifetime, TtlInv, LifetimesKept
<1>3. expires' \in [Held -> Nat]
  BY <1>2 DEF Touch, Refreshed, Extended
<1>4. DOMAIN role' \subseteq Held
  BY DEF Touch, Declared, Extended, TtlInv, LifetimesKept
<1> QED
  BY <1>1, <1>3, <1>4 DEF TtlInv, LifetimesKept, CountsKept, WithinSlots

LEMMA TtlOthersInv ==
    ASSUME TtlInv, Clear \/ Tick \/ UNCHANGED ttlVars
    PROVE  TtlInv'
<1>1. CASE Clear
  <2>1. Held' = {} /\ Loading' = {} /\ expires' \in [{} -> Nat] /\ DOMAIN role' = {}
    BY <1>1 DEF Clear, Held, Loading
  <2>2. Cardinality({}) = 0 /\ Slots \in Nat
    BY FS_EmptySet, ManagerAssumption
  <2> QED
    BY <1>1, <2>1, <2>2 DEF Clear, TtlInv, LifetimesKept, CountsKept, WithinSlots
<1>2. CASE Tick
  <2>1. UNCHANGED <<Held, Loading, blocks, expires, role, pinned>> /\ now' = now + 1
    BY <1>2 DEF Tick, policyVars, Held, Loading
  <2> QED
    BY <2>1 DEF TtlInv, LifetimesKept, CountsKept, WithinSlots
<1>3. CASE UNCHANGED ttlVars
  BY <1>3 DEF ttlVars, policyVars, TtlInv, LifetimesKept, CountsKept, WithinSlots,
              Held, Loading
<1> QED
  BY <1>1, <1>2, <1>3

LEMMA TtlInit == ASSUME Init PROVE TtlInv
<1>1. Held = {} /\ Loading = {} /\ expires \in [{} -> Nat] /\ DOMAIN role = {}
  BY DEF Init, Held, Loading
<1>2. Cardinality({}) = 0 /\ Slots \in Nat
  BY FS_EmptySet, ManagerAssumption
<1> QED
  BY <1>1, <1>2 DEF Init, TtlInv, LifetimesKept, CountsKept, WithinSlots

LEMMA TtlNext == ASSUME TtlInv, [Next]_ttlVars PROVE TtlInv'
<1>1. Idle \subseteq Held /\ Loading \subseteq Held
  BY DEF Idle, Loading
<1> QED
  BY <1>1, TtlStoreInv, TtlStoreEndsInv, TtlLoadsInv, TtlTouchInv, TtlOthersInv DEF Next

(***************************************************************************)
(* Whatever calls the engine makes, the policy has a lifetime for exactly  *)
(* the blocks of the tier, and the tier never outgrows its slots (ttl.py   *)
(* drops what it knew of every block that leaves).                         *)
(***************************************************************************)
THEOREM TtlPolicyFollowsTier == Spec => [](LifetimesKept /\ WithinSlots)
<1>1. Init => TtlInv
  BY TtlInit
<1>2. TtlInv /\ [Next]_ttlVars => TtlInv'
  BY TtlNext
<1>3. TtlInv => LifetimesKept /\ WithinSlots
  BY DEF TtlInv
<1> QED
  BY <1>1, <1>2, <1>3, PTL DEF Spec

(***************************************************************************)
(* A block that is being read never makes room for another, with no        *)
(* assumption on the calls: mark_evictable withdraws it before evict looks *)
(* (ttl.py, lines 90-91 and 103).                                         *)
(***************************************************************************)
THEOREM TtlSparesReaders == Spec => ReadersStay
<1>1. Init => TtlInv
  BY TtlInit
<1>2. TtlInv /\ [Next]_ttlVars => TtlInv'
  BY TtlNext
<1>3. TtlInv => \A keys \in SUBSET Key :
                   PrepareStore(keys) => Held \ DOMAIN blocks' \subseteq Idle \cup Storing
  <2> SUFFICES ASSUME TtlInv, NEW keys \in SUBSET Key, PrepareStore(keys)
               PROVE  Held \ DOMAIN blocks' \subseteq Idle \cup Storing
    OBVIOUS
  <2>1. PICK victims \in SUBSET (Held \ pinned) :
           Held' = (Held \ victims) \cup KeysToStore(keys)
    BY TtlStore
  <2>2. Held \ DOMAIN blocks' \subseteq Held \ Loading
    BY <2>1 DEF Held, TtlInv, CountsKept
  <2>3. \A k \in Held \ Loading : k \in Idle \cup Storing
    BY DEF Idle, Storing, Loading, InFlight, TtlInv, CountsKept
  <2> QED
    BY <2>2, <2>3
<1> QED
  BY <1>1, <1>2, <1>3, PTL DEF Spec, ReadersStay

--------------------------------------------------------------------------------
(***************************************************************************)
(* Refinement of OffloadContract, busy being what is read or written.      *)
(***************************************************************************)
LEMMA TtlReserves ==
    ASSUME TtlInv, NEW keys \in SUBSET Key, PrepareStore(keys),
           Shortfall(keys) > 0 => Storing = {}
    PROVE  /\ \E new, victims \in SUBSET Key : Contract!Reserve(new, victims)
           /\ Held \ DOMAIN blocks' \subseteq Idle
<1>1. PICK victims \in SUBSET (Held \ pinned) :
              /\ Cardinality(victims) = Shortfall(keys)
              /\ Held' = (Held \ victims) \cup KeysToStore(keys)
              /\ \A k \in Held' :
                    blocks'[k] = IF k \in KeysToStore(keys) THEN InFlight ELSE blocks[k]
              /\ UNCHANGED pinned
  BY TtlStore
<1> DEFINE new == KeysToStore(keys)
<1>2. new # {} /\ new \cap Held = {} /\ new \subseteq Key
  BY DEF PrepareStore, KeysToStore
<1>3. victims \cap Storing = {}
  <2>1. Shortfall(keys) \in Nat /\ (Shortfall(keys) = 0 => victims = {})
    BY <1>1, ReservesRoom DEF TtlInv, CountsKept
  <2>2. CASE Shortfall(keys) = 0
    BY <2>1, <2>2
  <2>3. CASE Shortfall(keys) > 0
    BY <2>3
  <2> QED
    BY <2>1, <2>2, <2>3
<1>4. Storing' = Storing \cup new
  BY <1>1, <1>2, <1>3 DEF Storing, InFlight
<1>5. victims \subseteq Held \ (Storing \cup pinned) /\ victims \in SUBSET Key
  BY <1>1, <1>3 DEF TtlInv, CountsKept
<1>6. Cardinality(victims) = IF Cardinality(Held) + Cardinality(new) <= Slots THEN 0
                             ELSE (Cardinality(Held) + Cardinality(new)) - Slots
  BY <1>1 DEF Shortfall
<1>7. \A S : Contract!Cardinality(S) = Cardinality(S)
  BY DEF Contract!Cardinality, Cardinality
<1>8. Storing' \cup pinned' = (Storing \cup pinned) \cup new
  BY <1>1, <1>4
<1>9. Contract!Reserve(new, victims)
  <2> HIDE DEF new
  <2> QED
    BY <1>1, <1>2, <1>5, <1>6, <1>7, <1>8 DEF Contract!Reserve, new
<1>10. Held \ DOMAIN blocks' \subseteq Idle
  <2>1. Held \ DOMAIN blocks' \subseteq Held \ (Storing \cup Loading)
    BY <1>1, <1>5 DEF Held, TtlInv, CountsKept
  <2>2. \A k \in Held \ (Storing \cup Loading) : k \in Idle
    BY DEF Idle, Storing, Loading, InFlight, TtlInv, CountsKept
  <2> QED
    BY <2>1, <2>2
<1> QED
  BY <1>2, <1>5, <1>9, <1>10

LEMMA TtlContractStep ==
    ASSUME TtlInv, [Next]_ttlVars,
           \A keys \in SUBSET Key :
              PrepareStore(keys) /\ Shortfall(keys) > 0 => Storing = {}
    PROVE  Contract!Next \/ UNCHANGED Contract!vars
<1>0. Held \subseteq Key /\ Storing \subseteq Held /\ Idle \subseteq Held /\ Loading \subseteq Held
      /\ pinned = Loading
  BY DEF TtlInv, CountsKept, Storing, Idle, Loading
<1>1. ASSUME NEW keys \in SUBSET Key, PrepareStore(keys) PROVE Contract!Next
  BY <1>1, TtlReserves DEF Contract!Next
<1>2. ASSUME NEW keys \in SUBSET Storing, CompleteStore(keys) PROVE Contract!Next
  <2>1. Contract!Release(keys)
    BY <1>2, TtlStoreEnds DEF Contract!Release
  <2> QED
    BY <1>0, <2>1 DEF Contract!Next
<1>3. ASSUME NEW keys \in SUBSET Storing, FailStore(keys) PROVE Contract!Next
  <2>1. Contract!Abandon(keys)
    BY <1>3, TtlStoreEnds DEF Contract!Abandon
  <2> QED
    BY <1>0, <2>1 DEF Contract!Next
<1>4. ASSUME NEW k \in Idle, PrepareLoad(k) PROVE Contract!Next
  <2>1. Contract!Take(k)
    BY <1>0, <1>4, TtlLoads DEF Contract!Take
  <2> QED
    BY <1>0, <2>1 DEF Contract!Next
<1>5. ASSUME NEW k \in Loading, CompleteLoad(k)
      PROVE  Contract!Next \/ UNCHANGED Contract!vars
  <2>1. Held' = Held /\ Storing' = Storing /\ k \in Held
        /\ (pinned' = pinned \ {k} \/ pinned' = pinned)
    BY <1>0, <1>5, TtlLoads
  <2>2. CASE pinned' = pinned
    BY <2>1, <2>2 DEF Contract!vars
  <2>3. CASE pinned' = pinned \ {k}
    <3>1. k \in pinned /\ k \notin Storing
      BY <1>0, <1>5 DEF Loading, Storing, InFlight
    <3>2. Contract!Release({k})
      BY <2>1, <2>3, <3>1 DEF Contract!Release
    <3> QED
      BY <1>0, <2>1, <3>2 DEF Contract!Next
  <2> QED
    BY <2>1, <2>2, <2>3
<1>6. ASSUME Clear PROVE Contract!Next
  <2>1. Held' = {} /\ Storing' = {} /\ pinned' = {}
    BY <1>6 DEF Clear, Held, Storing
  <2> QED
    BY <2>1 DEF Contract!Next, Contract!Reset
<1>7. ASSUME blocks' = blocks, pinned' = pinned PROVE UNCHANGED Contract!vars
  BY <1>7 DEF Contract!vars, Held, Storing
<1>8. ASSUME NEW keys \in SUBSET Key, NEW r \in Roles, Touch(keys, r)
      PROVE  UNCHANGED Contract!vars
  BY <1>7, <1>8 DEF Touch
<1>9. ASSUME Tick \/ UNCHANGED ttlVars PROVE UNCHANGED Contract!vars
  BY <1>7, <1>9 DEF Tick, ttlVars, policyVars
<1> QED
  BY <1>1, <1>2, <1>3, <1>4, <1>5, <1>6, <1>8, <1>9 DEF Next

(***************************************************************************)
(* As long as room is made for a store only while no other is under way,   *)
(* the manager with the policy of lifetimes keeps the promise of an        *)
(* offload tier.  Without that it does not: the policy protects what is    *)
(* read and not what is written (ttl.py, line 103).                        *)
(***************************************************************************)
THEOREM TtlKeepsContract == Spec /\ MakesRoomAlone => Contract!Spec
<1>1. Init => TtlInv
  BY TtlInit
<1>2. TtlInv /\ [Next]_ttlVars => TtlInv'
  BY TtlNext
<1>3. Init => Contract!Init
  BY DEF Init, Contract!Init, Held, Storing
<1>4. TtlInv /\ [Next]_ttlVars
      /\ (\A keys \in SUBSET Key :
             PrepareStore(keys) /\ Shortfall(keys) > 0 => Storing = {})
      => [Contract!Next]_(Contract!vars)
  BY TtlContractStep
<1>5. UNCHANGED ttlVars => UNCHANGED Contract!vars
  BY DEF ttlVars, policyVars, Contract!vars, Held, Storing
<1> QED
  BY <1>1, <1>2, <1>3, <1>4, <1>5, PTL DEF Spec, MakesRoomAlone, Contract!Spec

(***************************************************************************)
(* Under the same condition the blocks that make room are in no use.       *)
(* Without it a block whose transfer into the tier is still under way may  *)
(* be displaced: insert leaves it to evict (ttl.py, lines 63-65), where    *)
(* AcrValuePolicy's looks at ref_cnt first (policy.py, line 106).          *)
(***************************************************************************)
THEOREM InUseStayAlone == Spec /\ MakesRoomAlone => InUseStay
<1>1. Init => TtlInv
  BY TtlInit
<1>2. TtlInv /\ [Next]_ttlVars => TtlInv'
  BY TtlNext
<1>3. TtlInv
      /\ (\A keys \in SUBSET Key :
             PrepareStore(keys) /\ Shortfall(keys) > 0 => Storing = {})
      => \A keys \in SUBSET Key : PrepareStore(keys) => Held \ DOMAIN blocks' \subseteq Idle
  BY TtlReserves
<1> QED
  BY <1>1, <1>2, <1>3, PTL DEF Spec, MakesRoomAlone, InUseStay

--------------------------------------------------------------------------------
(***************************************************************************)
(* The same of the offline replay, which reserves and fills in one turn.   *)
(***************************************************************************)
\* A turn displaces as many blocks as the ones it stores need, and no more.
ExactRoom == [][Cardinality(Held \ DOMAIN blocks') = Shortfall(DOMAIN blocks' \ Held)]_vars

LEMMA TurnRoom ==
    ASSUME TurnoverInv, WithinSlots, NEW s \in Session, Turn(s)
    PROVE  /\ Cardinality(Held \ DOMAIN blocks') = Shortfall(DOMAIN blocks' \ Held)
           /\ WithinSlots'
<1> DEFINE cold == ColdOf(s)
<1>1. PICK gap \in 0..MaxGap : touch_stream(s, Context(s), RoleOf[s], gap)
  BY DEF Turn
<1>2. turn[s] \in Nat /\ turn[s] < MaxTurns
  BY DEF Turn, TurnoverInv
<1> DEFINE lapse == Refreshed(Range(Context(s)), RoleOf[s], gap)
           roles == Declared(Range(Context(s)), RoleOf[s])
<1>3. StoreCold(s, cold, lapse, roles, gap) \/ RefuseCold(cold, lapse, roles, gap)
  BY <1>1 DEF touch_stream, ColdOf
<1>4. /\ cold \in Seq(Key) /\ Range(cold) \cap Held = {} /\ Range(cold) \subseteq Key
  <2>1. cold \in Seq(Key) /\ Range(cold) \cap Held = {}
    BY <1>2, ColdFacts
  <2> HIDE DEF cold
  <2> QED
    BY <2>1 DEF Range
<1>5. Held \subseteq Key
  BY DEF TurnoverInv, Served
<1> HIDE DEF cold, lapse, roles
<1>6. CASE RefuseCold(cold, lapse, roles, gap)
  <2>1. DOMAIN blocks' = Held /\ Held' = Held
    BY <1>6 DEF RefuseCold, Held
  <2>2. Cardinality({}) = 0 /\ Cardinality(Held) \in Nat /\ Slots \in Nat
    BY FS_EmptySet, FS_CardinalityType, ManagerAssumption DEF TurnoverInv
  <2>3. KeysToStore({}) = {}
    BY DEF KeysToStore
  <2>4. Shortfall({}) = 0
    BY <2>2, <2>3 DEF Shortfall, WithinSlots
  <2>5. Held \ Held = {}
    OBVIOUS
  <2> QED
    BY <2>1, <2>2, <2>4, <2>5 DEF WithinSlots
<1>7. CASE StoreCold(s, cold, lapse, roles, gap)
  <2>1. PICK victims \in Answers(cold, lapse, gap) :
           blocks' = Extended(Without(blocks, victims), Range(cold), 0)
    BY <1>7 DEF StoreCold
  <2>2. /\ victims \in SUBSET Held
        /\ Cardinality(victims) = Shortfall(Range(cold))
    BY DEF Answers, evict, Live
  <2>3. KeysToStore(Range(cold)) = Range(cold)
    BY <1>4 DEF KeysToStore
  <2>4. DOMAIN blocks' = (Held \ victims) \cup Range(cold)
    BY <2>1 DEF Extended, Without, Held
  <2>5. Held \ DOMAIN blocks' = victims /\ DOMAIN blocks' \ Held = Range(cold)
    BY <1>4, <2>2, <2>4
  <2>6. Cardinality((Held \ victims) \cup Range(cold)) <= Slots
    BY <1>4, <1>5, <2>2, <2>3, ReservesRoom DEF WithinSlots
  <2>7. WithinSlots'
    BY <2>4, <2>6 DEF WithinSlots, Held
  <2> QED
    BY <2>2, <2>5, <2>7
<1> QED
  BY <1>3, <1>6, <1>7

(***************************************************************************)
(* The offline replay never outgrows the tier, and what it displaces in a  *)
(* turn is what the blocks it stores need: a refused turn displaces none   *)
(* (offload_replay_real.py, lines 111-122).                                *)
(***************************************************************************)
THEOREM OffloadReplayKeepsRoom == RunnerSpec => []WithinSlots /\ ExactRoom
<1>1. RunnerInit => WithinSlots
  BY TtlInit DEF RunnerInit, TtlInv
<1>2. TurnoverInv /\ WithinSlots /\ [RunnerNext]_vars
      => WithinSlots'
         /\ [Cardinality(Held \ DOMAIN blocks') = Shortfall(DOMAIN blocks' \ Held)]_vars
  <2> SUFFICES ASSUME TurnoverInv, WithinSlots, [RunnerNext]_vars
               PROVE  WithinSlots'
                      /\ [Cardinality(Held \ DOMAIN blocks') = Shortfall(DOMAIN blocks' \ Held)]_vars
    OBVIOUS
  <2>1. CASE UNCHANGED vars
    BY <2>1 DEF vars, ttlVars, policyVars, WithinSlots, Held
  <2>2. CASE RunnerNext
    BY <2>2, TurnRoom DEF RunnerNext
  <2> QED
    BY <2>1, <2>2
<1> QED
  BY <1>1, <1>2, TurnoverInit, TurnoverStep, PTL DEF RunnerSpec, ExactRoom

================================================================================
