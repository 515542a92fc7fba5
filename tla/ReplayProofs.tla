------------------------------ MODULE ReplayProofs -------------------------------
(***************************************************************************)
(* Proofs about a whole replay, for any policy, any trace and any          *)
(* capacities.  What is proved of the index on its own holds of it inside  *)
(* a replay: a turn is a request of the index whatever the tiers do, and   *)
(* the end of the trace releases all.  The proofs about the pool and the   *)
(* host tier rest on an invariant of their own, TiersInv; that the host    *)
(* tier fits rests besides on what its evictions were charged with.        *)
(***************************************************************************)
EXTENDS Replay, ItemListsProofs

IndexP == INSTANCE PrefixIndexProofs
TierP == INSTANCE TierProofs

LEMMA IndexAssumed == IndexP!IndexAssumption
BY ReplayAssumption DEF IndexP!IndexAssumption

\* The two instances of the index define the same request.
LEMMA SameRequest ==
    ASSUME NEW s \in Session, NEW role \in Role, NEW prompt \in Prompts,
           NEW sh \in SharedSizes, NEW t \in Nat, NEW ab \in BOOLEAN,
           Index!touch_path(s, role, prompt, sh, t, ab)
    PROVE  IndexP!touch_path(s, role, prompt, sh, t, ab)
BY DEF Index!touch_path, IndexP!touch_path, Index!chain, IndexP!chain,
       Index!Lesser, IndexP!Lesser, Index!BlocksOf, IndexP!BlocksOf,
       Index!PartTokens, IndexP!PartTokens, Index!KeysOf, IndexP!KeysOf,
       Index!Elems, IndexP!Elems, Index!Leased, IndexP!Leased,
       Index!NewBlock, IndexP!NewBlock, Index!Unleased, IndexP!Unleased,
       Index!observe_use, IndexP!observe_use, Index!SmoothedIat, IndexP!SmoothedIat,
       Index!Many, IndexP!Many

\* ... and start alike.
LEMMA SameStart == ASSUME Index!Init PROVE IndexP!Init
BY DEF Index!Init, IndexP!Init, Index!NewBlock, IndexP!NewBlock, Index!Unset, IndexP!Unset

(***************************************************************************)
(* The invariant: that of the index, the policy among those of the replay, *)
(* and no lease once it has ended.                                         *)
(***************************************************************************)
ReplayInv ==
    /\ IndexP!IndexInv
    /\ policy \in Policies
    /\ NoLeaseAfterEnd

LEMMA ReplayInitInv == ASSUME Init PROVE ReplayInv
<1>1. IndexP!IndexInv
  BY SameStart, IndexAssumed, IndexP!InitInv DEF Init
<1> QED
  BY <1>1 DEF Init, ReplayInv, NoLeaseAfterEnd

\* A request of the index inside a turn preserves its invariant.
LEMMA RequestInv ==
    ASSUME IndexP!IndexInv,
           NEW s \in Session, NEW role \in Role, NEW prompt \in Prompts,
           NEW sh \in SharedSizes, NEW t \in Nat, NEW ab \in BOOLEAN,
           Index!touch_path(s, role, prompt, sh, t, ab)
    PROVE  IndexP!IndexInv'
<1>1. IndexP!touch_path(s, role, prompt, sh, t, ab)
  BY SameRequest
<1> QED
  BY <1>1, IndexAssumed, IndexP!TouchPreservesInv

LEMMA TurnInv == ASSUME ReplayInv, Turn PROVE ReplayInv'
<1>1. PICK turn \in Turns[policy], gap \in Gaps : One(turn, now + gap)
  BY DEF Turn
<1>2. turn \in TurnRecord /\ gap \in Nat
  BY ReplayAssumption DEF ReplayInv
<1>3. now + gap \in Nat
  BY <1>2 DEF ReplayInv, IndexP!IndexInv, IndexP!TypeOK
<1>4. Index!touch_path(turn.session, turn.role, turn.prompt, turn.shared, now + gap,
                       turn.aborted)
  BY <1>1 DEF One
<1>5. /\ turn.session \in Session /\ turn.role \in Role /\ turn.prompt \in Prompts
      /\ turn.shared \in SharedSizes /\ turn.aborted \in BOOLEAN
  BY <1>2 DEF TurnRecord
<1>6. IndexP!IndexInv'
  BY <1>3, <1>4, <1>5, RequestInv DEF ReplayInv
<1>7. policy' = policy /\ ~done'
  BY DEF Turn
<1> QED
  BY <1>6, <1>7 DEF ReplayInv, NoLeaseAfterEnd

\* Every lease is on the path of its holder, so releasing the paths leaves none.
LEMMA FinishReleases ==
    ASSUME ReplayInv, Finish
    PROVE  /\ DOMAIN blocks' = DOMAIN blocks
           /\ \A k \in DOMAIN blocks : blocks'[k] = [blocks[k] EXCEPT !.refs = {}]
<1>1. blocks' = [k \in DOMAIN blocks |->
                    [blocks[k] EXCEPT
                        !.refs = @ \ {s \in Session : k \in Index!Elems(Path(s))}]]
  BY DEF Finish, Released
<1>2. ASSUME NEW k \in DOMAIN blocks
      PROVE  blocks[k].refs \ {s \in Session : k \in Index!Elems(Path(s))} = {}
  BY DEF ReplayInv, IndexP!IndexInv, IndexP!LeaseExact, IndexP!Elems, Index!Elems, Path
<1> QED
  BY <1>1, <1>2

LEMMA FinishInv == ASSUME ReplayInv, Finish PROVE ReplayInv'
<1>1. /\ DOMAIN blocks' = DOMAIN blocks
      /\ \A k \in DOMAIN blocks : blocks'[k] = [blocks[k] EXCEPT !.refs = {}]
  BY FinishReleases
<1>2. /\ session_path' = [s \in Session |-> <<>>]
      /\ session_last_seen' = [s \in Session |-> Index!Unset]
      /\ UNCHANGED <<policy, session_role, invalidations, now>>
  BY DEF Finish
<1>3. \A s \in Session : session_path'[s] = <<>> /\ DOMAIN session_path'[s] = {}
  BY <1>2
<1>4. IndexP!TypeOK
  BY DEF ReplayInv, IndexP!IndexInv
<1>5. ASSUME NEW k \in DOMAIN blocks
      PROVE  blocks'[k] \in IndexP!BlockInfo /\ blocks'[k].refs = {}
             /\ blocks'[k].depth = blocks[k].depth
  <2>1. blocks[k] \in IndexP!BlockInfo
    BY <1>4 DEF IndexP!TypeOK
  <2> QED
    BY <1>1, <2>1 DEF IndexP!BlockInfo
<1>6. IndexP!TypeOK'
  <2>1. blocks' \in [DOMAIN blocks' -> IndexP!BlockInfo]
    <3>1. blocks' = [k \in DOMAIN blocks' |-> blocks'[k]]
      BY DEF Finish, Released
    <3> QED
      BY <1>1, <1>5, <3>1
  <2>2. session_path' \in [Session -> Seq(IndexP!Key)]
    BY <1>2
  <2>3. session_last_seen' \in [Session -> Nat \cup {IndexP!Unset}]
    BY <1>2 DEF Index!Unset, IndexP!Unset
  <2> QED
    BY <1>1, <1>2, <1>4, <2>1, <2>2, <2>3 DEF IndexP!TypeOK
<1>7. IndexP!LeaseExact'
  BY <1>1, <1>3, <1>5 DEF IndexP!LeaseExact, IndexP!Elems
<1>8. IndexP!DepthsNumbered'
  BY <1>1, <1>5 DEF IndexP!DepthsNumbered, ReplayInv, IndexP!IndexInv
<1>9. IndexP!PathsNumbered' /\ IndexP!PathsClocked' /\ IndexP!InteriorFull'
  BY <1>3 DEF IndexP!PathsNumbered, IndexP!PathsClocked, IndexP!InteriorFull
<1>10. NoLeaseAfterEnd'
  BY <1>1, <1>5 DEF NoLeaseAfterEnd
<1> QED
  BY <1>2, <1>6, <1>7, <1>8, <1>9, <1>10 DEF ReplayInv, IndexP!IndexInv

LEMMA ReplayNextInv == ASSUME ReplayInv, [Next]_vars PROVE ReplayInv'
<1>1. CASE UNCHANGED vars
  BY <1>1 DEF vars, indexVars, ReplayInv, NoLeaseAfterEnd, IndexP!IndexInv,
     IndexP!TypeOK, IndexP!LeaseExact, IndexP!DepthsNumbered, IndexP!PathsNumbered,
     IndexP!PathsClocked, IndexP!InteriorFull
<1> QED
  BY <1>1, TurnInv, FinishInv DEF Next

\* The invariant of the index holds throughout a replay, under any policy.
THEOREM ReplayKeepsIndex == Spec => []IndexP!IndexInv
<1>1. Init => ReplayInv
  BY ReplayInitInv
<1>2. ReplayInv /\ [Next]_vars => ReplayInv'
  BY ReplayNextInv
<1>3. ReplayInv => IndexP!IndexInv
  BY DEF ReplayInv
<1> QED
  BY <1>1, <1>2, <1>3, PTL DEF Spec

\* When a replay has ended, whatever its trace, no lease is left on any block.
THEOREM LeasesEndWithReplay == Spec => []NoLeaseAfterEnd
<1>1. Init => ReplayInv
  BY ReplayInitInv
<1>2. ReplayInv /\ [Next]_vars => ReplayInv'
  BY ReplayNextInv
<1>3. ReplayInv => NoLeaseAfterEnd
  BY DEF ReplayInv
<1> QED
  BY <1>1, <1>2, <1>3, PTL DEF Spec

(***************************************************************************)
(* The operators of the instances are the same.                            *)
(***************************************************************************)
LEMMA SameLists ==
    ASSUME NEW items, NEW K
    PROVE  /\ Hbm!Keys(items) = Keys(items) /\ TierP!Keys(items) = Keys(items)
           /\ Host!Keys(items) = Keys(items) /\ Host!Off(items, K) = Off(items, K)
           /\ Host!Sublist(items, K) = Sublist(items, K)
           /\ TierP!Distinct(items) = Distinct(items) /\ TierP!Range(items) = Range(items)
           /\ TierP!Rising(items, K) = Rising(items, K)
BY DEF Hbm!Keys, TierP!Keys, Host!Keys, Keys, Host!Off, Off, Host!Sublist, Sublist,
       TierP!Distinct, Distinct, TierP!Range, Range, TierP!Rising, Rising

LEMMA SameBytes ==
    ASSUME NEW items
    PROVE  /\ Hbm!Bytes(items) = Bytes(items) /\ TierP!Bytes(items) = Bytes(items)
           /\ Host!Bytes(items) = Bytes(items) /\ Host!Occupancy(items) = Bytes(items)
BY DEF Hbm!Bytes, TierP!Bytes, Host!Bytes, Host!Occupancy, Bytes,
       Hbm!SumFunction, TierP!SumFunction, Host!SumFunction, SumFunction,
       Hbm!SumFunctionOnSet, TierP!SumFunctionOnSet, Host!SumFunctionOnSet,
       SumFunctionOnSet, Hbm!FoldFunctionOnSet, TierP!FoldFunctionOnSet,
       Host!FoldFunctionOnSet, FoldFunctionOnSet, Hbm!MapThenFoldSet,
       TierP!MapThenFoldSet, Host!MapThenFoldSet, MapThenFoldSet

LEMMA SameStore ==
    ASSUME NEW items, NEW protected
    PROVE  /\ Hbm!store(items, protected) <=> TierP!store(items, protected)
           /\ Hbm!Dropped(items, protected) = TierP!Dropped(items, protected)
BY DEF Hbm!store, TierP!store, Hbm!Dropped, TierP!Dropped, Hbm!Surplus, TierP!Surplus,
       Hbm!Filled, TierP!Filled, Hbm!NewItems, TierP!NewItems, Hbm!Held, TierP!Held,
       Hbm!contains, TierP!contains, Hbm!Off, TierP!Off, Hbm!Sublist, TierP!Sublist,
       Hbm!Keys, TierP!Keys, Hbm!Bytes, TierP!Bytes, Hbm!SumFunction, TierP!SumFunction,
       Hbm!SumFunctionOnSet, TierP!SumFunctionOnSet, Hbm!FoldFunctionOnSet,
       TierP!FoldFunctionOnSet, Hbm!MapThenFoldSet, TierP!MapThenFoldSet,
       Hbm!Min, TierP!Min

LEMMA TiersAssumed == TierP!PolicyAssumption
BY ReplayAssumption DEF TierP!PolicyAssumption

\* The operators that the eviction orders are made of.
LEMMA SameKeyOrder ==
    ASSUME NEW held, NEW probe
    PROVE  TierP!KeyOrder(held, probe) = Host!KeyOrder(held, probe)
BY DEF TierP!KeyOrder, Host!KeyOrder, TierP!SortKey, Host!SortKey, TierP!Sooner,
       Host!Sooner, TierP!Lex, Host!Lex

LEMMA SameChains ==
    ASSUME NEW held, NEW probe, NEW k
    PROVE  /\ TierP!ChainOf(k, probe) = Host!ChainOf(k, probe)
           /\ Host!ChainOf(k, probe) = IF Cardinality(probe.leases[k]) = 1
                                       THEN <<"session", probe.leases[k]>> ELSE <<"block", {k}>>
<1>1. \A S : TierP!Cardinality(S) = Cardinality(S) /\ Host!Cardinality(S) = Cardinality(S)
  BY DEF TierP!Cardinality, Host!Cardinality, Cardinality
<1> QED
  BY <1>1 DEF TierP!ChainOf, Host!ChainOf

LEMMA SameSums ==
    ASSUME NEW f, NEW I
    PROVE  /\ TierP!SumFunctionOnSet(f, I) = SumFunctionOnSet(f, I)
           /\ Host!SumFunctionOnSet(f, I) = SumFunctionOnSet(f, I)
BY DEF TierP!SumFunctionOnSet, Host!SumFunctionOnSet, SumFunctionOnSet,
       TierP!FoldFunctionOnSet, Host!FoldFunctionOnSet, FoldFunctionOnSet,
       TierP!MapThenFoldSet, Host!MapThenFoldSet, MapThenFoldSet

LEMMA SameHostLists ==
    ASSUME NEW items, NEW K
    PROVE  /\ TierP!Keys(items) = Keys(items) /\ TierP!Bytes(items) = Bytes(items)
           /\ TierP!Off(items, K) = Off(items, K) /\ TierP!Sublist(items, K) = Sublist(items, K)
           /\ TierP!Distinct(items) = Distinct(items) /\ TierP!Range(items) = Range(items)
<1>1. TierP!Bytes(items) = Bytes(items)
  BY SameSums DEF TierP!Bytes, Bytes, TierP!SumFunction, SumFunction
<1> QED
  BY <1>1 DEF TierP!Keys, Keys, TierP!Off, Off, TierP!Sublist, Sublist, TierP!Distinct,
     Distinct, TierP!Range, Range

LEMMA SameRanked ==
    ASSUME NEW held, NEW i, NEW probe
    PROVE  /\ TierP!Ranked(held, i, probe) = Host!Ranked(held, i, probe)
           /\ TierP!ChainAt(held, i, probe) = Host!ChainAt(held, i, probe)
<1>1. TierP!ChainAt(held, i, probe) = Host!ChainAt(held, i, probe)
  BY SameChains DEF TierP!ChainAt, Host!ChainAt
<1>2. \A I : /\ TierP!SharedRank(held, I, probe) = Host!SharedRank(held, I, probe)
             /\ TierP!Worth(held, I, probe) = Host!Worth(held, I, probe)
  BY SameSums DEF TierP!SharedRank, Host!SharedRank, TierP!Worth, Host!Worth
<1>3. \A S : TierP!Min(S) = Host!Min(S)
  BY DEF TierP!Min, Host!Min
<1> QED
  BY <1>1, <1>2, <1>3, SameSums DEF TierP!Ranked, Host!Ranked

LEMMA SameOrder ==
    ASSUME NEW held, NEW probe
    PROVE  TierP!Order(held, probe) = Host!Order(held, probe)
<1>1. TierP!ChainOrder(held, probe) = Host!ChainOrder(held, probe)
  BY SameRanked DEF TierP!ChainOrder, Host!ChainOrder, TierP!ChainBefore, Host!ChainBefore,
     TierP!Deeper, Host!Deeper, TierP!Lex, Host!Lex, TierP!Larger, Host!Larger
<1>2. \A seq, ahead : TierP!Arranged(seq, ahead) = Host!Arranged(seq, ahead)
  <2>1. \A S : TierP!Cardinality(S) = Host!Cardinality(S)
    BY DEF TierP!Cardinality, Host!Cardinality
  <2>2. ASSUME NEW seq, NEW ahead
        PROVE  TierP!Arranged(seq, ahead) = Host!Arranged(seq, ahead)
    <3> DEFINE before(i) == {j \in DOMAIN seq : <<j, i>> \in ahead}
               r1 == [i \in DOMAIN seq |-> TierP!Cardinality(before(i))]
               r2 == [i \in DOMAIN seq |-> Host!Cardinality(before(i))]
    <3>1. r1 = r2
      BY <2>1
    <3>2. /\ TierP!Arranged(seq, ahead)
                = [n \in DOMAIN seq |-> seq[CHOOSE i \in DOMAIN seq : r1[i] = n - 1]]
          /\ Host!Arranged(seq, ahead)
                = [n \in DOMAIN seq |-> seq[CHOOSE i \in DOMAIN seq : r2[i] = n - 1]]
      BY DEF TierP!Arranged, Host!Arranged
    <3> HIDE DEF r1, r2
    <3> QED
      BY <3>1, <3>2
  <2> QED
    BY <2>2
<1> QED
  BY <1>1, <1>2, SameKeyOrder DEF TierP!Order, Host!Order, TierP!OrderOf, Host!OrderOf

LEMMA SameEvict ==
    ASSUME NEW held, NEW needed, NEW protected, NEW t, NEW probe
    PROVE  TierP!evict(held, needed, protected, t, probe)
              = Host!evict(held, needed, protected, t, probe)
<1>1. \A order : TierP!Take(order, needed) = Host!Take(order, needed)
  <2>1. ASSUME NEW order
        PROVE  TierP!Take(order, needed) = Host!Take(order, needed)
    <3> DEFINE e1 == {n \in DOMAIN order : TierP!Occupancy(SubSeq(order, 1, n)) >= needed}
               e2 == {n \in DOMAIN order : Host!Occupancy(SubSeq(order, 1, n)) >= needed}
    <3>1. \A seq : TierP!Occupancy(seq) = Host!Occupancy(seq)
      BY SameHostLists, SameBytes DEF TierP!Occupancy
    <3>2. e1 = e2
      BY <3>1
    <3>3. \A S : TierP!Min(S) = Host!Min(S)
      BY DEF TierP!Min, Host!Min
    <3>4. /\ TierP!Take(order, needed)
                = IF e1 = {} THEN order ELSE SubSeq(order, 1, TierP!Min(e1))
          /\ Host!Take(order, needed)
                = IF e2 = {} THEN order ELSE SubSeq(order, 1, Host!Min(e2))
      BY DEF TierP!Take, Host!Take
    <3> HIDE DEF e1, e2
    <3> QED
      BY <3>2, <3>3, <3>4
  <2> QED
    BY <2>1
<1>2. TierP!Expire(held, t) = Host!Expire(held, t)
  BY SameHostLists, SameLists DEF TierP!Expire, Host!Expire, TierP!Expired, Host!Expired,
     TierP!Never, Host!Never
<1> QED
  BY <1>1, <1>2, SameOrder, SameHostLists, SameLists DEF TierP!evict, Host!evict

(***************************************************************************)
(* The invariant of the tiers                                              *)
(***************************************************************************)
\* Records of blocks the index knows, none charged more than it takes: with B for the
\* blocks, and with those of the state.
StorableItem(B) == {b \in [key : DOMAIN B, nbytes : Nat] : b.nbytes <= B[b.key].tokens}
PoolItem == {b \in [key : DOMAIN blocks, nbytes : Nat] : b.nbytes <= BytesOf(b.key)}

LastUse == [k \in DOMAIN blocks |-> blocks[k].last_use]

\* The pool is a list of such records without duplicates, in the order in which the
\* index saw them used.
PoolInv ==
    /\ pool \in Seq(PoolItem) /\ Distinct(pool) /\ used = Bytes(pool)
    /\ Rising(pool, LastUse)

CountsInv ==
    /\ thrash \in Nat /\ demotions \in Nat
    /\ IsFiniteSet(DOMAIN left_hbm_at)
    /\ ThrashAnswersDemotion

\* An entry of the host tier, with B for the blocks of the index: charged as the
\* records of the pool are, and without a lifetime unless the policy gives one.
HostEntry(e, B) ==
    /\ DOMAIN e = {"key", "nbytes", "last_touch", "uses", "expires_at"}
    /\ e.key \in DOMAIN B /\ e.nbytes \in Nat /\ e.nbytes <= B[e.key].tokens
    /\ e.last_touch \in Nat /\ e.uses \in Nat
    /\ policy \notin {"fixed_ttl", "continuum_ttl"} => e.expires_at = Host!Never

KnownEntries(held, B) ==
    /\ held \in Seq(Range(held)) /\ Distinct(held)
    /\ \A e \in Range(held) : HostEntry(e, B)

\* The policies whose entries never lapse.
Lifeless == {"lru", "lfu", "adaptive_value", "oracle"}

\* The oracle knows a next use of everything it holds, that of a turn of its plan or
\* none.
PlanInv ==
    /\ \A i \in DOMAIN plan : plan[i].t \in Nat
    /\ policy = "oracle" => \A k \in HostKeys : next_use[k] \in Nat

TiersInv ==
    /\ ReplayInv
    /\ IndexP!HistoryInv
    /\ IsFiniteSet(DOMAIN blocks)
    /\ PoolInv
    /\ HbmBounded
    /\ CountsInv
    /\ KnownEntries(entries, blocks)
    /\ KeepsEverything
    /\ PlanInv
    /\ NewBlocksLand

(***************************************************************************)
(* What a turn does to the index, as far as the tiers see it               *)
(***************************************************************************)
\* The path of a turn is a list of known keys without duplicates; its blocks are
\* the newest, the others keep their last use, and no block shrinks.
Touched(keys, t) ==
    /\ t \in Nat /\ now' = t
    /\ keys \in Seq(DOMAIN blocks')
    /\ \A i, j \in DOMAIN keys : keys[i] = keys[j] => i = j
    /\ DOMAIN blocks' = DOMAIN blocks \cup Range(keys)
    /\ \A k \in DOMAIN blocks' : blocks'[k].tokens \in Nat
    /\ \A k \in DOMAIN blocks :
          /\ blocks[k].tokens \in Nat /\ blocks'[k].tokens >= blocks[k].tokens
          /\ blocks[k].last_use \in Nat /\ blocks[k].last_use <= t
    /\ \A k \in Range(keys) : blocks'[k].last_use = t
    /\ \A k \in DOMAIN blocks \ Range(keys) : blocks'[k].last_use = blocks[k].last_use

Tokens == [k \in DOMAIN blocks |-> blocks[k].tokens]

LEMMA RequestTouches ==
    ASSUME IndexP!TypeOK, IndexP!HistoryInv,
           NEW s \in Session, NEW role \in Role, NEW prompt \in Prompts,
           NEW sh \in SharedSizes, NEW t \in now..LastTime, NEW ab \in BOOLEAN,
           IndexP!touch_path(s, role, prompt, sh, t, ab)
    PROVE  Touched(session_path'[s], t) /\ IndexP!HistoryInv'
<1> DEFINE keys == session_path'[s]
           parts == IndexP!chain(s, role, prompt, sh)
           K == IndexP!Elems(IndexP!KeysOf(parts))
<1>1. IndexP!HistoryInv'
  BY IndexAssumed, IndexP!TouchHistory
<1>2. now \in Nat /\ t \in Nat /\ now <= t /\ BlockTokens \in Nat
  BY ReplayAssumption DEF IndexP!TypeOK
<1>3. IndexP!Chained(parts, s, role)
  BY IndexAssumed, IndexP!ChainChained
<1>4. keys = IndexP!KeysOf(parts) /\ now' = t
  BY DEF IndexP!touch_path, IndexP!TypeOK
<1>5. IndexP!TouchedBlocks(s, role, parts, t)
  BY <1>2, IndexAssumed, IndexP!TouchEffect
<1>6. K = Range(keys)
  BY <1>4 DEF IndexP!Elems, Range
<1>7. /\ DOMAIN blocks' = DOMAIN blocks \cup K
      /\ \A k \in DOMAIN blocks' : blocks'[k] \in IndexP!BlockInfo
      /\ \A k \in DOMAIN blocks : blocks'[k].tokens >= blocks[k].tokens
  BY <1>2, <1>3, <1>5, IndexAssumed, IndexP!TouchedFields
<1>8. /\ \A k \in K : blocks'[k].last_use = t
      /\ \A k \in DOMAIN blocks \ K : blocks'[k].last_use = blocks[k].last_use
  BY <1>2, <1>3, <1>5, IndexAssumed, IndexP!TouchedUses
<1>9. /\ IndexP!KeysOf(parts) \in Seq(IndexP!Key)
      /\ DOMAIN IndexP!KeysOf(parts) = DOMAIN parts
      /\ \A i \in DOMAIN parts : IndexP!KeysOf(parts)[i] = parts[i].key
      /\ \A i, j \in DOMAIN parts : parts[i].key = parts[j].key => i = j
  BY <1>3, IndexAssumed, IndexP!KeysOfParts
<1>10. keys \in Seq(IndexP!Key) /\ (\A i, j \in DOMAIN keys : keys[i] = keys[j] => i = j)
  BY <1>4, <1>9
<1> HIDE DEF keys, parts, K
<1>11. keys \in Seq(DOMAIN blocks')
  BY <1>6, <1>7, <1>10 DEF Range
<1>12. \A k \in DOMAIN blocks' : blocks'[k].tokens \in Nat
  BY <1>2, <1>7 DEF IndexP!BlockInfo
<1>13. ASSUME NEW k \in DOMAIN blocks
       PROVE  blocks[k].tokens \in Nat /\ blocks[k].last_use \in Nat /\ blocks[k].last_use <= t
  <2>1. blocks[k] \in IndexP!BlockInfo
    BY DEF IndexP!TypeOK
  <2>2. blocks[k].last_use <= now
    BY DEF IndexP!HistoryInv
  <2> QED
    BY <1>2, <2>1, <2>2 DEF IndexP!BlockInfo
<1>14. Touched(keys, t)
  BY <1>2, <1>4, <1>6, <1>7, <1>8, <1>10, <1>11, <1>12, <1>13 DEF Touched
<1> QED
  BY <1>1, <1>14 DEF keys

\* The index stays finite.
LEMMA TouchedFinite ==
    ASSUME IsFiniteSet(DOMAIN blocks), NEW keys, NEW t, Touched(keys, t)
    PROVE  IsFiniteSet(DOMAIN blocks')
<1>1. IsFiniteSet(DOMAIN keys)
  BY PositionsFinite DEF Touched
<1>2. IsFiniteSet({keys[i] : i \in DOMAIN keys})
  BY <1>1, ImageFinite
<1>3. IsFiniteSet(DOMAIN blocks \cup {keys[i] : i \in DOMAIN keys})
  BY <1>2, FS_Union
<1> QED
  BY <1>3 DEF Touched, Range

\* The keys of the path that a turn asks for.
PathOf(turn) ==
    Index!Elems(Index!KeysOf(Index!chain(turn.session, turn.role, turn.prompt, turn.shared)))

LEMMA TurnTouches ==
    ASSUME ReplayInv, IndexP!HistoryInv, Turn
    PROVE  \E turn \in TurnRecord, t \in Nat :
              /\ Touched(session_path'[turn.session], t)
              /\ Fills(session_path'[turn.session], Tokens', t)
              /\ IndexP!HistoryInv'
              /\ now <= t /\ t <= LastTime
              /\ plan # <<>> => plan[turns + 1] = [turn |-> turn, t |-> t]
              /\ Index!Elems(session_path'[turn.session]) = PathOf(turn)
<1>1. PICK turn \in Turns[policy], gap \in Gaps :
          /\ now + gap <= LastTime /\ One(turn, now + gap)
          /\ plan # <<>> => plan[turns + 1] = [turn |-> turn, t |-> now + gap]
  BY DEF Turn
<1>2. turn \in TurnRecord /\ gap \in Nat
  BY ReplayAssumption DEF ReplayInv
<1>3. IndexP!TypeOK /\ now \in Nat
  BY DEF ReplayInv, IndexP!IndexInv, IndexP!TypeOK
<1>4. PICK t \in now..LastTime :
          One(turn, t) /\ (plan # <<>> => plan[turns + 1] = [turn |-> turn, t |-> t])
  BY <1>1, <1>2, <1>3, ReplayAssumption
<1>5. /\ turn.session \in Session /\ turn.role \in Role /\ turn.prompt \in Prompts
      /\ turn.shared \in SharedSizes /\ turn.aborted \in BOOLEAN
  BY <1>2 DEF TurnRecord
<1>6. t \in Nat
  BY <1>3
<1>7. IndexP!touch_path(turn.session, turn.role, turn.prompt, turn.shared, t, turn.aborted)
  <2>1. Index!touch_path(turn.session, turn.role, turn.prompt, turn.shared, t, turn.aborted)
    BY <1>4 DEF One
  <2> QED
    BY <1>5, <1>6, <2>1, SameRequest
<1>8. Touched(session_path'[turn.session], t) /\ IndexP!HistoryInv'
  BY <1>3, <1>5, <1>7, RequestTouches
<1>9. Fills(session_path'[turn.session], Tokens', t)
  BY <1>4 DEF One, Tokens
<1>10. Index!Elems(session_path'[turn.session]) = PathOf(turn)
  BY <1>3, <1>4, <1>5 DEF One, Index!touch_path, IndexP!TypeOK, PathOf
<1>11. now <= t /\ t <= LastTime
  BY <1>3, ReplayAssumption
<1> QED
  BY <1>2, <1>4, <1>6, <1>8, <1>9, <1>10, <1>11

(***************************************************************************)
(* The HBM part of a turn                                                  *)
(***************************************************************************)
\* The path as items for the pool.
LEMMA TouchedItems ==
    ASSUME NEW keys, NEW t, Touched(keys, t)
    PROVE  /\ Items(keys, Tokens') \in Seq(PoolItem') /\ Distinct(Items(keys, Tokens'))
           /\ Keys(Items(keys, Tokens')) = Range(keys)
           /\ PoolItem \subseteq PoolItem' /\ PoolItem' = StorableItem(blocks')
<1> DEFINE items == Items(keys, Tokens')
<1>1. /\ keys \in Seq(DOMAIN blocks') /\ DOMAIN items = DOMAIN keys
      /\ \A i \in DOMAIN keys : items[i] = [key |-> keys[i], nbytes |-> Tokens'[keys[i]]]
  BY DEF Touched, Items
<1>2. \A k \in DOMAIN blocks' : Tokens'[k] = blocks'[k].tokens /\ blocks'[k].tokens \in Nat
  BY DEF Tokens, Touched
<1>3. ASSUME NEW i \in DOMAIN keys
      PROVE  items[i] \in PoolItem' /\ items[i].key = keys[i]
  <2>1. keys[i] \in DOMAIN blocks'
    BY <1>1
  <2> HIDE DEF items
  <2> QED
    BY <1>1, <1>2, <2>1 DEF PoolItem, BytesOf
<1>4. items \in Seq(PoolItem')
  <2>1. Len(keys) \in Nat /\ DOMAIN keys = 1..Len(keys)
    BY <1>1
  <2>2. items = [i \in 1..Len(keys) |-> items[i]]
    BY <2>1 DEF Items
  <2> HIDE DEF items
  <2>3. items \in [1..Len(keys) -> PoolItem']
    BY <1>3, <2>1, <2>2
  <2> QED
    BY <2>1, <2>3
<1>5. PoolItem \subseteq PoolItem'
  <2> SUFFICES ASSUME NEW b \in PoolItem PROVE b \in PoolItem'
    OBVIOUS
  <2>1. b \in [key : DOMAIN blocks, nbytes : Nat] /\ b.nbytes <= blocks[b.key].tokens
    BY DEF PoolItem, BytesOf
  <2>2. /\ b.key \in DOMAIN blocks' /\ blocks'[b.key].tokens \in Nat
        /\ blocks'[b.key].tokens >= blocks[b.key].tokens /\ blocks[b.key].tokens \in Nat
    BY <2>1 DEF Touched
  <2>3. b \in [key : DOMAIN blocks', nbytes : Nat] /\ b.nbytes <= blocks'[b.key].tokens
    BY <2>1, <2>2
  <2> QED
    BY <2>3 DEF PoolItem, BytesOf
<1> HIDE DEF items
<1>6. Distinct(items) /\ Keys(items) = Range(keys)
  BY <1>1, <1>3 DEF Distinct, Keys, Range, Touched
<1>7. PoolItem' = StorableItem(blocks')
  BY DEF PoolItem, StorableItem, BytesOf
<1> QED
  BY <1>4, <1>5, <1>6, <1>7 DEF items

\* What the path displaces.
DroppedKeys(keys, bytes) == Hbm!Keys(Hbm!Dropped(Items(keys, bytes), Index!Elems(keys)))

\* The last block dropped, in the order of the pool.
LEMMA LastDropped ==
    ASSUME NEW S, pool \in Seq(S),
           \/ Keys(pool) \subseteq Keys(pool')
           \/ \E i \in DOMAIN pool :
                 /\ pool[i].key \notin Keys(pool')
                 /\ \A j \in DOMAIN pool : pool[j].key \notin Keys(pool') => j <= i
                 /\ used' + pool[i].nbytes > HbmCapacity
    PROVE  StopsInTime
<1> DEFINE dropped == {i \in DOMAIN pool : pool[i].key \notin HbmKeys'}
<1>1. HbmKeys' = Keys(pool') /\ DOMAIN pool \subseteq Nat
  BY SameLists DEF HbmKeys
<1>2. CASE Keys(pool) \subseteq Keys(pool')
  <2>1. dropped = {}
    BY <1>1, <1>2 DEF Keys
  <2> QED
    BY <2>1 DEF StopsInTime
<1>3. CASE ~(Keys(pool) \subseteq Keys(pool'))
  <2>1. PICK i \in DOMAIN pool :
            /\ pool[i].key \notin Keys(pool')
            /\ \A j \in DOMAIN pool : pool[j].key \notin Keys(pool') => j <= i
            /\ used' + pool[i].nbytes > HbmCapacity
    BY <1>3
  <2>2. i \in dropped /\ (\A j \in dropped : j <= i) /\ dropped \subseteq Nat
    BY <1>1, <2>1
  <2> HIDE DEF dropped
  <2>3. Max(dropped) = i
    <3>1. \A m \in dropped : (\A j \in dropped : j <= m) => m = i
      BY <2>2
    <3> QED
      BY <2>2, <3>1 DEF Max
  <2> QED
    BY <2>1, <2>3 DEF StopsInTime, dropped
<1> QED
  BY <1>2, <1>3

LEMMA PoolTurn ==
    ASSUME PoolInv, NEW keys, NEW t, Touched(keys, t), HbmFill(keys, Tokens', t)
    PROVE  /\ PoolInv'
           /\ Keys(pool') = (Keys(pool) \cup Range(keys)) \ DroppedKeys(keys, Tokens')
           /\ DroppedKeys(keys, Tokens') \subseteq Keys(pool) \ Range(keys)
           /\ used' <= HbmCapacity \/ Keys(pool') \subseteq Range(keys)
           /\ StopsInTime
           /\ \A d \in DroppedKeys(keys, Tokens'), k \in Keys(pool') :
                 blocks[d].last_use <= blocks'[k].last_use
           /\ IsFiniteSet(DroppedKeys(keys, Tokens'))
<1> DEFINE items == Items(keys, Tokens')
           S == PoolItem'
           dropped == DroppedKeys(keys, Tokens')
<1>1. /\ items \in Seq(S) /\ Distinct(items) /\ Keys(items) = Range(keys)
      /\ PoolItem \subseteq S
  BY TouchedItems
<1>2. \A b \in S : b.nbytes \in Nat /\ b.key \in DOMAIN blocks'
  BY DEF PoolItem
<1>3. pool \in Seq(S) /\ Distinct(pool) /\ used = Bytes(pool)
  BY <1>1 DEF PoolInv
<1>4. Index!Elems(keys) = Keys(items)
  BY <1>1 DEF Index!Elems, Range
<1>5. /\ dropped = TierP!Keys(TierP!Dropped(items, Keys(items)))
      /\ TierP!store(items, Keys(items))
  BY <1>4, SameStore, SameLists DEF DroppedKeys, HbmFill
<1> HIDE DEF items, S, dropped
<1>6. TierP!Distinct(pool) /\ TierP!Distinct(items) /\ used = TierP!Bytes(pool)
  BY <1>1, <1>3, SameLists, SameBytes
<1>7. /\ pool' \in Seq(S) /\ TierP!Distinct(pool') /\ used' = TierP!Bytes(pool')
      /\ TierP!Keys(pool') = (TierP!Keys(pool) \cup TierP!Keys(items)) \ dropped
      /\ dropped \subseteq (TierP!Keys(pool) \cup TierP!Keys(items)) \ Keys(items)
      /\ used' <= HbmCapacity \/ TierP!Keys(pool') \subseteq Keys(items)
  BY <1>1, <1>2, <1>3, <1>5, <1>6, TiersAssumed, TierP!StoreFacts
<1>8. /\ pool' \in Seq(S) /\ Distinct(pool') /\ used' = Bytes(pool')
      /\ Keys(pool') = (Keys(pool) \cup Range(keys)) \ dropped
      /\ dropped \subseteq Keys(pool) \ Range(keys)
      /\ used' <= HbmCapacity \/ Keys(pool') \subseteq Range(keys)
  BY <1>1, <1>7, SameLists, SameBytes
<1>9. StopsInTime
  <2>1. HbmCapacity \in Nat
    BY ReplayAssumption
  <2>2. TierP!Keys(items) \subseteq Keys(items)
    BY SameLists
  <2>3. \/ TierP!Keys(pool) \subseteq TierP!Keys(pool')
        \/ \E i \in DOMAIN pool :
              /\ pool[i].key \notin TierP!Keys(pool')
              /\ \A j \in DOMAIN pool : pool[j].key \notin TierP!Keys(pool') => j <= i
              /\ used' + pool[i].nbytes > HbmCapacity
    BY <1>1, <1>2, <1>3, <1>5, <1>6, <2>1, <2>2, TiersAssumed, TierP!StoreStops
  <2>4. \/ Keys(pool) \subseteq Keys(pool')
        \/ \E i \in DOMAIN pool :
              /\ pool[i].key \notin Keys(pool')
              /\ \A j \in DOMAIN pool : pool[j].key \notin Keys(pool') => j <= i
              /\ used' + pool[i].nbytes > HbmCapacity
    BY <2>3, SameLists
  <2> QED
    BY <1>3, <2>4, LastDropped
<1> DEFINE f == LastUse'
<1>10. \A k \in DOMAIN blocks' : f[k] = blocks'[k].last_use
  BY DEF LastUse
<1>11. \A k \in Keys(pool) : k \in DOMAIN blocks
  BY DEF PoolInv, PoolItem, Keys
<1>12. \A k \in Keys(pool) : k \in DOMAIN blocks' /\ (k \notin Range(keys) =>
             (f[k] = LastUse[k] /\ f[k] = blocks[k].last_use))
  BY <1>11 DEF Touched, LastUse
<1>13. \A k \in Range(keys) : f[k] = t
  BY <1>10 DEF Touched
<1>14. \A k \in Keys(pool) \cup Range(keys) : f[k] <= t
  BY <1>11, <1>12, <1>13 DEF Touched
<1> HIDE DEF f
<1>15. TierP!Rising(pool', f) /\ \A d \in dropped, k \in TierP!Keys(pool') : f[d] <= f[k]
  <2>1. \A i, j \in DOMAIN pool :
           (i < j /\ pool[i].key \notin TierP!Keys(items) /\ pool[j].key \notin TierP!Keys(items))
               => f[pool[i].key] <= f[pool[j].key]
    <3> SUFFICES ASSUME NEW i \in DOMAIN pool, NEW j \in DOMAIN pool, i < j,
                        pool[i].key \notin Keys(items), pool[j].key \notin Keys(items)
                 PROVE  f[pool[i].key] <= f[pool[j].key]
      BY SameLists
    <3>1. LastUse[pool[i].key] <= LastUse[pool[j].key]
      BY DEF PoolInv, Rising
    <3>2. pool[i].key \in Keys(pool) /\ pool[j].key \in Keys(pool)
      BY DEF Keys
    <3> QED
      BY <1>1, <1>12, <3>1, <3>2
  <2>2. \A j \in TierP!Keys(pool) \cup TierP!Keys(items), k \in TierP!Keys(items) : f[j] <= f[k]
    BY <1>1, <1>13, <1>14, SameLists
  <2>3. /\ TierP!store(items, TierP!Keys(items))
        /\ dropped = TierP!Keys(TierP!Dropped(items, TierP!Keys(items)))
    BY <1>5, SameLists
  <2> QED
    BY <1>1, <1>3, <1>6, <2>1, <2>2, <2>3, TiersAssumed, TierP!StoreOrder
<1>16. Rising(pool', f) /\ \A d \in dropped, k \in Keys(pool') : f[d] <= f[k]
  BY <1>15, SameLists
<1>17. ASSUME NEW d \in dropped, NEW k \in Keys(pool')
       PROVE  blocks[d].last_use <= blocks'[k].last_use
  <2>1. k \in Keys(pool) \cup Range(keys)
    BY <1>8
  <2>2. k \in DOMAIN blocks'
    BY <1>12, <2>1 DEF Touched
  <2> QED
    BY <1>8, <1>10, <1>12, <1>16, <2>2
<1>18. PoolInv'
  BY <1>8, <1>16 DEF PoolInv, S, f
<1>19. IsFiniteSet(dropped)
  <2>1. IsFiniteSet(Keys(pool))
    BY <1>3, DistinctCount
  <2> QED
    BY <1>8, <2>1, FS_Subset
<1> QED
  BY <1>8, <1>9, <1>17, <1>18, <1>19 DEF dropped

(***************************************************************************)
(* The host part of a turn                                                 *)
(***************************************************************************)
\* What an entry becomes when its key is used.
Renewed(e, t, lapse) ==
    [e EXCEPT !.last_touch = t, !.uses = @ + 1, !.expires_at = lapse]

LEMMA RenewedEntry ==
    ASSUME NEW B, NEW e, HostEntry(e, B), NEW t \in Nat, NEW lapse,
           policy \notin {"fixed_ttl", "continuum_ttl"} => lapse = Host!Never
    PROVE  HostEntry(Renewed(e, t, lapse), B) /\ Renewed(e, t, lapse).key = e.key
<1> DEFINE r == Renewed(e, t, lapse)
<1>1. /\ DOMAIN r = DOMAIN e /\ r.key = e.key /\ r.nbytes = e.nbytes
      /\ r.last_touch = t /\ r.uses = e.uses + 1 /\ r.expires_at = lapse
  BY DEF HostEntry, Renewed
<1> HIDE DEF r
<1> QED
  BY <1>1 DEF HostEntry, r

LEMMA NoLifetime ==
    ASSUME policy \notin {"fixed_ttl", "continuum_ttl"},
           NEW key, NEW nbytes, NEW t, NEW probe
    PROVE  Host!expiry(key, nbytes, t, probe) = Host!Never
BY DEF Host!expiry

\* A list in which some entries have been renewed.
LEMMA RenewedList ==
    ASSUME NEW B, NEW held, KnownEntries(held, B), NEW t \in Nat, NEW new,
           DOMAIN new = DOMAIN held, new = [i \in DOMAIN new |-> new[i]],
           \A i \in DOMAIN held :
               \/ new[i] = held[i]
               \/ \E lapse :
                    /\ policy \notin {"fixed_ttl", "continuum_ttl"} => lapse = Host!Never
                    /\ new[i] = Renewed(held[i], t, lapse)
    PROVE  KnownEntries(new, B) /\ Keys(new) = Keys(held)
<1>1. ASSUME NEW i \in DOMAIN held
      PROVE  HostEntry(new[i], B) /\ new[i].key = held[i].key
  <2>1. HostEntry(held[i], B)
    BY DEF KnownEntries, Range
  <2> QED
    BY <2>1, RenewedEntry
<1>2. Keys(new) = Keys(held) /\ Distinct(new)
  BY <1>1 DEF Keys, Distinct, KnownEntries
<1>3. DOMAIN held = 1..Len(held) /\ Len(held) \in Nat
  BY DEF KnownEntries
<1>4. new \in Seq(Range(new))
  <2>1. new \in [1..Len(held) -> Range(new)]
    BY <1>3 DEF Range
  <2> QED
    BY <1>3, <2>1
<1>5. \A e \in Range(new) : HostEntry(e, B)
  BY <1>1 DEF Range
<1> QED
  BY <1>2, <1>4, <1>5 DEF KnownEntries

\* What touching the blocks of K at t makes of the list of entries.
TouchedList(new, held, K, t, B) ==
    /\ KnownEntries(new, B) /\ Keys(new) = Keys(held)
    /\ \A e \in Range(new) : IF e.key \in K THEN e.last_touch = t ELSE e \in Range(held)

LEMMA TouchFacts ==
    ASSUME NEW B, NEW held, KnownEntries(held, B), NEW K, NEW t \in Nat, NEW probe
    PROVE  TouchedList(Host!touch(held, K, t, probe), held, K, t, B)
<1> DEFINE new == Host!touch(held, K, t, probe)
<1>1. DOMAIN new = DOMAIN held /\ new = [i \in DOMAIN new |-> new[i]]
  BY DEF Host!touch
<1>2. ASSUME NEW i \in DOMAIN held
      PROVE  \/ new[i] = held[i]
             \/ \E lapse :
                  /\ policy \notin {"fixed_ttl", "continuum_ttl"} => lapse = Host!Never
                  /\ new[i] = Renewed(held[i], t, lapse)
  <2>1. new[i] = IF held[i].key \in K
                 THEN Renewed(held[i], t, Host!expiry(held[i].key, held[i].nbytes, t, probe))
                 ELSE held[i]
    BY DEF Host!touch, Renewed
  <2> HIDE DEF new
  <2> QED
    BY <2>1, NoLifetime
<1>3. ASSUME NEW i \in DOMAIN held
      PROVE  IF new[i].key \in K THEN new[i].last_touch = t ELSE new[i] = held[i]
  <2> DEFINE lapse == Host!expiry(held[i].key, held[i].nbytes, t, probe)
  <2>1. new[i] = IF held[i].key \in K THEN Renewed(held[i], t, lapse) ELSE held[i]
    BY DEF Host!touch, Renewed
  <2> HIDE DEF lapse, new
  <2>2. HostEntry(held[i], B)
    BY DEF KnownEntries, Range
  <2>3. Renewed(held[i], t, lapse).key = held[i].key /\ Renewed(held[i], t, lapse).last_touch = t
    BY <2>2 DEF HostEntry, Renewed
  <2> QED
    BY <2>1, <2>3
<1> HIDE DEF new
<1>4. \A e \in Range(new) : IF e.key \in K THEN e.last_touch = t ELSE e \in Range(held)
  BY <1>1, <1>3 DEF Range
<1> QED
  BY <1>1, <1>2, <1>4, RenewedList DEF new, TouchedList

LEMMA TouchKeeps ==
    ASSUME NEW B, NEW held, KnownEntries(held, B), NEW K, NEW t \in Nat, NEW probe
    PROVE  /\ KnownEntries(Host!touch(held, K, t, probe), B)
           /\ Keys(Host!touch(held, K, t, probe)) = Keys(held)
<1> DEFINE new == Host!touch(held, K, t, probe)
<1>1. TouchedList(new, held, K, t, B)
  BY TouchFacts
<1> HIDE DEF new
<1>2. KnownEntries(new, B) /\ Keys(new) = Keys(held)
  BY <1>1 DEF TouchedList
<1> QED
  BY <1>2 DEF new

Inserted(new, held, item, B) ==
    /\ KnownEntries(new, B) /\ Keys(new) = Keys(held) \cup {item.key}
    /\ \A e \in Range(new) : e.key = item.key \/ e \in Range(held)

LEMMA InsertFacts ==
    ASSUME NEW B, NEW held, KnownEntries(held, B), NEW item \in StorableItem(B),
           NEW t \in Nat, NEW probe
    PROVE  Inserted(Host!insert(held, item.key, item.nbytes, t, probe), held, item, B)
<1> DEFINE new == Host!insert(held, item.key, item.nbytes, t, probe)
           lapse == Host!expiry(item.key, item.nbytes, t, probe)
<1>1. policy \notin {"fixed_ttl", "continuum_ttl"} => lapse = Host!Never
  BY NoLifetime
<1>2. CASE item.key \in Keys(held)
  <2>1. new = [i \in DOMAIN held |-> IF held[i].key = item.key
                                     THEN Renewed(held[i], t, lapse) ELSE held[i]]
    BY <1>2, SameLists DEF Host!insert, Renewed
  <2> HIDE DEF lapse, new
  <2>2. KnownEntries(new, B) /\ Keys(new) = Keys(held)
    BY <1>1, <2>1, RenewedList
  <2>3. ASSUME NEW i \in DOMAIN held PROVE new[i].key = item.key \/ new[i] = held[i]
    <3>1. HostEntry(held[i], B)
      BY DEF KnownEntries, Range
    <3>2. Renewed(held[i], t, lapse).key = held[i].key
      BY <3>1 DEF HostEntry, Renewed
    <3> QED
      BY <2>1, <3>2
  <2>4. \A e \in Range(new) : e.key = item.key \/ e \in Range(held)
    BY <2>1, <2>3 DEF Range
  <2> QED
    BY <1>2, <2>2, <2>4 DEF new, Inserted
<1>3. CASE item.key \notin Keys(held)
  <2> DEFINE e == [key |-> item.key, nbytes |-> item.nbytes, last_touch |-> t,
                   uses |-> 1, expires_at |-> lapse]
             S == Range(held) \cup {e}
  <2>1. new = held \o <<e>>
    <3>1. new = Append(held, e)
      BY <1>3, SameLists DEF Host!insert
    <3>2. held \in Seq(S) /\ e \in S
      BY DEF KnownEntries
    <3> HIDE DEF e, S, new
    <3> QED
      BY <3>1, <3>2
  <2>2. HostEntry(e, B) /\ e.key = item.key
    BY <1>1 DEF HostEntry, StorableItem
  <2> HIDE DEF e, new
  <2>3. held \in Seq(S) /\ <<e>> \in Seq(S) /\ Distinct(held) /\ Distinct(<<e>>)
    BY DEF KnownEntries, Distinct
  <2>4. Keys(<<e>>) = {item.key} /\ Range(<<e>>) = {e}
    BY <2>2 DEF Keys, Range
  <2> HIDE DEF S
  <2>5. /\ Range(new) = Range(held) \cup {e} /\ Keys(new) = Keys(held) \cup {item.key}
        /\ Distinct(new) /\ new \in Seq(S)
    <3> DEFINE one == <<e>>
    <3>1. one \in Seq(S) /\ Distinct(one) /\ Keys(held) \cap Keys(one) = {}
      BY <1>3, <2>3, <2>4
    <3> HIDE DEF one
    <3>2. /\ held \o one \in Seq(S)
          /\ Range(held \o one) = Range(held) \cup Range(one)
          /\ Keys(held \o one) = Keys(held) \cup Keys(one)
          /\ Distinct(held \o one)
      BY <2>3, <3>1, JoinFacts
    <3> QED
      BY <2>1, <2>4, <3>2 DEF one
  <2>6. KnownEntries(new, B)
    BY <2>2, <2>5 DEF KnownEntries, S
  <2>7. \A x \in Range(new) : x.key = item.key \/ x \in Range(held)
    BY <2>2, <2>5
  <2> QED
    BY <2>5, <2>6, <2>7 DEF new, Inserted
<1> QED
  BY <1>2, <1>3

\* The entries after each insert of a batch.
Inserts(u, held, items, t, probe, N) ==
    u = [n \in 0..N |->
            IF n = 0 THEN held
            ELSE Host!insert(u[n - 1], items[n].key, items[n].nbytes, t, probe)]

LEMMA InsertsExist ==
    ASSUME NEW held, NEW items, NEW t, NEW probe, NEW N \in Nat
    PROVE  \E u : Inserts(u, held, items, t, probe, N)
<1> DEFINE After(w, m) == Host!insert(w[m - 1], items[m].key, items[m].nbytes, t, probe)
           Bad == {n \in Nat : ~ \E u : Inserts(u, held, items, t, probe, n)}
<1> SUFFICES ASSUME Bad # {} PROVE FALSE
  OBVIOUS
<1>1. Bad \subseteq Nat
  OBVIOUS
<1>2. PICK n \in Bad : \A m \in Bad : n <= m
  <2> HIDE DEF Bad
  <2> QED
    BY <1>1, NatMin
<1>3. CASE n = 0
  <2> DEFINE u == [m \in 0..0 |-> held]
  <2>1. Inserts(u, held, items, t, probe, 0)
    BY DEF Inserts
  <2> QED
    BY <1>3, <2>1
<1>4. CASE n # 0
  <2>1. n \in Nat /\ n - 1 \in Nat /\ n - 1 \notin Bad
    BY <1>2, <1>4
  <2>2. PICK u : Inserts(u, held, items, t, probe, n - 1)
    BY <2>1
  <2> DEFINE w == [m \in 0..n |-> IF m < n THEN u[m] ELSE After(u, n)]
             v == [m \in 0..n |-> IF m = 0 THEN held ELSE After(w, m)]
  <2>3. \A m \in 0..(n - 1) : u[m] = IF m = 0 THEN held ELSE After(u, m)
    BY <2>2 DEF Inserts
  <2>4. ASSUME NEW m \in 0..n PROVE w[m] = v[m]
    <3>1. m # 0 => w[m - 1] = u[m - 1]
      BY <2>1
    <3>2. m # 0 => After(w, m) = After(u, m)
      BY <3>1
    <3>3. v[m] = IF m = 0 THEN held ELSE After(u, m)
      BY <3>2
    <3> HIDE DEF After, v
    <3>4. CASE m = n
      BY <3>3, <3>4, <2>1, <1>4
    <3>5. CASE m # n
      <4>1. m \in 0..(n - 1) /\ m < n
        BY <3>5, <2>1
      <4> QED
        BY <4>1, <3>3, <2>3
    <3> QED
      BY <3>4, <3>5
  <2>5. w = v
    BY <2>4
  <2>6. Inserts(w, held, items, t, probe, n)
    BY <2>5 DEF Inserts
  <2> QED
    BY <2>6
<1> QED
  BY <1>3, <1>4

\* Inserting a list adds its keys.
LEMMA InsertedFacts ==
    ASSUME NEW B, NEW held, KnownEntries(held, B), NEW items \in Seq(StorableItem(B)),
           NEW t \in Nat, NEW probe
    PROVE  /\ KnownEntries(InsertedAll(held, items, t, probe), B)
           /\ Keys(InsertedAll(held, items, t, probe)) = Keys(held) \cup Keys(items)
           /\ \A e \in Range(InsertedAll(held, items, t, probe)) :
                 e.key \in Keys(items) \/ e \in Range(held)
<1> DEFINE L == Len(items)
           u == CHOOSE w : Inserts(w, held, items, t, probe, L)
           Good(n) == /\ KnownEntries(u[n], B)
                      /\ Keys(u[n]) = Keys(held) \cup {items[i].key : i \in 1..n}
                      /\ \A e \in Range(u[n]) :
                            e.key \in {items[i].key : i \in 1..n} \/ e \in Range(held)
           Bad == {n \in 0..L : ~Good(n)}
<1>1. L \in Nat /\ DOMAIN items = 1..L
  OBVIOUS
<1>2. Inserts(u, held, items, t, probe, L)
  BY <1>1, InsertsExist
<1>3. InsertedAll(held, items, t, probe) = u[L]
  BY DEF InsertedAll, Inserts
<1> HIDE DEF u
<1>4. \A n \in 0..L : u[n] = IF n = 0 THEN held
                              ELSE Host!insert(u[n - 1], items[n].key, items[n].nbytes, t, probe)
  BY <1>2 DEF Inserts
<1>5. ASSUME Bad # {} PROVE FALSE
  <2>1. Bad \subseteq Nat
    BY <1>1
  <2>2. PICK n \in Bad : \A m \in Bad : n <= m
    <3> HIDE DEF Bad
    <3> QED
      BY <1>5, <2>1, NatMin
  <2>3. n # 0
    <3>1. {items[i].key : i \in 1..0} = {}
      OBVIOUS
    <3>2. u[0] = held
      BY <1>1, <1>4
    <3>3. Good(0)
      <4>1. KnownEntries(u[0], B) /\ \A e \in Range(u[0]) : e \in Range(held)
        BY <3>2
      <4>2. Keys(u[0]) = Keys(held) \cup {items[i].key : i \in 1..0}
        BY <3>1, <3>2
      <4> QED
        BY <4>1, <4>2
    <3> QED
      BY <2>2, <3>3
  <2>4. n \in 1..L /\ n - 1 \in 0..L /\ n - 1 \notin Bad /\ items[n] \in StorableItem(B)
    <3>1. n \in 1..L /\ n - 1 \in 0..L
      <4>1. n \in 0..L
        BY <2>2
      <4> QED
        BY <1>1, <2>3, <4>1
    <3>2. n - 1 \notin Bad
      <4> HIDE DEF Bad
      <4> QED
        BY <1>1, <2>1, <2>2, <3>1
    <3> QED
      BY <1>1, <3>1, <3>2
  <2>5. Good(n - 1)
    BY <2>4
  <2>6. u[n] = Host!insert(u[n - 1], items[n].key, items[n].nbytes, t, probe)
    BY <1>1, <1>4, <2>4
  <2>7. /\ KnownEntries(u[n], B) /\ Keys(u[n]) = Keys(u[n - 1]) \cup {items[n].key}
        /\ \A e \in Range(u[n]) : e.key = items[n].key \/ e \in Range(u[n - 1])
    <3>1. KnownEntries(u[n - 1], B)
      BY <2>5
    <3>2. Inserted(u[n], u[n - 1], items[n], B)
      BY <2>4, <2>6, <3>1, InsertFacts
    <3> QED
      BY <3>2 DEF Inserted
  <2>8. {items[i].key : i \in 1..n} = {items[i].key : i \in 1..(n - 1)} \cup {items[n].key}
    BY <1>1, <2>4
  <2>9. Good(n)
    <3>1. Keys(u[n]) = Keys(held) \cup {items[i].key : i \in 1..n}
      BY <2>5, <2>7, <2>8
    <3>2. ASSUME NEW e \in Range(u[n])
          PROVE  e.key \in {items[i].key : i \in 1..n} \/ e \in Range(held)
      <4>1. CASE e.key = items[n].key
        BY <4>1, <2>8
      <4>2. CASE e \in Range(u[n - 1])
        <5>1. e.key \in {items[i].key : i \in 1..(n - 1)} \/ e \in Range(held)
          BY <2>5, <4>2
        <5> QED
          BY <5>1, <2>8
      <4> QED
        BY <4>1, <4>2, <2>7
    <3> QED
      BY <2>7, <3>1, <3>2
  <2> QED
    BY <2>2, <2>9
<1>6. Good(L)
  <2>1. L \in 0..L
    BY <1>1
  <2>2. L \notin Bad
    BY <1>5
  <2> HIDE DEF Good
  <2> QED
    BY <2>1, <2>2
<1> QED
  BY <1>1, <1>3, <1>6 DEF Keys

\* A sublist of entries is one of entries.
LEMMA EntriesSublist ==
    ASSUME NEW B, NEW held, KnownEntries(held, B), NEW I
    PROVE  /\ KnownEntries(Sublist(held, I), B)
           /\ Keys(Sublist(held, I)) \subseteq Keys(held)
           /\ Range(Sublist(held, I)) \subseteq Range(held)
           /\ DOMAIN held \subseteq I => Keys(Sublist(held, I)) = Keys(held)
<1> DEFINE sub == Sublist(held, I)
<1>1. held \in Seq(Range(held)) /\ Distinct(held)
  BY DEF KnownEntries
<1>2. /\ sub \in Seq(Range(held)) /\ Range(sub) = {held[i] : i \in I \cap DOMAIN held}
      /\ Distinct(sub)
  BY <1>1, SublistRange, SublistDistinct
<1> HIDE DEF sub
<1>3. Range(sub) \subseteq Range(held) /\ (DOMAIN held \subseteq I => Range(sub) = Range(held))
  BY <1>2 DEF Range
<1>4. sub \in Seq(Range(sub))
  <2>1. Len(sub) \in Nat /\ sub \in [1..Len(sub) -> Range(sub)]
    BY <1>2 DEF Range
  <2> QED
    BY <2>1
<1>5. KnownEntries(sub, B)
  BY <1>2, <1>3, <1>4 DEF KnownEntries
<1>6. /\ Keys(sub) \subseteq Keys(held)
      /\ DOMAIN held \subseteq I => Keys(sub) = Keys(held)
  BY <1>3, KeysOfRange
<1> QED
  BY <1>3, <1>5, <1>6 DEF sub

\* Whatever its order, evict adds nothing.
LEMMA EvictFacts ==
    ASSUME NEW B, KnownEntries(entries, B), NEW needed, NEW protected, NEW t, NEW probe
    PROVE  LET out == Host!evict(entries, needed, protected, t, probe)
           IN  /\ KnownEntries(out.entries, B) /\ Keys(out.entries) \subseteq Keys(entries)
               /\ Range(out.entries) \subseteq Range(entries)
<1> DEFINE out == Host!evict(entries, needed, protected, t, probe)
           I == {i \in DOMAIN entries : ~Host!Expired(entries[i], t)}
           alive == Sublist(entries, I)
<1>1. out.entries = Off(alive, Host!Keys(out.victims))
  <2>1. Host!Expire(entries, t) = alive
    BY SameLists DEF Host!Expire
  <2> HIDE DEF alive
  <2> QED
    BY <2>1, SameLists DEF Host!evict
<1> HIDE DEF I, out
<1>3. /\ KnownEntries(alive, B) /\ Keys(alive) \subseteq Keys(entries)
      /\ Range(alive) \subseteq Range(entries)
  BY EntriesSublist
<1> HIDE DEF alive
<1> DEFINE K == Host!Keys(out.victims)
           J == {i \in DOMAIN alive : alive[i].key \notin K}
<1>4. /\ KnownEntries(out.entries, B) /\ Range(out.entries) \subseteq Range(alive)
      /\ Keys(out.entries) = Keys(alive) \ K
  <2>1. out.entries = Sublist(alive, J)
    BY <1>1 DEF Off
  <2>2. KnownEntries(out.entries, B) /\ Range(out.entries) \subseteq Range(alive)
    <3> HIDE DEF J, K
    <3> QED
      BY <1>3, <2>1, EntriesSublist
  <2>3. alive \in Seq(Range(alive))
    BY <1>3 DEF KnownEntries
  <2> HIDE DEF K
  <2> QED
    BY <1>1, <2>2, <2>3, OffFacts DEF K
<1> QED
  BY <1>3, <1>4 DEF out

\* A beginning of the items, all of them if they fit.
LEMMA FittingFacts ==
    ASSUME NEW S, NEW items \in Seq(S), NEW room
    PROVE  /\ Fitting(items, room) \in Seq(S)
           /\ Keys(Fitting(items, room)) \subseteq Keys(items)
           /\ Bytes(items) <= room => Fitting(items, room) = items
<1> DEFINE fits == {n \in 0..Len(items) :
                       n = 0 \/ Host!Occupancy(SubSeq(items, 1, n)) <= room}
<1>1. Len(items) \in Nat
  OBVIOUS
<1>2. fits \subseteq 0..Len(items) /\ 0 \in fits
  BY <1>1
<1>3. Fitting(items, room) = SubSeq(items, 1, Max(fits))
  BY DEF Fitting
<1>4. Bytes(items) <= room => Len(items) \in fits
  <2>1. Len(items) \in 0..Len(items) /\ SubSeq(items, 1, Len(items)) = items
    BY <1>1, PrefixFacts
  <2> QED
    BY <2>1, SameBytes
<1> HIDE DEF fits
<1>5. Max(fits) \in fits /\ \A m \in fits : Max(fits) >= m
  <2>1. \E n \in fits : \A m \in fits : n >= m
    BY <1>1, <1>2, NatMax
  <2> QED
    BY <2>1 DEF Max
<1> DEFINE n == Max(fits)
<1>6. n \in 0..Len(items) /\ (Len(items) \in fits => n = Len(items))
  <2>1. n \in 0..Len(items)
    BY <1>2, <1>5
  <2>2. Len(items) \in fits => n >= Len(items)
    BY <1>5
  <2> HIDE DEF n
  <2> QED
    BY <1>1, <2>1, <2>2
<1> HIDE DEF n
<1>7. /\ SubSeq(items, 1, n) \in Seq(S) /\ Keys(SubSeq(items, 1, n)) \subseteq Keys(items)
      /\ n = Len(items) => SubSeq(items, 1, n) = items
  BY <1>6, PrefixFacts
<1> QED
  BY <1>3, <1>4, <1>6, <1>7 DEF n

\* What one batch does, whatever the order of eviction: a batch that fits beside what is
\* held is stored whole, at nobody's expense, unless adaptive_value refuses it.
LEMMA BatchFacts ==
    ASSUME Capacity \in Nat, NEW B, KnownEntries(entries, B),
           NEW keys, NEW bytes, Items(keys, bytes) \in Seq(StorableItem(B)),
           NEW t \in Nat, NEW probe, NEW batch, batch = StoreBatch(keys, bytes, t, probe)
    PROVE  /\ KnownEntries(batch.entries, B)
           /\ (/\ policy = "adaptive_value" => 10 * Bytes(entries) < 9 * Capacity
               /\ Bytes(entries) + Bytes(Off(Items(keys, bytes), Keys(entries))) <= Capacity)
                 => Keys(batch.entries) = Keys(entries) \cup Keys(Items(keys, bytes))
           /\ \A e \in Range(batch.entries) :
                 e.key \in Keys(Items(keys, bytes)) \/ e \in Range(entries)
<1> DEFINE S == StorableItem(B)
           unheld == Off(Items(keys, bytes), Keys(entries))
           fresh == Fresh(keys, bytes, probe)
           needed == Host!Occupancy(fresh) - FreeRoom
           asked == MustEvict(fresh, needed)
           evicted == MakeRoom(fresh, needed, t, probe)
           none == asked /\ evicted.victims = <<>>
           gained == SumFunctionOnSet(bytes, Host!Keys(evicted.victims))
           stored == IF none THEN <<>> ELSE Fitting(fresh, FreeRoom + gained)
<1>1. /\ batch.entries = InsertedAll(evicted.entries, stored, t, probe)
      /\ batch.victims = Host!Keys(evicted.victims)
  BY DEF StoreBatch, StoreFresh, Store, Fill
<1>2. unheld \in Seq(S) /\ Keys(unheld) = Keys(Items(keys, bytes)) \ Keys(entries)
  BY OffFacts
<1>3. /\ fresh = unheld \/ fresh = <<>>
      /\ (policy = "adaptive_value" => 10 * Bytes(entries) < 9 * Capacity) => fresh = unheld
  <2>1. /\ Host!Off(Items(keys, bytes), HostKeys) = unheld
        /\ Host!Occupancy(entries) = Bytes(entries)
    BY SameLists, SameBytes DEF HostKeys
  <2> HIDE DEF unheld
  <2> QED
    BY <2>1 DEF Fresh, Host!admit_chain, Host!Admits
<1> HIDE DEF unheld
<1>4. fresh \in Seq(S)
  <2> HIDE DEF S, fresh
  <2>1. <<>> \in Seq(S)
    OBVIOUS
  <2> QED
    BY <1>2, <1>3, <2>1
<1> HIDE DEF fresh
<1>5. /\ asked => evicted = Host!evict(entries, needed, Host!Keys(fresh), t, probe)
      /\ ~asked => evicted.entries = entries /\ evicted.victims = <<>>
  BY DEF MakeRoom
<1>6. /\ KnownEntries(evicted.entries, B) /\ Range(evicted.entries) \subseteq Range(entries)
  <2>1. CASE asked
    <3> HIDE DEF asked, evicted, needed
    <3> QED
      BY <1>1, <1>5, <2>1, EvictFacts
  <2>2. CASE ~asked
    <3> HIDE DEF asked, evicted, needed
    <3> QED
      BY <1>1, <1>5, <2>2
  <2> QED
    BY <2>1, <2>2
<1>7. stored \in Seq(S) /\ Keys(stored) \subseteq Keys(fresh)
  <2>1. <<>> \in Seq(S) /\ Keys(<<>>) = {}
    BY DEF Keys
  <2> HIDE DEF gained, asked, evicted, S, none
  <2> QED
    BY <1>4, <2>1, FittingFacts
<1> HIDE DEF S
<1>8. /\ KnownEntries(batch.entries, B)
      /\ Keys(batch.entries) = Keys(evicted.entries) \cup Keys(stored)
      /\ \A e \in Range(batch.entries) :
            e.key \in Keys(stored) \/ e \in Range(evicted.entries)
  <2> HIDE DEF stored, evicted
  <2> QED
    BY <1>1, <1>6, <1>7, InsertedFacts DEF S
<1>9. ASSUME policy = "adaptive_value" => 10 * Bytes(entries) < 9 * Capacity,
             Bytes(entries) + Bytes(unheld) <= Capacity
      PROVE  Keys(batch.entries) = Keys(entries) \cup Keys(Items(keys, bytes))
  <2>1. fresh = unheld
    BY <1>3, <1>9
  <2>2. Bytes(entries) \in Nat /\ Bytes(unheld) \in Nat
    <3>1. \A b \in S : b.nbytes \in Nat
      BY DEF S, StorableItem
    <3>2. \A e \in Range(entries) : e.nbytes \in Nat
      BY DEF KnownEntries, HostEntry
    <3>3. entries \in Seq(Range(entries))
      BY DEF KnownEntries
    <3>4. Bytes(entries) \in Nat
      BY <3>2, <3>3, BytesNat
    <3>5. Bytes(unheld) \in Nat
      BY <1>2, <3>1, BytesNat
    <3> QED
      BY <3>4, <3>5
  <2>3. FreeRoom = Capacity - Bytes(entries) /\ Host!Occupancy(fresh) = Bytes(unheld)
    BY <1>9, <2>1, <2>2, SameBytes DEF FreeRoom, Host!Larger
  <2>4. ~(needed > 0)
    BY <1>9, <2>2, <2>3
  <2>5. ~asked
    BY <2>4 DEF MustEvict
  <2>6. evicted.entries = entries /\ evicted.victims = <<>>
    BY <1>5, <2>5
  <2>7. gained = 0
    <3>1. Host!Keys(<<>>) = {}
      BY DEF Host!Keys
    <3> QED
      BY <2>6, <3>1, SumEmpty
  <2>8. stored = fresh
    <3>1. stored = Fitting(fresh, FreeRoom + gained)
      BY <2>5
    <3>2. Bytes(fresh) <= FreeRoom + gained
      BY <1>9, <2>1, <2>2, <2>3, <2>7
    <3> HIDE DEF stored, gained
    <3> QED
      BY <1>4, <3>1, <3>2, FittingFacts
  <2> HIDE DEF stored, evicted
  <2> QED
    BY <1>2, <1>8, <2>1, <2>6, <2>8
<1> HIDE DEF stored, evicted
<1>10. Keys(fresh) \subseteq Keys(Items(keys, bytes))
  <2>1. Keys(<<>>) = {}
    BY DEF Keys
  <2> QED
    BY <1>2, <1>3, <2>1
<1> QED
  BY <1>6, <1>7, <1>8, <1>9, <1>10 DEF unheld

\* What leaves a batch is a victim, and the batch is not refused then, or has lapsed.
LEMMA BatchLapses ==
    ASSUME NEW B, KnownEntries(entries, B),
           NEW keys, NEW bytes, Items(keys, bytes) \in Seq(StorableItem(B)),
           NEW t \in Nat, NEW probe, NEW batch, batch = StoreBatch(keys, bytes, t, probe),
           NEW e \in Range(entries), e.key \notin Keys(batch.entries)
    PROVE  (e.key \in batch.victims /\ ~batch.refused) \/ Host!Expired(e, t)
<1> DEFINE S == StorableItem(B)
           fresh == Fresh(keys, bytes, probe)
           needed == Host!Occupancy(fresh) - FreeRoom
           evicted == MakeRoom(fresh, needed, t, probe)
           none == MustEvict(fresh, needed) /\ evicted.victims = <<>>
           gained == SumFunctionOnSet(bytes, Host!Keys(evicted.victims))
           stored == IF none THEN <<>> ELSE Fitting(fresh, FreeRoom + gained)
           out == Host!evict(entries, needed, Host!Keys(fresh), t, probe)
           I == {i \in DOMAIN entries : ~Host!Expired(entries[i], t)}
           alive == Sublist(entries, I)
<1>1. /\ batch.entries = InsertedAll(evicted.entries, stored, t, probe)
      /\ batch.victims = Host!Keys(evicted.victims) /\ batch.refused = none
  BY DEF StoreBatch, StoreFresh, Store, Fill
<1> DEFINE k == e.key
<1> SUFFICES ASSUME ~(k \in batch.victims /\ ~batch.refused) PROVE Host!Expired(e, t)
  OBVIOUS
<1>0. k \notin batch.victims
  <2>1. Host!Keys(<<>>) = {}
    BY DEF Host!Keys
  <2>2. evicted.victims = <<>> => batch.victims = {}
    BY <1>1, <2>1
  <2>3. none => evicted.victims = <<>>
    OBVIOUS
  <2> HIDE DEF none, evicted
  <2> QED
    BY <1>1, <2>2, <2>3
<1>2. evicted.entries = entries \/ evicted = out
  BY DEF MakeRoom
<1>3. KnownEntries(evicted.entries, B)
  <2>1. KnownEntries(out.entries, B)
    <3> HIDE DEF needed, fresh
    <3> QED
      BY EvictFacts
  <2> HIDE DEF out, evicted
  <2> QED
    BY <1>2, <2>1
<1>4. stored \in Seq(S)
  <2>1. Off(Items(keys, bytes), Keys(entries)) \in Seq(S)
    BY OffFacts
  <2>2. Host!Off(Items(keys, bytes), HostKeys) = Off(Items(keys, bytes), Keys(entries))
    BY SameLists DEF HostKeys
  <2>3. <<>> \in Seq(S)
    OBVIOUS
  <2> HIDE DEF S
  <2>4. fresh \in Seq(S)
    BY <2>1, <2>2, <2>3 DEF Fresh, Host!admit_chain
  <2> HIDE DEF fresh, gained, none
  <2> QED
    BY <2>3, <2>4, FittingFacts
<1> HIDE DEF stored, evicted
<1>5. Keys(evicted.entries) \subseteq Keys(batch.entries)
  BY <1>1, <1>3, <1>4, InsertedFacts DEF S
<1>6. evicted = out
  <2>1. k \notin Keys(evicted.entries) /\ k \in Keys(entries)
    BY <1>5, KeysOfRange
  <2> HIDE DEF out
  <2> QED
    BY <1>2, <2>1
<1>7. out.entries = Off(alive, Host!Keys(out.victims))
  <2>1. Host!Expire(entries, t) = alive
    BY SameLists DEF Host!Expire
  <2> HIDE DEF alive
  <2> QED
    BY <2>1, SameLists DEF Host!evict
<1> HIDE DEF out
<1>8. k \notin Keys(alive)
  <2>1. KnownEntries(alive, B)
    <3> HIDE DEF I
    <3> QED
      BY EntriesSublist
  <2> HIDE DEF alive
  <2>2. Keys(Off(alive, Host!Keys(out.victims))) = Keys(alive) \ Host!Keys(out.victims)
    BY <2>1, OffFacts DEF KnownEntries
  <2> QED
    BY <1>0, <1>1, <1>5, <1>6, <1>7, <2>2
<1>9. PICK i \in DOMAIN entries : entries[i] = e
  BY DEF Range
<1>10. i \notin I
  <2> SUFFICES ASSUME i \in I PROVE k \in Keys(alive)
    BY <1>8
  <2>1. entries \in Seq(Range(entries))
    BY DEF KnownEntries
  <2> HIDE DEF I
  <2>2. Range(alive) = {entries[j] : j \in I \cap DOMAIN entries}
    BY <2>1, SublistRange
  <2>3. entries[i] \in Range(alive)
    BY <1>9, <2>2
  <2> HIDE DEF alive
  <2> QED
    BY <1>9, <2>3, KeysOfRange
<1> QED
  BY <1>9, <1>10

\* Entries stay entries when blocks grow.
LEMMA EntriesGrow ==
    ASSUME KnownEntries(entries, blocks), NEW keys, NEW t, Touched(keys, t)
    PROVE  KnownEntries(entries, blocks')
<1>1. ASSUME NEW e \in Range(entries) PROVE HostEntry(e, blocks')
  <2>1. HostEntry(e, blocks)
    BY DEF KnownEntries
  <2>2. /\ e.key \in DOMAIN blocks' /\ blocks[e.key].tokens \in Nat
        /\ blocks'[e.key].tokens \in Nat /\ blocks'[e.key].tokens >= blocks[e.key].tokens
    BY <2>1 DEF HostEntry, Touched
  <2> QED
    BY <2>1, <2>2 DEF HostEntry
<1> QED
  BY <1>1 DEF KnownEntries

(***************************************************************************)
(* What a turn evicts                                                      *)
(***************************************************************************)
LEMMA NextUseNat ==
    ASSUME \A i \in DOMAIN plan : plan[i].t \in Nat, NEW k, NEW t
    PROVE  NextUse(k, t) \in Nat
<1> DEFINE T == {NoUse} \cup {u \in {plan[i].t : i \in UsesOf(k)} : u > t}
<1>1. NextUse(k, t) = Min(T)
  BY DEF NextUse
<1>2. T \subseteq Nat /\ T # {}
  <2>1. UsesOf(k) \subseteq DOMAIN plan
    BY DEF UsesOf
  <2> QED
    BY <2>1, ReplayAssumption DEF NoUse
<1> HIDE DEF T
<1>3. \E u \in T : \A v \in T : u <= v
  BY <1>2, NatMin
<1>4. Min(T) \in T
  BY <1>3 DEF Min
<1> QED
  BY <1>1, <1>2, <1>4

\* The times of a planned trace.
LEMMA TracesTimed ==
    ASSUME NEW trace \in Traces, policy \in Policies, NEW i \in DOMAIN trace
    PROVE  trace[i].t \in Nat
<1>1. PICK steps \in [1..MaxTurns -> Turns[policy] \X Gaps] :
          trace = [n \in 1..MaxTurns |->
                      [turn |-> steps[n][1],
                       t |-> FirstTime
                                + SumFunctionOnSet([j \in 1..MaxTurns |-> steps[j][2]], 1..n)]]
  BY DEF Traces
<1> DEFINE f == [j \in 1..MaxTurns |-> steps[j][2]]
<1>2. i \in 1..MaxTurns /\ trace[i].t = FirstTime + SumFunctionOnSet(f, 1..i)
  BY <1>1
<1>3. ASSUME NEW j \in 1..i PROVE f[j] \in Nat
  <2>1. j \in 1..MaxTurns
    BY <1>2, ReplayAssumption
  <2>2. steps[j] \in Turns[policy] \X Gaps
    BY <2>1
  <2>3. steps[j][2] \in Nat
    BY <2>2, ReplayAssumption
  <2> QED
    BY <2>1, <2>3
<1>4. IsFiniteSet(1..i)
  BY <1>2, ReplayAssumption, FS_Interval
<1> HIDE DEF f
<1>5. SumFunctionOnSet(f, 1..i) \in Nat
  BY <1>3, <1>4, SumNat
<1> QED
  BY <1>2, <1>5, ReplayAssumption

\* The entries can be sorted by what a probe says of them.
LEMMA ProbeSorts ==
    ASSUME KnownEntries(entries, blocks), \A e \in Range(entries) : e.expires_at \in Int,
           PlanInv, IndexP!IndexInv', NEW keys, NEW t, Touched(keys, t),
           NEW p \in Estimates(Index!Elems(keys) \cup HostKeys)
    PROVE  TierP!Sortable(entries, ProbeWith(p))
<1> DEFINE probe == ProbeWith(p)
<1>1. probe.density = p /\ probe.next_use = next_use
      /\ \A k \in DOMAIN blocks' : probe.depth[k] = blocks'[k].depth
  BY DEF ProbeWith
<1> HIDE DEF probe
<1>2. ASSUME NEW e \in Range(entries)
      PROVE  /\ e.nbytes \in Nat /\ e.last_touch \in Int /\ e.uses \in Int
             /\ e.expires_at \in Int
             /\ probe.depth[e.key] \in Int /\ probe.density[e.key] \in Nat
             /\ policy = "oracle" => probe.next_use[e.key] \in Int
  <2>1. HostEntry(e, blocks)
    BY DEF KnownEntries
  <2>3. e.key \in DOMAIN blocks' /\ e.key \in HostKeys
    <3>1. e.key \in Keys(entries)
      BY KeysOfRange
    <3> QED
      BY <2>1, <3>1, SameLists DEF HostEntry, HostKeys, Touched
  <2>4. probe.depth[e.key] \in Int
    <3>1. blocks'[e.key] \in IndexP!BlockInfo
      BY <2>3 DEF IndexP!IndexInv, IndexP!TypeOK
    <3> QED
      BY <1>1, <2>3, <3>1 DEF IndexP!BlockInfo
  <2>5. probe.density[e.key] \in Nat
    <3>1. p[e.key] \in Nat
      <4>1. e.key \in Index!Elems(keys) \cup HostKeys
        BY <2>3
      <4>2. policy = "adaptive_value" => p[e.key] \in Densities
        BY <4>1 DEF Estimates
      <4>3. policy # "adaptive_value" => p[e.key] = 0
        BY <4>1 DEF Estimates
      <4>4. Densities \subseteq Nat /\ 0 \in Nat
        BY ReplayAssumption
      <4> QED
        BY <4>2, <4>3, <4>4
    <3> QED
      BY <1>1, <3>1
  <2>6. policy = "oracle" => probe.next_use[e.key] \in Int
    BY <1>1, <2>3 DEF PlanInv
  <2> QED
    BY <2>1, <2>4, <2>5, <2>6 DEF HostEntry
<1>3. entries \in Seq(Range(entries)) /\ Distinct(entries)
  BY DEF KnownEntries
<1> QED
  BY <1>2, <1>3, SameHostLists DEF TierP!Sortable, probe

\* Where nothing lapses, evict takes victims in the order of the policy, until they are
\* enough or everything.
Chosen(victims, free, needed, probe) ==
    /\ TierP!Sortable(free, probe) /\ Range(free) = Range(entries)
    /\ TierP!Taken(victims, free, needed, probe)

LEMMA EvictChooses ==
    ASSUME policy \in Lifeless, KnownEntries(entries, blocks),
           NEW probe, TierP!Sortable(entries, probe),
           NEW needed \in Nat \ {0}, NEW protected, protected \cap Keys(entries) = {}, NEW t,
           NEW out, out = Host!evict(entries, needed, protected, t, probe)
    PROVE  /\ \E free : Chosen(out.victims, free, needed, probe)
           /\ Keys(out.entries) = Keys(entries) \ Keys(out.victims)
<1> DEFINE alive == TierP!Expire(entries, t)
           free == TierP!Free(entries, protected, t)
<1>1. policy \in TierP!POLICIES
  BY DEF Lifeless, TierP!POLICIES
<1>2. TierP!Evicted(out, entries, needed, protected, t, probe)
  BY <1>1, TiersAssumed, TierP!EvictTakes, SameEvict
<1>3. \A e \in Range(entries) : ~TierP!Expired(e, t)
  BY DEF KnownEntries, HostEntry, Lifeless, TierP!Expired, Host!Never, TierP!Never
<1>4. \A e \in Range(entries) : e.key \notin protected
  BY KeysOfRange
<1>5. /\ TierP!Range(alive) = {e \in TierP!Range(entries) : ~TierP!Expired(e, t)}
      /\ TierP!Sortable(free, probe)
      /\ TierP!Range(free) = {e \in TierP!Range(entries) :
                                 ~TierP!Expired(e, t) /\ e.key \notin protected}
  BY TiersAssumed, TierP!FreeFacts
<1>6. Range(alive) = Range(entries) /\ Range(free) = Range(entries)
  BY <1>3, <1>4, <1>5, SameHostLists
<1> HIDE DEF alive, free
<1>7. Keys(alive) = Keys(entries)
  BY <1>6, KeysOfRange
<1>8. Keys(out.entries) = Keys(alive) \ Keys(out.victims)
  BY <1>2, SameHostLists DEF TierP!Evicted, alive
<1>9. Chosen(out.victims, free, needed, probe)
  BY <1>2, <1>5, <1>6 DEF TierP!Evicted, Chosen, free
<1> QED
  BY <1>7, <1>8, <1>9

\* A batch evicts only what its evict chooses, and keeps of the entries all others.
\* Without admission control, a path no larger than the tier gets its new blocks in:
\* what evict frees, or the whole tier, is room for them.
LEMMA BatchVictims ==
    ASSUME policy \in Lifeless, KnownEntries(entries, blocks), PlanInv, IndexP!IndexInv',
           IsFiniteSet(DOMAIN blocks'),
           NEW keys, NEW t, Touched(keys, t),
           NEW p \in Estimates(Index!Elems(keys) \cup HostKeys),
           NEW probe, probe = ProbeWith(p),
           NEW batch, batch = StoreBatch(keys, Tokens', t, probe)
    PROVE  /\ Keys(batch.entries) \subseteq Keys(entries) \cup Range(keys)
           /\ \/ Keys(entries) \subseteq Keys(batch.entries)
              \/ \E free, needed, victims :
                    /\ Chosen(victims, free, needed, probe)
                    /\ Keys(entries) \cap Keys(batch.entries) = Keys(entries) \ Keys(victims)
           /\ (policy # "adaptive_value" /\ SumFunctionOnSet(Tokens', Range(keys)) <= Capacity)
                 => batch.fresh \subseteq Keys(batch.entries)
<1> DEFINE bytes == Tokens'
           B == blocks'
           S == StorableItem(B)
           items == Items(keys, bytes)
           unheld == Off(items, Keys(entries))
           fresh == Fresh(keys, bytes, probe)
           needed == Host!Occupancy(fresh) - FreeRoom
           asked == MustEvict(fresh, needed)
           evicted == MakeRoom(fresh, needed, t, probe)
           none == asked /\ evicted.victims = <<>>
           gained == SumFunctionOnSet(bytes, Host!Keys(evicted.victims))
           stored == IF none THEN <<>> ELSE Fitting(fresh, FreeRoom + gained)
<1>1. /\ batch.entries = InsertedAll(evicted.entries, stored, t, probe)
      /\ batch.fresh = Keys(fresh)
  BY SameLists DEF StoreBatch, StoreFresh, Store, Fill
<1>2. Capacity \in Nat /\ t \in Nat /\ KnownEntries(entries, B)
  BY ReplayAssumption, EntriesGrow DEF Touched
<1>3. items \in Seq(S) /\ Distinct(items) /\ Keys(items) = Range(keys) /\ S = PoolItem'
  BY TouchedItems
<1>4. unheld \in Seq(S) /\ Distinct(unheld) /\ Keys(unheld) = Keys(items) \ Keys(entries)
  BY <1>3, OffFacts
<1>5. /\ fresh = unheld \/ fresh = <<>>
      /\ policy # "adaptive_value" => fresh = unheld
  <2>1. Host!Off(items, HostKeys) = unheld
    BY SameLists DEF HostKeys
  <2> HIDE DEF unheld, items
  <2> QED
    BY <2>1 DEF Fresh, Host!admit_chain, Host!Admits, items
<1>6. /\ asked => evicted = Host!evict(entries, needed, Host!Keys(fresh), t, probe)
      /\ ~asked => evicted.entries = entries /\ evicted.victims = <<>>
  BY DEF MakeRoom
<1>7. TierP!Sortable(entries, probe)
  <2>1. \A e \in Range(entries) : e.expires_at = -1
    BY DEF KnownEntries, HostEntry, Lifeless, Host!Never
  <2> QED
    BY <2>1, ProbeSorts
<1>8. /\ \A k \in DOMAIN B : bytes[k] = B[k].tokens /\ bytes[k] \in Nat
      /\ \A b \in S : b.key \in DOMAIN B /\ b.nbytes \in Nat /\ b.nbytes <= bytes[b.key]
      /\ \A e \in Range(entries) :
            e.key \in DOMAIN B /\ e.nbytes \in Nat /\ e.nbytes <= bytes[e.key]
  <2>1. \A k \in DOMAIN B : bytes[k] = B[k].tokens /\ bytes[k] \in Nat
    BY DEF Touched, Tokens
  <2> HIDE DEF bytes
  <2> QED
    BY <1>2, <2>1 DEF StorableItem, KnownEntries, HostEntry
<1> HIDE DEF unheld, items, bytes, S
<1>9. /\ fresh \in Seq(S) /\ Distinct(fresh) /\ Keys(fresh) \subseteq Keys(items) \ Keys(entries)
  <2>1. <<>> \in Seq(S) /\ Distinct(<<>>) /\ Keys(<<>>) = {}
    BY DEF Distinct, Keys
  <2> HIDE DEF fresh
  <2> QED
    BY <1>4, <1>5, <2>1
<1> HIDE DEF fresh
<1>10. /\ Bytes(fresh) \in Nat /\ IsFiniteSet(Keys(fresh))
       /\ Bytes(fresh) <= SumFunctionOnSet(bytes, Keys(fresh))
  <2>1. \A b \in Range(fresh) : b \in S
    BY <1>9 DEF Range
  <2> QED
    BY <1>8, <1>9, <2>1, BytesBound
<1>11. Bytes(entries) \in Nat /\ entries \in Seq(Range(entries)) /\ Distinct(entries)
  <2>1. entries \in Seq(Range(entries)) /\ Distinct(entries)
    BY DEF KnownEntries
  <2> QED
    BY <1>8, <2>1, BytesNat
<1>12. /\ FreeRoom = (IF 0 < Capacity - Bytes(entries) THEN Capacity - Bytes(entries) ELSE 0)
       /\ needed = Bytes(fresh) - FreeRoom
  <2>1. FreeRoom = IF 0 > Capacity - Bytes(entries) THEN 0 ELSE Capacity - Bytes(entries)
    BY SameBytes DEF FreeRoom, Host!Larger
  <2> QED
    BY <1>2, <1>11, <2>1, SameBytes
<1> DEFINE room == FreeRoom
<1>13. /\ room \in Nat /\ room >= Capacity - Bytes(entries) /\ needed = Bytes(fresh) - room
       /\ asked => needed \in Nat \ {0}
       /\ ~asked => fresh = <<>> \/ Bytes(fresh) <= room
  <2>1. room \in Nat /\ room >= Capacity - Bytes(entries) /\ needed = Bytes(fresh) - room
    BY <1>2, <1>11, <1>12
  <2>2. asked <=> fresh # <<>> /\ needed > 0
    BY DEF MustEvict
  <2> HIDE DEF room, needed, asked
  <2> QED
    BY <1>10, <2>1, <2>2
<1> HIDE DEF asked, needed
<1>14. asked => /\ \E free : Chosen(evicted.victims, free, needed, probe)
                /\ Keys(evicted.entries) = Keys(entries) \ Keys(evicted.victims)
  <2> HIDE DEF evicted
  <2>1. Host!Keys(fresh) \cap Keys(entries) = {}
    BY <1>9, SameLists
  <2> QED
    BY <1>6, <1>7, <1>13, <2>1, EvictChooses
<1>15. /\ stored \in Seq(S) /\ Keys(stored) \subseteq Keys(fresh)
       /\ (~none /\ Bytes(fresh) <= FreeRoom + gained) => stored = fresh
  <2>1. <<>> \in Seq(S) /\ Keys(<<>>) = {}
    BY DEF Keys
  <2> HIDE DEF none, gained
  <2> QED
    BY <1>9, <2>1, FittingFacts
<1>16. KnownEntries(evicted.entries, B)
  <2>1. CASE asked
    <3> HIDE DEF evicted
    <3> QED
      BY <1>2, <1>6, <2>1, EvictFacts
  <2>2. CASE ~asked
    <3> HIDE DEF evicted
    <3> QED
      BY <1>2, <1>6, <2>2
  <2> QED
    BY <2>1, <2>2
<1>17. Keys(batch.entries) = Keys(evicted.entries) \cup Keys(stored)
  <2> HIDE DEF stored, evicted
  <2> QED
    BY <1>1, <1>2, <1>15, <1>16, InsertedFacts DEF S
<1> HIDE DEF evicted
<1>18. \/ Keys(entries) \subseteq Keys(batch.entries)
       \/ \E free, n, victims :
             /\ Chosen(victims, free, n, probe)
             /\ Keys(entries) \cap Keys(batch.entries) = Keys(entries) \ Keys(victims)
  <2>1. CASE ~asked
    BY <1>6, <1>17, <2>1
  <2>2. CASE asked
    <3>1. Keys(entries) \cap Keys(batch.entries) = Keys(entries) \ Keys(evicted.victims)
      <4> HIDE DEF stored
      <4> QED
        BY <1>9, <1>14, <1>15, <1>17, <2>2
    <3> QED
      BY <1>14, <2>2, <3>1
  <2> QED
    BY <2>1, <2>2
<1>19. ASSUME policy # "adaptive_value", SumFunctionOnSet(bytes, Range(keys)) <= Capacity
       PROVE  ~none /\ Bytes(fresh) <= FreeRoom + gained
  <2>1. Bytes(fresh) <= Capacity
    <3>1. \A k \in Range(keys) : bytes[k] \in Nat
      BY <1>8 DEF Touched
    <3>2. IsFiniteSet(Range(keys))
      BY FS_Subset DEF Touched
    <3>3. /\ SumFunctionOnSet(bytes, Keys(fresh)) <= SumFunctionOnSet(bytes, Range(keys))
          /\ SumFunctionOnSet(bytes, Range(keys)) \in Nat
      BY <1>3, <1>9, <3>1, <3>2, SumSubset, SumNat
    <3>4. SumFunctionOnSet(bytes, Keys(fresh)) \in Nat
      BY <1>3, <1>9, <1>10, <3>1, SumNat
    <3> QED
      BY <1>2, <1>10, <1>19, <3>3, <3>4
  <2>2. CASE ~asked
    <3>1. gained = 0
      <4>1. Host!Keys(<<>>) = {}
        BY DEF Host!Keys
      <4> QED
        BY <1>6, <2>2, <4>1, SumEmpty
    <3>2. Bytes(fresh) <= room
      BY <1>13, <2>2, EmptyBytes
    <3> QED
      BY <1>10, <1>13, <2>2, <3>1, <3>2
  <2>3. CASE asked
    <3> DEFINE victims == evicted.victims
    <3>1. PICK free : Chosen(victims, free, needed, probe)
      BY <1>14, <2>3
    <3> HIDE DEF victims
    <3>2. /\ victims \in Seq(Range(entries)) /\ Distinct(victims)
          /\ Bytes(victims) >= needed \/ Range(victims) = Range(entries)
      BY <3>1, SameHostLists DEF Chosen, TierP!Taken
    <3>3. Range(victims) \subseteq Range(entries)
      BY <3>2 DEF Range
    <3>4. /\ Bytes(victims) \in Nat /\ Bytes(victims) <= SumFunctionOnSet(bytes, Keys(victims))
          /\ SumFunctionOnSet(bytes, Keys(victims)) \in Nat
      <4>1. \A e \in Range(victims) :
               e.key \in DOMAIN B /\ e.nbytes \in Nat /\ bytes[e.key] \in Nat
                 /\ e.nbytes <= bytes[e.key]
        BY <1>8, <3>3
      <4>2. /\ Bytes(victims) \in Nat /\ IsFiniteSet(Keys(victims))
            /\ Bytes(victims) <= SumFunctionOnSet(bytes, Keys(victims))
        BY <3>2, <4>1, BytesBound
      <4>3. \A k \in Keys(victims) : bytes[k] \in Nat
        BY <4>1, KeysOfRange
      <4> QED
        BY <4>2, <4>3, SumNat
    <3>5. gained = SumFunctionOnSet(bytes, Keys(victims))
      BY SameLists DEF victims
    <3>6. Range(victims) = Range(entries) => Bytes(victims) = Bytes(entries)
      <4> SUFFICES ASSUME Range(victims) = Range(entries)
                   PROVE  Bytes(victims) = Bytes(entries)
        OBVIOUS
      <4>1. Sized(entries)
        BY <1>8, SizedRange
      <4>2. Bytes(victims) = SumFunctionOnSet(SizeOf(entries), Keys(victims))
        BY <1>11, <3>2, <3>3, <4>1, BytesOfPart
      <4>3. Bytes(entries) = SumFunctionOnSet(SizeOf(entries), Keys(entries))
        BY <1>11, <4>1, BytesOfPart
      <4>4. Keys(victims) = Keys(entries)
        BY KeysOfRange
      <4> QED
        BY <4>2, <4>3, <4>4
    <3>7. Bytes(victims) >= needed \/ Bytes(victims) = Bytes(entries)
      BY <3>2, <3>6
    <3>8. victims # <<>>
      <4> SUFFICES ASSUME Bytes(victims) = 0 PROVE FALSE
        BY EmptyBytes
      <4>1. needed > 0 /\ needed = Bytes(fresh) - room
        BY <1>13, <2>3
      <4>2. Bytes(entries) = 0
        BY <1>10, <1>13, <3>7, <4>1
      <4> HIDE DEF room
      <4> QED
        BY <1>2, <1>10, <1>13, <2>1, <4>1, <4>2
    <3>9. Bytes(fresh) <= room + gained
      <4>1. needed = Bytes(fresh) - room
        BY <1>13
      <4> HIDE DEF room, gained
      <4>2. gained \in Nat /\ gained >= Bytes(victims)
        BY <3>4, <3>5
      <4> QED
        BY <1>2, <1>10, <1>11, <1>13, <2>1, <3>4, <3>7, <4>1, <4>2
    <3> QED
      BY <3>8, <3>9 DEF victims
  <2> QED
    BY <2>2, <2>3
<1>20. (policy # "adaptive_value" /\ SumFunctionOnSet(bytes, Range(keys)) <= Capacity)
           => batch.fresh \subseteq Keys(batch.entries)
  <2> HIDE DEF none, gained, stored
  <2> QED
    BY <1>1, <1>15, <1>17, <1>19
<1>21. Keys(batch.entries) \subseteq Keys(entries) \cup Range(keys)
  <2>1. Keys(evicted.entries) \subseteq Keys(entries)
    BY <1>6, <1>14
  <2> HIDE DEF stored
  <2> QED
    BY <1>3, <1>9, <1>15, <1>17, <2>1
<1> QED
  BY <1>18, <1>20, <1>21 DEF bytes

\* Only its own session holds a live lease on a private block.
LEMMA SessionOnly ==
    ASSUME IndexP!IndexInv', NEW k \in DOMAIN blocks', k[1] \notin Role
    PROVE  LiveAfter(k) \subseteq {k[1]}
<1> SUFFICES ASSUME NEW s \in LiveAfter(k) PROVE s = k[1]
  OBVIOUS
<1>1. s \in blocks'[k].refs
  BY DEF LiveAfter, Index!live_leases
<1>2. s \in Session /\ k \in IndexP!Elems(session_path'[s])
  BY <1>1 DEF IndexP!IndexInv, IndexP!LeaseExact
<1>3. PICK i \in DOMAIN session_path'[s] : session_path'[s][i] = k
  BY <1>2 DEF IndexP!Elems
<1>4. k[1] \in {s, session_role'[s]} /\ session_role'[s] \in Role \cup {NoRole}
  BY <1>2, <1>3 DEF IndexP!IndexInv, IndexP!PathsNumbered, IndexP!TypeOK
<1>5. k[1] \in Session \cup Role
  BY DEF IndexP!IndexInv, IndexP!TypeOK, IndexP!Key, IndexP!Owner
<1> QED
  BY <1>4, <1>5, ReplayAssumption

\* What adaptive_value evicts comes before what it keeps: a block leased by several
\* only before shared ones, a private one only before blocks nearer the root.
LEMMA ChainsOut ==
    ASSUME policy = "adaptive_value", KnownEntries(entries, blocks), IndexP!IndexInv',
           NEW keys, NEW t, Touched(keys, t), NEW p, NEW probe, probe = ProbeWith(p),
           NEW victims, NEW free, NEW needed, Chosen(victims, free, needed, probe),
           NEW k \in Keys(entries), k \in Keys(victims),
           NEW kept \in Keys(entries), kept \notin Keys(victims)
    PROVE  /\ Cardinality(LiveAfter(k)) > 1 => Index!IsShared(kept)
           /\ (/\ k[1] = kept[1] /\ k[1] \in Session
               /\ LiveAfter(k) = {k[1]} /\ LiveAfter(kept) = {k[1]}) => k[2] > kept[2]
<1> DEFINE a(i) == TierP!Ranked(free, i, probe)
           chain(i) == TierP!ChainAt(free, i, probe)
           of(i) == TierP!ChainOf(free[i].key, probe)
<1>1. \A c \in DOMAIN blocks' :
         /\ probe.leases[c] = LiveAfter(c) /\ probe.depth[c] = blocks'[c].depth
         /\ probe.shared[c] = Index!IsShared(c)
  BY DEF ProbeWith, LiveAfter
<1>2. /\ Range(free) = Range(entries) /\ TierP!Sortable(free, probe)
      /\ TierP!Taken(victims, free, needed, probe)
  BY DEF Chosen
<1>3. Range(victims) \subseteq Range(entries)
  BY <1>2, SameHostLists DEF TierP!Taken, Range
<1>4. PICK j \in DOMAIN free : free[j].key = k /\ free[j] \in Range(victims)
  <2>1. PICK e \in Range(victims) : e.key = k
    BY KeysOfRange
  <2> QED
    BY <1>2, <1>3, <2>1 DEF Range
<1>5. PICK i \in DOMAIN free : free[i].key = kept /\ free[i] \notin Range(victims)
  <2>1. PICK e \in Range(free) : e.key = kept
    BY <1>2, KeysOfRange
  <2> QED
    BY <2>1, KeysOfRange DEF Range
<1>6. \A e \in Range(entries) : e.key \in DOMAIN blocks'
  BY DEF KnownEntries, HostEntry, Touched
<1>7. \A l \in DOMAIN free : free[l].key \in DOMAIN blocks'
  BY <1>2, <1>6 DEF Range
<1>8. /\ a(j).rank <= a(i).rank
      /\ of(i) = of(j) => a(j).depth >= a(i).depth
  BY <1>2, <1>4, <1>5, TiersAssumed, TierP!VictimRanks, SameHostLists
<1>9. ASSUME NEW l \in DOMAIN free
      PROVE  /\ a(l).rank = TierP!SharedRank(free, chain(l), probe)
             /\ a(l).depth = blocks'[free[l].key].depth
             /\ of(l) = IF Cardinality(LiveAfter(free[l].key)) = 1
                        THEN <<"session", LiveAfter(free[l].key)>>
                        ELSE <<"block", {free[l].key}>>
  <2>1. /\ a(l).rank = TierP!SharedRank(free, chain(l), probe)
        /\ a(l).depth = probe.depth[free[l].key]
    BY <1>2, TiersAssumed, TierP!RankedFacts
  <2>2. /\ probe.leases[free[l].key] = LiveAfter(free[l].key)
        /\ probe.depth[free[l].key] = blocks'[free[l].key].depth
    BY <1>1, <1>7
  <2>3. of(l) = IF Cardinality(probe.leases[free[l].key]) = 1
                THEN <<"session", probe.leases[free[l].key]>> ELSE <<"block", {free[l].key}>>
    BY SameChains
  <2> HIDE DEF of, a, chain
  <2> QED
    BY <2>1, <2>2, <2>3
<1>10. \A l, m \in DOMAIN free : m \in chain(l) <=> of(m) = of(l)
  BY DEF TierP!ChainAt
<1>11. ASSUME NEW l \in DOMAIN free
       PROVE  TierP!SharedRank(free, chain(l), probe)
                 = IF \A m \in chain(l) : Index!IsShared(free[m].key) THEN 1 ELSE 0
  <2>1. \A m \in chain(l) : probe.shared[free[m].key] = Index!IsShared(free[m].key)
    BY <1>1, <1>7 DEF TierP!ChainAt
  <2> QED
    BY <2>1 DEF TierP!SharedRank
<1> HIDE DEF a, of, chain
<1>12. ASSUME Cardinality(LiveAfter(k)) > 1 PROVE Index!IsShared(kept)
  <2>1. Cardinality(LiveAfter(k)) # 1
    BY <1>12
  <2>2. of(j) = <<"block", {k}>>
    BY <1>4, <1>9, <2>1
  <2>3. \A m \in chain(j) : free[m].key = k
    <3> SUFFICES ASSUME NEW m \in DOMAIN free, of(m) = <<"block", {k}>> PROVE free[m].key = k
      BY <1>10, <2>2 DEF chain, TierP!ChainAt
    <3> QED
      BY <1>9
  <2>4. Index!IsShared(k)
    <3>1. k \in DOMAIN blocks'
      BY <1>4, <1>7
    <3> SUFFICES ASSUME k[1] \notin Role PROVE FALSE
      BY DEF Index!IsShared
    <3>2. LiveAfter(k) \subseteq {k[1]}
      BY <3>1, SessionOnly
    <3>3. IsFiniteSet({k[1]}) /\ Cardinality({k[1]}) = 1
      BY FS_Singleton
    <3>4. /\ IsFiniteSet(LiveAfter(k)) /\ Cardinality(LiveAfter(k)) <= 1
          /\ Cardinality(LiveAfter(k)) \in Nat
      BY <3>2, <3>3, FS_Subset, FS_CardinalityType
    <3> QED
      BY <1>12, <3>4
  <2>5. a(j).rank = 1
    BY <1>9, <1>11, <2>3, <2>4
  <2>6. a(i).rank = 1
    BY <1>8, <1>9, <1>11, <2>5
  <2>7. i \in chain(i)
    BY <1>10
  <2> QED
    BY <1>5, <1>9, <1>11, <2>6, <2>7
<1>13. ASSUME k[1] = kept[1], LiveAfter(k) = {k[1]}, LiveAfter(kept) = {k[1]}
       PROVE  k[2] > kept[2]
  <2>1. Cardinality({k[1]}) = 1
    BY FS_Singleton
  <2>2. of(j) = of(i)
    BY <1>4, <1>5, <1>9, <1>13, <2>1
  <2>3. a(j).depth >= a(i).depth
    BY <1>8, <2>2
  <2>4. /\ k \in DOMAIN blocks' /\ kept \in DOMAIN blocks'
        /\ a(j).depth = blocks'[k].depth /\ a(i).depth = blocks'[kept].depth
    BY <1>4, <1>5, <1>7, <1>9
  <2>5. /\ blocks'[k].depth = k[2] /\ blocks'[kept].depth = kept[2]
        /\ k \in IndexP!Key /\ kept \in IndexP!Key
    BY <2>4 DEF IndexP!IndexInv, IndexP!DepthsNumbered, IndexP!TypeOK
  <2>6. k # kept
    OBVIOUS
  <2>7. k[2] # kept[2] /\ k[2] \in Nat /\ kept[2] \in Nat
    BY <1>13, <2>5, <2>6 DEF IndexP!Key
  <2> QED
    BY <2>3, <2>4, <2>5, <2>7
<1> QED
  BY <1>12, <1>13

\* The oracle's victims are used next no sooner than what it keeps.
LEMMA VictimsFarthest ==
    ASSUME policy = "oracle", NEW p, NEW probe, probe = ProbeWith(p),
           NEW victims, NEW free, NEW needed, Chosen(victims, free, needed, probe),
           NEW k \in Keys(entries), k \in Keys(victims),
           NEW kept \in Keys(entries), kept \notin Keys(victims)
    PROVE  next_use[kept] <= next_use[k]
<1>1. probe.next_use = next_use
  BY DEF ProbeWith
<1>2. /\ Range(free) = Range(entries) /\ TierP!Sortable(free, probe)
      /\ TierP!Taken(victims, free, needed, probe)
  BY DEF Chosen
<1>3. Range(victims) \subseteq Range(entries)
  BY <1>2, SameHostLists DEF TierP!Taken, Range
<1>4. PICK j \in DOMAIN free : free[j].key = k /\ free[j] \in Range(victims)
  <2>1. PICK e \in Range(victims) : e.key = k
    BY KeysOfRange
  <2> QED
    BY <1>2, <1>3, <2>1 DEF Range
<1>5. PICK i \in DOMAIN free : free[i].key = kept /\ free[i] \notin Range(victims)
  <2>1. PICK e \in Range(free) : e.key = kept
    BY <1>2, KeysOfRange
  <2> QED
    BY <2>1, KeysOfRange DEF Range
<1>6. probe.next_use[free[i].key] <= probe.next_use[free[j].key]
  BY <1>2, <1>4, <1>5, TiersAssumed, TierP!OracleTakesFarthest, SameHostLists
<1> QED
  BY <1>1, <1>4, <1>5, <1>6

(***************************************************************************)
(* A whole turn                                                            *)
(***************************************************************************)
\* Restored blocks are on the path and not in HBM; a turn serves or recomputes
\* the path and nothing else.
LEMMA PathFacts ==
    ASSUME NEW S, NEW keys \in Seq(S), NEW t, NEW batch
    PROVE  /\ Thrashed(keys, t) \subseteq (Range(keys) \cap DOMAIN left_hbm_at) \ Keys(pool)
           /\ Metric(keys, batch).served \cup Metric(keys, batch).recomputed = Range(keys)
<1> DEFINE missing == {i \in DOMAIN keys : /\ ~Hbm!contains(keys[i])
                                           /\ keys[i] \notin HostKeys}
<1>1. Len(keys) \in Nat /\ DOMAIN keys = 1..Len(keys)
  OBVIOUS
<1>2. Cut(keys) \in 0..Len(keys)
  <2>1. missing # {} => \E m \in missing : \A n \in missing : m <= n
    <3>1. missing \subseteq Nat
      BY <1>1
    <3> HIDE DEF missing
    <3> QED
      BY <3>1, NatMin
  <2>2. missing # {} => Min(missing) \in missing
    <3> HIDE DEF missing
    <3> QED
      BY <2>1 DEF Min
  <2>3. missing # {} => Min(missing) \in 1..Len(keys)
    <3>1. missing \subseteq 1..Len(keys)
      BY <1>1
    <3> HIDE DEF missing
    <3> QED
      BY <2>2, <3>1
  <2>4. Cut(keys) = IF missing = {} THEN Len(keys) ELSE Min(missing) - 1
    BY DEF Cut
  <2> HIDE DEF missing
  <2> QED
    BY <1>1, <2>3, <2>4
<1>3. Thrashed(keys, t) \subseteq (Range(keys) \cap DOMAIN left_hbm_at) \ Keys(pool)
  <2> SUFFICES ASSUME NEW k \in Thrashed(keys, t)
               PROVE  k \in Range(keys) /\ k \in DOMAIN left_hbm_at /\ k \notin Keys(pool)
    OBVIOUS
  <2>1. k \in Restored(keys) /\ k \in DOMAIN left_hbm_at
    BY DEF Thrashed
  <2>2. PICK i \in 1..Cut(keys) : k = keys[i] /\ ~Hbm!contains(keys[i])
    BY <2>1 DEF Restored
  <2>3. i \in DOMAIN keys
    BY <1>1, <1>2
  <2> QED
    BY <2>1, <2>2, <2>3, SameLists DEF Hbm!contains, Range
<1>4. Index!Elems(keys) = Range(keys)
  BY DEF Index!Elems, Range
<1>5. Metric(keys, batch).served \cup Metric(keys, batch).recomputed = Range(keys)
  <2> DEFINE missed == {keys[i] : i \in (Cut(keys) + 1)..Len(keys)}
  <2>1. missed \subseteq Range(keys)
    BY <1>1, <1>2 DEF Range
  <2>2. Metric(keys, batch).served = Range(keys) \ missed
        /\ Metric(keys, batch).recomputed = missed
    BY <1>4 DEF Metric
  <2> HIDE DEF missed
  <2> QED
    BY <2>1, <2>2
<1> QED
  BY <1>3, <1>5

\* The counts of a turn: those it restores again were out, those it drops go out.
LEMMA CountsTurn ==
    ASSUME PoolInv, CountsInv, NEW keys, NEW t, Touched(keys, t), Fills(keys, Tokens', t)
    PROVE  CountsInv'
<1> DEFINE D == DOMAIN left_hbm_at
           H == Keys(pool)
           K == Range(keys)
           dropped == DroppedKeys(keys, Tokens')
           back == Thrashed(keys, t)
<1>1. /\ thrash' = thrash + Cardinality(back)
      /\ demotions' = demotions + Cardinality(dropped)
      /\ left_hbm_at' = Stamp(left_hbm_at, dropped, t)
      /\ HbmFill(keys, Tokens', t)
  BY DEF Fills, HbmFill, DroppedKeys
<1>2. DOMAIN left_hbm_at' = D \cup dropped
  BY <1>1 DEF Stamp
<1>3. /\ Keys(pool') = (H \cup K) \ dropped /\ dropped \subseteq H \ K
      /\ IsFiniteSet(dropped)
  BY <1>1, PoolTurn
<1>4. back \subseteq (K \cap D) \ H
  <2>1. keys \in Seq(DOMAIN blocks')
    BY DEF Touched
  <2> QED
    BY <2>1, PathFacts
<1>5. /\ thrash \in Nat /\ demotions \in Nat /\ IsFiniteSet(D)
      /\ thrash + Cardinality(D \ H) <= demotions
  BY SameLists DEF CountsInv, ThrashAnswersDemotion, HbmKeys
<1> HIDE DEF D, H, K, dropped, back
<1> DEFINE rest == D \ (H \cup K)
<1>6. (D \cup dropped) \ Keys(pool') = rest \cup dropped /\ rest \cap dropped = {}
  BY <1>3
<1>7. /\ IsFiniteSet(back) /\ IsFiniteSet(rest) /\ IsFiniteSet(D \ H)
      /\ back \cap rest = {} /\ back \cup rest \subseteq D \ H
  <2>1. back \subseteq D /\ rest \subseteq D /\ D \ H \subseteq D
    BY <1>4
  <2>2. IsFiniteSet(back) /\ IsFiniteSet(rest) /\ IsFiniteSet(D \ H)
    BY <1>5, <2>1, FS_Subset
  <2> QED
    BY <1>4, <2>2
<1> HIDE DEF rest
<1>8. /\ Cardinality(back) \in Nat /\ Cardinality(rest) \in Nat
      /\ Cardinality(dropped) \in Nat /\ Cardinality(D \ H) \in Nat
  BY <1>3, <1>7, FS_CardinalityType
<1>9. Cardinality(back) + Cardinality(rest) <= Cardinality(D \ H)
  <2>1. Cardinality(back \cup rest) <= Cardinality(D \ H)
    BY <1>7, FS_Subset
  <2>2. Cardinality(back \cup rest)
           = Cardinality(back) + Cardinality(rest) - Cardinality(back \cap rest)
    BY <1>7, FS_Union
  <2>3. Cardinality(back \cap rest) = 0
    BY <1>7, FS_EmptySet
  <2> QED
    BY <1>8, <2>1, <2>2, <2>3
<1>10. /\ IsFiniteSet(D \cup dropped)
       /\ Cardinality((D \cup dropped) \ Keys(pool')) = Cardinality(rest) + Cardinality(dropped)
  <2>1. Cardinality(rest \cup dropped)
           = Cardinality(rest) + Cardinality(dropped) - Cardinality(rest \cap dropped)
    BY <1>3, <1>7, FS_Union
  <2>2. Cardinality(rest \cap dropped) = 0
    BY <1>6, FS_EmptySet
  <2>3. IsFiniteSet(D \cup dropped)
    BY <1>3, <1>5, FS_Union
  <2>4. Cardinality((D \cup dropped) \ Keys(pool')) = Cardinality(rest \cup dropped)
    BY <1>6
  <2> QED
    BY <1>8, <2>1, <2>2, <2>3, <2>4
<1>11. thrash' \in Nat /\ demotions' \in Nat
  BY <1>1, <1>5, <1>8
<1>12. thrash' + Cardinality((D \cup dropped) \ Keys(pool')) <= demotions'
  BY <1>1, <1>5, <1>8, <1>9, <1>10
<1> QED
  BY <1>2, <1>10, <1>11, <1>12, SameLists DEF CountsInv, ThrashAnswersDemotion, HbmKeys

\* With room for every known block, what is held and the new blocks of a path fit.
LEMMA AllFit ==
    ASSUME KnownEntries(entries, blocks), IsFiniteSet(DOMAIN blocks'),
           NEW keys, NEW t, Touched(keys, t)
    PROVE  /\ TotalBytes(DOMAIN blocks) <= TotalBytes(DOMAIN blocks)'
           /\ Bytes(entries) + Bytes(Off(Items(keys, Tokens'), Keys(entries)))
                 <= TotalBytes(DOMAIN blocks)'
           /\ TotalBytes(DOMAIN blocks) \in Nat /\ TotalBytes(DOMAIN blocks)' \in Nat
<1> DEFINE items == Items(keys, Tokens')
           unheld == Off(items, Keys(entries))
           before == Tokens
           after == Tokens'
           D == DOMAIN blocks
           E == DOMAIN blocks'
           S == PoolItem'
<1>1. /\ TotalBytes(DOMAIN blocks) = SumFunctionOnSet(before, D)
      /\ TotalBytes(DOMAIN blocks)' = SumFunctionOnSet(after, E)
  BY DEF TotalBytes, Tokens, BytesOf
<1>2. /\ D \subseteq E /\ IsFiniteSet(D) /\ IsFiniteSet(E)
      /\ \A k \in E : after[k] = blocks'[k].tokens /\ after[k] \in Nat
      /\ \A k \in D : before[k] \in Nat /\ before[k] <= after[k]
  <2>1. D \subseteq E
    BY DEF Touched
  <2>2. IsFiniteSet(D)
    BY <2>1, FS_Subset
  <2> QED
    BY <2>1, <2>2 DEF Touched, Tokens
<1>3. /\ items \in Seq(S) /\ Distinct(items) /\ S = StorableItem(blocks')
  BY TouchedItems
<1>4. /\ unheld \in Seq(S) /\ Distinct(unheld)
      /\ Keys(unheld) = Keys(items) \ Keys(entries)
      /\ Range(unheld) \subseteq S
  <2>1. /\ unheld \in Seq(S) /\ Distinct(unheld) /\ Keys(unheld) = Keys(items) \ Keys(entries)
    BY <1>3, OffFacts
  <2> HIDE DEF unheld, S
  <2> QED
    BY <2>1 DEF Range
<1>5. \A b \in Range(unheld) :
         b.key \in E /\ b.nbytes \in Nat /\ after[b.key] \in Nat /\ b.nbytes <= after[b.key]
  BY <1>2, <1>3, <1>4 DEF StorableItem
<1>6. \A e \in Range(entries) :
         e.key \in E /\ e.nbytes \in Nat /\ after[e.key] \in Nat /\ e.nbytes <= after[e.key]
  <2>1. KnownEntries(entries, blocks')
    BY EntriesGrow
  <2> QED
    BY <1>2, <2>1 DEF KnownEntries, HostEntry
<1>7. entries \in Seq(Range(entries)) /\ Distinct(entries)
  BY DEF KnownEntries
<1> HIDE DEF unheld, before, after, items, S
<1>8. /\ Bytes(unheld) \in Nat /\ IsFiniteSet(Keys(unheld))
      /\ Bytes(unheld) <= SumFunctionOnSet(after, Keys(unheld))
  BY <1>4, <1>5, BytesBound
<1>9. /\ Bytes(entries) \in Nat /\ IsFiniteSet(Keys(entries))
      /\ Bytes(entries) <= SumFunctionOnSet(after, Keys(entries))
  BY <1>6, <1>7, BytesBound
<1> DEFINE both == Keys(entries) \cup Keys(unheld)
<1>10. both \subseteq E
  BY <1>5, <1>6, KeysOfRange
<1> HIDE DEF D, E
<1>11. SumFunctionOnSet(after, both)
          = SumFunctionOnSet(after, Keys(entries)) + SumFunctionOnSet(after, Keys(unheld))
  <2>1. \A k \in both : after[k] \in Int
    BY <1>2, <1>10
  <2>2. Keys(entries) \cap Keys(unheld) = {}
    BY <1>4
  <2> QED
    BY <1>8, <1>9, <2>1, <2>2, SumUnion
<1>12. SumFunctionOnSet(after, both) <= SumFunctionOnSet(after, E)
  <2> HIDE DEF both
  <2> QED
    BY <1>2, <1>10, SumSubset
<1>13. SumFunctionOnSet(before, D) <= SumFunctionOnSet(after, D)
  <2>1. \A k \in D : before[k] \in Int /\ after[k] \in Int /\ before[k] <= after[k]
    BY <1>2
  <2> QED
    BY <1>2, <2>1, SumMono
<1>14. SumFunctionOnSet(after, D) <= SumFunctionOnSet(after, E)
  BY <1>2, SumSubset
<1>15. /\ SumFunctionOnSet(before, D) \in Nat /\ SumFunctionOnSet(after, D) \in Nat
       /\ SumFunctionOnSet(after, E) \in Nat
  <2>1. \A k \in D : after[k] \in Nat
    BY <1>2
  <2> QED
    BY <1>2, <2>1, SumNat
<1>16. /\ SumFunctionOnSet(after, Keys(entries)) \in Nat
       /\ SumFunctionOnSet(after, Keys(unheld)) \in Nat
  <2>1. \A k \in both : after[k] \in Nat
    BY <1>2, <1>10
  <2> QED
    BY <1>8, <1>9, <2>1, SumNat
<1>17. SumFunctionOnSet(before, D) <= SumFunctionOnSet(after, E)
  BY <1>13, <1>14, <1>15
<1>18. Bytes(entries) + Bytes(unheld) <= SumFunctionOnSet(after, E)
  <2>1. SumFunctionOnSet(after, Keys(entries)) + SumFunctionOnSet(after, Keys(unheld))
           <= SumFunctionOnSet(after, E)
    BY <1>11, <1>12
  <2> QED
    BY <1>8, <1>9, <1>15, <1>16, <2>1
<1> QED
  BY <1>1, <1>15, <1>17, <1>18 DEF unheld, items

\* The host part of a turn.
LEMMA HostTurn ==
    ASSUME KnownEntries(entries, blocks), KeepsEverything, IsFiniteSet(DOMAIN blocks'),
           policy' = policy, NEW keys, NEW t, Touched(keys, t), Fills(keys, Tokens', t)
    PROVE  /\ KnownEntries(entries, blocks)' /\ KeepsEverything'
           /\ Recorded
           /\ last'.served \cup last'.recomputed = Range(keys)
<1> DEFINE bytes == Tokens'
           B == blocks'
<1>1. PICK probe, batch :
          /\ batch = StoreBatch(keys, bytes, t, probe)
          /\ HostFill(keys, t, batch, probe) /\ last' = Metric(keys, batch)
  BY DEF Fills
<1>2. KnownEntries(entries, B)
  BY EntriesGrow
<1>3. /\ Items(keys, bytes) \in Seq(StorableItem(B)) /\ Keys(Items(keys, bytes)) = Range(keys)
  BY TouchedItems
<1>4. Capacity \in Nat /\ t \in Nat /\ now' = t
  BY ReplayAssumption DEF Touched
<1>5. DOMAIN B = DOMAIN blocks \cup Range(keys)
  BY DEF Touched
<1>6. /\ TotalBytes(DOMAIN blocks) <= TotalBytes(DOMAIN blocks)'
      /\ Bytes(entries) + Bytes(Off(Items(keys, bytes), Keys(entries)))
            <= TotalBytes(DOMAIN blocks)'
      /\ TotalBytes(DOMAIN blocks) \in Nat /\ TotalBytes(DOMAIN blocks)' \in Nat
      /\ Bytes(entries) \in Nat /\ Bytes(Off(Items(keys, bytes), Keys(entries))) \in Nat
  <2>1. Bytes(entries) \in Nat
    <3>1. entries \in Seq(Range(entries)) /\ \A e \in Range(entries) : e.nbytes \in Nat
      BY DEF KnownEntries, HostEntry
    <3> QED
      BY <3>1, BytesNat
  <2>2. Bytes(Off(Items(keys, bytes), Keys(entries))) \in Nat
    <3>1. Off(Items(keys, bytes), Keys(entries)) \in Seq(StorableItem(B))
      BY <1>3, OffFacts
    <3>2. \A b \in StorableItem(B) : b.nbytes \in Nat
      BY DEF StorableItem
    <3> QED
      BY <3>1, <3>2, BytesNat
  <2> QED
    BY <2>1, <2>2, AllFit
<1> HIDE DEF bytes, B
<1>7. /\ KnownEntries(batch.entries, B)
      /\ (/\ policy = "adaptive_value" => 10 * Bytes(entries) < 9 * Capacity
          /\ Bytes(entries) + Bytes(Off(Items(keys, bytes), Keys(entries))) <= Capacity)
            => Keys(batch.entries) = Keys(entries) \cup Range(keys)
  BY <1>1, <1>2, <1>3, <1>4, BatchFacts
<1>8. /\ entries' = Host!touch(batch.entries, Index!Elems(keys), t, probe)
      /\ left_host_at' = Stamp(left_host_at, batch.victims, t)
  BY <1>1 DEF HostFill
<1>9. KnownEntries(entries', B) /\ Keys(entries') = Keys(batch.entries)
  BY <1>4, <1>7, <1>8, TouchKeeps
<1>10. KnownEntries(entries, blocks)'
  BY <1>9 DEF KnownEntries, HostEntry, B
<1>11. HostKeys = Keys(entries) /\ HostKeys' = Keys(entries')
  BY SameLists DEF HostKeys
<1>12. Recorded
  <2> SUFFICES ASSUME NEW e \in Range(entries), e.key \in Left
               PROVE  (RecordedNow(e.key) /\ ~last'.refused) \/ Host!Expired(e, t)
    BY <1>4 DEF Recorded, ToSet, Range
  <2>1. e.key \notin Keys(batch.entries)
    BY <1>9, <1>11 DEF Left
  <2>2. (e.key \in batch.victims /\ ~batch.refused) \/ Host!Expired(e, t)
    BY <1>1, <1>2, <1>3, <1>4, <2>1, BatchLapses
  <2>3. \A k \in batch.victims : k \in DOMAIN left_host_at' /\ left_host_at'[k] = t
    BY <1>8 DEF Stamp
  <2>4. last'.refused = batch.refused
    BY <1>1 DEF Metric
  <2> QED
    BY <1>4, <2>2, <2>3, <2>4 DEF RecordedNow
<1>13. ASSUME Ample' PROVE DOMAIN blocks' \subseteq HostKeys'
  <2>0. IF policy = "adaptive_value" THEN 10 * TotalBytes(DOMAIN blocks)' < 9 * Capacity
        ELSE TotalBytes(DOMAIN blocks)' < Capacity
    BY <1>13 DEF Ample
  <2>1. /\ Bytes(entries) + Bytes(Off(Items(keys, bytes), Keys(entries))) <= Capacity
        /\ policy = "adaptive_value" => 10 * Bytes(entries) < 9 * Capacity
    BY <1>4, <1>6, <2>0
  <2>2. Keys(batch.entries) = Keys(entries) \cup Range(keys)
    BY <1>7, <2>1
  <2>3. Ample
    BY <1>4, <1>6, <2>0 DEF Ample
  <2>4. DOMAIN blocks \subseteq Keys(entries)
    BY <1>11, <2>3 DEF KeepsEverything
  <2> QED
    BY <1>5, <1>9, <1>11, <2>2, <2>4 DEF B
<1>14. KeepsEverything'
  BY <1>13 DEF KeepsEverything
<1>15. last'.served \cup last'.recomputed = Range(keys)
  <2>1. keys \in Seq(DOMAIN blocks')
    BY DEF Touched
  <2> QED
    BY <1>1, <2>1, PathFacts
<1> QED
  BY <1>10, <1>12, <1>14, <1>15

\* The host part of a turn of a policy without lifetimes: what the oracle knows, what
\* lands, and what adaptive_value drops.
LEMMA HostChoices ==
    ASSUME policy \in Lifeless, policy \in Policies, KnownEntries(entries, blocks), PlanInv,
           IndexP!IndexInv', IsFiniteSet(DOMAIN blocks'), UNCHANGED <<policy, plan>>,
           NEW keys, NEW t, Touched(keys, t), Fills(keys, Tokens', t)
    PROVE  /\ PlanInv' /\ NewBlocksLand'
           /\ policy = "adaptive_value" => SharedLast /\ LeafFirst
           /\ policy = "oracle" =>
                 \A k \in Left, kept \in HostKeys \ Left : next_use[kept] <= next_use[k]
<1> DEFINE bytes == Tokens'
           B == blocks'
<1>0. PICK p \in Estimates(Index!Elems(keys) \cup HostKeys) :
          \E probe \in {ProbeWith(p)} : \E batch \in {StoreBatch(keys, bytes, t, probe)} :
              HostFill(keys, t, batch, probe) /\ last' = Metric(keys, batch)
  BY DEF Fills
<1>1. PICK probe, batch :
          /\ probe = ProbeWith(p) /\ batch = StoreBatch(keys, bytes, t, probe)
          /\ HostFill(keys, t, batch, probe) /\ last' = Metric(keys, batch)
  BY <1>0
<1>2. /\ Keys(batch.entries) \subseteq Keys(entries) \cup Range(keys)
      /\ \/ Keys(entries) \subseteq Keys(batch.entries)
         \/ \E free, needed, victims :
               /\ Chosen(victims, free, needed, probe)
               /\ Keys(entries) \cap Keys(batch.entries) = Keys(entries) \ Keys(victims)
      /\ (policy # "adaptive_value" /\ SumFunctionOnSet(bytes, Range(keys)) <= Capacity)
            => batch.fresh \subseteq Keys(batch.entries)
  BY <1>1, BatchVictims
<1>3. /\ HostKeys = Keys(entries) /\ HostKeys' = Keys(batch.entries)
  <2>1. /\ Items(keys, bytes) \in Seq(StorableItem(B))
    BY TouchedItems
  <2>2. KnownEntries(entries, B) /\ Capacity \in Nat /\ t \in Nat
    BY EntriesGrow, ReplayAssumption DEF Touched
  <2> HIDE DEF bytes, B
  <2>3. KnownEntries(batch.entries, B)
    BY <1>1, <2>1, <2>2, BatchFacts
  <2>4. entries' = Host!touch(batch.entries, Index!Elems(keys), t, probe)
    BY <1>1 DEF HostFill
  <2>5. Keys(entries') = Keys(batch.entries)
    BY <2>2, <2>3, <2>4, TouchKeeps
  <2> QED
    BY <2>5, SameLists DEF HostKeys
<1>4. PlanInv'
  <2> SUFFICES ASSUME policy = "oracle", NEW k \in HostKeys' PROVE next_use'[k] \in Nat
    BY DEF PlanInv
  <2>1. next_use'[k] = IF k \in Index!Elems(keys) THEN NextUse(k, t) ELSE next_use[k]
    BY <1>1 DEF HostFill, Refreshed
  <2>2. k \in Index!Elems(keys) \/ k \in HostKeys
    BY <1>2, <1>3 DEF Index!Elems, Range
  <2>3. NextUse(k, t) \in Nat
    BY NextUseNat DEF PlanInv
  <2> QED
    BY <2>1, <2>2, <2>3 DEF PlanInv
<1>5. NewBlocksLand'
  <2>1. LastPath' = Range(keys) /\ last'.fresh = batch.fresh
    <3>1. keys \in Seq(DOMAIN blocks')
      BY DEF Touched
    <3>2. last'.served \cup last'.recomputed = Range(keys)
      BY <1>1, <3>1, PathFacts
    <3> QED
      BY <1>1, <3>2 DEF LastPath, Metric
  <2>2. TotalBytes(LastPath)' = SumFunctionOnSet(bytes, Range(keys))
    BY <2>1 DEF TotalBytes, BytesOf, Tokens
  <2> HIDE DEF bytes
  <2> QED
    BY <1>2, <1>3, <2>1, <2>2 DEF NewBlocksLand
<1>6. ASSUME policy = "adaptive_value" PROVE SharedLast /\ LeafFirst
  <2>1. CASE Keys(entries) \subseteq Keys(batch.entries)
    BY <1>3, <2>1 DEF SharedLast, LeafFirst, Left
  <2>2. CASE \E free, needed, victims :
                /\ Chosen(victims, free, needed, probe)
                /\ Keys(entries) \cap Keys(batch.entries) = Keys(entries) \ Keys(victims)
    <3>1. PICK free, needed, victims :
              /\ Chosen(victims, free, needed, probe)
              /\ Keys(entries) \cap Keys(batch.entries) = Keys(entries) \ Keys(victims)
      BY <2>2
    <3>2. ASSUME NEW k \in Left, NEW kept \in HostKeys \ Left
          PROVE  /\ Cardinality(LiveAfter(k)) > 1 => Index!IsShared(kept)
                 /\ (/\ k[1] = kept[1] /\ k[1] \in Session
                     /\ LiveAfter(k) = {k[1]} /\ LiveAfter(kept) = {k[1]}) => k[2] > kept[2]
      <4>1. /\ k \in Keys(entries) /\ k \in Keys(victims)
            /\ kept \in Keys(entries) /\ kept \notin Keys(victims)
        BY <1>3, <3>1 DEF Left
      <4> QED
        BY <1>1, <1>6, <3>1, <4>1, ChainsOut
    <3> QED
      BY <3>2 DEF SharedLast, LeafFirst
  <2> QED
    BY <1>2, <2>1, <2>2
<1>7. ASSUME policy = "oracle", NEW k \in Left, NEW kept \in HostKeys \ Left
      PROVE  next_use[kept] <= next_use[k]
  <2>1. ~(Keys(entries) \subseteq Keys(batch.entries))
    BY <1>3 DEF Left
  <2>2. PICK free, needed, victims :
            /\ Chosen(victims, free, needed, probe)
            /\ Keys(entries) \cap Keys(batch.entries) = Keys(entries) \ Keys(victims)
    BY <1>2, <2>1
  <2>3. /\ k \in Keys(entries) /\ k \in Keys(victims)
        /\ kept \in Keys(entries) /\ kept \notin Keys(victims)
    BY <1>3, <2>2 DEF Left
  <2> QED
    BY <1>1, <1>7, <2>2, <2>3, VictimsFarthest
<1> QED
  BY <1>4, <1>5, <1>6, <1>7

LEMMA TurnTiers == ASSUME TiersInv, Turn PROVE TiersInv'
<1>1. ReplayInv'
  BY TurnInv DEF TiersInv
<1>2. policy' = policy /\ plan' = plan
  BY DEF Turn
<1>3. PICK turn \in TurnRecord, t \in Nat :
          /\ Touched(session_path'[turn.session], t)
          /\ Fills(session_path'[turn.session], Tokens', t)
          /\ IndexP!HistoryInv'
  BY TurnTouches DEF TiersInv
<1> DEFINE keys == session_path'[turn.session]
<1>4. Touched(keys, t) /\ Fills(keys, Tokens', t)
  BY <1>3
<1> HIDE DEF keys
<1>5. IsFiniteSet(DOMAIN blocks')
  BY <1>4, TouchedFinite DEF TiersInv
<1>6. HbmFill(keys, Tokens', t)
  BY <1>4 DEF Fills
<1>7. PoolInv' /\ (used' <= HbmCapacity \/ Keys(pool') \subseteq Range(keys))
  BY <1>4, <1>6, PoolTurn DEF TiersInv
<1>8. CountsInv'
  BY <1>4, CountsTurn DEF TiersInv
<1>9. /\ KnownEntries(entries, blocks)' /\ KeepsEverything'
      /\ last'.served \cup last'.recomputed = Range(keys)
  BY <1>2, <1>4, <1>5, HostTurn DEF TiersInv
<1>10. HbmBounded'
  <2>1. HbmKeys' = Keys(pool')
    BY SameLists DEF HbmKeys
  <2> QED
    BY <1>7, <1>9, <2>1 DEF HbmBounded, LastPath
<1>11. PlanInv' /\ NewBlocksLand'
  <2>1. CASE policy \in Lifeless
    BY <1>1, <1>2, <1>4, <1>5, <2>1, HostChoices DEF TiersInv, ReplayInv
  <2>2. CASE policy \notin Lifeless
    BY <1>2, <2>2 DEF Lifeless, PlanInv, NewBlocksLand, TiersInv
  <2> QED
    BY <2>1, <2>2
<1> QED
  BY <1>1, <1>3, <1>5, <1>7, <1>8, <1>9, <1>10, <1>11 DEF TiersInv

\* The end of a replay changes neither a tier nor what a block takes.
LEMMA FinishTiers == ASSUME TiersInv, Finish PROVE TiersInv'
<1>1. /\ DOMAIN blocks' = DOMAIN blocks
      /\ \A k \in DOMAIN blocks : blocks'[k] = [blocks[k] EXCEPT !.refs = {}]
  BY FinishReleases DEF TiersInv
<1>2. UNCHANGED <<policy, plan, next_use, now, pool, used, entries, left_hbm_at, thrash,
                  demotions, last>>
  BY DEF Finish
<1>3. ASSUME NEW k \in DOMAIN blocks
      PROVE  /\ blocks'[k].tokens = blocks[k].tokens /\ blocks'[k].last_use = blocks[k].last_use
             /\ blocks'[k].uses = blocks[k].uses /\ blocks'[k].iat = blocks[k].iat
  <2>1. blocks[k] \in IndexP!BlockInfo
    BY DEF TiersInv, ReplayInv, IndexP!IndexInv, IndexP!TypeOK
  <2> QED
    BY <1>1, <2>1 DEF IndexP!BlockInfo
<1>4. ReplayInv'
  BY FinishInv DEF TiersInv
<1>5. IndexP!HistoryInv'
  BY <1>1, <1>2, <1>3 DEF TiersInv, IndexP!HistoryInv
<1>6. PoolItem' = PoolItem /\ LastUse' = LastUse
  BY <1>1, <1>3 DEF PoolItem, BytesOf, LastUse
<1>7. PoolInv'
  BY <1>2, <1>6 DEF TiersInv, PoolInv
<1>8. HbmBounded' /\ CountsInv'
  BY <1>2 DEF TiersInv, HbmBounded, HbmKeys, LastPath, CountsInv, ThrashAnswersDemotion
<1>9. KnownEntries(entries, blocks)'
  BY <1>1, <1>2, <1>3 DEF TiersInv, KnownEntries, HostEntry
<1>10. KeepsEverything' /\ NewBlocksLand'
  <2>1. [k \in DOMAIN blocks |-> BytesOf(k)]' = [k \in DOMAIN blocks |-> BytesOf(k)]
    BY <1>1, <1>3 DEF BytesOf
  <2>2. /\ TotalBytes(DOMAIN blocks)' = TotalBytes(DOMAIN blocks)
        /\ TotalBytes(LastPath)' = TotalBytes(LastPath)
    BY <1>1, <1>2, <2>1 DEF TotalBytes, LastPath
  <2> QED
    BY <1>1, <1>2, <2>2 DEF TiersInv, KeepsEverything, Ample, NewBlocksLand, HostKeys
<1>11. PlanInv'
  BY <1>2 DEF TiersInv, PlanInv, HostKeys
<1> QED
  BY <1>1, <1>4, <1>5, <1>7, <1>8, <1>9, <1>10, <1>11 DEF TiersInv

LEMMA TiersInit == ASSUME Init PROVE TiersInv
<1>1. ReplayInv
  BY ReplayInitInv
<1>2. /\ DOMAIN blocks = {} /\ now = FirstTime /\ pool = <<>> /\ used = 0 /\ entries = <<>>
      /\ DOMAIN left_hbm_at = {} /\ thrash = 0 /\ demotions = 0
  BY DEF Init, Index!Init, Hbm!EmptyPool
<1>3. FirstTime \in Nat /\ HbmCapacity \in Nat
  BY ReplayAssumption
<1>4. /\ DOMAIN pool = {} /\ DOMAIN entries = {} /\ Range(entries) = {}
      /\ pool \in Seq(PoolItem) /\ entries \in Seq(Range(entries))
  BY <1>2 DEF Range
<1>5. IndexP!HistoryInv
  BY <1>2, <1>3 DEF IndexP!HistoryInv
<1>6. PoolInv
  BY <1>2, <1>4, EmptyBytes DEF PoolInv, Distinct, Rising
<1>7. HbmBounded
  BY <1>2, <1>3 DEF HbmBounded
<1>8. CountsInv
  <2>1. DOMAIN left_hbm_at \ HbmKeys = {}
    BY <1>2
  <2> QED
    BY <1>2, <2>1, FS_EmptySet DEF CountsInv, ThrashAnswersDemotion
<1>9. KnownEntries(entries, blocks)
  BY <1>4 DEF KnownEntries, Distinct
<1>10. KeepsEverything
  BY <1>2 DEF KeepsEverything
<1>11. PlanInv
  <2>1. HostKeys = {}
    BY <1>2, <1>4, SameLists DEF HostKeys, Keys
  <2>2. \A i \in DOMAIN plan : plan[i].t \in Nat
    BY TracesTimed DEF Init
  <2> QED
    BY <2>1, <2>2 DEF PlanInv
<1>12. NewBlocksLand
  BY DEF Init, NewBlocksLand
<1> QED
  BY <1>1, <1>2, <1>5, <1>6, <1>7, <1>8, <1>9, <1>10, <1>11, <1>12, FS_EmptySet DEF TiersInv

LEMMA TiersStutter == ASSUME TiersInv, UNCHANGED vars PROVE TiersInv'
<1>1. ReplayInv'
  BY ReplayNextInv DEF TiersInv
<1>2. UNCHANGED <<policy, plan, next_use, blocks, now, pool, used, entries, left_hbm_at,
                  thrash, demotions, last>>
  BY DEF vars, indexVars
<1>3. IndexP!HistoryInv' /\ PoolInv' /\ HbmBounded' /\ CountsInv'
  BY <1>2 DEF TiersInv, IndexP!HistoryInv, PoolInv, PoolItem, BytesOf, LastUse, HbmBounded,
     HbmKeys, LastPath, CountsInv, ThrashAnswersDemotion
<1>4. KnownEntries(entries, blocks)' /\ KeepsEverything' /\ PlanInv' /\ NewBlocksLand'
  BY <1>2 DEF TiersInv, KnownEntries, HostEntry, KeepsEverything, Ample, TotalBytes, BytesOf,
     HostKeys, PlanInv, NewBlocksLand, LastPath
<1> QED
  BY <1>1, <1>2, <1>3, <1>4 DEF TiersInv

LEMMA TiersNext == ASSUME TiersInv, [Next]_vars PROVE TiersInv'
BY TurnTiers, FinishTiers, TiersStutter DEF Next

(***************************************************************************)
(* The tiers throughout a replay                                           *)
(***************************************************************************)
\* The invariant of the tiers holds in every replay, under any policy.
THEOREM TiersHold == Spec => []TiersInv
<1>1. Init => TiersInv
  BY TiersInit
<1>2. TiersInv /\ [Next]_vars => TiersInv'
  BY TiersNext
<1> QED
  BY <1>1, <1>2, PTL DEF Spec

\* HBM's running total is the sum of what it holds and nothing is in it twice,
\* although blocks grow between the fills that stored and those that drop them.
THEOREM HbmAccountedThroughout == Spec => []HbmAccounted
<1>1. TiersInv => HbmAccounted
  <2> SUFFICES ASSUME TiersInv PROVE HbmAccounted
    OBVIOUS
  <2>1. used = Hbm!Bytes(pool)
    BY SameBytes DEF TiersInv, PoolInv
  <2>2. Cardinality(Keys(pool)) = Len(pool)
    BY DistinctCount DEF TiersInv, PoolInv
  <2>3. Hbm!Cardinality(Hbm!Keys(pool)) = Len(pool)
    BY <2>2, SameLists DEF Hbm!Cardinality, Cardinality
  <2> QED
    BY <2>1, <2>3 DEF HbmAccounted, Hbm!Accounted
<1> QED
  BY <1>1, TiersHold, PTL

\* HBM exceeds its cap only by the path of the last turn, which may not be evicted.
THEOREM HbmBoundedThroughout == Spec => []HbmBounded
<1>1. TiersInv => HbmBounded
  BY DEF TiersInv
<1> QED
  BY <1>1, TiersHold, PTL

\* No tier holds a block that the index does not know, or is charged more for one than
\* it takes.
THEOREM TiersChargeKnownBlocks == Spec => []ChargesKnownBlocks
<1>1. TiersInv => ChargesKnownBlocks
  BY DEF TiersInv, PoolInv, PoolItem, KnownEntries, HostEntry, ChargesKnownBlocks, ToSet,
     Range, BytesOf
<1> QED
  BY <1>1, TiersHold, PTL

\* Each restore counted as thrash answers a demotion of its own.
THEOREM ThrashIsDemotion == Spec => []ThrashAnswersDemotion
<1>1. TiersInv => ThrashAnswersDemotion
  BY DEF TiersInv, CountsInv
<1> QED
  BY <1>1, TiersHold, PTL

\* A host tier larger than everything known keeps everything, under adaptive_value one of
\* which everything known takes less than nine tenths.
THEOREM LargeTierKeepsEverything == Spec => []KeepsEverything
<1>1. TiersInv => KeepsEverything
  BY DEF TiersInv
<1> QED
  BY <1>1, TiersHold, PTL

\* A turn of a policy without lifetimes and without admission control lands all its new
\* blocks, if its path is no larger than the tier.
THEOREM NewBlocksAlwaysLand == Spec => []NewBlocksLand
<1>1. TiersInv => NewBlocksLand
  BY DEF TiersInv
<1> QED
  BY <1>1, TiersHold, PTL

\* A step under the invariant drops from HBM no more than it must, the blocks used
\* longest ago, and records what leaves the host tier.
LEMMA StepDrops ==
    ASSUME TiersInv, [Next]_vars
    PROVE  /\ Recorded
           /\ \A d \in HbmKeys \ HbmKeys', k \in HbmKeys' :
                 blocks[d].last_use <= blocks'[k].last_use
           /\ StopsInTime
<1>1. HbmKeys = Keys(pool) /\ HbmKeys' = Keys(pool')
  BY SameLists DEF HbmKeys
<1>2. CASE Turn
  <2>1. policy' = policy
    BY <1>2 DEF Turn
  <2>2. PICK turn \in TurnRecord, t \in Nat :
            /\ Touched(session_path'[turn.session], t)
            /\ Fills(session_path'[turn.session], Tokens', t)
    BY <1>2, TurnTouches DEF TiersInv
  <2> DEFINE keys == session_path'[turn.session]
  <2>3. Touched(keys, t) /\ Fills(keys, Tokens', t)
    BY <2>2
  <2> HIDE DEF keys
  <2>4. IsFiniteSet(DOMAIN blocks')
    BY <2>3, TouchedFinite DEF TiersInv
  <2>5. Recorded
    BY <2>1, <2>3, <2>4, HostTurn DEF TiersInv
  <2>6. HbmFill(keys, Tokens', t)
    BY <2>3 DEF Fills
  <2>7. /\ Keys(pool') = (Keys(pool) \cup Range(keys)) \ DroppedKeys(keys, Tokens')
        /\ StopsInTime
        /\ \A d \in DroppedKeys(keys, Tokens'), k \in Keys(pool') :
              blocks[d].last_use <= blocks'[k].last_use
    BY <2>3, <2>6, PoolTurn DEF TiersInv
  <2> QED
    BY <1>1, <2>5, <2>7
<1>3. CASE UNCHANGED <<pool, entries>>
  <2>1. StopsInTime
    BY <1>1, <1>3 DEF StopsInTime, Keys
  <2> QED
    BY <1>3, <2>1 DEF Recorded, Left, HostKeys, HbmKeys
<1>4. Finish \/ UNCHANGED vars => UNCHANGED <<pool, entries>>
  BY DEF Finish, vars
<1> QED
  BY <1>2, <1>3, <1>4 DEF Next

\* What leaves the host tier is recorded as having left it at the time of the turn, and
\* leaves in no turn whose batch is refused, unless its lifetime was over.
THEOREM HostDeparturesRecorded == Spec => DeparturesRecorded
<1>1. TiersInv /\ [Next]_vars => [Recorded]_vars
  BY StepDrops
<1> QED
  BY <1>1, TiersHold, PTL DEF Spec, DeparturesRecorded

\* HBM drops what was used longest ago by the clock of the index, wherever fills and
\* hits have left it in the pool.
THEOREM HbmOldestGoFirst == Spec => OldestGoFirst
<1>1. TiersInv /\ [Next]_vars
        => [\A d \in HbmKeys \ HbmKeys', k \in HbmKeys' :
               blocks[d].last_use <= blocks'[k].last_use]_vars
  BY StepDrops
<1> QED
  BY <1>1, TiersHold, PTL DEF Spec, OldestGoFirst

\* HBM drops no more blocks than it must: not the last of those it drops, and so, since
\* they go in the order of the pool, none it could have kept with all the later ones.
THEOREM HbmStopsWhenEnough == Spec => StopsWhenEnough
<1>1. TiersInv /\ [Next]_vars => [StopsInTime]_vars
  BY StepDrops
<1> QED
  BY <1>1, TiersHold, PTL DEF Spec, StopsWhenEnough

\* A step of adaptive_value under the invariant drops private chains before shared ones,
\* and a private chain from its leaf.
LEMMA StepChoices ==
    ASSUME TiersInv, [Next]_vars, policy = "adaptive_value" PROVE SharedLast /\ LeafFirst
<1>1. CASE Turn
  <2>1. PICK turn \in TurnRecord, t \in Nat :
            /\ Touched(session_path'[turn.session], t)
            /\ Fills(session_path'[turn.session], Tokens', t)
    BY <1>1, TurnTouches DEF TiersInv
  <2> DEFINE keys == session_path'[turn.session]
  <2>2. Touched(keys, t) /\ Fills(keys, Tokens', t)
    BY <2>1
  <2> HIDE DEF keys
  <2>3. /\ IsFiniteSet(DOMAIN blocks') /\ IndexP!IndexInv'
        /\ UNCHANGED <<policy, plan>> /\ policy \in Policies /\ policy \in Lifeless
    BY <1>1, <2>2, TouchedFinite, TurnInv DEF TiersInv, ReplayInv, Turn, Lifeless
  <2> QED
    BY <2>2, <2>3, HostChoices DEF TiersInv
<1>2. CASE UNCHANGED entries
  BY <1>2 DEF SharedLast, LeafFirst, Left, HostKeys
<1>3. Finish \/ UNCHANGED vars => UNCHANGED entries
  BY DEF Finish, vars
<1> QED
  BY <1>1, <1>2, <1>3 DEF Next

\* adaptive_value drops a block leased by several live sessions only when no private
\* block is left in the tier, whatever the densities.
THEOREM SharedBlocksGoLast == Spec => SharedGoLast
<1>1. TiersInv /\ [Next]_vars => [policy = "adaptive_value" => SharedLast]_vars
  BY StepChoices
<1> QED
  BY <1>1, TiersHold, PTL DEF Spec, SharedGoLast

\* adaptive_value drops the private blocks of a session from the leaf end.
THEOREM PrivateChainsGoLeafFirst == Spec => PrivateLeafFirst
<1>1. TiersInv /\ [Next]_vars => [policy = "adaptive_value" => LeafFirst]_vars
  BY StepChoices
<1> QED
  BY <1>1, TiersHold, PTL DEF Spec, PrivateLeafFirst

(***************************************************************************)
(* The oracle                                                              *)
(***************************************************************************)
\* The turns of a planned trace are in the order of their times, none before the start.
LEMMA TracesSorted ==
    ASSUME NEW trace \in Traces, policy \in Policies
    PROVE  /\ DOMAIN trace = 1..MaxTurns
           /\ \A i, j \in DOMAIN trace : i <= j => trace[i].t <= trace[j].t
           /\ \A i \in DOMAIN trace : FirstTime <= trace[i].t
<1>1. PICK steps \in [1..MaxTurns -> Turns[policy] \X Gaps] :
          trace = [n \in 1..MaxTurns |->
                      [turn |-> steps[n][1],
                       t |-> FirstTime
                                + SumFunctionOnSet([j \in 1..MaxTurns |-> steps[j][2]], 1..n)]]
  BY DEF Traces
<1> DEFINE f == [j \in 1..MaxTurns |-> steps[j][2]]
<1>2. /\ DOMAIN trace = 1..MaxTurns
      /\ \A n \in 1..MaxTurns : trace[n].t = FirstTime + SumFunctionOnSet(f, 1..n)
  BY <1>1
<1>3. ASSUME NEW j \in 1..MaxTurns PROVE f[j] \in Nat
  <2>1. steps[j] \in Turns[policy] \X Gaps
    OBVIOUS
  <2>2. steps[j][2] \in Nat
    BY <2>1, ReplayAssumption
  <2> QED
    BY <2>2
<1> HIDE DEF f
<1>4. ASSUME NEW n \in 1..MaxTurns
      PROVE  /\ IsFiniteSet(1..n) /\ 1..n \subseteq 1..MaxTurns
             /\ SumFunctionOnSet(f, 1..n) \in Nat
  <2>1. n \in Nat /\ 1..n \subseteq 1..MaxTurns
    BY ReplayAssumption
  <2>2. IsFiniteSet(1..n)
    BY <2>1, FS_Interval
  <2> QED
    BY <1>3, <2>1, <2>2, SumNat
<1>5. ASSUME NEW i \in 1..MaxTurns, NEW j \in 1..MaxTurns, i <= j
      PROVE  SumFunctionOnSet(f, 1..i) <= SumFunctionOnSet(f, 1..j)
  <2>1. 1..i \subseteq 1..j
    BY <1>5, ReplayAssumption
  <2>2. \A x \in 1..j : f[x] \in Nat
    BY <1>3, <1>4
  <2> QED
    BY <1>4, <2>1, <2>2, SumSubset
<1>6. FirstTime \in Nat
  BY ReplayAssumption
<1>7. ASSUME NEW i \in DOMAIN trace PROVE FirstTime <= trace[i].t
  BY <1>2, <1>4, <1>6
<1>8. ASSUME NEW i \in DOMAIN trace, NEW j \in DOMAIN trace, i <= j
      PROVE  trace[i].t <= trace[j].t
  BY <1>2, <1>4, <1>5, <1>6, <1>8
<1> QED
  BY <1>2, <1>7, <1>8

\* The replay has come as far as the plan says.
OnSchedule ==
    /\ DOMAIN plan = 1..MaxTurns
    /\ \A i, j \in DOMAIN plan : i <= j => plan[i].t <= plan[j].t
    /\ \A i \in DOMAIN plan : IF i <= turns THEN plan[i].t <= now ELSE now <= plan[i].t

\* What is known of an entry is its first use after it was touched last, and no turn
\* has used it since.
Foreseen(e) ==
    /\ e.last_touch <= now /\ now <= LastTime
    /\ next_use[e.key] = NextUse(e.key, e.last_touch)
    /\ \A i \in UsesOf(e.key) : i <= turns => plan[i].t <= e.last_touch

OracleInv ==
    /\ turns \in Nat
    /\ policy = "oracle" => OnSchedule /\ \A e \in Range(entries) : Foreseen(e)

LEMMA OracleInit == ASSUME Init PROVE OracleInv
<1>1. turns = 0 /\ now = FirstTime /\ Range(entries) = {}
  BY DEF Init, Index!Init, Range
<1>2. ASSUME policy = "oracle" PROVE OnSchedule
  <2>1. plan \in Traces /\ policy \in Policies
    BY <1>2 DEF Init
  <2>2. /\ DOMAIN plan = 1..MaxTurns
        /\ \A i, j \in DOMAIN plan : i <= j => plan[i].t <= plan[j].t
        /\ \A i \in DOMAIN plan : FirstTime <= plan[i].t
    BY <2>1, TracesSorted
  <2>3. \A i \in DOMAIN plan : ~(i <= turns)
    BY <1>1, <2>2, ReplayAssumption
  <2> QED
    BY <1>1, <2>2, <2>3 DEF OnSchedule
<1> QED
  BY <1>1, <1>2 DEF OracleInv

\* A turn of the plan touches its path and looks ahead for all of it.
LEMMA OracleTurn ==
    ASSUME TiersInv, OracleInv, Turn, policy = "oracle" PROVE OracleInv'
<1>1. UNCHANGED <<policy, plan>> /\ turns' = turns + 1 /\ turns < MaxTurns
  BY DEF Turn
<1>2. /\ turns \in Nat /\ OnSchedule /\ \A e \in Range(entries) : Foreseen(e)
      /\ now \in Nat /\ MaxTurns \in Nat /\ LastTime \in Nat
  BY ReplayAssumption DEF OracleInv, TiersInv, ReplayInv, IndexP!IndexInv, IndexP!TypeOK
<1>3. PICK turn \in TurnRecord, t \in Nat :
          /\ Touched(session_path'[turn.session], t)
          /\ Fills(session_path'[turn.session], Tokens', t)
          /\ now <= t /\ t <= LastTime
          /\ plan # <<>> => plan[turns + 1] = [turn |-> turn, t |-> t]
          /\ Index!Elems(session_path'[turn.session]) = PathOf(turn)
  BY TurnTouches DEF TiersInv
<1> DEFINE keys == session_path'[turn.session]
           B == blocks'
           K == Index!Elems(keys)
<1>4. Touched(keys, t) /\ Fills(keys, Tokens', t) /\ now' = t /\ K = PathOf(turn)
  BY <1>3 DEF Touched
<1>5. turns + 1 \in DOMAIN plan /\ plan[turns + 1] = [turn |-> turn, t |-> t]
  <2>1. turns + 1 \in DOMAIN plan
    BY <1>1, <1>2 DEF OnSchedule
  <2>2. plan # <<>>
    BY <2>1
  <2> QED
    BY <1>3, <2>1, <2>2
<1> HIDE DEF keys
<1>6. PICK p \in Estimates(Index!Elems(keys) \cup HostKeys) :
          \E probe \in {ProbeWith(p)} : \E batch \in {StoreBatch(keys, Tokens', t, probe)} :
              HostFill(keys, t, batch, probe) /\ last' = Metric(keys, batch)
  BY <1>4 DEF Fills
<1>7. PICK probe, batch :
          batch = StoreBatch(keys, Tokens', t, probe) /\ HostFill(keys, t, batch, probe)
  BY <1>6
<1>8. /\ Items(keys, Tokens') \in Seq(StorableItem(B))
      /\ Keys(Items(keys, Tokens')) = K
  <2>1. Keys(Items(keys, Tokens')) = Range(keys) /\ Items(keys, Tokens') \in Seq(StorableItem(B))
    BY <1>4, TouchedItems
  <2> QED
    BY <2>1 DEF Index!Elems, Range
<1>9. KnownEntries(entries, B) /\ Capacity \in Nat
  BY <1>4, EntriesGrow, ReplayAssumption DEF TiersInv
<1> HIDE DEF B, K
<1> DEFINE bytes == Tokens'
<1> HIDE DEF bytes
<1>10. /\ KnownEntries(batch.entries, B)
       /\ \A e \in Range(batch.entries) : e.key \in K \/ e \in Range(entries)
  <2>1. batch = StoreBatch(keys, bytes, t, probe) /\ Items(keys, bytes) \in Seq(StorableItem(B))
        /\ Keys(Items(keys, bytes)) = K
    BY <1>7, <1>8 DEF bytes
  <2> QED
    BY <1>9, <2>1, BatchFacts
<1>11. /\ entries' = Host!touch(batch.entries, K, t, probe)
       /\ next_use' = Refreshed(K, t)
  BY <1>7 DEF HostFill, K
<1>12. TouchedList(entries', batch.entries, K, t, B)
  BY <1>10, <1>11, TouchFacts
<1>13. ASSUME NEW i \in DOMAIN plan
       PROVE  IF i <= turns + 1 THEN plan[i].t <= t ELSE t <= plan[i].t
  <2>1. \A n \in DOMAIN plan : plan[n].t \in Nat
    BY DEF TiersInv, PlanInv
  <2>2. i \in 1..MaxTurns /\ plan[turns + 1].t = t
    BY <1>2, <1>5 DEF OnSchedule
  <2>3. CASE i <= turns + 1
    BY <1>2, <1>5, <2>1, <2>2, <2>3 DEF OnSchedule
  <2>4. CASE ~(i <= turns + 1)
    BY <1>2, <1>5, <2>1, <2>2, <2>4 DEF OnSchedule
  <2> QED
    BY <2>3, <2>4
<1>14. OnSchedule'
  BY <1>1, <1>2, <1>4, <1>13 DEF OnSchedule
<1>15. ASSUME NEW e \in Range(entries') PROVE Foreseen(e)'
  <2>1. e.key \in HostKeys'
    BY KeysOfRange, SameLists DEF HostKeys
  <2>2. /\ next_use'[e.key] = IF e.key \in K THEN NextUse(e.key, t) ELSE next_use[e.key]
        /\ NextUse(e.key, e.last_touch)' = NextUse(e.key, e.last_touch)
        /\ UsesOf(e.key)' = UsesOf(e.key)
    BY <1>1, <1>11, <2>1 DEF Refreshed, NextUse, UsesOf
  <2>3. CASE e.key \in K
    <3>1. e.last_touch = t
      BY <1>12, <2>3 DEF TouchedList
    <3>2. \A i \in UsesOf(e.key) : i <= turns' => plan'[i].t <= t
      <4> SUFFICES ASSUME NEW i \in UsesOf(e.key), i <= turns + 1 PROVE plan[i].t <= t
        BY <1>1
      <4> QED
        BY <1>13 DEF UsesOf
    <3> QED
      BY <1>1, <1>3, <1>4, <2>2, <2>3, <3>1, <3>2 DEF Foreseen
  <2>4. CASE e.key \notin K
    <3>1. e \in Range(entries)
      BY <1>10, <1>12, <2>4 DEF TouchedList
    <3>2. Foreseen(e) /\ e.last_touch \in Nat
      BY <1>2, <3>1 DEF TiersInv, KnownEntries, HostEntry
    <3>3. turns + 1 \notin UsesOf(e.key)
      BY <1>4, <1>5, <2>4 DEF UsesOf, PathOf, K
    <3>4. \A i \in UsesOf(e.key) : i <= turns' => plan'[i].t <= e.last_touch
      <4> SUFFICES ASSUME NEW i \in UsesOf(e.key), i <= turns + 1
                   PROVE  plan[i].t <= e.last_touch
        BY <1>1
      <4>1. i \in 1..MaxTurns /\ i # turns + 1
        BY <1>2, <3>3 DEF UsesOf, OnSchedule
      <4>2. i <= turns
        BY <1>2, <4>1
      <4> QED
        BY <3>2, <4>2 DEF Foreseen
    <3> QED
      BY <1>1, <1>2, <1>3, <1>4, <2>2, <2>4, <3>2, <3>4 DEF Foreseen
  <2> QED
    BY <2>3, <2>4
<1> QED
  BY <1>1, <1>2, <1>14, <1>15 DEF OracleInv

LEMMA OracleNext == ASSUME TiersInv, OracleInv, [Next]_vars PROVE OracleInv'
<1>1. CASE Turn /\ policy = "oracle"
  BY <1>1, OracleTurn
<1>2. CASE Turn /\ policy # "oracle"
  BY <1>2 DEF Turn, OracleInv
<1>3. CASE UNCHANGED <<policy, plan, turns, now, entries, next_use>>
  BY <1>3 DEF OracleInv, OnSchedule, Foreseen, NextUse, UsesOf
<1>4. Finish \/ UNCHANGED vars => UNCHANGED <<policy, plan, turns, now, entries, next_use>>
  BY DEF Finish, vars, indexVars
<1> QED
  BY <1>1, <1>2, <1>3, <1>4 DEF Next

\* The least of some times, where there are any.
LEMMA LeastTime ==
    ASSUME NEW T, T \subseteq Nat, T # {}
    PROVE  Min(T) \in T /\ \A u \in T : Min(T) <= u
<1>1. \E u \in T : \A v \in T : u <= v
  BY NatMin
<1> QED
  BY <1>1 DEF Min

\* The next use of a block, from now on, and what the oracle takes for it.
LEMMA UsesKnown ==
    ASSUME TiersInv, OracleInv, policy = "oracle", NEW e \in Range(entries)
    PROVE  /\ next_use[e.key] = FirstUse(e.key) \/ Overlooked(e)
           /\ FirstUse(e.key) \in Nat /\ now <= FirstUse(e.key)
           /\ e.last_touch \in Nat /\ e.last_touch <= now
<1> DEFINE U == {plan[i].t : i \in {u \in UsesOf(e.key) : u > turns}}
           later == {u \in {plan[i].t : i \in UsesOf(e.key)} : u > e.last_touch}
<1>1. /\ turns \in Nat /\ OnSchedule /\ Foreseen(e) /\ now \in Nat /\ LastTime \in Nat
      /\ e.last_touch \in Nat
  BY ReplayAssumption DEF OracleInv, TiersInv, ReplayInv, IndexP!IndexInv, IndexP!TypeOK,
     KnownEntries, HostEntry
<1>2. \A i \in UsesOf(e.key) : i \in 1..MaxTurns /\ i \in DOMAIN plan /\ plan[i].t \in Nat
  BY <1>1 DEF UsesOf, OnSchedule, TiersInv, PlanInv
<1>3. NoUse \in Nat /\ now <= NoUse /\ e.last_touch <= now
  BY <1>1 DEF NoUse, Foreseen
<1>4. \A u \in U : u \in Nat /\ now <= u
  <2> SUFFICES ASSUME NEW i \in UsesOf(e.key), i > turns PROVE now <= plan[i].t
    BY <1>2
  <2>1. ~(i <= turns)
    BY <1>1, <1>2, ReplayAssumption
  <2> QED
    BY <1>1, <1>2, <2>1 DEF OnSchedule
<1>5. \A u : u \in later <=> u \in U /\ u > e.last_touch
  <2>1. ASSUME NEW i \in UsesOf(e.key), plan[i].t > e.last_touch PROVE i > turns
    BY <1>1, <1>2, <2>1, ReplayAssumption DEF Foreseen
  <2> QED
    BY <2>1
<1>6. /\ FirstUse(e.key) = Min({NoUse} \cup U)
      /\ next_use[e.key] = Min({NoUse} \cup later)
  BY <1>1 DEF FirstUse, Foreseen, NextUse
<1> HIDE DEF U, later
<1>7. /\ FirstUse(e.key) \in {NoUse} \cup U /\ \A u \in {NoUse} \cup U : FirstUse(e.key) <= u
  BY <1>3, <1>4, <1>6, LeastTime
<1>8. FirstUse(e.key) \in Nat /\ now <= FirstUse(e.key)
  BY <1>3, <1>4, <1>7
<1>9. ASSUME FirstUse(e.key) # e.last_touch PROVE next_use[e.key] = FirstUse(e.key)
  <2>1. FirstUse(e.key) > e.last_touch
    BY <1>1, <1>3, <1>8, <1>9
  <2>2. \A u \in U : u > e.last_touch
    BY <1>1, <1>4, <1>7, <1>8, <2>1
  <2>3. later = U
    BY <1>5, <2>2
  <2> QED
    BY <1>6, <2>3
<1> QED
  BY <1>1, <1>3, <1>8, <1>9 DEF Overlooked

\* The oracle's knowledge and the invariant of the tiers hold together.
THEOREM OracleHolds == Spec => [](TiersInv /\ OracleInv)
<1>1. Init => TiersInv /\ OracleInv
  BY TiersInit, OracleInit
<1>2. (TiersInv /\ OracleInv) /\ [Next]_vars => (TiersInv /\ OracleInv)'
  BY TiersNext, OracleNext
<1> QED
  BY <1>1, <1>2, PTL DEF Spec

\* The oracle looks ahead only for the blocks of the turn it has just seen, and yet knows
\* the next use of everything it holds, but for one at the very time of the last.
THEOREM OracleKnowsNextUse == Spec => []NextUseKnown
<1>1. TiersInv /\ OracleInv => NextUseKnown
  <2> SUFFICES ASSUME TiersInv, OracleInv, policy = "oracle", NEW e \in ToSet(entries)
               PROVE  next_use[e.key] = FirstUse(e.key) \/ Overlooked(e)
    BY DEF NextUseKnown
  <2>1. e \in Range(entries)
    BY DEF ToSet, Range
  <2> QED
    BY <2>1, UsesKnown
<1> QED
  BY <1>1, OracleHolds, PTL

\* A step of the oracle drops nothing that is used sooner than what it keeps.
LEMMA StepFarthest ==
    ASSUME TiersInv, OracleInv, [Next]_vars, policy = "oracle" PROVE FarthestOut
<1>1. CASE Turn
  <2>1. PICK turn \in TurnRecord, t \in Nat :
            /\ Touched(session_path'[turn.session], t)
            /\ Fills(session_path'[turn.session], Tokens', t)
    BY <1>1, TurnTouches DEF TiersInv
  <2> DEFINE keys == session_path'[turn.session]
  <2>2. Touched(keys, t) /\ Fills(keys, Tokens', t)
    BY <2>1
  <2> HIDE DEF keys
  <2>3. /\ IsFiniteSet(DOMAIN blocks') /\ IndexP!IndexInv'
        /\ UNCHANGED <<policy, plan>> /\ policy \in Policies /\ policy \in Lifeless
    BY <1>1, <2>2, TouchedFinite, TurnInv DEF TiersInv, ReplayInv, Turn, Lifeless
  <2>4. \A k \in Left, kept \in HostKeys \ Left : next_use[kept] <= next_use[k]
    BY <2>2, <2>3, HostChoices DEF TiersInv
  <2> SUFFICES ASSUME NEW v \in ToSet(entries), v.key \in Left, ~Overlooked(v),
                      NEW kept \in HostKeys \ Left
               PROVE  FirstUse(v.key) >= FirstUse(kept)
    BY DEF FarthestOut
  <2>5. v \in Range(entries)
    BY DEF ToSet, Range
  <2>6. PICK e \in Range(entries) : e.key = kept
    BY KeysOfRange, SameLists DEF HostKeys
  <2>7. next_use[kept] <= next_use[v.key] /\ next_use[v.key] = FirstUse(v.key)
    BY <2>4, <2>5, UsesKnown
  <2>8. /\ next_use[kept] = FirstUse(kept) \/ FirstUse(kept) = e.last_touch
        /\ e.last_touch <= now /\ now <= FirstUse(v.key)
        /\ e.last_touch \in Nat /\ FirstUse(v.key) \in Nat /\ FirstUse(kept) \in Nat
    BY <2>5, <2>6, UsesKnown DEF Overlooked
  <2>9. now \in Nat
    BY DEF TiersInv, ReplayInv, IndexP!IndexInv, IndexP!TypeOK
  <2> QED
    BY <2>7, <2>8, <2>9
<1>2. CASE UNCHANGED entries
  BY <1>2 DEF FarthestOut, Left, HostKeys
<1>3. Finish \/ UNCHANGED vars => UNCHANGED entries
  BY DEF Finish, vars
<1> QED
  BY <1>1, <1>2, <1>3 DEF Next

\* The oracle drops the block whose next use is farthest, counted from the turn that
\* comes next, although it looked ahead when the block was used last.
THEOREM OracleDropsFarthest == Spec => FarthestFirst
<1>1. (TiersInv /\ OracleInv) /\ [Next]_vars => [policy = "oracle" => FarthestOut]_vars
  BY StepFarthest
<1> QED
  BY <1>1, OracleHolds, PTL DEF Spec, FarthestFirst
(***************************************************************************)
(* Announced returns                                                       *)
(***************************************************************************)
\* No session announces a return later than its lease stays live.  A later one is looked
\* at no more once the session has been idle for that long.
ReturnsInWindow == \A turn \in Turns["continuum_ttl"] : turn.eta <= StaleAfter

\* An entry does not lapse before the return of any session whose path it is on.
Awaited(e) ==
    \A s \in Session :
        e.key \in Index!Elems(Path(s)) => session_last_seen[s] + tool_eta[s] <= e.expires_at

ReturnInv ==
    policy = "continuum_ttl" =>
        /\ tool_eta \in [Session -> 0..StaleAfter]
        /\ \A s \in Session : session_last_seen[s] <= now
        /\ \A e \in Range(entries) : e.expires_at \in Nat /\ Awaited(e)

LEMMA ReturnInit == ASSUME Init PROVE ReturnInv
<1>1. /\ now = FirstTime /\ Range(entries) = {} /\ tool_eta = [s \in Session |-> 0]
      /\ session_last_seen = [s \in Session |-> Index!Unset]
  BY DEF Init, Index!Init, Range
<1>2. FirstTime \in Nat /\ StaleAfter \in Nat /\ Index!Unset = -1
  BY ReplayAssumption DEF Index!Unset
<1>3. tool_eta \in [Session -> 0..StaleAfter]
  <2>1. 0 \in 0..StaleAfter
    BY <1>2
  <2> QED
    BY <1>1, <2>1
<1> QED
  BY <1>1, <1>2, <1>3 DEF ReturnInv

\* The maximum of some small numbers.
LEMMA BoundedMax ==
    ASSUME NEW N \in Nat, NEW T, T \subseteq 0..N
    PROVE  Max({0} \cup T) \in Nat /\ \A n \in T : n <= Max({0} \cup T)
<1> DEFINE U == {0} \cup T
<1>1. U \subseteq 0..N /\ U # {}
  BY SMT
<1> HIDE DEF U
<1>2. \E n \in U : \A m \in U : n >= m
  BY <1>1, NatMax
<1>3. Max(U) \in U /\ \A m \in U : Max(U) >= m
  BY <1>2 DEF Max
<1>4. Max(U) \in Nat /\ \A m \in U : m <= Max(U)
  <2>1. \A m \in U : m \in Nat
    BY <1>1
  <2> DEFINE most == Max(U)
  <2> HIDE DEF most
  <2>2. most \in U /\ \A m \in U : most >= m
    BY <1>3 DEF most
  <2>3. most \in Nat /\ \A m \in U : m <= most
    BY <2>1, <2>2
  <2> QED
    BY <2>3 DEF most
<1> QED
  BY <1>4 DEF U

\* What the probe of a turn says of lifetimes: it has heard every live session.
LEMMA ProbeLifetimes ==
    ASSUME IndexP!IndexInv', IsFiniteSet(DOMAIN blocks'), NEW keys, NEW t, Touched(keys, t),
           NEW latest \in Nat, tool_eta' \in [Session -> 0..latest],
           NEW p, NEW k \in DOMAIN blocks'
    PROVE  /\ ProbeWith(p).chain_bytes[k] \in Nat /\ ProbeWith(p).session_eta[k] \in Nat
           /\ \A s \in Session :
                 (/\ k \in Index!Elems(session_path'[s])
                  /\ t - session_last_seen'[s] <= StaleAfter)
                     => tool_eta'[s] <= ProbeWith(p).session_eta[k]
<1> DEFINE live == Index!live_leases(k, now)'
           etas == {tool_eta'[s] : s \in live}
           chains == {TotalBytes(Index!Elems(Path(s)))' : s \in blocks'[k].refs}
<1>1. /\ ProbeWith(p).session_eta[k] = Max({0} \cup etas)
      /\ ProbeWith(p).chain_bytes[k] = Max({0} \cup chains)
  BY DEF ProbeWith, chain_bytes, session_eta
<1>2. /\ blocks'[k].refs = {s \in Session : k \in Index!Elems(session_path'[s])}
      /\ \A s \in Session : Index!Elems(session_path'[s]) \subseteq DOMAIN blocks'
  BY DEF IndexP!IndexInv, IndexP!LeaseExact, IndexP!Elems, Index!Elems
<1>3. live \subseteq blocks'[k].refs
      /\ \A s \in blocks'[k].refs : t - session_last_seen'[s] <= StaleAfter => s \in live
  BY DEF Index!live_leases, Touched
<1>4. etas \subseteq 0..latest
  BY <1>2, <1>3
<1> DEFINE after == Tokens'
           E == DOMAIN blocks'
           N == SumFunctionOnSet(after, E)
<1>5. \A x \in E : after[x] \in Nat
  BY DEF Tokens, Touched
<1>6. ASSUME NEW s \in blocks'[k].refs PROVE TotalBytes(Index!Elems(Path(s)))' \in 0..N
  <2> DEFINE P == Index!Elems(session_path'[s])
  <2>1. P \subseteq E /\ TotalBytes(Index!Elems(Path(s)))' = SumFunctionOnSet(after, P)
    BY <1>2 DEF TotalBytes, BytesOf, Tokens, Path, Index!Elems
  <2> HIDE DEF P, after
  <2>2. IsFiniteSet(P)
    BY <2>1, FS_Subset
  <2>3. SumFunctionOnSet(after, P) \in Nat /\ N \in Nat /\ SumFunctionOnSet(after, P) <= N
    BY <1>5, <2>1, <2>2, SumNat, SumSubset
  <2> HIDE DEF N
  <2> QED
    BY <2>1, <2>3
<1>7. chains \subseteq 0..N /\ N \in Nat
  <2>1. N \in Nat
    <3> HIDE DEF after
    <3> QED
      BY <1>5, SumNat
  <2> HIDE DEF N
  <2> QED
    BY <1>6, <2>1
<1> HIDE DEF N
<1>8. Max({0} \cup chains) \in Nat
  <2> HIDE DEF chains
  <2> QED
    BY <1>7, BoundedMax
<1>9. Max({0} \cup etas) \in Nat /\ \A n \in etas : n <= Max({0} \cup etas)
  <2> HIDE DEF etas
  <2> QED
    BY <1>4, BoundedMax
<1> QED
  BY <1>1, <1>2, <1>3, <1>8, <1>9

\* A lifetime of continuum_ttl reaches to every return the probe has heard of.
LEMMA LifetimeReaches ==
    ASSUME policy = "continuum_ttl", NEW k, NEW n \in Nat, NEW t \in Nat, NEW probe,
           probe.chain_bytes[k] \in Nat, probe.session_eta[k] \in Nat
    PROVE  /\ Host!expiry(k, n, t, probe) \in Nat
           /\ t + probe.session_eta[k] <= Host!expiry(k, n, t, probe)
<1> DEFINE held == IF probe.chain_bytes[k] = 0 THEN n ELSE probe.chain_bytes[k]
           cost == ChainTtlPerByte * held
           bounded == Host!Smaller(MaxTtl, Host!Larger(MinTtl, cost))
<1>1. MaxTtl \in Nat /\ MinTtl \in Nat /\ cost \in Nat
  <2>1. ChainTtlPerByte \in Nat /\ held \in Nat /\ MaxTtl \in Nat /\ MinTtl \in Nat
    BY ReplayAssumption
  <2> QED
    BY <2>1
<1> HIDE DEF cost
<1>2. bounded \in Nat
  BY <1>1 DEF Host!Smaller, Host!Larger
<1>3. Host!expiry(k, n, t, probe) = t + bounded + probe.session_eta[k]
  BY DEF Host!expiry, cost
<1> HIDE DEF bounded
<1> QED
  BY <1>2, <1>3

\* A touched entry gets the lifetime of its key.
LEMMA TouchedLifetimes ==
    ASSUME NEW B, NEW held, KnownEntries(held, B), NEW K, NEW t \in Nat, NEW probe,
           NEW e \in Range(Host!touch(held, K, t, probe)), e.key \in K
    PROVE  \E n \in Nat : e.key \in DOMAIN B /\ e.expires_at = Host!expiry(e.key, n, t, probe)
<1> DEFINE new == Host!touch(held, K, t, probe)
<1>1. PICK i \in DOMAIN held : e = new[i]
  BY DEF Range, Host!touch
<1>2. HostEntry(held[i], B)
  BY <1>1 DEF KnownEntries, Range
<1> DEFINE old == held[i]
           lapse == Host!expiry(old.key, old.nbytes, t, probe)
<1>3. new[i] = IF old.key \in K THEN Renewed(old, t, lapse) ELSE old
  BY <1>1 DEF Host!touch, Renewed
<1> HIDE DEF lapse, new, old
<1>4. Renewed(old, t, lapse).key = old.key /\ Renewed(old, t, lapse).expires_at = lapse
  BY <1>2 DEF HostEntry, Renewed, old
<1>5. e.key = old.key /\ e.expires_at = lapse
  BY <1>1, <1>3, <1>4
<1>6. old.nbytes \in Nat /\ old.key \in DOMAIN B
  BY <1>2 DEF HostEntry, old
<1> QED
  BY <1>5, <1>6 DEF lapse

\* A turn touches its whole path, with a lifetime that reaches to every return.
LEMMA ReturnTurn ==
    ASSUME ReturnsInWindow, TiersInv, ReturnInv, Turn, policy = "continuum_ttl"
    PROVE  ReturnInv'
<1>1. /\ IndexP!IndexInv /\ IndexP!IndexInv' /\ policy' = policy
      /\ KnownEntries(entries, blocks) /\ IsFiniteSet(DOMAIN blocks)
  BY TurnInv DEF TiersInv, ReplayInv, Turn
<1>2. /\ tool_eta \in [Session -> 0..StaleAfter] /\ now \in Nat /\ StaleAfter \in Nat
      /\ \A s \in Session : session_last_seen[s] <= now
      /\ \A e \in Range(entries) : e.expires_at \in Nat /\ Awaited(e)
  BY <1>1, ReplayAssumption DEF ReturnInv, IndexP!IndexInv, IndexP!TypeOK
<1>3. PICK turn \in Turns[policy], gap \in Gaps : now + gap <= LastTime /\ One(turn, now + gap)
  BY DEF Turn
<1> DEFINE t == now + gap
           s0 == turn.session
           keys == session_path'[s0]
           K == Index!Elems(keys)
<1>4. /\ turn \in TurnRecord /\ s0 \in Session /\ t \in Nat /\ now <= t
      /\ turn.eta \in Nat \cup {NoEta} /\ turn.eta <= StaleAfter
  <2>1. turn \in TurnRecord /\ gap \in Nat
    BY ReplayAssumption DEF TiersInv, ReplayInv
  <2> QED
    BY <1>2, <2>1 DEF TurnRecord, ReturnsInWindow
<1> HIDE DEF t
<1>5. /\ session_path' = [session_path EXCEPT ![s0] = session_path'[s0]]
      /\ session_last_seen' = [session_last_seen EXCEPT ![s0] = t]
      /\ tool_eta' = IF turn.eta = NoEta THEN tool_eta
                     ELSE [tool_eta EXCEPT ![s0] = turn.eta]
      /\ now' = t /\ Fills(keys, Tokens', t)
  BY <1>1, <1>3, <1>4 DEF One, Index!touch_path, Tokens, t, IndexP!IndexInv, IndexP!TypeOK
<1>6. Touched(keys, t)
  <2>1. IndexP!TypeOK /\ IndexP!HistoryInv /\ t \in now..LastTime
    BY <1>1, <1>2, <1>3, <1>4, ReplayAssumption DEF TiersInv, IndexP!IndexInv, t
  <2>2. IndexP!touch_path(s0, turn.role, turn.prompt, turn.shared, t, turn.aborted)
    BY <1>3, <1>4, SameRequest DEF One, TurnRecord, t
  <2> QED
    BY <1>4, <2>1, <2>2, RequestTouches DEF TurnRecord
<1>7. tool_eta' \in [Session -> 0..StaleAfter]
  BY <1>2, <1>4, <1>5 DEF NoEta
<1>8. /\ session_last_seen \in [Session -> Nat \cup {-1}]
      /\ \A s \in Session : session_last_seen'[s] <= t /\ session_last_seen'[s] \in Int
      /\ session_last_seen'[s0] = t /\ session_path'[s0] = keys
      /\ \A s \in Session \ {s0} :
            /\ session_last_seen'[s] = session_last_seen[s] /\ Path(s)' = Path(s)
            /\ tool_eta'[s] = tool_eta[s]
  <2>1. session_last_seen \in [Session -> Nat \cup {-1}] /\ session_path \in [Session -> Seq(IndexP!Key)]
    BY <1>1 DEF IndexP!IndexInv, IndexP!TypeOK, IndexP!Unset
  <2> QED
    BY <1>2, <1>4, <1>5, <2>1 DEF Path
<1> HIDE DEF keys
<1>9. PICK p \in Estimates(Index!Elems(keys) \cup HostKeys) :
          \E probe \in {ProbeWith(p)} : \E batch \in {StoreBatch(keys, Tokens', t, probe)} :
              HostFill(keys, t, batch, probe) /\ last' = Metric(keys, batch)
  BY <1>5 DEF Fills
<1>10. PICK probe, batch :
          /\ probe = ProbeWith(p)
          /\ batch = StoreBatch(keys, Tokens', t, probe) /\ HostFill(keys, t, batch, probe)
  BY <1>9
<1> DEFINE B == blocks'
           bytes == Tokens'
<1>11. /\ Items(keys, bytes) \in Seq(StorableItem(B)) /\ Keys(Items(keys, bytes)) = K
       /\ KnownEntries(entries, B) /\ Capacity \in Nat
  <2>1. Keys(Items(keys, bytes)) = Range(keys) /\ Items(keys, bytes) \in Seq(StorableItem(B))
    BY <1>6, TouchedItems
  <2> QED
    BY <1>1, <1>6, <2>1, EntriesGrow, ReplayAssumption DEF Index!Elems, Range
<1>12. IsFiniteSet(DOMAIN B)
  BY <1>1, <1>6, TouchedFinite
<1>13. \A k \in DOMAIN B :
          /\ probe.chain_bytes[k] \in Nat /\ probe.session_eta[k] \in Nat
          /\ \A s \in Session :
                (k \in Index!Elems(session_path'[s]) /\ t - session_last_seen'[s] <= StaleAfter)
                    => tool_eta'[s] <= probe.session_eta[k]
  BY <1>1, <1>2, <1>6, <1>7, <1>10, <1>12, ProbeLifetimes
<1>14. batch = StoreBatch(keys, bytes, t, probe)
  BY <1>10
<1> HIDE DEF B, bytes, K
<1>15. /\ KnownEntries(batch.entries, B)
       /\ \A e \in Range(batch.entries) : e.key \in K \/ e \in Range(entries)
  BY <1>4, <1>11, <1>14, BatchFacts
<1>16. /\ entries' = Host!touch(batch.entries, K, t, probe)
       /\ left_host_at' = Stamp(left_host_at, batch.victims, t)
  BY <1>10 DEF HostFill, K
<1>17. TouchedList(entries', batch.entries, K, t, B)
  BY <1>4, <1>15, <1>16, TouchFacts
<1>18. ASSUME NEW e \in Range(entries') PROVE e.expires_at \in Nat /\ Awaited(e)'
  <2>1. CASE e.key \in K
    <3>1. PICK n \in Nat : e.key \in DOMAIN B /\ e.expires_at = Host!expiry(e.key, n, t, probe)
      BY <1>4, <1>15, <1>16, <2>1, TouchedLifetimes
    <3>2. /\ e.expires_at \in Nat /\ probe.session_eta[e.key] \in Nat
          /\ t + probe.session_eta[e.key] <= e.expires_at
      BY <1>4, <1>13, <3>1, LifetimeReaches
    <3>3. ASSUME NEW s \in Session, e.key \in Index!Elems(session_path'[s])
          PROVE  session_last_seen'[s] + tool_eta'[s] <= e.expires_at
      <4>1. /\ tool_eta'[s] \in 0..StaleAfter /\ session_last_seen'[s] \in Int
            /\ session_last_seen'[s] <= t
        BY <1>7, <1>8
      <4>2. CASE t - session_last_seen'[s] <= StaleAfter
        <5>1. tool_eta'[s] <= probe.session_eta[e.key]
          BY <1>13, <3>1, <3>3, <4>2
        <5> QED
          BY <1>2, <1>4, <3>2, <4>1, <5>1
      <4>3. CASE ~(t - session_last_seen'[s] <= StaleAfter)
        BY <1>2, <1>4, <3>2, <4>1, <4>3
      <4> QED
        BY <4>2, <4>3
    <3> QED
      BY <3>2, <3>3 DEF Awaited, Path
  <2>2. CASE e.key \notin K
    <3>1. e \in Range(entries)
      BY <1>15, <1>17, <2>2 DEF TouchedList
    <3>2. e.expires_at \in Nat /\ Awaited(e)
      BY <1>2, <3>1
    <3>3. ASSUME NEW s \in Session, e.key \in Index!Elems(Path(s)')
          PROVE  session_last_seen'[s] + tool_eta'[s] <= e.expires_at
      <4>1. s # s0
        BY <1>8, <2>2, <3>3 DEF K, Path
      <4>2. /\ session_last_seen'[s] = session_last_seen[s] /\ Path(s)' = Path(s)
            /\ tool_eta'[s] = tool_eta[s]
        BY <1>8, <4>1
      <4> QED
        BY <3>2, <3>3, <4>2 DEF Awaited
    <3> QED
      BY <3>2, <3>3 DEF Awaited
  <2> QED
    BY <2>1, <2>2
<1> QED
  BY <1>1, <1>5, <1>7, <1>8, <1>18 DEF ReturnInv

\* At no reading before the return has such an entry lapsed.
LEMMA ReturnOutlives ==
    ASSUME TiersInv, ReturnInv, policy = "continuum_ttl", now' \in Nat
    PROVE  OutlivesAbsence
<1> SUFFICES ASSUME NEW e \in ToSet(entries), NEW s \in Session,
                    e.key \in Index!Elems(Path(s)),
                    now' < session_last_seen[s] + tool_eta[s]
             PROVE  ~Host!Expired(e, now')
  BY DEF OutlivesAbsence
<1>1. session_last_seen[s] \in Int /\ tool_eta[s] \in Int
  <2>1. session_last_seen \in [Session -> Nat \cup {-1}]
    BY DEF TiersInv, ReplayInv, IndexP!IndexInv, IndexP!TypeOK, IndexP!Unset
  <2> QED
    BY <2>1, ReplayAssumption DEF ReturnInv
<1>2. e \in Range(entries)
  BY DEF ToSet, Range
<1>3. e.expires_at \in Nat /\ session_last_seen[s] + tool_eta[s] <= e.expires_at
  BY <1>2 DEF ReturnInv, Awaited
<1> QED
  BY <1>1, <1>3 DEF Host!Expired

LEMMA ReturnNext ==
    ASSUME ReturnsInWindow, TiersInv, ReturnInv, [Next]_vars
    PROVE  ReturnInv'
<1>1. CASE Turn /\ policy = "continuum_ttl"
  BY <1>1, ReturnTurn
<1>2. CASE Turn /\ policy # "continuum_ttl"
  BY <1>2 DEF Turn, ReturnInv
<1>3. CASE Finish
  <2>1. /\ UNCHANGED <<policy, tool_eta, entries, now>>
        /\ session_path' = [s \in Session |-> <<>>]
        /\ session_last_seen' = [s \in Session |-> -1]
    BY <1>3 DEF Finish, Index!Unset
  <2>2. now \in Nat
    BY DEF TiersInv, ReplayInv, IndexP!IndexInv, IndexP!TypeOK
  <2>3. \A e \in Range(entries) : Awaited(e)'
    BY <2>1 DEF Awaited, Path, Index!Elems
  <2>4. \A s \in Session : session_last_seen'[s] <= now'
    BY <2>1, <2>2
  <2> QED
    BY <2>1, <2>3, <2>4 DEF ReturnInv
<1>4. CASE UNCHANGED vars
  <2>1. UNCHANGED <<policy, tool_eta, entries, now, session_path, session_last_seen>>
    BY <1>4 DEF vars, indexVars
  <2> QED
    BY <2>1 DEF ReturnInv, Awaited, Path
<1> QED
  BY <1>1, <1>2, <1>3, <1>4 DEF Next

\* Under continuum_ttl no block lapses while a session whose path it is on is still away
\* by its own announcement, though others touch it and give it new lifetimes meanwhile,
\* join its leases or leave them.
THEOREM LapsesAwaitReturns ==
    ASSUME ReturnsInWindow PROVE Spec => NoLapseBeforeReturn
<1>1. Init => TiersInv /\ ReturnInv
  BY TiersInit, ReturnInit
<1>2. (TiersInv /\ ReturnInv) /\ [Next]_vars => (TiersInv /\ ReturnInv)'
  BY TiersNext, ReturnNext
<1>3. (TiersInv /\ ReturnInv) /\ TiersInv' => [policy = "continuum_ttl" => OutlivesAbsence]_vars
  <2>1. TiersInv' => now' \in Nat
    BY DEF TiersInv, ReplayInv, IndexP!IndexInv, IndexP!TypeOK
  <2> QED
    BY <2>1, ReturnOutlives
<1>4. (TiersInv /\ ReturnInv) /\ [Next]_vars
         => [policy = "continuum_ttl" => OutlivesAbsence]_vars
  BY <1>2, <1>3
<1> QED
  BY <1>1, <1>2, <1>4, PTL DEF Spec, NoLapseBeforeReturn

(***************************************************************************)
(* The capacity of the host tier                                           *)
(***************************************************************************)
\* A list whose items keep their sizes keeps its bytes.
LEMMA SameSizes ==
    ASSUME NEW held, NEW new, DOMAIN new = DOMAIN held,
           \A i \in DOMAIN held : new[i].nbytes = held[i].nbytes
    PROVE  Bytes(new) = Bytes(held)
<1>1. [i \in DOMAIN new |-> new[i].nbytes] = [i \in DOMAIN held |-> held[i].nbytes]
  OBVIOUS
<1> QED
  BY <1>1 DEF Bytes

LEMMA EntriesBytes ==
    ASSUME NEW B, NEW held, KnownEntries(held, B) PROVE Bytes(held) \in Nat
<1>1. held \in Seq(Range(held)) /\ \A e \in Range(held) : e.nbytes \in Nat
  BY DEF KnownEntries, HostEntry
<1> QED
  BY <1>1, BytesNat

LEMMA TouchBytes ==
    ASSUME NEW B, NEW held, KnownEntries(held, B), NEW K, NEW t, NEW probe
    PROVE  Bytes(Host!touch(held, K, t, probe)) = Bytes(held)
<1> DEFINE new == Host!touch(held, K, t, probe)
<1>1. ASSUME NEW i \in DOMAIN held PROVE new[i].nbytes = held[i].nbytes
  <2> DEFINE lapse == Host!expiry(held[i].key, held[i].nbytes, t, probe)
  <2>1. new[i] = IF held[i].key \in K THEN Renewed(held[i], t, lapse) ELSE held[i]
    BY DEF Host!touch, Renewed
  <2> HIDE DEF lapse, new
  <2>2. HostEntry(held[i], B)
    BY DEF KnownEntries, Range
  <2>3. Renewed(held[i], t, lapse).nbytes = held[i].nbytes
    BY <2>2 DEF HostEntry, Renewed
  <2> QED
    BY <2>1, <2>3
<1>2. DOMAIN new = DOMAIN held
  BY DEF Host!touch
<1> HIDE DEF new
<1> QED
  BY <1>1, <1>2, SameSizes DEF new

\* An insert adds no more bytes than it is given.
LEMMA InsertBytes ==
    ASSUME NEW B, NEW held, KnownEntries(held, B), NEW item \in StorableItem(B),
           NEW t, NEW probe
    PROVE  Bytes(Host!insert(held, item.key, item.nbytes, t, probe)) <= Bytes(held) + item.nbytes
<1> DEFINE new == Host!insert(held, item.key, item.nbytes, t, probe)
           lapse == Host!expiry(item.key, item.nbytes, t, probe)
<1>0. Bytes(held) \in Nat /\ item.nbytes \in Nat
  BY EntriesBytes DEF StorableItem
<1>1. CASE item.key \in Keys(held)
  <2>1. new = [i \in DOMAIN held |-> IF held[i].key = item.key
                                     THEN Renewed(held[i], t, lapse) ELSE held[i]]
    BY <1>1, SameLists DEF Host!insert, Renewed
  <2> HIDE DEF lapse, new
  <2>2. ASSUME NEW i \in DOMAIN held PROVE new[i].nbytes = held[i].nbytes
    <3>1. HostEntry(held[i], B)
      BY DEF KnownEntries, Range
    <3>2. Renewed(held[i], t, lapse).nbytes = held[i].nbytes
      BY <3>1 DEF HostEntry, Renewed
    <3> QED
      BY <2>1, <3>2
  <2>3. Bytes(new) = Bytes(held)
    BY <2>1, <2>2, SameSizes
  <2> QED
    BY <1>0, <2>3 DEF new
<1>2. CASE item.key \notin Keys(held)
  <2> DEFINE e == [key |-> item.key, nbytes |-> item.nbytes, last_touch |-> t,
                   uses |-> 1, expires_at |-> lapse]
             S == Range(held) \cup {e}
             n == Len(held) + 1
  <2>1. new = Append(held, e)
    BY <1>2, SameLists DEF Host!insert
  <2>2. /\ held \in Seq(S) /\ e \in S /\ e.nbytes = item.nbytes
        /\ \A b \in S : b.nbytes \in Nat
    BY <1>0 DEF KnownEntries, HostEntry
  <2> HIDE DEF e, S, new
  <2>3. /\ new \in Seq(S) /\ n \in 1..Len(new) /\ new[n] = e /\ n = Len(new)
        /\ SubSeq(new, 1, n) = new /\ SubSeq(new, 1, n - 1) = held
    BY <2>1, <2>2
  <2> HIDE DEF n
  <2>4. Bytes(new) = Bytes(held) + item.nbytes
    <3>1. Bytes(SubSeq(new, 1, n)) = Bytes(SubSeq(new, 1, n - 1)) + new[n].nbytes
      BY <2>2, <2>3, BytesPrefix
    <3> QED
      BY <2>2, <2>3, <3>1
  <2> QED
    BY <1>0, <2>4 DEF new
<1> QED
  BY <1>1, <1>2

\* Nor does a list of inserts.
LEMMA InsertedBytes ==
    ASSUME NEW B, NEW held, KnownEntries(held, B), NEW items \in Seq(StorableItem(B)),
           NEW t \in Nat, NEW probe
    PROVE  Bytes(InsertedAll(held, items, t, probe)) <= Bytes(held) + Bytes(items)
<1> DEFINE L == Len(items)
           u == CHOOSE w : Inserts(w, held, items, t, probe, L)
           Good(n) == /\ KnownEntries(u[n], B)
                      /\ Bytes(u[n]) <= Bytes(held) + Bytes(SubSeq(items, 1, n))
           Bad == {n \in 0..L : ~Good(n)}
<1>1. L \in Nat /\ DOMAIN items = 1..L
  OBVIOUS
<1>2. Inserts(u, held, items, t, probe, L)
  BY <1>1, InsertsExist
<1>3. InsertedAll(held, items, t, probe) = u[L]
  BY DEF InsertedAll, Inserts
<1> HIDE DEF u
<1>4. \A n \in 0..L : u[n] = IF n = 0 THEN held
                              ELSE Host!insert(u[n - 1], items[n].key, items[n].nbytes, t, probe)
  BY <1>2 DEF Inserts
<1>5. \A b \in StorableItem(B) : b.nbytes \in Nat
  BY DEF StorableItem
<1>6. Bytes(held) \in Nat
  BY EntriesBytes
<1>7. ASSUME Bad # {} PROVE FALSE
  <2>1. Bad \subseteq Nat
    BY <1>1
  <2>2. PICK n \in Bad : \A m \in Bad : n <= m
    <3> HIDE DEF Bad
    <3> QED
      BY <1>7, <2>1, NatMin
  <2>3. n # 0
    <3>1. u[0] = held
      BY <1>1, <1>4
    <3>2. SubSeq(items, 1, 0) = <<>>
      OBVIOUS
    <3>3. KnownEntries(u[0], B) /\ Bytes(u[0]) = Bytes(held)
      BY <3>1
    <3>4. Bytes(SubSeq(items, 1, 0)) = 0
      BY <3>2, EmptyBytes
    <3>5. Good(0)
      <4>1. Bytes(u[0]) <= Bytes(held) + Bytes(SubSeq(items, 1, 0))
        BY <1>6, <3>3, <3>4
      <4> QED
        BY <3>3, <4>1
    <3> QED
      BY <2>2, <3>5
  <2>4. n \in 1..L /\ n - 1 \in 0..L /\ n - 1 \notin Bad /\ items[n] \in StorableItem(B)
    <3>1. n \in 1..L /\ n - 1 \in 0..L
      <4>1. n \in 0..L
        BY <2>2
      <4> QED
        BY <1>1, <2>3, <4>1
    <3>2. n - 1 \notin Bad
      <4> HIDE DEF Bad
      <4> QED
        BY <1>1, <2>1, <2>2, <3>1
    <3> QED
      BY <1>1, <3>1, <3>2
  <2>5. /\ KnownEntries(u[n - 1], B)
        /\ Bytes(u[n - 1]) <= Bytes(held) + Bytes(SubSeq(items, 1, n - 1))
    BY <2>4
  <2>6. u[n] = Host!insert(u[n - 1], items[n].key, items[n].nbytes, t, probe)
    BY <1>1, <1>4, <2>4
  <2>7. Bytes(u[n]) <= Bytes(u[n - 1]) + items[n].nbytes
    BY <2>4, <2>5, <2>6, InsertBytes
  <2>8. KnownEntries(u[n], B)
    <3>1. Inserted(u[n], u[n - 1], items[n], B)
      BY <2>4, <2>5, <2>6, InsertFacts
    <3> QED
      BY <3>1 DEF Inserted
  <2>9. /\ Bytes(SubSeq(items, 1, n)) \in Nat /\ Bytes(SubSeq(items, 1, n - 1)) \in Nat
        /\ Bytes(SubSeq(items, 1, n)) = Bytes(SubSeq(items, 1, n - 1)) + items[n].nbytes
    BY <1>5, <2>4, BytesPrefix
  <2>10. Bytes(u[n]) \in Nat /\ Bytes(u[n - 1]) \in Nat /\ items[n].nbytes \in Nat
    BY <1>5, <2>4, <2>5, <2>8, EntriesBytes
  <2>11. Bytes(u[n]) <= Bytes(held) + Bytes(SubSeq(items, 1, n))
    BY <1>6, <2>5, <2>7, <2>9, <2>10
  <2> QED
    BY <2>2, <2>8, <2>11
<1>8. Good(L)
  <2>1. L \in 0..L
    BY <1>1
  <2>2. L \notin Bad
    BY <1>7
  <2> HIDE DEF Good
  <2> QED
    BY <2>1, <2>2
<1>9. SubSeq(items, 1, L) = items
  OBVIOUS
<1> QED
  BY <1>3, <1>8, <1>9

\* What fits takes no more than the room.
LEMMA FittingBytes ==
    ASSUME NEW S, NEW items \in Seq(S), NEW room \in Nat
    PROVE  Bytes(Fitting(items, room)) <= room
<1> DEFINE fits == {n \in 0..Len(items) :
                       n = 0 \/ Host!Occupancy(SubSeq(items, 1, n)) <= room}
<1>1. Len(items) \in Nat /\ fits \subseteq 0..Len(items) /\ 0 \in fits
  OBVIOUS
<1>2. Fitting(items, room) = SubSeq(items, 1, Max(fits))
  BY DEF Fitting
<1>3. \A n \in fits : n = 0 \/ Bytes(SubSeq(items, 1, n)) <= room
  BY SameBytes
<1> HIDE DEF fits
<1>4. Max(fits) \in fits
  <2>1. \E n \in fits : \A m \in fits : n >= m
    BY <1>1, NatMax
  <2> QED
    BY <2>1 DEF Max
<1> DEFINE n == Max(fits)
<1>5. n = 0 \/ Bytes(SubSeq(items, 1, n)) <= room
  BY <1>3, <1>4
<1>6. Bytes(SubSeq(items, 1, 0)) = 0
  <2>1. SubSeq(items, 1, 0) = <<>>
    OBVIOUS
  <2> QED
    BY <2>1, EmptyBytes
<1>7. Fitting(items, room) = SubSeq(items, 1, n)
  BY <1>2
<1> HIDE DEF n
<1>8. CASE n = 0
  BY <1>6, <1>7, <1>8
<1> QED
  BY <1>5, <1>7, <1>8

\* An evict frees what its victims were charged with, and keeps none of them.
LEMMA RoomGained ==
    ASSUME policy \in TierP!POLICIES, NEW B, KnownEntries(entries, B),
           NEW probe, TierP!Sortable(entries, probe),
           NEW needed \in Nat \ {0}, NEW protected, NEW t,
           NEW out, out = Host!evict(entries, needed, protected, t, probe)
    PROVE  /\ Bytes(out.entries) + Bytes(out.victims) <= Bytes(entries)
           /\ Bytes(out.entries) \in Nat /\ Bytes(out.victims) \in Nat
           /\ Range(out.victims) \subseteq Range(entries)
           /\ Keys(out.victims) \cap Keys(out.entries) = {}
           /\ out.victims \in Seq(Range(entries)) /\ Distinct(out.victims)
<1> DEFINE alive == TierP!Expire(entries, t)
           free == TierP!Free(entries, protected, t)
           g == SizeOf(entries)
           V == Keys(out.victims)
           E == Keys(out.entries)
<1>1. TierP!Evicted(out, entries, needed, protected, t, probe)
  BY TiersAssumed, TierP!EvictTakes, SameEvict
<1>2. /\ out.victims \in Seq(Range(free)) /\ Distinct(out.victims)
      /\ out.entries = Off(alive, V) /\ E = Keys(alive) \ V
  <2>1. /\ TierP!Taken(out.victims, free, needed, probe)
        /\ out.entries = TierP!Off(alive, TierP!Keys(out.victims))
        /\ TierP!Keys(out.entries) = TierP!Keys(alive) \ TierP!Keys(out.victims)
    BY <1>1 DEF TierP!Evicted
  <2> HIDE DEF alive, free
  <2>2. out.victims \in Seq(Range(free)) /\ Distinct(out.victims)
    BY <2>1, SameHostLists DEF TierP!Taken
  <2> QED
    BY <2>1, <2>2, SameHostLists
<1>3. /\ TierP!Sortable(alive, probe)
      /\ TierP!Range(alive) = {e \in TierP!Range(entries) : ~TierP!Expired(e, t)}
      /\ TierP!Sortable(free, probe)
      /\ TierP!Range(free) = {e \in TierP!Range(entries) :
                                 ~TierP!Expired(e, t) /\ e.key \notin protected}
      /\ TierP!Keys(free) = TierP!Keys(alive) \ protected
  BY TiersAssumed, TierP!FreeFacts
<1> HIDE DEF alive, free
<1>4. /\ Range(alive) \subseteq Range(entries) /\ Range(free) \subseteq Range(entries)
      /\ alive \in Seq(Range(alive)) /\ Distinct(alive)
  BY <1>3, SameHostLists DEF TierP!Sortable
<1>5. Range(out.victims) \subseteq Range(entries)
  <2>1. \A n \in DOMAIN out.victims : out.victims[n] \in Range(free)
    BY <1>2
  <2> QED
    BY <1>4, <2>1 DEF Range
<1>6. out.victims \in Seq(Range(entries))
  <2>1. Len(out.victims) \in Nat /\ out.victims \in [1..Len(out.victims) -> Range(free)]
    BY <1>2
  <2>2. out.victims \in [1..Len(out.victims) -> Range(entries)]
    BY <1>4, <2>1
  <2> QED
    BY <2>1, <2>2
<1>7. /\ out.entries \in Seq(Range(alive)) /\ Distinct(out.entries)
      /\ Range(out.entries) \subseteq Range(entries)
  <2>1. /\ Off(alive, V) \in Seq(Range(alive)) /\ Distinct(Off(alive, V))
        /\ Range(Off(alive, V)) \subseteq Range(alive)
    <3> HIDE DEF V
    <3> QED
      BY <1>4, OffFacts
  <2> QED
    BY <1>2, <1>4, <2>1
<1>8. Sized(entries) /\ Distinct(entries) /\ entries \in Seq(Range(entries))
  <2>1. \A e \in Range(entries) : e.nbytes \in Nat
    BY DEF KnownEntries, HostEntry
  <2> QED
    BY <2>1, SizedRange DEF KnownEntries
<1>9. /\ Bytes(out.victims) = SumFunctionOnSet(g, V) /\ V \subseteq Keys(entries)
      /\ IsFiniteSet(V)
  BY <1>5, <1>6, <1>2, <1>8, BytesOfPart
<1>10. /\ Bytes(out.entries) = SumFunctionOnSet(g, E) /\ E \subseteq Keys(entries)
       /\ IsFiniteSet(E)
  BY <1>7, <1>8, BytesOfPart
<1>11. /\ Bytes(entries) = SumFunctionOnSet(g, Keys(entries))
       /\ IsFiniteSet(Keys(entries)) /\ \A k \in Keys(entries) : g[k] \in Nat
  BY <1>8, BytesOfPart
<1>12. V \cap E = {}
  BY <1>2
<1> HIDE DEF V, E, g
<1>13. SumFunctionOnSet(g, V \cup E) = SumFunctionOnSet(g, V) + SumFunctionOnSet(g, E)
  <2>1. \A k \in V \cup E : g[k] \in Int
    BY <1>9, <1>10, <1>11
  <2> QED
    BY <1>9, <1>10, <1>12, <2>1, SumUnion
<1>14. SumFunctionOnSet(g, V \cup E) <= SumFunctionOnSet(g, Keys(entries))
  <2>1. V \cup E \subseteq Keys(entries)
    BY <1>9, <1>10
  <2> DEFINE T == V \cup E
  <2> HIDE DEF T
  <2>2. T \subseteq Keys(entries)
    BY <2>1 DEF T
  <2>3. SumFunctionOnSet(g, T) <= SumFunctionOnSet(g, Keys(entries))
    BY <1>11, <2>2, SumSubset
  <2> QED
    BY <2>3 DEF T
<1>15. SumFunctionOnSet(g, V) \in Nat /\ SumFunctionOnSet(g, E) \in Nat
  <2>1. (\A k \in V : g[k] \in Nat) /\ (\A k \in E : g[k] \in Nat)
    BY <1>9, <1>10, <1>11
  <2> QED
    BY <1>9, <1>10, <2>1, SumNat
<1>16. Bytes(out.entries) + Bytes(out.victims) <= Bytes(entries)
  <2>1. SumFunctionOnSet(g, V) + SumFunctionOnSet(g, E) <= SumFunctionOnSet(g, Keys(entries))
    BY <1>13, <1>14
  <2>2. SumFunctionOnSet(g, Keys(entries)) \in Nat
    BY <1>11, SumNat
  <2> QED
    BY <1>9, <1>10, <1>11, <1>15, <2>1, <2>2
<1> QED
  BY <1>2, <1>5, <1>6, <1>9, <1>10, <1>12, <1>15, <1>16 DEF V, E

\* A batch evicts nothing that it keeps or stores.  It fits beside what it keeps, if no
\* victim gives more room (bytes) than it was charged with.
LEMMA BatchFits ==
    ASSUME policy \in TierP!POLICIES, Capacity \in Nat, NEW B, KnownEntries(entries, B),
           Bytes(entries) <= Capacity,
           NEW keys, NEW bytes, Items(keys, bytes) \in Seq(StorableItem(B)),
           NEW t \in Nat, NEW probe, TierP!Sortable(entries, probe),
           NEW batch, batch = StoreBatch(keys, bytes, t, probe)
    PROVE  /\ batch.victims \cap Keys(batch.entries) = {}
           /\ (\A e \in Range(entries) : e.key \in batch.victims =>
                  bytes[e.key] \in Nat /\ bytes[e.key] <= e.nbytes)
                => Bytes(batch.entries) <= Capacity
<1> DEFINE S == StorableItem(B)
           unheld == Off(Items(keys, bytes), Keys(entries))
           fresh == Fresh(keys, bytes, probe)
           needed == Host!Occupancy(fresh) - FreeRoom
           asked == MustEvict(fresh, needed)
           evicted == MakeRoom(fresh, needed, t, probe)
           none == asked /\ evicted.victims = <<>>
           gained == SumFunctionOnSet(bytes, Host!Keys(evicted.victims))
           stored == IF none THEN <<>> ELSE Fitting(fresh, FreeRoom + gained)
           vs == evicted.victims
           es == evicted.entries
<1>1. /\ batch.entries = InsertedAll(es, stored, t, probe)
      /\ batch.victims = Keys(vs)
  BY SameLists DEF StoreBatch, StoreFresh, Store, Fill
<1>2. fresh \in Seq(S) /\ Keys(fresh) \cap Keys(entries) = {}
  <2>1. unheld \in Seq(S) /\ Keys(unheld) = Keys(Items(keys, bytes)) \ Keys(entries)
    BY OffFacts
  <2>2. Host!Off(Items(keys, bytes), HostKeys) = unheld
    BY SameLists DEF HostKeys
  <2>3. <<>> \in Seq(S) /\ Keys(<<>>) = {}
    BY DEF Keys
  <2> HIDE DEF S, unheld
  <2>4. fresh = unheld \/ fresh = <<>>
    BY <2>2 DEF Fresh, Host!admit_chain
  <2> HIDE DEF fresh
  <2> QED
    BY <2>1, <2>3, <2>4
<1>3. \A b \in S : b.nbytes \in Nat
  BY DEF StorableItem
<1> HIDE DEF unheld, fresh
<1>4. Bytes(entries) \in Nat /\ Bytes(fresh) \in Nat
  BY <1>2, <1>3, EntriesBytes, BytesNat
<1>5. FreeRoom = Capacity - Bytes(entries) /\ FreeRoom \in Nat
  <2>1. FreeRoom = IF 0 > Capacity - Bytes(entries) THEN 0 ELSE Capacity - Bytes(entries)
    BY SameBytes DEF FreeRoom, Host!Larger
  <2> QED
    BY <1>4, <2>1
<1>6. asked => needed \in Nat \ {0}
  <2>1. needed = Bytes(fresh) - FreeRoom
    BY SameBytes
  <2>2. needed \in Int
    BY <1>4, <1>5, <2>1
  <2> HIDE DEF needed
  <2> QED
    BY <2>2 DEF MustEvict
<1>7. /\ asked => evicted = Host!evict(entries, needed, Host!Keys(fresh), t, probe)
      /\ ~asked => es = entries /\ vs = <<>>
  BY DEF MakeRoom
<1> HIDE DEF needed, asked, evicted
<1>8. /\ KnownEntries(es, B) /\ Keys(es) \subseteq Keys(entries)
      /\ Bytes(es) + Bytes(vs) <= Bytes(entries) /\ Bytes(es) \in Nat /\ Bytes(vs) \in Nat
      /\ Range(vs) \subseteq Range(entries) /\ Keys(vs) \cap Keys(es) = {}
      /\ vs \in Seq(Range(entries)) /\ Distinct(vs)
  <2>1. CASE asked
    <3>1. /\ KnownEntries(es, B) /\ Keys(es) \subseteq Keys(entries)
      BY <1>7, <2>1, EvictFacts
    <3>2. /\ Bytes(es) + Bytes(vs) <= Bytes(entries) /\ Bytes(es) \in Nat /\ Bytes(vs) \in Nat
          /\ Range(vs) \subseteq Range(entries) /\ Keys(vs) \cap Keys(es) = {}
          /\ vs \in Seq(Range(entries)) /\ Distinct(vs)
      BY <1>6, <1>7, <2>1, RoomGained
    <3> QED
      BY <3>1, <3>2
  <2>2. CASE ~asked
    <3>1. es = entries /\ vs = <<>>
      BY <1>7, <2>2
    <3> HIDE DEF es, vs
    <3>2. /\ Keys(<<>>) = {} /\ Range(<<>>) = {} /\ Distinct(<<>>)
          /\ <<>> \in Seq(Range(entries)) /\ Bytes(<<>>) = 0
      BY EmptyBytes DEF Keys, Range, Distinct
    <3> QED
      BY <1>4, <3>1, <3>2
  <2> QED
    BY <2>1, <2>2
<1>9. Keys(vs) \subseteq Keys(entries)
  BY <1>8, KeysOfRange
<1>10. stored \in Seq(S) /\ Keys(stored) \subseteq Keys(fresh)
  <2>1. <<>> \in Seq(S) /\ Keys(<<>>) = {}
    BY DEF Keys
  <2> HIDE DEF S, none, gained
  <2> QED
    BY <1>2, <2>1, FittingFacts
<1> HIDE DEF stored, es
<1>11. KnownEntries(batch.entries, B) /\ Keys(batch.entries) = Keys(es) \cup Keys(stored)
  BY <1>1, <1>8, <1>10, InsertedFacts DEF S
<1>12. batch.victims \cap Keys(batch.entries) = {}
  BY <1>1, <1>2, <1>8, <1>9, <1>10, <1>11
<1>13. ASSUME \A e \in Range(entries) : e.key \in batch.victims =>
                 bytes[e.key] \in Nat /\ bytes[e.key] <= e.nbytes
       PROVE  Bytes(batch.entries) <= Capacity
  <2>1. ASSUME NEW k \in Keys(vs)
        PROVE  /\ SizeOf(vs)[k] \in Nat /\ bytes[k] \in Nat /\ bytes[k] <= SizeOf(vs)[k]
    <3>1. PICK i \in DOMAIN vs : vs[i].key = k
      BY DEF Keys
    <3>2. SizeOf(vs)[k] = vs[i].nbytes
      BY <1>8, <3>1, SizeOfKey
    <3>3. vs[i] \in Range(entries)
      BY <1>8 DEF Range
    <3>4. vs[i].nbytes \in Nat
      BY <3>3 DEF KnownEntries, HostEntry
    <3>5. bytes[k] \in Nat /\ bytes[k] <= vs[i].nbytes
      BY <1>1, <1>13, <3>1, <3>3
    <3> QED
      BY <3>2, <3>4, <3>5
  <2>2. Sized(vs) /\ vs \in Seq(Range(vs))
    <3>1. \A e \in Range(vs) : e.nbytes \in Nat
      BY <1>8 DEF KnownEntries, HostEntry
    <3>2. Len(vs) \in Nat /\ vs \in [1..Len(vs) -> Range(vs)]
      BY <1>8 DEF Range
    <3> QED
      BY <3>1, <3>2, SizedRange
  <2> HIDE DEF vs
  <2>3. Bytes(vs) = SumFunctionOnSet(SizeOf(vs), Keys(vs)) /\ IsFiniteSet(Keys(vs))
    BY <1>8, <2>2, BytesOfPart
  <2>4. SumFunctionOnSet(bytes, Keys(vs)) <= Bytes(vs)
    <3>1. \A k \in Keys(vs) : /\ SizeOf(vs)[k] \in Int /\ bytes[k] \in Int
                              /\ bytes[k] <= SizeOf(vs)[k]
      BY <2>1
    <3> QED
      BY <2>3, <3>1, SumMono
  <2>5. SumFunctionOnSet(bytes, Keys(vs)) \in Nat
    BY <2>1, <2>3, SumNat
  <2>6. gained = SumFunctionOnSet(bytes, Keys(vs))
    BY SameLists DEF vs
  <2> HIDE DEF gained
  <2>7. Bytes(stored) <= FreeRoom + gained
    <3>1. FreeRoom + gained \in Nat
      BY <1>5, <2>5, <2>6
    <3>2. Bytes(Fitting(fresh, FreeRoom + gained)) <= FreeRoom + gained
      BY <1>2, <3>1, FittingBytes
    <3>3. 0 <= FreeRoom + gained
      BY <3>1
    <3>4. stored = <<>> \/ stored = Fitting(fresh, FreeRoom + gained)
      BY DEF stored
    <3> QED
      BY <3>2, <3>3, <3>4, EmptyBytes
  <2>8. Bytes(stored) \in Nat
    BY <1>3, <1>10, BytesNat
  <2>9. Bytes(batch.entries) <= Bytes(es) + Bytes(stored)
    BY <1>1, <1>8, <1>10, InsertedBytes DEF S
  <2>10. Bytes(batch.entries) \in Nat
    BY <1>11, EntriesBytes
  <2>11. Bytes(es) \in Nat /\ Bytes(vs) \in Nat /\ Bytes(es) + Bytes(vs) <= Bytes(entries)
    BY <1>8 DEF vs
  <2> QED
    BY <1>4, <1>5, <2>4, <2>5, <2>6, <2>7, <2>8, <2>9, <2>10, <2>11
<1> QED
  BY <1>12, <1>13

\* What the last turns have left of lifetimes: times to sort by.
LifeInv ==
    /\ \E latest \in Nat : tool_eta \in [Session -> 0..latest]
    /\ \A e \in Range(entries) : e.expires_at \in Int

LEMMA LifeInit == ASSUME Init PROVE LifeInv
<1>1. tool_eta \in [Session -> 0..0] /\ Range(entries) = {}
  BY DEF Init, Range
<1>2. \E latest \in Nat : tool_eta \in [Session -> 0..latest]
  <2>1. 0 \in Nat
    OBVIOUS
  <2> QED
    BY <1>1, <2>1
<1> QED
  BY <1>1, <1>2 DEF LifeInv

LEMMA AnyLifetime ==
    ASSUME NEW k, NEW n \in Nat, NEW t \in Nat, NEW probe,
           probe.chain_bytes[k] \in Nat, probe.session_eta[k] \in Nat
    PROVE  Host!expiry(k, n, t, probe) \in Int
<1>1. CASE policy = "continuum_ttl"
  BY <1>1, LifetimeReaches
<1>2. CASE policy = "fixed_ttl"
  <2>1. Host!expiry(k, n, t, probe) = t + BaseTtl + TtlPerByte * n
    BY <1>2 DEF Host!expiry
  <2>2. BaseTtl \in Nat /\ TtlPerByte \in Nat
    BY ReplayAssumption
  <2>3. TtlPerByte * n \in Nat
    BY <2>2
  <2> QED
    BY <2>1, <2>2, <2>3
<1>3. CASE policy \notin {"fixed_ttl", "continuum_ttl"}
  BY <1>3, NoLifetime DEF Host!Never
<1> QED
  BY <1>1, <1>2, <1>3

\* What a turn evicts was charged with all that the block takes.
VictimsAsCharged ==
    \A e \in ToSet(entries) :
        (e.key \in Left /\ RecordedNow(e.key)) => BytesOf(e.key)' <= e.nbytes

\* A turn gives what it touches a lifetime, and overcommits the tier only at the expense
\* of blocks that have grown.
LEMMA CapacityTurn ==
    ASSUME TiersInv, LifeInv, Turn
    PROVE  LifeInv' /\ (HostFits /\ VictimsAsCharged => HostFits')
<1>1. /\ IndexP!IndexInv /\ IndexP!IndexInv' /\ policy' = policy
      /\ KnownEntries(entries, blocks) /\ IsFiniteSet(DOMAIN blocks)
  BY TurnInv DEF TiersInv, ReplayInv, Turn
<1>2. PICK turn \in Turns[policy], gap \in Gaps : now + gap <= LastTime /\ One(turn, now + gap)
  BY DEF Turn
<1> DEFINE t == now + gap
           s0 == turn.session
           keys == session_path'[s0]
           K == Index!Elems(keys)
<1>3. /\ turn \in TurnRecord /\ s0 \in Session /\ now \in Nat /\ t \in Nat /\ now <= t
      /\ turn.eta \in Nat \cup {NoEta}
  <2>1. turn \in TurnRecord /\ gap \in Nat /\ now \in Nat
    BY <1>1, ReplayAssumption DEF TiersInv, ReplayInv, IndexP!IndexInv, IndexP!TypeOK
  <2> QED
    BY <2>1 DEF TurnRecord
<1> HIDE DEF t
<1>4. /\ tool_eta' = IF turn.eta = NoEta THEN tool_eta
                     ELSE [tool_eta EXCEPT ![s0] = turn.eta]
      /\ Fills(keys, Tokens', t)
  BY <1>1, <1>2 DEF One, Tokens, t
<1>5. Touched(keys, t)
  <2>1. IndexP!TypeOK /\ IndexP!HistoryInv /\ t \in now..LastTime
    BY <1>1, <1>2, <1>3, ReplayAssumption DEF TiersInv, IndexP!IndexInv, t
  <2>2. IndexP!touch_path(s0, turn.role, turn.prompt, turn.shared, t, turn.aborted)
    BY <1>2, <1>3, SameRequest DEF One, TurnRecord, t
  <2> QED
    BY <1>3, <2>1, <2>2, RequestTouches DEF TurnRecord
<1>6. PICK latest \in Nat : tool_eta' \in [Session -> 0..latest]
  <2>1. PICK n \in Nat : tool_eta \in [Session -> 0..n]
    BY DEF LifeInv
  <2>2. CASE turn.eta = NoEta
    BY <1>4, <2>1, <2>2
  <2>3. CASE turn.eta # NoEta
    <3>1. turn.eta \in Nat /\ n + turn.eta \in Nat
      BY <1>3, <2>3
    <3>2. \A s \in Session : tool_eta'[s] \in 0..(n + turn.eta)
      BY <1>3, <1>4, <2>1, <2>3, <3>1
    <3>3. tool_eta' \in [Session -> 0..(n + turn.eta)]
      BY <1>4, <2>1, <2>3, <3>2
    <3> QED
      BY <3>1, <3>3
  <2> QED
    BY <2>2, <2>3
<1> HIDE DEF keys
<1>7. PICK p \in Estimates(Index!Elems(keys) \cup HostKeys) :
          \E probe \in {ProbeWith(p)} : \E batch \in {StoreBatch(keys, Tokens', t, probe)} :
              HostFill(keys, t, batch, probe) /\ last' = Metric(keys, batch)
  BY <1>4 DEF Fills
<1>8. PICK probe, batch :
          /\ probe = ProbeWith(p)
          /\ batch = StoreBatch(keys, Tokens', t, probe) /\ HostFill(keys, t, batch, probe)
  BY <1>7
<1> DEFINE B == blocks'
           bytes == Tokens'
<1>9. /\ Items(keys, bytes) \in Seq(StorableItem(B)) /\ Keys(Items(keys, bytes)) = K
      /\ KnownEntries(entries, B) /\ Capacity \in Nat /\ IsFiniteSet(DOMAIN B)
  <2>1. Keys(Items(keys, bytes)) = Range(keys) /\ Items(keys, bytes) \in Seq(StorableItem(B))
    BY <1>5, TouchedItems
  <2> QED
    BY <1>1, <1>5, <2>1, EntriesGrow, TouchedFinite, ReplayAssumption DEF Index!Elems, Range
<1>10. \A k \in DOMAIN B : probe.chain_bytes[k] \in Nat /\ probe.session_eta[k] \in Nat
  BY <1>1, <1>5, <1>6, <1>8, <1>9, ProbeLifetimes
<1>11. TierP!Sortable(entries, probe)
  BY <1>1, <1>5, <1>8, ProbeSorts DEF LifeInv, TiersInv
<1>12. \A k \in DOMAIN B : bytes[k] = BytesOf(k)' /\ bytes[k] \in Nat
  BY <1>5 DEF Tokens, BytesOf, Touched
<1>13. batch = StoreBatch(keys, bytes, t, probe)
  BY <1>8
<1> HIDE DEF B, bytes, K
<1>14. /\ KnownEntries(batch.entries, B)
       /\ \A e \in Range(batch.entries) : e.key \in K \/ e \in Range(entries)
  BY <1>3, <1>9, <1>13, BatchFacts
<1>15. /\ entries' = Host!touch(batch.entries, K, t, probe)
       /\ left_host_at' = Stamp(left_host_at, batch.victims, t) /\ now' = t
  BY <1>5, <1>8 DEF HostFill, K, Touched
<1>16. TouchedList(entries', batch.entries, K, t, B)
  BY <1>3, <1>14, <1>15, TouchFacts
<1>17. ASSUME NEW e \in Range(entries') PROVE e.expires_at \in Int
  <2>1. CASE e.key \in K
    <3>1. PICK n \in Nat : e.key \in DOMAIN B /\ e.expires_at = Host!expiry(e.key, n, t, probe)
      BY <1>3, <1>14, <1>15, <2>1, TouchedLifetimes
    <3> QED
      BY <1>3, <1>10, <3>1, AnyLifetime
  <2>2. CASE e.key \notin K
    <3>1. e \in Range(entries)
      BY <1>14, <1>16, <2>2 DEF TouchedList
    <3> QED
      BY <3>1 DEF LifeInv
  <2> QED
    BY <2>1, <2>2
<1>18. LifeInv'
  BY <1>6, <1>17 DEF LifeInv
<1>19. ASSUME HostFits, VictimsAsCharged PROVE HostFits'
  <2>1. Bytes(entries) <= Capacity /\ policy \in TierP!POLICIES
    BY <1>19, SameBytes, KnownPolicies DEF HostFits, TiersInv, ReplayInv, TierP!POLICIES,
       Host!POLICIES
  <2>2. /\ batch.victims \cap Keys(batch.entries) = {}
        /\ (\A e \in Range(entries) : e.key \in batch.victims =>
               bytes[e.key] \in Nat /\ bytes[e.key] <= e.nbytes)
             => Bytes(batch.entries) <= Capacity
    BY <1>3, <1>9, <1>11, <1>13, <2>1, BatchFits
  <2>3. HostKeys = Keys(entries) /\ HostKeys' = Keys(batch.entries)
    BY <1>16, SameLists DEF HostKeys, TouchedList
  <2>4. ASSUME NEW e \in Range(entries), e.key \in batch.victims
        PROVE  bytes[e.key] \in Nat /\ bytes[e.key] <= e.nbytes
    <3>1. e.key \in Left
      BY <2>2, <2>3, <2>4, KeysOfRange DEF Left
    <3>2. RecordedNow(e.key)
      BY <1>15, <2>4 DEF Stamp, RecordedNow
    <3>3. e \in ToSet(entries)
      BY DEF ToSet, Range
    <3>4. BytesOf(e.key)' <= e.nbytes
      BY <1>19, <3>1, <3>2, <3>3 DEF VictimsAsCharged
    <3>5. e.key \in DOMAIN B
      BY <1>9 DEF KnownEntries, HostEntry
    <3> QED
      BY <1>12, <3>4, <3>5
  <2>5. Bytes(batch.entries) <= Capacity
    BY <2>2, <2>4
  <2>6. Bytes(entries') = Bytes(batch.entries)
    BY <1>14, <1>15, TouchBytes
  <2> QED
    BY <2>5, <2>6, SameBytes DEF HostFits
<1> QED
  BY <1>18, <1>19

LEMMA CapacityNext ==
    ASSUME TiersInv, LifeInv, [Next]_vars
    PROVE  LifeInv' /\ (HostFits /\ VictimsAsCharged => HostFits')
<1>1. CASE UNCHANGED <<entries, tool_eta>>
  BY <1>1 DEF LifeInv, HostFits
<1>2. Finish \/ UNCHANGED vars => UNCHANGED <<entries, tool_eta>>
  BY DEF Finish, vars
<1> QED
  BY <1>1, <1>2, CapacityTurn DEF Next

\* The host tier is over its capacity only where an evict has counted on a block that has
\* grown since its entry was charged: it stays within it, whatever the policy, as long as
\* nothing is evicted that takes more now.
THEOREM HostFitsAsCharged == Spec /\ [][VictimsAsCharged]_vars => []HostFits
<1>1. Init => TiersInv /\ LifeInv /\ HostFits
  <2>1. Init => HostFits
    <3>1. Init => entries = <<>> /\ Capacity \in Nat
      BY ReplayAssumption DEF Init
    <3>2. Bytes(<<>>) = 0 /\ Host!Occupancy(<<>>) = Bytes(<<>>)
      BY EmptyBytes, SameBytes
    <3> QED
      BY <3>1, <3>2 DEF HostFits
  <2> QED
    BY <2>1, TiersInit, LifeInit
<1>2. (TiersInv /\ LifeInv /\ HostFits) /\ [Next]_vars /\ [VictimsAsCharged]_vars
         => (TiersInv /\ LifeInv /\ HostFits)'
  <2>1. UNCHANGED vars => (HostFits => HostFits')
    BY DEF vars, HostFits
  <2> QED
    BY <2>1, TiersNext, CapacityNext
<1> QED
  BY <1>1, <1>2, PTL DEF Spec

================================================================================
