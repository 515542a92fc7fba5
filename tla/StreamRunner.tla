------------------------------ MODULE StreamRunner -------------------------------
(***************************************************************************)
(* The offline replay of src/experiments/offload_replay_real.py: sessions  *)
(* that grow by one block a turn over a prefix their role shares, merged in*)
(* any order, each turn one touch_stream against the manager, here with    *)
(* SessionTtlPolicy.  A turn's transfers end inside it.                    *)
(*                                                                         *)
(* The clock is the one the replay puts in place of time.monotonic before  *)
(* every turn: the n-th reading after advance(gap) is n * gap, counted from*)
(* a fixed epoch.  now is the last reading.                                *)
(***************************************************************************)
EXTENDS SessionTtl, ItemLists

CONSTANTS
    Session,
    RoleOf,     \* session -> role it stamps on its requests
    Prefix,     \* session -> sequence of keys it shares with others
    Own,        \* session -> its own keys, in the order of its turns
    MaxGap,     \* bound on the seconds between two turns, for model checking
    MaxTurns    \* turns of a session, for model checking

\* No session has one block twice, and each has a block of its own for each of
\* its turns; every session of the replay declares a role.
ASSUME RunnerAssumption ==
    /\ MaxGap \in Nat /\ MaxTurns \in Nat
    /\ Prefix \in [Session -> Seq(Key)] /\ Own \in [Session -> Seq(Key)]
    /\ \A s \in Session :
          /\ MaxTurns <= Len(Own[s])
          /\ IsInjective(Prefix[s] \o Own[s])
          /\ RoleOf[s] # NoRole

VARIABLES
    served,     \* session -> blocks it believes are in RAM
    hits, misses, stored, wasted_stores,
    turn        \* session -> its turns so far

vars == <<ttlVars, served, hits, misses, stored, wasted_stores, turn>>

\* The blocks of the context of session s at its next turn.
Context(s) == Prefix[s] \o SubSeq(Own[s], 1, turn[s] + 1)

RunnerInit ==
    /\ Init
    /\ served = [s \in Session |-> {}]
    /\ hits = 0 /\ misses = 0 /\ stored = 0 /\ wasted_stores = 0
    /\ turn = [s \in Session |-> 0]

\* Displaced blocks that count as wasted: any that some session has stored.
Wasted(victims) == victims \cap UNION {served[t] : t \in Session}

\* Readings that touch and then evict, if it has to find room, take of the clock.
ReadingsBefore(cold) == IF Shortfall(Range(cold)) = 0 THEN 1 ELSE 2

\* The cold blocks are inserted in order, each insert taking its own reading.
Inserted(lapse, cold, gap) ==
    [k \in DOMAIN lapse \cup Range(cold) |->
        IF k \in DOMAIN lapse THEN lapse[k]
        ELSE (ReadingsBefore(cold) + CHOOSE i \in DOMAIN cold : cold[i] = k) * gap
                 + DefaultTtl]

\* The victims prepare_store may take for the cold blocks, all at one reading.
Answers(cold, lapse, gap) == evict(Shortfall(Range(cold)), Range(cold), lapse, 2 * gap)

\* Room is found: the cold blocks are stored and their transfers complete.
StoreCold(s, cold, lapse, roles, gap) ==
    \E victims \in Answers(cold, lapse, gap) :
        /\ blocks' = Extended(Without(blocks, victims), Range(cold), 0)
        /\ expires' = Inserted(Without(lapse, victims), cold, gap)
        /\ role' = Without(roles, victims)
        /\ stored' = stored + Len(cold)
        /\ wasted_stores' = wasted_stores + Cardinality(Wasted(victims))
        /\ now' = (ReadingsBefore(cold) + Len(cold)) * gap

\* prepare_store answers None: only the touch has an effect.
RefuseCold(cold, lapse, roles, gap) ==
    /\ Answers(cold, lapse, gap) = {}
    /\ expires' = lapse /\ role' = roles
    /\ now' = 2 * gap
    /\ UNCHANGED <<blocks, stored, wasted_stores>>

\* One turn after advance(gap): look every block up, load the hits, touch all,
\* store the cold ones.  A load that has ended leaves its block evictable.
touch_stream(s, keys, r, gap) ==
    LET cold == Sublist(keys, {i \in DOMAIN keys : keys[i] \notin Held})
        lapse == Refreshed(Range(keys), r, gap)
        roles == Declared(Range(keys), r)
    IN  /\ hits' = hits + Len(keys) - Len(cold)
        /\ misses' = misses + Len(cold)
        /\ StoreCold(s, cold, lapse, roles, gap) \/ RefuseCold(cold, lapse, roles, gap)
        /\ served' = [served EXCEPT ![s] = @ \cup Range(cold)]
        /\ UNCHANGED pinned

Turn(s) ==
    /\ turn[s] < MaxTurns
    /\ turn' = [turn EXCEPT ![s] = @ + 1]
    /\ \E gap \in 0..MaxGap : touch_stream(s, Context(s), RoleOf[s], gap)

RunnerNext == \E s \in Session : Turn(s)

RunnerSpec == RunnerInit /\ [][RunnerNext]_vars

(***************************************************************************)
(* Properties                                                              *)
(***************************************************************************)
\* The lifetime a block has been given last when session s makes its turn.
DeclaredAt(k, s) ==
    CASE k \in Range(Context(s)) -> Lifetime(RoleOf[s])
      [] k \notin Range(Context(s)) /\ k \in DOMAIN role -> Lifetime(role[k])
      [] OTHER -> DefaultTtl

\* No reading of the clock is later than this.
LastReading(s) == (2 + Len(Prefix[s]) + MaxTurns) * MaxGap

\* Lifetimes that differ at all differ by more than the replay's clock ever shows.
LifetimesApart ==
    \A L, M \in {Ttl[r] : r \in DOMAIN Ttl} \cup {DefaultTtl}, s \in Session :
        L < M => L + LastReading(s) < M

\* As long as lifetimes differ by more than the replay's clock ever shows, a
\* block whose role declares a longer one is not displaced while one with a
\* shorter one stays, however recently each was used.
LongerLivedStay ==
    [][\A s \in Session : turn'[s] # turn[s] =>
          \A v \in Held \ DOMAIN blocks', k \in Held \cap DOMAIN blocks' :
              DeclaredAt(v, s) <= DeclaredAt(k, s)]_vars

\* The virtual clock moves forward.
ClockMovesForward == [][now' >= now]_vars
================================================================================
