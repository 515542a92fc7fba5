--------------------------- MODULE SyntheticMixProofs ----------------------------
(***************************************************************************)
(* What the index records of the aborts of a generated workload, for any   *)
(* number of sessions and turns, any sizes and any block size, as long as  *)
(* a coding turn adds at least a block.                                    *)
(***************************************************************************)
EXTENDS SyntheticMix, PrefixIndexProofs

\* True of the defaults: 0.4 * coding_turn_tokens = 880 tokens, and a block of 816.
GrowsByABlock == \A g \in Growths : g >= BlockTokens

(***************************************************************************)
(* How many blocks a prompt takes                                          *)
(***************************************************************************)
PathLength(prompt, sh) ==
    BlocksOf(Lesser(sh, prompt)) + BlocksOf(prompt - Lesser(sh, prompt))

\* More tokens never take fewer blocks.
LEMMA BlocksOfMonotone ==
    ASSUME NEW m \in Nat, NEW n \in Nat, m <= n
    PROVE  BlocksOf(m) <= BlocksOf(n)
<1>1. BlockTokens \in Nat /\ BlockTokens > 0
  BY IndexAssumption
<1> DEFINE x == BlocksOf(m)
           y == BlocksOf(n)
<1>2. x \in Nat /\ x * BlockTokens < m + BlockTokens
  BY BlocksOfBounds
<1>3. y \in Nat /\ y * BlockTokens >= n
  BY BlocksOfBounds
<1> HIDE DEF x, y
<1>4. x * BlockTokens < (y + 1) * BlockTokens
  <2>1. (y + 1) * BlockTokens = y * BlockTokens + BlockTokens
    BY <1>1, <1>3
  <2> QED
    BY <1>1, <1>2, <1>3, <2>1
<1>5. x < y + 1
  <2>1. SUFFICES ASSUME x >= y + 1 PROVE x * BlockTokens >= (y + 1) * BlockTokens
    BY <1>1, <1>2, <1>3, <1>4
  <2> QED
    BY <2>1, <1>1, <1>2, <1>3
<1>6. x <= y
  BY <1>2, <1>3, <1>5
<1> QED
  BY <1>6 DEF x, y

\* A longer prompt never takes a shorter path.
LEMMA PathLengthMonotone ==
    ASSUME NEW sh \in Nat, NEW p \in Nat, NEW q \in Nat, p <= q
    PROVE  PathLength(p, sh) <= PathLength(q, sh)
<1> DEFINE sp == Lesser(sh, p)
           sq == Lesser(sh, q)
<1>1. sp \in Nat /\ sq \in Nat /\ p - sp \in Nat /\ q - sq \in Nat
  BY DEF Lesser
<1>2. sp <= sq /\ p - sp <= q - sq
  BY DEF Lesser
<1> HIDE DEF sp, sq
<1>3. BlocksOf(sp) <= BlocksOf(sq) /\ BlocksOf(p - sp) <= BlocksOf(q - sq)
  BY <1>1, <1>2, BlocksOfMonotone
<1>4. /\ BlocksOf(sp) \in Nat /\ BlocksOf(p - sp) \in Nat
      /\ BlocksOf(sq) \in Nat /\ BlocksOf(q - sq) \in Nat
  BY <1>1, BlocksOfBounds
<1>5. BlocksOf(sp) + BlocksOf(p - sp) <= BlocksOf(sq) + BlocksOf(q - sq)
  BY <1>3, <1>4
<1> QED
  BY <1>5 DEF PathLength, sp, sq

\* A prompt that is c tokens shorter, less at least a block that it has grown by,
\* takes no more than the blocks of c fewer, shared root or not.
LEMMA PathLengthCut ==
    ASSUME NEW sh \in Nat, NEW p \in Nat, NEW q \in Nat, NEW c \in Nat,
           p + BlockTokens <= q + c
    PROVE  PathLength(p, sh) - PathLength(q, sh) <= BlocksOf(c)
<1>1. BlockTokens \in Nat /\ BlockTokens > 0
  BY IndexAssumption
<1> DEFINE sp == Lesser(sh, p)
           sq == Lesser(sh, q)
           a == BlocksOf(sp)
           b == BlocksOf(p - sp)
           d == BlocksOf(sq)
           e == BlocksOf(q - sq)
           f == BlocksOf(c)
<1>2. sp \in Nat /\ sq \in Nat /\ p - sp \in Nat /\ q - sq \in Nat
  BY DEF Lesser
<1> HIDE DEF sp, sq
<1>3. a \in Nat /\ a * BlockTokens < sp + BlockTokens
  BY <1>2, BlocksOfBounds
<1>4. b \in Nat /\ b * BlockTokens < (p - sp) + BlockTokens
  BY <1>2, BlocksOfBounds
<1>5. d \in Nat /\ d * BlockTokens >= sq
  BY <1>2, BlocksOfBounds
<1>6. e \in Nat /\ e * BlockTokens >= q - sq
  BY <1>2, BlocksOfBounds
<1>7. f \in Nat /\ f * BlockTokens >= c
  BY BlocksOfBounds
<1> HIDE DEF a, b, d, e, f
<1>8. a * BlockTokens + b * BlockTokens < d * BlockTokens + e * BlockTokens
                                          + f * BlockTokens + BlockTokens
  <2>1. /\ a * BlockTokens \in Nat /\ b * BlockTokens \in Nat /\ d * BlockTokens \in Nat
        /\ e * BlockTokens \in Nat /\ f * BlockTokens \in Nat
    BY <1>1, <1>3, <1>4, <1>5, <1>6, <1>7
  <2> QED
    BY <2>1, <1>1, <1>2, <1>3, <1>4, <1>5, <1>6, <1>7
<1>9. (a + b) * BlockTokens < (d + e + f + 1) * BlockTokens
  <2>1. (a + b) * BlockTokens = a * BlockTokens + b * BlockTokens
    BY <1>1, <1>3, <1>4
  <2>2. (d + e + f + 1) * BlockTokens =
            d * BlockTokens + e * BlockTokens + f * BlockTokens + BlockTokens
    BY <1>1, <1>5, <1>6, <1>7
  <2> QED
    BY <2>1, <2>2, <1>8
<1>10. a + b < d + e + f + 1
  <2>1. SUFFICES ASSUME a + b >= d + e + f + 1
                 PROVE  (a + b) * BlockTokens >= (d + e + f + 1) * BlockTokens
    BY <1>1, <1>3, <1>4, <1>5, <1>6, <1>7, <1>9
  <2> DEFINE u == a + b
             v == d + e + f + 1
  <2>2. u \in Nat /\ v \in Nat /\ u >= v
    BY <2>1, <1>3, <1>4, <1>5, <1>6, <1>7
  <2> HIDE DEF u, v
  <2>3. u * BlockTokens >= v * BlockTokens
    BY <2>2, <1>1
  <2> QED
    BY <2>3 DEF u, v
<1>11. (a + b) - (d + e) <= f
  BY <1>3, <1>4, <1>5, <1>6, <1>7, <1>10
<1> QED
  BY <1>11 DEF PathLength, a, b, d, e, f, sp, sq

(***************************************************************************)
(* The path of a coding session                                            *)
(***************************************************************************)
PathAt(s, prompt) == KeysOf(chain(s, RoleOf[s], prompt, Root[RoleOf[s]]))
LengthAt(s, prompt) == PathLength(prompt, Root[RoleOf[s]])

\* It has the length the prompt asks for, and its keys are numbered through.
LEMMA PathAtShape ==
    ASSUME MixAssumption, NEW s \in Session, NEW prompt \in Nat
    PROVE  /\ LengthAt(s, prompt) \in Nat
           /\ DOMAIN PathAt(s, prompt) = 1..LengthAt(s, prompt)
           /\ Len(PathAt(s, prompt)) = LengthAt(s, prompt)
           /\ \A i \in 1..LengthAt(s, prompt) : PathAt(s, prompt)[i][2] = i - 1
<1> DEFINE sh == Root[RoleOf[s]]
           shared == Lesser(sh, prompt)
           base == BlocksOf(shared)
           n == LengthAt(s, prompt)
           parts == chain(s, RoleOf[s], prompt, sh)
<1>1. sh \in Nat
  BY DEF MixAssumption
<1>2. shared \in Nat /\ prompt - shared \in Nat
  BY <1>1 DEF Lesser
<1>3. base \in Nat /\ BlocksOf(prompt - shared) \in Nat
  BY <1>2, BlocksOfBounds
<1>4. n = base + BlocksOf(prompt - shared) /\ n \in Nat
  BY <1>3 DEF LengthAt, PathLength
<1>5. parts = [i \in 1..n |->
                  IF i <= base
                  THEN [key |-> <<RoleOf[s], i - 1>>, tokens |-> PartTokens(shared, i - 1)]
                  ELSE [key |-> <<s, i - 1>>,
                        tokens |-> PartTokens(prompt - shared, i - 1 - base)]]
  BY <1>4 DEF chain
<1> HIDE DEF n, base, shared, sh
<1>6. \A i \in 1..n : parts[i].key[2] = i - 1
  <2> TAKE i \in 1..n
  <2>1. CASE i <= base
    BY <1>5, <2>1
  <2>2. CASE ~(i <= base)
    BY <1>5, <2>2
  <2> QED
    BY <2>1, <2>2
<1>7. DOMAIN parts = 1..n
  BY <1>5
<1> DEFINE keys == PathAt(s, prompt)
<1>8. keys = [i \in 1..n |-> parts[i].key]
  BY <1>7 DEF PathAt, KeysOf, sh
<1> HIDE DEF parts, keys
<1>9. DOMAIN keys = 1..n /\ Len(keys) = n /\ \A i \in 1..n : keys[i][2] = i - 1
  BY <1>4, <1>6, <1>8
<1> QED
  BY <1>4, <1>9 DEF keys, n

\* What a turn does to the paths and to what the index records of aborts.
LEMMA TurnFacts ==
    ASSUME NEW s \in Session, NEW prompt, NEW sh, NEW t, NEW mark,
           touch_path(s, RoleOf[s], prompt, sh, t, mark)
    PROVE  LET keys == KeysOf(chain(s, RoleOf[s], prompt, sh))
               old  == session_path[s]
           IN  /\ session_path' = [session_path EXCEPT ![s] = keys]
               /\ invalidations' =
                     IF mark /\ Len(keys) < Len(old)
                     THEN invalidations \cup {old[i] : i \in (Len(keys) + 1)..Len(old)}
                     ELSE invalidations
BY DEF touch_path

(***************************************************************************)
(* The invariant: a coding session's path is that of a prompt which is at  *)
(* least a block smaller than the next one and what was cut off together.  *)
(***************************************************************************)
Grown(s) ==
    \/ session_path[s] = <<>>
    \/ \E p \in Nat : session_path[s] = PathAt(s, p) /\ p + BlockTokens <= ctx[s] + cut[s]

MixInv ==
    /\ ctx \in [Coding -> Nat]
    /\ cut \in [Session -> Nat]
    /\ session_path = [s \in Session |-> session_path[s]]
    /\ \A s \in Coding : Grown(s)

LEMMA MixInitInv == ASSUME MixAssumption, MixInit PROVE MixInv
BY DEF MixAssumption, MixInit, MixInv, Init, Coding, Grown

LEMMA CodingTurnInv ==
    ASSUME MixAssumption, GrowsByABlock, MixInv, NEW s \in Coding, CodingTurn(s)
    PROVE  MixInv'
<1>1. PICK grown \in Growths, rollback \in Cuts \cup {0}, t \in now..LastTime :
        /\ ctx[s] + grown >= rollback
        /\ touch_path(s, RoleOf[s], ctx[s], Root[RoleOf[s]], t, aborted(s, rollback))
        /\ ctx' = [ctx EXCEPT ![s] = ctx[s] + grown - rollback]
        /\ cut' = [cut EXCEPT ![s] = rollback]
  BY DEF CodingTurn
<1>2. s \in Session /\ ctx[s] \in Nat /\ grown \in Nat /\ rollback \in Nat
      /\ BlockTokens \in Nat /\ grown >= BlockTokens
  BY IndexAssumption DEF MixAssumption, Coding, MixInv, GrowsByABlock
<1>3. ctx[s] + grown - rollback \in Nat
  BY <1>1, <1>2
<1>4. ctx' \in [Coding -> Nat] /\ cut' \in [Session -> Nat]
  BY <1>1, <1>2, <1>3 DEF MixInv
<1>5. session_path' = [session_path EXCEPT ![s] = PathAt(s, ctx[s])]
  BY <1>1, <1>2, TurnFacts DEF PathAt
<1>6. session_path' = [r \in Session |-> session_path'[r]]
  BY <1>5 DEF MixInv
<1>7. Grown(s)'
  <2>1. session_path'[s] = PathAt(s, ctx[s])
    BY <1>2, <1>5 DEF MixInv
  <2>2. ctx'[s] + cut'[s] = ctx[s] + grown
    BY <1>1, <1>2, <1>3 DEF MixInv
  <2>3. ctx[s] + BlockTokens <= ctx'[s] + cut'[s]
    BY <2>2, <1>2
  <2>4. \E p \in Nat : session_path'[s] = PathAt(s, p) /\ p + BlockTokens <= ctx'[s] + cut'[s]
    BY <1>2, <2>1, <2>3
  <2> QED
    BY <2>4 DEF Grown, PathAt
<1>8. ASSUME NEW r \in Coding, r # s PROVE Grown(r)'
  <2>1. r \in Session
    BY DEF Coding
  <2>2. session_path'[r] = session_path[r] /\ ctx'[r] = ctx[r] /\ cut'[r] = cut[r]
    BY <1>1, <1>5, <1>8, <2>1 DEF MixInv
  <2> QED
    BY <2>2 DEF Grown, PathAt, MixInv
<1>9. (\A r \in Coding : Grown(r))'
  BY <1>7, <1>8 DEF Coding
<1> QED
  BY <1>4, <1>6, <1>9 DEF MixInv

LEMMA DrawnTurnInv ==
    ASSUME MixInv, NEW s \in Session \ Coding, DrawnTurn(s)
    PROVE  MixInv' /\ UNCHANGED invalidations
<1>1. PICK prompt \in Drawn, t \in now..LastTime :
        touch_path(s, RoleOf[s], prompt, Root[RoleOf[s]], t, FALSE)
  BY DEF DrawnTurn
<1>2. UNCHANGED <<ctx, cut, invalidations>>
  BY <1>1, TurnFacts DEF DrawnTurn
<1>3. session_path' = [session_path EXCEPT
                          ![s] = KeysOf(chain(s, RoleOf[s], prompt, Root[RoleOf[s]]))]
  BY <1>1, TurnFacts
<1>4. session_path' = [r \in Session |-> session_path'[r]]
  BY <1>3 DEF MixInv
<1>5. ASSUME NEW r \in Coding PROVE Grown(r)'
  <2>1. r \in Session /\ r # s
    BY DEF Coding
  <2>2. session_path'[r] = session_path[r]
    BY <1>3, <2>1 DEF MixInv
  <2> QED
    BY <1>2, <2>2 DEF Grown, PathAt, MixInv
<1>6. (\A r \in Coding : Grown(r))'
  BY <1>5 DEF Coding
<1> QED
  BY <1>2, <1>4, <1>6 DEF MixInv

LEMMA MixNextInv ==
    ASSUME MixAssumption, GrowsByABlock, MixInv, [MixNext]_vars
    PROVE  MixInv'
<1>1. CASE UNCHANGED vars
  BY <1>1 DEF vars, indexVars, MixInv, Grown, PathAt
<1>2. ASSUME NEW s \in Coding, CodingTurn(s) PROVE MixInv'
  BY <1>2, CodingTurnInv
<1>3. ASSUME NEW s \in Session \ Coding, DrawnTurn(s) PROVE MixInv'
  BY <1>3, DrawnTurnInv
<1> QED
  BY <1>1, <1>2, <1>3 DEF MixNext

(***************************************************************************)
(* What is recorded                                                        *)
(***************************************************************************)
\* The mark comes one turn early: the index looks for the discarded tail in the
\* marked turn, whose prompt still has it.  So an abort is recorded only if the
\* marked turn follows a rollback of its own, and what is recorded then is the
\* tail of that earlier rollback (trace.py, lines 176-178; index.py, lines
\* 99-101).  A lone abort of the generated workload records nothing.
EarlierRollback(s) ==
    /\ cut[s] > 0 /\ cut'[s] > 0
    /\ invalidations' \ invalidations \subseteq Elems(session_path[s]) \ Elems(session_path'[s])
    /\ Len(session_path[s]) - Len(session_path'[s]) <= BlocksOf(cut[s])

RecordsEarlierRollback ==
    [][invalidations' # invalidations => \E s \in Coding : EarlierRollback(s)]_vars

LEMMA CodingTurnRecords ==
    ASSUME MixAssumption, MixInv, NEW s \in Coding, CodingTurn(s), invalidations' # invalidations
    PROVE  EarlierRollback(s)
<1> DEFINE old == session_path[s]
           new == PathAt(s, ctx[s])
           q == ctx[s]
<1>1. PICK grown \in Growths, rollback \in Cuts \cup {0}, t \in now..LastTime :
        /\ touch_path(s, RoleOf[s], q, Root[RoleOf[s]], t, aborted(s, rollback))
        /\ cut' = [cut EXCEPT ![s] = rollback]
  BY DEF CodingTurn
<1>2. s \in Session /\ q \in Nat /\ cut[s] \in Nat /\ BlockTokens \in Nat
      /\ Root[RoleOf[s]] \in Nat
  BY IndexAssumption DEF MixAssumption, Coding, MixInv
<1>3. /\ session_path' = [session_path EXCEPT ![s] = new]
      /\ invalidations' =
            IF aborted(s, rollback) /\ Len(new) < Len(old)
            THEN invalidations \cup {old[i] : i \in (Len(new) + 1)..Len(old)}
            ELSE invalidations
  BY <1>1, <1>2, TurnFacts DEF PathAt
<1>4. /\ aborted(s, rollback) /\ Len(new) < Len(old)
      /\ invalidations' \ invalidations \subseteq {old[i] : i \in (Len(new) + 1)..Len(old)}
  BY <1>3
<1>5. session_path'[s] = new
  BY <1>2, <1>3 DEF MixInv
<1>6. cut'[s] > 0
  BY <1>1, <1>2, <1>4 DEF aborted, MixInv
<1>7. LengthAt(s, q) \in Nat /\ DOMAIN new = 1..LengthAt(s, q) /\ Len(new) = LengthAt(s, q)
      /\ \A i \in 1..LengthAt(s, q) : new[i][2] = i - 1
  BY <1>2, PathAtShape
<1>8. old # <<>>
  BY <1>4, <1>7
<1>9. PICK p \in Nat : old = PathAt(s, p) /\ p + BlockTokens <= q + cut[s]
  BY <1>8 DEF MixInv, Grown
<1>10. LengthAt(s, p) \in Nat /\ DOMAIN old = 1..LengthAt(s, p) /\ Len(old) = LengthAt(s, p)
       /\ \A i \in 1..LengthAt(s, p) : old[i][2] = i - 1
  BY <1>2, <1>9, PathAtShape
<1>11. cut[s] > 0
  <2>1. SUFFICES ASSUME cut[s] = 0 PROVE LengthAt(s, p) <= LengthAt(s, q)
    BY <1>2, <1>4, <1>7, <1>10
  <2>2. p <= q
    BY <1>2, <1>9, <2>1
  <2> QED
    BY <1>2, <2>2, PathLengthMonotone DEF LengthAt
<1>12. Len(old) - Len(new) <= BlocksOf(cut[s])
  <2>1. PathLength(p, Root[RoleOf[s]]) - PathLength(q, Root[RoleOf[s]]) <= BlocksOf(cut[s])
    BY <1>2, <1>9, PathLengthCut
  <2> QED
    BY <2>1, <1>7, <1>10 DEF LengthAt
<1>13. ASSUME NEW i \in (Len(new) + 1)..Len(old)
       PROVE  old[i] \in Elems(old) \ Elems(new)
  <2>1. i \in 1..LengthAt(s, p) /\ i > LengthAt(s, q)
    BY <1>7, <1>10
  <2>2. old[i] \in Elems(old) /\ old[i][2] = i - 1
    BY <1>10, <2>1 DEF Elems
  <2>3. ASSUME NEW j \in DOMAIN new PROVE new[j] # old[i]
    BY <1>7, <2>1, <2>2
  <2> QED
    BY <2>2, <2>3 DEF Elems
<1> QED
  BY <1>4, <1>5, <1>6, <1>11, <1>12, <1>13 DEF EarlierRollback

\* Whatever the index records of a generated workload is the tail of the rollback
\* before the one that is marked, and no more of it than was rolled back: the mark
\* sits on the turn before its own rollback.
THEOREM EarlierRollbackRecorded ==
    ASSUME MixAssumption, GrowsByABlock
    PROVE  MixSpec => RecordsEarlierRollback
<1>1. MixInit => MixInv
  BY MixInitInv
<1>2. MixInv /\ [MixNext]_vars => MixInv'
  BY MixNextInv
<1>3. ASSUME MixInv, [MixNext]_vars
      PROVE  [invalidations' # invalidations =>
                 \E s \in Coding : EarlierRollback(s)]_vars
  <2>1. CASE UNCHANGED vars
    BY <2>1
  <2>2. ASSUME NEW s \in Session, s \in Coding, CodingTurn(s), invalidations' # invalidations
        PROVE  \E r \in Coding : EarlierRollback(r)
    BY <1>3, <2>2, CodingTurnRecords
  <2>3. ASSUME NEW s \in Session \ Coding, DrawnTurn(s) PROVE UNCHANGED invalidations
    BY <1>3, <2>3, DrawnTurnInv
  <2> QED
    BY <1>3, <2>1, <2>2, <2>3 DEF MixNext
<1>4. MixInv /\ [MixNext]_vars =>
         [invalidations' # invalidations => \E s \in Coding : EarlierRollback(s)]_vars
  BY <1>3
<1> QED
  BY <1>1, <1>2, <1>4, PTL DEF MixSpec, RecordsEarlierRollback
================================================================================
