---------------------------- MODULE PrefixIndexProofs ----------------------------
(***************************************************************************)
(* Proofs about PrefixIndex, for every set of sessions, roles and sizes.   *)
(***************************************************************************)
EXTENDS PrefixIndex, TLAPS

(***************************************************************************)
(* Arithmetic of cutting n tokens into blocks                              *)
(***************************************************************************)

\* BlocksOf(n) blocks are enough for n tokens and one fewer is not.
LEMMA BlocksOfBounds ==
    ASSUME NEW n \in Nat
    PROVE  /\ BlocksOf(n) \in Nat
           /\ BlocksOf(n) * BlockTokens >= n
           /\ BlocksOf(n) * BlockTokens < n + BlockTokens
<1>1. BlockTokens \in Nat /\ BlockTokens > 0
  BY IndexAssumption
<1> DEFINE m == n + BlockTokens - 1
<1>2. m \in Nat
  BY <1>1
<1>3. m = BlockTokens * (m \div BlockTokens) + (m % BlockTokens)
  BY <1>1, <1>2
<1>4. (m % BlockTokens) \in 0..(BlockTokens - 1)
  BY <1>1, <1>2
<1>5. (m \div BlockTokens) \in Nat
  BY <1>1, <1>2
<1> QED
  BY <1>1, <1>2, <1>3, <1>4, <1>5 DEF BlocksOf

\* Every block of a run holds between one token and a full block, and every
\* one but the last is full.
LEMMA PartTokensBounds ==
    ASSUME NEW n \in Nat, NEW i \in Nat, i < BlocksOf(n)
    PROVE  /\ PartTokens(n, i) \in 1..BlockTokens
           /\ i + 1 < BlocksOf(n) => PartTokens(n, i) = BlockTokens
<1>1. BlockTokens \in Nat /\ BlockTokens > 0
  BY IndexAssumption
<1>2. /\ BlocksOf(n) \in Nat
      /\ BlocksOf(n) * BlockTokens < n + BlockTokens
  BY BlocksOfBounds
<1>3. (i + 1) * BlockTokens < n + BlockTokens
  <2>1. (i + 1) * BlockTokens <= BlocksOf(n) * BlockTokens
    BY <1>1, <1>2
  <2> QED
    BY <2>1, <1>1, <1>2
<1>4. i * BlockTokens \in Nat /\ i * BlockTokens < n
  BY <1>1, <1>3
<1>5. ASSUME i + 1 < BlocksOf(n)
      PROVE  n - i * BlockTokens >= BlockTokens
  <2>1. (i + 2) * BlockTokens <= BlocksOf(n) * BlockTokens
    BY <1>1, <1>2, <1>5
  <2>2. (i + 2) * BlockTokens = i * BlockTokens + 2 * BlockTokens
    BY <1>1
  <2> QED
    BY <2>1, <2>2, <1>1, <1>2, <1>4
<1> QED
  BY <1>1, <1>4, <1>5 DEF PartTokens, Lesser

(***************************************************************************)
(* The chain of one request                                                *)
(***************************************************************************)

\* A shared run under the role's name followed by a private run under the
\* session's, numbered through, each full up to its last block.
TwoRuns(parts, s, role, base, rest) ==
    /\ DOMAIN parts = 1..(base + rest)
    /\ \A i \in 1..base :
          /\ parts[i].key = <<role, i - 1>>
          /\ parts[i].tokens \in 1..BlockTokens
          /\ i < base => parts[i].tokens = BlockTokens
    /\ \A i \in (base + 1)..(base + rest) :
          /\ parts[i].key = <<s, i - 1>>
          /\ parts[i].tokens \in 1..BlockTokens
          /\ i < base + rest => parts[i].tokens = BlockTokens

\* A sequence of blocks in prefix order: the i-th is numbered i - 1, belongs to
\* the session or the role, and is full when the next one has the same owner.
Chained(parts, s, role) ==
    /\ \E n \in Nat : DOMAIN parts = 1..n
    /\ \A i \in DOMAIN parts :
          /\ parts[i].key \in Key
          /\ parts[i].key[1] \in {s, role}
          /\ parts[i].key[2] = i - 1
          /\ parts[i].tokens \in 1..BlockTokens
    /\ \A i \in DOMAIN parts :
          (i + 1 \in DOMAIN parts /\ parts[i + 1].key[1] = parts[i].key[1])
              => parts[i].tokens = BlockTokens

\* The chain of a request is made of two runs.
LEMMA ChainShape ==
    ASSUME NEW s \in Session, NEW role \in Role,
           NEW prompt \in Prompts, NEW sh \in SharedSizes
    PROVE  \E base \in Nat, rest \in Nat :
               TwoRuns(chain(s, role, prompt, sh), s, role, base, rest)
<1> DEFINE parts == chain(s, role, prompt, sh)
           shared == Lesser(sh, prompt)
           priv == prompt - shared
           base == BlocksOf(shared)
           rest == BlocksOf(priv)
<1>1. shared \in Nat /\ priv \in Nat
  BY IndexAssumption DEF Lesser
<1>2. base \in Nat /\ rest \in Nat
  BY <1>1, BlocksOfBounds
<1>3. DOMAIN parts = 1..(base + rest)
  BY DEF chain
<1>4. ASSUME NEW i \in 1..base
      PROVE  /\ parts[i].key = <<role, i - 1>>
             /\ parts[i].tokens \in 1..BlockTokens
             /\ i < base => parts[i].tokens = BlockTokens
  <2>1. parts[i] = [key |-> <<role, i - 1>>, tokens |-> PartTokens(shared, i - 1)]
    BY <1>2, <1>3 DEF chain
  <2>2. i - 1 \in Nat /\ i - 1 < base /\ (i < base => (i - 1) + 1 < base)
    BY <1>2
  <2>3. /\ PartTokens(shared, i - 1) \in 1..BlockTokens
        /\ (i - 1) + 1 < base => PartTokens(shared, i - 1) = BlockTokens
    BY <1>1, <2>2, PartTokensBounds
  <2> QED
    BY <2>1, <2>2, <2>3
<1>5. ASSUME NEW i \in (base + 1)..(base + rest)
      PROVE  /\ parts[i].key = <<s, i - 1>>
             /\ parts[i].tokens \in 1..BlockTokens
             /\ i < base + rest => parts[i].tokens = BlockTokens
  <2> DEFINE j == i - 1 - base
  <2>1. i \in 1..(base + rest) /\ ~(i <= base)
    BY <1>2
  <2>2. parts[i] = [key |-> <<s, i - 1>>, tokens |-> PartTokens(priv, j)]
    BY <2>1 DEF chain
  <2>3. j \in Nat /\ j < rest /\ (i < base + rest => j + 1 < rest)
    BY <1>2
  <2> HIDE DEF j
  <2>4. /\ PartTokens(priv, j) \in 1..BlockTokens
        /\ j + 1 < rest => PartTokens(priv, j) = BlockTokens
    BY <1>1, <2>3, PartTokensBounds
  <2> QED
    BY <2>2, <2>3, <2>4
<1>6. TwoRuns(parts, s, role, base, rest)
  BY <1>3, <1>4, <1>5 DEF TwoRuns
<1> QED
  BY <1>2, <1>6

\* Two runs make a sequence of blocks in prefix order.
LEMMA TwoRunsChained ==
    ASSUME NEW s \in Session, NEW role \in Role, NEW parts,
           NEW base \in Nat, NEW rest \in Nat,
           TwoRuns(parts, s, role, base, rest)
    PROVE  Chained(parts, s, role)
<1>1. s \in Owner /\ role \in Owner /\ s # role
  BY IndexAssumption DEF Owner
<1>2. DOMAIN parts = 1..(base + rest)
  BY DEF TwoRuns
<1>3. ASSUME NEW i \in DOMAIN parts
      PROVE  /\ parts[i].key \in Key
             /\ parts[i].key[1] \in {s, role}
             /\ parts[i].key[2] = i - 1
             /\ parts[i].tokens \in 1..BlockTokens
  <2>1. i - 1 \in Nat
    BY <1>2
  <2>2. <<s, i - 1>> \in Key /\ <<role, i - 1>> \in Key
    BY <1>1, <2>1 DEF Key
  <2>3. CASE i \in 1..base
    <3>1. parts[i].key = <<role, i - 1>> /\ parts[i].tokens \in 1..BlockTokens
      BY <2>3 DEF TwoRuns
    <3> QED
      BY <3>1, <2>2
  <2>4. CASE i \in (base + 1)..(base + rest)
    <3>1. parts[i].key = <<s, i - 1>> /\ parts[i].tokens \in 1..BlockTokens
      BY <2>4 DEF TwoRuns
    <3> QED
      BY <3>1, <2>2
  <2> QED
    BY <1>2, <2>3, <2>4
<1>4. ASSUME NEW i \in DOMAIN parts, i + 1 \in DOMAIN parts,
             parts[i + 1].key[1] = parts[i].key[1]
      PROVE  parts[i].tokens = BlockTokens
  <2>1. CASE i \in 1..base
    <3>1. CASE i = base
      <4>1. i + 1 \in (base + 1)..(base + rest)
        BY <3>1, <1>2, <1>4
      <4>2. parts[i + 1].key[1] = s /\ parts[i].key[1] = role
        BY <4>1, <2>1 DEF TwoRuns
      <4> QED
        BY <4>2, <1>1, <1>4
    <3> QED
      BY <3>1, <2>1 DEF TwoRuns
  <2>2. CASE i \in (base + 1)..(base + rest)
    BY <2>2, <1>2, <1>4 DEF TwoRuns
  <2> QED
    BY <1>2, <2>1, <2>2
<1>5. base + rest \in Nat
  OBVIOUS
<1> QED
  BY <1>2, <1>3, <1>4, <1>5 DEF Chained

\* The chain of a request is a sequence of blocks in prefix order.
LEMMA ChainChained ==
    ASSUME NEW s \in Session, NEW role \in Role,
           NEW prompt \in Prompts, NEW sh \in SharedSizes
    PROVE  Chained(chain(s, role, prompt, sh), s, role)
BY ChainShape, TwoRunsChained

(***************************************************************************)
(* The inductive invariant                                                 *)
(***************************************************************************)

\* Every known block carries its number as depth.
DepthsNumbered == \A k \in DOMAIN blocks : blocks[k].depth = k[2]

\* Every path is numbered through and stays inside the session's namespaces.
PathsNumbered ==
    \A s \in Session : \A i \in DOMAIN session_path[s] :
        /\ session_path[s][i][2] = i - 1
        /\ session_path[s][i][1] \in {s, session_role[s]}

\* A session with a path has made a request since it was last released.
PathsClocked ==
    \A s \in Session : \A i \in DOMAIN session_path[s] :
        session_last_seen[s] # Unset

IndexInv ==
    /\ TypeOK
    /\ LeaseExact
    /\ DepthsNumbered
    /\ PathsNumbered
    /\ PathsClocked
    /\ InteriorFull

(***************************************************************************)
(* What the records become                                                 *)
(***************************************************************************)

\* Leasing a block keeps its type and depth, never shrinks it, and adds
\* exactly the session.
LEMMA LeasedFacts ==
    ASSUME NEW info \in BlockInfo, NEW tokens \in 1..BlockTokens, NEW s \in Session,
           NEW role \in Role, NEW t \in Nat,
           NEW b, b = Leased(info, tokens, s, role, t)
    PROVE  /\ b \in BlockInfo
           /\ b.refs = info.refs \cup {s}
           /\ b.depth = info.depth
           /\ b.tokens = (IF tokens > info.tokens THEN tokens ELSE info.tokens)
           /\ b.last_use = t
<1> DEFINE i1 == [info EXCEPT !.tokens = IF tokens > @ THEN tokens ELSE @,
                              !.refs = @ \cup {s},
                              !.roles = @ \cup {role}]
<1>1. /\ i1 \in BlockInfo
      /\ i1.refs = info.refs \cup {s}
      /\ i1.depth = info.depth
      /\ i1.tokens = (IF tokens > info.tokens THEN tokens ELSE info.tokens)
  BY DEF BlockInfo
<1>2. b = observe_use(i1, t)
  BY DEF Leased
<1> HIDE DEF i1
<1>3. SmoothedIat(i1.iat, t - i1.last_use) \in IatSign
  BY DEF SmoothedIat, IatSign
<1>4. Lesser(Many, i1.uses + 1) \in 0..Many
  BY <1>1 DEF BlockInfo, Lesser, Many
<1> QED
  BY <1>1, <1>2, <1>3, <1>4 DEF observe_use, BlockInfo

\* A block seen for the first time, before it is leased.
LEMMA NewBlockFacts ==
    ASSUME NEW tokens \in 1..BlockTokens, NEW depth \in Nat
    PROVE  /\ NewBlock(tokens, depth) \in BlockInfo
           /\ NewBlock(tokens, depth).depth = depth
           /\ NewBlock(tokens, depth).tokens = tokens
           /\ NewBlock(tokens, depth).refs = {}
BY DEF NewBlock, BlockInfo, IatSign, Many

\* Dropping a lease changes the leases only.
LEMMA UnleasedFacts ==
    ASSUME NEW info \in BlockInfo, NEW s \in Session
    PROVE  /\ Unleased(info, s) \in BlockInfo
           /\ Unleased(info, s).refs = info.refs \ {s}
           /\ Unleased(info, s).depth = info.depth
           /\ Unleased(info, s).tokens = info.tokens
           /\ Unleased(info, s).last_use = info.last_use
           /\ Unleased(info, s).uses = info.uses
           /\ Unleased(info, s).iat = info.iat
BY DEF Unleased, BlockInfo

(***************************************************************************)
(* What touch_path does to each block                                      *)
(***************************************************************************)

\* K is the set of keys of the new path of s; the blocks on it are leased, the
\* ones s left lose its lease, the others are as they were.
TouchedBlocks(s, role, parts, t) ==
    LET K == Elems(KeysOf(parts)) IN
    /\ DOMAIN blocks' = DOMAIN blocks \cup K
    /\ \A i \in DOMAIN parts :
          LET k == parts[i].key IN
          \E info \in BlockInfo :
             /\ k \in DOMAIN blocks => info = blocks[k]
             /\ k \notin DOMAIN blocks => info = NewBlock(parts[i].tokens, i - 1)
             /\ blocks'[k] = Leased(info, parts[i].tokens, s, role, t)
    /\ \A k \in DOMAIN blocks \ K :
          blocks'[k] = IF k \in Elems(session_path[s])
                       THEN Unleased(blocks[k], s) ELSE blocks[k]

\* The keys of a chain are those of its parts.
LEMMA KeysOfParts ==
    ASSUME NEW s \in Session, NEW role \in Role, NEW parts,
           Chained(parts, s, role)
    PROVE  /\ KeysOf(parts) \in Seq(Key)
           /\ DOMAIN KeysOf(parts) = DOMAIN parts
           /\ \A i \in DOMAIN parts :
                 /\ KeysOf(parts)[i] = parts[i].key
                 /\ parts[i].key \in Elems(KeysOf(parts))
           /\ Elems(KeysOf(parts)) \subseteq Key
           /\ \A k \in Elems(KeysOf(parts)) :
                 \E i \in DOMAIN parts : k = parts[i].key
           /\ \A i, j \in DOMAIN parts : parts[i].key = parts[j].key => i = j
<1>1. PICK n \in Nat : DOMAIN parts = 1..n
  BY DEF Chained
<1>2. \A i \in DOMAIN parts : parts[i].key \in Key /\ parts[i].key[2] = i - 1
  BY DEF Chained
<1>3. DOMAIN KeysOf(parts) = 1..n /\ \A i \in 1..n : KeysOf(parts)[i] = parts[i].key
  BY <1>1 DEF KeysOf
<1>4. KeysOf(parts) \in [1..n -> Key]
  BY <1>1, <1>2, <1>3 DEF KeysOf
<1>5. KeysOf(parts) \in Seq(Key)
  BY <1>4
<1>6. \A i, j \in DOMAIN parts : parts[i].key = parts[j].key => i = j
  <2> TAKE i, j \in DOMAIN parts
  <2> HAVE parts[i].key = parts[j].key
  <2>1. i - 1 = j - 1
    BY <1>2
  <2> QED
    BY <2>1, <1>1
<1> QED
  BY <1>1, <1>2, <1>3, <1>5, <1>6 DEF Elems

\* The effect of touch_path, block by block.
LEMMA TouchEffect ==
    ASSUME TypeOK,
           NEW s \in Session, NEW role \in Role, NEW prompt \in Prompts,
           NEW sh \in SharedSizes, NEW t \in Nat, NEW aborted \in BOOLEAN,
           touch_path(s, role, prompt, sh, t, aborted)
    PROVE  TouchedBlocks(s, role, chain(s, role, prompt, sh), t)
<1> DEFINE parts == chain(s, role, prompt, sh)
           keys == KeysOf(parts)
           place(k) == CHOOSE i \in DOMAIN parts : parts[i].key = k
           stale == Elems(session_path[s]) \ Elems(keys)
<1>1. Chained(parts, s, role)
  BY ChainChained
<1>2. blocks' =
        [k \in DOMAIN blocks \cup Elems(keys) |->
            IF k \in Elems(keys)
            THEN Leased(IF k \in DOMAIN blocks THEN blocks[k]
                        ELSE NewBlock(parts[place(k)].tokens, place(k) - 1),
                        parts[place(k)].tokens, s, role, t)
            ELSE IF k \in stale THEN Unleased(blocks[k], s)
            ELSE blocks[k]]
  BY DEF touch_path
<1> HIDE DEF parts
<1>3. DOMAIN blocks' = DOMAIN blocks \cup Elems(keys)
  BY <1>2
<1>4. ASSUME NEW i \in DOMAIN parts
      PROVE  \E info \in BlockInfo :
                /\ parts[i].key \in DOMAIN blocks => info = blocks[parts[i].key]
                /\ parts[i].key \notin DOMAIN blocks
                      => info = NewBlock(parts[i].tokens, i - 1)
                /\ blocks'[parts[i].key] = Leased(info, parts[i].tokens, s, role, t)
  <2> DEFINE k == parts[i].key
             info == IF k \in DOMAIN blocks THEN blocks[k]
                     ELSE NewBlock(parts[i].tokens, i - 1)
  <2>1. k \in Elems(keys)
    BY <1>1, KeysOfParts
  <2>2. place(k) = i
    BY <1>1, KeysOfParts
  <2>3. blocks'[k] = Leased(info, parts[i].tokens, s, role, t)
    <3> HIDE DEF place, keys
    <3> QED
      BY <1>2, <2>1, <2>2
  <2>4. parts[i].tokens \in 1..BlockTokens /\ i - 1 \in Nat
    BY <1>1, IndexAssumption DEF Chained
  <2>5. info \in BlockInfo
    BY <2>4, NewBlockFacts DEF TypeOK
  <2> HIDE DEF info
  <2>6. (k \in DOMAIN blocks => info = blocks[k])
        /\ (k \notin DOMAIN blocks => info = NewBlock(parts[i].tokens, i - 1))
    BY DEF info
  <2> QED
    BY <2>3, <2>5, <2>6
<1>5. ASSUME NEW k \in DOMAIN blocks \ Elems(keys)
      PROVE  blocks'[k] = IF k \in Elems(session_path[s])
                          THEN Unleased(blocks[k], s) ELSE blocks[k]
  BY <1>2
<1> QED
  BY <1>3, <1>4, <1>5 DEF TouchedBlocks, parts

\* The same effect, field by field.
LEMMA TouchedFields ==
    ASSUME TypeOK, NEW s \in Session, NEW role \in Role, NEW t \in Nat,
           NEW parts, Chained(parts, s, role), TouchedBlocks(s, role, parts, t),
           NEW K, K = Elems(KeysOf(parts))
    PROVE  /\ DOMAIN blocks' = DOMAIN blocks \cup K
           /\ \A k \in DOMAIN blocks' : blocks'[k] \in BlockInfo
           /\ \A k \in K : blocks'[k].refs =
                 (IF k \in DOMAIN blocks THEN blocks[k].refs ELSE {}) \cup {s}
           /\ \A k \in DOMAIN blocks \ K : blocks'[k].refs =
                 (IF k \in Elems(session_path[s]) THEN blocks[k].refs \ {s}
                  ELSE blocks[k].refs)
           /\ \A k \in DOMAIN blocks :
                 /\ blocks'[k].depth = blocks[k].depth
                 /\ blocks'[k].tokens >= blocks[k].tokens
           /\ \A k \in K \ DOMAIN blocks : blocks'[k].depth = k[2]
           /\ \A i \in DOMAIN parts :
                 blocks'[parts[i].key].tokens >= parts[i].tokens
<1>1. /\ DOMAIN blocks' = DOMAIN blocks \cup K
      /\ \A k \in DOMAIN blocks \ K :
            blocks'[k] = IF k \in Elems(session_path[s])
                         THEN Unleased(blocks[k], s) ELSE blocks[k]
  BY DEF TouchedBlocks
<1>2. \A k \in DOMAIN blocks : blocks[k] \in BlockInfo
  BY DEF TypeOK
<1>3. \A k \in K : \E i \in DOMAIN parts : k = parts[i].key
  BY KeysOfParts
<1>4. ASSUME NEW k \in DOMAIN blocks \ K
      PROVE  /\ blocks'[k] \in BlockInfo
             /\ blocks'[k].refs = (IF k \in Elems(session_path[s])
                                   THEN blocks[k].refs \ {s} ELSE blocks[k].refs)
             /\ blocks'[k].depth = blocks[k].depth
             /\ blocks'[k].tokens = blocks[k].tokens
  <2>1. blocks[k] \in BlockInfo
    BY <1>2
  <2>2. CASE k \in Elems(session_path[s])
    <3>1. blocks'[k] = Unleased(blocks[k], s)
      BY <1>1, <2>2
    <3> QED
      BY <2>1, <2>2, <3>1, UnleasedFacts
  <2>3. CASE k \notin Elems(session_path[s])
    <3>1. blocks'[k] = blocks[k]
      BY <1>1, <2>3
    <3> QED
      BY <2>1, <2>3, <3>1
  <2> QED
    BY <2>2, <2>3
<1>5. ASSUME NEW i \in DOMAIN parts, NEW k, k = parts[i].key
      PROVE  /\ blocks'[k] \in BlockInfo
             /\ blocks'[k].refs =
                   (IF k \in DOMAIN blocks THEN blocks[k].refs ELSE {}) \cup {s}
             /\ k \in DOMAIN blocks =>
                   /\ blocks'[k].depth = blocks[k].depth
                   /\ blocks'[k].tokens >= blocks[k].tokens
             /\ k \notin DOMAIN blocks => blocks'[k].depth = k[2]
             /\ blocks'[k].tokens >= parts[i].tokens
  <2>1. PICK info \in BlockInfo :
           /\ k \in DOMAIN blocks => info = blocks[k]
           /\ k \notin DOMAIN blocks => info = NewBlock(parts[i].tokens, i - 1)
           /\ blocks'[k] = Leased(info, parts[i].tokens, s, role, t)
    BY <1>5 DEF TouchedBlocks
  <2>2. /\ parts[i].tokens \in 1..BlockTokens
        /\ i - 1 \in Nat /\ k[2] = i - 1
    BY <1>5, IndexAssumption DEF Chained
  <2>3. /\ blocks'[k] \in BlockInfo
        /\ blocks'[k].refs = info.refs \cup {s}
        /\ blocks'[k].depth = info.depth
        /\ blocks'[k].tokens = (IF parts[i].tokens > info.tokens
                                THEN parts[i].tokens ELSE info.tokens)
    BY <2>1, <2>2, LeasedFacts
  <2>4. info.tokens \in Nat /\ BlockTokens \in Nat
    BY IndexAssumption DEF BlockInfo
  <2>5. CASE k \in DOMAIN blocks
    BY <2>1, <2>2, <2>3, <2>4, <2>5
  <2>6. CASE k \notin DOMAIN blocks
    <3>1. info.depth = i - 1 /\ info.tokens = parts[i].tokens /\ info.refs = {}
      BY <2>1, <2>2, <2>6, NewBlockFacts
    <3> QED
      BY <2>2, <2>3, <2>4, <2>6, <3>1
  <2> QED
    BY <2>5, <2>6
<1>6. ASSUME NEW k \in DOMAIN blocks
      PROVE  blocks[k].tokens \in Nat
  BY <1>2 DEF BlockInfo
<1>7. \A k \in DOMAIN blocks' : blocks'[k] \in BlockInfo
  BY <1>1, <1>3, <1>4, <1>5
<1>8. \A k \in K : blocks'[k].refs =
          (IF k \in DOMAIN blocks THEN blocks[k].refs ELSE {}) \cup {s}
  BY <1>3, <1>5
<1>9. \A k \in DOMAIN blocks : /\ blocks'[k].depth = blocks[k].depth
                               /\ blocks'[k].tokens >= blocks[k].tokens
  <2> TAKE k \in DOMAIN blocks
  <2>1. CASE k \in K
    BY <2>1, <1>3, <1>5
  <2>2. CASE k \notin K
    <3>1. k \in DOMAIN blocks \ K
      BY <2>2
    <3>2. /\ blocks'[k].depth = blocks[k].depth
          /\ blocks'[k].tokens = blocks[k].tokens
      BY <3>1, <1>4
    <3>3. blocks[k].tokens \in Nat
      BY <1>6
    <3> QED
      BY <3>2, <3>3
  <2> QED
    BY <2>1, <2>2
<1>10. \A k \in K \ DOMAIN blocks : blocks'[k].depth = k[2]
  BY <1>3, <1>5
<1>11. \A i \in DOMAIN parts : blocks'[parts[i].key].tokens >= parts[i].tokens
  BY <1>5
<1> QED
  BY <1>1, <1>4, <1>7, <1>8, <1>9, <1>10, <1>11

(***************************************************************************)
(* touch_path preserves the invariant                                      *)
(***************************************************************************)

\* A request, with or without an abort, preserves the invariant.
LEMMA TouchPreservesInv ==
    ASSUME IndexInv,
           NEW s \in Session, NEW role \in Role, NEW prompt \in Prompts,
           NEW sh \in SharedSizes, NEW t \in Nat, NEW aborted \in BOOLEAN,
           touch_path(s, role, prompt, sh, t, aborted)
    PROVE  IndexInv'
<1> DEFINE parts == chain(s, role, prompt, sh)
           keys == KeysOf(parts)
           K == Elems(keys)
<1>1. Chained(parts, s, role)
  BY ChainChained
<1>2. TouchedBlocks(s, role, parts, t)
  BY TouchEffect DEF IndexInv
<1>3. /\ session_path' = [session_path EXCEPT ![s] = keys]
      /\ session_role' = [session_role EXCEPT ![s] = role]
      /\ session_last_seen' = [session_last_seen EXCEPT ![s] = t]
      /\ now' = t
      /\ invalidations' \in {invalidations,
             invalidations \cup {session_path[s][i] :
                 i \in (Len(keys) + 1)..Len(session_path[s])}}
  BY DEF touch_path
<1>4. /\ keys \in Seq(Key)
      /\ DOMAIN keys = DOMAIN parts
      /\ \A i \in DOMAIN parts : keys[i] = parts[i].key /\ parts[i].key \in K
      /\ K \subseteq Key
      /\ \A k \in K : \E i \in DOMAIN parts : k = parts[i].key
  BY <1>1, KeysOfParts
<1>5. /\ DOMAIN blocks' = DOMAIN blocks \cup K
      /\ \A k \in DOMAIN blocks' : blocks'[k] \in BlockInfo
      /\ \A k \in K : blocks'[k].refs =
            (IF k \in DOMAIN blocks THEN blocks[k].refs ELSE {}) \cup {s}
      /\ \A k \in DOMAIN blocks \ K : blocks'[k].refs =
            (IF k \in Elems(session_path[s]) THEN blocks[k].refs \ {s}
             ELSE blocks[k].refs)
      /\ \A k \in DOMAIN blocks :
            /\ blocks'[k].depth = blocks[k].depth
            /\ blocks'[k].tokens >= blocks[k].tokens
      /\ \A k \in K \ DOMAIN blocks : blocks'[k].depth = k[2]
      /\ \A i \in DOMAIN parts : blocks'[parts[i].key].tokens >= parts[i].tokens
  BY <1>1, <1>2, TouchedFields DEF IndexInv
<1>6. /\ session_path \in [Session -> Seq(Key)]
      /\ session_role \in [Session -> Role \cup {NoRole}]
      /\ session_last_seen \in [Session -> Nat \cup {Unset}]
      /\ invalidations \subseteq Key
      /\ DOMAIN blocks \subseteq Key
  BY DEF IndexInv, TypeOK
<1>7. /\ session_path'[s] = keys
      /\ \A r \in Session \ {s} :
            /\ session_path'[r] = session_path[r]
            /\ session_role'[r] = session_role[r]
            /\ session_last_seen'[r] = session_last_seen[r]
      /\ session_role'[s] = role
      /\ session_last_seen'[s] = t
  BY <1>3, <1>6
<1> HIDE DEF keys, K, parts
<1>8. TypeOK'
  <2>1. DOMAIN blocks' \subseteq Key
    BY <1>4, <1>5, <1>6
  <2>2. blocks' \in [DOMAIN blocks' -> BlockInfo]
    <3>1. blocks' = [k \in DOMAIN blocks' |-> blocks'[k]]
      BY DEF touch_path
    <3> QED
      BY <1>5, <3>1
  <2>3. session_path' \in [Session -> Seq(Key)]
    BY <1>3, <1>4, <1>6
  <2>4. /\ session_role' \in [Session -> Role \cup {NoRole}]
        /\ session_last_seen' \in [Session -> Nat \cup {Unset}]
    BY <1>3, <1>6
  <2>5. invalidations' \subseteq Key
    <3>1. session_path[s] \in Seq(Key) /\ Len(keys) \in Nat
      BY <1>4, <1>6
    <3>2. \A i \in (Len(keys) + 1)..Len(session_path[s]) : session_path[s][i] \in Key
      BY <3>1
    <3> QED
      BY <1>3, <1>6, <3>2
  <2> QED
    BY <1>3, <2>1, <2>2, <2>3, <2>4, <2>5 DEF TypeOK
<1>9. LeaseExact'
  <2>1. ASSUME NEW r \in Session
        PROVE  Elems(session_path'[r]) \subseteq DOMAIN blocks'
    <3>1. CASE r = s
      BY <3>1, <1>5, <1>7 DEF K
    <3>2. CASE r # s
      BY <3>2, <1>5, <1>7 DEF IndexInv, LeaseExact
    <3> QED
      BY <3>1, <3>2
  <2>2. ASSUME NEW k \in DOMAIN blocks'
        PROVE  blocks'[k].refs = {r \in Session : k \in Elems(session_path'[r])}
    <3> DEFINE before == {r \in Session : k \in Elems(session_path[r])}
    <3>1. k \in DOMAIN blocks => blocks[k].refs = before
      BY DEF IndexInv, LeaseExact
    <3>2. k \notin DOMAIN blocks => before = {}
      BY DEF IndexInv, LeaseExact
    <3>3. {r \in Session : k \in Elems(session_path'[r])} =
             (before \ {s}) \cup (IF k \in K THEN {s} ELSE {})
      BY <1>7 DEF K
    <3>4. CASE k \in K
      BY <3>1, <3>2, <3>3, <3>4, <1>5
    <3>5. CASE k \notin K
      <4>1. k \in DOMAIN blocks \ K
        BY <3>5, <1>5
      <4>2. CASE k \in Elems(session_path[s])
        BY <4>1, <4>2, <3>1, <3>3, <1>5
      <4>3. CASE k \notin Elems(session_path[s])
        <5>1. s \notin before
          BY <4>3
        <5> QED
          BY <4>1, <4>3, <5>1, <3>1, <3>3, <1>5
      <4> QED
        BY <4>2, <4>3
    <3> QED
      BY <3>4, <3>5
  <2> QED
    BY <2>1, <2>2 DEF LeaseExact
<1>10. DepthsNumbered'
  BY <1>5 DEF IndexInv, DepthsNumbered
<1>11. PathsNumbered'
  <2> SUFFICES ASSUME NEW r \in Session, NEW i \in DOMAIN session_path'[r]
               PROVE  /\ session_path'[r][i][2] = i - 1
                      /\ session_path'[r][i][1] \in {r, session_role'[r]}
    BY DEF PathsNumbered
  <2>1. CASE r = s
    BY <2>1, <1>1, <1>4, <1>7 DEF Chained
  <2>2. CASE r # s
    BY <2>2, <1>7 DEF IndexInv, PathsNumbered
  <2> QED
    BY <2>1, <2>2
<1>12. PathsClocked'
  <2> SUFFICES ASSUME NEW r \in Session, NEW i \in DOMAIN session_path'[r]
               PROVE  session_last_seen'[r] # Unset
    BY DEF PathsClocked
  <2>1. CASE r = s
    BY <2>1, <1>7 DEF Unset
  <2>2. CASE r # s
    BY <2>2, <1>7 DEF IndexInv, PathsClocked
  <2> QED
    BY <2>1, <2>2
<1>13. InteriorFull'
  <2> SUFFICES ASSUME NEW r \in Session, NEW i \in DOMAIN session_path'[r],
                      i < Len(session_path'[r]),
                      session_path'[r][i + 1][1] = session_path'[r][i][1]
               PROVE  blocks'[session_path'[r][i]].tokens = BlockTokens
    BY DEF InteriorFull
  <2>1. /\ BlockTokens \in Nat
        /\ \A k \in DOMAIN blocks' : blocks'[k].tokens \in Nat
        /\ \A k \in DOMAIN blocks' : blocks'[k].tokens <= BlockTokens
    BY <1>5, IndexAssumption DEF BlockInfo
  <2>2. CASE r = s
    <3>1. i \in DOMAIN parts /\ i + 1 \in DOMAIN parts
      <4>1. i \in 1..Len(keys) /\ i < Len(keys) /\ Len(keys) \in Nat
        BY <2>2, <1>4, <1>7
      <4>2. DOMAIN keys = 1..Len(keys)
        BY <1>4
      <4> QED
        BY <4>1, <4>2, <1>4
    <3>2. parts[i].tokens = BlockTokens
      <4>1. parts[i + 1].key[1] = parts[i].key[1]
        BY <2>2, <3>1, <1>4, <1>7
      <4> QED
        BY <3>1, <4>1, <1>1 DEF Chained
    <3>3. session_path'[r][i] = parts[i].key /\ parts[i].key \in DOMAIN blocks'
      BY <2>2, <3>1, <1>4, <1>5, <1>7
    <3>4. blocks'[parts[i].key].tokens >= BlockTokens
      BY <3>1, <3>2, <1>5
    <3> QED
      BY <2>1, <3>3, <3>4
  <2>3. CASE r # s
    <3> DEFINE k == session_path[r][i]
    <3>1. session_path'[r] = session_path[r]
      BY <2>3, <1>7
    <3>2. blocks[k].tokens = BlockTokens
      BY <3>1 DEF IndexInv, InteriorFull
    <3>3. k \in DOMAIN blocks
      BY <3>1 DEF IndexInv, LeaseExact, Elems
    <3>4. blocks'[k].tokens >= BlockTokens /\ k \in DOMAIN blocks'
      BY <3>2, <3>3, <1>5
    <3> QED
      BY <2>1, <3>1, <3>4
  <2> QED
    BY <2>2, <2>3
<1> QED
  BY <1>8, <1>9, <1>10, <1>11, <1>12, <1>13 DEF IndexInv

(***************************************************************************)
(* release_session preserves the invariant                                 *)
(***************************************************************************)

\* The close of a session preserves the invariant.
LEMMA ReleasePreservesInv ==
    ASSUME IndexInv, NEW s \in Session, release_session(s)
    PROVE  IndexInv'
<1>1. /\ session_path \in [Session -> Seq(Key)]
      /\ session_last_seen \in [Session -> Nat \cup {Unset}]
      /\ \A k \in DOMAIN blocks : blocks[k] \in BlockInfo
  BY DEF IndexInv, TypeOK
<1>2. /\ DOMAIN blocks' = DOMAIN blocks
      /\ \A k \in DOMAIN blocks :
            blocks'[k] = IF k \in Elems(session_path[s])
                         THEN Unleased(blocks[k], s) ELSE blocks[k]
      /\ session_path' = [session_path EXCEPT ![s] = <<>>]
      /\ session_last_seen' = [session_last_seen EXCEPT ![s] = Unset]
      /\ UNCHANGED <<session_role, invalidations, now>>
  BY DEF release_session
<1>3. /\ session_path'[s] = <<>>
      /\ \A r \in Session \ {s} :
            /\ session_path'[r] = session_path[r]
            /\ session_last_seen'[r] = session_last_seen[r]
  BY <1>1, <1>2
<1>4. ASSUME NEW k \in DOMAIN blocks
      PROVE  /\ blocks'[k] \in BlockInfo
             /\ blocks'[k].depth = blocks[k].depth
             /\ blocks'[k].tokens = blocks[k].tokens
             /\ blocks'[k].refs = (IF k \in Elems(session_path[s])
                                   THEN blocks[k].refs \ {s} ELSE blocks[k].refs)
  <2>1. CASE k \in Elems(session_path[s])
    <3>1. blocks'[k] = Unleased(blocks[k], s)
      BY <1>2, <2>1
    <3> QED
      BY <1>1, <2>1, <3>1, UnleasedFacts
  <2>2. CASE k \notin Elems(session_path[s])
    <3>1. blocks'[k] = blocks[k]
      BY <1>2, <2>2
    <3> QED
      BY <1>1, <2>2, <3>1
  <2> QED
    BY <2>1, <2>2
<1>5. TypeOK'
  <2>1. blocks' \in [DOMAIN blocks' -> BlockInfo]
    <3>1. blocks' = [k \in DOMAIN blocks' |-> blocks'[k]]
      BY DEF release_session
    <3> QED
      BY <1>2, <1>4, <3>1
  <2>2. session_path' \in [Session -> Seq(Key)]
    BY <1>1, <1>2
  <2>3. session_last_seen' \in [Session -> Nat \cup {Unset}]
    BY <1>1, <1>2
  <2> QED
    BY <1>2, <2>1, <2>2, <2>3 DEF IndexInv, TypeOK
<1>6. LeaseExact'
  <2>1. \A r \in Session : Elems(session_path'[r]) \subseteq DOMAIN blocks'
    BY <1>2, <1>3 DEF IndexInv, LeaseExact, Elems
  <2>2. ASSUME NEW k \in DOMAIN blocks
        PROVE  blocks'[k].refs = {r \in Session : k \in Elems(session_path'[r])}
    <3>1. blocks[k].refs = {r \in Session : k \in Elems(session_path[r])}
      BY DEF IndexInv, LeaseExact
    <3>2. k \notin Elems(session_path'[s])
      BY <1>3 DEF Elems
    <3>3. {r \in Session : k \in Elems(session_path'[r])} = blocks[k].refs \ {s}
      BY <1>3, <3>1, <3>2
    <3> QED
      BY <1>4, <3>1, <3>3
  <2> QED
    BY <1>2, <2>1, <2>2 DEF LeaseExact
<1>7. DepthsNumbered'
  BY <1>2, <1>4 DEF IndexInv, DepthsNumbered
<1>8. PathsNumbered' /\ PathsClocked'
  BY <1>2, <1>3 DEF IndexInv, PathsNumbered, PathsClocked
<1>9. InteriorFull'
  <2> SUFFICES ASSUME NEW r \in Session, NEW i \in DOMAIN session_path'[r],
                      i < Len(session_path'[r]),
                      session_path'[r][i + 1][1] = session_path'[r][i][1]
               PROVE  blocks'[session_path'[r][i]].tokens = BlockTokens
    BY DEF InteriorFull
  <2>1. r # s /\ session_path'[r] = session_path[r]
    BY <1>3
  <2>2. blocks[session_path[r][i]].tokens = BlockTokens
    BY <2>1 DEF IndexInv, InteriorFull
  <2>3. session_path[r][i] \in DOMAIN blocks
    BY <2>1 DEF IndexInv, LeaseExact, Elems
  <2> QED
    BY <1>4, <2>1, <2>2, <2>3
<1> QED
  BY <1>5, <1>6, <1>7, <1>8, <1>9 DEF IndexInv

(***************************************************************************)
(* The invariant holds, and what follows from it                           *)
(***************************************************************************)

\* The empty index satisfies the invariant.
LEMMA InitInv == ASSUME Init PROVE IndexInv
<1>1. TypeOK
  BY IndexAssumption DEF Init, TypeOK, Key
<1>2. LeaseExact
  BY DEF Init, LeaseExact, Elems
<1> QED
  BY <1>1, <1>2
     DEF Init, IndexInv, DepthsNumbered, PathsNumbered, PathsClocked, InteriorFull

\* So does every step or stutter of the index.
LEMMA NextInv == ASSUME IndexInv, [Next]_indexVars PROVE IndexInv'
<1>1. CASE TouchPath
  <2>1. PICK s \in Session, role \in Role, prompt \in Prompts,
             sh \in SharedSizes, t \in now..LastTime, aborted \in BOOLEAN :
                touch_path(s, role, prompt, sh, t, aborted)
    BY <1>1 DEF TouchPath
  <2>2. t \in Nat
    BY IndexAssumption DEF IndexInv, TypeOK
  <2> QED
    BY <2>1, <2>2, TouchPreservesInv
<1>2. CASE ReleaseSession
  BY <1>2, ReleasePreservesInv DEF ReleaseSession
<1>3. CASE UNCHANGED indexVars
  BY <1>3 DEF indexVars, IndexInv, TypeOK, LeaseExact, DepthsNumbered,
              PathsNumbered, PathsClocked, InteriorFull
<1> QED
  BY <1>1, <1>2, <1>3 DEF Next

\* The index always satisfies its inductive invariant.
THEOREM IndexInvariant == Spec => []IndexInv
<1>1. Init => IndexInv
  BY InitInv
<1>2. IndexInv /\ [Next]_indexVars => IndexInv'
  BY NextInv
<1> QED
  BY <1>1, <1>2, PTL DEF Spec

\* Type correctness of the index.
THEOREM TypeCorrect == Spec => []TypeOK
BY IndexInvariant, PTL DEF IndexInv

\* touch_path and release_session, which add and drop leases one key at a time,
\* always leave each session with exactly the leases of its path.
THEOREM LeasesExact == Spec => []LeaseExact
BY IndexInvariant, PTL DEF IndexInv

\* A block that the next block of its run follows is full.
THEOREM InteriorBlocksFull == Spec => []InteriorFull
BY IndexInvariant, PTL DEF IndexInv

\* The depth recorded by whoever saw a block first is right for every path.
THEOREM DepthsArePositions == Spec => []DepthIsPosition
<1>1. IndexInv => DepthIsPosition
  <2> SUFFICES ASSUME IndexInv, NEW s \in Session, NEW i \in DOMAIN session_path[s]
               PROVE  /\ session_path[s][i] \in DOMAIN blocks
                      /\ blocks[session_path[s][i]].depth = i - 1
    BY DEF DepthIsPosition
  <2>1. session_path[s][i] \in DOMAIN blocks
    BY DEF IndexInv, LeaseExact, Elems
  <2> QED
    BY <2>1 DEF IndexInv, DepthsNumbered, PathsNumbered
<1> QED
  BY <1>1, IndexInvariant, PTL

\* No session ever holds a lease in another session's or role's namespace.
THEOREM NoFalseSharing == Spec => []LeasesInNamespace
<1>1. IndexInv => LeasesInNamespace
  <2> SUFFICES ASSUME IndexInv, NEW k \in DOMAIN blocks, NEW s \in blocks[k].refs
               PROVE  IF IsShared(k) THEN session_role[s] = k[1] ELSE s = k[1]
    BY DEF LeasesInNamespace
  <2>1. s \in Session /\ k \in Elems(session_path[s])
    BY DEF IndexInv, LeaseExact
  <2>2. k[1] \in {s, session_role[s]}
    BY <2>1 DEF IndexInv, PathsNumbered, Elems
  <2>3. k[1] \in Session \cup Role
    BY DEF IndexInv, TypeOK, Key, Owner
  <2>4. Session \cap Role = {} /\ NoRole \notin Session \cup Role
    BY IndexAssumption
  <2>5. session_role[s] \in Role \cup {NoRole}
    BY <2>1 DEF IndexInv, TypeOK
  <2>6. CASE k[1] = s
    BY <2>1, <2>4, <2>6 DEF IsShared
  <2>7. CASE k[1] # s
    <3>1. k[1] = session_role[s]
      BY <2>2, <2>7
    <3>2. k[1] \in Role
      BY <3>1, <2>3, <2>4, <2>5
    <3> QED
      BY <3>1, <3>2 DEF IsShared
  <2> QED
    BY <2>6, <2>7
<1> QED
  BY <1>1, IndexInvariant, PTL

\* Whoever holds a lease has a time of last request.
THEOREM LeasesHaveClock == Spec => []LeaseHasClock
<1>1. IndexInv => LeaseHasClock
  <2> SUFFICES ASSUME IndexInv, NEW k \in DOMAIN blocks, NEW s \in blocks[k].refs
               PROVE  session_last_seen[s] # Unset
    BY DEF LeaseHasClock
  <2>1. s \in Session /\ k \in Elems(session_path[s])
    BY DEF IndexInv, LeaseExact
  <2> QED
    BY <2>1 DEF IndexInv, PathsClocked, Elems
<1> QED
  BY <1>1, IndexInvariant, PTL

(***************************************************************************)
(* The index implements the lease table                                    *)
(***************************************************************************)
wantsOf == [s \in Session |-> Elems(session_path[s])]
leasesOf == {l \in Session \X DOMAIN blocks : l[1] \in blocks[l[2]].refs}

\* Under the invariant the leases of the table are those of the paths.
LEMMA LeasesFromPaths ==
    ASSUME IndexInv
    PROVE  leasesOf = {l \in Session \X Key : l[2] \in wantsOf[l[1]]}
<1>1. ASSUME NEW s \in Session, NEW k
      PROVE  (k \in DOMAIN blocks /\ s \in blocks[k].refs)
                <=> (k \in Key /\ k \in wantsOf[s])
  BY DEF IndexInv, LeaseExact, TypeOK, wantsOf
<1> QED
  BY <1>1 DEF leasesOf

\* A step that gives s a new path, and nobody else one, is a step of the table.
LEMMA PathStepIsTableStep ==
    ASSUME IndexInv, IndexInv', NEW s \in Session, NEW path \in Seq(Key),
           session_path' = [session_path EXCEPT ![s] = path]
    PROVE  /\ wantsOf' = [wantsOf EXCEPT ![s] = Elems(path)]
           /\ wantsOf'[s] \subseteq Key
           /\ leasesOf' = {l \in leasesOf : l[1] # s} \cup ({s} \X Elems(path))
<1>1. session_path \in [Session -> Seq(Key)]
  BY DEF IndexInv, TypeOK
<1>2. Elems(path) \subseteq Key
  BY DEF Elems
<1>3. wantsOf' = [wantsOf EXCEPT ![s] = Elems(path)]
  <2>1. \A r \in Session : Elems(session_path'[r]) =
            IF r = s THEN Elems(path) ELSE Elems(session_path[r])
    BY <1>1
  <2> QED
    BY <2>1 DEF wantsOf
<1>4. /\ wantsOf'[s] = Elems(path)
      /\ \A r \in Session \ {s} : wantsOf'[r] = wantsOf[r]
  BY <1>3 DEF wantsOf
<1>5. leasesOf = {l \in Session \X Key : l[2] \in wantsOf[l[1]]}
  BY LeasesFromPaths
<1>6. leasesOf' = {l \in Session \X Key : l[2] \in wantsOf'[l[1]]}
  <2>1. ASSUME NEW r \in Session, NEW k
        PROVE  (k \in DOMAIN blocks' /\ r \in blocks'[k].refs)
                  <=> (k \in Key /\ k \in wantsOf'[r])
    BY DEF IndexInv, LeaseExact, TypeOK, wantsOf
  <2> QED
    BY <2>1 DEF leasesOf
<1>7. ASSUME NEW r \in Session, NEW k \in Key
      PROVE  <<r, k>> \in leasesOf' <=>
                <<r, k>> \in {l \in leasesOf : l[1] # s} \cup ({s} \X Elems(path))
  BY <1>4, <1>5, <1>6
<1> QED
  BY <1>2, <1>3, <1>4, <1>5, <1>6, <1>7

\* Each step of the index is a step of the lease table or changes no lease:
\* the refs kept block by block implement one relation, replaced at once.
THEOREM IndexImplementsTable == Spec => ImplementsLeaseTable
<1>1. Init => Table!Init
  BY DEF Init, Table!Init, Elems
<1>2. ASSUME IndexInv, IndexInv', [Next]_indexVars
      PROVE  [Table!Next]_(Table!vars)
  <2>1. CASE TouchPath
    <3>1. PICK s \in Session, role \in Role, prompt \in Prompts,
               sh \in SharedSizes, t \in now..LastTime, aborted \in BOOLEAN :
                  touch_path(s, role, prompt, sh, t, aborted)
      BY <2>1 DEF TouchPath
    <3> DEFINE keys == KeysOf(chain(s, role, prompt, sh))
    <3>2. session_path' = [session_path EXCEPT ![s] = keys]
      BY <3>1 DEF touch_path
    <3>3. keys \in Seq(Key)
      BY ChainChained, KeysOfParts
    <3> HIDE DEF keys
    <3>4. /\ wantsOf' = [wantsOf EXCEPT ![s] = Elems(keys)]
          /\ wantsOf'[s] \subseteq Key
          /\ leasesOf' = {l \in leasesOf : l[1] # s} \cup ({s} \X Elems(keys))
      BY <1>2, <3>2, <3>3, PathStepIsTableStep
    <3>5. wantsOf'[s] = Elems(keys)
      BY <3>4 DEF wantsOf
    <3>6. Table!Request(s)
      BY <3>4, <3>5 DEF Table!Request, Table!Others, wantsOf, leasesOf
    <3> QED
      BY <3>6 DEF Table!Next
  <2>2. CASE ReleaseSession
    <3>1. PICK s \in Session : release_session(s)
      BY <2>2 DEF ReleaseSession
    <3>2. session_path' = [session_path EXCEPT ![s] = <<>>] /\ <<>> \in Seq(Key)
      BY <3>1 DEF release_session
    <3>3. Elems(<<>>) = {}
      BY DEF Elems
    <3>4. /\ wantsOf' = [wantsOf EXCEPT ![s] = {}]
          /\ leasesOf' = {l \in leasesOf : l[1] # s}
      BY <1>2, <3>2, <3>3, PathStepIsTableStep
    <3>5. Table!Close(s)
      BY <3>4 DEF Table!Close, Table!Others, wantsOf, leasesOf
    <3> QED
      BY <3>5 DEF Table!Next
  <2>3. CASE UNCHANGED indexVars
    BY <2>3 DEF indexVars, Table!vars
  <2> QED
    BY <1>2, <2>1, <2>2, <2>3 DEF Next
<1> QED
  BY <1>1, <1>2, IndexInvariant, PTL DEF Spec, ImplementsLeaseTable, Table!Spec

(***************************************************************************)
(* Use histories                                                           *)
(***************************************************************************)

\* Leasing a block observes one use: a block used before at a time other than
\* zero has a history afterwards.
LEMMA LeasedHistory ==
    ASSUME NEW info \in BlockInfo, NEW tokens \in 1..BlockTokens, NEW s \in Session,
           NEW role \in Role, NEW t \in Nat,
           NEW b, b = Leased(info, tokens, s, role, t)
    PROVE  /\ b.last_use = t
           /\ b.uses = Lesser(Many, info.uses + 1)
           /\ info.last_use # 0 => b.iat # "none"
<1> DEFINE i1 == [info EXCEPT !.tokens = IF tokens > @ THEN tokens ELSE @,
                              !.refs = @ \cup {s},
                              !.roles = @ \cup {role}]
<1>1. /\ i1 \in BlockInfo
      /\ i1.last_use = info.last_use
      /\ i1.uses = info.uses
  BY DEF BlockInfo
<1>2. b = observe_use(i1, t)
  BY DEF Leased
<1> HIDE DEF i1
<1>3. SmoothedIat(i1.iat, t - i1.last_use) # "none"
  BY DEF SmoothedIat
<1> QED
  BY <1>1, <1>2, <1>3 DEF observe_use, BlockInfo

\* What a request does to the uses of each block.
LEMMA TouchedUses ==
    ASSUME TypeOK, NEW s \in Session, NEW role \in Role, NEW t \in Nat,
           NEW parts, Chained(parts, s, role), TouchedBlocks(s, role, parts, t),
           NEW K, K = Elems(KeysOf(parts))
    PROVE  /\ \A k \in K : \E info \in BlockInfo :
                 /\ k \in DOMAIN blocks => info = blocks[k]
                 /\ k \notin DOMAIN blocks => info.uses = 0
                 /\ blocks'[k].last_use = t
                 /\ blocks'[k].uses = Lesser(Many, info.uses + 1)
                 /\ info.last_use # 0 => blocks'[k].iat # "none"
           /\ \A k \in DOMAIN blocks \ K :
                 /\ blocks'[k].last_use = blocks[k].last_use
                 /\ blocks'[k].uses = blocks[k].uses
                 /\ blocks'[k].iat = blocks[k].iat
<1>1. ASSUME NEW k \in K
      PROVE  \E info \in BlockInfo :
                 /\ k \in DOMAIN blocks => info = blocks[k]
                 /\ k \notin DOMAIN blocks => info.uses = 0
                 /\ blocks'[k].last_use = t
                 /\ blocks'[k].uses = Lesser(Many, info.uses + 1)
                 /\ info.last_use # 0 => blocks'[k].iat # "none"
  <2>1. PICK i \in DOMAIN parts : k = parts[i].key
    BY KeysOfParts
  <2>2. PICK info \in BlockInfo :
           /\ k \in DOMAIN blocks => info = blocks[k]
           /\ k \notin DOMAIN blocks => info = NewBlock(parts[i].tokens, i - 1)
           /\ blocks'[k] = Leased(info, parts[i].tokens, s, role, t)
    BY <2>1 DEF TouchedBlocks
  <2>3. parts[i].tokens \in 1..BlockTokens
    BY <2>1 DEF Chained
  <2>4. /\ blocks'[k].last_use = t
        /\ blocks'[k].uses = Lesser(Many, info.uses + 1)
        /\ info.last_use # 0 => blocks'[k].iat # "none"
    BY <2>2, <2>3, LeasedHistory
  <2>5. k \notin DOMAIN blocks => info.uses = 0
    BY <2>2 DEF NewBlock
  <2> QED
    BY <2>2, <2>4, <2>5
<1>2. ASSUME NEW k \in DOMAIN blocks \ K
      PROVE  /\ blocks'[k].last_use = blocks[k].last_use
             /\ blocks'[k].uses = blocks[k].uses
             /\ blocks'[k].iat = blocks[k].iat
  <2>1. blocks[k] \in BlockInfo
    BY DEF TypeOK
  <2>2. CASE k \in Elems(session_path[s])
    <3>1. blocks'[k] = Unleased(blocks[k], s)
      BY <1>2, <2>2 DEF TouchedBlocks
    <3> QED
      BY <2>1, <3>1, UnleasedFacts
  <2>3. CASE k \notin Elems(session_path[s])
    <3>1. blocks'[k] = blocks[k]
      BY <1>2, <2>3 DEF TouchedBlocks
    <3> QED
      BY <3>1
  <2> QED
    BY <2>2, <2>3
<1> QED
  BY <1>1, <1>2

\* A close changes no block but for its leases.
LEMMA ReleasedBlocks ==
    ASSUME TypeOK, NEW s \in Session, release_session(s)
    PROVE  /\ DOMAIN blocks' = DOMAIN blocks
           /\ now' = now
           /\ \A k \in DOMAIN blocks :
                 /\ blocks'[k].tokens = blocks[k].tokens
                 /\ blocks'[k].depth = blocks[k].depth
                 /\ blocks'[k].last_use = blocks[k].last_use
                 /\ blocks'[k].uses = blocks[k].uses
                 /\ blocks'[k].iat = blocks[k].iat
<1>1. /\ DOMAIN blocks' = DOMAIN blocks
      /\ now' = now
      /\ \A k \in DOMAIN blocks :
            blocks'[k] = IF k \in Elems(session_path[s])
                         THEN Unleased(blocks[k], s) ELSE blocks[k]
  BY DEF release_session
<1>2. ASSUME NEW k \in DOMAIN blocks
      PROVE  /\ blocks'[k].tokens = blocks[k].tokens
             /\ blocks'[k].depth = blocks[k].depth
             /\ blocks'[k].last_use = blocks[k].last_use
             /\ blocks'[k].uses = blocks[k].uses
             /\ blocks'[k].iat = blocks[k].iat
  <2>1. blocks[k] \in BlockInfo
    BY DEF TypeOK
  <2>2. CASE k \in Elems(session_path[s])
    <3>1. blocks'[k] = Unleased(blocks[k], s)
      BY <1>1, <2>2
    <3> QED
      BY <2>1, <3>1, UnleasedFacts
  <2>3. CASE k \notin Elems(session_path[s])
    <3>1. blocks'[k] = blocks[k]
      BY <1>1, <2>3
    <3> QED
      BY <3>1
  <2> QED
    BY <2>2, <2>3
<1> QED
  BY <1>1, <1>2

\* Time never runs back, no use is in the future, and a block used at all was
\* used last at a time after the start.
HistoryInv ==
    /\ now >= FirstTime
    /\ \A k \in DOMAIN blocks :
          /\ blocks[k].last_use <= now
          /\ blocks[k].uses # 0 => blocks[k].last_use >= FirstTime
          /\ (FirstTime # 0 /\ blocks[k].uses = Many) => blocks[k].iat # "none"

\* A request keeps it and only makes blocks grow.
LEMMA TouchHistory ==
    ASSUME TypeOK, HistoryInv,
           NEW s \in Session, NEW role \in Role, NEW prompt \in Prompts,
           NEW sh \in SharedSizes, NEW t \in now..LastTime, NEW aborted \in BOOLEAN,
           touch_path(s, role, prompt, sh, t, aborted)
    PROVE  /\ HistoryInv'
           /\ \A k \in DOMAIN blocks :
                 /\ k \in DOMAIN blocks'
                 /\ blocks'[k].tokens >= blocks[k].tokens
                 /\ blocks'[k].depth = blocks[k].depth
                 /\ blocks'[k].last_use >= blocks[k].last_use
<1> DEFINE parts == chain(s, role, prompt, sh)
           K == Elems(KeysOf(parts))
<1>1. Chained(parts, s, role)
  BY ChainChained
<1>2. t \in Nat /\ now \in Nat /\ t >= now /\ FirstTime \in Nat
  BY IndexAssumption DEF TypeOK
<1>3. TouchedBlocks(s, role, parts, t) /\ now' = t
  BY <1>2, TouchEffect DEF touch_path
<1> HIDE DEF parts
<1>4. /\ DOMAIN blocks' = DOMAIN blocks \cup K
      /\ \A k \in DOMAIN blocks :
            /\ blocks'[k].depth = blocks[k].depth
            /\ blocks'[k].tokens >= blocks[k].tokens
  BY <1>1, <1>2, <1>3, TouchedFields
<1>5. /\ \A k \in K : \E info \in BlockInfo :
            /\ k \in DOMAIN blocks => info = blocks[k]
            /\ k \notin DOMAIN blocks => info.uses = 0
            /\ blocks'[k].last_use = t
            /\ blocks'[k].uses = Lesser(Many, info.uses + 1)
            /\ info.last_use # 0 => blocks'[k].iat # "none"
      /\ \A k \in DOMAIN blocks \ K :
            /\ blocks'[k].last_use = blocks[k].last_use
            /\ blocks'[k].uses = blocks[k].uses
            /\ blocks'[k].iat = blocks[k].iat
  BY <1>1, <1>2, <1>3, TouchedUses
<1> HIDE DEF K
<1>6. ASSUME NEW k \in DOMAIN blocks
      PROVE  blocks[k].last_use \in Nat /\ blocks[k].uses \in 0..Many
  BY DEF TypeOK, BlockInfo
<1>7. ASSUME NEW k \in DOMAIN blocks'
      PROVE  /\ blocks'[k].last_use <= now'
             /\ blocks'[k].uses # 0 => blocks'[k].last_use >= FirstTime
             /\ (FirstTime # 0 /\ blocks'[k].uses = Many) => blocks'[k].iat # "none"
  <2>1. CASE k \in K
    <3>1. PICK info \in BlockInfo :
            /\ k \in DOMAIN blocks => info = blocks[k]
            /\ k \notin DOMAIN blocks => info.uses = 0
            /\ blocks'[k].last_use = t
            /\ blocks'[k].uses = Lesser(Many, info.uses + 1)
            /\ info.last_use # 0 => blocks'[k].iat # "none"
      BY <1>5, <2>1
    <3>2. info.uses \in 0..Many /\ info.last_use \in Nat
      BY DEF BlockInfo
    <3>3. blocks'[k].uses = Many => info.uses # 0
      BY <3>1, <3>2 DEF Lesser, Many
    <3>4. (info.uses # 0 /\ FirstTime # 0) => info.last_use # 0
      BY <1>2, <3>1, <3>2 DEF HistoryInv
    <3>5. t <= now' /\ t >= FirstTime
      BY <1>2, <1>3 DEF HistoryInv
    <3> QED
      BY <3>1, <3>3, <3>4, <3>5
  <2>2. CASE k \notin K
    <3>1. k \in DOMAIN blocks \ K
      BY <1>4, <1>7, <2>2
    <3>2. /\ blocks'[k].last_use = blocks[k].last_use
          /\ blocks'[k].uses = blocks[k].uses
          /\ blocks'[k].iat = blocks[k].iat
      BY <1>5, <3>1
    <3>3. blocks[k].last_use <= now'
      BY <1>2, <1>3, <1>6, <3>1 DEF HistoryInv
    <3> QED
      BY <3>1, <3>2, <3>3 DEF HistoryInv
  <2> QED
    BY <2>1, <2>2
<1>8. HistoryInv'
  BY <1>2, <1>3, <1>7 DEF HistoryInv
<1>9. ASSUME NEW k \in DOMAIN blocks
      PROVE  blocks'[k].last_use >= blocks[k].last_use
  <2>1. CASE k \in K
    <3>1. blocks'[k].last_use = t
      BY <1>5, <2>1
    <3> QED
      BY <1>2, <1>6, <3>1 DEF HistoryInv
  <2>2. CASE k \notin K
    BY <1>5, <1>6, <2>2
  <2> QED
    BY <2>1, <2>2
<1> QED
  BY <1>4, <1>8, <1>9

\* Every step keeps the histories and only makes blocks grow.
LEMMA StepHistory ==
    ASSUME TypeOK, HistoryInv, [Next]_indexVars
    PROVE  /\ HistoryInv'
           /\ \A k \in DOMAIN blocks :
                 /\ k \in DOMAIN blocks'
                 /\ blocks'[k].tokens >= blocks[k].tokens
                 /\ blocks'[k].depth = blocks[k].depth
                 /\ blocks'[k].last_use >= blocks[k].last_use
<1>1. ASSUME NEW k \in DOMAIN blocks
      PROVE  blocks[k].tokens \in Nat /\ blocks[k].last_use \in Nat
  BY IndexAssumption DEF TypeOK, BlockInfo
<1>2. CASE TouchPath
  BY <1>2, TouchHistory DEF TouchPath
<1>3. CASE ReleaseSession
  <2>1. PICK s \in Session : release_session(s)
    BY <1>3 DEF ReleaseSession
  <2>2. /\ DOMAIN blocks' = DOMAIN blocks
        /\ now' = now
        /\ \A k \in DOMAIN blocks :
              /\ blocks'[k].tokens = blocks[k].tokens
              /\ blocks'[k].depth = blocks[k].depth
              /\ blocks'[k].last_use = blocks[k].last_use
              /\ blocks'[k].uses = blocks[k].uses
              /\ blocks'[k].iat = blocks[k].iat
    BY <2>1, ReleasedBlocks
  <2>3. HistoryInv'
    BY <2>2 DEF HistoryInv
  <2> QED
    BY <1>1, <2>2, <2>3
<1>4. CASE UNCHANGED indexVars
  BY <1>1, <1>4 DEF indexVars, HistoryInv
<1> QED
  BY <1>2, <1>3, <1>4 DEF Next

\* The use histories are right in every reachable state.
THEOREM HistoryInvariant == Spec => []HistoryInv
<1>1. Init => HistoryInv
  BY IndexAssumption DEF Init, HistoryInv
<1>2. TypeOK /\ HistoryInv /\ [Next]_indexVars => HistoryInv'
  BY StepHistory
<1> QED
  BY <1>1, <1>2, TypeCorrect, PTL DEF Spec

\* No step of the index shrinks a block that it keeps, moves its depth or takes
\* back its last use: a growing prompt fills its partial block in place.
THEOREM KeptBlocksOnlyGrow == Spec => BlocksOnlyGrow
<1>1. TypeOK /\ HistoryInv /\ [Next]_indexVars =>
        [\A k \in DOMAIN blocks \cap DOMAIN blocks' :
           /\ blocks'[k].tokens >= blocks[k].tokens
           /\ blocks'[k].depth = blocks[k].depth
           /\ blocks'[k].last_use >= blocks[k].last_use]_indexVars
  BY StepHistory
<1> QED
  BY <1>1, TypeCorrect, HistoryInvariant, PTL DEF Spec, BlocksOnlyGrow

================================================================================
