----------------------------- MODULE ItemListsProofs -----------------------------
(***************************************************************************)
(* What the proofs about the tiers need to know of finite sums and of      *)
(* lists.  The library's induction theorems take the property as an        *)
(* operator; a least element of a set of numbers, or of a set of finite    *)
(* sets, does the same work with the counterexamples gathered in a set.    *)
(***************************************************************************)
EXTENDS ItemLists, FiniteSetTheorems, TLAPS

LEMMA NatLess ==
    \E R : IsWellFoundedOn(R, Nat) /\ \A x, y \in Nat : x < y => <<x, y>> \in R
BY NatLessThanWellFounded DEF OpToRel

\* A set of natural numbers has a least one.
LEMMA NatMin ==
    ASSUME NEW T, T \subseteq Nat, T # {}
    PROVE  \E n \in T : \A m \in T : n <= m
<1>1. PICK R : IsWellFoundedOn(R, Nat) /\ \A x, y \in Nat : x < y => <<x, y>> \in R
  BY NatLess
<1>2. IsWellFoundedOn(R, Nat)
  BY <1>1
<1>3. \E n \in T : \A m \in T : ~(<<m, n>> \in R)
  BY WFMin, <1>2, Zenon
<1>4. PICK n \in T : \A m \in T : ~(<<m, n>> \in R)
  BY <1>3
<1>5. \A x, y \in Nat : x < y => <<x, y>> \in R
  BY <1>1
<1>6. ASSUME NEW m \in T PROVE n <= m
  <2>1. n \in Nat /\ m \in Nat /\ ~(<<m, n>> \in R)
    BY <1>4
  <2>2. ~(m < n)
    BY <2>1, <1>5
  <2> QED
    BY <2>1, <2>2
<1> QED
  BY <1>6

\* A set of finite sets has one that contains no other.
LEMMA NatMax ==
    ASSUME NEW N \in Nat, NEW T, T \subseteq 0..N, T # {}
    PROVE  \E n \in T : \A m \in T : n >= m
<1> DEFINE U == {N - n : n \in T}
<1>1. U \subseteq Nat /\ U # {}
  <2>1. \A n \in T : N - n \in Nat
    OBVIOUS
  <2> QED
    BY <2>1
<1>2. PICK u \in U : \A v \in U : u <= v
  <2> HIDE DEF U
  <2> QED
    BY <1>1, NatMin
<1>3. PICK n \in T : u = N - n
  BY <1>2
<1>4. ASSUME NEW m \in T PROVE n >= m
  <2>1. N - m \in U /\ m \in Nat /\ n \in Nat
    OBVIOUS
  <2>2. u <= N - m
    BY <1>2, <2>1
  <2> QED
    BY <1>3, <2>1, <2>2
<1> QED
  BY <1>4

LEMMA FiniteMin ==
    ASSUME NEW S, IsFiniteSet(S), NEW T, T \subseteq SUBSET S, T # {}
    PROVE  \E U \in T : \A V \in T : V \subseteq U => V = U
<1> DEFINE R == StrictSubsetOrdering(S)
           D == FiniteSubsetsOf(S)
<1>1. IsWellFoundedOn(R, D)
  BY FS_StrictSubsetOrderingWellFounded
<1>2. D = SUBSET S
  BY FS_FiniteSubsetsOfFinite
<1>3. \A U, V \in SUBSET S : V \subseteq U /\ V # U => <<V, U>> \in R
  BY DEF StrictSubsetOrdering
<1>4. T \subseteq D
  BY <1>2
<1> HIDE DEF R, D
<1>5. \E U \in T : \A V \in T : ~(<<V, U>> \in R)
  BY WFMin, <1>1, <1>4, Zenon
<1> QED
  BY <1>3, <1>5

--------------------------------------------------------------------------------
(***************************************************************************)
(* Sums over finite sets.  SumFunctionOnSet takes the elements one by one  *)
(* by a recursive function over the subsets, so its properties follow from *)
(* the existence and uniqueness of that function.                          *)
(***************************************************************************)
First(s) == CHOOSE x \in s : TRUE

Adds(g, f, S) ==
    g = [s \in SUBSET S |-> IF s = {} THEN 0 ELSE f[First(s)] + g[s \ {First(s)}]]

LEMMA AddsUnique ==
    ASSUME NEW f, NEW S, NEW T, NEW g, NEW h, Adds(g, f, S), Adds(h, f, T),
           NEW U, U \subseteq S, U \subseteq T, IsFiniteSet(U)
    PROVE  g[U] = h[U]
<1> DEFINE Bad == {V \in SUBSET U : g[V] # h[V]}
<1> SUFFICES ASSUME Bad # {} PROVE FALSE
  OBVIOUS
<1>0. Bad \subseteq SUBSET U
  OBVIOUS
<1>1. PICK V \in Bad : \A W \in Bad : W \subseteq V => W = V
  <2> HIDE DEF Bad
  <2> QED
    BY <1>0, FiniteMin
<1>2. V \in SUBSET S /\ V \in SUBSET T
  OBVIOUS
<1>3. g[V] = IF V = {} THEN 0 ELSE f[First(V)] + g[V \ {First(V)}]
  BY <1>2 DEF Adds
<1>4. h[V] = IF V = {} THEN 0 ELSE f[First(V)] + h[V \ {First(V)}]
  BY <1>2 DEF Adds
<1>5. V # {} => First(V) \in V
  BY DEF First
<1>6. V # {} => V \ {First(V)} \notin Bad
  BY <1>1, <1>5
<1> QED
  BY <1>3, <1>4, <1>5, <1>6

LEMMA AddsExists ==
    ASSUME NEW f, NEW S, IsFiniteSet(S)
    PROVE  \E g : Adds(g, f, S)
<1> DEFINE Bad == {V \in SUBSET S : ~ \E g : Adds(g, f, V)}
<1> SUFFICES ASSUME Bad # {} PROVE FALSE
  OBVIOUS
<1>0. Bad \subseteq SUBSET S
  OBVIOUS
<1>1. PICK V \in Bad : \A W \in Bad : W \subseteq V => W = V
  <2> HIDE DEF Bad
  <2> QED
    BY <1>0, FiniteMin
<1> DEFINE less(W) == W \ {First(W)}
           at(W) == CHOOSE h : Adds(h, f, W)
           g == [s \in SUBSET V |-> IF s = {} THEN 0 ELSE f[First(s)] + at(less(s))[less(s)]]
<1>2. \A W : W # {} => First(W) \in W
  BY DEF First
<1>3. ASSUME NEW W \in SUBSET V, W # V PROVE Adds(at(W), f, W)
  <2>1. W \in SUBSET S /\ W \notin Bad
    BY <1>0, <1>1, <1>3
  <2>2. \E h : Adds(h, f, W)
    BY <2>1
  <2> QED
    BY <2>2, Zenon
<1>4. ASSUME NEW s \in SUBSET V, s # {} PROVE at(less(s))[less(s)] = g[less(s)]
  <2> DEFINE U == less(s)
  <2>1. U \in SUBSET V /\ U # V
    BY <1>2, <1>4
  <2>2. Adds(at(U), f, U)
    BY <2>1, <1>3
  <2>3. at(U)[U] = IF U = {} THEN 0 ELSE f[First(U)] + at(U)[less(U)]
    BY <2>2 DEF Adds
  <2>4. CASE U = {}
    BY <2>1, <2>3, <2>4
  <2>5. CASE U # {}
    <3>1. less(U) \in SUBSET V /\ less(U) # V /\ less(U) \subseteq U
      BY <2>1, <2>5, <1>2
    <3>2. Adds(at(less(U)), f, less(U))
      BY <3>1, <1>3
    <3>3. IsFiniteSet(less(U))
      BY <3>1, FS_Subset
    <3>4. at(U)[less(U)] = at(less(U))[less(U)]
      BY <2>2, <3>1, <3>2, <3>3, AddsUnique
    <3>5. g[U] = f[First(U)] + at(less(U))[less(U)]
      BY <2>1, <2>5
    <3> QED
      BY <2>3, <2>5, <3>4, <3>5
  <2> QED
    BY <2>4, <2>5
<1>5. Adds(g, f, V)
  <2>1. g = [s \in SUBSET V |-> IF s = {} THEN 0 ELSE f[First(s)] + g[less(s)]]
    <3> HIDE DEF at, less
    <3> DEFINE a == [s \in SUBSET V |-> IF s = {} THEN 0 ELSE f[First(s)] + at(less(s))[less(s)]]
               b == [s \in SUBSET V |-> IF s = {} THEN 0 ELSE f[First(s)] + g[less(s)]]
    <3>1. \A s \in SUBSET V : a[s] = b[s]
      BY <1>4
    <3> QED
      BY <3>1
  <2> QED
    BY <2>1 DEF Adds
<1> QED
  BY <1>5, <1>1

LEMMA SumAdds ==
    ASSUME NEW f, NEW S, IsFiniteSet(S)
    PROVE  \E g : Adds(g, f, S) /\ SumFunctionOnSet(f, S) = g[S]
<1> DEFINE g == CHOOSE h : Adds(h, f, S)
<1>1. Adds(g, f, S)
  BY AddsExists
<1>2. SumFunctionOnSet(f, S) = g[S]
  BY DEF SumFunctionOnSet, FoldFunctionOnSet, MapThenFoldSet, Adds, First
<1> QED
  BY <1>1, <1>2

LEMMA SumEmpty ==
    ASSUME NEW f PROVE SumFunctionOnSet(f, {}) = 0
<1>1. IsFiniteSet({})
  BY FS_EmptySet
<1>2. PICK g : Adds(g, f, {}) /\ SumFunctionOnSet(f, {}) = g[{}]
  BY <1>1, SumAdds
<1> QED
  BY <1>2 DEF Adds

LEMMA SumFirst ==
    ASSUME NEW f, NEW S, IsFiniteSet(S), S # {}
    PROVE  /\ First(S) \in S
           /\ SumFunctionOnSet(f, S) = f[First(S)] + SumFunctionOnSet(f, S \ {First(S)})
<1> DEFINE U == S \ {First(S)}
<1>1. First(S) \in S
  BY DEF First
<1>2. IsFiniteSet(U)
  BY FS_Subset
<1>3. PICK g : Adds(g, f, S) /\ SumFunctionOnSet(f, S) = g[S]
  BY SumAdds
<1>4. PICK h : Adds(h, f, U) /\ SumFunctionOnSet(f, U) = h[U]
  BY <1>2, SumAdds
<1>5. g[U] = h[U]
  BY <1>2, <1>3, <1>4, AddsUnique
<1>6. g[S] = f[First(S)] + g[U]
  BY <1>3 DEF Adds
<1> QED
  BY <1>1, <1>3, <1>4, <1>5, <1>6

LEMMA SumInt ==
    ASSUME NEW f, NEW S, IsFiniteSet(S), \A x \in S : f[x] \in Int
    PROVE  SumFunctionOnSet(f, S) \in Int
<1> DEFINE Bad == {V \in SUBSET S : SumFunctionOnSet(f, V) \notin Int}
<1> SUFFICES ASSUME Bad # {} PROVE FALSE
  OBVIOUS
<1>1. Bad \subseteq SUBSET S
  OBVIOUS
<1>2. PICK V \in Bad : \A W \in Bad : W \subseteq V => W = V
  <2> HIDE DEF Bad
  <2> QED
    BY <1>1, FiniteMin
<1>3. V \subseteq S /\ IsFiniteSet(V)
  BY <1>1, FS_Subset
<1>4. V # {}
  BY SumEmpty
<1>5. /\ First(V) \in V
      /\ SumFunctionOnSet(f, V) = f[First(V)] + SumFunctionOnSet(f, V \ {First(V)})
  BY <1>3, <1>4, SumFirst
<1>6. V \ {First(V)} \notin Bad
  BY <1>2, <1>5
<1> QED
  BY <1>2, <1>3, <1>5, <1>6

LEMMA SumSame ==
    ASSUME NEW f, NEW g, NEW S, IsFiniteSet(S), \A x \in S : f[x] = g[x]
    PROVE  SumFunctionOnSet(f, S) = SumFunctionOnSet(g, S)
<1> DEFINE Bad == {V \in SUBSET S : SumFunctionOnSet(f, V) # SumFunctionOnSet(g, V)}
<1> SUFFICES ASSUME Bad # {} PROVE FALSE
  OBVIOUS
<1>1. Bad \subseteq SUBSET S
  OBVIOUS
<1>2. PICK V \in Bad : \A W \in Bad : W \subseteq V => W = V
  <2> HIDE DEF Bad
  <2> QED
    BY <1>1, FiniteMin
<1>3. V \subseteq S /\ IsFiniteSet(V)
  BY <1>1, FS_Subset
<1>4. V # {}
  BY SumEmpty
<1>5. /\ First(V) \in V
      /\ SumFunctionOnSet(f, V) = f[First(V)] + SumFunctionOnSet(f, V \ {First(V)})
      /\ SumFunctionOnSet(g, V) = g[First(V)] + SumFunctionOnSet(g, V \ {First(V)})
  BY <1>3, <1>4, SumFirst
<1>6. V \ {First(V)} \notin Bad
  BY <1>2, <1>5
<1> QED
  BY <1>2, <1>3, <1>5, <1>6

\* Any element may be taken first.
LEMMA SumRemove ==
    ASSUME NEW f, NEW S, IsFiniteSet(S), \A x \in S : f[x] \in Int, NEW e \in S
    PROVE  SumFunctionOnSet(f, S) = f[e] + SumFunctionOnSet(f, S \ {e})
<1> DEFINE Bad == {V \in SUBSET S : \E x \in V :
                      SumFunctionOnSet(f, V) # f[x] + SumFunctionOnSet(f, V \ {x})}
<1> SUFFICES ASSUME Bad # {} PROVE FALSE
  OBVIOUS
<1>1. Bad \subseteq SUBSET S
  OBVIOUS
<1>2. PICK V \in Bad : \A W \in Bad : W \subseteq V => W = V
  <2> HIDE DEF Bad
  <2> QED
    BY <1>1, FiniteMin
<1>3. V \subseteq S /\ IsFiniteSet(V)
  BY <1>1, FS_Subset
<1>4. PICK x \in V : SumFunctionOnSet(f, V) # f[x] + SumFunctionOnSet(f, V \ {x})
  OBVIOUS
<1> DEFINE y == First(V)
<1>5. y \in V /\ SumFunctionOnSet(f, V) = f[y] + SumFunctionOnSet(f, V \ {y})
  BY <1>3, SumFirst
<1>6. x # y
  BY <1>4, <1>5
<1>7. V \ {x} \notin Bad /\ V \ {y} \notin Bad
  BY <1>2, <1>5
<1>8. SumFunctionOnSet(f, V \ {y}) = f[x] + SumFunctionOnSet(f, (V \ {y}) \ {x})
  BY <1>3, <1>6, <1>7
<1>9. SumFunctionOnSet(f, V \ {x}) = f[y] + SumFunctionOnSet(f, (V \ {x}) \ {y})
  BY <1>3, <1>5, <1>6, <1>7
<1>10. (V \ {y}) \ {x} = (V \ {x}) \ {y}
  OBVIOUS
<1>11. SumFunctionOnSet(f, (V \ {x}) \ {y}) \in Int
  BY <1>3, FS_Subset, SumInt
<1>12. f[x] \in Int /\ f[y] \in Int
  BY <1>3, <1>5
<1> HIDE DEF y
<1>13. SumFunctionOnSet(f, V \ {y}) = f[x] + SumFunctionOnSet(f, (V \ {x}) \ {y})
  BY <1>8, <1>10, Zenon
<1> QED
  BY <1>4, <1>5, <1>9, <1>11, <1>12, <1>13

LEMMA SumUnion ==
    ASSUME NEW f, NEW S, NEW T, IsFiniteSet(S), IsFiniteSet(T), S \cap T = {},
           \A x \in S \cup T : f[x] \in Int
    PROVE  SumFunctionOnSet(f, S \cup T) = SumFunctionOnSet(f, S) + SumFunctionOnSet(f, T)
<1> DEFINE Bad == {V \in SUBSET S : SumFunctionOnSet(f, V \cup T)
                                       # SumFunctionOnSet(f, V) + SumFunctionOnSet(f, T)}
<1> SUFFICES ASSUME Bad # {} PROVE FALSE
  OBVIOUS
<1>1. Bad \subseteq SUBSET S
  OBVIOUS
<1>2. PICK V \in Bad : \A W \in Bad : W \subseteq V => W = V
  <2> HIDE DEF Bad
  <2> QED
    BY <1>1, FiniteMin
<1>3. V \subseteq S /\ IsFiniteSet(V) /\ IsFiniteSet(V \cup T)
  BY <1>1, FS_Subset, FS_Union
<1>4. SumFunctionOnSet(f, T) \in Int
  BY SumInt
<1>5. V # {}
  BY <1>4, SumEmpty
<1>6. PICK x \in V : TRUE
  BY <1>5
<1>7. V \ {x} \notin Bad
  BY <1>2
<1>8. SumFunctionOnSet(f, V \cup T) = f[x] + SumFunctionOnSet(f, (V \cup T) \ {x})
  BY <1>3, SumRemove
<1>9. SumFunctionOnSet(f, V) = f[x] + SumFunctionOnSet(f, V \ {x})
  BY <1>3, SumRemove
<1>10. (V \cup T) \ {x} = (V \ {x}) \cup T
  BY <1>3
<1>11. SumFunctionOnSet(f, V \ {x}) \in Int
  BY <1>3, FS_Subset, SumInt
<1>12. f[x] \in Int
  BY <1>3
<1>13. SumFunctionOnSet(f, (V \ {x}) \cup T)
          = SumFunctionOnSet(f, V \ {x}) + SumFunctionOnSet(f, T)
  BY <1>1, <1>7
<1>14. SumFunctionOnSet(f, V \cup T) = f[x] + SumFunctionOnSet(f, (V \ {x}) \cup T)
  BY <1>8, <1>10, Zenon
<1>15. SumFunctionOnSet(f, V \cup T) # SumFunctionOnSet(f, V) + SumFunctionOnSet(f, T)
  OBVIOUS
<1> QED
  BY <1>4, <1>9, <1>11, <1>12, <1>13, <1>14, <1>15

LEMMA SumMono ==
    ASSUME NEW f, NEW g, NEW S, IsFiniteSet(S),
           \A x \in S : f[x] \in Int /\ g[x] \in Int /\ f[x] <= g[x]
    PROVE  SumFunctionOnSet(f, S) <= SumFunctionOnSet(g, S)
<1> DEFINE Bad == {V \in SUBSET S : ~(SumFunctionOnSet(f, V) <= SumFunctionOnSet(g, V))}
<1> SUFFICES ASSUME Bad # {} PROVE FALSE
  OBVIOUS
<1>1. Bad \subseteq SUBSET S
  OBVIOUS
<1>2. PICK V \in Bad : \A W \in Bad : W \subseteq V => W = V
  <2> HIDE DEF Bad
  <2> QED
    BY <1>1, FiniteMin
<1>3. V \subseteq S /\ IsFiniteSet(V)
  BY <1>1, FS_Subset
<1>4. V # {}
  BY SumEmpty
<1>5. /\ First(V) \in V
      /\ SumFunctionOnSet(f, V) = f[First(V)] + SumFunctionOnSet(f, V \ {First(V)})
      /\ SumFunctionOnSet(g, V) = g[First(V)] + SumFunctionOnSet(g, V \ {First(V)})
  BY <1>3, <1>4, SumFirst
<1>6. V \ {First(V)} \notin Bad
  BY <1>2, <1>5
<1>7. /\ SumFunctionOnSet(f, V \ {First(V)}) \in Int
      /\ SumFunctionOnSet(g, V \ {First(V)}) \in Int
  BY <1>3, FS_Subset, SumInt
<1>8. SumFunctionOnSet(f, V \ {First(V)}) <= SumFunctionOnSet(g, V \ {First(V)})
  BY <1>1, <1>6
<1>9. f[First(V)] \in Int /\ g[First(V)] \in Int /\ f[First(V)] <= g[First(V)]
  BY <1>3, <1>5
<1>10. ~(SumFunctionOnSet(f, V) <= SumFunctionOnSet(g, V))
  OBVIOUS
<1> QED
  BY <1>5, <1>7, <1>8, <1>9, <1>10

LEMMA SumNat ==
    ASSUME NEW f, NEW S, IsFiniteSet(S), \A x \in S : f[x] \in Nat
    PROVE  SumFunctionOnSet(f, S) \in Nat
<1> DEFINE Bad == {V \in SUBSET S : SumFunctionOnSet(f, V) \notin Nat}
<1> SUFFICES ASSUME Bad # {} PROVE FALSE
  OBVIOUS
<1>1. Bad \subseteq SUBSET S
  OBVIOUS
<1>2. PICK V \in Bad : \A W \in Bad : W \subseteq V => W = V
  <2> HIDE DEF Bad
  <2> QED
    BY <1>1, FiniteMin
<1>3. V \subseteq S /\ IsFiniteSet(V)
  BY <1>1, FS_Subset
<1>4. V # {}
  BY SumEmpty
<1>5. /\ First(V) \in V
      /\ SumFunctionOnSet(f, V) = f[First(V)] + SumFunctionOnSet(f, V \ {First(V)})
  BY <1>3, <1>4, SumFirst
<1>6. V \ {First(V)} \notin Bad
  BY <1>2, <1>5
<1> QED
  BY <1>2, <1>3, <1>5, <1>6

LEMMA SumSubset ==
    ASSUME NEW f, NEW S, IsFiniteSet(S), \A x \in S : f[x] \in Nat, NEW T, T \subseteq S
    PROVE  SumFunctionOnSet(f, T) <= SumFunctionOnSet(f, S)
<1>1. IsFiniteSet(T) /\ IsFiniteSet(S \ T)
  BY FS_Subset
<1>2. SumFunctionOnSet(f, T) \in Nat /\ SumFunctionOnSet(f, S \ T) \in Nat
  BY <1>1, SumNat
<1>3. T \cup (S \ T) = S /\ T \cap (S \ T) = {}
  OBVIOUS
<1>4. SumFunctionOnSet(f, T \cup (S \ T))
         = SumFunctionOnSet(f, T) + SumFunctionOnSet(f, S \ T)
  BY <1>1, <1>3, SumUnion
<1>5. SumFunctionOnSet(f, S) = SumFunctionOnSet(f, T) + SumFunctionOnSet(f, S \ T)
  BY <1>3, <1>4, Zenon
<1> QED
  BY <1>2, <1>5

--------------------------------------------------------------------------------
(***************************************************************************)
(* Sublists.                                                               *)
(***************************************************************************)
Uptos(u, seq, I, N) ==
    u = [n \in 0..N |->
            IF n = 0 THEN <<>>
            ELSE IF n \in I THEN Append(u[n - 1], seq[n]) ELSE u[n - 1]]

LEMMA UptosExist ==
    ASSUME NEW seq, NEW I, NEW N \in Nat
    PROVE  \E u : Uptos(u, seq, I, N)
<1> DEFINE Bad == {n \in Nat : ~ \E u : Uptos(u, seq, I, n)}
<1> SUFFICES ASSUME Bad # {} PROVE FALSE
  OBVIOUS
<1>1. Bad \subseteq Nat
  OBVIOUS
<1>2. PICK n \in Bad : \A m \in Bad : n <= m
  <2> HIDE DEF Bad
  <2> QED
    BY <1>1, NatMin
<1>3. CASE n = 0
  <2> DEFINE u == [m \in 0..0 |-> <<>>]
  <2>1. Uptos(u, seq, I, 0)
    BY DEF Uptos
  <2> QED
    BY <1>3, <2>1
<1>4. CASE n # 0
  <2>1. n \in Nat /\ n - 1 \in Nat /\ n - 1 \notin Bad
    BY <1>2, <1>4
  <2>2. PICK u : Uptos(u, seq, I, n - 1)
    BY <2>1
  <2> DEFINE w == [m \in 0..n |-> IF m < n THEN u[m]
                                  ELSE IF n \in I THEN Append(u[n - 1], seq[n]) ELSE u[n - 1]]
             v == [m \in 0..n |-> IF m = 0 THEN <<>>
                                  ELSE IF m \in I THEN Append(w[m - 1], seq[m]) ELSE w[m - 1]]
  <2>3. \A m \in 0..(n - 1) :
           u[m] = IF m = 0 THEN <<>>
                  ELSE IF m \in I THEN Append(u[m - 1], seq[m]) ELSE u[m - 1]
    BY <2>2 DEF Uptos
  <2>4. ASSUME NEW m \in 0..n PROVE w[m] = v[m]
    <3>1. CASE m = n
      BY <3>1, <2>1, <1>4
    <3>2. CASE m # n
      <4>1. m \in 0..(n - 1) /\ m < n
        BY <3>2, <2>1
      <4>2. m # 0 => m - 1 \in 0..n /\ m - 1 < n
        BY <2>1
      <4> QED
        BY <4>1, <4>2, <2>3
    <3> QED
      BY <3>1, <3>2
  <2>5. w = v
    BY <2>4
  <2>6. Uptos(w, seq, I, n)
    BY <2>5 DEF Uptos
  <2> QED
    BY <2>6
<1> QED
  BY <1>3, <1>4

LEMMA SublistUptos ==
    ASSUME NEW S, NEW seq \in Seq(S), NEW I
    PROVE  \E u : Uptos(u, seq, I, Len(seq)) /\ Sublist(seq, I) = u[Len(seq)]
<1> DEFINE u == CHOOSE w : Uptos(w, seq, I, Len(seq))
<1>1. Uptos(u, seq, I, Len(seq))
  BY UptosExist
<1>2. Sublist(seq, I) = u[Len(seq)]
  BY DEF Sublist, Uptos
<1> QED
  BY <1>1, <1>2

\* e names the positions of I that sub takes from the first n of seq, in order.
Enumerates(e, sub, seq, I, n) ==
    /\ e \in [DOMAIN sub -> 1..n]
    /\ \A m \in DOMAIN sub : e[m] \in I /\ sub[m] = seq[e[m]]
    /\ \A m, k \in DOMAIN sub : m < k => e[m] < e[k]
    /\ \A i \in I \cap (1..n) : \E m \in DOMAIN sub : e[m] = i

LEMMA EnumeratesAppend ==
    ASSUME NEW S, NEW seq \in Seq(S), NEW I, NEW n \in Nat, n + 1 \in 1..Len(seq),
           NEW sub \in Seq(S), NEW e, Enumerates(e, sub, seq, I, n)
    PROVE  /\ n + 1 \in I =>
                 /\ Append(sub, seq[n + 1]) \in Seq(S)
                 /\ \E d : Enumerates(d, Append(sub, seq[n + 1]), seq, I, n + 1)
           /\ n + 1 \notin I => Enumerates(e, sub, seq, I, n + 1)
<1>1. CASE n + 1 \in I
  <2> DEFINE app == Append(sub, seq[n + 1])
             d == [m \in DOMAIN app |-> IF m \in DOMAIN sub THEN e[m] ELSE n + 1]
  <2>1. /\ app \in Seq(S) /\ Len(app) = Len(sub) + 1 /\ Len(sub) \in Nat
        /\ DOMAIN app = 1..(Len(sub) + 1) /\ DOMAIN sub = 1..Len(sub)
        /\ \A m \in DOMAIN sub : app[m] = sub[m]
        /\ app[Len(sub) + 1] = seq[n + 1]
    OBVIOUS
  <2> HIDE DEF app
  <2>2. \A m \in DOMAIN sub : e[m] \in 1..n
    BY DEF Enumerates
  <2>3. \A m \in DOMAIN app : m \notin DOMAIN sub => m = Len(sub) + 1
    BY <2>1
  <2>4. d \in [DOMAIN app -> 1..(n + 1)]
    BY <2>2
  <2>5. \A m \in DOMAIN app : d[m] \in I /\ app[m] = seq[d[m]]
    BY <2>1, <2>3, <1>1 DEF Enumerates
  <2>6. ASSUME NEW m \in DOMAIN app, NEW k \in DOMAIN app, m < k PROVE d[m] < d[k]
    <3>1. m \in DOMAIN sub
      BY <2>1, <2>6
    <3>2. CASE k \in DOMAIN sub
      BY <3>1, <3>2, <2>6 DEF Enumerates
    <3>3. CASE k \notin DOMAIN sub
      BY <3>1, <3>3, <2>2
    <3> QED
      BY <3>2, <3>3
  <2>7. ASSUME NEW i \in I \cap (1..(n + 1)) PROVE \E m \in DOMAIN app : d[m] = i
    <3>1. CASE i = n + 1
      <4>1. Len(sub) + 1 \in DOMAIN app /\ Len(sub) + 1 \notin DOMAIN sub
        BY <2>1
      <4> QED
        BY <3>1, <4>1
    <3>2. CASE i # n + 1
      <4>1. PICK m \in DOMAIN sub : e[m] = i
        BY <3>2 DEF Enumerates
      <4>2. m \in DOMAIN app
        BY <2>1
      <4> QED
        BY <4>1, <4>2
    <3> QED
      BY <3>1, <3>2
  <2> HIDE DEF d
  <2>8. Enumerates(d, app, seq, I, n + 1)
    BY <2>4, <2>5, <2>6, <2>7 DEF Enumerates
  <2> QED
    BY <1>1, <2>1, <2>8 DEF app
<1>2. CASE n + 1 \notin I
  <2>1. I \cap (1..(n + 1)) = I \cap (1..n) /\ 1..n \subseteq 1..(n + 1)
    BY <1>2
  <2> QED
    BY <1>2, <2>1 DEF Enumerates
<1> QED
  BY <1>1, <1>2

LEMMA SublistEnumerates ==
    ASSUME NEW S, NEW seq \in Seq(S), NEW I
    PROVE  /\ Sublist(seq, I) \in Seq(S)
           /\ \E e : Enumerates(e, Sublist(seq, I), seq, I, Len(seq))
<1>1. PICK u : Uptos(u, seq, I, Len(seq)) /\ Sublist(seq, I) = u[Len(seq)]
  BY SublistUptos
<1> DEFINE L == Len(seq)
           Good(n) == u[n] \in Seq(S) /\ \E e : Enumerates(e, u[n], seq, I, n)
           Bad == {n \in 0..L : ~Good(n)}
<1>2. L \in Nat /\ DOMAIN seq = 1..L
  OBVIOUS
<1>3. \A n \in 0..L : u[n] = IF n = 0 THEN <<>>
                             ELSE IF n \in I THEN Append(u[n - 1], seq[n]) ELSE u[n - 1]
  BY <1>1 DEF Uptos
<1> HIDE DEF L
<1>4. Bad = {}
  <2> SUFFICES ASSUME Bad # {} PROVE FALSE
    OBVIOUS
  <2>1. Bad \subseteq Nat
    BY <1>2
  <2>2. PICK n \in Bad : \A m \in Bad : n <= m
    <3> HIDE DEF Bad
    <3> QED
      BY <2>1, NatMin
  <2>3. n \in 0..L /\ ~Good(n)
    OBVIOUS
  <2>4. CASE n = 0
    <3>1. u[n] = <<>>
      BY <1>2, <1>3, <2>4
    <3>2. DOMAIN u[n] = {} /\ u[n] \in Seq(S)
      BY <3>1
    <3>3. Enumerates(<<>>, u[n], seq, I, n)
      BY <3>1, <3>2, <2>4 DEF Enumerates
    <3> QED
      BY <3>2, <3>3, <2>3
  <2>5. CASE n # 0
    <3>1. n - 1 \in 0..L /\ n - 1 \in Nat /\ n \in 1..L /\ (n - 1) + 1 = n
      BY <1>2, <2>3, <2>5
    <3>2. Good(n - 1)
      BY <3>1, <2>2
    <3>3. PICK e : Enumerates(e, u[n - 1], seq, I, n - 1)
      BY <3>2
    <3>4. u[n] = IF n \in I THEN Append(u[n - 1], seq[n]) ELSE u[n - 1]
      BY <1>3, <2>3, <2>5
    <3>5. /\ n \in I =>
                /\ Append(u[n - 1], seq[n]) \in Seq(S)
                /\ \E d : Enumerates(d, Append(u[n - 1], seq[n]), seq, I, n)
          /\ n \notin I => Enumerates(e, u[n - 1], seq, I, n)
      <4>1. n - 1 \in Nat /\ (n - 1) + 1 \in 1..Len(seq) /\ u[n - 1] \in Seq(S)
        BY <3>1, <3>2 DEF L
      <4>2. /\ (n - 1) + 1 \in I =>
                /\ Append(u[n - 1], seq[(n - 1) + 1]) \in Seq(S)
                /\ \E d : Enumerates(d, Append(u[n - 1], seq[(n - 1) + 1]), seq, I, (n - 1) + 1)
            /\ (n - 1) + 1 \notin I => Enumerates(e, u[n - 1], seq, I, (n - 1) + 1)
        BY <4>1, <3>3, EnumeratesAppend
      <4> QED
        BY <4>2, <3>1
    <3> QED
      BY <3>2, <3>4, <3>5, <2>3
  <2> QED
    BY <2>4, <2>5
<1>5. Good(L)
  BY <1>2, <1>4
<1> QED
  BY <1>1, <1>5 DEF L

LEMMA ImageFinite ==
    ASSUME NEW S, IsFiniteSet(S), NEW h
    PROVE  IsFiniteSet({h[x] : x \in S})
<1> DEFINE f == [x \in S |-> h[x]]
           T == {h[x] : x \in S}
<1>1. f \in Surjection(S, T)
  BY DEF Surjection
<1> HIDE DEF f, T
<1>2. IsFiniteSet(T)
  BY <1>1, FS_Surjection
<1> QED
  BY <1>2 DEF T

LEMMA PositionsFinite ==
    ASSUME NEW S, NEW seq \in Seq(S)
    PROVE  /\ Len(seq) \in Nat /\ DOMAIN seq = 1..Len(seq)
           /\ IsFiniteSet(DOMAIN seq) /\ Cardinality(DOMAIN seq) = Len(seq)
<1>1. Len(seq) \in Nat /\ DOMAIN seq = 1..Len(seq)
  OBVIOUS
<1>2. IsFiniteSet(1..Len(seq)) /\ Cardinality(1..Len(seq)) = Len(seq)
  BY <1>1, FS_Interval
<1> QED
  BY <1>1, <1>2

\* A sum over the images of a set, one image per element.
LEMMA SumImage ==
    ASSUME NEW S, IsFiniteSet(S), NEW f, \A x \in S : f[x] \in Int,
           NEW h, \A x, y \in S : h[x] = h[y] => x = y,
           NEW g, \A x \in S : g[h[x]] = f[x]
    PROVE  SumFunctionOnSet(g, {h[x] : x \in S}) = SumFunctionOnSet(f, S)
<1> DEFINE I(V) == {h[x] : x \in V}
           Bad == {V \in SUBSET S : SumFunctionOnSet(g, I(V)) # SumFunctionOnSet(f, V)}
<1> SUFFICES ASSUME Bad # {} PROVE FALSE
  OBVIOUS
<1>1. Bad \subseteq SUBSET S
  OBVIOUS
<1>2. PICK V \in Bad : \A W \in Bad : W \subseteq V => W = V
  <2> HIDE DEF Bad
  <2> QED
    BY <1>1, FiniteMin
<1>3. V \subseteq S /\ IsFiniteSet(V)
  BY <1>1, FS_Subset
<1>4. IsFiniteSet(I(V))
  <2> HIDE DEF Bad
  <2> QED
    BY <1>3, ImageFinite
<1>5. V # {}
  <2> SUFFICES ASSUME V = {} PROVE FALSE
    OBVIOUS
  <2>1. I(V) = {}
    OBVIOUS
  <2>2. SumFunctionOnSet(g, I(V)) # SumFunctionOnSet(f, V)
    OBVIOUS
  <2> HIDE DEF I
  <2> QED
    BY <2>1, <2>2, SumEmpty
<1>6. PICK x \in V : TRUE
  BY <1>5
<1>7. SumFunctionOnSet(g, I(V \ {x})) = SumFunctionOnSet(f, V \ {x})
  <2>1. V \ {x} \notin Bad
    BY <1>2
  <2> QED
    BY <1>3, <2>1
<1>8. SumFunctionOnSet(f, V) = f[x] + SumFunctionOnSet(f, V \ {x})
  BY <1>3, SumRemove
<1>9. h[x] \in I(V) /\ \A z \in I(V) : g[z] \in Int
  BY <1>3
<1>10. SumFunctionOnSet(g, I(V)) = g[h[x]] + SumFunctionOnSet(g, I(V) \ {h[x]})
  <2> HIDE DEF I
  <2> QED
    BY <1>4, <1>9, SumRemove
<1>11. I(V) \ {h[x]} = I(V \ {x})
  BY <1>3
<1>12. g[h[x]] = f[x]
  BY <1>3
<1>13. SumFunctionOnSet(g, I(V)) # SumFunctionOnSet(f, V)
  OBVIOUS
<1> HIDE DEF I
<1>14. SumFunctionOnSet(g, I(V)) = f[x] + SumFunctionOnSet(g, I(V \ {x}))
  BY <1>10, <1>11, <1>12
<1> QED
  BY <1>7, <1>8, <1>13, <1>14

--------------------------------------------------------------------------------
(***************************************************************************)
(* Lists of items.                                                         *)
(***************************************************************************)
Distinct(items) ==
    \A i, j \in DOMAIN items : items[i].key = items[j].key => i = j

Sized(items) == \A i \in DOMAIN items : items[i].nbytes \in Nat

\* The size a key has in a list.
SizeOf(items) ==
    [k \in Keys(items) |-> items[CHOOSE i \in DOMAIN items : items[i].key = k].nbytes]

LEMMA SizeOfKey ==
    ASSUME NEW items, Distinct(items), NEW i \in DOMAIN items
    PROVE  items[i].key \in Keys(items) /\ SizeOf(items)[items[i].key] = items[i].nbytes
BY DEF Distinct, SizeOf, Keys

\* Lists without duplicates of items of another one: their bytes are a sum over
\* their keys, and there are as many keys as items.
LEMMA BytesOfPart ==
    ASSUME NEW S, NEW whole, Distinct(whole), Sized(whole),
           NEW part \in Seq(S), Distinct(part), Range(part) \subseteq Range(whole)
    PROVE  /\ Bytes(part) = SumFunctionOnSet(SizeOf(whole), Keys(part))
           /\ Keys(part) \subseteq Keys(whole)
           /\ IsFiniteSet(Keys(part)) /\ Cardinality(Keys(part)) = Len(part)
           /\ \A k \in Keys(part) : SizeOf(whole)[k] \in Nat
<1> DEFINE D == DOMAIN part
           f == [i \in D |-> part[i].nbytes]
           h == [i \in D |-> part[i].key]
           g == SizeOf(whole)
<1>2. IsFiniteSet(D) /\ Cardinality(D) = Len(part)
  BY PositionsFinite
<1>3. ASSUME NEW i \in D
      PROVE  g[h[i]] = f[i] /\ f[i] \in Nat /\ h[i] \in Keys(whole)
  <2>1. PICK j \in DOMAIN whole : whole[j] = part[i]
    BY DEF Range
  <2>2. whole[j].key \in Keys(whole) /\ SizeOf(whole)[whole[j].key] = whole[j].nbytes
    BY SizeOfKey
  <2> QED
    BY <2>1, <2>2 DEF Sized
<1>4. \A i, j \in D : h[i] = h[j] => i = j
  BY DEF Distinct
<1>5. Keys(part) = {h[i] : i \in D}
  BY DEF Keys
<1>6. Bytes(part) = SumFunctionOnSet(f, D)
  BY DEF Bytes, SumFunction
<1>7. SumFunctionOnSet(g, {h[i] : i \in D}) = SumFunctionOnSet(f, D)
  <2>1. \A i \in D : g[h[i]] = f[i] /\ f[i] \in Int
    BY <1>3
  <2> HIDE DEF D, f, h, g
  <2> QED
    BY <1>2, <1>4, <2>1, SumImage
<1>8. Keys(part) \subseteq Keys(whole) /\ \A k \in Keys(part) : g[k] \in Nat
  BY <1>3, <1>5
<1>9. IsFiniteSet(Keys(part)) /\ Cardinality(Keys(part)) = Len(part)
  <2>1. h \in Bijection(D, Keys(part))
    <3>1. h \in [D -> Keys(part)]
      BY <1>5
    <3> QED
      BY <1>4, <1>5, <3>1 DEF Bijection, Injection, Surjection, IsInjective
  <2>2. ExistsBijection(D, Keys(part))
    BY <2>1 DEF ExistsBijection
  <2> HIDE DEF D
  <2> QED
    BY <1>2, <2>2, FS_Bijection
<1> QED
  BY <1>5, <1>6, <1>7, <1>8, <1>9

LEMMA BytesNat ==
    ASSUME NEW S, \A b \in S : b.nbytes \in Nat, NEW items \in Seq(S)
    PROVE  Bytes(items) \in Nat
<1> DEFINE D == DOMAIN items
           size == [i \in D |-> items[i].nbytes]
<1>1. IsFiniteSet(D)
  BY PositionsFinite
<1>2. \A i \in D : size[i] \in Nat
  OBVIOUS
<1>3. Bytes(items) = SumFunctionOnSet(size, D)
  BY DEF Bytes, SumFunction
<1> HIDE DEF D, size
<1> QED
  BY <1>1, <1>2, <1>3, SumNat

LEMMA DistinctCount ==
    ASSUME NEW S, NEW items \in Seq(S), Distinct(items)
    PROVE  IsFiniteSet(Keys(items)) /\ Cardinality(Keys(items)) = Len(items)
<1> DEFINE D == DOMAIN items
           h == [i \in D |-> items[i].key]
<1>2. IsFiniteSet(D) /\ Cardinality(D) = Len(items)
  BY PositionsFinite
<1>3. h \in Bijection(D, Keys(items))
  BY DEF Bijection, Injection, Surjection, IsInjective, Keys, Distinct
<1>4. ExistsBijection(D, Keys(items))
  BY <1>3 DEF ExistsBijection
<1> HIDE DEF D
<1> QED
  BY <1>2, <1>4, FS_Bijection

\* Items charged no more than some measure of their keys weigh no more than their
\* keys together.
LEMMA BytesBound ==
    ASSUME NEW S, NEW items \in Seq(S), Distinct(items), NEW size,
           \A b \in Range(items) :
               b.nbytes \in Nat /\ size[b.key] \in Nat /\ b.nbytes <= size[b.key]
    PROVE  /\ Bytes(items) \in Nat /\ IsFiniteSet(Keys(items))
           /\ Bytes(items) <= SumFunctionOnSet(size, Keys(items))
<1> DEFINE charged == SizeOf(items)
           K == Keys(items)
<1>1. Sized(items)
  BY DEF Sized, Range
<1>2. items \in Seq(Range(items))
  <2>1. Len(items) \in Nat /\ items \in [1..Len(items) -> Range(items)]
    BY DEF Range
  <2> QED
    BY <2>1
<1>3. /\ Bytes(items) = SumFunctionOnSet(charged, K)
      /\ IsFiniteSet(K) /\ \A k \in K : charged[k] \in Nat
  BY <1>1, <1>2, BytesOfPart
<1>4. ASSUME NEW k \in K PROVE size[k] \in Nat /\ charged[k] <= size[k]
  <2>1. PICK i \in DOMAIN items : items[i].key = k
    BY DEF Keys
  <2>2. charged[k] = items[i].nbytes
    BY <2>1, SizeOfKey
  <2> QED
    BY <2>1, <2>2 DEF Range
<1> HIDE DEF charged, K
<1>5. \A k \in K : charged[k] \in Int /\ size[k] \in Int /\ charged[k] <= size[k]
  BY <1>3, <1>4
<1>6. SumFunctionOnSet(charged, K) <= SumFunctionOnSet(size, K)
  BY <1>3, <1>5, SumMono
<1>7. SumFunctionOnSet(charged, K) \in Nat
  BY <1>3, SumNat
<1> QED
  BY <1>3, <1>6, <1>7 DEF K

\* A list with as many keys as items has no duplicates.
LEMMA CountDistinct ==
    ASSUME NEW S, NEW items \in Seq(S), Cardinality(Keys(items)) = Len(items)
    PROVE  Distinct(items)
<1> DEFINE D == DOMAIN items
           h == [i \in D |-> items[i].key]
<1>2. IsFiniteSet(D) /\ Cardinality(D) = Len(items)
  BY PositionsFinite
<1>3. h \in Surjection(D, Keys(items))
  BY DEF Surjection, Keys
<1>5. h \in Injection(D, Keys(items))
  <2> HIDE DEF D, h
  <2> QED
    BY <1>2, <1>3, FS_SurjSameCardinalityImpliesInj
<1> QED
  BY <1>5 DEF Injection, IsInjective, Distinct

LEMMA SublistRange ==
    ASSUME NEW S, NEW seq \in Seq(S), NEW I
    PROVE  /\ Sublist(seq, I) \in Seq(S)
           /\ Range(Sublist(seq, I)) = {seq[i] : i \in I \cap DOMAIN seq}
<1>1. PICK e : Enumerates(e, Sublist(seq, I), seq, I, Len(seq))
  BY SublistEnumerates
<1>2. DOMAIN seq = 1..Len(seq)
  OBVIOUS
<1>3. Sublist(seq, I) \in Seq(S)
  BY SublistEnumerates
<1>4. ASSUME NEW x \in Range(Sublist(seq, I)) PROVE x \in {seq[i] : i \in I \cap DOMAIN seq}
  BY <1>1, <1>2 DEF Range, Enumerates
<1>5. ASSUME NEW i \in I \cap DOMAIN seq PROVE seq[i] \in Range(Sublist(seq, I))
  BY <1>1, <1>2 DEF Range, Enumerates
<1> QED
  BY <1>3, <1>4, <1>5

LEMMA SublistDistinct ==
    ASSUME NEW S, NEW items \in Seq(S), NEW I, Distinct(items)
    PROVE  Distinct(Sublist(items, I))
<1>1. PICK e : Enumerates(e, Sublist(items, I), items, I, Len(items))
  BY SublistEnumerates
<1> DEFINE sub == Sublist(items, I)
<1>2. DOMAIN items = 1..Len(items)
  OBVIOUS
<1>3. sub \in Seq(S)
  BY SublistEnumerates
<1>4. DOMAIN sub = 1..Len(sub) /\ Len(sub) \in Nat
  BY <1>3
<1> HIDE DEF sub
<1>5. ASSUME NEW m \in DOMAIN sub, NEW k \in DOMAIN sub, sub[m].key = sub[k].key, m < k
      PROVE  FALSE
  <2>1. e[m] \in 1..Len(items) /\ e[k] \in 1..Len(items) /\ e[m] < e[k]
    BY <1>1, <1>5 DEF Enumerates, sub
  <2>2. items[e[m]].key = items[e[k]].key
    BY <1>1, <1>5 DEF Enumerates, sub
  <2>3. e[m] = e[k]
    BY <1>2, <2>1, <2>2 DEF Distinct
  <2> QED
    BY <2>1, <2>3
<1>6. \A m, k \in DOMAIN sub : sub[m].key = sub[k].key => m = k
  <2> SUFFICES ASSUME NEW m \in DOMAIN sub, NEW k \in DOMAIN sub, sub[m].key = sub[k].key
               PROVE  m = k
    OBVIOUS
  <2>1. m \in Nat /\ k \in Nat
    BY <1>4
  <2>2. ~(m < k) /\ ~(k < m)
    BY <1>5
  <2> QED
    BY <2>1, <2>2
<1> QED
  BY <1>6 DEF Distinct, sub

\* What is left of a list without the items of some keys.
LEMMA OffFacts ==
    ASSUME NEW S, NEW items \in Seq(S), NEW K
    PROVE  /\ Off(items, K) \in Seq(S)
           /\ Range(Off(items, K)) = {b \in Range(items) : b.key \notin K}
           /\ Keys(Off(items, K)) = Keys(items) \ K
           /\ Distinct(items) => Distinct(Off(items, K))
<1> DEFINE I == {i \in DOMAIN items : items[i].key \notin K}
<1>1. Off(items, K) = Sublist(items, I)
  BY DEF Off
<1>2. /\ Off(items, K) \in Seq(S)
      /\ Range(Off(items, K)) = {items[i] : i \in I \cap DOMAIN items}
      /\ Distinct(items) => Distinct(Off(items, K))
  <2> HIDE DEF I
  <2> QED
    BY <1>1, SublistRange, SublistDistinct
<1>3. Range(Off(items, K)) = {b \in Range(items) : b.key \notin K}
  BY <1>2 DEF Range
<1>4. \A seq : Keys(seq) = {b.key : b \in Range(seq)}
  BY DEF Keys, Range
<1>5. Keys(Off(items, K)) = Keys(items) \ K
  BY <1>3, <1>4
<1> QED
  BY <1>2, <1>3, <1>5

LEMMA KeysOfRange ==
    ASSUME NEW items PROVE Keys(items) = {b.key : b \in Range(items)}
BY DEF Keys, Range

LEMMA SizedRange ==
    ASSUME NEW items PROVE Sized(items) <=> \A b \in Range(items) : b.nbytes \in Nat
BY DEF Sized, Range

LEMMA PrefixFacts ==
    ASSUME NEW S, NEW items \in Seq(S), NEW n \in 0..Len(items)
    PROVE  /\ SubSeq(items, 1, n) \in Seq(S)
           /\ Range(SubSeq(items, 1, n)) \subseteq Range(items)
           /\ Keys(SubSeq(items, 1, n)) \subseteq Keys(items)
           /\ Distinct(items) => Distinct(SubSeq(items, 1, n))
           /\ n = Len(items) => SubSeq(items, 1, n) = items
<1> DEFINE sub == SubSeq(items, 1, n)
<1>1. /\ sub \in Seq(S) /\ DOMAIN sub = 1..n
      /\ \A i \in 1..n : sub[i] = items[i]
      /\ 1..n \subseteq DOMAIN items
      /\ n = Len(items) => sub = items
  OBVIOUS
<1> HIDE DEF sub
<1>2. Range(sub) \subseteq Range(items) /\ Keys(sub) \subseteq Keys(items)
  BY <1>1 DEF Range, Keys
<1>3. Distinct(items) => Distinct(sub)
  BY <1>1 DEF Distinct
<1> QED
  BY <1>1, <1>2, <1>3 DEF sub

LEMMA JoinFacts ==
    ASSUME NEW S, NEW a \in Seq(S), NEW b \in Seq(S)
    PROVE  /\ a \o b \in Seq(S)
           /\ Range(a \o b) = Range(a) \cup Range(b)
           /\ Keys(a \o b) = Keys(a) \cup Keys(b)
           /\ Distinct(a) /\ Distinct(b) /\ Keys(a) \cap Keys(b) = {} => Distinct(a \o b)
<1> DEFINE c == a \o b
<1>1. /\ c \in Seq(S) /\ Len(c) = Len(a) + Len(b) /\ DOMAIN c = 1..Len(c)
      /\ Len(a) \in Nat /\ Len(b) \in Nat /\ DOMAIN a = 1..Len(a) /\ DOMAIN b = 1..Len(b)
      /\ \A i \in DOMAIN c : c[i] = IF i <= Len(a) THEN a[i] ELSE b[i - Len(a)]
  OBVIOUS
<1> HIDE DEF c
<1>2. ASSUME NEW i \in DOMAIN c
      PROVE  \/ i \in DOMAIN a /\ c[i] = a[i]
             \/ i - Len(a) \in DOMAIN b /\ c[i] = b[i - Len(a)]
  BY <1>1
<1>3. \A i \in DOMAIN a : i \in DOMAIN c /\ c[i] = a[i]
  BY <1>1
<1>4. \A i \in DOMAIN b : i + Len(a) \in DOMAIN c /\ c[i + Len(a)] = b[i]
  BY <1>1
<1>5. Range(c) = Range(a) \cup Range(b)
  BY <1>2, <1>3, <1>4 DEF Range
<1>6. Keys(c) = Keys(a) \cup Keys(b)
  BY <1>5, KeysOfRange
<1>7. ASSUME Distinct(a), Distinct(b), Keys(a) \cap Keys(b) = {},
             NEW i \in DOMAIN c, NEW j \in DOMAIN c, c[i].key = c[j].key
      PROVE  i = j
  <2>1. CASE i \in DOMAIN a /\ c[i] = a[i] /\ j \in DOMAIN a /\ c[j] = a[j]
    BY <2>1, <1>7 DEF Distinct
  <2>2. CASE /\ i - Len(a) \in DOMAIN b /\ c[i] = b[i - Len(a)]
             /\ j - Len(a) \in DOMAIN b /\ c[j] = b[j - Len(a)]
    <3>1. i - Len(a) = j - Len(a)
      BY <2>2, <1>7 DEF Distinct
    <3> QED
      BY <3>1, <1>1
  <2>3. ~(i \in DOMAIN a /\ c[i] = a[i] /\ j - Len(a) \in DOMAIN b /\ c[j] = b[j - Len(a)])
    BY <1>7 DEF Keys
  <2>4. ~(j \in DOMAIN a /\ c[j] = a[j] /\ i - Len(a) \in DOMAIN b /\ c[i] = b[i - Len(a)])
    BY <1>7 DEF Keys
  <2> QED
    BY <1>2, <2>1, <2>2, <2>3, <2>4
<1> QED
  BY <1>1, <1>5, <1>6, <1>7 DEF c, Distinct

LEMMA EmptyBytes == Bytes(<<>>) = 0
<1>1. DOMAIN <<>> = {}
  OBVIOUS
<1>2. DOMAIN [i \in {} |-> <<>>[i].nbytes] = {}
  OBVIOUS
<1> QED
  BY <1>1, <1>2, SumEmpty DEF Bytes, SumFunction

\* One more item, its bytes more.
LEMMA BytesPrefix ==
    ASSUME NEW S, \A b \in S : b.nbytes \in Nat, NEW items \in Seq(S),
           NEW n \in 1..Len(items)
    PROVE  /\ Bytes(SubSeq(items, 1, n)) \in Nat /\ Bytes(SubSeq(items, 1, n - 1)) \in Nat
           /\ Bytes(SubSeq(items, 1, n)) = Bytes(SubSeq(items, 1, n - 1)) + items[n].nbytes
<1> DEFINE all == SubSeq(items, 1, n)
           less == SubSeq(items, 1, n - 1)
           size == [i \in DOMAIN all |-> all[i].nbytes]
           lesser == [i \in DOMAIN less |-> less[i].nbytes]
<1>1. /\ Len(items) \in Nat /\ n \in Nat /\ n - 1 \in Nat
      /\ all \in Seq(S) /\ less \in Seq(S)
      /\ DOMAIN all = 1..n /\ DOMAIN less = 1..(n - 1)
      /\ \A i \in 1..n : all[i] = items[i] /\ items[i] \in S
      /\ \A i \in 1..(n - 1) : less[i] = items[i]
  OBVIOUS
<1>2. Bytes(all) = SumFunctionOnSet(size, 1..n) /\ Bytes(less) = SumFunctionOnSet(lesser, 1..(n - 1))
  BY <1>1 DEF Bytes, SumFunction
<1>3. /\ \A i \in 1..n : size[i] = items[i].nbytes /\ size[i] \in Nat
      /\ \A i \in 1..(n - 1) : lesser[i] = items[i].nbytes
  BY <1>1
<1>4. IsFiniteSet(1..n) /\ IsFiniteSet(1..(n - 1))
  BY <1>1, FS_Interval
<1> HIDE DEF all, less, size, lesser
<1>5. SumFunctionOnSet(size, 1..n) = size[n] + SumFunctionOnSet(size, (1..n) \ {n})
  <2>1. n \in 1..n
    BY <1>1
  <2>2. \A i \in 1..n : size[i] \in Int
    BY <1>3
  <2> DEFINE P == 1..n
  <2>3. IsFiniteSet(P) /\ \A i \in P : size[i] \in Int
    BY <1>4, <2>2
  <2>4. \A e \in P : SumFunctionOnSet(size, P) = size[e] + SumFunctionOnSet(size, P \ {e})
    <3> HIDE DEF P
    <3> QED
      BY <2>3, SumRemove
  <2> QED
    BY <2>1, <2>4
<1>6. (1..n) \ {n} = 1..(n - 1)
  BY <1>1
<1>7. SumFunctionOnSet(size, 1..(n - 1)) = SumFunctionOnSet(lesser, 1..(n - 1))
  <2>1. \A i \in 1..(n - 1) : size[i] = lesser[i]
    BY <1>1, <1>3
  <2> QED
    BY <1>4, <2>1, SumSame
<1>8. SumFunctionOnSet(size, 1..n) \in Nat /\ SumFunctionOnSet(size, 1..(n - 1)) \in Nat
  <2>1. \A i \in 1..(n - 1) : size[i] \in Nat
    BY <1>1, <1>3
  <2> QED
    BY <1>3, <1>4, <2>1, SumNat
<1>9. SumFunctionOnSet(size, 1..n) = size[n] + SumFunctionOnSet(lesser, 1..(n - 1))
  BY <1>5, <1>6, <1>7, Zenon
<1>10. SumFunctionOnSet(lesser, 1..(n - 1)) \in Nat
  BY <1>7, <1>8, Zenon
<1>11. Bytes(all) = items[n].nbytes + Bytes(less) /\ Bytes(less) \in Nat /\ Bytes(all) \in Nat
  <2>1. size[n] = items[n].nbytes
    BY <1>1, <1>3
  <2> QED
    BY <1>2, <1>8, <1>9, <1>10, <2>1
<1>12. items[n].nbytes \in Nat
  BY <1>1
<1> QED
  BY <1>11, <1>12 DEF all, less

(***************************************************************************)
(* Lists in order of a number that their keys have.                        *)
(***************************************************************************)
Rising(items, f) ==
    \A i, j \in DOMAIN items : i < j => f[items[i].key] <= f[items[j].key]

LEMMA RisingSublist ==
    ASSUME NEW S, NEW items \in Seq(S), NEW I, NEW f,
           \A i, j \in I \cap DOMAIN items : i < j => f[items[i].key] <= f[items[j].key]
    PROVE  Rising(Sublist(items, I), f)
<1>1. PICK e : Enumerates(e, Sublist(items, I), items, I, Len(items))
  BY SublistEnumerates
<1> DEFINE sub == Sublist(items, I)
<1>2. DOMAIN items = 1..Len(items)
  OBVIOUS
<1> HIDE DEF sub
<1>3. ASSUME NEW m \in DOMAIN sub, NEW k \in DOMAIN sub, m < k
      PROVE  f[sub[m].key] <= f[sub[k].key]
  BY <1>1, <1>2, <1>3 DEF Enumerates, sub
<1> QED
  BY <1>3 DEF Rising, sub

LEMMA RisingJoin ==
    ASSUME NEW S, NEW a \in Seq(S), NEW b \in Seq(S), NEW f, Rising(a, f), Rising(b, f),
           \A j \in Keys(a), k \in Keys(b) : f[j] <= f[k]
    PROVE  Rising(a \o b, f)
<1> DEFINE c == a \o b
<1>1. /\ Len(c) = Len(a) + Len(b) /\ DOMAIN c = 1..Len(c)
      /\ Len(a) \in Nat /\ Len(b) \in Nat /\ DOMAIN a = 1..Len(a) /\ DOMAIN b = 1..Len(b)
      /\ \A i \in DOMAIN c : c[i] = IF i <= Len(a) THEN a[i] ELSE b[i - Len(a)]
  OBVIOUS
<1> HIDE DEF c
<1>2. ASSUME NEW i \in DOMAIN c, NEW j \in DOMAIN c, i < j
      PROVE  f[c[i].key] <= f[c[j].key]
  <2>1. CASE j <= Len(a)
    BY <1>1, <1>2, <2>1 DEF Rising
  <2>2. CASE i <= Len(a) /\ ~(j <= Len(a))
    <3>1. a[i].key \in Keys(a) /\ b[j - Len(a)].key \in Keys(b)
      BY <1>1, <2>2 DEF Keys
    <3> QED
      BY <1>1, <2>2, <3>1
  <2>3. CASE ~(i <= Len(a))
    <3>1. i - Len(a) \in DOMAIN b /\ j - Len(a) \in DOMAIN b /\ i - Len(a) < j - Len(a)
      BY <1>1, <1>2, <2>3
    <3>2. c[i] = b[i - Len(a)] /\ c[j] = b[j - Len(a)]
      BY <1>1, <1>2, <2>3
    <3> QED
      BY <3>1, <3>2 DEF Rising
  <2>4. i \in Int /\ j \in Int
    BY <1>1
  <2> QED
    BY <1>1, <1>2, <2>1, <2>2, <2>3, <2>4
<1> QED
  BY <1>2 DEF Rising, c
================================================================================
