-------------------------------- MODULE Sums --------------------------------
(***************************************************************************)
(* Sums of natural numbers over finite sets: what SumFunctionOnSet of the   *)
(* community modules returns.  It is a recursive function on the subsets    *)
(* of its second argument, so that each fact is proved for a smallest       *)
(* subset it could be false for.                                            *)
(***************************************************************************)
EXTENDS Integers, Functions, FiniteSetTheorems, WellFoundedInduction, TLAPS

-----------------------------------------------------------------------------
(* Induction on the subsets of a finite set, as a set of subsets.           *)

\* The order of the naturals, as the relation that induction speaks of.
LEMMA SmallerIsIn ==
    ASSUME NEW n \in Nat, NEW m \in Nat, n < m
    PROVE  <<n, m>> \in OpToRel(<, Nat)
  <1>1. <<n, m>> \in Nat \X Nat
    OBVIOUS
  <1>2. <<n, m>>[1] < <<n, m>>[2]
    OBVIOUS
  <1> QED
    BY <1>1, <1>2, Zenon DEF OpToRel

\* A set of naturals has a smallest element.
LEMMA SmallestExists ==
    ASSUME NEW B, B # {}, B \subseteq Nat
    PROVE  \E n \in B : \A m \in B : <<m, n>> \notin OpToRel(<, Nat)
  BY NatLessThanWellFounded, WFMin

\* A set of subsets that contains every subset whose proper subsets it
\* contains.
LEMMA SubsetInduction ==
    ASSUME NEW S, IsFiniteSet(S), NEW G,
           \A T \in SUBSET S : (\A U \in SUBSET T : U # T => U \in G) => T \in G
    PROVE  \A T \in SUBSET S : T \in G
  <1> DEFINE Bad == {n \in Nat : \E T \in SUBSET S : T \notin G /\ Cardinality(T) = n}
  <1> SUFFICES ASSUME NEW T0 \in SUBSET S, T0 \notin G PROVE FALSE
    OBVIOUS
  <1>1. \A T \in SUBSET S : IsFiniteSet(T) /\ Cardinality(T) \in Nat
    BY FS_Subset, FS_CardinalityType
  <1>2. Bad # {} /\ Bad \subseteq Nat
    BY <1>1
  <1>3. PICK n \in Bad : \A m \in Bad : <<m, n>> \notin OpToRel(<, Nat)
    <2> HIDE DEF Bad
    <2> QED
      BY <1>2, SmallestExists
  <1>4. PICK T \in SUBSET S : T \notin G /\ Cardinality(T) = n
    BY <1>3
  <1>5. PICK U \in SUBSET T : U # T /\ U \notin G
    BY <1>4
  <1>6. Cardinality(U) \in Nat /\ Cardinality(U) < n /\ n \in Nat
    BY <1>1, <1>4, <1>5, FS_Subset
  <1>7. Cardinality(U) \in Bad
    BY <1>5, <1>6
  <1> QED
    BY <1>3, <1>6, <1>7, SmallerIsIn

-----------------------------------------------------------------------------
(* The recursive function behind a sum.                                     *)

Some(s) == CHOOSE x \in s : TRUE

SumsOn(f, S, g) ==
    g = [s \in SUBSET S |-> IF s = {} THEN 0 ELSE f[Some(s)] + g[s \ {Some(s)}]]

\* The sum is what the recursive function on the subsets of S makes of S.
LEMMA SumIsRecursive ==
    ASSUME NEW f, NEW S
    PROVE  SumFunctionOnSet(f, S) = (CHOOSE g : SumsOn(f, S, g))[S]
  BY DEF SumFunctionOnSet, FoldFunctionOnSet, MapThenFoldSet, SumsOn, Some

\* Some element of a set is one of its elements.
LEMMA SomeIsIn ==
    ASSUME NEW s, s # {}
    PROVE  Some(s) \in s
  BY DEF Some

\* Two such functions agree where both are defined.
LEMMA SumsAgree ==
    ASSUME NEW f, NEW S, NEW T, NEW g, NEW h, SumsOn(f, S, g), SumsOn(f, T, h),
           NEW U, IsFiniteSet(U), U \subseteq S, U \subseteq T
    PROVE  g[U] = h[U]
  <1> DEFINE G == {V \in SUBSET U : g[V] = h[V]}
  <1>1. ASSUME NEW V \in SUBSET U, \A W \in SUBSET V : W # V => W \in G
        PROVE  V \in G
    <2>1. V \in SUBSET S /\ V \in SUBSET T
      OBVIOUS
    <2>2. /\ g[V] = IF V = {} THEN 0 ELSE f[Some(V)] + g[V \ {Some(V)}]
          /\ h[V] = IF V = {} THEN 0 ELSE f[Some(V)] + h[V \ {Some(V)}]
      BY <2>1 DEF SumsOn
    <2>3. CASE V = {}
      BY <2>2, <2>3
    <2>4. CASE V # {}
      <3>1. V \ {Some(V)} \in SUBSET V /\ V \ {Some(V)} # V
        BY <2>4, SomeIsIn
      <3>2. g[V \ {Some(V)}] = h[V \ {Some(V)}]
        BY <1>1, <3>1
      <3> QED
        BY <2>2, <2>4, <3>2
    <2> QED
      BY <2>3, <2>4
  <1>2. \A V \in SUBSET U : V \in G
    <2> HIDE DEF G
    <2> QED
      BY <1>1, SubsetInduction
  <1> QED
    BY <1>2

Total(f, s) == (CHOOSE g : SumsOn(f, s, g))[s]

\* A finite set has one.
LEMMA SumsExist ==
    ASSUME NEW f, NEW S, IsFiniteSet(S)
    PROVE  SumsOn(f, S, CHOOSE g : SumsOn(f, S, g))
  <1> DEFINE G == {V \in SUBSET S : \E g : SumsOn(f, V, g)}
  <1>1. ASSUME NEW V \in SUBSET S, \A W \in SUBSET V : W # V => W \in G
        PROVE  V \in G
    <2> DEFINE g == [s \in SUBSET V |-> IF s = {} THEN 0 ELSE f[Some(s)] + Total(f, s \ {Some(s)})]
    <2>1. ASSUME NEW s \in SUBSET V, s # {}
          PROVE  g[s \ {Some(s)}] = Total(f, s \ {Some(s)})
      <3> DEFINE t == s \ {Some(s)}
                 h == CHOOSE k : SumsOn(f, t, k)
      <3>1. t \in SUBSET V /\ t # V
        BY <2>1, SomeIsIn
      <3>2. SumsOn(f, t, h)
        BY <1>1, <3>1
      <3>3. h[t] = IF t = {} THEN 0 ELSE f[Some(t)] + h[t \ {Some(t)}]
        <4> HIDE DEF h, t
        <4> QED
          BY <3>2 DEF SumsOn
      <3>4. g[t] = IF t = {} THEN 0 ELSE f[Some(t)] + Total(f, t \ {Some(t)})
        <4> HIDE DEF t
        <4> QED
          BY <3>1
      <3>5. ASSUME t # {}
            PROVE  h[t \ {Some(t)}] = Total(f, t \ {Some(t)})
        <4> DEFINE u == t \ {Some(t)}
        <4>1. u \in SUBSET t /\ u \in SUBSET V /\ u # V
          BY <3>1
        <4>2. SumsOn(f, u, CHOOSE k : SumsOn(f, u, k))
          BY <1>1, <4>1
        <4>3. IsFiniteSet(u)
          BY <4>1, FS_Subset
        <4> HIDE DEF h, u
        <4>4. h[u] = (CHOOSE k : SumsOn(f, u, k))[u]
          BY <3>2, <4>1, <4>2, <4>3, SumsAgree
        <4> QED
          BY <4>4 DEF Total, u
      <3>6. g[t] = h[t]
        <4> HIDE DEF g, h, t
        <4> QED
          BY <3>3, <3>4, <3>5
      <3> QED
        BY <3>6 DEF Total
    <2>2. g = [s \in SUBSET V |-> IF s = {} THEN 0 ELSE f[Some(s)] + g[s \ {Some(s)}]]
      <3>1. \A s \in SUBSET V : g[s] = IF s = {} THEN 0 ELSE f[Some(s)] + g[s \ {Some(s)}]
        <4> TAKE s \in SUBSET V
        <4>1. g[s] = IF s = {} THEN 0 ELSE f[Some(s)] + Total(f, s \ {Some(s)})
          OBVIOUS
        <4> HIDE DEF g
        <4> QED
          BY <2>1, <4>1
      <3>2. g = [s \in SUBSET V |-> g[s]]
        OBVIOUS
      <3> HIDE DEF g
      <3> QED
        BY <3>1, <3>2, Zenon
    <2>3. SumsOn(f, V, g)
      <3> HIDE DEF g
      <3> QED
        BY <2>2 DEF SumsOn
    <2> QED
      BY <2>3
  <1>2. \A V \in SUBSET S : V \in G
    <2> HIDE DEF G
    <2> QED
      BY <1>1, SubsetInduction
  <1>3. \E g : SumsOn(f, S, g)
    BY <1>2
  <1> QED
    BY <1>3

\* The recursion of the sum, for any finite set.
LEMMA SumUnfold ==
    ASSUME NEW f, NEW S, IsFiniteSet(S)
    PROVE  SumFunctionOnSet(f, S) =
             IF S = {} THEN 0 ELSE f[Some(S)] + SumFunctionOnSet(f, S \ {Some(S)})
  <1> DEFINE T == S \ {Some(S)}
             g == CHOOSE k : SumsOn(f, S, k)
             h == CHOOSE k : SumsOn(f, T, k)
  <1>1. SumsOn(f, S, g)
    BY SumsExist
  <1>2. IsFiniteSet(T) /\ T \subseteq S
    BY FS_Subset
  <1>3. SumsOn(f, T, h)
    <2> HIDE DEF T
    <2> QED
      BY <1>2, SumsExist
  <1>4. SumFunctionOnSet(f, S) = g[S] /\ SumFunctionOnSet(f, T) = h[T]
    BY SumIsRecursive
  <1> HIDE DEF g, h
  <1>5. g[T] = h[T]
    BY <1>1, <1>2, <1>3, SumsAgree
  <1>6. g[S] = IF S = {} THEN 0 ELSE f[Some(S)] + g[T]
    BY <1>1 DEF SumsOn
  <1> QED
    BY <1>4, <1>5, <1>6

-----------------------------------------------------------------------------
(* Facts about sums.                                                        *)

\* Nothing sums up to zero.
LEMMA SumEmpty ==
    ASSUME NEW f
    PROVE  SumFunctionOnSet(f, {}) = 0
  BY SumUnfold, FS_EmptySet

\* Naturals sum up to a natural.
LEMMA SumNat ==
    ASSUME NEW f, NEW S, IsFiniteSet(S), \A x \in S : f[x] \in Nat
    PROVE  SumFunctionOnSet(f, S) \in Nat
  <1> DEFINE G == {V \in SUBSET S : SumFunctionOnSet(f, V) \in Nat}
  <1>1. ASSUME NEW V \in SUBSET S, \A W \in SUBSET V : W # V => W \in G
        PROVE  V \in G
    <2>1. IsFiniteSet(V)
      BY FS_Subset
    <2>2. CASE V = {}
      BY <2>2, SumEmpty
    <2>3. CASE V # {}
      <3> DEFINE x == Some(V)
                 W == V \ {x}
      <3>1. x \in V /\ W \in SUBSET V /\ W # V
        BY <2>3, SomeIsIn
      <3>2. SumFunctionOnSet(f, W) \in Nat /\ f[x] \in Nat
        BY <1>1, <3>1
      <3>3. SumFunctionOnSet(f, V) = f[x] + SumFunctionOnSet(f, W)
        BY <2>1, <2>3, SumUnfold
      <3> QED
        BY <3>2, <3>3
    <2> QED
      BY <2>2, <2>3
  <1>2. \A V \in SUBSET S : V \in G
    <2> HIDE DEF G
    <2> QED
      BY <1>1, SubsetInduction
  <1> QED
    BY <1>2

\* Any element may be taken out first.
LEMMA SumRemove ==
    ASSUME NEW f, NEW S, IsFiniteSet(S), \A x \in S : f[x] \in Nat, NEW y \in S
    PROVE  SumFunctionOnSet(f, S) = f[y] + SumFunctionOnSet(f, S \ {y})
  <1> DEFINE Splits(V) == \A z \in V : SumFunctionOnSet(f, V) = f[z] + SumFunctionOnSet(f, V \ {z})
             G == {V \in SUBSET S : Splits(V)}
  <1>1. ASSUME NEW V \in SUBSET S, \A W \in SUBSET V : W # V => W \in G
        PROVE  V \in G
    <2> SUFFICES ASSUME NEW z \in V
                 PROVE  SumFunctionOnSet(f, V) = f[z] + SumFunctionOnSet(f, V \ {z})
      OBVIOUS
    <2> DEFINE x == Some(V)
    <2>1. IsFiniteSet(V) /\ x \in V
      BY FS_Subset, SomeIsIn
    <2>2. SumFunctionOnSet(f, V) = f[x] + SumFunctionOnSet(f, V \ {x})
      BY <2>1, SumUnfold
    <2>3. CASE z = x
      BY <2>2, <2>3
    <2>4. CASE z # x
      <3> DEFINE P == V \ {x}
                 Q == V \ {z}
                 R == V \ {x, z}
      <3>1. P \in G /\ Q \in G /\ z \in P /\ x \in Q /\ P \ {z} = R /\ Q \ {x} = R
        <4>1. P \in SUBSET V /\ P # V /\ Q \in SUBSET V /\ Q # V
          BY <2>1
        <4>2. z \in P /\ x \in Q /\ P \ {z} = R /\ Q \ {x} = R
          BY <2>1, <2>4
        <4> HIDE DEF G, P, Q, R, x
        <4> QED
          BY <1>1, <4>1, <4>2
      <3>2. SumFunctionOnSet(f, P) = f[z] + SumFunctionOnSet(f, R)
        BY <3>1
      <3>3. SumFunctionOnSet(f, Q) = f[x] + SumFunctionOnSet(f, R)
        BY <3>1
      <3>4. IsFiniteSet(R) /\ R \subseteq S
        BY FS_Subset
      <3>5. SumFunctionOnSet(f, R) \in Nat
        <4> HIDE DEF R
        <4> QED
          BY <3>4, SumNat
      <3>6. f[x] \in Nat /\ f[z] \in Nat
        BY <2>1
      <3> HIDE DEF G, P, Q, R, x
      <3>7. SumFunctionOnSet(f, V) = f[x] + (f[z] + SumFunctionOnSet(f, R))
        BY <2>2, <3>2 DEF P
      <3>8. f[z] + SumFunctionOnSet(f, Q) = f[z] + (f[x] + SumFunctionOnSet(f, R))
        BY <3>3
      <3>9. SumFunctionOnSet(f, V) = f[z] + SumFunctionOnSet(f, Q)
        BY <3>5, <3>6, <3>7, <3>8
      <3> QED
        BY <3>9 DEF Q
    <2> QED
      BY <2>3, <2>4
  <1>2. \A V \in SUBSET S : V \in G
    <2> HIDE DEF G
    <2> QED
      BY <1>1, SubsetInduction
  <1>3. S \in G
    BY <1>2
  <1> QED
    BY <1>3

\* Adding one element.
LEMMA SumAdd ==
    ASSUME NEW f, NEW S, IsFiniteSet(S), \A x \in S : f[x] \in Nat,
           NEW y, y \notin S, f[y] \in Nat
    PROVE  SumFunctionOnSet(f, S \cup {y}) = f[y] + SumFunctionOnSet(f, S)
  <1> DEFINE T == S \cup {y}
  <1>1. IsFiniteSet(T)
    BY FS_AddElement
  <1>2. y \in T /\ T \ {y} = S /\ \A x \in T : f[x] \in Nat
    OBVIOUS
  <1> HIDE DEF T
  <1>3. SumFunctionOnSet(f, T) = f[y] + SumFunctionOnSet(f, T \ {y})
    BY <1>1, <1>2, SumRemove
  <1> QED
    BY <1>2, <1>3 DEF T

\* The sum only looks at the values on its set.
LEMMA SumSame ==
    ASSUME NEW f, NEW g, NEW S, IsFiniteSet(S), \A x \in S : f[x] = g[x]
    PROVE  SumFunctionOnSet(f, S) = SumFunctionOnSet(g, S)
  <1> DEFINE G == {V \in SUBSET S : SumFunctionOnSet(f, V) = SumFunctionOnSet(g, V)}
  <1>1. ASSUME NEW V \in SUBSET S, \A W \in SUBSET V : W # V => W \in G
        PROVE  V \in G
    <2>1. IsFiniteSet(V)
      BY FS_Subset
    <2>2. CASE V = {}
      BY <2>2, SumEmpty
    <2>3. CASE V # {}
      <3> DEFINE x == Some(V)
                 W == V \ {x}
      <3>1. x \in V /\ W \in SUBSET V /\ W # V
        BY <2>3, SomeIsIn
      <3>2. SumFunctionOnSet(f, W) = SumFunctionOnSet(g, W) /\ f[x] = g[x]
        BY <1>1, <3>1
      <3>3. SumFunctionOnSet(f, V) = f[x] + SumFunctionOnSet(f, W)
        BY <2>1, <2>3, SumUnfold
      <3>4. SumFunctionOnSet(g, V) = g[x] + SumFunctionOnSet(g, W)
        BY <2>1, <2>3, SumUnfold
      <3> QED
        BY <3>2, <3>3, <3>4
    <2> QED
      BY <2>2, <2>3
  <1>2. \A V \in SUBSET S : V \in G
    <2> HIDE DEF G
    <2> QED
      BY <1>1, SubsetInduction
  <1> QED
    BY <1>2

\* The sum of a union of two sets that have nothing in common.
LEMMA SumUnion ==
    ASSUME NEW f, NEW S, NEW T, IsFiniteSet(S), IsFiniteSet(T), S \cap T = {},
           \A x \in S \cup T : f[x] \in Nat
    PROVE  SumFunctionOnSet(f, S \cup T) = SumFunctionOnSet(f, S) + SumFunctionOnSet(f, T)
  <1> DEFINE G == {V \in SUBSET S : SumFunctionOnSet(f, V \cup T)
                                    = SumFunctionOnSet(f, V) + SumFunctionOnSet(f, T)}
  <1>0. SumFunctionOnSet(f, T) \in Nat
    BY SumNat
  <1>1. ASSUME NEW V \in SUBSET S, \A W \in SUBSET V : W # V => W \in G
        PROVE  V \in G
    <2>1. IsFiniteSet(V) /\ IsFiniteSet(V \cup T)
      BY FS_Subset, FS_Union
    <2>2. CASE V = {}
      <3>1. V \cup T = T /\ SumFunctionOnSet(f, V) = 0
        BY <2>2, SumEmpty
      <3> QED
        BY <1>0, <3>1
    <2>3. CASE V # {}
      <3>1. PICK x \in V : TRUE
        BY <2>3
      <3> DEFINE W == V \ {x}
      <3>2. W \in SUBSET V /\ W # V /\ IsFiniteSet(W)
        BY <2>1, <3>1, FS_Subset
      <3>3. SumFunctionOnSet(f, W \cup T) = SumFunctionOnSet(f, W) + SumFunctionOnSet(f, T)
        BY <1>1, <3>2
      <3>4. SumFunctionOnSet(f, V) = f[x] + SumFunctionOnSet(f, W)
        BY <2>1, <3>1, SumRemove
      <3>5. x \in V \cup T /\ (V \cup T) \ {x} = W \cup T
        BY <3>1
      <3>6. SumFunctionOnSet(f, V \cup T) = f[x] + SumFunctionOnSet(f, (V \cup T) \ {x})
        <4> DEFINE U == V \cup T
        <4>1. x \in U /\ IsFiniteSet(U) /\ \A z \in U : f[z] \in Nat
          BY <2>1, <3>5
        <4> HIDE DEF U
        <4>2. SumFunctionOnSet(f, U) = f[x] + SumFunctionOnSet(f, U \ {x})
          BY <4>1, SumRemove
        <4> QED
          BY <4>2 DEF U
      <3>7. SumFunctionOnSet(f, W) \in Nat /\ f[x] \in Nat
        <4>1. \A z \in W : f[z] \in Nat
          OBVIOUS
        <4> HIDE DEF W
        <4> QED
          BY <3>1, <3>2, <4>1, SumNat
      <3>8. SumFunctionOnSet(f, V \cup T) = f[x] + (SumFunctionOnSet(f, W) + SumFunctionOnSet(f, T))
        BY <3>3, <3>5, <3>6
      <3> HIDE DEF W
      <3>9. SumFunctionOnSet(f, V \cup T) = SumFunctionOnSet(f, V) + SumFunctionOnSet(f, T)
        BY <1>0, <3>4, <3>7, <3>8
      <3> QED
        BY <3>9
    <2> QED
      BY <2>2, <2>3
  <1>2. \A V \in SUBSET S : V \in G
    <2> HIDE DEF G
    <2> QED
      BY <1>1, SubsetInduction
  <1> QED
    BY <1>2

\* A part sums up to no more than the whole.
LEMMA SumSubset ==
    ASSUME NEW f, NEW S, IsFiniteSet(S), NEW T \in SUBSET S, \A x \in S : f[x] \in Nat
    PROVE  SumFunctionOnSet(f, T) <= SumFunctionOnSet(f, S)
  <1> DEFINE R == S \ T
  <1>1. IsFiniteSet(T) /\ IsFiniteSet(R)
    BY FS_Subset
  <1>2. S = T \cup R /\ T \cap R = {} /\ \A x \in T \cup R : f[x] \in Nat
    OBVIOUS
  <1> HIDE DEF R
  <1>3. SumFunctionOnSet(f, T) \in Nat /\ SumFunctionOnSet(f, R) \in Nat
    BY <1>1, <1>2, SumNat
  <1>4. SumFunctionOnSet(f, T \cup R) = SumFunctionOnSet(f, T) + SumFunctionOnSet(f, R)
    BY <1>1, <1>2, SumUnion
  <1> QED
    BY <1>2, <1>3, <1>4

\* Sums of two functions added up.
LEMMA SumOfBoth ==
    ASSUME NEW f, NEW g, NEW h, NEW S, IsFiniteSet(S),
           \A x \in S : g[x] \in Nat /\ h[x] \in Nat /\ f[x] = g[x] + h[x]
    PROVE  SumFunctionOnSet(f, S) = SumFunctionOnSet(g, S) + SumFunctionOnSet(h, S)
  <1> DEFINE G == {V \in SUBSET S : SumFunctionOnSet(f, V) = SumFunctionOnSet(g, V) + SumFunctionOnSet(h, V)}
  <1>1. ASSUME NEW V \in SUBSET S, \A W \in SUBSET V : W # V => W \in G
        PROVE  V \in G
    <2>1. IsFiniteSet(V)
      BY FS_Subset
    <2>2. CASE V = {}
      BY <2>2, SumEmpty
    <2>3. CASE V # {}
      <3> DEFINE x == Some(V)
                 W == V \ {x}
      <3>1. x \in V /\ W \in SUBSET V /\ W # V /\ IsFiniteSet(W)
        BY <2>1, <2>3, SomeIsIn, FS_Subset
      <3>2. SumFunctionOnSet(f, W) = SumFunctionOnSet(g, W) + SumFunctionOnSet(h, W)
        BY <1>1, <3>1
      <3>3. /\ SumFunctionOnSet(f, V) = f[x] + SumFunctionOnSet(f, W)
            /\ SumFunctionOnSet(g, V) = g[x] + SumFunctionOnSet(g, W)
            /\ SumFunctionOnSet(h, V) = h[x] + SumFunctionOnSet(h, W)
        BY <2>1, <2>3, SumUnfold
      <3>4. SumFunctionOnSet(g, W) \in Nat /\ SumFunctionOnSet(h, W) \in Nat
        <4>1. \A z \in W : g[z] \in Nat /\ h[z] \in Nat
          OBVIOUS
        <4> HIDE DEF W
        <4> QED
          BY <3>1, <4>1, SumNat
      <3>5. f[x] = g[x] + h[x] /\ g[x] \in Nat /\ h[x] \in Nat
        BY <3>1
      <3> HIDE DEF W, x
      <3>6. SumFunctionOnSet(f, V) = SumFunctionOnSet(g, V) + SumFunctionOnSet(h, V)
        BY <3>2, <3>3, <3>4, <3>5
      <3> QED
        BY <3>6
    <2> QED
      BY <2>2, <2>3
  <1>2. \A V \in SUBSET S : V \in G
    <2> HIDE DEF G
    <2> QED
      BY <1>1, SubsetInduction
  <1> QED
    BY <1>2

\* No value is larger than the sum.
LEMMA SumAtLeast ==
    ASSUME NEW f, NEW S, IsFiniteSet(S), \A x \in S : f[x] \in Nat, NEW y \in S
    PROVE  f[y] <= SumFunctionOnSet(f, S)
  <1> DEFINE T == S \ {y}
  <1>1. IsFiniteSet(T) /\ \A x \in T : f[x] \in Nat
    BY FS_Subset
  <1> HIDE DEF T
  <1>2. SumFunctionOnSet(f, T) \in Nat
    BY <1>1, SumNat
  <1>3. SumFunctionOnSet(f, S) = f[y] + SumFunctionOnSet(f, T)
    BY SumRemove DEF T
  <1> QED
    BY <1>2, <1>3

\* Two functions that differ in one place.
LEMMA SumChange ==
    ASSUME NEW f, NEW g, NEW S, IsFiniteSet(S), NEW y \in S,
           \A x \in S : f[x] \in Nat /\ g[x] \in Nat,
           \A x \in S \ {y} : f[x] = g[x]
    PROVE  /\ SumFunctionOnSet(g, S) + f[y] = SumFunctionOnSet(f, S) + g[y]
           /\ SumFunctionOnSet(f, S) \in Nat /\ SumFunctionOnSet(g, S) \in Nat
  <1> DEFINE T == S \ {y}
  <1>1. IsFiniteSet(T) /\ \A x \in T : f[x] \in Nat /\ f[x] = g[x]
    BY FS_Subset
  <1>2. SumFunctionOnSet(f, S) = f[y] + SumFunctionOnSet(f, T)
    BY SumRemove
  <1>3. SumFunctionOnSet(g, S) = g[y] + SumFunctionOnSet(g, T)
    BY SumRemove
  <1> HIDE DEF T
  <1>4. SumFunctionOnSet(f, T) = SumFunctionOnSet(g, T) /\ SumFunctionOnSet(f, T) \in Nat
    BY <1>1, SumSame, SumNat
  <1>5. f[y] \in Nat /\ g[y] \in Nat
    OBVIOUS
  <1> QED
    BY <1>2, <1>3, <1>4, <1>5

\* A sum of nothing but zeros.
LEMMA SumZero ==
    ASSUME NEW f, NEW S, IsFiniteSet(S), \A x \in S : f[x] = 0
    PROVE  SumFunctionOnSet(f, S) = 0
  <1>1. SumFunctionOnSet(f, S) \in Nat
    BY SumNat
  <1>2. SumFunctionOnSet(f, S) = SumFunctionOnSet(f, S) + SumFunctionOnSet(f, S)
    BY SumOfBoth
  <1>3. \A n \in Nat : n = n + n => n = 0
    OBVIOUS
  <1> QED
    BY <1>1, <1>2, <1>3

\* The larger function has the larger sum.
LEMMA SumMonotone ==
    ASSUME NEW f, NEW g, NEW S, IsFiniteSet(S),
           \A x \in S : f[x] \in Nat /\ g[x] \in Nat /\ f[x] <= g[x]
    PROVE  SumFunctionOnSet(f, S) <= SumFunctionOnSet(g, S)
  <1> DEFINE h == [x \in S |-> g[x] - f[x]]
  <1>1. \A x \in S : h[x] \in Nat /\ g[x] = f[x] + h[x]
    OBVIOUS
  <1> HIDE DEF h
  <1>2. SumFunctionOnSet(g, S) = SumFunctionOnSet(f, S) + SumFunctionOnSet(h, S)
    BY <1>1, SumOfBoth
  <1>3. SumFunctionOnSet(f, S) \in Nat /\ SumFunctionOnSet(h, S) \in Nat
    BY <1>1, SumNat
  <1> QED
    BY <1>2, <1>3

=============================================================================
