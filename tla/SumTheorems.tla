----------------------------- MODULE SumTheorems -----------------------------
(***************************************************************************)
(* The sum of a function over a finite set, SumFunctionOnSet of the        *)
(* community module Functions: what its recursion returns, that the order  *)
(* of the summands does not matter, and what a change of one of them does. *)
(*                                                                         *)
(* The induction is over a set of naturals that holds zero and every       *)
(* successor (NatSet): a set is a value, so the lemma can be cited with    *)
(* any set in its place.                                                   *)
(***************************************************************************)
EXTENDS Integers, FiniteSets, Functions, FiniteSetTheorems,
        WellFoundedInduction, TLAPS

\* A set of naturals has a least element.
LEMMA LeastNatural ==
    ASSUME NEW T \in SUBSET Nat, T # {}
    PROVE  \E n \in T : \A m \in T : n <= m
<1>1. PICK n \in T : \A m \in T : ~(<<m, n>> \in OpToRel(<, Nat))
    BY WFMin, NatLessThanWellFounded
<1>2. \A m \in T : ~(m < n)
    BY <1>1 DEF OpToRel
<1> QED BY <1>2

\* A set of naturals that holds zero and every successor holds all of them.
LEMMA NatSet ==
    ASSUME NEW G, 0 \in G, \A n \in Nat : n \in G => n + 1 \in G
    PROVE  Nat \subseteq G
<1> SUFFICES ASSUME Nat \ G # {} PROVE FALSE
    OBVIOUS
<1>1. PICK n \in Nat \ G : \A m \in Nat \ G : n <= m
    BY LeastNatural
<1>2. n - 1 \in Nat /\ n = (n - 1) + 1
    BY <1>1
<1>3. n - 1 \in G
    BY <1>1, <1>2
<1> QED BY <1>1, <1>2, <1>3

-----------------------------------------------------------------------------
\* The element the recursion takes first, and the equation it satisfies.
Pick(S) == CHOOSE x \in S : TRUE
Sums(F, S, g) ==
    g = [s \in SUBSET S |-> IF s = {} THEN 0 ELSE F[Pick(s)] + g[s \ {Pick(s)}]]

LEMMA PickFacts ==
    ASSUME NEW S, IsFiniteSet(S), S # {}
    PROVE  /\ Pick(S) \in S
           /\ IsFiniteSet(S \ {Pick(S)})
           /\ Cardinality(S \ {Pick(S)}) = Cardinality(S) - 1
           /\ Cardinality(S) \in Nat \ {0}
<1>1. Pick(S) \in S
    BY DEF Pick
<1>2. /\ IsFiniteSet(S \ {Pick(S)})
      /\ Cardinality(S \ {Pick(S)}) = Cardinality(S) - 1
    BY <1>1, FS_RemoveElement
<1>3. Cardinality(S) \in Nat /\ Cardinality(S) # 0
    BY FS_CardinalityType, FS_EmptySet
<1> QED BY <1>1, <1>2, <1>3

\* Such a function exists over the subsets of a finite set.
LEMMA SumsExist ==
    ASSUME NEW S, IsFiniteSet(S), NEW F, \A x \in S : F[x] \in Int
    PROVE  \E g \in [SUBSET S -> Int] : Sums(F, S, g)
<1> DEFINE Upto(n) == {s \in SUBSET S : Cardinality(s) <= n}
           Fits(g, n) == \A s \in Upto(n) :
               g[s] = IF s = {} THEN 0 ELSE F[Pick(s)] + g[s \ {Pick(s)}]
           G == {n \in Nat : \E g \in [Upto(n) -> Int] : Fits(g, n)}
<1>1. \A s \in SUBSET S : IsFiniteSet(s) /\ Cardinality(s) \in Nat
    BY FS_Subset, FS_CardinalityType
<1>2. 0 \in G
    <2>1. \A s \in Upto(0) : s = {}
        BY <1>1, FS_EmptySet
    <2>2. [s \in Upto(0) |-> 0] \in [Upto(0) -> Int]
        OBVIOUS
    <2>3. Fits([s \in Upto(0) |-> 0], 0)
        BY <2>1
    <2> QED BY <2>2, <2>3
<1>3. ASSUME NEW n \in Nat, n \in G PROVE n + 1 \in G
    <2>1. PICK g \in [Upto(n) -> Int] : Fits(g, n)
        BY <1>3
    <2> DEFINE h == [s \in Upto(n + 1) |->
                       IF s = {} THEN 0 ELSE F[Pick(s)] + g[s \ {Pick(s)}]]
    <2>2. \A s \in Upto(n + 1) : s # {} =>
             s \ {Pick(s)} \in Upto(n) /\ Pick(s) \in S
        BY <1>1, PickFacts
    <2>3. h \in [Upto(n + 1) -> Int]
        BY <2>2
    <2>4. Upto(n) \subseteq Upto(n + 1)
        BY <1>1
    <2>5. \A s \in Upto(n) : h[s] = g[s]
        BY <2>1, <2>4
    <2>6. Fits(h, n + 1)
        BY <2>2, <2>5
    <2> HIDE DEF h, Fits, Upto
    <2>7. \E k \in [Upto(n + 1) -> Int] : Fits(k, n + 1)
        BY <2>3, <2>6
    <2> QED BY <2>7
<1>4. Cardinality(S) \in Nat /\ Upto(Cardinality(S)) = SUBSET S
    BY <1>1, FS_Subset, FS_CardinalityType
<1>5. Cardinality(S) \in G
    <2> HIDE DEF G
    <2> QED BY <1>2, <1>3, <1>4, NatSet
<1>6. PICK g \in [SUBSET S -> Int] : Fits(g, Cardinality(S))
    BY <1>4, <1>5
<1>7. Sums(F, S, g)
    BY <1>4, <1>6 DEF Sums
<1> QED BY <1>7

\* It is unique, on the subsets two of them share.
LEMMA SumsUnique ==
    ASSUME NEW S, NEW T, IsFiniteSet(S), T \subseteq S,
           NEW F, NEW g, NEW h, Sums(F, S, g), Sums(F, T, h)
    PROVE  \A s \in SUBSET T : g[s] = h[s]
<1> DEFINE G == {n \in Nat : \A s \in SUBSET T :
                               Cardinality(s) = n => g[s] = h[s]}
<1>1. \A s \in SUBSET T : IsFiniteSet(s) /\ Cardinality(s) \in Nat
    BY FS_Subset, FS_CardinalityType
<1>2. \A s \in SUBSET T :
          /\ g[s] = IF s = {} THEN 0 ELSE F[Pick(s)] + g[s \ {Pick(s)}]
          /\ h[s] = IF s = {} THEN 0 ELSE F[Pick(s)] + h[s \ {Pick(s)}]
    BY DEF Sums
<1>3. 0 \in G
    BY <1>1, <1>2, FS_EmptySet
<1>4. ASSUME NEW n \in Nat, n \in G PROVE n + 1 \in G
    <2> SUFFICES ASSUME NEW s \in SUBSET T, Cardinality(s) = n + 1
                 PROVE  g[s] = h[s]
        OBVIOUS
    <2>1. s # {}
        BY FS_EmptySet
    <2>2. Cardinality(s \ {Pick(s)}) = n
        BY <1>1, <2>1, PickFacts
    <2> QED BY <1>2, <1>4, <2>1, <2>2
<1>5. Nat \subseteq G
    <2> HIDE DEF G
    <2> QED BY <1>3, <1>4, NatSet
<1> QED BY <1>1, <1>5

-----------------------------------------------------------------------------
\* The sum is the value of that function at the whole set.
LEMMA SumIs ==
    ASSUME NEW S, IsFiniteSet(S), NEW F, \A x \in S : F[x] \in Int,
           NEW g, Sums(F, S, g)
    PROVE  SumFunctionOnSet(F, S) = g[S]
<1> DEFINE c == CHOOSE iter : Sums(F, S, iter)
<1>1. Sums(F, S, c)
    OBVIOUS
<1>2. SumFunctionOnSet(F, S) = c[S]
    BY DEF SumFunctionOnSet, FoldFunctionOnSet, MapThenFoldSet, Sums, Pick
<1>3. c[S] = g[S]
    BY <1>1, SumsUnique
<1> QED BY <1>2, <1>3

LEMMA SumEmpty ==
    ASSUME NEW F
    PROVE  SumFunctionOnSet(F, {}) = 0
<1>1. IsFiniteSet({})
    BY FS_EmptySet
<1>2. PICK g \in [SUBSET {} -> Int] : Sums(F, {}, g)
    BY <1>1, SumsExist
<1>3. g[{}] = 0
    BY <1>2 DEF Sums
<1> QED BY <1>1, <1>2, <1>3, SumIs

LEMMA SumInt ==
    ASSUME NEW S, IsFiniteSet(S), NEW F, \A x \in S : F[x] \in Int
    PROVE  SumFunctionOnSet(F, S) \in Int
<1>1. PICK g \in [SUBSET S -> Int] : Sums(F, S, g)
    BY SumsExist
<1>2. g[S] \in Int
    BY <1>1
<1> QED BY <1>1, <1>2, SumIs

LEMMA SumPick ==
    ASSUME NEW S, IsFiniteSet(S), S # {}, NEW F, \A x \in S : F[x] \in Int
    PROVE  SumFunctionOnSet(F, S)
             = F[Pick(S)] + SumFunctionOnSet(F, S \ {Pick(S)})
<1> DEFINE T == S \ {Pick(S)}
<1>1. IsFiniteSet(T) /\ T \subseteq S /\ \A x \in T : F[x] \in Int
    BY PickFacts
<1>2. PICK g \in [SUBSET S -> Int] : Sums(F, S, g)
    BY SumsExist
<1>3. PICK h \in [SUBSET T -> Int] : Sums(F, T, h)
    BY <1>1, SumsExist
<1>4. g[T] = h[T]
    BY <1>1, <1>2, <1>3, SumsUnique
<1>5. g[S] = F[Pick(S)] + g[T]
    BY <1>2 DEF Sums
<1>6. SumFunctionOnSet(F, S) = g[S]
    BY <1>2, SumIs
<1>7. SumFunctionOnSet(F, T) = h[T]
    BY <1>1, <1>3, SumIs
<1> QED BY <1>4, <1>5, <1>6, <1>7

\* Any element can be taken first.
LEMMA SumRemove ==
    ASSUME NEW S, IsFiniteSet(S), NEW F, \A x \in S : F[x] \in Int,
           NEW x \in S
    PROVE  SumFunctionOnSet(F, S) = F[x] + SumFunctionOnSet(F, S \ {x})
<1> DEFINE Sum(T) == SumFunctionOnSet(F, T)
           G == {n \in Nat : \A T \in SUBSET S : Cardinality(T) = n =>
                               \A y \in T : Sum(T) = F[y] + Sum(T \ {y})}
<1>1. \A T \in SUBSET S : IsFiniteSet(T) /\ Cardinality(T) \in Nat
    BY FS_Subset, FS_CardinalityType
<1>2. \A T \in SUBSET S : Sum(T) \in Int
    BY <1>1, SumInt
<1>3. \A T \in SUBSET S : T # {} => Sum(T) = F[Pick(T)] + Sum(T \ {Pick(T)})
    BY <1>1, SumPick
<1> HIDE DEF Sum
<1>4. 0 \in G
    BY <1>1, FS_EmptySet
<1>5. ASSUME NEW n \in Nat, n \in G PROVE n + 1 \in G
    <2> SUFFICES ASSUME NEW T \in SUBSET S, Cardinality(T) = n + 1, NEW y \in T,
                        y # Pick(T)
                 PROVE  Sum(T) = F[y] + Sum(T \ {y})
        BY <1>3
    <2> DEFINE p == Pick(T)
    <2>1. /\ p \in T /\ Cardinality(T \ {p}) = n
          /\ Cardinality(T \ {y}) = n
        BY <1>1, PickFacts, FS_RemoveElement
    <2>2. (T \ {p}) \ {y} = (T \ {y}) \ {p}
        OBVIOUS
    <2>3. Sum(T \ {p}) = F[y] + Sum((T \ {p}) \ {y})
        BY <1>5, <2>1
    <2>4. Sum(T \ {y}) = F[p] + Sum((T \ {y}) \ {p})
        BY <1>5, <2>1
    <2>5. Sum(T) = F[p] + Sum(T \ {p})
        BY <1>3
    <2>6. Sum((T \ {p}) \ {y}) = Sum((T \ {y}) \ {p})
        BY <2>2
    <2>7. F[p] \in Int /\ F[y] \in Int /\ Sum((T \ {y}) \ {p}) \in Int
        BY <1>2, <2>1
    <2> HIDE DEF p
    <2> QED BY <2>3, <2>4, <2>5, <2>6, <2>7
<1>6. Nat \subseteq G
    <2> HIDE DEF G
    <2> QED BY <1>4, <1>5, NatSet
<1>7. Sum(S) = F[x] + Sum(S \ {x})
    BY <1>1, <1>6
<1> QED BY <1>7 DEF Sum

\* A new summand.
LEMMA SumAdd ==
    ASSUME NEW S, IsFiniteSet(S), NEW x, x \notin S,
           NEW F, \A y \in S \cup {x} : F[y] \in Int
    PROVE  SumFunctionOnSet(F, S \cup {x}) = SumFunctionOnSet(F, S) + F[x]
<1>1. IsFiniteSet(S \cup {x}) /\ (S \cup {x}) \ {x} = S /\ x \in S \cup {x}
    BY FS_AddElement
<1>2. SumFunctionOnSet(F, S \cup {x})
         = F[x] + SumFunctionOnSet(F, (S \cup {x}) \ {x})
    BY <1>1, SumRemove
<1>3. F[x] \in Int /\ SumFunctionOnSet(F, S) \in Int
    BY SumInt
<1>4. SumFunctionOnSet(F, (S \cup {x}) \ {x}) = SumFunctionOnSet(F, S)
    BY <1>1
<1> QED BY <1>2, <1>3, <1>4

LEMMA SumSingleton ==
    ASSUME NEW x, NEW F, F[x] \in Int
    PROVE  SumFunctionOnSet(F, {x}) = F[x]
<1>1. IsFiniteSet({}) /\ {} \cup {x} = {x}
    BY FS_EmptySet
<1>2. SumFunctionOnSet(F, {} \cup {x}) = SumFunctionOnSet(F, {}) + F[x]
    BY <1>1, SumAdd
<1> QED BY <1>1, <1>2, SumEmpty

\* The sum depends on nothing but the summands.
LEMMA SumSame ==
    ASSUME NEW S, IsFiniteSet(S), NEW F, NEW H,
           \A x \in S : F[x] \in Int /\ H[x] = F[x]
    PROVE  SumFunctionOnSet(H, S) = SumFunctionOnSet(F, S)
<1>1. PICK g \in [SUBSET S -> Int] : Sums(F, S, g)
    BY SumsExist
<1>2. Sums(H, S, g)
    <2>1. ASSUME NEW s \in SUBSET S, s # {}
          PROVE  F[Pick(s)] = H[Pick(s)]
        BY <2>1 DEF Pick
    <2> QED BY <1>1, <2>1 DEF Sums
<1>3. SumFunctionOnSet(F, S) = g[S]
    BY <1>1, SumIs
<1>4. SumFunctionOnSet(H, S) = g[S]
    BY <1>2, SumIs
<1> QED BY <1>3, <1>4

\* H has the summands of F, but for x.
ChangesAt(F, H, S, x) ==
    /\ x \in S /\ H[x] \in Int
    /\ \A y \in S : F[y] \in Int
    /\ \A y \in S \ {x} : H[y] = F[y]

\* One summand changes.
LEMMA SumUpdate ==
    ASSUME NEW S, IsFiniteSet(S), NEW F, NEW H, NEW x, ChangesAt(F, H, S, x)
    PROVE  SumFunctionOnSet(H, S) = SumFunctionOnSet(F, S) + (H[x] - F[x])
<1> USE DEF ChangesAt
<1>1. IsFiniteSet(S \ {x})
    BY FS_RemoveElement
<1>2. SumFunctionOnSet(H, S) = H[x] + SumFunctionOnSet(H, S \ {x})
    BY SumRemove
<1>3. SumFunctionOnSet(F, S) = F[x] + SumFunctionOnSet(F, S \ {x})
    BY SumRemove
<1>4. SumFunctionOnSet(H, S \ {x}) = SumFunctionOnSet(F, S \ {x})
    BY <1>1, SumSame
<1>5. SumFunctionOnSet(F, S \ {x}) \in Int
    BY <1>1, SumInt
<1> QED BY <1>2, <1>3, <1>4, <1>5

\* Summands without effect.
LEMMA SumZero ==
    ASSUME NEW S, IsFiniteSet(S), NEW F, \A x \in S : F[x] = 0
    PROVE  SumFunctionOnSet(F, S) = 0
<1> DEFINE g == [s \in SUBSET S |-> 0]
<1>1. Sums(F, S, g)
    <2>1. ASSUME NEW s \in SUBSET S, s # {}
          PROVE  F[Pick(s)] = 0 /\ g[s \ {Pick(s)}] = 0
        BY <2>1 DEF Pick
    <2> QED BY <2>1 DEF Sums
<1>2. \A x \in S : F[x] \in Int
    OBVIOUS
<1>3. g[S] = 0
    OBVIOUS
<1> HIDE DEF g
<1> QED BY <1>1, <1>2, <1>3, SumIs

\* Summands of the opposite sign.
LEMMA SumNeg ==
    ASSUME NEW S, IsFiniteSet(S), NEW F, NEW H,
           \A x \in S : F[x] \in Int /\ H[x] = -F[x]
    PROVE  SumFunctionOnSet(H, S) = -SumFunctionOnSet(F, S)
<1>1. PICK g \in [SUBSET S -> Int] : Sums(F, S, g)
    BY SumsExist
<1> DEFINE h == [s \in SUBSET S |-> -g[s]]
<1>2. Sums(H, S, h)
    <2>1. \A s \in SUBSET S :
              g[s] = IF s = {} THEN 0 ELSE F[Pick(s)] + g[s \ {Pick(s)}]
        BY <1>1 DEF Sums
    <2>2. ASSUME NEW s \in SUBSET S
          PROVE  h[s] = IF s = {} THEN 0 ELSE H[Pick(s)] + h[s \ {Pick(s)}]
        <3>1. CASE s = {}
            BY <2>1, <3>1
        <3>2. CASE s # {}
            <4>1. Pick(s) \in S /\ s \ {Pick(s)} \in SUBSET S
                BY <3>2 DEF Pick
            <4>2. F[Pick(s)] \in Int /\ g[s \ {Pick(s)}] \in Int
                BY <4>1
            <4>3. g[s] = F[Pick(s)] + g[s \ {Pick(s)}]
                BY <2>1, <3>2
            <4>4. H[Pick(s)] = -F[Pick(s)]
                BY <4>1
            <4> QED BY <3>2, <4>1, <4>2, <4>3, <4>4
        <3> QED BY <3>1, <3>2
    <2> HIDE DEF h
    <2>3. h = [s \in SUBSET S |-> h[s]]
        BY DEF h
    <2> QED BY <2>2, <2>3 DEF Sums
<1>3. \A x \in S : H[x] \in Int
    OBVIOUS
<1>4. h[S] = -g[S]
    OBVIOUS
<1>5. SumFunctionOnSet(F, S) = g[S]
    BY <1>1, SumIs
<1> HIDE DEF h
<1>6. SumFunctionOnSet(H, S) = h[S]
    BY <1>2, <1>3, SumIs
<1> QED BY <1>4, <1>5, <1>6

\* Summands that are not negative.
LEMMA SumNat ==
    ASSUME NEW S, IsFiniteSet(S), NEW F, \A x \in S : F[x] \in Nat
    PROVE  SumFunctionOnSet(F, S) \in Nat
<1>0. \A x \in S : F[x] \in Int
    OBVIOUS
<1>1. PICK g \in [SUBSET S -> Int] : Sums(F, S, g)
    BY <1>0, SumsExist
<1> DEFINE G == {n \in Nat : \A s \in SUBSET S :
                               Cardinality(s) = n => g[s] \in Nat}
<1>2. \A s \in SUBSET S : IsFiniteSet(s) /\ Cardinality(s) \in Nat
    BY FS_Subset, FS_CardinalityType
<1>3. \A s \in SUBSET S :
          g[s] = IF s = {} THEN 0 ELSE F[Pick(s)] + g[s \ {Pick(s)}]
    BY <1>1 DEF Sums
<1>4. 0 \in G
    BY <1>2, <1>3, FS_EmptySet
<1>5. ASSUME NEW n \in Nat, n \in G PROVE n + 1 \in G
    <2> SUFFICES ASSUME NEW s \in SUBSET S, Cardinality(s) = n + 1
                 PROVE  g[s] \in Nat
        OBVIOUS
    <2>1. s # {}
        <3>1. Cardinality({}) = 0 /\ n + 1 # 0
            BY FS_EmptySet
        <3> QED BY <3>1
    <2>2. Cardinality(s \ {Pick(s)}) = n /\ Pick(s) \in S
        BY <1>2, <2>1, PickFacts
    <2>3. g[s \ {Pick(s)}] \in Nat /\ F[Pick(s)] \in Nat
        BY <1>5, <2>2
    <2> QED BY <1>3, <2>1, <2>3
<1>6. Nat \subseteq G
    <2> HIDE DEF G
    <2> QED BY <1>4, <1>5, NatSet
<1>7. g[S] \in Nat
    BY <1>2, <1>6
<1> QED BY <1>0, <1>1, <1>7, SumIs

\* None of them is more than the sum.
LEMMA SumBound ==
    ASSUME NEW S, IsFiniteSet(S), NEW F, \A x \in S : F[x] \in Nat,
           NEW x \in S
    PROVE  F[x] <= SumFunctionOnSet(F, S)
<1>1. IsFiniteSet(S \ {x})
    BY FS_RemoveElement
<1>2. SumFunctionOnSet(F, S \ {x}) \in Nat
    BY <1>1, SumNat
<1>3. SumFunctionOnSet(F, S) = F[x] + SumFunctionOnSet(F, S \ {x})
    BY SumRemove
<1> QED BY <1>2, <1>3

\* One summand is all there is.
LEMMA SumOne ==
    ASSUME NEW S, IsFiniteSet(S), NEW F, NEW x \in S, F[x] \in Int,
           \A y \in S \ {x} : F[y] = 0
    PROVE  SumFunctionOnSet(F, S) = F[x]
<1>1. IsFiniteSet(S \ {x})
    BY FS_RemoveElement
<1>2. SumFunctionOnSet(F, S \ {x}) = 0
    BY <1>1, SumZero
<1>3. \A y \in S : F[y] \in Int
    OBVIOUS
<1>4. SumFunctionOnSet(F, S) = F[x] + SumFunctionOnSet(F, S \ {x})
    BY <1>3, SumRemove
<1> QED BY <1>2, <1>4

\* The summands of H are the m of F, then the n of G.
Follow(F, m, G, n, H) ==
    /\ \A i \in 1 .. m : F[i] \in Int /\ H[i] = F[i]
    /\ \A i \in 1 .. n : G[i] \in Int /\ H[m + i] = G[i]

\* The sum over a sequence of summands that follow others.
LEMMA SumConcat ==
    ASSUME NEW m \in Nat, NEW n \in Nat, NEW F, NEW G, NEW H,
           Follow(F, m, G, n, H), NEW S, S = 1 .. (m + n)
    PROVE  SumFunctionOnSet(H, S)
             = SumFunctionOnSet(F, 1 .. m) + SumFunctionOnSet(G, 1 .. n)
<1> DEFINE A == {k \in Nat : k <= n =>
                   SumFunctionOnSet(H, 1 .. (m + k))
                     = SumFunctionOnSet(F, 1 .. m) + SumFunctionOnSet(G, 1 .. k)}
<1>1. \A k \in Nat : IsFiniteSet(1 .. k)
    BY FS_Interval
<1>2. \A i \in 1 .. m : F[i] \in Int /\ H[i] = F[i]
    BY DEF Follow
<1>3. \A i \in 1 .. n : G[i] \in Int /\ H[m + i] = G[i]
    BY DEF Follow
<1>4. SumFunctionOnSet(F, 1 .. m) \in Int
    BY <1>1, <1>2, SumInt
<1>5. 0 \in A
    <2>1. 1 .. 0 = {} /\ m + 0 = m
        OBVIOUS
    <2>2. SumFunctionOnSet(H, 1 .. m) = SumFunctionOnSet(F, 1 .. m)
        BY <1>1, <1>2, SumSame
    <2>3. SumFunctionOnSet(G, 1 .. 0) = 0
        BY <2>1, SumEmpty
    <2>4. SumFunctionOnSet(H, 1 .. (m + 0)) = SumFunctionOnSet(H, 1 .. m)
        BY <2>1
    <2> QED BY <1>4, <2>2, <2>3, <2>4
<1>6. ASSUME NEW k \in Nat, k \in A PROVE k + 1 \in A
    <2> SUFFICES ASSUME k + 1 <= n
                 PROVE  SumFunctionOnSet(H, 1 .. (m + (k + 1)))
                          = SumFunctionOnSet(F, 1 .. m)
                              + SumFunctionOnSet(G, 1 .. (k + 1))
        OBVIOUS
    <2>1. /\ 1 .. (k + 1) = (1 .. k) \cup {k + 1}
          /\ k + 1 \notin 1 .. k
          /\ 1 .. (m + (k + 1)) = (1 .. (m + k)) \cup {m + (k + 1)}
          /\ m + (k + 1) \notin 1 .. (m + k)
        <3>1. \A j \in Nat : /\ 1 .. (j + 1) = (1 .. j) \cup {j + 1}
                             /\ j + 1 \notin 1 .. j
            OBVIOUS
        <3>2. m + k \in Nat /\ m + (k + 1) = (m + k) + 1
            OBVIOUS
        <3> QED BY <3>1, <3>2
    <2>2. \A i \in (1 .. k) \cup {k + 1} : G[i] \in Int
        BY <1>3
    <2>3. \A i \in (1 .. (m + k)) \cup {m + (k + 1)} : H[i] \in Int
        <3> SUFFICES ASSUME NEW i \in 1 .. (m + (k + 1)) PROVE H[i] \in Int
            BY <2>1
        <3>1. CASE i <= m
            BY <1>2, <3>1
        <3>2. CASE i > m
            <4>1. i - m \in 1 .. n /\ i = m + (i - m)
                BY <3>2
            <4> QED BY <1>3, <4>1
        <3> QED BY <3>1, <3>2
    <2>4. IsFiniteSet(1 .. k) /\ IsFiniteSet(1 .. (m + k))
        BY <1>1
    <2>5. SumFunctionOnSet(G, (1 .. k) \cup {k + 1})
            = SumFunctionOnSet(G, 1 .. k) + G[k + 1]
        <3> DEFINE K == 1 .. k
                   x == k + 1
        <3>1. x \notin K /\ IsFiniteSet(K) /\ \A y \in K \cup {x} : G[y] \in Int
            BY <2>1, <2>2, <2>4
        <3> HIDE DEF K, x
        <3>2. SumFunctionOnSet(G, K \cup {x}) = SumFunctionOnSet(G, K) + G[x]
            BY <3>1, SumAdd
        <3> QED BY <3>2 DEF K, x
    <2>6. SumFunctionOnSet(H, (1 .. (m + k)) \cup {m + (k + 1)})
            = SumFunctionOnSet(H, 1 .. (m + k)) + H[m + (k + 1)]
        <3> DEFINE K == 1 .. (m + k)
                   x == m + (k + 1)
        <3>1. x \notin K /\ IsFiniteSet(K) /\ \A y \in K \cup {x} : H[y] \in Int
            BY <2>1, <2>3, <2>4
        <3> HIDE DEF K, x
        <3>2. SumFunctionOnSet(H, K \cup {x}) = SumFunctionOnSet(H, K) + H[x]
            BY <3>1, SumAdd
        <3> QED BY <3>2 DEF K, x
    <2>7. SumFunctionOnSet(H, 1 .. (m + k))
            = SumFunctionOnSet(F, 1 .. m) + SumFunctionOnSet(G, 1 .. k)
        BY <1>6
    <2>8. SumFunctionOnSet(G, 1 .. k) \in Int
        BY <2>2, <2>4, SumInt
    <2>9. H[m + (k + 1)] = G[k + 1] /\ G[k + 1] \in Int
        BY <1>3
    <2>10. /\ SumFunctionOnSet(G, 1 .. (k + 1))
                = SumFunctionOnSet(G, (1 .. k) \cup {k + 1})
           /\ SumFunctionOnSet(H, 1 .. (m + (k + 1)))
                = SumFunctionOnSet(H, (1 .. (m + k)) \cup {m + (k + 1)})
        BY <2>1
    <2> QED BY <1>4, <2>5, <2>6, <2>7, <2>8, <2>9, <2>10
<1>7. n \in A
    <2> HIDE DEF A
    <2> QED BY <1>5, <1>6, NatSet
<1> QED BY <1>7

-----------------------------------------------------------------------------
\* A set of n + 1 elements is one of n elements and another.
LEMMA TakeOne ==
    ASSUME NEW U, IsFiniteSet(U), NEW n \in Nat, Cardinality(U) = n + 1
    PROVE  \E x \in U : Cardinality(U \ {x}) = n
<1>1. PICK x : x \in U
    <2>1. Cardinality({}) = 0 /\ n + 1 # 0
        BY FS_EmptySet
    <2> QED BY <2>1
<1>2. Cardinality(U \ {x}) = (n + 1) - 1
    BY <1>1, FS_RemoveElement
<1> QED BY <1>1, <1>2

\* The sum over two sets that share nothing.
LEMMA SumUnion ==
    ASSUME NEW S, IsFiniteSet(S), NEW T, IsFiniteSet(T), S \cap T = {},
           NEW F, \A x \in S \cup T : F[x] \in Int
    PROVE  SumFunctionOnSet(F, S \cup T)
             = SumFunctionOnSet(F, S) + SumFunctionOnSet(F, T)
<1> DEFINE G == {n \in Nat : \A U \in SUBSET T : Cardinality(U) = n =>
                   SumFunctionOnSet(F, S \cup U)
                     = SumFunctionOnSet(F, S) + SumFunctionOnSet(F, U)}
<1>1. \A U \in SUBSET T : /\ IsFiniteSet(U) /\ Cardinality(U) \in Nat
                          /\ IsFiniteSet(S \cup U)
    BY FS_Subset, FS_CardinalityType, FS_Union
<1>2. SumFunctionOnSet(F, S) \in Int
    BY SumInt
<1>3. 0 \in G
    <2> SUFFICES ASSUME NEW U \in SUBSET T, Cardinality(U) = 0
                 PROVE  SumFunctionOnSet(F, S \cup U)
                          = SumFunctionOnSet(F, S) + SumFunctionOnSet(F, U)
        OBVIOUS
    <2>1. U = {} /\ S \cup U = S
        BY <1>1, FS_EmptySet
    <2> QED BY <1>2, <2>1, SumEmpty
<1>4. ASSUME NEW n \in Nat, n \in G PROVE n + 1 \in G
    <2> SUFFICES ASSUME NEW U \in SUBSET T, Cardinality(U) = n + 1
                 PROVE  SumFunctionOnSet(F, S \cup U)
                          = SumFunctionOnSet(F, S) + SumFunctionOnSet(F, U)
        OBVIOUS
    <2>1. PICK x \in U : Cardinality(U \ {x}) = n
        BY <1>1, TakeOne
    <2>2. Cardinality(U \ {x}) = n
        BY <2>1
    <2>3. SumFunctionOnSet(F, S \cup (U \ {x}))
            = SumFunctionOnSet(F, S) + SumFunctionOnSet(F, U \ {x})
        BY <1>4, <2>2
    <2>4. SumFunctionOnSet(F, U) = F[x] + SumFunctionOnSet(F, U \ {x})
        BY <1>1, <2>1, SumRemove
    <2>5. SumFunctionOnSet(F, S \cup U)
            = F[x] + SumFunctionOnSet(F, S \cup (U \ {x}))
        <3>1. (S \cup U) \ {x} = S \cup (U \ {x})
            BY <2>1
        <3>2. x \in S \cup U /\ \A y \in S \cup U : F[y] \in Int
            BY <2>1
        <3>3. SumFunctionOnSet(F, S \cup U)
                = F[x] + SumFunctionOnSet(F, (S \cup U) \ {x})
            BY <1>1, <3>2, SumRemove
        <3> QED BY <3>1, <3>3
    <2>6. F[x] \in Int /\ SumFunctionOnSet(F, U \ {x}) \in Int
        <3>1. U \ {x} \in SUBSET T
            OBVIOUS
        <3> QED BY <1>1, <2>1, <3>1, SumInt
    <2> QED BY <1>2, <2>3, <2>4, <2>5, <2>6
<1>5. Cardinality(T) \in G
    <2> HIDE DEF G
    <2>1. Nat \subseteq G
        BY <1>3, <1>4, NatSet
    <2> QED BY <1>1, <2>1
<1> QED BY <1>5

\* A summand that is zero can be left out.
LEMMA SumSupport ==
    ASSUME NEW S, IsFiniteSet(S), NEW T \in SUBSET S,
           NEW F, \A x \in T : F[x] \in Int, \A x \in S \ T : F[x] = 0
    PROVE  SumFunctionOnSet(F, S) = SumFunctionOnSet(F, T)
<1>1. IsFiniteSet(T) /\ IsFiniteSet(S \ T)
    BY FS_Subset
<1>2. SumFunctionOnSet(F, S \ T) = 0
    BY <1>1, SumZero
<1>3. SumFunctionOnSet(F, T) \in Int
    BY <1>1, SumInt
<1>4. T \cap (S \ T) = {} /\ T \cup (S \ T) = S
    OBVIOUS
<1>5. \A x \in T \cup (S \ T) : F[x] \in Int
    OBVIOUS
<1>6. SumFunctionOnSet(F, T \cup (S \ T))
        = SumFunctionOnSet(F, T) + SumFunctionOnSet(F, S \ T)
    BY <1>1, <1>4, <1>5, SumUnion
<1> QED BY <1>2, <1>3, <1>4, <1>6

\* A part of the summands, and the rest.
LEMMA SumPart ==
    ASSUME NEW S, IsFiniteSet(S), NEW T \in SUBSET S,
           NEW F, \A x \in S : F[x] \in Nat
    PROVE  /\ SumFunctionOnSet(F, S)
                = SumFunctionOnSet(F, T) + SumFunctionOnSet(F, S \ T)
           /\ SumFunctionOnSet(F, T) <= SumFunctionOnSet(F, S)
<1>1. IsFiniteSet(T) /\ IsFiniteSet(S \ T)
    BY FS_Subset
<1>2. SumFunctionOnSet(F, T) \in Nat /\ SumFunctionOnSet(F, S \ T) \in Nat
    BY <1>1, SumNat
<1>3. T \cap (S \ T) = {} /\ T \cup (S \ T) = S
    OBVIOUS
<1>4. \A x \in T \cup (S \ T) : F[x] \in Int
    OBVIOUS
<1>5. SumFunctionOnSet(F, T \cup (S \ T))
        = SumFunctionOnSet(F, T) + SumFunctionOnSet(F, S \ T)
    BY <1>1, <1>3, <1>4, SumUnion
<1>6. SumFunctionOnSet(F, S)
        = SumFunctionOnSet(F, T) + SumFunctionOnSet(F, S \ T)
    BY <1>3, <1>5
<1> QED BY <1>2, <1>6

\* Each summand of H is that of F and that of G.
Adds(F, G, H, S) ==
    \A x \in S : F[x] \in Int /\ G[x] \in Int /\ H[x] = F[x] + G[x]

LEMMA SumPlus ==
    ASSUME NEW S, IsFiniteSet(S), NEW F, NEW G, NEW H, Adds(F, G, H, S)
    PROVE  SumFunctionOnSet(H, S)
             = SumFunctionOnSet(F, S) + SumFunctionOnSet(G, S)
<1> USE DEF Adds
<1> DEFINE A == {n \in Nat : \A U \in SUBSET S : Cardinality(U) = n =>
                   SumFunctionOnSet(H, U)
                     = SumFunctionOnSet(F, U) + SumFunctionOnSet(G, U)}
<1>1. \A U \in SUBSET S : IsFiniteSet(U) /\ Cardinality(U) \in Nat
    BY FS_Subset, FS_CardinalityType
<1>2. \A x \in S : H[x] \in Int
    OBVIOUS
<1>3. 0 \in A
    <2>1. \A U \in SUBSET S : Cardinality(U) = 0 => U = {}
        BY <1>1, FS_EmptySet
    <2>2. SumFunctionOnSet(H, {})
            = SumFunctionOnSet(F, {}) + SumFunctionOnSet(G, {})
        <3>1. /\ SumFunctionOnSet(F, {}) = 0 /\ SumFunctionOnSet(G, {}) = 0
              /\ SumFunctionOnSet(H, {}) = 0
            BY SumEmpty
        <3> QED BY <3>1
    <2> QED BY <2>1, <2>2
<1>4. ASSUME NEW n \in Nat, n \in A PROVE n + 1 \in A
    <2> SUFFICES ASSUME NEW U \in SUBSET S, Cardinality(U) = n + 1
                 PROVE  SumFunctionOnSet(H, U)
                          = SumFunctionOnSet(F, U) + SumFunctionOnSet(G, U)
        OBVIOUS
    <2>1. PICK x \in U : Cardinality(U \ {x}) = n
        BY <1>1, TakeOne
    <2> DEFINE V == U \ {x}
    <2>2. Cardinality(V) = n /\ V \in SUBSET S /\ x \in S
        BY <2>1
    <2>3. SumFunctionOnSet(H, V)
            = SumFunctionOnSet(F, V) + SumFunctionOnSet(G, V)
        BY <1>4, <2>2
    <2>4. SumFunctionOnSet(F, V) \in Int /\ SumFunctionOnSet(G, V) \in Int
        BY <1>1, <2>2, SumInt
    <2>5. SumFunctionOnSet(F, U) = F[x] + SumFunctionOnSet(F, V)
        BY <1>1, <2>1, SumRemove
    <2>6. SumFunctionOnSet(G, U) = G[x] + SumFunctionOnSet(G, V)
        BY <1>1, <2>1, SumRemove
    <2>7. SumFunctionOnSet(H, U) = H[x] + SumFunctionOnSet(H, V)
        BY <1>1, <1>2, <2>1, SumRemove
    <2>8. F[x] \in Int /\ G[x] \in Int /\ H[x] = F[x] + G[x]
        BY <2>2
    <2> HIDE DEF V
    <2> QED BY <2>3, <2>4, <2>5, <2>6, <2>7, <2>8
<1>5. Cardinality(S) \in A
    <2> HIDE DEF A
    <2>1. Nat \subseteq A
        BY <1>3, <1>4, NatSet
    <2> QED BY <1>1, <2>1
<1> QED BY <1>5

\* Larger summands, larger sum.
AtMost(F, G, S) == \A x \in S : F[x] \in Int /\ G[x] \in Int /\ F[x] <= G[x]

LEMMA SumMono ==
    ASSUME NEW S, IsFiniteSet(S), NEW F, NEW G, AtMost(F, G, S)
    PROVE  SumFunctionOnSet(F, S) <= SumFunctionOnSet(G, S)
<1> DEFINE H == [x \in S |-> G[x] - F[x]]
<1>1. \A x \in S : F[x] \in Int /\ H[x] \in Nat /\ G[x] = F[x] + H[x]
    BY DEF AtMost
<1> HIDE DEF H
<1>2. Adds(F, H, G, S)
    BY <1>1 DEF Adds
<1>3. SumFunctionOnSet(G, S) = SumFunctionOnSet(F, S) + SumFunctionOnSet(H, S)
    BY <1>2, SumPlus
<1>4. SumFunctionOnSet(H, S) \in Nat
    BY <1>1, SumNat
<1>5. SumFunctionOnSet(F, S) \in Int
    BY <1>1, SumInt
<1> QED BY <1>3, <1>4, <1>5

\* Counting is adding ones.
LEMMA SumOnes ==
    ASSUME NEW S, IsFiniteSet(S), NEW F, \A x \in S : F[x] = 1
    PROVE  SumFunctionOnSet(F, S) = Cardinality(S)
<1> DEFINE A == {n \in Nat : \A U \in SUBSET S : Cardinality(U) = n =>
                               SumFunctionOnSet(F, U) = n}
<1>1. \A U \in SUBSET S : IsFiniteSet(U) /\ Cardinality(U) \in Nat
    BY FS_Subset, FS_CardinalityType
<1>2. 0 \in A
    BY <1>1, FS_EmptySet, SumEmpty
<1>3. ASSUME NEW n \in Nat, n \in A PROVE n + 1 \in A
    <2> SUFFICES ASSUME NEW U \in SUBSET S, Cardinality(U) = n + 1
                 PROVE  SumFunctionOnSet(F, U) = n + 1
        OBVIOUS
    <2>1. PICK x \in U : Cardinality(U \ {x}) = n
        BY <1>1, TakeOne
    <2>2. Cardinality(U \ {x}) = n /\ U \ {x} \in SUBSET S
        BY <2>1
    <2>3. SumFunctionOnSet(F, U \ {x}) = n
        BY <1>3, <2>2
    <2>4. \A y \in U : F[y] \in Int
        OBVIOUS
    <2>5. SumFunctionOnSet(F, U) = F[x] + SumFunctionOnSet(F, U \ {x})
        BY <1>1, <2>1, <2>4, SumRemove
    <2> QED BY <2>1, <2>3, <2>5
<1>4. Cardinality(S) \in A
    <2> HIDE DEF A
    <2>1. Nat \subseteq A
        BY <1>2, <1>3, NatSet
    <2> QED BY <1>1, <2>1
<1> QED BY <1>4

\* V groups the summands of F by the key g gives them.
Groups(F, S, g, D, V) ==
    /\ \A x \in S : F[x] \in Int /\ g[x] \in D
    /\ \A d \in D : V[d] = SumFunctionOnSet(F, {x \in S : g[x] = d})

\* The groups add up to the whole.
LEMMA SumGroups ==
    ASSUME NEW S, IsFiniteSet(S), NEW D, IsFiniteSet(D), NEW F, NEW g, NEW V,
           Groups(F, S, g, D, V)
    PROVE  SumFunctionOnSet(V, D) = SumFunctionOnSet(F, S)
<1> DEFINE Part(E) == {x \in S : g[x] \in E}
           A == {n \in Nat : \A E \in SUBSET D : Cardinality(E) = n =>
                   SumFunctionOnSet(V, E) = SumFunctionOnSet(F, Part(E))}
<1>1. \A E \in SUBSET D : IsFiniteSet(E) /\ Cardinality(E) \in Nat
    BY FS_Subset, FS_CardinalityType
<1>2. \A x \in S : F[x] \in Int /\ g[x] \in D
    BY DEF Groups
<1>3. \A E : IsFiniteSet(Part(E)) /\ SumFunctionOnSet(F, Part(E)) \in Int
    <2> SUFFICES ASSUME NEW E
                 PROVE  IsFiniteSet(Part(E)) /\ SumFunctionOnSet(F, Part(E)) \in Int
        OBVIOUS
    <2>1. IsFiniteSet(Part(E)) /\ \A x \in Part(E) : F[x] \in Int
        BY <1>2, FS_Subset
    <2> QED BY <2>1, SumInt
<1>4. \A d \in D : V[d] = SumFunctionOnSet(F, Part({d}))
    <2> SUFFICES ASSUME NEW d \in D
                 PROVE  V[d] = SumFunctionOnSet(F, Part({d}))
        OBVIOUS
    <2>1. Part({d}) = {x \in S : g[x] = d}
        OBVIOUS
    <2>2. V[d] = SumFunctionOnSet(F, {x \in S : g[x] = d})
        BY DEF Groups
    <2> QED BY <2>1, <2>2
<1>5. 0 \in A
    <2> SUFFICES ASSUME NEW E \in SUBSET D, Cardinality(E) = 0
                 PROVE  SumFunctionOnSet(V, E) = SumFunctionOnSet(F, Part(E))
        OBVIOUS
    <2>1. E = {} /\ Part(E) = {}
        BY <1>1, FS_EmptySet
    <2> QED BY <2>1, SumEmpty
<1>6. ASSUME NEW n \in Nat, n \in A PROVE n + 1 \in A
    <2> SUFFICES ASSUME NEW E \in SUBSET D, Cardinality(E) = n + 1
                 PROVE  SumFunctionOnSet(V, E) = SumFunctionOnSet(F, Part(E))
        OBVIOUS
    <2>1. PICK d \in E : Cardinality(E \ {d}) = n
        BY <1>1, TakeOne
    <2>2. Cardinality(E \ {d}) = n /\ E \ {d} \in SUBSET D
        BY <2>1
    <2>3. SumFunctionOnSet(V, E \ {d}) = SumFunctionOnSet(F, Part(E \ {d}))
        BY <1>6, <2>2
    <2>4. \A e \in E : V[e] \in Int
        BY <1>3, <1>4
    <2>5. SumFunctionOnSet(V, E) = V[d] + SumFunctionOnSet(V, E \ {d})
        BY <1>1, <2>1, <2>4, SumRemove
    <2>6. SumFunctionOnSet(F, Part(E))
            = SumFunctionOnSet(F, Part({d})) + SumFunctionOnSet(F, Part(E \ {d}))
        <3> DEFINE P == Part({d})
                   Q == Part(E \ {d})
        <3>1. Part(E) = P \cup Q /\ P \cap Q = {}
            BY <2>1
        <3>2. \A x \in P \cup Q : F[x] \in Int
            BY <1>2
        <3>3. IsFiniteSet(P) /\ IsFiniteSet(Q)
            BY <1>3
        <3> HIDE DEF P, Q
        <3>4. SumFunctionOnSet(F, P \cup Q)
                = SumFunctionOnSet(F, P) + SumFunctionOnSet(F, Q)
            BY <3>1, <3>2, <3>3, SumUnion
        <3> QED BY <3>1, <3>4 DEF P, Q
    <2>7. V[d] = SumFunctionOnSet(F, Part({d}))
        BY <1>4, <2>1
    <2> HIDE DEF Part
    <2> QED BY <2>3, <2>5, <2>6, <2>7
<1>7. Cardinality(D) \in A
    <2> HIDE DEF A
    <2>1. Nat \subseteq A
        BY <1>5, <1>6, NatSet
    <2> QED BY <1>1, <2>1
<1>8. Part(D) = S
    BY <1>2
<1> QED BY <1>7, <1>8

=============================================================================
