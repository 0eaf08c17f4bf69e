-------------------------------- MODULE Sums --------------------------------
(***************************************************************************)
(* Facts about the sums of the community module Functions, for any finite  *)
(* set: what the proofs about money and metering need of SumFunctionOnSet  *)
(* and SumFunction.                                                        *)
(*                                                                         *)
(* An induction is stated with the set of what is good instead of a        *)
(* predicate, and rests on the least element of a set of naturals.         *)
(***************************************************************************)
EXTENDS Integers, FiniteSets, Functions, FiniteSetTheorems,
        WellFoundedInduction, NaturalsInduction, TLAPS

-----------------------------------------------------------------------------
(* Induction *)

\* A set of naturals that is not empty has a least element.
LEMMA LeastOfSet ==
    ASSUME NEW S \in SUBSET Nat, S # {}
    PROVE  \E x \in S : \A y \in S : x <= y
<1> DEFINE R == OpToRel(<, Nat)
<1>1. IsWellFoundedOn(R, Nat)
  BY NatLessThanWellFounded
<1> HIDE DEF R
<1>2. \E x \in S : \A y \in S : ~(<<y, x>> \in R)
  BY <1>1, WFMin
<1>3. \A x, y \in Nat : y < x => <<y, x>> \in R
  BY DEF R, OpToRel
<1>4. PICK x \in S : \A y \in S : ~(<<y, x>> \in R)
  BY <1>2
<1>5. ASSUME NEW y \in S PROVE x <= y
  <2>1. x \in Nat /\ y \in Nat /\ ~(y < x)
    BY <1>3, <1>4
  <2> QED BY <2>1
<1> QED BY <1>5

\* Induction over the naturals.
LEMMA UpFromZero ==
    ASSUME NEW Good \in SUBSET Nat, 0 \in Good, \A n \in Good : n + 1 \in Good
    PROVE  \A n \in Nat : n \in Good
<1> SUFFICES ASSUME Nat \ Good # {} PROVE FALSE
  OBVIOUS
<1>1. PICK m \in Nat \ Good : \A n \in Nat \ Good : m <= n
  BY LeastOfSet
<1>2. m # 0 /\ m - 1 \in Nat
  OBVIOUS
<1>3. m - 1 \in Good
  BY <1>1, <1>2
<1>4. (m - 1) + 1 \in Good
  BY <1>3
<1> QED BY <1>2, <1>4

\* Induction over a finite set: what holds of a set once it holds of the set
\* without any one of its elements holds of every subset.
LEMMA UpFromEmpty ==
    ASSUME NEW S, IsFiniteSet(S), NEW Good \in SUBSET SUBSET S,
           \A T \in SUBSET S : (\A x \in T : T \ {x} \in Good) => T \in Good
    PROVE  \A T \in SUBSET S : T \in Good
<1> DEFINE Bad == (SUBSET S) \ Good
           Sizes == {Cardinality(T) : T \in Bad}
<1> SUFFICES ASSUME Bad # {} PROVE FALSE
  OBVIOUS
<1>1. \A T \in SUBSET S : IsFiniteSet(T) /\ Cardinality(T) \in Nat
  BY FS_Subset, FS_CardinalityType
<1>2. PICK m \in Sizes : \A n \in Sizes : m <= n
  <2>1. Sizes \in SUBSET Nat /\ Sizes # {}
    BY <1>1
  <2> HIDE DEF Sizes
  <2> QED BY <2>1, LeastOfSet
<1>3. PICK T \in Bad : m = Cardinality(T)
  BY <1>2
<1>4. ASSUME NEW x \in T PROVE T \ {x} \in Good
  <2>1. Cardinality(T \ {x}) = Cardinality(T) - 1
    BY <1>1, FS_RemoveElement
  <2>2. T \ {x} \in Bad => Cardinality(T) <= Cardinality(T) - 1
    BY <1>2, <1>3, <2>1
  <2> QED BY <1>1, <2>2
<1> QED BY <1>3, <1>4

-----------------------------------------------------------------------------
(* The recursion behind a sum *)

\* The element a fold takes from a set.
Some(s) == CHOOSE x \in s : TRUE

\* g folds f over every member of D, which has with s also s without an element.
Recurs(g, f, D) ==
    g = [s \in D |-> IF s = {} THEN 0 ELSE f[Some(s)] + g[s \ {Some(s)}]]

\* The element is one of the set.
LEMMA SomeIsIn == ASSUME NEW s, s # {} PROVE Some(s) \in s
  BY DEF Some

\* Over the subsets of a finite set there is such a g.
LEMMA FoldExists ==
    ASSUME NEW S, IsFiniteSet(S), NEW f
    PROVE  \E g : Recurs(g, f, SUBSET S)
<1> DEFINE Upto(n) == {s \in SUBSET S : Cardinality(s) <= n}
           Good == {n \in Nat : \E g : Recurs(g, f, Upto(n))}
<1>0. \A s \in SUBSET S : IsFiniteSet(s) /\ Cardinality(s) \in Nat
  BY FS_Subset, FS_CardinalityType
<1>1. 0 \in Good
  <2> DEFINE g == [s \in Upto(0) |-> 0]
  <2>1. \A s \in Upto(0) : s = {}
    BY <1>0, FS_EmptySet
  <2>2. g = [s \in Upto(0) |-> IF s = {} THEN 0 ELSE f[Some(s)] + g[s \ {Some(s)}]]
    BY <2>1
  <2> QED BY <2>2 DEF Recurs
<1>2. ASSUME NEW n \in Good PROVE n + 1 \in Good
  <2>1. PICK g : Recurs(g, f, Upto(n))
    OBVIOUS
  <2> DEFINE h == [s \in Upto(n + 1) |-> IF s = {} THEN 0 ELSE f[Some(s)] + g[s \ {Some(s)}]]
  <2>2. ASSUME NEW s \in Upto(n + 1), s # {}
        PROVE  s \ {Some(s)} \in Upto(n)
    <3>1. Cardinality(s \ {Some(s)}) = Cardinality(s) - 1
      BY <1>0, <2>2, SomeIsIn, FS_RemoveElement
    <3> QED BY <1>0, <3>1
  <2>3. ASSUME NEW s \in Upto(n) PROVE h[s] = g[s] /\ s \in Upto(n + 1)
    <3>1. s \in Upto(n + 1)
      BY <1>0
    <3>2. g[s] = IF s = {} THEN 0 ELSE f[Some(s)] + g[s \ {Some(s)}]
      BY <2>1 DEF Recurs
    <3> QED BY <3>1, <3>2
  <2>4. ASSUME NEW s \in Upto(n + 1)
        PROVE  h[s] = IF s = {} THEN 0 ELSE f[Some(s)] + h[s \ {Some(s)}]
    BY <2>2, <2>3
  <2>5. Recurs(h, f, Upto(n + 1))
    <3> HIDE DEF Upto
    <3> QED BY <2>4 DEF Recurs
  <2>6. n + 1 \in Nat /\ \E k : Recurs(k, f, Upto(n + 1))
    <3> HIDE DEF h, Upto
    <3> QED BY <2>5
  <2> QED BY <2>6
<1>3. Cardinality(S) \in Good
  <2> HIDE DEF Good
  <2>1. Good \in SUBSET Nat
    BY DEF Good
  <2> QED BY <1>0, <1>1, <1>2, <2>1, UpFromZero
<1>4. Upto(Cardinality(S)) = SUBSET S
  BY FS_Subset, FS_CardinalityType
<1> QED BY <1>3, <1>4

\* Two such functions agree.
LEMMA FoldsAgree ==
    ASSUME NEW S, IsFiniteSet(S), NEW R, S \subseteq R, NEW f, NEW g, NEW h,
           Recurs(g, f, SUBSET R), Recurs(h, f, SUBSET S)
    PROVE  g[S] = h[S]
<1> DEFINE Good == {T \in SUBSET S : g[T] = h[T]}
<1>1. ASSUME NEW T \in SUBSET S, \A x \in T : T \ {x} \in Good
      PROVE  T \in Good
  <2>1. g[T] = IF T = {} THEN 0 ELSE f[Some(T)] + g[T \ {Some(T)}]
    BY DEF Recurs
  <2>2. h[T] = IF T = {} THEN 0 ELSE f[Some(T)] + h[T \ {Some(T)}]
    BY DEF Recurs
  <2> QED BY <1>1, <2>1, <2>2, SomeIsIn
<1>2. S \in Good
  <2> HIDE DEF Good
  <2>1. Good \in SUBSET SUBSET S
    BY DEF Good
  <2> QED BY <1>1, <2>1, UpFromEmpty
<1> QED BY <1>2

\* A sum is what such a function returns.
LEMMA SumIsFold ==
    ASSUME NEW S, IsFiniteSet(S), NEW f
    PROVE  \E g : Recurs(g, f, SUBSET S) /\ SumFunctionOnSet(f, S) = g[S]
<1>1. \E g : Recurs(g, f, SUBSET S)
  BY FoldExists
<1> QED
  BY <1>1 DEF Recurs, Some, SumFunctionOnSet, FoldFunctionOnSet, MapThenFoldSet

\* The equation of a sum, with the element the fold takes.
LEMMA SumRecursion ==
    ASSUME NEW S, IsFiniteSet(S), NEW f
    PROVE  SumFunctionOnSet(f, S) =
             IF S = {} THEN 0
             ELSE f[Some(S)] + SumFunctionOnSet(f, S \ {Some(S)})
<1> DEFINE T == S \ {Some(S)}
<1>1. PICK g : Recurs(g, f, SUBSET S) /\ SumFunctionOnSet(f, S) = g[S]
  BY SumIsFold
<1>2. T \subseteq S /\ IsFiniteSet(T)
  BY FS_Subset
<1>3. PICK h : Recurs(h, f, SUBSET T) /\ SumFunctionOnSet(f, T) = h[T]
  BY <1>2, SumIsFold
<1>4. g[T] = h[T]
  <2> HIDE DEF T
  <2> QED BY <1>1, <1>2, <1>3, FoldsAgree
<1>5. g[S] = IF S = {} THEN 0 ELSE f[Some(S)] + g[T]
  BY <1>1 DEF Recurs
<1> QED BY <1>1, <1>3, <1>4, <1>5

-----------------------------------------------------------------------------
(* Sums *)

\* Nothing adds up to zero.
LEMMA SumEmpty == ASSUME NEW f PROVE SumFunctionOnSet(f, {}) = 0
  BY SumRecursion, FS_EmptySet

\* A sum of integers is an integer.
LEMMA SumInt ==
    ASSUME NEW S, IsFiniteSet(S), NEW f, \A x \in S : f[x] \in Int
    PROVE  SumFunctionOnSet(f, S) \in Int
<1> DEFINE Good == {T \in SUBSET S : SumFunctionOnSet(f, T) \in Int}
<1>1. ASSUME NEW T \in SUBSET S, \A x \in T : T \ {x} \in Good
      PROVE  T \in Good
  <2>1. IsFiniteSet(T)
    BY FS_Subset
  <2>2. SumFunctionOnSet(f, T) = IF T = {} THEN 0 ELSE f[Some(T)] + SumFunctionOnSet(f, T \ {Some(T)})
    BY <2>1, SumRecursion
  <2> QED BY <1>1, <2>2, SomeIsIn
<1>2. S \in Good
  <2>1. Good \in SUBSET SUBSET S
    OBVIOUS
  <2> HIDE DEF Good
  <2> QED BY <1>1, <2>1, UpFromEmpty
<1> QED BY <1>2

\* Any element of the set may be taken first.
LEMMA SumSplit ==
    ASSUME NEW S, IsFiniteSet(S), NEW f, \A x \in S : f[x] \in Int, NEW a \in S
    PROVE  /\ SumFunctionOnSet(f, S) = f[a] + SumFunctionOnSet(f, S \ {a})
           /\ SumFunctionOnSet(f, S \ {a}) \in Int
<1> DEFINE Total(T) == SumFunctionOnSet(f, T)
           Good == {T \in SUBSET S : \A x \in T : Total(T) = f[x] + Total(T \ {x})}
<1>0. \A T \in SUBSET S : IsFiniteSet(T) /\ Total(T) \in Int
  <2>1. ASSUME NEW T \in SUBSET S PROVE IsFiniteSet(T)
    BY FS_Subset
  <2> QED BY <2>1, SumInt
<1>1. ASSUME NEW T \in SUBSET S, \A x \in T : T \ {x} \in Good
      PROVE  T \in Good
  <2> SUFFICES ASSUME NEW x \in T PROVE Total(T) = f[x] + Total(T \ {x})
    OBVIOUS
  <2> DEFINE c == Some(T)
  <2>1. c \in T /\ Total(T) = f[c] + Total(T \ {c})
    BY <1>0, SomeIsIn, SumRecursion
  <2> HIDE DEF c, Total
  <2>2. CASE x # c
    <3> DEFINE rest == Total((T \ {x}) \ {c})
    <3>1. Total(T \ {c}) = f[x] + rest
      <4>1. (T \ {c}) \ {x} = (T \ {x}) \ {c}
        OBVIOUS
      <4>2. Total(T \ {c}) = f[x] + Total((T \ {c}) \ {x})
        BY <1>1, <2>1, <2>2
      <4> QED BY <4>1, <4>2
    <3>2. Total(T \ {x}) = f[c] + rest
      BY <1>1, <2>1, <2>2
    <3>3. rest \in Int /\ f[c] \in Int /\ f[x] \in Int
      BY <1>0, <2>1
    <3> HIDE DEF rest
    <3> QED BY <2>1, <3>1, <3>2, <3>3
  <2> QED BY <2>1, <2>2
<1>2. S \in Good
  <2>1. Good \in SUBSET SUBSET S
    OBVIOUS
  <2> HIDE DEF Good
  <2> QED BY <1>1, <2>1, UpFromEmpty
<1>3. S \ {a} \in SUBSET S /\ \A x \in S : Total(S) = f[x] + Total(S \ {x})
  BY <1>2
<1> QED BY <1>0, <1>3

\* An element more adds its value.
LEMMA SumInsert ==
    ASSUME NEW S, IsFiniteSet(S), NEW f, NEW a, a \notin S,
           \A x \in S \cup {a} : f[x] \in Int
    PROVE  SumFunctionOnSet(f, S \cup {a}) = f[a] + SumFunctionOnSet(f, S)
<1>1. IsFiniteSet(S \cup {a})
  BY FS_AddElement
<1>2. (S \cup {a}) \ {a} = S
  OBVIOUS
<1> QED BY <1>1, <1>2, SumSplit

\* A part adds up to no more than the whole.
LEMMA SumWithin ==
    ASSUME NEW S, IsFiniteSet(S), NEW T \in SUBSET S, NEW f, \A x \in S : f[x] \in Nat
    PROVE  SumFunctionOnSet(f, T) <= SumFunctionOnSet(f, S)
<1> DEFINE Total(U) == SumFunctionOnSet(f, U)
           Rest == S \ T
           Good == {U \in SUBSET Rest : Total(T) <= Total(T \cup U)}
<1>1. ASSUME NEW U \in SUBSET S PROVE IsFiniteSet(U) /\ Total(U) \in Int
  <2>1. IsFiniteSet(U) BY FS_Subset
  <2>2. \A x \in U : f[x] \in Int OBVIOUS
  <2> QED BY <2>1, <2>2, SumInt
<1>2. ASSUME NEW U \in SUBSET Rest, \A x \in U : U \ {x} \in Good
      PROVE  U \in Good
  <2>1. CASE U = {}
    <3>1. T \cup U = T BY <2>1
    <3>2. Total(T) \in Int BY <1>1
    <3> QED BY <3>1, <3>2
  <2>2. CASE U # {}
    <3>1. PICK x : x \in U BY <2>2
    <3> DEFINE W == T \cup (U \ {x})
    <3>2. W \in SUBSET S /\ x \notin W /\ x \in S /\ T \cup U = W \cup {x} BY <3>1
    <3>3. Total(T) <= Total(W) BY <1>2, <3>1
    <3>4. IsFiniteSet(W) /\ Total(W) \in Int /\ Total(T) \in Int BY <1>1, <3>2
    <3>5. \A y \in W \cup {x} : f[y] \in Int BY <3>2
    <3> HIDE DEF W
    <3>6. Total(W \cup {x}) = f[x] + Total(W) BY <3>2, <3>4, <3>5, SumInsert
    <3>7. f[x] \in Nat BY <3>2
    <3>8. Total(T \cup U) = Total(W \cup {x}) BY <3>2
    <3> HIDE DEF Total
    <3>9. Total(T) <= Total(T \cup U) BY <3>3, <3>4, <3>6, <3>7, <3>8
    <3> QED BY <3>9
  <2> QED BY <2>1, <2>2
<1>3. Rest \in Good
  <2>1. IsFiniteSet(Rest) BY FS_Subset
  <2>2. Good \in SUBSET SUBSET Rest OBVIOUS
  <2> HIDE DEF Good, Rest
  <2> QED BY <1>2, <2>1, <2>2, UpFromEmpty
<1>4. T \cup Rest = S OBVIOUS
<1> QED BY <1>3, <1>4

\* A sum of naturals is one.
LEMMA SumNat ==
    ASSUME NEW S, IsFiniteSet(S), NEW f, \A x \in S : f[x] \in Nat
    PROVE  SumFunctionOnSet(f, S) \in Nat
<1>1. SumFunctionOnSet(f, {}) <= SumFunctionOnSet(f, S) BY SumWithin
<1>2. SumFunctionOnSet(f, S) \in Int BY SumInt
<1> QED BY <1>1, <1>2, SumEmpty

\* Functions with the same values have the same sum.
LEMMA SumSame ==
    ASSUME NEW S, IsFiniteSet(S), NEW f, NEW g, \A x \in S : f[x] = g[x]
    PROVE  SumFunctionOnSet(f, S) = SumFunctionOnSet(g, S)
<1> DEFINE Good == {T \in SUBSET S : SumFunctionOnSet(f, T) = SumFunctionOnSet(g, T)}
<1>1. ASSUME NEW T \in SUBSET S, \A x \in T : T \ {x} \in Good
      PROVE  T \in Good
  <2>1. IsFiniteSet(T)
    BY FS_Subset
  <2>2. SumFunctionOnSet(f, T) = IF T = {} THEN 0 ELSE f[Some(T)] + SumFunctionOnSet(f, T \ {Some(T)})
    BY <2>1, SumRecursion
  <2>3. SumFunctionOnSet(g, T) = IF T = {} THEN 0 ELSE g[Some(T)] + SumFunctionOnSet(g, T \ {Some(T)})
    BY <2>1, SumRecursion
  <2> QED BY <1>1, <2>2, <2>3, SomeIsIn
<1>2. S \in Good
  <2>1. Good \in SUBSET SUBSET S
    OBVIOUS
  <2> HIDE DEF Good
  <2> QED BY <1>1, <2>1, UpFromEmpty
<1> QED BY <1>2

\* The sum of the sums is the sum.
LEMMA SumPlus ==
    ASSUME NEW S, IsFiniteSet(S), NEW f, NEW g, NEW h,
           \A x \in S : f[x] \in Int /\ g[x] \in Int /\ h[x] = f[x] + g[x]
    PROVE  SumFunctionOnSet(h, S) = SumFunctionOnSet(f, S) + SumFunctionOnSet(g, S)
<1> DEFINE Good == {T \in SUBSET S :
               SumFunctionOnSet(h, T) = SumFunctionOnSet(f, T) + SumFunctionOnSet(g, T)}
<1>1. ASSUME NEW T \in SUBSET S, \A x \in T : T \ {x} \in Good
      PROVE  T \in Good
  <2>1. IsFiniteSet(T)
    BY FS_Subset
  <2>2. CASE T = {}
    BY <2>2, SumEmpty
  <2>3. CASE T # {}
    <3>1. PICK x : x \in T
      BY <2>3
    <3> DEFINE U == T \ {x}
    <3>2. f[x] \in Int /\ g[x] \in Int /\ h[x] = f[x] + g[x]
      BY <3>1
    <3>3. SumFunctionOnSet(f, T) = f[x] + SumFunctionOnSet(f, U) /\ SumFunctionOnSet(f, U) \in Int
      BY <2>1, <3>1, SumSplit
    <3>4. SumFunctionOnSet(g, T) = g[x] + SumFunctionOnSet(g, U) /\ SumFunctionOnSet(g, U) \in Int
      BY <2>1, <3>1, SumSplit
    <3>5. SumFunctionOnSet(h, T) = h[x] + SumFunctionOnSet(h, U)
      <4>1. \A y \in T : h[y] \in Int
        OBVIOUS
      <4> QED BY <2>1, <3>1, <4>1, SumSplit
    <3>6. SumFunctionOnSet(h, U) = SumFunctionOnSet(f, U) + SumFunctionOnSet(g, U)
      BY <1>1, <3>1
    <3>7. SumFunctionOnSet(h, T) = SumFunctionOnSet(f, T) + SumFunctionOnSet(g, T)
      <4> HIDE DEF U
      <4> QED BY <3>2, <3>3, <3>4, <3>5, <3>6
    <3> QED BY <3>7
  <2> QED BY <2>2, <2>3
<1>2. S \in Good
  <2>1. Good \in SUBSET SUBSET S
    OBVIOUS
  <2> HIDE DEF Good
  <2> QED BY <1>1, <2>1, UpFromEmpty
<1> QED BY <1>2

\* A function that is nowhere greater has no greater sum.
LEMMA SumAtMost ==
    ASSUME NEW S, IsFiniteSet(S), NEW f, NEW g,
           \A x \in S : f[x] \in Int /\ g[x] \in Int /\ f[x] <= g[x]
    PROVE  SumFunctionOnSet(f, S) <= SumFunctionOnSet(g, S)
<1> DEFINE Good == {T \in SUBSET S : SumFunctionOnSet(f, T) <= SumFunctionOnSet(g, T)}
<1>1. ASSUME NEW T \in SUBSET S, \A x \in T : T \ {x} \in Good
      PROVE  T \in Good
  <2>1. IsFiniteSet(T)
    BY FS_Subset
  <2>2. CASE T = {}
    BY <2>2, SumEmpty
  <2>3. CASE T # {}
    <3>1. PICK x : x \in T
      BY <2>3
    <3> DEFINE U == T \ {x}
    <3>2. f[x] \in Int /\ g[x] \in Int /\ f[x] <= g[x]
      BY <3>1
    <3>3. SumFunctionOnSet(f, T) = f[x] + SumFunctionOnSet(f, U) /\ SumFunctionOnSet(f, U) \in Int
      BY <2>1, <3>1, SumSplit
    <3>4. SumFunctionOnSet(g, T) = g[x] + SumFunctionOnSet(g, U) /\ SumFunctionOnSet(g, U) \in Int
      BY <2>1, <3>1, SumSplit
    <3>5. SumFunctionOnSet(f, U) <= SumFunctionOnSet(g, U)
      BY <1>1, <3>1
    <3>6. SumFunctionOnSet(f, T) <= SumFunctionOnSet(g, T)
      <4> HIDE DEF U
      <4> QED BY <3>2, <3>3, <3>4, <3>5
    <3> QED BY <3>6
  <2> QED BY <2>2, <2>3
<1>2. S \in Good
  <2>1. Good \in SUBSET SUBSET S
    OBVIOUS
  <2> HIDE DEF Good
  <2> QED BY <1>1, <2>1, UpFromEmpty
<1> QED BY <1>2

\* A constant is added once for every element.
LEMMA SumConstant ==
    ASSUME NEW S, IsFiniteSet(S), NEW f, NEW k \in Int, \A x \in S : f[x] = k
    PROVE  SumFunctionOnSet(f, S) = Cardinality(S) * k
<1> DEFINE Good == {T \in SUBSET S : SumFunctionOnSet(f, T) = Cardinality(T) * k}
<1>1. ASSUME NEW T \in SUBSET S, \A x \in T : T \ {x} \in Good
      PROVE  T \in Good
  <2>1. IsFiniteSet(T) /\ Cardinality(T) \in Nat
    BY FS_Subset, FS_CardinalityType
  <2>2. CASE T = {}
    BY <2>2, SumEmpty, FS_EmptySet
  <2>3. CASE T # {}
    <3>1. PICK x : x \in T
      BY <2>3
    <3>2. SumFunctionOnSet(f, T) = f[x] + SumFunctionOnSet(f, T \ {x})
      BY <2>1, <3>1, SumSplit
    <3>3. SumFunctionOnSet(f, T \ {x}) = Cardinality(T \ {x}) * k
      BY <1>1, <3>1
    <3>4. Cardinality(T \ {x}) = Cardinality(T) - 1
      BY <2>1, <3>1, FS_RemoveElement
    <3>5. k + (Cardinality(T) - 1) * k = Cardinality(T) * k
      BY <2>1
    <3> QED BY <3>1, <3>2, <3>3, <3>4, <3>5
  <2> QED BY <2>2, <2>3
<1>2. S \in Good
  <2>1. Good \in SUBSET SUBSET S
    OBVIOUS
  <2> HIDE DEF Good
  <2> QED BY <1>1, <2>1, UpFromEmpty
<1> QED BY <1>2

\* A function that differs in one value differs in its sum by the difference.
LEMMA SumChange ==
    ASSUME NEW S, IsFiniteSet(S), NEW f, NEW g, NEW a \in S,
           \A x \in S : f[x] \in Int, g[a] \in Int, \A x \in S \ {a} : g[x] = f[x]
    PROVE  SumFunctionOnSet(g, S) = SumFunctionOnSet(f, S) + (g[a] - f[a])
<1>1. /\ SumFunctionOnSet(f, S) = f[a] + SumFunctionOnSet(f, S \ {a})
      /\ SumFunctionOnSet(f, S \ {a}) \in Int
  BY SumSplit
<1>2. SumFunctionOnSet(g, S) = g[a] + SumFunctionOnSet(g, S \ {a})
  <2>1. \A x \in S : g[x] \in Int
    OBVIOUS
  <2> QED BY <2>1, SumSplit
<1>3. SumFunctionOnSet(f, S \ {a}) = SumFunctionOnSet(g, S \ {a})
  BY FS_Subset, SumSame
<1> QED BY <1>1, <1>2, <1>3

-----------------------------------------------------------------------------
(* Totals of functions *)

\* The total of a function is an integer, and a natural if its values are.
LEMMA TotalType ==
    ASSUME NEW S, IsFiniteSet(S), NEW f \in [S -> Int]
    PROVE  /\ SumFunction(f) \in Int
           /\ (\A x \in S : f[x] >= 0) => SumFunction(f) \in Nat
<1>1. SumFunction(f) = SumFunctionOnSet(f, S) /\ SumFunctionOnSet(f, S) \in Int
  BY SumInt DEF SumFunction
<1>2. ASSUME \A x \in S : f[x] >= 0 PROVE SumFunctionOnSet(f, S) >= 0
  <2> DEFINE zero == [x \in S |-> 0]
  <2>1. SumFunctionOnSet(zero, S) = Cardinality(S) * 0
    BY SumConstant
  <2>2. Cardinality(S) * 0 = 0
    BY FS_CardinalityType
  <2>3. \A x \in S : zero[x] \in Int /\ f[x] \in Int /\ zero[x] <= f[x]
    BY <1>2
  <2> HIDE DEF zero
  <2>4. SumFunctionOnSet(zero, S) <= SumFunctionOnSet(f, S)
    BY <2>3, SumAtMost
  <2> QED BY <2>1, <2>2, <2>4
<1> QED BY <1>1, <1>2

\* The total follows the change of one value.
LEMMA TotalChange ==
    ASSUME NEW S, IsFiniteSet(S), NEW f \in [S -> Int], NEW g \in [S -> Int], NEW a \in S,
           \A x \in S \ {a} : g[x] = f[x]
    PROVE  SumFunction(g) = SumFunction(f) + (g[a] - f[a])
<1>1. SumFunction(f) = SumFunctionOnSet(f, S) /\ SumFunction(g) = SumFunctionOnSet(g, S)
  BY DEF SumFunction
<1> QED BY <1>1, SumChange

\* Totals add up.
LEMMA TotalPlus ==
    ASSUME NEW S, IsFiniteSet(S), NEW f \in [S -> Int], NEW g \in [S -> Int],
           NEW h \in [S -> Int], \A x \in S : h[x] = f[x] + g[x]
    PROVE  SumFunction(h) = SumFunction(f) + SumFunction(g)
<1>1. /\ SumFunction(f) = SumFunctionOnSet(f, S)
      /\ SumFunction(g) = SumFunctionOnSet(g, S)
      /\ SumFunction(h) = SumFunctionOnSet(h, S)
  BY DEF SumFunction
<1> QED BY <1>1, SumPlus

\* The total of a constant.
LEMMA TotalConstant ==
    ASSUME NEW S, IsFiniteSet(S), NEW k \in Int, NEW f \in [S -> Int], \A x \in S : f[x] = k
    PROVE  SumFunction(f) = Cardinality(S) * k
  BY SumConstant DEF SumFunction

\* Nothing but zeros.
LEMMA TotalZero ==
    ASSUME NEW S, IsFiniteSet(S), NEW f \in [S -> Int], \A x \in S : f[x] = 0
    PROVE  SumFunction(f) = 0
<1>1. SumFunction(f) = Cardinality(S) * 0
  BY TotalConstant
<1> QED BY <1>1, FS_CardinalityType

\* One pays and the others receive: the total grows by what they receive and
\* falls by what is paid.
LEMMA TotalShares ==
    ASSUME NEW S, IsFiniteSet(S), NEW f \in [S -> Int], NEW g \in [S -> Int],
           NEW lines \in [S -> Int], NEW a \in S, lines[a] = 0,
           \A x \in S \ {a} : g[x] = f[x] + lines[x]
    PROVE  SumFunction(g) = SumFunction(f) + SumFunction(lines) + (g[a] - f[a])
<1> DEFINE h == [x \in S |-> f[x] + lines[x]]
<1>1. h \in [S -> Int] /\ \A x \in S : h[x] = f[x] + lines[x]
  OBVIOUS
<1> HIDE DEF h
<1>2. SumFunction(h) = SumFunction(f) + SumFunction(lines)
  BY <1>1, TotalPlus
<1>3. SumFunction(g) = SumFunction(h) + (g[a] - h[a])
  <2>1. \A x \in S \ {a} : g[x] = h[x]
    BY <1>1
  <2> QED BY <1>1, <2>1, TotalChange
<1>4. h[a] = f[a]
  BY <1>1
<1> QED BY <1>2, <1>3, <1>4
=============================================================================
