---------------------------- MODULE SumTheorems ----------------------------
(***************************************************************************)
(* What a sum over a finite set is, proved from its definition: it is what *)
(* the query `sum(column)` is taken to be wherever the model uses it.      *)
(*                                                                         *)
(* Over is defined by recursion on a choice of elements, which the provers *)
(* cannot unfold.  So each fact is proved by taking the subsets it does    *)
(* not hold of, which would have a smallest one (SubsetInduction, from the *)
(* well-foundedness of the strict subset ordering).  SumExists and         *)
(* SumIsUnique say that there is exactly one function of the subsets that  *)
(* adds up as it should, SumStep that Over is it, and SumWithout that the  *)
(* element chosen does not matter; the rest follows from these.            *)
(***************************************************************************)
EXTENDS Integers, Sums, FiniteSetTheorems, WellFoundedInduction, TLAPS

\* The element the fold takes out of a set, as it is defined.
Pick(s) == CHOOSE x \in s : TRUE

\* g is what f adds up to over each subset of S.
IsSum(g, S, f) ==
    g = [s \in SUBSET S |-> IF s = {} THEN 0 ELSE f[Pick(s)] + g[s \ {Pick(s)}]]
SumOn(S, f) == CHOOSE g : IsSum(g, S, f)

\* The fold of the community modules, as a choice among functions of the subsets.
LEMMA OverIsChosen ==
    ASSUME NEW S, NEW f
    PROVE  Over(S, f) = SumOn(S, f)[S]
  BY DEF Over, MapThenSumSet, MapThenFoldSet, IsSum, Pick, SumOn

\* A set of subsets that contains each subset whose smaller ones it contains
\* contains the whole set.
LEMMA SubsetInduction ==
    ASSUME NEW S, IsFiniteSet(S), NEW B \in SUBSET SUBSET S,
           \A T \in SUBSET S : (\A U \in SUBSET T : U # T => U \in B) => T \in B
    PROVE  S \in B
<1> DEFINE Bad == {T \in SUBSET S : T \notin B}
<1>1. SUFFICES ASSUME S \notin B PROVE FALSE
  OBVIOUS
<1>2. Bad # {} /\ Bad \subseteq FiniteSubsetsOf(S)
  BY <1>1, FS_Subset DEF FiniteSubsetsOf
<1>3. PICK T \in Bad : \A U \in Bad : <<U, T>> \notin StrictSubsetOrdering(S)
  <2> HIDE DEF Bad
  <2> QED BY <1>2, FS_StrictSubsetOrderingWellFounded, WFMin
<1>4. \A U \in SUBSET T : U # T => U \in B
  BY <1>3 DEF StrictSubsetOrdering
<1> QED BY <1>3, <1>4

\* The element the fold takes first is one of the set.
LEMMA PickIsIn == ASSUME NEW s, s # {} PROVE Pick(s) \in s
  BY DEF Pick

\* Two partial sums agree wherever both are defined.
LEMMA SumIsUnique ==
    ASSUME NEW S, IsFiniteSet(S), NEW f, NEW g, NEW h, NEW G, NEW H,
           S \subseteq G, S \subseteq H, IsSum(g, G, f), IsSum(h, H, f)
    PROVE  g[S] = h[S]
<1> DEFINE B == {T \in SUBSET S : g[T] = h[T]}
<1>1. ASSUME NEW T \in SUBSET S, \A U \in SUBSET T : U # T => U \in B
      PROVE  T \in B
  <2>1. CASE T = {}
    BY <2>1 DEF IsSum
  <2>2. CASE T # {}
    <3>1. Pick(T) \in T /\ T \ {Pick(T)} \in SUBSET T /\ T \ {Pick(T)} # T
      BY <2>2, PickIsIn
    <3>2. g[T \ {Pick(T)}] = h[T \ {Pick(T)}]
      BY <1>1, <3>1
    <3>3. g[T] = f[Pick(T)] + g[T \ {Pick(T)}] /\ h[T] = f[Pick(T)] + h[T \ {Pick(T)}]
      BY <2>2 DEF IsSum
    <3> QED BY <3>2, <3>3
  <2> QED BY <2>1, <2>2
<1>2. B \in SUBSET SUBSET S
  OBVIOUS
<1> HIDE DEF B
<1>3. S \in B
  BY <1>1, <1>2, SubsetInduction
<1> QED BY <1>3 DEF B

\* A finite set has a function that adds up all of its subsets.
LEMMA SumExists ==
    ASSUME NEW S, IsFiniteSet(S), NEW f
    PROVE  IsSum(SumOn(S, f), S, f)
<1> DEFINE B == {T \in SUBSET S : IsSum(SumOn(T, f), T, f)}
<1>1. ASSUME NEW T \in SUBSET S, \A U \in SUBSET T : U # T => U \in B
      PROVE  T \in B
  <2> DEFINE part(U) == IF U = {} THEN 0 ELSE f[Pick(U)] + SumOn(U \ {Pick(U)}, f)[U \ {Pick(U)}]
             g == [U \in SUBSET T |-> part(U)]
  <2>1. \A U \in SUBSET T : U # T => IsSum(SumOn(U, f), U, f)
    BY <1>1
  <2>2. \A U \in SUBSET T : U # T => g[U] = SumOn(U, f)[U]
    <3> SUFFICES ASSUME NEW U \in SUBSET T, U # T PROVE part(U) = SumOn(U, f)[U]
      OBVIOUS
    <3> DEFINE h == SumOn(U, f)
               V == U \ {Pick(U)}
    <3>1. IsSum(h, U, f)
      BY <2>1
    <3>2. CASE U = {}
      <4>1. h[U] = 0
        <5> HIDE DEF h
        <5> QED BY <3>1, <3>2 DEF IsSum
      <4> QED BY <3>2, <4>1
    <3>3. CASE U # {}
      <4>1. V \in SUBSET T /\ V # T /\ V \subseteq U /\ IsFiniteSet(V)
        BY FS_Subset
      <4>2. IsSum(SumOn(V, f), V, f)
        BY <2>1, <4>1
      <4>3. SumOn(V, f)[V] = h[V]
        <5> HIDE DEF h, V
        <5> QED BY <3>1, <4>1, <4>2, SumIsUnique
      <4>4. h[U] = f[Pick(U)] + h[V]
        <5> HIDE DEF h
        <5> QED BY <3>1, <3>3 DEF IsSum
      <4> QED BY <3>3, <4>3, <4>4
    <3> QED BY <3>2, <3>3
  <2>3. IsSum(g, T, f)
    <3> SUFFICES ASSUME NEW U \in SUBSET T
                 PROVE  part(U) = IF U = {} THEN 0 ELSE f[Pick(U)] + g[U \ {Pick(U)}]
      BY DEF IsSum
    <3>1. CASE U = {}
      BY <3>1
    <3>2. CASE U # {}
      <4>1. U \ {Pick(U)} \in SUBSET T /\ U \ {Pick(U)} # T
        BY <3>2, PickIsIn
      <4>2. g[U \ {Pick(U)}] = SumOn(U \ {Pick(U)}, f)[U \ {Pick(U)}]
        BY <2>2, <4>1
      <4> HIDE DEF g
      <4> QED BY <3>2, <4>2
    <3> QED BY <3>1, <3>2
  <2> HIDE DEF g
  <2>4. IsSum(SumOn(T, f), T, f)
    BY <2>3 DEF SumOn
  <2> QED BY <2>4
<1>2. B \in SUBSET SUBSET S
  OBVIOUS
<1> HIDE DEF B
<1>3. S \in B
  BY <1>1, <1>2, SubsetInduction
<1> QED BY <1>3 DEF B

\* No rows add up to zero.
THEOREM SumOfNothing == ASSUME NEW f PROVE Over({}, f) = 0
<1>1. IsSum(SumOn({}, f), {}, f)
  BY SumExists, FS_EmptySet
<1>2. SumOn({}, f)[{}] = 0
  <2> DEFINE h == SumOn({}, f)
  <2> HIDE DEF h
  <2> SUFFICES IsSum(h, {}, f) => h[{}] = 0
    BY <1>1 DEF h
  <2> QED BY DEF IsSum
<1> QED BY <1>2, OverIsChosen

\* A sum is its first element and the sum of the others.
LEMMA SumStep ==
    ASSUME NEW S, IsFiniteSet(S), NEW f, S # {}
    PROVE  Over(S, f) = f[Pick(S)] + Over(S \ {Pick(S)}, f)
<1> DEFINE g == SumOn(S, f)
           T == S \ {Pick(S)}
           h == SumOn(T, f)
<1>1. IsSum(g, S, f) /\ IsFiniteSet(T) /\ T \subseteq S /\ IsSum(h, T, f)
  BY SumExists, FS_Subset
<1>2. g[S] = f[Pick(S)] + g[T]
  <2> HIDE DEF g
  <2> QED BY <1>1 DEF IsSum
<1>3. g[T] = h[T]
  <2> HIDE DEF g, h, T
  <2> QED BY <1>1, SumIsUnique
<1> QED BY <1>2, <1>3, OverIsChosen

\* Numbers add up to a number.
THEOREM SumIsNumber ==
    ASSUME NEW S, IsFiniteSet(S), NEW f, \A x \in S : f[x] \in Int
    PROVE  Over(S, f) \in Int
<1> DEFINE B == {T \in SUBSET S : Over(T, f) \in Int}
<1>1. ASSUME NEW T \in SUBSET S, \A U \in SUBSET T : U # T => U \in B
      PROVE  T \in B
  <2>1. CASE T = {}
    BY <2>1, SumOfNothing
  <2>2. CASE T # {}
    <3>1. Pick(T) \in T /\ IsFiniteSet(T)
      BY <2>2, PickIsIn, FS_Subset
    <3>2. Over(T \ {Pick(T)}, f) \in Int
      BY <1>1, <3>1
    <3>3. Over(T, f) = f[Pick(T)] + Over(T \ {Pick(T)}, f)
      BY <2>2, <3>1, SumStep
    <3>4. f[Pick(T)] \in Int
      BY <3>1
    <3> DEFINE u == Over(T, f)
               v == Over(T \ {Pick(T)}, f)
               w == f[Pick(T)]
    <3>5. u \in Int
      <4>1. u = w + v /\ w \in Int /\ v \in Int
        BY <3>2, <3>3, <3>4
      <4> HIDE DEF u, v, w
      <4> QED BY <4>1
    <3> QED BY <3>5
  <2> QED BY <2>1, <2>2
<1> HIDE DEF B
<1>2. B \in SUBSET SUBSET S
  BY DEF B
<1>3. S \in B
  BY <1>1, <1>2, SubsetInduction
<1> QED BY <1>3 DEF B

\* Any element may be taken out of a sum.
THEOREM SumWithout ==
    ASSUME NEW S, IsFiniteSet(S), NEW f, \A x \in S : f[x] \in Int, NEW a \in S
    PROVE  Over(S, f) = f[a] + Over(S \ {a}, f)
<1> DEFINE B == {T \in SUBSET S : \A x \in T : Over(T, f) = f[x] + Over(T \ {x}, f)}
<1>1. ASSUME NEW T \in SUBSET S, \A U \in SUBSET T : U # T => U \in B
      PROVE  T \in B
  <2> SUFFICES ASSUME NEW x \in T PROVE Over(T, f) = f[x] + Over(T \ {x}, f)
    OBVIOUS
  <2> DEFINE c == Pick(T)
  <2>1. c \in T /\ IsFiniteSet(T) /\ Over(T, f) = f[c] + Over(T \ {c}, f)
    BY PickIsIn, FS_Subset, SumStep
  <2>2. CASE c = x
    BY <2>1, <2>2
  <2>3. CASE c # x
    <3> HIDE DEF c
    <3>1. T \ {c} \in B /\ T \ {x} \in B /\ x \in T \ {c} /\ c \in T \ {x}
      BY <1>1, <2>1, <2>3
    <3>2. Over(T \ {c}, f) = f[x] + Over((T \ {c}) \ {x}, f)
      BY <3>1
    <3>3. Over(T \ {x}, f) = f[c] + Over((T \ {x}) \ {c}, f)
      BY <3>1
    <3>4. (T \ {c}) \ {x} = (T \ {x}) \ {c}
      OBVIOUS
    <3>5. f[x] \in Int /\ f[c] \in Int /\ Over((T \ {x}) \ {c}, f) \in Int
      <4>1. IsFiniteSet((T \ {x}) \ {c})
        BY <2>1, FS_Subset
      <4> QED BY <2>1, <4>1, SumIsNumber
    <3> DEFINE r == Over((T \ {x}) \ {c}, f)
               u == Over(T \ {c}, f)
               v == Over(T \ {x}, f)
    <3>6. u = f[x] + r /\ v = f[c] + r /\ r \in Int /\ Over(T, f) = f[c] + u
      BY <2>1, <3>2, <3>3, <3>4, <3>5
    <3> HIDE DEF r, u, v
    <3>7. Over(T, f) = f[x] + v
      BY <3>5, <3>6
    <3> QED BY <3>7 DEF v
  <2> QED BY <2>2, <2>3
<1> HIDE DEF B
<1>2. B \in SUBSET SUBSET S
  BY DEF B
<1>3. S \in B
  BY <1>1, <1>2, SubsetInduction
<1> QED BY <1>3 DEF B

\* A new row adds what it is worth.
THEOREM SumWith ==
    ASSUME NEW S, IsFiniteSet(S), NEW f, \A x \in S : f[x] \in Int,
           NEW a, a \notin S, f[a] \in Int
    PROVE  Over(S \cup {a}, f) = f[a] + Over(S, f)
<1>1. IsFiniteSet(S \cup {a}) /\ \A x \in S \cup {a} : f[x] \in Int
  BY FS_AddElement
<1>2. (S \cup {a}) \ {a} = S
  OBVIOUS
<1>3. Over(S \cup {a}, f) = f[a] + Over((S \cup {a}) \ {a}, f)
  BY <1>1, SumWithout
<1> QED BY <1>2, <1>3

\* A sum depends on nothing but the rows it is taken over.
THEOREM SumsAgree ==
    ASSUME NEW S, IsFiniteSet(S), NEW f, NEW g, \A x \in S : f[x] = g[x]
    PROVE  Over(S, f) = Over(S, g)
<1> DEFINE B == {T \in SUBSET S : Over(T, f) = Over(T, g)}
<1>1. ASSUME NEW T \in SUBSET S, \A U \in SUBSET T : U # T => U \in B
      PROVE  T \in B
  <2>1. CASE T = {}
    BY <2>1, SumOfNothing
  <2>2. CASE T # {}
    <3>1. Pick(T) \in T /\ IsFiniteSet(T)
      BY <2>2, PickIsIn, FS_Subset
    <3>2. Over(T \ {Pick(T)}, f) = Over(T \ {Pick(T)}, g)
      BY <1>1, <3>1
    <3>3. /\ Over(T, f) = f[Pick(T)] + Over(T \ {Pick(T)}, f)
          /\ Over(T, g) = g[Pick(T)] + Over(T \ {Pick(T)}, g)
      BY <2>2, <3>1, SumStep
    <3>4. f[Pick(T)] = g[Pick(T)]
      BY <3>1
    <3> QED BY <3>2, <3>3, <3>4
  <2> QED BY <2>1, <2>2
<1> HIDE DEF B
<1>2. B \in SUBSET SUBSET S
  BY DEF B
<1>3. S \in B
  BY <1>1, <1>2, SubsetInduction
<1> QED BY <1>3 DEF B

\* What is no greater row by row is no greater in all.
THEOREM SumsCompare ==
    ASSUME NEW S, IsFiniteSet(S), NEW f, NEW g,
           \A x \in S : f[x] \in Int /\ g[x] \in Int /\ f[x] <= g[x]
    PROVE  Over(S, f) <= Over(S, g)
<1> DEFINE B == {T \in SUBSET S : Over(T, f) <= Over(T, g)}
<1>1. ASSUME NEW T \in SUBSET S, \A U \in SUBSET T : U # T => U \in B
      PROVE  T \in B
  <2>1. CASE T = {}
    <3>1. Over(T, f) = 0 /\ Over(T, g) = 0
      BY <2>1, SumOfNothing
    <3> QED BY <3>1
  <2>2. CASE T # {}
    <3> DEFINE c == Pick(T)
               u == Over(T \ {c}, f)
               v == Over(T \ {c}, g)
    <3>1. c \in T /\ IsFiniteSet(T) /\ IsFiniteSet(T \ {c})
      BY <2>2, PickIsIn, FS_Subset
    <3>2. u <= v
      BY <1>1, <3>1
    <3>3. Over(T, f) = f[c] + u /\ Over(T, g) = g[c] + v
      BY <2>2, <3>1, SumStep
    <3>4. u \in Int /\ v \in Int
      BY <3>1, SumIsNumber
    <3>5. f[c] \in Int /\ g[c] \in Int /\ f[c] <= g[c]
      BY <3>1
    <3> HIDE DEF c, u, v
    <3>6. f[c] + u <= g[c] + v
      BY <3>2, <3>4, <3>5
    <3> QED BY <3>3, <3>6
  <2> QED BY <2>1, <2>2
<1> HIDE DEF B
<1>2. B \in SUBSET SUBSET S
  BY DEF B
<1>3. S \in B
  BY <1>1, <1>2, SubsetInduction
<1> QED BY <1>3 DEF B

\* Amounts that are not negative add up to one that is not.
THEOREM SumIsNat ==
    ASSUME NEW S, IsFiniteSet(S), NEW f, \A x \in S : f[x] \in Nat
    PROVE  Over(S, f) \in Nat
<1> DEFINE B == {T \in SUBSET S : Over(T, f) \in Nat}
<1>1. ASSUME NEW T \in SUBSET S, \A U \in SUBSET T : U # T => U \in B
      PROVE  T \in B
  <2>1. CASE T = {}
    BY <2>1, SumOfNothing
  <2>2. CASE T # {}
    <3> DEFINE c == Pick(T)
               u == Over(T \ {c}, f)
    <3>1. c \in T /\ IsFiniteSet(T)
      BY <2>2, PickIsIn, FS_Subset
    <3>2. u \in Nat /\ f[c] \in Nat
      BY <1>1, <3>1
    <3>3. Over(T, f) = f[c] + u
      BY <2>2, <3>1, SumStep
    <3> HIDE DEF c, u
    <3>4. f[c] + u \in Nat
      BY <3>2
    <3> QED BY <3>3, <3>4
  <2> QED BY <2>1, <2>2
<1> HIDE DEF B
<1>2. B \in SUBSET SUBSET S
  BY DEF B
<1>3. S \in B
  BY <1>1, <1>2, SubsetInduction
<1> QED BY <1>3 DEF B

\* Fewer rows add up to no more.
THEOREM SumOfPart ==
    ASSUME NEW S, IsFiniteSet(S), NEW f, \A x \in S : f[x] \in Nat, NEW P \in SUBSET S
    PROVE  Over(P, f) <= Over(S, f)
<1> DEFINE B == {T \in SUBSET S : \A U \in SUBSET T : Over(U, f) <= Over(T, f)}
<1>1. ASSUME NEW T \in SUBSET S, \A V \in SUBSET T : V # T => V \in B
      PROVE  T \in B
  <2> SUFFICES ASSUME NEW U \in SUBSET T, U # T PROVE Over(U, f) <= Over(T, f)
    <3>1. IsFiniteSet(T) /\ \A x \in T : f[x] \in Nat
      BY FS_Subset
    <3>2. Over(T, f) \in Int
      BY <3>1, SumIsNat
    <3>3. Over(T, f) <= Over(T, f)
      BY <3>2
    <3> QED BY <3>3
  <2>1. PICK c \in T : c \notin U
    OBVIOUS
  <2> DEFINE R == T \ {c}
             u == Over(U, f)
             r == Over(R, f)
  <2>2. IsFiniteSet(T) /\ IsFiniteSet(R) /\ IsFiniteSet(U)
    <3>1. T \subseteq S /\ R \subseteq S /\ U \subseteq S
      OBVIOUS
    <3> QED BY <3>1, FS_Subset
  <2>3. u <= r
    <3>1. R \in B /\ U \in SUBSET R
      BY <1>1, <2>1
    <3> QED BY <3>1
  <2>4. Over(T, f) = f[c] + r
    BY <2>2, SumWithout
  <2>5. u \in Int /\ r \in Int /\ f[c] \in Nat
    BY <2>2, SumIsNat
  <2> HIDE DEF R, u, r
  <2>6. u <= f[c] + r
    BY <2>3, <2>5
  <2> QED BY <2>4, <2>6 DEF u
<1> HIDE DEF B
<1>2. B \in SUBSET SUBSET S
  BY DEF B
<1>3. S \in B
  BY <1>1, <1>2, SubsetInduction
<1> QED BY <1>3 DEF B

\* One row that changes moves the sum by its own change.
THEOREM SumChanged ==
    ASSUME NEW S, IsFiniteSet(S), NEW f, NEW g, \A x \in S : f[x] \in Int,
           NEW a \in S, g[a] \in Int, \A x \in S \ {a} : g[x] = f[x]
    PROVE  Over(S, g) = Over(S, f) - f[a] + g[a]
<1> DEFINE T == S \ {a}
<1>1. IsFiniteSet(T) /\ \A x \in T : f[x] \in Int
  BY FS_Subset
<1>2. \A x \in S : g[x] \in Int
  OBVIOUS
<1>3. Over(S, f) = f[a] + Over(T, f) /\ Over(S, g) = g[a] + Over(T, g)
  BY <1>2, SumWithout
<1>4. Over(T, g) = Over(T, f)
  <2>1. \A x \in T : g[x] = f[x]
    OBVIOUS
  <2> HIDE DEF T
  <2> QED BY <1>1, <2>1, SumsAgree
<1>5. Over(T, f) \in Int /\ f[a] \in Int
  BY <1>1, SumIsNumber
<1> DEFINE u == Over(T, f)
<1>6. Over(S, f) = f[a] + u /\ Over(S, g) = g[a] + u /\ u \in Int /\ f[a] \in Int
  BY <1>3, <1>4, <1>5
<1> HIDE DEF u
<1> QED BY <1>6

\* Rows that count for nothing add up to nothing.
THEOREM SumOfZeros ==
    ASSUME NEW S, IsFiniteSet(S), NEW f, \A x \in S : f[x] = 0
    PROVE  Over(S, f) = 0
<1> DEFINE B == {T \in SUBSET S : Over(T, f) = 0}
<1>1. ASSUME NEW T \in SUBSET S, \A U \in SUBSET T : U # T => U \in B
      PROVE  T \in B
  <2>1. CASE T = {}
    BY <2>1, SumOfNothing
  <2>2. CASE T # {}
    <3>1. Pick(T) \in T /\ IsFiniteSet(T)
      BY <2>2, PickIsIn, FS_Subset
    <3>2. Over(T \ {Pick(T)}, f) = 0 /\ f[Pick(T)] = 0
      BY <1>1, <3>1
    <3>3. Over(T, f) = f[Pick(T)] + Over(T \ {Pick(T)}, f)
      BY <2>2, <3>1, SumStep
    <3> QED BY <3>2, <3>3
  <2> QED BY <2>1, <2>2
<1> HIDE DEF B
<1>2. B \in SUBSET SUBSET S
  BY DEF B
<1>3. S \in B
  BY <1>1, <1>2, SubsetInduction
<1> QED BY <1>3 DEF B

\* Rows of which only those of P count, and none for more than b, add up to no
\* more than b for each of them.
THEOREM SumIsBounded ==
    ASSUME NEW S, IsFiniteSet(S), NEW f, NEW b \in Nat, NEW P \in SUBSET S,
           \A x \in S : f[x] \in Int /\ f[x] <= b /\ (x \notin P => f[x] <= 0)
    PROVE  Over(S, f) <= b * Cardinality(P)
<1> DEFINE B == {T \in SUBSET S : Over(T, f) <= b * Cardinality(P \cap T)}
<1>1. ASSUME NEW T \in SUBSET S, \A U \in SUBSET T : U # T => U \in B
      PROVE  T \in B
  <2>1. CASE T = {}
    <3>1. Over(T, f) = 0 /\ Cardinality(P \cap T) = 0
      BY <2>1, SumOfNothing, FS_EmptySet
    <3> QED BY <3>1
  <2>2. CASE T # {}
    <3> DEFINE c == Pick(T)
               R == T \ {c}
               u == Over(R, f)
               n == Cardinality(P \cap R)
               m == Cardinality(P \cap T)
    <3>1. c \in T /\ IsFiniteSet(T)
      BY <2>2, PickIsIn, FS_Subset
    <3>2. IsFiniteSet(R) /\ IsFiniteSet(P \cap R) /\ \A x \in R : f[x] \in Int
      <4>1. R \in SUBSET S /\ P \cap R \in SUBSET S
        OBVIOUS
      <4> QED BY <4>1, FS_Subset
    <3>3. u <= b * n
      BY <1>1, <3>1
    <3>4. Over(T, f) = f[c] + u
      BY <2>2, <3>1, SumStep
    <3>5. u \in Int /\ n \in Nat /\ f[c] \in Int /\ f[c] <= b
      BY <3>1, <3>2, SumIsNumber, FS_CardinalityType
    <3>6. m = IF c \in P THEN n + 1 ELSE n
      <4>1. CASE c \in P
        <5>1. P \cap T = (P \cap R) \cup {c} /\ c \notin P \cap R
          BY <3>1, <4>1
        <5> HIDE DEF c, R
        <5> QED BY <3>2, <4>1, <5>1, FS_AddElement
      <4>2. CASE c \notin P
        <5>1. P \cap T = P \cap R
          BY <4>2
        <5> QED BY <4>2, <5>1
      <4> QED BY <4>1, <4>2
    <3>7. c \notin P => f[c] <= 0
      BY <3>1
    <3> HIDE DEF c, R, u, n, m
    <3>8. f[c] + u <= b * m
      <4>1. b * (n + 1) = b * n + b /\ b * n \in Nat
        BY <3>5
      <4>2. CASE c \in P
        <5>1. b * m = b * n + b
          BY <3>6, <4>1, <4>2
        <5> HIDE <3>6
        <5> DEFINE w == b * n
        <5>2. w \in Int /\ u <= w /\ b * m = w + b
          BY <3>3, <4>1, <5>1
        <5> HIDE DEF w
        <5>3. f[c] + u <= w + b
          BY <3>5, <5>2
        <5> QED BY <5>2, <5>3
      <4>3. CASE c \notin P
        <5> DEFINE w == b * n
        <5>1. w \in Int /\ u <= w /\ b * m = w
          BY <3>3, <3>6, <4>1, <4>3
        <5> HIDE DEF w
        <5>2. f[c] + u <= w
          BY <3>5, <3>7, <4>3, <5>1
        <5> QED BY <5>1, <5>2
      <4> QED BY <4>2, <4>3
    <3> QED BY <3>4, <3>8 DEF m
  <2> QED BY <2>1, <2>2
<1> HIDE DEF B
<1>2. B \in SUBSET SUBSET S
  BY DEF B
<1>3. S \in B
  BY <1>1, <1>2, SubsetInduction
<1>4. P \cap S = P
  OBVIOUS
<1> QED BY <1>3, <1>4 DEF B

\* Rows that count for nothing may be left out.
THEOREM SumOfThoseThatCount ==
    ASSUME NEW S, IsFiniteSet(S), NEW f, NEW P \in SUBSET S,
           \A x \in S : f[x] \in Int /\ (x \notin P => f[x] = 0)
    PROVE  Over(S, f) = Over(P, f)
<1> DEFINE B == {T \in SUBSET S : Over(T, f) = Over(P \cap T, f)}
<1>1. ASSUME NEW T \in SUBSET S, \A U \in SUBSET T : U # T => U \in B
      PROVE  T \in B
  <2>1. CASE T = {}
    <3>1. P \cap T = T
      BY <2>1
    <3> QED BY <3>1
  <2>2. CASE T # {}
    <3> DEFINE c == Pick(T)
               R == T \ {c}
               u == Over(P \cap R, f)
    <3>1. c \in T /\ IsFiniteSet(T)
      BY <2>2, PickIsIn, FS_Subset
    <3>2. Over(R, f) = u
      BY <1>1, <3>1
    <3>3. Over(T, f) = f[c] + Over(R, f)
      BY <2>2, <3>1, SumStep
    <3>4. IsFiniteSet(P \cap R) /\ (\A x \in P \cap R : f[x] \in Int) /\ f[c] \in Int
      <4>1. P \cap R \in SUBSET S
        OBVIOUS
      <4> QED BY <3>1, <4>1, FS_Subset
    <3>5. u \in Int
      BY <3>4, SumIsNumber
    <3>6. Over(P \cap T, f) = f[c] + u
      <4>1. CASE c \in P
        <5>1. P \cap T = (P \cap R) \cup {c} /\ c \notin P \cap R
          BY <3>1, <4>1
        <5> HIDE DEF c, R
        <5> QED BY <3>4, <5>1, SumWith
      <4>2. CASE c \notin P
        <5>1. P \cap T = P \cap R /\ f[c] = 0
          BY <3>1, <4>2
        <5> HIDE DEF c, R
        <5>2. Over(P \cap T, f) = u
          BY <5>1
        <5> HIDE DEF u
        <5> QED BY <3>5, <5>1, <5>2
      <4> QED BY <4>1, <4>2
    <3> QED BY <3>2, <3>3, <3>6
  <2> QED BY <2>1, <2>2
<1> HIDE DEF B
<1>2. B \in SUBSET SUBSET S
  BY DEF B
<1>3. S \in B
  BY <1>1, <1>2, SubsetInduction
<1>4. P \cap S = P
  OBVIOUS
<1> QED BY <1>3, <1>4 DEF B

\* Two columns may be added up row by row.
THEOREM SumOfSums ==
    ASSUME NEW S, IsFiniteSet(S), NEW f, NEW g, NEW h,
           \A x \in S : f[x] \in Int /\ g[x] \in Int /\ h[x] = f[x] + g[x]
    PROVE  Over(S, h) = Over(S, f) + Over(S, g)
<1> DEFINE B == {T \in SUBSET S : Over(T, h) = Over(T, f) + Over(T, g)}
<1>1. ASSUME NEW T \in SUBSET S, \A U \in SUBSET T : U # T => U \in B
      PROVE  T \in B
  <2>1. CASE T = {}
    <3>1. Over(T, f) = 0 /\ Over(T, g) = 0 /\ Over(T, h) = 0
      BY <2>1, SumOfNothing
    <3> QED BY <3>1
  <2>2. CASE T # {}
    <3> DEFINE c == Pick(T)
               u == Over(T \ {c}, f)
               v == Over(T \ {c}, g)
               w == Over(T \ {c}, h)
    <3>1. c \in T /\ IsFiniteSet(T) /\ IsFiniteSet(T \ {c})
      BY <2>2, PickIsIn, FS_Subset
    <3>2. w = u + v
      BY <1>1, <3>1
    <3>3. Over(T, f) = f[c] + u /\ Over(T, g) = g[c] + v /\ Over(T, h) = h[c] + w
      BY <2>2, <3>1, SumStep
    <3>4. u \in Int /\ v \in Int
      BY <3>1, SumIsNumber
    <3>5. f[c] \in Int /\ g[c] \in Int /\ h[c] = f[c] + g[c]
      BY <3>1
    <3> HIDE DEF c, u, v, w
    <3>6. h[c] + w = (f[c] + u) + (g[c] + v)
      BY <3>2, <3>4, <3>5
    <3> QED BY <3>3, <3>6
  <2> QED BY <2>1, <2>2
<1> HIDE DEF B
<1>2. B \in SUBSET SUBSET S
  BY DEF B
<1>3. S \in B
  BY <1>1, <1>2, SubsetInduction
<1> QED BY <1>3 DEF B
=============================================================================
