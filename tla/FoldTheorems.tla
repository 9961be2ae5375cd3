----------------------------- MODULE FoldTheorems -----------------------------
(***************************************************************************)
(* What folds over finite sets compute.  The modules of the project sum the   *)
(* quantities of sets of tokens, delete sets of tokens from a vault and so on  *)
(* with the folds of the community modules, which choose a recursive function. *)
(* That it exists, and that it does not depend on the order in which elements  *)
(* are taken, is proved here, by induction over the cardinality of the set.    *)
(*                                                                          *)
(* Inductions are stated with a set P of the values that have the property,    *)
(* not with an operator, so that a proof may cite them.                      *)
(***************************************************************************)
EXTENDS FiniteSetsExt, Functions, Folds, Integers, FiniteSetTheorems, TLAPS

\* Induction over the natural numbers.
LEMMA NatSetInduction ==
    ASSUME NEW P, 0 \in P, \A n \in Nat : n \in P => n + 1 \in P
    PROVE  Nat \subseteq P
  <1> DEFINE T == Nat \ P
             R == OpToRel(<, Nat)
  <1>1. SUFFICES ASSUME T # {} PROVE FALSE
    OBVIOUS
  <1>2. IsWellFoundedOn(R, Nat)
    BY NatLessThanWellFounded
  <1> HIDE DEF R
  <1>3. PICK x \in T : \A y \in T : ~(<<y, x>> \in R)
    BY <1>1, <1>2, WFMin
  <1>4. x # 0 /\ x - 1 \in Nat /\ x - 1 < x
    BY <1>3
  <1>5. x - 1 \notin P
    BY <1>3, <1>4
  <1>6. <<x - 1, x>> \in R
    BY <1>4 DEF R, OpToRel
  <1> QED
    BY <1>3, <1>4, <1>5, <1>6

\* Induction over the subsets of a finite set, by cardinality.
LEMMA SetInduction ==
    ASSUME NEW S, IsFiniteSet(S), NEW P,
           \A T \in SUBSET S : (\A x \in T : T \ {x} \in P) => T \in P
    PROVE  SUBSET S \subseteq P
  <1> DEFINE Small == {n \in Nat : \A T \in SUBSET S : Cardinality(T) <= n => T \in P}
  <1>1. \A T \in SUBSET S : IsFiniteSet(T) /\ Cardinality(T) \in Nat
    BY FS_Subset, FS_CardinalityType
  <1>2. \A T \in SUBSET S : \A x \in T : Cardinality(T \ {x}) = Cardinality(T) - 1
    BY <1>1, FS_RemoveElement
  <1>3. 0 \in Small
    <2>1. \A T \in SUBSET S : Cardinality(T) <= 0 => T = {}
      BY <1>1, FS_EmptySet
    <2> QED
      BY <2>1
  <1>4. ASSUME NEW n \in Nat, n \in Small
        PROVE  n + 1 \in Small
    <2>1. ASSUME NEW T \in SUBSET S, Cardinality(T) <= n + 1
          PROVE  T \in P
      <3>1. ASSUME NEW x \in T
            PROVE  T \ {x} \in P
        <4>1. Cardinality(T \ {x}) <= n
          BY <1>1, <1>2, <2>1
        <4> QED
          BY <1>4, <4>1
      <3> QED
        BY <3>1
    <2> QED
      BY <2>1
  <1> HIDE DEF Small
  <1>5. Nat \subseteq Small
    BY <1>3, <1>4, NatSetInduction
  <1>6. ASSUME NEW T \in SUBSET S
        PROVE  T \in P
    <2>1. Cardinality(T) \in Small
      BY <1>1, <1>5
    <2> QED
      BY <1>1, <2>1 DEF Small
  <1> QED
    BY <1>6

-----------------------------------------------------------------------------
\* f computes a fold over each subset of S: c[T] is the element of T it takes
\* first, F[<<x, y>>] what it makes of an element x and of the result y of the rest.
IsFold(f, S, c, F, base) ==
    \A T \in SUBSET S : f[T] = IF T = {} THEN base ELSE F[<<c[T], f[T \ {c[T]}]>>]

Chooses(c, S) == \A T \in SUBSET S : T # {} => c[T] \in T

\* There is a function that computes a fold, in whatever order it takes elements.
LEMMA FoldExists ==
    ASSUME NEW S, IsFiniteSet(S), NEW B, NEW base \in B, NEW c, Chooses(c, S),
           NEW F \in [S \X B -> B]
    PROVE  \E f \in [SUBSET S -> B] : IsFold(f, S, c, F, base)
  <1> DEFINE Rec(f, T) == IF T = {} THEN base ELSE F[<<c[T], f[T \ {c[T]}]>>]
             Upto(f, n) == \A T \in SUBSET S : Cardinality(T) <= n => f[T] = Rec(f, T)
             P == {n \in Nat : \E f \in [SUBSET S -> B] : Upto(f, n)}
  <1>1. \A T \in SUBSET S : IsFiniteSet(T) /\ Cardinality(T) \in Nat
    BY FS_Subset, FS_CardinalityType
  <1>2. \A T \in SUBSET S : T # {} =>
            c[T] \in T /\ c[T] \in S /\ T \ {c[T]} \in SUBSET S
                /\ Cardinality(T \ {c[T]}) = Cardinality(T) - 1
    BY <1>1, FS_RemoveElement DEF Chooses
  <1>3. \A f \in [SUBSET S -> B] : \A T \in SUBSET S : Rec(f, T) \in B
    BY <1>2
  <1>4. 0 \in P
    <2> DEFINE f == [T \in SUBSET S |-> base]
    <2>1. \A T \in SUBSET S : Cardinality(T) <= 0 => T = {}
      BY <1>1, FS_EmptySet
    <2>2. f \in [SUBSET S -> B] /\ Upto(f, 0)
      BY <2>1
    <2> QED
      BY <2>2
  <1>5. ASSUME NEW n \in Nat, n \in P
        PROVE  n + 1 \in P
    <2>1. PICK f \in [SUBSET S -> B] : Upto(f, n)
      BY <1>5
    <2> DEFINE g == [T \in SUBSET S |-> Rec(f, T)]
    <2>2. g \in [SUBSET S -> B]
      BY <1>3
    <2>3. \A T \in SUBSET S : Cardinality(T) <= n => g[T] = f[T]
      BY <2>1
    <2>4. ASSUME NEW T \in SUBSET S, Cardinality(T) <= n + 1
          PROVE  g[T] = Rec(g, T)
      <3>1. CASE T = {}
        BY <3>1
      <3>2. CASE T # {}
        <4>1. Cardinality(T \ {c[T]}) <= n
          BY <1>1, <1>2, <2>4, <3>2
        <4>2. g[T \ {c[T]}] = f[T \ {c[T]}]
          BY <1>2, <2>3, <3>2, <4>1
        <4> QED
          BY <3>2, <4>2
      <3> QED
        BY <3>1, <3>2
    <2>5. Upto(g, n + 1)
      BY <2>4
    <2> HIDE DEF g, Upto
    <2> QED
      BY <2>2, <2>5
  <1>6. Nat \subseteq P
    <2> HIDE DEF P
    <2> QED
      BY <1>4, <1>5, NatSetInduction
  <1>7. PICK f \in [SUBSET S -> B] : Upto(f, Cardinality(S))
    BY <1>1, <1>6
  <1>8. \A T \in SUBSET S : Cardinality(T) <= Cardinality(S)
    BY FS_Subset
  <1> QED
    BY <1>7, <1>8 DEF IsFold

\* Folds over different sets agree on the subsets they share.
LEMMA FoldsAgree ==
    ASSUME NEW S, IsFiniteSet(S), NEW c, NEW d, NEW F, NEW G, NEW base, NEW f, NEW g,
           IsFold(f, S, c, F, base), IsFold(g, S, d, G, base), Chooses(c, S),
           \A T \in SUBSET S : T # {} => d[T] = c[T] /\ G[<<c[T], g[T \ {c[T]}]>>] = F[<<c[T], g[T \ {c[T]}]>>]
    PROVE  \A T \in SUBSET S : f[T] = g[T]
  <1> DEFINE P == {T \in SUBSET S : f[T] = g[T]}
  <1>1. ASSUME NEW T \in SUBSET S, \A x \in T : T \ {x} \in P
        PROVE  T \in P
    <2>1. CASE T = {}
      BY <2>1 DEF IsFold
    <2>2. CASE T # {}
      <3>1. f[T \ {c[T]}] = g[T \ {c[T]}]
        BY <1>1, <2>2 DEF Chooses
      <3> QED
        BY <2>2, <3>1, ZenonT(60) DEF IsFold
    <2> QED
      BY <2>1, <2>2
  <1> HIDE DEF P
  <1>2. SUBSET S \subseteq P
    BY <1>1, SetInduction
  <1> QED
    BY <1>2 DEF P

-----------------------------------------------------------------------------
\* Sums of the values a function has on a finite set.  The element a sum takes
\* first is some element.
Some(T) == CHOOSE x \in T : TRUE

IsSum(f, fun, S) ==
    \A T \in SUBSET S : f[T] = IF T = {} THEN 0 ELSE fun[Some(T)] + f[T \ {Some(T)}]

\* A set that has elements has some element.
LEMMA SomeElement == \A T : T # {} => Some(T) \in T
  BY DEF Some

\* There is a function that computes sums.
LEMMA SumExists ==
    ASSUME NEW S, IsFiniteSet(S), NEW fun, \A x \in S : fun[x] \in Int
    PROVE  \E f \in [SUBSET S -> Int] : IsSum(f, fun, S)
  <1> DEFINE c == [T \in SUBSET S |-> Some(T)]
             F == [p \in S \X Int |-> fun[p[1]] + p[2]]
  <1>1. Chooses(c, S)
    BY SomeElement DEF Chooses
  <1>2. F \in [S \X Int -> Int]
    OBVIOUS
  <1>3. \A x \in S : \A n \in Int : F[<<x, n>>] = fun[x] + n
    OBVIOUS
  <1>4. \A T \in SUBSET S : c[T] = Some(T)
    OBVIOUS
  <1> HIDE DEF c, F
  <1>5. PICK f \in [SUBSET S -> Int] : IsFold(f, S, c, F, 0)
    <2>1. 0 \in Int
      OBVIOUS
    <2> QED
      BY <1>1, <1>2, <2>1, FoldExists, Zenon
  <1>6. ASSUME NEW T \in SUBSET S
        PROVE  f[T] = IF T = {} THEN 0 ELSE fun[Some(T)] + f[T \ {Some(T)}]
    <2>1. T # {} => Some(T) \in S /\ f[T \ {Some(T)}] \in Int
      BY SomeElement
    <2> QED
      BY <1>3, <1>4, <1>5, <2>1 DEF IsFold
  <1> QED
    BY <1>6 DEF IsSum

\* Functions that compute the sums of equal values agree, over different sets too.
LEMMA SumsAgree ==
    ASSUME NEW S, IsFiniteSet(S), NEW fun, NEW gun, \A x \in S : fun[x] = gun[x],
           NEW f, NEW g, IsSum(f, fun, S), IsSum(g, gun, S)
    PROVE  \A T \in SUBSET S : f[T] = g[T]
  <1> DEFINE P == {T \in SUBSET S : f[T] = g[T]}
  <1>1. ASSUME NEW T \in SUBSET S, \A x \in T : T \ {x} \in P
        PROVE  T \in P
    BY <1>1, SomeElement, ZenonT(60) DEF IsSum
  <1> HIDE DEF P
  <1>2. SUBSET S \subseteq P
    BY <1>1, SetInduction
  <1> QED
    BY <1>2 DEF P

\* The sum of the community modules is such a function at the set.
LEMMA SumIsSum ==
    ASSUME NEW S, IsFiniteSet(S), NEW fun, \A x \in S : fun[x] \in Int
    PROVE  \E f \in [SUBSET S -> Int] : IsSum(f, fun, S) /\ SumFunctionOnSet(fun, S) = f[S]
  <1> DEFINE Rec(f) == [s \in SUBSET S |-> IF s = {} THEN 0 ELSE fun[Some(s)] + f[s \ {Some(s)}]]
             iter == CHOOSE f : f = Rec(f)
  <1>1. PICK f \in [SUBSET S -> Int] : IsSum(f, fun, S)
    BY SumExists
  <1>2. f = Rec(f)
    BY <1>1 DEF IsSum
  <1>3. iter = Rec(iter)
    BY <1>2
  <1>4. IsSum(iter, fun, S)
    <2> HIDE DEF iter
    <2> QED
      BY <1>3 DEF IsSum
  <1>5. SumFunctionOnSet(fun, S) = iter[S]
    BY DEF SumFunctionOnSet, FoldFunctionOnSet, MapThenFoldSet, Some
  <1>6. iter[S] = f[S]
    <2> HIDE DEF iter
    <2> QED
      BY <1>1, <1>4, SumsAgree
  <1> QED
    BY <1>1, <1>5, <1>6

-----------------------------------------------------------------------------
\* What sums are worth.

\* Sums of integers are integers.
LEMMA SumType ==
    ASSUME NEW S, IsFiniteSet(S), NEW fun, \A x \in S : fun[x] \in Int
    PROVE  SumFunctionOnSet(fun, S) \in Int
  <1>1. PICK f \in [SUBSET S -> Int] : SumFunctionOnSet(fun, S) = f[S]
    BY SumIsSum
  <1> QED
    BY <1>1

\* The sum over no elements.
LEMMA SumOfNothing ==
    ASSUME NEW fun
    PROVE  SumFunctionOnSet(fun, {}) = 0
  <1>1. IsFiniteSet({})
    BY FS_EmptySet
  <1> QED
    BY <1>1, SumIsSum DEF IsSum

\* A sum takes some element first, ...
LEMMA SumUnfold ==
    ASSUME NEW S, IsFiniteSet(S), S # {}, NEW fun, \A x \in S : fun[x] \in Int
    PROVE  SumFunctionOnSet(fun, S) =
               fun[Some(S)] + SumFunctionOnSet(fun, S \ {Some(S)})
  <1> DEFINE T == S \ {Some(S)}
  <1>1. PICK f \in [SUBSET S -> Int] : IsSum(f, fun, S) /\ SumFunctionOnSet(fun, S) = f[S]
    BY SumIsSum
  <1>2. IsFiniteSet(T)
    BY FS_Subset
  <1>3. PICK g \in [SUBSET T -> Int] : IsSum(g, fun, T) /\ SumFunctionOnSet(fun, T) = g[T]
    BY <1>2, SumIsSum
  <1>4. IsSum(f, fun, T)
    BY <1>1 DEF IsSum
  <1>5. f[T] = g[T]
    BY <1>2, <1>3, <1>4, SumsAgree
  <1> QED
    BY <1>1, <1>3, <1>5 DEF IsSum

\* ... but it might as well take any other.
LEMMA SumTakes ==
    ASSUME NEW S, IsFiniteSet(S), NEW fun, \A x \in S : fun[x] \in Int
    PROVE  \A x \in S : SumFunctionOnSet(fun, S) = fun[x] + SumFunctionOnSet(fun, S \ {x})
  <1> DEFINE Q(T) == \A x \in T : SumFunctionOnSet(fun, T) = fun[x] + SumFunctionOnSet(fun, T \ {x})
             P == {T \in SUBSET S : Q(T)}
  <1>1. \A T \in SUBSET S : IsFiniteSet(T) /\ SumFunctionOnSet(fun, T) \in Int
    BY FS_Subset, SumType
  <1>2. ASSUME NEW T \in SUBSET S, \A x \in T : T \ {x} \in P
        PROVE  T \in P
    <2>1. ASSUME NEW x \in T
          PROVE  SumFunctionOnSet(fun, T) = fun[x] + SumFunctionOnSet(fun, T \ {x})
      <3> DEFINE y == Some(T)
      <3>1. y \in T
        BY SomeElement
      <3>2. SumFunctionOnSet(fun, T) = fun[y] + SumFunctionOnSet(fun, T \ {y})
        BY <1>1, SumUnfold
      <3> HIDE DEF y
      <3>3. CASE x = y
        BY <3>2, <3>3
      <3>4. CASE x # y
        <4> DEFINE n == SumFunctionOnSet(fun, (T \ {x}) \ {y})
        <4>1. (T \ {y}) \ {x} = (T \ {x}) \ {y}
          OBVIOUS
        <4>2. SumFunctionOnSet(fun, T \ {y}) = fun[x] + n
          BY <1>2, <3>1, <3>4, <4>1
        <4>3. SumFunctionOnSet(fun, T \ {x}) = fun[y] + n
          BY <1>2, <3>1, <3>4
        <4>4. n \in Int /\ fun[x] \in Int /\ fun[y] \in Int
          BY <1>1, <3>1
        <4> HIDE DEF n
        <4>5. fun[y] + (fun[x] + n) = fun[x] + (fun[y] + n)
          BY <4>4
        <4> QED
          BY <3>2, <4>2, <4>3, <4>5
      <3> QED
        BY <3>3, <3>4
    <2> QED
      BY <2>1
  <1> HIDE DEF P
  <1>3. S \in P
    BY <1>2, SetInduction
  <1> QED
    BY <1>3 DEF P

\* The sum over a set and one more element.
LEMMA SumAdd ==
    ASSUME NEW S, IsFiniteSet(S), NEW x, x \notin S, NEW fun,
           \A y \in S \cup {x} : fun[y] \in Int
    PROVE  SumFunctionOnSet(fun, S \cup {x}) = fun[x] + SumFunctionOnSet(fun, S)
  <1> DEFINE T == S \cup {x}
  <1>1. IsFiniteSet(T)
    BY FS_AddElement
  <1>2. T \ {x} = S
    OBVIOUS
  <1>3. SumFunctionOnSet(fun, T) = fun[x] + SumFunctionOnSet(fun, T \ {x})
    BY <1>1, SumTakes
  <1> QED
    BY <1>2, <1>3

\* Sums of equal values are equal.
LEMMA SumEqual ==
    ASSUME NEW S, IsFiniteSet(S), NEW fun, NEW gun,
           \A x \in S : fun[x] \in Int /\ gun[x] = fun[x]
    PROVE  SumFunctionOnSet(fun, S) = SumFunctionOnSet(gun, S)
  <1>1. PICK f \in [SUBSET S -> Int] : IsSum(f, fun, S) /\ SumFunctionOnSet(fun, S) = f[S]
    BY SumIsSum
  <1>2. PICK g \in [SUBSET S -> Int] : IsSum(g, gun, S) /\ SumFunctionOnSet(gun, S) = g[S]
    BY SumIsSum
  <1>3. f[S] = g[S]
    BY <1>1, <1>2, SumsAgree
  <1> QED
    BY <1>1, <1>2, <1>3

\* The sum over two sets that share nothing.
LEMMA SumUnion ==
    ASSUME NEW S, NEW R, IsFiniteSet(S), IsFiniteSet(R), S \cap R = {}, NEW fun,
           \A x \in S \cup R : fun[x] \in Int
    PROVE  SumFunctionOnSet(fun, S \cup R) = SumFunctionOnSet(fun, S) + SumFunctionOnSet(fun, R)
  <1> DEFINE Q(T) == SumFunctionOnSet(fun, S \cup T) =
                         SumFunctionOnSet(fun, S) + SumFunctionOnSet(fun, T)
             P == {T \in SUBSET R : Q(T)}
  <1>1. \A T \in SUBSET R : IsFiniteSet(T) /\ SumFunctionOnSet(fun, T) \in Int
    BY FS_Subset, SumType
  <1>2. SumFunctionOnSet(fun, S) \in Int
    BY SumType
  <1>3. ASSUME NEW T \in SUBSET R, \A x \in T : T \ {x} \in P
        PROVE  T \in P
    <2>1. CASE T = {}
      <3>1. S \cup T = S
        BY <2>1
      <3> QED
        BY <1>2, <2>1, <3>1, SumOfNothing
    <2>2. CASE T # {}
      <3>1. PICK x \in T : TRUE
        BY <2>2
      <3> DEFINE U == T \ {x}
      <3>2. Q(U) /\ IsFiniteSet(U) /\ U \in SUBSET R
        BY <1>1, <1>3
      <3>3. IsFiniteSet(S \cup U)
        BY <3>2, FS_Union
      <3>4. S \cup T = (S \cup U) \cup {x} /\ x \notin S \cup U /\ T = U \cup {x} /\ x \notin U
        OBVIOUS
      <3>5. SumFunctionOnSet(fun, (S \cup U) \cup {x}) = fun[x] + SumFunctionOnSet(fun, S \cup U)
        BY <3>3, <3>4, SumAdd
      <3>6. SumFunctionOnSet(fun, U \cup {x}) = fun[x] + SumFunctionOnSet(fun, U)
        BY <3>2, <3>4, SumAdd
      <3>7. fun[x] \in Int /\ SumFunctionOnSet(fun, U) \in Int
        BY <1>1, <3>2
      <3> DEFINE a == SumFunctionOnSet(fun, S)
                 b == SumFunctionOnSet(fun, U)
      <3>8. fun[x] + (a + b) = a + (fun[x] + b)
        <4> HIDE DEF a, b
        <4> QED
          BY <1>2, <3>7 DEF a, b
      <3>9. Q(T)
        BY <3>2, <3>4, <3>5, <3>6, <3>8
      <3> QED
        BY <3>9
    <2> QED
      BY <2>1, <2>2
  <1> HIDE DEF P
  <1>4. R \in P
    BY <1>3, SetInduction
  <1> QED
    BY <1>4 DEF P

\* Less a part of the set, the sum is less by what that part is worth.
LEMMA SumMinus ==
    ASSUME NEW S, IsFiniteSet(S), NEW T \in SUBSET S, NEW fun, \A x \in S : fun[x] \in Int
    PROVE  SumFunctionOnSet(fun, S \ T) = SumFunctionOnSet(fun, S) - SumFunctionOnSet(fun, T)
  <1>1. IsFiniteSet(T) /\ IsFiniteSet(S \ T)
    BY FS_Subset
  <1>2. (S \ T) \cup T = S /\ (S \ T) \cap T = {}
    OBVIOUS
  <1>3. SumFunctionOnSet(fun, S) = SumFunctionOnSet(fun, S \ T) + SumFunctionOnSet(fun, T)
    BY <1>1, <1>2, SumUnion
  <1>4. SumFunctionOnSet(fun, S \ T) \in Int /\ SumFunctionOnSet(fun, T) \in Int
    BY <1>1, SumType
  <1> QED
    BY <1>3, <1>4

\* Sums of naturals are naturals.
LEMMA SumNat ==
    ASSUME NEW S, IsFiniteSet(S), NEW fun, \A x \in S : fun[x] \in Nat
    PROVE  SumFunctionOnSet(fun, S) \in Nat
  <1> DEFINE P == {T \in SUBSET S : SumFunctionOnSet(fun, T) \in Nat}
  <1>1. ASSUME NEW T \in SUBSET S, \A x \in T : T \ {x} \in P
        PROVE  T \in P
    <2>1. CASE T = {}
      BY <2>1, SumOfNothing
    <2>2. CASE T # {}
      <3>1. PICK x \in T : TRUE
        BY <2>2
      <3>2. IsFiniteSet(T)
        BY FS_Subset
      <3>3. SumFunctionOnSet(fun, T) = fun[x] + SumFunctionOnSet(fun, T \ {x})
        BY <3>2, SumTakes
      <3>4. SumFunctionOnSet(fun, T \ {x}) \in Nat
        BY <1>1
      <3> QED
        BY <3>3, <3>4
    <2> QED
      BY <2>1, <2>2
  <1> HIDE DEF P
  <1>2. S \in P
    BY <1>1, SetInduction
  <1> QED
    BY <1>2 DEF P

\* More tokens are not worth less.
LEMMA SumMonotone ==
    ASSUME NEW S, IsFiniteSet(S), NEW T \in SUBSET S, NEW fun, \A x \in S : fun[x] \in Nat
    PROVE  SumFunctionOnSet(fun, T) <= SumFunctionOnSet(fun, S)
  <1>1. SumFunctionOnSet(fun, S \ T) = SumFunctionOnSet(fun, S) - SumFunctionOnSet(fun, T)
    BY SumMinus
  <1>2. IsFiniteSet(S \ T) /\ IsFiniteSet(T)
    BY FS_Subset
  <1>3. /\ SumFunctionOnSet(fun, S \ T) \in Nat /\ SumFunctionOnSet(fun, S) \in Nat
        /\ SumFunctionOnSet(fun, T) \in Nat
    BY <1>2, SumNat
  <1> QED
    BY <1>1, <1>3

-----------------------------------------------------------------------------
\* Sums over sets that are put together from other sets.

\* A sum whose elements are worth nothing.
LEMMA SumOfZeros ==
    ASSUME NEW S, IsFiniteSet(S), NEW fun, \A x \in S : fun[x] = 0
    PROVE  SumFunctionOnSet(fun, S) = 0
  <1> DEFINE P == {T \in SUBSET S : SumFunctionOnSet(fun, T) = 0}
  <1>1. ASSUME NEW T \in SUBSET S, \A x \in T : T \ {x} \in P
        PROVE  T \in P
    <2>1. CASE T = {}
      BY <2>1, SumOfNothing
    <2>2. CASE T # {}
      <3>1. PICK x \in T : TRUE
        BY <2>2
      <3>2. IsFiniteSet(T)
        BY FS_Subset
      <3>3. SumFunctionOnSet(fun, T) = fun[x] + SumFunctionOnSet(fun, T \ {x})
        BY <3>2, SumTakes
      <3>4. SumFunctionOnSet(fun, T \ {x}) = 0 /\ fun[x] = 0
        BY <1>1
      <3> QED
        BY <3>3, <3>4
    <2> QED
      BY <2>1, <2>2
  <1> HIDE DEF P
  <1>2. S \in P
    BY <1>1, SetInduction
  <1> QED
    BY <1>2 DEF P

\* The values of a function on a finite set are finitely many.
LEMMA FiniteImage ==
    ASSUME NEW S, IsFiniteSet(S), NEW fun
    PROVE  IsFiniteSet({fun[x] : x \in S})
  <1> DEFINE T == {fun[x] : x \in S}
             f == [x \in S |-> fun[x]]
  <1>1. f \in Surjection(S, T)
    BY DEF Surjection
  <1> HIDE DEF T, f
  <1>2. IsFiniteSet(T)
    BY <1>1, FS_Surjection
  <1> QED
    BY <1>2 DEF T

\* Elements that are worth nothing need not be counted.
LEMMA SumOfPart ==
    ASSUME NEW S, IsFiniteSet(S), NEW T \in SUBSET S, NEW fun,
           \A x \in S : fun[x] \in Int, \A x \in S \ T : fun[x] = 0
    PROVE  SumFunctionOnSet(fun, S) = SumFunctionOnSet(fun, T)
  <1> DEFINE n == SumFunctionOnSet(fun, S)
             m == SumFunctionOnSet(fun, T)
  <1>1. IsFiniteSet(S \ T) /\ IsFiniteSet(T)
    BY FS_Subset
  <1>2. SumFunctionOnSet(fun, S \ T) = n - m
    BY SumMinus
  <1>3. SumFunctionOnSet(fun, S \ T) = 0
    BY <1>1, SumOfZeros
  <1>4. n \in Int /\ m \in Int
    BY <1>1, SumType
  <1> HIDE DEF n, m
  <1>5. n = m
    BY <1>2, <1>3, <1>4
  <1> QED
    BY <1>5 DEF n, m

\* Sums are added element by element.
LEMMA SumOfSums ==
    ASSUME NEW S, IsFiniteSet(S), NEW f, NEW g, NEW h,
           \A x \in S : f[x] \in Int /\ g[x] \in Int /\ h[x] = f[x] + g[x]
    PROVE  SumFunctionOnSet(h, S) = SumFunctionOnSet(f, S) + SumFunctionOnSet(g, S)
  <1> DEFINE Q(T) == SumFunctionOnSet(h, T) = SumFunctionOnSet(f, T) + SumFunctionOnSet(g, T)
             P == {T \in SUBSET S : Q(T)}
  <1>1. ASSUME NEW T \in SUBSET S, \A x \in T : T \ {x} \in P
        PROVE  T \in P
    <2>1. CASE T = {}
      BY <2>1, SumOfNothing
    <2>2. CASE T # {}
      <3>1. PICK x \in T : TRUE
        BY <2>2
      <3> DEFINE m == SumFunctionOnSet(f, T \ {x})
                 n == SumFunctionOnSet(g, T \ {x})
      <3>2. IsFiniteSet(T) /\ IsFiniteSet(T \ {x})
        BY FS_Subset
      <3>3. /\ SumFunctionOnSet(f, T) = f[x] + m
            /\ SumFunctionOnSet(g, T) = g[x] + n
            /\ SumFunctionOnSet(h, T) = h[x] + SumFunctionOnSet(h, T \ {x})
        BY <3>2, SumTakes
      <3>4. SumFunctionOnSet(h, T \ {x}) = m + n
        BY <1>1
      <3>5. m \in Int /\ n \in Int /\ f[x] \in Int /\ g[x] \in Int /\ h[x] = f[x] + g[x]
        BY <3>2, SumType
      <3> HIDE DEF m, n
      <3>6. h[x] + (m + n) = (f[x] + m) + (g[x] + n)
        BY <3>5
      <3> QED
        BY <3>3, <3>4, <3>6
    <2> QED
      BY <2>1, <2>2
  <1> HIDE DEF P
  <1>2. S \in P
    BY <1>1, SetInduction
  <1> QED
    BY <1>2 DEF P

\* The sum over the image R of a function m that keeps the elements of S apart.
LEMMA SumOfImage ==
    ASSUME NEW S, IsFiniteSet(S), NEW m, \A x, y \in S : m[x] = m[y] => x = y,
           NEW R, \A x \in S : m[x] \in R, \A y \in R : \E x \in S : y = m[x],
           NEW fun, NEW gun, \A x \in S : fun[m[x]] \in Int /\ gun[x] = fun[m[x]]
    PROVE  IsFiniteSet(R) /\ SumFunctionOnSet(fun, R) = SumFunctionOnSet(gun, S)
  <1> DEFINE I(T) == {m[x] : x \in T}
             Q(T) == IsFiniteSet(I(T)) /\ SumFunctionOnSet(fun, I(T)) = SumFunctionOnSet(gun, T)
             P == {T \in SUBSET S : Q(T)}
  <1>1. ASSUME NEW T \in SUBSET S, \A x \in T : T \ {x} \in P
        PROVE  T \in P
    <2>1. CASE T = {}
      <3>1. I(T) = {}
        BY <2>1
      <3> QED
        BY <2>1, <3>1, SumOfNothing, FS_EmptySet
    <2>2. CASE T # {}
      <3>1. PICK x \in T : TRUE
        BY <2>2
      <3> DEFINE U == T \ {x}
      <3>2. Q(U)
        BY <1>1
      <3>3. I(T) = I(U) \cup {m[x]} /\ m[x] \notin I(U) /\ \A y \in I(T) : fun[y] \in Int
        OBVIOUS
      <3>4. IsFiniteSet(T) /\ \A y \in T : gun[y] \in Int
        BY FS_Subset
      <3>5. SumFunctionOnSet(gun, T) = gun[x] + SumFunctionOnSet(gun, U)
        BY <3>4, SumTakes
      <3> HIDE DEF I
      <3>6. IsFiniteSet(I(T)) /\ SumFunctionOnSet(fun, I(T)) = fun[m[x]] + SumFunctionOnSet(fun, I(U))
        <4> DEFINE A == I(U)
                   b == m[x]
        <4>1. IsFiniteSet(A) /\ b \notin A /\ I(T) = A \cup {b}
          BY <3>2, <3>3
        <4>2. \A y \in A \cup {b} : fun[y] \in Int
          BY <3>3
        <4> HIDE DEF A, b
        <4>3. IsFiniteSet(A \cup {b}) /\ SumFunctionOnSet(fun, A \cup {b}) = fun[b] + SumFunctionOnSet(fun, A)
          BY <4>1, <4>2, SumAdd, FS_AddElement
        <4> QED
          BY <4>1, <4>3 DEF A, b
      <3> QED
        BY <3>2, <3>5, <3>6
    <2> QED
      BY <2>1, <2>2
  <1> HIDE DEF P
  <1>2. S \in P
    BY <1>1, SetInduction
  <1>3. R = I(S)
    OBVIOUS
  <1> QED
    BY <1>2, <1>3 DEF P

\* R is the union of the finite sets S[k], k \in K, and these share nothing.
IsPartition(K, S, R) ==
    /\ IsFiniteSet(K) /\ \A k \in K : IsFiniteSet(S[k])
    /\ \A k, l \in K : k # l => S[k] \cap S[l] = {}
    /\ \A k \in K : S[k] \subseteq R
    /\ \A x \in R : \E k \in K : x \in S[k]

\* The sum over the union R of sets that share nothing, taken set by set.
LEMMA SumOfUnion ==
    ASSUME NEW K, NEW S, NEW R, IsPartition(K, S, R),
           NEW fun, \A x \in R : fun[x] \in Int,
           NEW gun, \A k \in K : gun[k] = SumFunctionOnSet(fun, S[k])
    PROVE  IsFiniteSet(R) /\ SumFunctionOnSet(fun, R) = SumFunctionOnSet(gun, K)
  <1>1. /\ IsFiniteSet(K) /\ \A k \in K : IsFiniteSet(S[k])
        /\ \A k, l \in K : k # l => S[k] \cap S[l] = {}
        /\ \A k \in K : S[k] \subseteq R
        /\ \A x \in R : \E k \in K : x \in S[k]
    BY DEF IsPartition
  <1>2. \A k \in K : \A x \in S[k] : fun[x] \in Int
    BY <1>1
  <1> DEFINE I(L) == UNION {S[k] : k \in L}
             Q(L) == IsFiniteSet(I(L)) /\ SumFunctionOnSet(fun, I(L)) = SumFunctionOnSet(gun, L)
             P == {L \in SUBSET K : Q(L)}
  <1>3. \A k \in K : gun[k] \in Int
    BY <1>1, <1>2, SumType
  <1>4. ASSUME NEW L \in SUBSET K, \A k \in L : L \ {k} \in P
        PROVE  L \in P
    <2>1. CASE L = {}
      <3>1. I(L) = {}
        BY <2>1
      <3> QED
        BY <2>1, <3>1, SumOfNothing, FS_EmptySet
    <2>2. CASE L # {}
      <3>1. PICK k \in L : TRUE
        BY <2>2
      <3> DEFINE U == L \ {k}
      <3>2. Q(U)
        BY <1>4
      <3>3. I(L) = S[k] \cup I(U) /\ S[k] \cap I(U) = {} /\ \A x \in I(L) : fun[x] \in Int
        BY <1>1, <1>2
      <3>4. IsFiniteSet(L)
        BY <1>1, FS_Subset
      <3>5. SumFunctionOnSet(gun, L) = gun[k] + SumFunctionOnSet(gun, U)
        BY <1>3, <3>4, SumTakes
      <3> HIDE DEF I
      <3>6. /\ IsFiniteSet(I(L))
            /\ SumFunctionOnSet(fun, I(L)) = SumFunctionOnSet(fun, S[k]) + SumFunctionOnSet(fun, I(U))
        <4> DEFINE A == S[k]
                   B == I(U)
        <4>1. IsFiniteSet(A) /\ IsFiniteSet(B) /\ I(L) = A \cup B /\ A \cap B = {}
          BY <1>1, <3>2, <3>3
        <4>2. \A x \in A \cup B : fun[x] \in Int
          BY <3>3
        <4> HIDE DEF A, B
        <4>3. IsFiniteSet(A \cup B)
          BY <4>1, FS_Union
        <4>4. SumFunctionOnSet(fun, A \cup B) = SumFunctionOnSet(fun, A) + SumFunctionOnSet(fun, B)
          BY <4>1, <4>2, SumUnion
        <4> QED
          BY <4>1, <4>3, <4>4 DEF A, B
      <3> QED
        BY <3>2, <3>5, <3>6
    <2> QED
      BY <2>1, <2>2
  <1> HIDE DEF P
  <1>5. K \in P
    BY <1>4, <1>1, SetInduction
  <1>6. R = I(K)
    BY <1>1
  <1> QED
    BY <1>5, <1>6 DEF P

\* The sum over the positions of two sequences, one after the other.
LEMMA SumOfConcat ==
    ASSUME NEW m \in Nat, NEW n \in Nat, NEW f, NEW g, NEW h,
           \A i \in 1 .. m : f[i] \in Int /\ h[i] = f[i],
           \A i \in 1 .. n : g[i] \in Int /\ h[m + i] = g[i]
    PROVE  SumFunctionOnSet(h, 1 .. (m + n)) =
               SumFunctionOnSet(f, 1 .. m) + SumFunctionOnSet(g, 1 .. n)
  <1> DEFINE shift == [i \in 1 .. n |-> m + i]
             R == {shift[i] : i \in 1 .. n}
  <1>1. IsFiniteSet(1 .. m) /\ IsFiniteSet(1 .. n)
    BY FS_Interval
  <1>2. 1 .. (m + n) = (1 .. m) \cup R /\ (1 .. m) \cap R = {}
    <2>1. ASSUME NEW i \in 1 .. (m + n), i \notin 1 .. m
          PROVE  i \in R
      <3>1. i - m \in 1 .. n /\ shift[i - m] = i
        BY <2>1
      <3> QED
        BY <3>1
    <2> QED
      BY <2>1
  <1>3. \A i \in 1 .. n : shift[i] = m + i
    OBVIOUS
  <1>4. \A i, j \in 1 .. n : shift[i] = shift[j] => i = j
    BY <1>3
  <1>5. \A i \in 1 .. n : h[shift[i]] \in Int /\ g[i] = h[shift[i]]
    BY <1>3
  <1>10. (\A i \in 1 .. n : shift[i] \in R) /\ (\A j \in R : \E i \in 1 .. n : j = shift[i])
    OBVIOUS
  <1> HIDE DEF shift, R
  <1>6. IsFiniteSet(R) /\ SumFunctionOnSet(h, R) = SumFunctionOnSet(g, 1 .. n)
    <2> DEFINE S == 1 .. n
    <2>1. IsFiniteSet(S) /\ \A i, j \in S : shift[i] = shift[j] => i = j
      BY <1>1, <1>4
    <2>2. (\A i \in S : shift[i] \in R) /\ (\A j \in R : \E i \in S : j = shift[i])
      BY <1>10
    <2>3. \A i \in S : h[shift[i]] \in Int /\ g[i] = h[shift[i]]
      BY <1>5
    <2> HIDE DEF S
    <2>4. IsFiniteSet(R) /\ SumFunctionOnSet(h, R) = SumFunctionOnSet(g, S)
      BY <2>1, <2>2, <2>3, SumOfImage
    <2> QED
      BY <2>4 DEF S
  <1>7. \A i \in (1 .. m) \cup R : h[i] \in Int
    BY <1>5, <1>10
  <1>8. SumFunctionOnSet(h, (1 .. m) \cup R) = SumFunctionOnSet(h, 1 .. m) + SumFunctionOnSet(h, R)
    BY <1>1, <1>2, <1>6, <1>7, SumUnion
  <1>9. SumFunctionOnSet(h, 1 .. m) = SumFunctionOnSet(f, 1 .. m)
    BY <1>1, SumEqual
  <1> QED
    BY <1>2, <1>6, <1>8, <1>9
=============================================================================
