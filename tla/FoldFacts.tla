----------------------------- MODULE FoldFacts -----------------------------
(* What the folds of the community modules compute over a finite set.  The *)
(* operators of a fold are given as functions here, so that the facts can  *)
(* be cited for any of them; a module that folds with an operator of its   *)
(* own shows that the operator agrees with a function on the values met.   *)
EXTENDS Integers, FiniteSetsExt, Functions, FiniteSetTheorems, WellFoundedInduction, TLAPS

\* Every set of naturals that is not empty has a least element.
LEMMA LeastNatural ==
    ASSUME NEW S \in SUBSET Nat, S # {}
    PROVE  \E n \in S : \A k \in S : n <= k
<1> DEFINE R == OpToRel(<, Nat)
<1>1. \A x, y \in Nat : <<x, y>> \in R <=> x < y
  BY DEF OpToRel
<1>2. IsWellFoundedOn(R, Nat)
  BY NatLessThanWellFounded
<1> HIDE DEF R
<1>3. PICK n \in S : \A k \in S : ~(<<k, n>> \in R)
  BY <1>2, WFMin
<1>4. \A k \in S : k \in Nat /\ n \in Nat /\ ~(k < n)
  BY <1>1, <1>3
<1> QED
  BY <1>4

\* Induction over the naturals, for a set of them instead of a predicate.
LEMMA CountingUp ==
    ASSUME NEW P \in SUBSET Nat, 0 \in P, \A n \in P : n + 1 \in P
    PROVE  P = Nat
<1> SUFFICES ASSUME P # Nat PROVE FALSE
  OBVIOUS
<1>1. Nat \ P \in SUBSET Nat /\ Nat \ P # {}
  OBVIOUS
<1>2. PICK m \in Nat \ P : \A k \in Nat \ P : m <= k
  BY <1>1, LeastNatural
<1>3. m # 0 /\ m \in Nat
  BY <1>2
<1>4. m - 1 \in Nat /\ ~(m <= m - 1)
  BY <1>3
<1>5. m - 1 \in P
  BY <1>2, <1>4
<1>6. m - 1 + 1 = m
  BY <1>3
<1> QED
  BY <1>2, <1>5, <1>6

\* Induction over the subsets of a finite set, for a set of them: a subset may
\* use what holds of it without any one of its elements.
LEMMA FiniteInduction ==
    ASSUME NEW S, IsFiniteSet(S), NEW P,
           \A T \in SUBSET S : (\A x \in T : T \ {x} \in P) => T \in P
    PROVE  \A T \in SUBSET S : T \in P
<1> DEFINE Q == {n \in Nat : \A T \in SUBSET S : Cardinality(T) = n => T \in P}
<1>1. \A T \in SUBSET S : IsFiniteSet(T) /\ Cardinality(T) \in Nat
  BY FS_Subset, FS_CardinalityType
<1>2. 0 \in Q
  <2>1. ASSUME NEW T \in SUBSET S, Cardinality(T) = 0 PROVE T \in P
    BY <1>1, <2>1, FS_EmptySet
  <2> QED
    BY <2>1
<1>3. ASSUME NEW n \in Q PROVE n + 1 \in Q
  <2>1. ASSUME NEW T \in SUBSET S, Cardinality(T) = n + 1 PROVE T \in P
    <3>1. ASSUME NEW x \in T PROVE T \ {x} \in P
      <4>1. Cardinality(T \ {x}) = n
        BY <1>1, <2>1, FS_RemoveElement
      <4> QED
        BY <4>1
    <3> QED
      BY <3>1
  <2> QED
    BY <2>1
<1>4. Q \in SUBSET Nat
  OBVIOUS
<1> HIDE DEF Q
<1>5. Q = Nat
  BY <1>2, <1>3, <1>4, CountingUp
<1> QED
  BY <1>1, <1>5 DEF Q

-----------------------------------------------------------------------------
(* The recursive function behind a fold.                                   *)

\* C names the element taken off a set, F what is done with it and with the
\* value of what is left.
Follows(g, S, base, F, C) ==
    g = [s \in SUBSET S |-> IF s = {} THEN base ELSE F[<<C[s], g[s \ {C[s]}]>>]]

\* There is such a function for every finite set.
LEMMA FoldExists ==
    ASSUME NEW S, IsFiniteSet(S), NEW base, NEW F, NEW C,
           \A s \in SUBSET S : s # {} => C[s] \in s
    PROVE  \E g : Follows(g, S, base, F, C)
<1> DEFINE Small(n) == {s \in SUBSET S : Cardinality(s) <= n}
           Rule(g, s) == IF s = {} THEN base ELSE F[<<C[s], g[s \ {C[s]}]>>]
           P == {n \in Nat : \E g : g = [s \in Small(n) |-> Rule(g, s)]}
<1>1. \A T \in SUBSET S : IsFiniteSet(T) /\ Cardinality(T) \in Nat
  BY FS_Subset, FS_CardinalityType
<1>2. 0 \in P
  <2>1. \A s \in Small(0) : s = {}
    BY <1>1, FS_EmptySet
  <2> DEFINE g == [s \in Small(0) |-> base]
  <2>2. \A s \in Small(0) : Rule(g, s) = base
    BY <2>1
  <2>3. g = [s \in Small(0) |-> Rule(g, s)]
    BY <2>2
  <2> QED
    BY <2>3
<1>3. ASSUME NEW n \in Nat, NEW g, g = [s \in Small(n) |-> Rule(g, s)]
      PROVE  \E h : h = [s \in Small(n + 1) |-> Rule(h, s)]
  <2> DEFINE h == [s \in Small(n + 1) |-> Rule(g, s)]
  <2>1. Small(n) \subseteq Small(n + 1)
    BY <1>1
  <2>2. \A s \in Small(n) : h[s] = g[s]
    BY <1>3, <2>1
  <2>3. ASSUME NEW s \in Small(n + 1), s # {} PROVE s \ {C[s]} \in Small(n)
    <3>1. C[s] \in s /\ IsFiniteSet(s) /\ Cardinality(s) \in Nat /\ Cardinality(s) <= n + 1
      BY <1>1, <2>3
    <3>2. Cardinality(s \ {C[s]}) = Cardinality(s) - 1
      BY <3>1, FS_RemoveElement
    <3> QED
      BY <3>1, <3>2
  <2> HIDE DEF Small
  <2>4. \A s \in Small(n + 1) : Rule(h, s) = Rule(g, s)
    <3> TAKE s \in Small(n + 1)
    <3> HIDE DEF h
    <3>1. CASE s # {}
      <4>1. h[s \ {C[s]}] = g[s \ {C[s]}]
        BY <2>2, <2>3, <3>1
      <4> QED
        BY <4>1
    <3>2. CASE s = {}
      BY <3>2
    <3> QED
      BY <3>1, <3>2
  <2> HIDE DEF Rule
  <2>5. h = [s \in Small(n + 1) |-> Rule(h, s)]
    BY <2>4
  <2> QED
    BY <2>5
<1>4. P \in SUBSET Nat
  OBVIOUS
<1> HIDE DEF Small, Rule
<1>5. \A n \in P : n + 1 \in P
  BY <1>3
<1> HIDE DEF P
<1>6. Cardinality(S) \in P
  BY <1>1, <1>2, <1>4, <1>5, CountingUp
<1>7. PICK g : g = [s \in Small(Cardinality(S)) |-> Rule(g, s)]
  BY <1>6 DEF P
<1>8. Small(Cardinality(S)) = SUBSET S
  BY FS_Subset DEF Small
<1> QED
  BY <1>7, <1>8 DEF Follows, Rule

\* ... and its values stay in any set that F keeps.
LEMMA FoldInto ==
    ASSUME NEW S, IsFiniteSet(S), NEW V, NEW base \in V, NEW F \in [S \X V -> V], NEW C,
           \A s \in SUBSET S : s # {} => C[s] \in s
    PROVE  \E g \in [SUBSET S -> V] : Follows(g, S, base, F, C)
<1>1. PICK g : Follows(g, S, base, F, C)
  BY FoldExists
<1> DEFINE P == {s \in SUBSET S : g[s] \in V}
<1>2. ASSUME NEW T \in SUBSET S, \A x \in T : T \ {x} \in P PROVE T \in P
  <2>1. g[T] = IF T = {} THEN base ELSE F[<<C[T], g[T \ {C[T]}]>>]
    BY <1>1 DEF Follows
  <2>2. CASE T = {}
    BY <2>1, <2>2
  <2>3. CASE T # {}
    <3>1. C[T] \in T /\ C[T] \in S /\ g[T \ {C[T]}] \in V
      BY <1>2, <2>3
    <3>2. F[<<C[T], g[T \ {C[T]}]>>] \in V
      BY <3>1
    <3> QED
      BY <2>1, <2>3, <3>2
  <2> QED
    BY <2>2, <2>3
<1> HIDE DEF P
<1>3. \A T \in SUBSET S : T \in P
  BY <1>2, FiniteInduction
<1>4. \A T \in SUBSET S : g[T] \in V
  BY <1>3 DEF P
<1>5. g \in [SUBSET S -> V]
  BY <1>1, <1>4 DEF Follows
<1> QED
  BY <1>1, <1>5

-----------------------------------------------------------------------------
(* Sums.                                                                   *)

\* The sum of f over S, the way MapThenSumSet and SumFunction take it.
Sum(f, S) == MapThenSumSet(LAMBDA x : f[x], S)

Picked(s) == CHOOSE x \in s : TRUE
Sums(f, S) == CHOOSE g : g = [s \in SUBSET S |->
                  IF s = {} THEN 0 ELSE f[Picked(s)] + g[s \ {Picked(s)}]]

LEMMA SumIs == \A f, S : Sum(f, S) = Sums(f, S)[S]
BY DEF Sum, MapThenSumSet, MapThenFoldSet, Sums, Picked

LEMMA SumFunctionIs == \A f : SumFunction(f) = Sum(f, DOMAIN f)
BY DEF Sum, SumFunction, SumFunctionOnSet, FoldFunctionOnSet, MapThenSumSet, MapThenFoldSet

\* The recursive function of a sum follows its definition.
LEMMA SumsFollow ==
    ASSUME NEW S, IsFiniteSet(S), NEW f, \A x \in S : f[x] \in Int
    PROVE  /\ Sums(f, S) = [s \in SUBSET S |->
                  IF s = {} THEN 0 ELSE f[Picked(s)] + Sums(f, S)[s \ {Picked(s)}]]
           /\ Sums(f, S) \in [SUBSET S -> Int]
<1> DEFINE F == [p \in S \X Int |-> f[p[1]] + p[2]]
           C == [s \in SUBSET S |-> Picked(s)]
<1>1. \A s \in SUBSET S : s # {} => C[s] \in s /\ C[s] = Picked(s)
  BY DEF Picked
<1>2. F \in [S \X Int -> Int] /\ 0 \in Int
  OBVIOUS
<1>3. \A x \in S, n \in Int : F[<<x, n>>] = f[x] + n
  OBVIOUS
<1> HIDE DEF F, C
<1>4. PICK g \in [SUBSET S -> Int] : Follows(g, S, 0, F, C)
  BY <1>1, <1>2, FoldInto
<1>5. \A s \in SUBSET S : g[s] = IF s = {} THEN 0 ELSE f[Picked(s)] + g[s \ {Picked(s)}]
  <2> TAKE s \in SUBSET S
  <2>1. g[s] = IF s = {} THEN 0 ELSE F[<<C[s], g[s \ {C[s]}]>>]
    BY <1>4 DEF Follows
  <2>2. CASE s # {}
    <3>1. C[s] \in S /\ C[s] = Picked(s) /\ g[s \ {C[s]}] \in Int
      BY <1>1, <1>4, <2>2
    <3> QED
      BY <1>3, <2>1, <2>2, <3>1
  <2> QED
    BY <2>1, <2>2
<1>6. g = [s \in SUBSET S |-> IF s = {} THEN 0 ELSE f[Picked(s)] + g[s \ {Picked(s)}]]
  BY <1>4, <1>5
<1> DEFINE h == Sums(f, S)
<1>7. h = [s \in SUBSET S |-> IF s = {} THEN 0 ELSE f[Picked(s)] + h[s \ {Picked(s)}]]
  BY <1>6 DEF Sums
<1> HIDE DEF h
<1> DEFINE P == {s \in SUBSET S : h[s] \in Int}
<1>8. ASSUME NEW T \in SUBSET S, \A x \in T : T \ {x} \in P PROVE T \in P
  <2>1. h[T] = IF T = {} THEN 0 ELSE f[Picked(T)] + h[T \ {Picked(T)}]
    BY <1>7
  <2>2. CASE T # {}
    <3>1. Picked(T) \in T
      BY <2>2 DEF Picked
    <3>2. f[Picked(T)] \in Int /\ h[T \ {Picked(T)}] \in Int
      BY <1>8, <3>1
    <3> QED
      BY <2>1, <2>2, <3>2
  <2> QED
    BY <2>1, <2>2
<1> HIDE DEF P
<1>9. \A T \in SUBSET S : T \in P
  BY <1>8, FiniteInduction
<1>10. h \in [SUBSET S -> Int]
  BY <1>7, <1>9 DEF P
<1> QED
  BY <1>7, <1>10 DEF h

LEMMA SumEmpty == \A f : Sum(f, {}) = 0
<1> TAKE f
<1>1. IsFiniteSet({})
  BY FS_EmptySet
<1>2. \A x \in {} : f[x] \in Int
  OBVIOUS
<1>3. Sums(f, {}) = [s \in SUBSET {} |->
          IF s = {} THEN 0 ELSE f[Picked(s)] + Sums(f, {})[s \ {Picked(s)}]]
  BY <1>1, <1>2, SumsFollow
<1>4. Sums(f, {})[{}] = 0
  BY <1>3
<1> QED
  BY <1>4, SumIs

LEMMA SumType ==
    \A f, S : IsFiniteSet(S) /\ (\A x \in S : f[x] \in Int) => Sum(f, S) \in Int
<1> SUFFICES ASSUME NEW f, NEW S, IsFiniteSet(S), \A x \in S : f[x] \in Int
             PROVE  Sum(f, S) \in Int
  OBVIOUS
<1>1. Sums(f, S) \in [SUBSET S -> Int]
  BY SumsFollow
<1> QED
  BY <1>1, SumIs

\* The sum depends on the values summed only, and the function of a sum gives
\* the sums of its parts.
LEMMA SumsAgree ==
    ASSUME NEW S, IsFiniteSet(S), NEW T \in SUBSET S, NEW f, NEW g,
           \A x \in S : f[x] \in Int, \A x \in T : g[x] = f[x]
    PROVE  Sums(f, S)[T] = Sum(g, T)
<1>1. IsFiniteSet(T) /\ \A x \in T : g[x] \in Int
  BY FS_Subset
<1> DEFINE h == Sums(f, S)
           k == Sums(g, T)
           P == {U \in SUBSET T : h[U] = k[U]}
<1>2. h = [s \in SUBSET S |-> IF s = {} THEN 0 ELSE f[Picked(s)] + h[s \ {Picked(s)}]]
  BY SumsFollow
<1>3. k = [s \in SUBSET T |-> IF s = {} THEN 0 ELSE g[Picked(s)] + k[s \ {Picked(s)}]]
  BY <1>1, SumsFollow
<1> HIDE DEF h, k
<1>4. ASSUME NEW U \in SUBSET T, \A x \in U : U \ {x} \in P PROVE U \in P
  <2>1. /\ h[U] = IF U = {} THEN 0 ELSE f[Picked(U)] + h[U \ {Picked(U)}]
        /\ k[U] = IF U = {} THEN 0 ELSE g[Picked(U)] + k[U \ {Picked(U)}]
    BY <1>2, <1>3
  <2>2. CASE U # {}
    <3>1. Picked(U) \in U
      BY <2>2 DEF Picked
    <3>2. f[Picked(U)] = g[Picked(U)] /\ h[U \ {Picked(U)}] = k[U \ {Picked(U)}]
      BY <1>4, <3>1
    <3>3. h[U] = k[U]
      BY <2>1, <2>2, <3>2
    <3> QED
      BY <3>3
  <2> QED
    BY <2>1, <2>2
<1> HIDE DEF P
<1>5. \A U \in SUBSET T : U \in P
  BY <1>1, <1>4, FiniteInduction
<1>6. h[T] = k[T]
  BY <1>5 DEF P
<1> QED
  BY <1>6, SumIs DEF h, k

LEMMA SumSame ==
    ASSUME NEW S, IsFiniteSet(S), NEW f, NEW g, \A x \in S : f[x] \in Int /\ g[x] = f[x]
    PROVE  Sum(g, S) = Sum(f, S)
<1>1. Sums(f, S)[S] = Sum(g, S)
  BY SumsAgree
<1> QED
  BY <1>1, SumIs

\* Whichever element is taken off first.
LEMMA SumRemove ==
    ASSUME NEW S, IsFiniteSet(S), NEW f, \A x \in S : f[x] \in Int, NEW x \in S
    PROVE  Sum(f, S) = f[x] + Sum(f, S \ {x})
<1> DEFINE P == {T \in SUBSET S : \A y \in T : Sum(f, T) = f[y] + Sum(f, T \ {y})}
<1>1. \A T \in SUBSET S : /\ IsFiniteSet(T) /\ Sum(f, T) \in Int
                         /\ \A y \in T : f[y] \in Int
  BY FS_Subset, SumType
<1>2. ASSUME NEW T \in SUBSET S, T # {}
      PROVE  Picked(T) \in T /\ Sum(f, T) = f[Picked(T)] + Sum(f, T \ {Picked(T)})
  <2>1. Picked(T) \in T
    BY <1>2 DEF Picked
  <2>2. Sums(f, T) = [s \in SUBSET T |->
            IF s = {} THEN 0 ELSE f[Picked(s)] + Sums(f, T)[s \ {Picked(s)}]]
    BY <1>1, SumsFollow
  <2>3. Sums(f, T)[T] = f[Picked(T)] + Sums(f, T)[T \ {Picked(T)}]
    BY <1>2, <2>2
  <2>4. Sums(f, T)[T \ {Picked(T)}] = Sum(f, T \ {Picked(T)})
    <3> DEFINE U == T \ {Picked(T)}
    <3>1. U \in SUBSET T /\ IsFiniteSet(T) /\ \A y \in T : f[y] \in Int
      BY <1>1
    <3>2. \A y \in U : f[y] = f[y]
      OBVIOUS
    <3> HIDE DEF U
    <3>3. Sums(f, T)[U] = Sum(f, U)
      BY <3>1, <3>2, SumsAgree
    <3> QED
      BY <3>3 DEF U
  <2> QED
    BY <2>1, <2>3, <2>4, SumIs
<1>3. ASSUME NEW T \in SUBSET S, \A y \in T : T \ {y} \in P PROVE T \in P
  <2> SUFFICES ASSUME NEW y \in T PROVE Sum(f, T) = f[y] + Sum(f, T \ {y})
    OBVIOUS
  <2> DEFINE c == Picked(T)
  <2>1. c \in T /\ Sum(f, T) = f[c] + Sum(f, T \ {c})
    BY <1>2
  <2> HIDE DEF c
  <2>2. CASE y # c
    <3>1. T \ {y} \in P /\ c \in T \ {y} /\ T \ {c} \in P /\ y \in T \ {c}
      BY <1>3, <2>1, <2>2
    <3>2. Sum(f, T \ {y}) = f[c] + Sum(f, (T \ {y}) \ {c})
      BY <3>1
    <3>3. Sum(f, T \ {c}) = f[y] + Sum(f, (T \ {c}) \ {y})
      BY <3>1
    <3>4. (T \ {y}) \ {c} = (T \ {c}) \ {y}
      OBVIOUS
    <3>5. f[c] \in Int /\ f[y] \in Int /\ Sum(f, (T \ {c}) \ {y}) \in Int
      <4>1. (T \ {c}) \ {y} \in SUBSET S
        OBVIOUS
      <4> QED
        BY <1>1, <2>1, <4>1
    <3> DEFINE rest == Sum(f, (T \ {c}) \ {y})
    <3>6. Sum(f, T \ {y}) = f[c] + rest /\ Sum(f, T \ {c}) = f[y] + rest
      BY <3>2, <3>3, <3>4
    <3>7. rest \in Int
      BY <3>5
    <3> HIDE DEF P, rest
    <3>8. f[c] + (f[y] + rest) = f[y] + (f[c] + rest)
      BY <3>5, <3>7
    <3> QED
      BY <2>1, <3>6, <3>8
  <2>3. CASE y = c
    BY <2>1, <2>3
  <2> HIDE DEF P
  <2> QED
    BY <2>2, <2>3
<1> HIDE DEF P
<1>4. \A T \in SUBSET S : T \in P
  BY <1>3, FiniteInduction
<1> QED
  BY <1>4 DEF P

\* One more element.
LEMMA SumAdd ==
    ASSUME NEW S, IsFiniteSet(S), NEW f, \A y \in S : f[y] \in Int, NEW x, x \notin S, f[x] \in Int
    PROVE  Sum(f, S \cup {x}) = f[x] + Sum(f, S)
<1>1. IsFiniteSet(S \cup {x}) /\ (\A y \in S \cup {x} : f[y] \in Int) /\ x \in S \cup {x}
  BY FS_AddElement
<1>2. (S \cup {x}) \ {x} = S
  OBVIOUS
<1> QED
  BY <1>1, <1>2, SumRemove

\* One value changed.
LEMMA SumChange ==
    ASSUME NEW S, IsFiniteSet(S), NEW f, NEW g, NEW x \in S,
           \A y \in S : f[y] \in Int, g[x] \in Int, \A y \in S \ {x} : g[y] = f[y]
    PROVE  Sum(g, S) = Sum(f, S) + g[x] - f[x]
<1>1. IsFiniteSet(S \ {x}) /\ \A y \in S : g[y] \in Int
  BY FS_Subset
<1>2. Sum(f, S) = f[x] + Sum(f, S \ {x}) /\ Sum(g, S) = g[x] + Sum(g, S \ {x})
  BY <1>1, SumRemove
<1>3. Sum(g, S \ {x}) = Sum(f, S \ {x})
  BY <1>1, SumSame
<1>4. Sum(f, S \ {x}) \in Int /\ f[x] \in Int
  BY <1>1, SumType
<1> QED
  BY <1>2, <1>3, <1>4

\* Summing what two functions give is adding their sums.
LEMMA SumPlus ==
    ASSUME NEW S, IsFiniteSet(S), NEW f, NEW g, NEW h,
           \A x \in S : f[x] \in Int /\ g[x] \in Int /\ h[x] = f[x] + g[x]
    PROVE  Sum(h, S) = Sum(f, S) + Sum(g, S)
<1> DEFINE P == {T \in SUBSET S : Sum(h, T) = Sum(f, T) + Sum(g, T)}
<1>1. \A T \in SUBSET S : IsFiniteSet(T) /\ Sum(f, T) \in Int /\ Sum(g, T) \in Int
  BY FS_Subset, SumType
<1>2. ASSUME NEW T \in SUBSET S, \A x \in T : T \ {x} \in P PROVE T \in P
  <2>1. CASE T = {}
    BY <2>1, SumEmpty
  <2>2. CASE T # {}
    <3>1. PICK x \in T : TRUE
      BY <2>2
    <3>2. /\ IsFiniteSet(T) /\ T \ {x} \in SUBSET S
          /\ \A y \in T : f[y] \in Int /\ g[y] \in Int /\ h[y] \in Int
      BY <1>1
    <3>3. /\ Sum(f, T) = f[x] + Sum(f, T \ {x}) /\ Sum(g, T) = g[x] + Sum(g, T \ {x})
          /\ Sum(h, T) = h[x] + Sum(h, T \ {x})
      BY <3>1, <3>2, SumRemove
    <3>4. Sum(h, T \ {x}) = Sum(f, T \ {x}) + Sum(g, T \ {x})
      BY <1>2, <3>1
    <3>5. /\ f[x] \in Int /\ g[x] \in Int /\ h[x] = f[x] + g[x]
          /\ Sum(f, T \ {x}) \in Int /\ Sum(g, T \ {x}) \in Int
      BY <1>1, <3>1, <3>2
    <3>6. Sum(h, T) = Sum(f, T) + Sum(g, T)
      BY <3>3, <3>4, <3>5
    <3> QED
      BY <3>6
  <2> QED
    BY <2>1, <2>2
<1> HIDE DEF P
<1>3. \A T \in SUBSET S : T \in P
  BY <1>2, FiniteInduction
<1> QED
  BY <1>3 DEF P

\* Summing over a part is summing over the whole with nothing for the rest.
LEMMA SumPart ==
    ASSUME NEW S, IsFiniteSet(S), NEW T \in SUBSET S, NEW f, NEW g,
           \A x \in T : f[x] \in Int /\ g[x] = f[x], \A x \in S \ T : g[x] = 0
    PROVE  Sum(f, T) = Sum(g, S)
<1> DEFINE P == {U \in SUBSET S : Sum(f, U \cap T) = Sum(g, U)}
<1>1. \A U \in SUBSET S : /\ IsFiniteSet(U) /\ IsFiniteSet(U \cap T)
                         /\ \A x \in U : g[x] \in Int
  BY FS_Subset
<1>2. ASSUME NEW U \in SUBSET S, \A x \in U : U \ {x} \in P PROVE U \in P
  <2>1. CASE U = {}
    <3>1. U \cap T = {}
      BY <2>1
    <3> QED
      BY <2>1, <3>1, SumEmpty
  <2>2. CASE U # {}
    <3>1. PICK x \in U : TRUE
      BY <2>2
    <3>2. Sum(g, U) = g[x] + Sum(g, U \ {x}) /\ Sum(g, U \ {x}) \in Int
      <4>1. IsFiniteSet(U) /\ IsFiniteSet(U \ {x}) /\ \A y \in U : g[y] \in Int
        BY <1>1, FS_Subset
      <4> QED
        BY <3>1, <4>1, SumRemove, SumType
    <3>3. Sum(f, (U \ {x}) \cap T) = Sum(g, U \ {x})
      BY <1>2, <3>1
    <3>4. Sum(f, U \cap T) = Sum(g, U)
      <4>1. CASE x \in T
        <5>1. (U \cap T) \ {x} = (U \ {x}) \cap T /\ x \in U \cap T /\ IsFiniteSet(U \cap T)
          BY <1>1, <3>1, <4>1
        <5>2. Sum(f, U \cap T) = f[x] + Sum(f, (U \cap T) \ {x})
          BY <5>1, SumRemove
        <5> QED
          BY <3>2, <3>3, <4>1, <5>1, <5>2
      <4>2. CASE x \notin T
        <5>1. U \cap T = (U \ {x}) \cap T /\ g[x] = 0
          BY <3>1, <4>2
        <5> QED
          BY <3>2, <3>3, <5>1
      <4> QED
        BY <4>1, <4>2
    <3> QED
      BY <3>4
  <2> QED
    BY <2>1, <2>2
<1> HIDE DEF P
<1>3. \A U \in SUBSET S : U \in P
  BY <1>2, FiniteInduction
<1>4. S \cap T = T
  OBVIOUS
<1> QED
  BY <1>3, <1>4 DEF P

\* Sums of values in order are in order, and a sum of naturals is one.
LEMMA SumOrder ==
    ASSUME NEW S, IsFiniteSet(S), NEW f, NEW g,
           \A x \in S : f[x] \in Int /\ g[x] \in Int /\ f[x] <= g[x]
    PROVE  Sum(f, S) <= Sum(g, S)
<1> DEFINE P == {T \in SUBSET S : Sum(f, T) <= Sum(g, T)}
<1>1. ASSUME NEW T \in SUBSET S, \A x \in T : T \ {x} \in P PROVE T \in P
  <2>1. CASE T = {}
    BY <2>1, SumEmpty
  <2>2. CASE T # {}
    <3>1. PICK x \in T : TRUE
      BY <2>2
    <3>2. /\ IsFiniteSet(T) /\ IsFiniteSet(T \ {x})
          /\ \A y \in T : f[y] \in Int /\ g[y] \in Int
      BY FS_Subset
    <3>3. Sum(f, T) = f[x] + Sum(f, T \ {x}) /\ Sum(g, T) = g[x] + Sum(g, T \ {x})
      BY <3>1, <3>2, SumRemove
    <3>4. Sum(f, T \ {x}) \in Int /\ Sum(g, T \ {x}) \in Int
      BY <3>2, SumType
    <3>5. Sum(f, T \ {x}) <= Sum(g, T \ {x}) /\ f[x] <= g[x] /\ f[x] \in Int /\ g[x] \in Int
      BY <1>1, <3>1
    <3>6. Sum(f, T) <= Sum(g, T)
      BY <3>3, <3>4, <3>5
    <3> QED
      BY <3>6
  <2> QED
    BY <2>1, <2>2
<1> HIDE DEF P
<1>2. \A T \in SUBSET S : T \in P
  BY <1>1, FiniteInduction
<1> QED
  BY <1>2 DEF P

LEMMA SumNat ==
    ASSUME NEW S, IsFiniteSet(S), NEW f, \A x \in S : f[x] \in Nat
    PROVE  Sum(f, S) \in Nat
<1> DEFINE P == {T \in SUBSET S : Sum(f, T) \in Nat}
<1>1. ASSUME NEW T \in SUBSET S, \A x \in T : T \ {x} \in P PROVE T \in P
  <2>1. CASE T = {}
    BY <2>1, SumEmpty
  <2>2. CASE T # {}
    <3>1. PICK x \in T : TRUE
      BY <2>2
    <3>2. Sum(f, T) = f[x] + Sum(f, T \ {x})
      <4>1. IsFiniteSet(T) /\ \A y \in T : f[y] \in Int
        BY FS_Subset
      <4> QED
        BY <3>1, <4>1, SumRemove
    <3>3. Sum(f, T \ {x}) \in Nat /\ f[x] \in Nat
      BY <1>1, <3>1
    <3> QED
      BY <3>2, <3>3
  <2> QED
    BY <2>1, <2>2
<1> HIDE DEF P
<1>2. \A T \in SUBSET S : T \in P
  BY <1>1, FiniteInduction
<1> QED
  BY <1>2 DEF P


-----------------------------------------------------------------------------
(* Loop invariants: J gives, for the elements done so far, the values a    *)
(* fold may then have.                                                     *)

\* There is a function that follows the fold and stays within J.
LEMMA FoldMeets ==
    ASSUME NEW S, IsFiniteSet(S), NEW base, NEW F, NEW C, NEW J,
           \A s \in SUBSET S : s # {} => C[s] \in s,
           base \in J[{}],
           \A s \in SUBSET S : s # {} => \A v \in J[s \ {C[s]}] : F[<<C[s], v>>] \in J[s]
    PROVE  \E g : Follows(g, S, base, F, C) /\ \A s \in SUBSET S : g[s] \in J[s]
<1>1. PICK g : Follows(g, S, base, F, C)
  BY FoldExists
<1> DEFINE P == {s \in SUBSET S : g[s] \in J[s]}
<1>2. ASSUME NEW T \in SUBSET S, \A x \in T : T \ {x} \in P PROVE T \in P
  <2>1. g[T] = IF T = {} THEN base ELSE F[<<C[T], g[T \ {C[T]}]>>]
    BY <1>1 DEF Follows
  <2>2. CASE T = {}
    BY <2>1, <2>2
  <2>3. CASE T # {}
    <3>1. g[T \ {C[T]}] \in J[T \ {C[T]}]
      BY <1>2, <2>3
    <3> QED
      BY <2>1, <2>3, <3>1
  <2> QED
    BY <2>2, <2>3
<1> HIDE DEF P
<1>3. \A T \in SUBSET S : T \in P
  BY <1>2, FiniteInduction
<1> QED
  BY <1>1, <1>3 DEF P

\* Any function whose values stay within J from one subset to the next does so
\* for all of S.
LEMMA FoldKeeps ==
    ASSUME NEW S, IsFiniteSet(S), NEW h, NEW C, NEW J,
           \A s \in SUBSET S : s # {} => C[s] \in s,
           h[{}] \in J[{}],
           \A s \in SUBSET S : s # {} /\ h[s \ {C[s]}] \in J[s \ {C[s]}] => h[s] \in J[s]
    PROVE  h[S] \in J[S]
<1> DEFINE P == {s \in SUBSET S : h[s] \in J[s]}
<1>1. ASSUME NEW T \in SUBSET S, \A x \in T : T \ {x} \in P PROVE T \in P
  <2>1. CASE T = {}
    BY <2>1
  <2>2. CASE T # {}
    <3>1. h[T \ {C[T]}] \in J[T \ {C[T]}]
      BY <1>1, <2>2
    <3> QED
      BY <2>2, <3>1
  <2> QED
    BY <2>1, <2>2
<1> HIDE DEF P
<1>2. \A T \in SUBSET S : T \in P
  BY <1>1, FiniteInduction
<1> QED
  BY <1>2 DEF P

\* The last index of a part of a sequence is one of them.
LEMMA MaxIsIn ==
    ASSUME NEW N \in Nat, NEW S \in SUBSET (1 .. N), S # {}
    PROVE  Max(S) \in S
<1> DEFINE B == {n \in Nat : \A y \in S : y <= n}
<1>1. N \in B
  OBVIOUS
<1>2. PICK m \in B : \A k \in B : m <= k
  BY <1>1, LeastNatural
<1>3. m \in S
  <2> SUFFICES ASSUME m \notin S PROVE FALSE
    OBVIOUS
  <2>1. \A y \in S : y \in Nat /\ y >= 1 /\ y <= m /\ y # m
    BY <1>2
  <2>2. m \in Nat /\ m >= 1
    <3>1. PICK y \in S : TRUE
      OBVIOUS
    <3>2. m \in Nat /\ y \in Nat /\ y >= 1 /\ y <= m
      BY <1>2, <2>1, <3>1
    <3> QED
      BY <3>2
  <2>3. m - 1 \in Nat /\ ~(m <= m - 1) /\ \A y \in S : y <= m - 1
    BY <2>1, <2>2
  <2>4. m - 1 \in B
    BY <2>3
  <2> QED
    BY <1>2, <2>3, <2>4
<1>4. \A y \in S : m >= y
  BY <1>2
<1> QED
  BY <1>3, <1>4 DEF Max
=============================================================================
