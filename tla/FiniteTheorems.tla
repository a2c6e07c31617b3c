----------------------------- MODULE FiniteTheorems -----------------------------
(***************************************************************************)
(* Least counterexamples, sums over finite sets, and what sorting and      *)
(* selecting make of them.                                                 *)
(***************************************************************************)
EXTENDS Selections, Sequences, FiniteSetsExt, FiniteSetTheorems, WellFoundedInduction, TLAPS

\* What is shown of all numbers, or of all subsets of a finite set, is shown by
\* looking at a smallest one for which it fails.
LEMMA LeastNumber ==
  ASSUME NEW T \in SUBSET Nat, T # {}
  PROVE  \E x \in T : \A y \in T : x <= y
<1> DEFINE R == OpToRel(<, Nat)
<1>1. IsWellFoundedOn(R, Nat)
  BY NatLessThanWellFounded
<1>2. \A x, y \in Nat : y < x => <<y, x>> \in R
  BY DEF OpToRel
<1> HIDE DEF R
<1>3. PICK x \in T : \A y \in T : ~(<<y, x>> \in R)
  BY <1>1, WFMin
<1>4. ASSUME NEW y \in T PROVE x <= y
  <2>1. x \in Nat /\ y \in Nat /\ <<y, x>> \notin R
    BY <1>3
  <2>2. ~(y < x)
    BY <1>2, <2>1
  <2>3. QED
    BY <2>1, <2>2
<1>5. QED
  BY <1>3, <1>4

\* What a number hands on to the next one, from 0 on, all have.
Inductive(Good, n) == 0 \in Good /\ \A i \in Nat : i < n /\ i \in Good => i + 1 \in Good

LEMMA Upward ==
  ASSUME NEW n \in Nat, NEW Good, Inductive(Good, n)
  PROVE  \A i \in 0..n : i \in Good
<1> DEFINE Bad == {i \in 0..n : i \notin Good}
<1>1. ASSUME Bad # {} PROVE FALSE
  <2>1. Bad \in SUBSET Nat
    OBVIOUS
  <2>2. PICK i \in Bad : \A j \in Bad : i <= j
    <3> HIDE DEF Bad
    <3>1. QED
      BY <1>1, <2>1, LeastNumber
  <2>3. i \in 0..n /\ i \notin Good /\ i # 0
    BY DEF Inductive
  <2>4. i - 1 \in Nat /\ i - 1 < n /\ i - 1 \in 0..n /\ ~(i <= i - 1) /\ i - 1 + 1 = i
    BY <2>3
  <2>5. i - 1 \in Good
    BY <2>2, <2>4
  <2>6. QED
    BY <2>3, <2>4, <2>5 DEF Inductive
<1>2. QED
  BY <1>1

(***************************************************************************)
(* Sums over a set, which MapThenSumSet takes in the order that CHOOSE      *)
(* gives.  The library has no theorem about it: what the proofs need, that  *)
(* the sum of a set with one element more is that much more, is shown by    *)
(* least counterexamples.                                                   *)
(***************************************************************************)

Total(W, S) == MapThenSumSet(LAMBDA s : W[s], S)

Chosen(T) == CHOOSE x \in T : TRUE

\* g sums up W over every subset of S, in that order.
Sums(g, W, S) ==
  g = [T \in SUBSET S |-> IF T = {} THEN 0 ELSE W[Chosen(T)] + g[T \ {Chosen(T)}]]

LEMMA ChosenIsMember == ASSUME NEW T, T # {} PROVE Chosen(T) \in T
BY DEF Chosen

LEMMA SumsUnfold ==
  ASSUME NEW g, NEW W, NEW S, Sums(g, W, S), NEW T \in SUBSET S
  PROVE  g[T] = IF T = {} THEN 0 ELSE W[Chosen(T)] + g[T \ {Chosen(T)}]
BY DEF Sums

LEMMA TotalUnfold ==
  ASSUME NEW g, NEW W, NEW S, Sums(g, W, S)
  PROVE  \E h : Sums(h, W, S) /\ Total(W, S) = h[S]
<1>1. Sums(CHOOSE h : Sums(h, W, S), W, S)
  OBVIOUS
<1>2. Total(W, S) = (CHOOSE h : Sums(h, W, S))[S]
  BY DEF Total, MapThenSumSet, MapThenFoldSet, Sums, Chosen
<1>3. QED
  BY <1>1, <1>2

\* The subsets of a finite set, and those with one element less.
LEMMA SubsetSizes ==
  ASSUME NEW U, IsFiniteSet(U)
  PROVE  \A T \in SUBSET U :
           /\ IsFiniteSet(T) /\ Cardinality(T) \in Nat /\ Cardinality(T) <= Cardinality(U)
           /\ Cardinality(T) = 0 <=> T = {}
           /\ \A x \in T : Cardinality(T \ {x}) = Cardinality(T) - 1
<1> SUFFICES ASSUME NEW T \in SUBSET U
             PROVE  /\ IsFiniteSet(T) /\ Cardinality(T) \in Nat
                    /\ Cardinality(T) <= Cardinality(U)
                    /\ Cardinality(T) = 0 <=> T = {}
                    /\ \A x \in T : Cardinality(T \ {x}) = Cardinality(T) - 1
  OBVIOUS
<1>1. IsFiniteSet(T) /\ Cardinality(T) <= Cardinality(U)
  BY FS_Subset
<1>2. Cardinality(T) \in Nat
  BY <1>1, FS_CardinalityType
<1>3. Cardinality(T) = 0 <=> T = {}
  BY <1>1, FS_EmptySet
<1>4. ASSUME NEW x \in T PROVE Cardinality(T \ {x}) = Cardinality(T) - 1
  <2>1. Cardinality(T \ {x}) = IF x \in T THEN Cardinality(T) - 1 ELSE Cardinality(T)
    BY <1>1, FS_RemoveElement
  <2>2. QED
    BY <2>1
<1>5. QED
  BY <1>1, <1>2, <1>3, <1>4

\* A set of subsets, with one in it.
Family(B, U) == B \in SUBSET (SUBSET U) /\ B # {}

\* What fails for some subset of a finite set fails for one whose subsets with one
\* element less are right.
LEMMA SmallestBad ==
  ASSUME NEW A, IsFiniteSet(A), NEW Bad, Family(Bad, A)
  PROVE  \E T \in Bad : \A x \in T : \A V \in Bad : V # T \ {x}
<1>1. {Cardinality(T) : T \in Bad} \in SUBSET Nat /\ {Cardinality(T) : T \in Bad} # {}
  BY SubsetSizes DEF Family
<1>2. PICK n \in {Cardinality(T) : T \in Bad} : \A m \in {Cardinality(T) : T \in Bad} : n <= m
  BY <1>1, LeastNumber
<1>3. PICK T \in Bad : n = Cardinality(T)
  BY <1>2
<1>4. ASSUME NEW x \in T, T \ {x} \in Bad PROVE FALSE
  <2>1. Cardinality(T \ {x}) = Cardinality(T) - 1 /\ Cardinality(T) \in Nat
    BY SubsetSizes DEF Family
  <2>2. Cardinality(T) <= Cardinality(T \ {x})
    BY <1>2, <1>3, <1>4
  <2>3. QED
    BY <2>1, <2>2
<1>5. QED
  BY <1>4

\* A sum exists for every finite set: each size of subsets extends the one below.
LEMMA SumsExist ==
  ASSUME NEW U, IsFiniteSet(U), NEW W \in [U -> Nat]
  PROVE  \E g \in [SUBSET U -> Nat] : Sums(g, W, U)
<1> DEFINE Unfold(g, T) == IF T = {} THEN 0 ELSE W[Chosen(T)] + g[T \ {Chosen(T)}]
           Right(g, n) == \A T \in SUBSET U : Cardinality(T) <= n => g[T] = Unfold(g, T)
           Bad == {n \in Nat : ~\E g \in [SUBSET U -> Nat] : Right(g, n)}
<1>1. ASSUME Bad # {} PROVE FALSE
  <2>1. PICK n \in Bad : \A m \in Bad : n <= m
    BY <1>1, LeastNumber
  <2>2. n \in Nat
    OBVIOUS
  <2>3. n # 0
    <3>1. [T \in SUBSET U |-> 0] \in [SUBSET U -> Nat]
      OBVIOUS
    <3>2. \A T \in SUBSET U : Cardinality(T) <= 0 => T = {}
      BY SubsetSizes
    <3>3. Right([T \in SUBSET U |-> 0], 0)
      BY <3>2
    <3>4. 0 \notin Bad
      BY <3>1, <3>3
    <3>5. QED
      BY <3>4
  <2>4. n - 1 \in Nat /\ n - 1 \notin Bad
    <3>1. n - 1 \in Nat /\ ~(n <= n - 1)
      BY <2>2, <2>3
    <3> HIDE DEF Bad
    <3>2. QED
      BY <2>1, <3>1
  <2>5. PICK g \in [SUBSET U -> Nat] : Right(g, n - 1)
    BY <2>4
  <2> DEFINE h == [T \in SUBSET U |-> IF Cardinality(T) = n THEN Unfold(g, T) ELSE g[T]]
  <2>6. \A T \in SUBSET U : T # {} =>
          /\ Chosen(T) \in T /\ W[Chosen(T)] \in Nat /\ T \ {Chosen(T)} \in SUBSET U
          /\ Cardinality(T \ {Chosen(T)}) = Cardinality(T) - 1 /\ Cardinality(T) \in Nat
    BY ChosenIsMember, SubsetSizes
  <2>7. h \in [SUBSET U -> Nat]
    BY <2>6
  <2>8. ASSUME NEW T \in SUBSET U, Cardinality(T) <= n PROVE h[T] = Unfold(h, T)
    <3>1. h[T] = Unfold(g, T)
      <4>1. CASE Cardinality(T) = n
        BY <4>1
      <4>2. CASE Cardinality(T) # n
        <5>1. Cardinality(T) <= n - 1
          <6>1. Cardinality(T) \in Nat
            BY SubsetSizes
          <6>2. QED
            BY <2>2, <2>8, <4>2, <6>1
        <5>2. g[T] = Unfold(g, T)
          BY <2>5, <5>1
        <5>3. QED
          BY <4>2, <5>2
      <4>3. QED
        BY <4>1, <4>2
    <3>2. CASE T = {}
      BY <3>1, <3>2
    <3>3. CASE T # {}
      <4>1. T \ {Chosen(T)} \in SUBSET U /\ Cardinality(T \ {Chosen(T)}) # n
        BY <2>2, <2>6, <2>8, <3>3
      <4>2. h[T \ {Chosen(T)}] = g[T \ {Chosen(T)}]
        BY <4>1
      <4>3. QED
        BY <3>1, <3>3, <4>2
    <3>4. QED
      BY <3>2, <3>3
  <2>9. Right(h, n)
    BY <2>8
  <2> HIDE DEF h, Right
  <2>10. QED
    BY <2>1, <2>7, <2>9
<1>2. Cardinality(U) \in Nat
  BY FS_CardinalityType
<1>3. PICK g \in [SUBSET U -> Nat] : Right(g, Cardinality(U))
  BY <1>1, <1>2
<1>4. \A T \in SUBSET U : g[T] = Unfold(g, T)
  BY <1>3, SubsetSizes
<1>5. g = [T \in SUBSET U |-> Unfold(g, T)]
  BY <1>4
<1>6. QED
  BY <1>5 DEF Sums

\* Two sums agree on a set on which what they sum up agrees.
LEMMA SumsAgree ==
  ASSUME NEW U, NEW V, NEW W, NEW X, NEW g, NEW h, Sums(g, W, U), Sums(h, X, V),
         NEW S, IsFiniteSet(S), S \subseteq U, S \subseteq V, \A s \in S : W[s] = X[s]
  PROVE  g[S] = h[S]
<1> DEFINE Bad == {T \in SUBSET S : g[T] # h[T]}
<1>1. ASSUME Bad # {} PROVE FALSE
  <2>1. PICK T \in Bad : \A x \in T : \A Z \in Bad : Z # T \ {x}
    <3>1. Family(Bad, S)
      BY <1>1 DEF Family
    <3> HIDE DEF Bad
    <3>2. QED
      BY <3>1, SmallestBad
  <2>2. T \in SUBSET S /\ T \in SUBSET U /\ T \in SUBSET V /\ g[T] # h[T]
    OBVIOUS
  <2>3. /\ g[T] = IF T = {} THEN 0 ELSE W[Chosen(T)] + g[T \ {Chosen(T)}]
        /\ h[T] = IF T = {} THEN 0 ELSE X[Chosen(T)] + h[T \ {Chosen(T)}]
    <3>1. g[T] = IF T = {} THEN 0 ELSE W[Chosen(T)] + g[T \ {Chosen(T)}]
      BY <2>2, SumsUnfold
    <3>2. h[T] = IF T = {} THEN 0 ELSE X[Chosen(T)] + h[T \ {Chosen(T)}]
      BY <2>2, SumsUnfold
    <3>3. QED
      BY <3>1, <3>2
  <2>4. T # {}
    BY <2>2, <2>3
  <2>5. Chosen(T) \in T /\ T \ {Chosen(T)} \in SUBSET S
    BY <2>2, <2>4, ChosenIsMember
  <2>6. g[T \ {Chosen(T)}] = h[T \ {Chosen(T)}]
    BY <2>1, <2>5
  <2>7. W[Chosen(T)] = X[Chosen(T)]
    BY <2>2, <2>5
  <2>8. QED
    BY <2>2, <2>3, <2>4, <2>6, <2>7
<1>2. QED
  BY <1>1

\* The total of a set is what any sum over a larger set says of it.
LEMMA TotalIsSum ==
  ASSUME NEW U, NEW W, NEW g, Sums(g, W, U), NEW S \in SUBSET U, IsFiniteSet(S)
  PROVE  Total(W, S) = g[S]
<1> DEFINE r == [T \in SUBSET S |-> g[T]]
<1>1. \A T \in SUBSET S : T # {} => T \ {Chosen(T)} \in SUBSET S
  OBVIOUS
<1>2. \A T \in SUBSET S : g[T] = IF T = {} THEN 0 ELSE W[Chosen(T)] + g[T \ {Chosen(T)}]
  BY SumsUnfold
<1>3. \A T \in SUBSET S : r[T] = IF T = {} THEN 0 ELSE W[Chosen(T)] + r[T \ {Chosen(T)}]
  BY <1>1, <1>2
<1>4. r = [T \in SUBSET S |-> IF T = {} THEN 0 ELSE W[Chosen(T)] + r[T \ {Chosen(T)}]]
  BY <1>3
<1>5. Sums(r, W, S)
  BY <1>4 DEF Sums
<1>6. PICK h : Sums(h, W, S) /\ Total(W, S) = h[S]
  BY <1>5, TotalUnfold
<1>7. g[S] = h[S]
  BY <1>6, SumsAgree
<1>8. QED
  BY <1>6, <1>7

\* The order does not matter: any element may be the one taken first.
AnyFirst(g, W, U) == \A S \in SUBSET U : \A x \in S : g[S] = W[x] + g[S \ {x}]

LEMMA SumsExchange ==
  ASSUME NEW U, IsFiniteSet(U), NEW W, NEW g, Sums(g, W, U),
         \A y \in U : W[y] \in Nat, \A T \in SUBSET U : g[T] \in Nat
  PROVE  AnyFirst(g, W, U)
<1> DEFINE Wrong(T) == \E y \in T : g[T] # W[y] + g[T \ {y}]
           Bad == {T \in SUBSET U : Wrong(T)}
<1>1. Bad # {} => Family(Bad, U)
  BY DEF Family
<1>2. Bad # {} => \E T \in Bad : \A y \in T : \A Z \in Bad : Z # T \ {y}
  <2> HIDE DEF Bad
  <2>1. QED
    BY <1>1, SmallestBad
<1>3. ASSUME Bad # {} PROVE FALSE
  <2>1. PICK T \in Bad : \A y \in T : \A Z \in Bad : Z # T \ {y}
    BY <1>2, <1>3
  <2>2. PICK y \in T : g[T] # W[y] + g[T \ {y}]
    OBVIOUS
  <2> DEFINE c == Chosen(T)
             rest == T \ {c, y}
  <2>3. c \in T
    BY ChosenIsMember
  <2>4. g[T] = W[c] + g[T \ {c}]
    BY SumsUnfold
  <2> HIDE DEF c
  <2>5. c # y
    BY <2>2, <2>4
  <2>6. T \ {c} \notin Bad /\ T \ {y} \notin Bad
    BY <2>1, <2>3
  <2>7. (T \ {c}) \ {y} = rest /\ (T \ {y}) \ {c} = rest
    OBVIOUS
  <2>8. g[T \ {c}] = W[y] + g[rest]
    BY <2>5, <2>6, <2>7
  <2>9. g[T \ {y}] = W[c] + g[rest]
    BY <2>3, <2>5, <2>6, <2>7
  <2>10. W[c] \in Nat /\ W[y] \in Nat /\ g[rest] \in Nat
    BY <2>3
  <2> HIDE DEF rest
  <2>11. g[T] = W[y] + g[T \ {y}]
    BY <2>4, <2>8, <2>9, <2>10
  <2>12. QED
    BY <2>2, <2>11
<1>4. QED
  BY <1>3 DEF AnyFirst

\* One element more, whatever was recorded of it before.
LEMMA TotalGrows ==
  ASSUME NEW U, IsFiniteSet(U), NEW W \in [U -> Nat], NEW X \in [U -> Nat],
         NEW S \in SUBSET U, NEW x \in U \ S, \A s \in S : W[s] = X[s]
  PROVE  Total(X, S \cup {x}) = Total(W, S) + X[x]
<1>2. PICK g \in [SUBSET U -> Nat] : Sums(g, W, U)
  BY SumsExist
<1>3. PICK h \in [SUBSET U -> Nat] : Sums(h, X, U)
  BY SumsExist
<1>4. S \cup {x} \in SUBSET U /\ (S \cup {x}) \ {x} = S /\ x \in S \cup {x}
  OBVIOUS
<1>5. IsFiniteSet(S) /\ IsFiniteSet(S \cup {x})
  BY <1>4, SubsetSizes
<1>6. g[S] = h[S]
  BY <1>2, <1>3, <1>5, SumsAgree
<1>7. h[S \cup {x}] = X[x] + h[S]
  <2>1. (\A y \in U : X[y] \in Nat) /\ (\A T \in SUBSET U : h[T] \in Nat)
    OBVIOUS
  <2>2. AnyFirst(h, X, U)
    BY <1>3, <2>1, SumsExchange
  <2>3. QED
    BY <1>4, <2>2 DEF AnyFirst
<1>8. Total(W, S) = g[S]
  BY <1>2, <1>5, TotalIsSum
<1>9. Total(X, S \cup {x}) = h[S \cup {x}]
  BY <1>3, <1>4, <1>5, TotalIsSum
<1>10. g[S] \in Nat /\ X[x] \in Nat
  OBVIOUS
<1>11. QED
  BY <1>6, <1>7, <1>8, <1>9, <1>10

LEMMA TotalOfNone == ASSUME NEW W PROVE Total(W, {}) = 0
<1> DEFINE z == [T \in SUBSET {} |-> 0]
<1>1. z = [T \in SUBSET {} |-> IF T = {} THEN 0 ELSE W[Chosen(T)] + z[T \ {Chosen(T)}]]
  OBVIOUS
<1>2. Sums(z, W, {})
  BY <1>1 DEF Sums
<1>3. Total(W, {}) = z[{}]
  BY <1>2, FS_EmptySet, TotalIsSum
<1>4. QED
  BY <1>3

\* What the next lemmas use of all this: any element can be taken from a total.
LEMMA TotalTakes ==
  ASSUME NEW U, IsFiniteSet(U), NEW W \in [U -> Nat]
  PROVE  \A S \in SUBSET U :
           /\ Total(W, S) \in Nat
           /\ \A x \in S : Total(W, S) = W[x] + Total(W, S \ {x})
<1>1. PICK g \in [SUBSET U -> Nat] : Sums(g, W, U)
  BY SumsExist
<1>2. (\A y \in U : W[y] \in Nat) /\ (\A T \in SUBSET U : g[T] \in Nat)
  OBVIOUS
<1>3. AnyFirst(g, W, U)
  BY <1>1, <1>2, SumsExchange
<1>4. \A S \in SUBSET U : Total(W, S) = g[S]
  BY <1>1, TotalIsSum, SubsetSizes
<1>5. ASSUME NEW S \in SUBSET U, NEW x \in S PROVE Total(W, S) = W[x] + Total(W, S \ {x})
  <2>1. S \ {x} \in SUBSET U
    OBVIOUS
  <2>2. g[S] = W[x] + g[S \ {x}]
    BY <1>3 DEF AnyFirst
  <2>3. QED
    BY <1>4, <2>1, <2>2
<1>6. QED
  BY <1>2, <1>4, <1>5

\* The same values under other names come to the same.
LEMMA TotalReindexed ==
  ASSUME NEW U, IsFiniteSet(U), NEW V, IsFiniteSet(V), NEW W \in [U -> Nat], NEW X \in [V -> Nat],
         NEW p \in [V -> U], \A v, w \in V : p[v] = p[w] => v = w, \A v \in V : X[v] = W[p[v]]
  PROVE  \A T \in SUBSET V : Total(X, T) = Total(W, {p[v] : v \in T})
<1> DEFINE Named(T) == {p[v] : v \in T}
           Bad == {T \in SUBSET V : Total(X, T) # Total(W, Named(T))}
<1>1. ASSUME Bad # {} PROVE FALSE
  <2>1. PICK T \in Bad : \A x \in T : \A Z \in Bad : Z # T \ {x}
    <3>1. Family(Bad, V)
      BY <1>1 DEF Family
    <3> HIDE DEF Bad
    <3>2. QED
      BY <3>1, SmallestBad
  <2>2. T \in SUBSET V /\ Total(X, T) # Total(W, Named(T))
    OBVIOUS
  <2>3. T # {}
    <3>1. Named({}) = {}
      OBVIOUS
    <3> HIDE DEF Bad, Named
    <3>2. Total(X, {}) = 0 /\ Total(W, {}) = 0
      BY TotalOfNone
    <3>3. QED
      BY <2>2, <3>1, <3>2
  <2>4. PICK x \in T : TRUE
    BY <2>3
  <2>5. T \ {x} \in SUBSET V /\ T \ {x} \notin Bad
    BY <2>1, <2>2, <2>4
  <2>6. Total(X, T \ {x}) = Total(W, Named(T \ {x}))
    BY <2>5
  <2>7. Named(T) \in SUBSET U /\ p[x] \in Named(T) /\ Named(T) \ {p[x]} = Named(T \ {x})
    BY <2>2, <2>4
  <2> HIDE DEF Bad, Named
  <2>8. Total(X, T) = X[x] + Total(X, T \ {x})
    BY <2>2, <2>4, TotalTakes
  <2>9. Total(W, Named(T)) = W[p[x]] + Total(W, Named(T) \ {p[x]})
    BY <2>7, TotalTakes
  <2>10. X[x] = W[p[x]]
    BY <2>2, <2>4
  <2>11. QED
    BY <2>2, <2>6, <2>7, <2>8, <2>9, <2>10
<1>2. QED
  BY <1>1

LEMMA TotalsAdd ==
  ASSUME NEW U, IsFiniteSet(U), NEW W \in [U -> Nat], NEW X \in [U -> Nat], NEW Y \in [U -> Nat],
         \A u \in U : Y[u] = W[u] + X[u]
  PROVE  \A T \in SUBSET U : Total(Y, T) = Total(W, T) + Total(X, T)
<1> DEFINE Bad == {T \in SUBSET U : Total(Y, T) # Total(W, T) + Total(X, T)}
<1>1. ASSUME Bad # {} PROVE FALSE
  <2>1. PICK T \in Bad : \A x \in T : \A Z \in Bad : Z # T \ {x}
    <3>1. Family(Bad, U)
      BY <1>1 DEF Family
    <3> HIDE DEF Bad
    <3>2. QED
      BY <3>1, SmallestBad
  <2>2. T \in SUBSET U /\ Total(Y, T) # Total(W, T) + Total(X, T)
    OBVIOUS
  <2>3. T # {}
    <3> HIDE DEF Bad
    <3>1. Total(W, {}) = 0 /\ Total(X, {}) = 0 /\ Total(Y, {}) = 0
      BY TotalOfNone
    <3>2. Total(Y, {}) = Total(W, {}) + Total(X, {})
      BY <3>1
    <3>3. QED
      BY <2>2, <3>2
  <2>4. PICK x \in T : TRUE
    BY <2>3
  <2>5. T \ {x} \in SUBSET U /\ T \ {x} \notin Bad
    BY <2>1, <2>2, <2>4
  <2>6. Total(Y, T \ {x}) = Total(W, T \ {x}) + Total(X, T \ {x})
    BY <2>5
  <2> HIDE DEF Bad
  <2>7. /\ Total(Y, T) = Y[x] + Total(Y, T \ {x})
        /\ Total(W, T) = W[x] + Total(W, T \ {x}) /\ Total(W, T \ {x}) \in Nat
        /\ Total(X, T) = X[x] + Total(X, T \ {x}) /\ Total(X, T \ {x}) \in Nat
    BY <2>2, <2>4, <2>5, TotalTakes
  <2>8. Y[x] = W[x] + X[x] /\ W[x] \in Nat /\ X[x] \in Nat
    BY <2>2, <2>4
  <2>9. QED
    BY <2>2, <2>6, <2>7, <2>8
<1>2. QED
  BY <1>1

LEMMA TotalOfSame ==
  ASSUME NEW U, IsFiniteSet(U), NEW k \in Nat, NEW W \in [U -> Nat], \A u \in U : W[u] = k
  PROVE  \A T \in SUBSET U : Total(W, T) = k * Cardinality(T)
<1> DEFINE Bad == {T \in SUBSET U : Total(W, T) # k * Cardinality(T)}
<1>1. ASSUME Bad # {} PROVE FALSE
  <2>1. PICK T \in Bad : \A x \in T : \A Z \in Bad : Z # T \ {x}
    <3>1. Family(Bad, U)
      BY <1>1 DEF Family
    <3> HIDE DEF Bad
    <3>2. QED
      BY <3>1, SmallestBad
  <2>2. T \in SUBSET U /\ Total(W, T) # k * Cardinality(T)
    OBVIOUS
  <2>3. T # {}
    <3>1. Total(W, {}) = 0 /\ Cardinality({}) = 0
      BY TotalOfNone, FS_EmptySet
    <3>2. k * 0 = 0
      OBVIOUS
    <3>3. QED
      BY <2>2, <3>1, <3>2
  <2>4. PICK x \in T : TRUE
    BY <2>3
  <2>5. T \ {x} \in SUBSET U /\ T \ {x} \notin Bad
    BY <2>1, <2>2, <2>4
  <2>6. Total(W, T \ {x}) = k * Cardinality(T \ {x})
    BY <2>5
  <2> HIDE DEF Bad
  <2>7. Total(W, T) = W[x] + Total(W, T \ {x}) /\ W[x] = k
    BY <2>2, <2>4, TotalTakes
  <2>8. Cardinality(T \ {x}) = Cardinality(T) - 1 /\ Cardinality(T) \in Nat
    BY <2>2, <2>4, SubsetSizes
  <2>9. Total(W, T) = k + k * (Cardinality(T) - 1)
    BY <2>6, <2>7, <2>8
  <2>10. \A n \in Nat : k + k * (n - 1) = k * n
    OBVIOUS
  <2>11. QED
    BY <2>2, <2>8, <2>9, <2>10
<1>2. QED
  BY <1>1

\* More elements come to as much, or more.
LEMMA TotalMonotone ==
  ASSUME NEW U, IsFiniteSet(U), NEW W \in [U -> Nat]
  PROVE  \A T \in SUBSET U : \A S \in SUBSET T : Total(W, S) <= Total(W, T)
<1> DEFINE More(T) == \A S \in SUBSET T : Total(W, S) <= Total(W, T)
           Bad == {T \in SUBSET U : ~More(T)}
<1>1. ASSUME Bad # {} PROVE FALSE
  <2>1. PICK T \in Bad : \A x \in T : \A Z \in Bad : Z # T \ {x}
    <3>1. Family(Bad, U)
      BY <1>1 DEF Family
    <3> HIDE DEF Bad
    <3>2. QED
      BY <3>1, SmallestBad
  <2>2. T \in SUBSET U /\ ~More(T)
    OBVIOUS
  <2>3. PICK S \in SUBSET T : ~(Total(W, S) <= Total(W, T))
    BY <2>2
  <2>4. \A Z \in SUBSET U : Total(W, Z) \in Nat
    BY TotalTakes
  <2>5. S # T
    BY <2>2, <2>3, <2>4
  <2>6. PICK x \in T : x \notin S
    BY <2>3, <2>5
  <2>7. T \ {x} \in SUBSET U /\ T \ {x} \notin Bad /\ S \in SUBSET (T \ {x})
    BY <2>1, <2>2, <2>3, <2>6
  <2>8. Total(W, S) <= Total(W, T \ {x})
    BY <2>7
  <2> HIDE DEF Bad, More
  <2>9. Total(W, T) = W[x] + Total(W, T \ {x}) /\ W[x] \in Nat
    BY <2>2, <2>6, TotalTakes
  <2>10. Total(W, S) \in Nat /\ Total(W, T) \in Nat /\ Total(W, T \ {x}) \in Nat
    BY <2>2, <2>4, <2>7
  <2>11. QED
    BY <2>3, <2>8, <2>9, <2>10
<1>2. QED
  BY <1>1

\* A total is of the values at the elements, whatever else there are values for.
LEMMA TotalAgrees ==
  ASSUME NEW U, IsFiniteSet(U), NEW S \in SUBSET U, NEW W \in [U -> Nat], NEW X \in [S -> Nat],
         \A s \in S : X[s] = W[s]
  PROVE  Total(X, S) = Total(W, S)
<1>1. IsFiniteSet(S)
  BY SubsetSizes
<1>2. PICK g \in [SUBSET U -> Nat] : Sums(g, W, U)
  BY SumsExist
<1>3. PICK h \in [SUBSET S -> Nat] : Sums(h, X, S)
  BY <1>1, SumsExist
<1>4. g[S] = h[S]
  BY <1>1, <1>2, <1>3, SumsAgree
<1>5. Total(W, S) = g[S]
  BY <1>1, <1>2, TotalIsSum
<1>6. Total(X, S) = h[S]
  BY <1>1, <1>3, TotalIsSum
<1>7. QED
  BY <1>4, <1>5, <1>6

(***************************************************************************)
(* The lemmas above for what they are used for, with their conditions named: *)
(* the provers find a named condition, where they do not find a quantified.  *)
(***************************************************************************)

\* X has W's values, with each of S's elements under another's name.
Renamed(X, W, p, S) ==
  /\ W \in [S -> Nat] /\ X \in [S -> Nat] /\ p \in [S -> S]
  /\ \A s \in S : \E r \in S : p[r] = s
  /\ \A r, s \in S : p[r] = p[s] => r = s
  /\ \A s \in S : X[s] = W[p[s]]

LEMMA TotalOfRenamed ==
  ASSUME NEW S, IsFiniteSet(S), NEW W, NEW X, NEW p, Renamed(X, W, p, S)
  PROVE  Total(X, S) = Total(W, S) /\ Total(X, S) \in Nat
<1>1. W \in [S -> Nat] /\ X \in [S -> Nat] /\ p \in [S -> S] /\ S \in SUBSET S
  BY DEF Renamed
<1>2. \A v, w \in S : p[v] = p[w] => v = w
  BY DEF Renamed
<1>3. \A v \in S : X[v] = W[p[v]]
  BY DEF Renamed
<1>4. \A T \in SUBSET S : Total(X, T) = Total(W, {p[v] : v \in T})
  BY <1>1, <1>2, <1>3, TotalReindexed
<1>5. {p[v] : v \in S} = S
  BY <1>1 DEF Renamed
<1>6. Total(X, S) \in Nat
  BY <1>1, TotalTakes
<1>7. QED
  BY <1>1, <1>4, <1>5, <1>6

\* X is W on a part of W's elements.
PartOf(X, W, S, U) ==
  S \in SUBSET U /\ W \in [U -> Nat] /\ X \in [S -> Nat] /\ \A s \in S : X[s] = W[s]

LEMMA TotalOfPart ==
  ASSUME NEW U, IsFiniteSet(U), NEW W, NEW X, NEW S, PartOf(X, W, S, U)
  PROVE  /\ Total(X, S) = Total(W, S) /\ Total(X, S) \in Nat
         /\ Total(X, S) <= Total(W, U) /\ Total(W, U) \in Nat
<1>1. S \in SUBSET U /\ W \in [U -> Nat] /\ X \in [S -> Nat] /\ U \in SUBSET U
  BY DEF PartOf
<1>2. \A s \in S : X[s] = W[s]
  BY DEF PartOf
<1>3. Total(X, S) = Total(W, S)
  BY <1>1, <1>2, TotalAgrees
<1>4. Total(W, S) \in Nat /\ Total(W, U) \in Nat
  BY <1>1, TotalTakes
<1>5. Total(W, S) <= Total(W, U)
  BY <1>1, TotalMonotone
<1>6. QED
  BY <1>3, <1>4, <1>5

\* Y is W with k more for each element.
More(Y, W, U, k) == W \in [U -> Nat] /\ Y \in [U -> Nat] /\ \A u \in U : Y[u] = W[u] + k

LEMMA TotalOfMore ==
  ASSUME NEW U, IsFiniteSet(U), NEW W, NEW Y, NEW k \in Nat, More(Y, W, U, k)
  PROVE  /\ Total(Y, U) = Total(W, U) + k * Cardinality(U)
         /\ Total(W, U) \in Nat
<1> DEFINE extra == [u \in U |-> k]
<1>1. W \in [U -> Nat] /\ Y \in [U -> Nat] /\ extra \in [U -> Nat] /\ U \in SUBSET U
  BY DEF More
<1>2. \A u \in U : Y[u] = W[u] + extra[u]
  BY DEF More
<1>3. \A u \in U : extra[u] = k
  OBVIOUS
<1> HIDE DEF extra
<1>4. \A T \in SUBSET U : Total(Y, T) = Total(W, T) + Total(extra, T)
  BY <1>1, <1>2, TotalsAdd
<1>5. \A T \in SUBSET U : Total(extra, T) = k * Cardinality(T)
  BY <1>1, <1>3, TotalOfSame
<1>6. Total(W, U) \in Nat
  BY <1>1, TotalTakes
<1>7. QED
  BY <1>1, <1>4, <1>5, <1>6

\* Any element can be taken from a total of a part.
Takes(W, U) ==
  \A S \in SUBSET U : /\ Total(W, S) \in Nat
                      /\ \A x \in S : Total(W, S) = W[x] + Total(W, S \ {x})

LEMMA TotalsTake ==
  ASSUME NEW U, IsFiniteSet(U), NEW W \in [U -> Nat]
  PROVE  Takes(W, U)
<1>1. \A S \in SUBSET U : /\ Total(W, S) \in Nat
                          /\ \A x \in S : Total(W, S) = W[x] + Total(W, S \ {x})
  BY TotalTakes
<1>2. QED
  BY <1>1 DEF Takes
(***************************************************************************)
(* Ranks.  Sorting and selecting put at place n the element that has n - 1  *)
(* before it; that there is one, and only one, is what a total order says.  *)
(***************************************************************************)

LEMMA NumbersTo ==
  ASSUME NEW n \in Nat
  PROVE  IsFiniteSet(1..n) /\ Cardinality(1..n) = n
<1>1. IsFiniteSet(1..n) /\ Cardinality(1..n) = IF 1 > n THEN 0 ELSE n - 1 + 1
  BY FS_Interval
<1>2. QED
  BY <1>1

\* below[s] is what comes before s in a total order of S.
TotalOrder(below, S) ==
  /\ \A s \in S : below[s] \subseteq S \ {s}
  /\ \A s, t \in S : s # t => s \in below[t] \/ t \in below[s]
  /\ \A s, t \in S : s \in below[t] => below[s] \subseteq below[t]

Rank(below, s) == Cardinality(below[s]) + 1

LEMMA RanksDiffer ==
  ASSUME NEW S, IsFiniteSet(S), NEW below, TotalOrder(below, S)
  PROVE  /\ \A s \in S : Rank(below, s) \in 1..Cardinality(S)
         /\ \A s, t \in S : s \in below[t] => Rank(below, s) < Rank(below, t)
         /\ \A s, t \in S : Rank(below, s) = Rank(below, t) => s = t
<1>1. ASSUME NEW s \in S
      PROVE  /\ IsFiniteSet(below[s]) /\ Cardinality(below[s]) \in Nat
             /\ Cardinality(below[s]) <= Cardinality(S) - 1
  <2>1. below[s] \in SUBSET (S \ {s})
    BY DEF TotalOrder
  <2>2. IsFiniteSet(S \ {s}) /\ Cardinality(S \ {s}) = Cardinality(S) - 1
    <3>1. Cardinality(S \ {s}) = IF s \in S THEN Cardinality(S) - 1 ELSE Cardinality(S)
      BY FS_RemoveElement
    <3>2. IsFiniteSet(S \ {s})
      BY FS_RemoveElement
    <3>3. QED
      BY <3>1, <3>2
  <2>3. IsFiniteSet(below[s]) /\ Cardinality(below[s]) <= Cardinality(S \ {s})
    BY <2>1, <2>2, FS_Subset
  <2>4. Cardinality(below[s]) \in Nat
    BY <2>3, FS_CardinalityType
  <2>5. QED
    BY <2>2, <2>3, <2>4
<1>2. ASSUME NEW s \in S, NEW t \in S, s \in below[t] PROVE Rank(below, s) < Rank(below, t)
  <2>1. below[s] \cup {s} \in SUBSET below[t] /\ s \notin below[s]
    BY <1>2 DEF TotalOrder
  <2>2. Cardinality(below[s] \cup {s}) = Cardinality(below[s]) + 1
    <3>1. Cardinality(below[s] \cup {s}) =
            IF s \in below[s] THEN Cardinality(below[s]) ELSE Cardinality(below[s]) + 1
      BY <1>1, FS_AddElement
    <3>2. QED
      BY <2>1, <3>1
  <2>3. Cardinality(below[s] \cup {s}) <= Cardinality(below[t])
    BY <1>1, <2>1, FS_Subset
  <2>4. Cardinality(below[s]) \in Nat /\ Cardinality(below[t]) \in Nat
    BY <1>1
  <2>5. QED
    BY <2>2, <2>3, <2>4 DEF Rank
<1>3. \A s \in S : Rank(below, s) \in 1..Cardinality(S)
  <2>1. Cardinality(S) \in Nat
    BY FS_CardinalityType
  <2>2. QED
    BY <1>1, <2>1 DEF Rank
<1>4. ASSUME NEW s \in S, NEW t \in S, Rank(below, s) = Rank(below, t), s # t PROVE FALSE
  <2>1. Rank(below, s) \in Nat /\ Rank(below, t) \in Nat
    BY <1>1 DEF Rank
  <2>2. s \in below[t] \/ t \in below[s]
    BY <1>4 DEF TotalOrder
  <2>3. QED
    BY <1>2, <1>4, <2>1, <2>2
<1>5. QED
  BY <1>2, <1>3, <1>4

LEMMA RanksFill ==
  ASSUME NEW S, IsFiniteSet(S), NEW below, TotalOrder(below, S)
  PROVE  \A n \in 1..Cardinality(S) : \E s \in S : Rank(below, s) = n
<1> DEFINE rank == [s \in S |-> Rank(below, s)]
           places == 1..Cardinality(S)
<1>1. Cardinality(S) \in Nat
  BY FS_CardinalityType
<1>2. rank \in [S -> places] /\ \A s, t \in S : rank[s] = rank[t] => s = t
  BY RanksDiffer
<1>3. rank \in Injection(S, places)
  <2> HIDE DEF rank, places
  <2>1. QED
    BY <1>2 DEF Injection, IsInjective
<1>4. IsFiniteSet(places) /\ Cardinality(places) = Cardinality(S)
  BY <1>1, NumbersTo
<1>5. rank \in Surjection(S, places)
  <2> HIDE DEF rank, places
  <2>1. QED
    BY <1>3, <1>4, FS_Injection
<1>6. \A n \in places : \E s \in S : rank[s] = n
  <2> HIDE DEF rank, places
  <2>1. QED
    BY <1>5 DEF Surjection
<1>7. QED
  BY <1>6

\* At each place there is what has that many before it, if anything has.
Placed(place, below, S) ==
  \A n \in 1..Cardinality(S) :
    (\E s \in S : Cardinality(below[s]) = n - 1) =>
      place[n] \in S /\ Cardinality(below[place[n]]) = n - 1

\* The elements in the order of their ranks: each has one place.
LEMMA Ranked ==
  ASSUME NEW S, IsFiniteSet(S), NEW below, TotalOrder(below, S),
         NEW place, Placed(place, below, S)
  PROVE  /\ \A n \in 1..Cardinality(S) :
              place[n] \in S /\ Cardinality(below[place[n]]) = n - 1
         /\ \A m, n \in 1..Cardinality(S) : place[m] = place[n] => m = n
         /\ \A s \in S : \E n \in 1..Cardinality(S) : place[n] = s
         /\ \A m, n \in 1..Cardinality(S) : m < n => place[m] \in below[place[n]]
<1>1. Cardinality(S) \in Nat
  BY FS_CardinalityType
<1>2. \A s \in S : Cardinality(below[s]) \in Nat
  <2>1. \A s \in S : below[s] \in SUBSET S
    BY DEF TotalOrder
  <2>2. QED
    BY <2>1, SubsetSizes
<1>3. ASSUME NEW n \in 1..Cardinality(S)
      PROVE  place[n] \in S /\ Cardinality(below[place[n]]) = n - 1
  <2>1. PICK s \in S : Rank(below, s) = n
    BY RanksFill
  <2>2. Cardinality(below[s]) = n - 1
    BY <1>1, <1>2, <2>1 DEF Rank
  <2>3. QED
    BY <2>2 DEF Placed
<1>4. ASSUME NEW m \in 1..Cardinality(S), NEW n \in 1..Cardinality(S), place[m] = place[n]
      PROVE  m = n
  <2>1. m - 1 = n - 1
    BY <1>3, <1>4
  <2>2. QED
    BY <1>1, <2>1
<1>5. ASSUME NEW s \in S PROVE \E n \in 1..Cardinality(S) : place[n] = s
  <2>1. Rank(below, s) \in 1..Cardinality(S)
    BY RanksDiffer
  <2>2. place[Rank(below, s)] \in S /\ Cardinality(below[place[Rank(below, s)]]) = Rank(below, s) - 1
    BY <1>3, <2>1
  <2>3. Rank(below, place[Rank(below, s)]) = Rank(below, s)
    BY <1>1, <1>2, <2>1, <2>2 DEF Rank
  <2>4. place[Rank(below, s)] = s
    BY <2>2, <2>3, RanksDiffer
  <2>5. QED
    BY <2>1, <2>4
<1>6. ASSUME NEW m \in 1..Cardinality(S), NEW n \in 1..Cardinality(S), m < n
      PROVE  place[m] \in below[place[n]]
  <2>1. /\ place[m] \in S /\ Cardinality(below[place[m]]) = m - 1
        /\ place[n] \in S /\ Cardinality(below[place[n]]) = n - 1
    BY <1>3
  <2>2. Rank(below, place[m]) = m /\ Rank(below, place[n]) = n
    BY <1>1, <2>1 DEF Rank
  <2>3. place[m] # place[n]
    BY <1>1, <1>6, <2>2
  <2>4. place[n] \notin below[place[m]]
    <3>1. place[n] \in below[place[m]] => Rank(below, place[n]) < Rank(below, place[m])
      BY <2>1, RanksDiffer
    <3>2. QED
      BY <1>1, <1>6, <2>2, <3>1
  <2>5. QED
    BY <2>1, <2>3, <2>4 DEF TotalOrder
<1>7. QED
  BY <1>3, <1>4, <1>5, <1>6

(***************************************************************************)
(* Selecting: what At takes from a sequence, it takes once and in order.    *)
(***************************************************************************)

LEMMA AtPlaces ==
  ASSUME NEW sequence, NEW P \in SUBSET Nat, IsFiniteSet(P)
  PROVE  \E place \in [1..Cardinality(P) -> P] :
           /\ At(sequence, P) = [n \in 1..Cardinality(P) |-> sequence[place[n]]]
           /\ \A p \in P : \E n \in 1..Cardinality(P) : place[n] = p
           /\ \A m, n \in 1..Cardinality(P) : m < n => place[m] < place[n]
<1> DEFINE Below(p) == {q \in P : q < p}
           below == [p \in P |-> Below(p)]
           place == [n \in 1..Cardinality(P) |->
                       CHOOSE p \in P : Cardinality(Below(p)) = n - 1]
<1>1. TotalOrder(below, P)
  <2>1. \A s \in P : below[s] \subseteq P \ {s}
    OBVIOUS
  <2>2. \A s, t \in P : s # t => s \in below[t] \/ t \in below[s]
    OBVIOUS
  <2>3. ASSUME NEW s \in P, NEW t \in P, s \in below[t] PROVE below[s] \subseteq below[t]
    <3>1. s < t
      BY <2>3
    <3>2. \A q \in P : q < s => q < t
      BY <3>1
    <3>3. below[s] = Below(s) /\ below[t] = Below(t)
      OBVIOUS
    <3> HIDE DEF below
    <3>4. QED
      BY <3>2, <3>3
  <2> HIDE DEF below
  <2>4. QED
    BY <2>1, <2>2, <2>3 DEF TotalOrder
<1>2. \A p \in P : below[p] = Below(p)
  OBVIOUS
<1>3. At(sequence, P) = [n \in 1..Cardinality(P) |-> sequence[place[n]]]
  BY DEF At
<1>4. ASSUME NEW n \in 1..Cardinality(P), \E p \in P : Cardinality(below[p]) = n - 1
      PROVE  place[n] \in P /\ Cardinality(below[place[n]]) = n - 1
  <2>1. \E p \in P : Cardinality(Below(p)) = n - 1
    BY <1>2, <1>4
  <2>2. place[n] = CHOOSE p \in P : Cardinality(Below(p)) = n - 1
    OBVIOUS
  <2> HIDE DEF place, Below
  <2>3. place[n] \in P /\ Cardinality(Below(place[n])) = n - 1
    BY <2>1, <2>2
  <2>4. QED
    BY <1>2, <2>3
<1>5. /\ \A n \in 1..Cardinality(P) :
           place[n] \in P /\ Cardinality(below[place[n]]) = n - 1
      /\ \A s \in P : \E n \in 1..Cardinality(P) : place[n] = s
      /\ \A m, n \in 1..Cardinality(P) : m < n => place[m] \in below[place[n]]
  <2> HIDE DEF below, place
  <2>1. Placed(place, below, P)
    BY <1>4 DEF Placed
  <2>2. QED
    BY <1>1, <2>1, Ranked
<1>6. \A m, n \in 1..Cardinality(P) : m < n => place[m] < place[n]
  BY <1>2, <1>5
<1>7. place \in [1..Cardinality(P) -> P]
  BY <1>5
<1> HIDE DEF place
<1>8. QED
  BY <1>3, <1>5, <1>6, <1>7

\* All of a sequence, selected, is the sequence.
LEMMA AtAll ==
  ASSUME NEW S, NEW sequence \in Seq(S)
  PROVE  At(sequence, DOMAIN sequence) = sequence
<1> DEFINE n == Len(sequence)
<1>1. n \in Nat /\ DOMAIN sequence = 1..n /\ sequence = [i \in 1..n |-> sequence[i]]
  OBVIOUS
<1> HIDE DEF n
<1>2. Cardinality(1..n) = n
  BY <1>1, NumbersTo
<1>3. ASSUME NEW i \in 1..n PROVE (CHOOSE p \in 1..n : Cardinality({q \in 1..n : q < p}) = i - 1) = i
  <2>1. ASSUME NEW p \in 1..n PROVE Cardinality({q \in 1..n : q < p}) = p - 1
    <3>1. {q \in 1..n : q < p} = 1..(p - 1) /\ p - 1 \in Nat
      BY <1>1
    <3>2. Cardinality(1..(p - 1)) = p - 1
      BY <3>1, NumbersTo
    <3>3. QED
      BY <3>1, <3>2
  <2>2. \A p \in 1..n : Cardinality({q \in 1..n : q < p}) = i - 1 <=> p = i
    BY <1>1, <2>1
  <2>3. QED
    BY <2>2
<1>4. QED
  BY <1>1, <1>2, <1>3 DEF At

\* As many values as places: each place has its own.
LEMMA CountsDistinct ==
  ASSUME NEW n \in Nat, NEW f
  PROVE  Cardinality({f[i] : i \in 1..n}) = n <=> \A i, j \in 1..n : f[i] = f[j] => i = j
<1> DEFINE S == 1..n
           T == {f[i] : i \in S}
           g == [i \in S |-> f[i]]
<1>1. IsFiniteSet(S) /\ Cardinality(S) = n
  BY NumbersTo
<1> HIDE DEF S
<1>2. g \in Surjection(S, T)
  <2>1. g \in [S -> T] /\ \A t \in T : \E i \in S : g[i] = t
    OBVIOUS
  <2> HIDE DEF g, T
  <2>2. QED
    BY <2>1 DEF Surjection
<1>3. \A i \in S : g[i] = f[i]
  OBVIOUS
<1> HIDE DEF g, T
<1>4. Cardinality(T) = n <=> g \in Injection(S, T)
  BY <1>1, <1>2, FS_Surjection
<1>5. g \in Injection(S, T) <=> \A i, j \in S : g[i] = g[j] => i = j
  BY <1>2 DEF Injection, IsInjective, Surjection
<1>6. QED
  BY <1>3, <1>4, <1>5 DEF S, T

\* f names the places of P in their order.
Enumerates(f, k, P) ==
  /\ \A n \in 1..k : f[n] \in Nat
  /\ \A m, n \in 1..k : m < n => f[m] < f[n]
  /\ P = {f[n] : n \in 1..k}

Named(sequence, f, k) == [n \in 1..k |-> sequence[f[n]]]

LEMMA AtEnumerated ==
  ASSUME NEW sequence, NEW k \in Nat, NEW f, NEW P, Enumerates(f, k, P)
  PROVE  At(sequence, P) = Named(sequence, f, k) /\ Cardinality(P) = k
<1>0. /\ \A n \in 1..k : f[n] \in Nat
      /\ \A m, n \in 1..k : m < n => f[m] < f[n]
      /\ P = {f[n] : n \in 1..k}
  BY DEF Enumerates
<1>1. \A m, n \in 1..k : (f[m] < f[n] <=> m < n) /\ (f[m] = f[n] => m = n)
  <2> SUFFICES ASSUME NEW m \in 1..k, NEW n \in 1..k
               PROVE  (f[m] < f[n] <=> m < n) /\ (f[m] = f[n] => m = n)
    OBVIOUS
  <2>1. m < n \/ n < m \/ m = n
    OBVIOUS
  <2>2. (m < n => f[m] < f[n]) /\ (n < m => f[n] < f[m]) /\ f[m] \in Nat /\ f[n] \in Nat
    BY <1>0
  <2>3. QED
    BY <2>1, <2>2
<1>2. Cardinality(P) = k
  <2>1. Cardinality({f[n] : n \in 1..k}) = k
    BY <1>1, CountsDistinct
  <2>2. QED
    BY <1>0, <2>1
<1>3. ASSUME NEW n \in 1..k PROVE Cardinality({q \in P : q < f[n]}) = n - 1
  <2>1. {q \in P : q < f[n]} = {f[m] : m \in 1..(n - 1)}
    <3>1. \A m \in 1..k : f[m] < f[n] <=> m \in 1..(n - 1)
      BY <1>1
    <3>2. \A m \in 1..(n - 1) : m \in 1..k
      OBVIOUS
    <3>3. QED
      BY <1>0, <3>1, <3>2
  <2>2. \A i, j \in 1..(n - 1) : f[i] = f[j] => i = j
    BY <1>1
  <2>3. n - 1 \in Nat
    OBVIOUS
  <2>4. Cardinality({f[m] : m \in 1..(n - 1)}) = n - 1
    BY <2>2, <2>3, CountsDistinct
  <2>5. QED
    BY <2>1, <2>4
<1>4. ASSUME NEW n \in 1..k
      PROVE  (CHOOSE p \in P : Cardinality({q \in P : q < p}) = n - 1) = f[n]
  <2>1. ASSUME NEW p \in P PROVE Cardinality({q \in P : q < p}) = n - 1 <=> p = f[n]
    <3>1. PICK m \in 1..k : p = f[m]
      BY <1>0
    <3>2. Cardinality({q \in P : q < p}) = m - 1
      BY <1>3, <3>1
    <3>3. m - 1 = n - 1 <=> m = n
      OBVIOUS
    <3>4. QED
      BY <1>1, <3>1, <3>2, <3>3
  <2>2. f[n] \in P
    BY <1>0
  <2>3. QED
    BY <2>1, <2>2
<1> DEFINE Nth(n) == CHOOSE p \in P : Cardinality({q \in P : q < p}) = n - 1
<1>5. At(sequence, P) = [n \in 1..Cardinality(P) |-> sequence[Nth(n)]]
  BY DEF At
<1>6. \A n \in 1..k : Nth(n) = f[n]
  BY <1>4
<1> HIDE DEF Nth
<1>7. QED
  BY <1>2, <1>5, <1>6 DEF Named

\* The places of a finite set of numbers can be named in their order.
LEMMA EnumerationExists ==
  ASSUME NEW P \in SUBSET Nat, IsFiniteSet(P)
  PROVE  \E f \in [1..Cardinality(P) -> P] : Enumerates(f, Cardinality(P), P)
<1>1. PICK f \in [1..Cardinality(P) -> P] :
        /\ \A p \in P : \E n \in 1..Cardinality(P) : f[n] = p
        /\ \A m, n \in 1..Cardinality(P) : m < n => f[m] < f[n]
  BY AtPlaces
<1>2. P = {f[n] : n \in 1..Cardinality(P)}
  BY <1>1
<1>3. QED
  BY <1>1, <1>2 DEF Enumerates

\* To select from what was selected is to select once.
LEMMA AtOfAt ==
  ASSUME NEW sequence, NEW k \in Nat, NEW f, NEW P, Enumerates(f, k, P), NEW W \in SUBSET (1..k)
  PROVE  At(At(sequence, P), W) = At(sequence, {f[i] : i \in W})
<1>1. IsFiniteSet(1..k)
  BY NumbersTo
<1>2. IsFiniteSet(W) /\ W \in SUBSET Nat /\ Cardinality(W) \in Nat
  <2>1. W \in SUBSET Nat
    OBVIOUS
  <2>2. IsFiniteSet(W) /\ Cardinality(W) \in Nat
    BY <1>1, SubsetSizes
  <2>3. QED
    BY <2>1, <2>2
<1> DEFINE m == Cardinality(W)
           Z == {f[i] : i \in W}
           kept == At(sequence, P)
<1>3. PICK g \in [1..m -> W] : Enumerates(g, m, W)
  BY <1>2, EnumerationExists
<1>4. kept = Named(sequence, f, k)
  BY AtEnumerated
<1>5. At(kept, W) = Named(kept, g, m)
  BY <1>2, <1>3, AtEnumerated
<1> DEFINE h == [n \in 1..m |-> f[g[n]]]
<1>6. Enumerates(h, m, Z)
  <2>1. \A n \in 1..m : h[n] = f[g[n]] /\ g[n] \in 1..k
    BY <1>3
  <2>2. \A a, b \in 1..m : a < b => g[a] < g[b]
    BY <1>3 DEF Enumerates
  <2>3. W = {g[n] : n \in 1..m}
    BY <1>3 DEF Enumerates
  <2>4. (\A i \in 1..k : f[i] \in Nat) /\ \A i, j \in 1..k : i < j => f[i] < f[j]
    BY DEF Enumerates
  <2> HIDE DEF h, m
  <2>5. \A n \in 1..m : h[n] \in Nat
    BY <2>1, <2>4
  <2>6. \A a, b \in 1..m : a < b => h[a] < h[b]
    BY <2>1, <2>2, <2>4
  <2>7. Z = {h[n] : n \in 1..m}
    BY <2>1, <2>3
  <2>8. QED
    BY <2>5, <2>6, <2>7 DEF Enumerates
<1>7. At(sequence, Z) = Named(sequence, h, m)
  BY <1>2, <1>6, AtEnumerated
<1>8. \A n \in 1..m : kept[g[n]] = sequence[h[n]]
  BY <1>3, <1>4 DEF Named
<1> HIDE DEF kept, h, m, Z
<1>9. Named(kept, g, m) = Named(sequence, h, m)
  BY <1>8 DEF Named
<1>10. QED
  BY <1>5, <1>7, <1>9 DEF kept, Z

==============================================================================
