-------------------------- MODULE SpeedTableProofs ---------------------------
(***************************************************************************)
(* What the other proofs need of induction over data: the sums of speeds   *)
(* (SumFunctionOnSet) and the recursive search of SpeedTable.  Induction   *)
(* is on sets, by the least element of a set of natural numbers, so that   *)
(* no fact has an operator as its parameter.                               *)
(***************************************************************************)
EXTENDS SpeedTable, FiniteSets, Functions, FiniteSetTheorems, WellFoundedInduction, TLAPS

\* Every set of natural numbers has a least element.
LEMMA Least ==
    ASSUME NEW T \in SUBSET Nat, T # {}
    PROVE  \E n \in T : \A m \in T : n <= m
<1>1. PICK R : R = OpToRel(<, Nat)
  OBVIOUS
<1>2. \A x, y \in Nat : <<y, x>> \in R <=> y < x
  BY <1>1 DEF OpToRel
<1>3. IsWellFoundedOn(R, Nat)
  BY <1>1, NatLessThanWellFounded
<1>4. PICK n \in T : \A y \in T : ~(<<y, n>> \in R)
  <2>1. \E x \in T : \A y \in T : ~(<<y, x>> \in R)
    BY <1>3, WFMin
  <2> QED  BY <2>1
<1>5. ASSUME NEW m \in T PROVE n <= m
  <2>1. m \in Nat /\ n \in Nat
    OBVIOUS
  <2>2. ~(m < n)
    BY <1>2, <1>4, <2>1
  <2> QED  BY <2>1, <2>2
<1> QED  BY <1>5

\* Induction over the natural numbers, for a set of them.
LEMMA InductionOnNat ==
    ASSUME NEW P \in SUBSET Nat, 0 \in P, \A n \in P : n + 1 \in P
    PROVE  \A n \in Nat : n \in P
<1> SUFFICES ASSUME Nat \ P # {} PROVE FALSE
  OBVIOUS
<1>1. PICK n \in Nat \ P : \A m \in Nat \ P : n <= m
  BY Least
<1>2. n - 1 \in Nat /\ n - 1 \in P
  BY <1>1
<1>3. (n - 1) + 1 \in P
  BY <1>2
<1> QED  BY <1>1, <1>3

\* Induction over a finite set, one element at a time.
LEMMA InductionOnSet ==
    ASSUME NEW S, IsFiniteSet(S), NEW P, {} \in P,
           \A T \in SUBSET S : T # {} /\ (\A x \in T : T \ {x} \in P) => T \in P
    PROVE  S \in P
<1> DEFINE Q == {n \in Nat : \A T \in SUBSET S : Cardinality(T) = n => T \in P}
<1>1. \A T \in SUBSET S : IsFiniteSet(T) /\ Cardinality(T) \in Nat
  BY FS_Subset, FS_CardinalityType
<1>2. 0 \in Q
  BY <1>1, FS_EmptySet
<1>3. ASSUME NEW n \in Q PROVE n + 1 \in Q
  <2>1. ASSUME NEW T \in SUBSET S, Cardinality(T) = n + 1 PROVE T \in P
    <3>1. T # {}
      <4>1. n \in Nat /\ Cardinality({}) = 0
        BY FS_EmptySet
      <4> HIDE DEF Q
      <4> QED  BY <2>1, <4>1
    <3>2. \A x \in T : Cardinality(T \ {x}) = n
      BY <1>1, <2>1, FS_RemoveElement
    <3>3. \A x \in T : T \ {x} \in P
      BY <3>2
    <3> QED  BY <3>1, <3>3
  <2> QED  BY <2>1
<1>4. \A n \in Nat : n \in Q
  <2> HIDE DEF Q
  <2>1. Q \in SUBSET Nat
    BY DEF Q
  <2> QED  BY <1>2, <1>3, <2>1, InductionOnNat
<1> QED  BY <1>1, <1>4
-----------------------------------------------------------------------------
\* The sum of a function over a finite set: the recursion of the fold.
Pick(s) == CHOOSE x \in s : TRUE
SumStep(g, r, s) == IF s = {} THEN 0 ELSE g[Pick(s)] + r[s \ {Pick(s)}]
Sums(g, S, r) == r = [s \in SUBSET S |-> SumStep(g, r, s)]

LEMMA SumByRecursion ==
    ASSUME NEW g, NEW S
    PROVE  SumFunctionOnSet(g, S) = (CHOOSE r : Sums(g, S, r))[S]
BY DEF SumFunctionOnSet, FoldFunctionOnSet, MapThenFoldSet, Sums, SumStep, Pick

\* There are sums of all subsets, of those of up to n elements first.
LEMMA SumsExist ==
    ASSUME NEW g, NEW S, IsFiniteSet(S)
    PROVE  \E r : Sums(g, S, r)
<1> DEFINE Upto(n) == {s \in SUBSET S : Cardinality(s) <= n}
           P == {n \in Nat : \E r : r = [s \in Upto(n) |-> SumStep(g, r, s)]}
<1>1. \A s \in SUBSET S : IsFiniteSet(s) /\ Cardinality(s) \in Nat
  BY FS_Subset, FS_CardinalityType
<1>2. \A s \in SUBSET S : Cardinality(s) <= 0 => s = {}
  BY <1>1, FS_EmptySet
<1>3. 0 \in P
  <2> DEFINE r == [s \in Upto(0) |-> 0]
  <2>1. r = [s \in Upto(0) |-> SumStep(g, r, s)]
    BY <1>2 DEF SumStep
  <2> QED  BY <2>1
<1>4. ASSUME NEW n \in P PROVE n + 1 \in P
  <2>1. PICK r : r = [s \in Upto(n) |-> SumStep(g, r, s)]
    OBVIOUS
  <2> DEFINE q == [s \in Upto(n + 1) |-> SumStep(g, r, s)]
  <2>2. \A s \in Upto(n) : s \in Upto(n + 1) /\ q[s] = r[s]
    BY <1>1, <2>1
  <2>3. ASSUME NEW s \in Upto(n + 1) PROVE SumStep(g, r, s) = SumStep(g, q, s)
    <3>1. CASE s = {}
      BY <3>1 DEF SumStep
    <3>2. CASE s # {}
      <4>1. Pick(s) \in s
        BY <3>2 DEF Pick
      <4>2. s \ {Pick(s)} \in Upto(n)
        BY <1>1, <4>1, FS_RemoveElement
      <4> QED  BY <2>2, <3>2, <4>2 DEF SumStep
    <3> QED  BY <3>1, <3>2
  <2>4. q = [s \in Upto(n + 1) |-> SumStep(g, q, s)]
    BY <2>3
  <2>5. \E r2 : r2 = [s \in Upto(n + 1) |-> SumStep(g, r2, s)]
    <3> HIDE DEF q
    <3> QED  BY <2>4
  <2>6. n + 1 \in Nat
    OBVIOUS
  <2> HIDE DEF q, Upto
  <2> QED  BY <2>5, <2>6
<1>5. Cardinality(S) \in P
  <2>1. P \in SUBSET Nat /\ Cardinality(S) \in Nat
    BY <1>1
  <2> HIDE DEF P
  <2> QED  BY <1>3, <1>4, <2>1, InductionOnNat
<1>6. Upto(Cardinality(S)) = SUBSET S
  BY <1>1, FS_Subset
<1> QED  BY <1>5, <1>6 DEF Sums

\* They agree where two sets have subsets in common.
LEMMA SumsAgree ==
    ASSUME NEW g, NEW S, NEW T \in SUBSET S, IsFiniteSet(T),
           NEW q, Sums(g, S, q), NEW r, Sums(g, T, r)
    PROVE  q[T] = r[T]
<1> DEFINE P == {s \in SUBSET T : q[s] = r[s]}
<1>1. \A s \in SUBSET T : q[s] = SumStep(g, q, s) /\ r[s] = SumStep(g, r, s)
  BY DEF Sums
<1>2. {} \in P
  BY <1>1 DEF SumStep
<1>3. ASSUME NEW s \in SUBSET T, s # {}, \A x \in s : s \ {x} \in P PROVE s \in P
  <2>1. Pick(s) \in s
    BY <1>3 DEF Pick
  <2>2. q[s \ {Pick(s)}] = r[s \ {Pick(s)}]
    BY <1>3, <2>1
  <2> QED  BY <1>1, <1>3, <2>2 DEF SumStep
<1> HIDE DEF P
<1>4. T \in P
  BY <1>2, <1>3, InductionOnSet
<1> QED  BY <1>4 DEF P

LEMMA SumSplits ==
    ASSUME NEW g, NEW S, IsFiniteSet(S)
    PROVE  SumFunctionOnSet(g, S) =
             IF S = {} THEN 0 ELSE g[Pick(S)] + SumFunctionOnSet(g, S \ {Pick(S)})
<1> DEFINE q == CHOOSE r : Sums(g, S, r)
           T == S \ {Pick(S)}
           u == CHOOSE r : Sums(g, T, r)
<1>1. IsFiniteSet(T) /\ T \in SUBSET S
  BY FS_Subset
<1>2. Sums(g, S, q) /\ Sums(g, T, u)
  BY <1>1, SumsExist
<1>3. q[T] = u[T]
  <2> HIDE DEF q, u, T
  <2> QED  BY <1>1, <1>2, SumsAgree
<1>4. q[S] = SumStep(g, q, S)
  <2> HIDE DEF q
  <2> QED  BY <1>2 DEF Sums
<1>5. SumFunctionOnSet(g, S) = q[S] /\ SumFunctionOnSet(g, T) = u[T]
  BY SumByRecursion
<1> HIDE DEF q, u
<1> QED  BY <1>3, <1>4, <1>5 DEF SumStep

LEMMA SumEmpty == \A g : SumFunctionOnSet(g, {}) = 0
BY SumSplits, FS_EmptySet

\* A sum of integers is one, and any element can be taken out of it.
LEMMA SumType ==
    ASSUME NEW g, NEW S, IsFiniteSet(S), \A x \in S : g[x] \in Int
    PROVE  SumFunctionOnSet(g, S) \in Int
<1> DEFINE P == {T \in SUBSET S : SumFunctionOnSet(g, T) \in Int}
<1>1. {} \in P
  BY SumEmpty
<1>2. ASSUME NEW T \in SUBSET S, T # {}, \A x \in T : T \ {x} \in P PROVE T \in P
  <2>1. Pick(T) \in T
    BY <1>2 DEF Pick
  <2>2. g[Pick(T)] \in Int /\ SumFunctionOnSet(g, T \ {Pick(T)}) \in Int
    BY <1>2, <2>1
  <2>3. SumFunctionOnSet(g, T) = g[Pick(T)] + SumFunctionOnSet(g, T \ {Pick(T)})
    BY <1>2, FS_Subset, SumSplits
  <2> QED  BY <2>2, <2>3
<1> HIDE DEF P
<1>3. S \in P
  BY <1>1, <1>2, InductionOnSet
<1> QED  BY <1>3 DEF P

LEMMA SumRemove ==
    ASSUME NEW g, NEW S, IsFiniteSet(S), \A x \in S : g[x] \in Int, NEW x \in S
    PROVE  SumFunctionOnSet(g, S) = g[x] + SumFunctionOnSet(g, S \ {x})
<1> DEFINE P == {T \in SUBSET S : \A y \in T :
                    SumFunctionOnSet(g, T) = g[y] + SumFunctionOnSet(g, T \ {y})}
<1>1. {} \in P
  OBVIOUS
<1>2. ASSUME NEW T \in SUBSET S, T # {}, \A y \in T : T \ {y} \in P PROVE T \in P
  <2> SUFFICES ASSUME NEW y \in T
               PROVE  SumFunctionOnSet(g, T) = g[y] + SumFunctionOnSet(g, T \ {y})
    OBVIOUS
  <2> DEFINE p == Pick(T)
  <2>1. p \in T
    BY <1>2 DEF Pick
  <2>2. IsFiniteSet(T) /\ IsFiniteSet(T \ {y}) /\ IsFiniteSet((T \ {p}) \ {y})
    BY FS_Subset
  <2>3. SumFunctionOnSet(g, T) = g[p] + SumFunctionOnSet(g, T \ {p})
    BY <1>2, <2>2, SumSplits
  <2>4. CASE y = p
    BY <2>3, <2>4
  <2>5. CASE y # p
    <3>1. SumFunctionOnSet(g, T \ {p}) = g[y] + SumFunctionOnSet(g, (T \ {p}) \ {y})
      BY <1>2, <2>1, <2>5
    <3>2. SumFunctionOnSet(g, T \ {y}) = g[p] + SumFunctionOnSet(g, (T \ {y}) \ {p})
      BY <1>2, <2>1, <2>5
    <3>3. (T \ {p}) \ {y} = (T \ {y}) \ {p}
      OBVIOUS
    <3>4. SumFunctionOnSet(g, (T \ {p}) \ {y}) \in Int
      BY <2>2, SumType
    <3>5. g[p] \in Int /\ g[y] \in Int
      BY <2>1
    <3> HIDE DEF p, P
    <3>6. SumFunctionOnSet(g, T) = g[p] + (g[y] + SumFunctionOnSet(g, (T \ {p}) \ {y}))
      BY <2>3, <3>1
    <3>7. SumFunctionOnSet(g, T \ {y}) = g[p] + SumFunctionOnSet(g, (T \ {p}) \ {y})
      BY <3>2, <3>3
    <3> QED  BY <3>4, <3>5, <3>6, <3>7
  <2> QED  BY <2>4, <2>5
<1>3. S \in P
  <2> HIDE DEF P
  <2> QED  BY <1>1, <1>2, InductionOnSet
<1> QED  BY <1>3

\* Sums keep the order of what is summed, and grow with the set.
LEMMA SumMonotone ==
    ASSUME NEW g, NEW h, NEW S, IsFiniteSet(S),
           \A x \in S : g[x] \in Int /\ h[x] \in Int /\ g[x] <= h[x]
    PROVE  SumFunctionOnSet(g, S) <= SumFunctionOnSet(h, S)
<1> DEFINE P == {T \in SUBSET S : SumFunctionOnSet(g, T) <= SumFunctionOnSet(h, T)}
<1>1. {} \in P
  BY SumEmpty
<1>2. ASSUME NEW T \in SUBSET S, T # {}, \A x \in T : T \ {x} \in P PROVE T \in P
  <2>1. PICK x : x \in T
    BY <1>2
  <2>2. IsFiniteSet(T) /\ IsFiniteSet(T \ {x})
    BY FS_Subset
  <2>3. /\ SumFunctionOnSet(g, T) = g[x] + SumFunctionOnSet(g, T \ {x})
        /\ SumFunctionOnSet(h, T) = h[x] + SumFunctionOnSet(h, T \ {x})
    BY <2>1, <2>2, SumRemove
  <2>4. SumFunctionOnSet(g, T \ {x}) \in Int /\ SumFunctionOnSet(h, T \ {x}) \in Int
    BY <2>2, SumType
  <2>5. g[x] \in Int /\ h[x] \in Int /\ g[x] <= h[x]
    BY <2>1
  <2>6. SumFunctionOnSet(g, T \ {x}) <= SumFunctionOnSet(h, T \ {x})
    BY <1>2, <2>1
  <2> QED  BY <2>3, <2>4, <2>5, <2>6
<1> HIDE DEF P
<1>3. S \in P
  BY <1>1, <1>2, InductionOnSet
<1> QED  BY <1>3 DEF P

LEMMA SumOfEqual ==
    ASSUME NEW g, NEW h, NEW S, IsFiniteSet(S),
           \A x \in S : g[x] \in Int /\ h[x] = g[x]
    PROVE  SumFunctionOnSet(g, S) = SumFunctionOnSet(h, S)
<1>1. /\ SumFunctionOnSet(g, S) <= SumFunctionOnSet(h, S)
      /\ SumFunctionOnSet(h, S) <= SumFunctionOnSet(g, S)
  BY SumMonotone
<1>2. SumFunctionOnSet(g, S) \in Int /\ SumFunctionOnSet(h, S) \in Int
  BY SumType
<1> QED  BY <1>1, <1>2

LEMMA SumOfSubset ==
    ASSUME NEW g, NEW S, IsFiniteSet(S), \A x \in S : g[x] \in Nat, NEW R \in SUBSET S
    PROVE  SumFunctionOnSet(g, R) <= SumFunctionOnSet(g, S)
<1> DEFINE P == {T \in SUBSET S : R \subseteq T =>
                                    SumFunctionOnSet(g, R) <= SumFunctionOnSet(g, T)}
<1>0. \A T \in SUBSET S : IsFiniteSet(T) /\ SumFunctionOnSet(g, T) \in Int
  BY FS_Subset, SumType
<1>1. {} \in P
  BY <1>0
<1>2. ASSUME NEW T \in SUBSET S, T # {}, \A x \in T : T \ {x} \in P PROVE T \in P
  <2> SUFFICES ASSUME R \subseteq T, R # T
               PROVE  SumFunctionOnSet(g, R) <= SumFunctionOnSet(g, T)
    BY <1>0
  <2>1. PICK x : x \in T /\ x \notin R
    OBVIOUS
  <2>2. SumFunctionOnSet(g, T) = g[x] + SumFunctionOnSet(g, T \ {x})
    BY <1>0, <2>1, SumRemove
  <2>3. SumFunctionOnSet(g, R) <= SumFunctionOnSet(g, T \ {x})
    BY <1>2, <2>1
  <2>4. /\ SumFunctionOnSet(g, R) \in Int /\ SumFunctionOnSet(g, T \ {x}) \in Int
        /\ g[x] \in Nat
    BY <1>0, <2>1
  <2> QED  BY <2>2, <2>3, <2>4
<1>3. S \in P
  <2> HIDE DEF P
  <2> QED  BY <1>1, <1>2, InductionOnSet
<1> QED  BY <1>3

LEMMA SumNat ==
    ASSUME NEW g, NEW S, IsFiniteSet(S), \A x \in S : g[x] \in Nat
    PROVE  SumFunctionOnSet(g, S) \in Nat
<1>1. SumFunctionOnSet(g, S) \in Int
  BY SumType
<1>2. SumFunctionOnSet(g, {}) <= SumFunctionOnSet(g, S)
  BY SumOfSubset
<1> QED  BY <1>1, <1>2, SumEmpty
\* A sum of zeros.
LEMMA SumOfZeros ==
    ASSUME NEW g, NEW S, IsFiniteSet(S), \A x \in S : g[x] = 0
    PROVE  SumFunctionOnSet(g, S) = 0
<1> DEFINE P == {T \in SUBSET S : SumFunctionOnSet(g, T) = 0}
<1>1. {} \in P
  BY SumEmpty
<1>2. ASSUME NEW T \in SUBSET S, T # {}, \A x \in T : T \ {x} \in P PROVE T \in P
  <2>1. PICK x : x \in T
    BY <1>2
  <2>2. SumFunctionOnSet(g, T \ {x}) = 0
    BY <1>2, <2>1
  <2>3. SumFunctionOnSet(g, T) = g[x] + SumFunctionOnSet(g, T \ {x})
    <3>1. IsFiniteSet(T) /\ \A y \in T : g[y] \in Int
      BY FS_Subset
    <3> QED  BY <2>1, <3>1, SumRemove
  <2> QED  BY <2>1, <2>2, <2>3
<1>3. S \in P
  <2> HIDE DEF P
  <2> QED  BY <1>1, <1>2, InductionOnSet
<1> QED  BY <1>3
-----------------------------------------------------------------------------
\* A table, and the entries next to a speed: at most one of them, p itself or its
\* neighbour, lies strictly between.
Table(T, n) == n \in Nat /\ T \in [0..n -> Nat] /\ Increasing(T)
Beside(T, n, v, p) == \/ T[p] = v
                      \/ T[p] < v /\ \A k \in 0..n : k > p + 1 => v < T[k]
                      \/ v < T[p] /\ \A k \in 0..n : k < p - 1 => T[k] < v
NoneBetween(T, n, v, p) ==
    \A k \in 0..n : ~ \/ T[p] < T[k] /\ T[k] <= v
                      \/ v <= T[k] /\ T[k] < T[p]

\* The look at one neighbour is enough.
LEMMA CloserSuffices ==
    ASSUME NEW T, NEW n, Table(T, n), NEW v \in Int, NEW p \in 0..n, Beside(T, n, v, p)
    PROVE  Closer(T, v, p) \in 0..n /\ NoneBetween(T, n, v, Closer(T, v, p))
<1> DEFINE c == Closer(T, v, p)
<1>1. /\ n \in Nat /\ DOMAIN T = 0..n /\ \A k \in 0..n : T[k] \in Nat
      /\ \A k, l \in 0..n : k < l => T[k] < T[l]
  BY DEF Table, Increasing
<1>2. /\ c = p \/ c \in Neighbour(T, v, p)
      /\ c = p => \A q \in Neighbour(T, v, p) : ~(Distance(T[q], v) < Distance(T[p], v))
  <2> DEFINE better == {q \in Neighbour(T, v, p) : Distance(T[q], v) < Distance(T[p], v)}
  <2>1. CASE better = {}
    BY <2>1 DEF Closer
  <2>2. CASE better # {}
    <3>1. c \in better
      BY <2>2 DEF Closer
    <3>2. ~(Distance(T[p], v) < Distance(T[p], v))
      BY <1>1 DEF Distance
    <3> QED  BY <3>1, <3>2
  <2> QED  BY <2>1, <2>2
<1> HIDE DEF c
<1>3. CASE T[p] = v
  <2>1. c = p
    BY <1>2, <1>3 DEF Neighbour
  <2> QED  BY <1>1, <1>3, <2>1 DEF NoneBetween, c
<1>4. CASE T[p] < v
  <2>1. \A k \in 0..n : k > p + 1 => v < T[k]
    BY <1>1, <1>4 DEF Beside
  <2>2. Neighbour(T, v, p) = {p + 1} \cap 0..n
    BY <1>1, <1>4 DEF Neighbour
  <2>3. CASE c = p
    <3>1. p + 1 \in 0..n => v < T[p + 1]
      <4>1. p + 1 \in 0..n => ~(Distance(T[p + 1], v) < Distance(T[p], v))
        BY <1>2, <2>2, <2>3
      <4>2. p + 1 \in 0..n => T[p] < T[p + 1] /\ T[p + 1] \in Nat /\ T[p] \in Nat
        BY <1>1
      <4> QED  BY <1>4, <4>1, <4>2 DEF Distance
    <3>2. \A k \in 0..n : k > p => v < T[k]
      BY <1>1, <2>1, <3>1
    <3>3. \A k \in 0..n : k <= p => T[k] <= T[p]
      BY <1>1
    <3>4. SUFFICES NoneBetween(T, n, v, p)
      BY <2>3 DEF c
    <3>5. ASSUME NEW k \in 0..n
          PROVE  ~(T[p] < T[k] /\ T[k] <= v) /\ ~(v <= T[k] /\ T[k] < T[p])
      <4>1. T[k] \in Nat /\ T[p] \in Nat
        BY <1>1
      <4> QED  BY <1>4, <3>2, <3>3, <4>1
    <3> QED  BY <3>5 DEF NoneBetween
  <2>4. CASE c = p + 1 /\ p + 1 \in 0..n
    <3>1. \A k \in 0..n : k > c => v < T[k] /\ T[c] < T[k]
      BY <1>1, <2>1, <2>4
    <3>2. \A k \in 0..n : k <= p => T[k] <= T[p]
      BY <1>1
    <3>3. \A k \in 0..n : k < c => T[k] < v /\ T[k] < T[c]
      BY <1>1, <1>4, <2>4, <3>2
    <3>4. \A k \in 0..n : k < c \/ k = c \/ k > c
      BY <2>4
    <3>5. T[c] \in Nat
      BY <1>1, <2>4
    <3> QED  BY <1>1, <2>4, <3>1, <3>3, <3>4, <3>5 DEF NoneBetween, c
  <2> QED  BY <1>2, <2>2, <2>3, <2>4
<1>5. CASE v < T[p]
  <2>1. \A k \in 0..n : k < p - 1 => T[k] < v
    BY <1>1, <1>5 DEF Beside
  <2>2. Neighbour(T, v, p) = {p - 1} \cap 0..n
    BY <1>1, <1>5 DEF Neighbour
  <2>3. CASE c = p
    <3>1. p - 1 \in 0..n => T[p - 1] < v
      <4>1. p - 1 \in 0..n => ~(Distance(T[p - 1], v) < Distance(T[p], v))
        BY <1>2, <2>2, <2>3
      <4>2. p - 1 \in 0..n => T[p - 1] < T[p] /\ T[p - 1] \in Nat /\ T[p] \in Nat
        BY <1>1
      <4> QED  BY <1>5, <4>1, <4>2 DEF Distance
    <3>2. \A k \in 0..n : k < p => T[k] < v
      BY <1>1, <2>1, <3>1
    <3>3. \A k \in 0..n : k >= p => T[p] <= T[k]
      BY <1>1
    <3>4. SUFFICES NoneBetween(T, n, v, p)
      BY <2>3 DEF c
    <3>5. ASSUME NEW k \in 0..n
          PROVE  ~(T[p] < T[k] /\ T[k] <= v) /\ ~(v <= T[k] /\ T[k] < T[p])
      <4>1. T[k] \in Nat /\ T[p] \in Nat
        BY <1>1
      <4> QED  BY <1>5, <3>2, <3>3, <4>1
    <3> QED  BY <3>5 DEF NoneBetween
  <2>4. CASE c = p - 1 /\ p - 1 \in 0..n
    <3>1. \A k \in 0..n : k < c => T[k] < v /\ T[k] < T[c]
      BY <1>1, <2>1, <2>4
    <3>2. \A k \in 0..n : k >= p => T[p] <= T[k]
      BY <1>1
    <3>3. \A k \in 0..n : k > c => v < T[k] /\ T[c] < T[k]
      BY <1>1, <1>5, <2>4, <3>2
    <3>4. \A k \in 0..n : k < c \/ k = c \/ k > c
      BY <2>4
    <3>5. T[c] \in Nat
      BY <1>1, <2>4
    <3> QED  BY <1>1, <2>4, <3>1, <3>3, <3>4, <3>5 DEF NoneBetween, c
  <2> QED  BY <1>2, <2>2, <2>3, <2>4
<1> QED  BY <1>1, <1>3, <1>4, <1>5
-----------------------------------------------------------------------------
\* The recursion of LastProbe.
Cut(T, v, P, r) ==
    LET p == (r[1] + r[2]) \div 2
    IN  CASE T[p] < v /\ p + 1 < r[2] -> P[<<p + 1, r[2]>>]
          [] T[p] > v /\ r[1] < p - 1 -> P[<<r[1], p - 1>>]
          [] OTHER -> p
Probes(T, v, D, P) == P = [r \in D |-> Cut(T, v, P, r)]
ProbesOf(T, v) == CHOOSE P : Probes(T, v, (0..LastOf(T)) \X (0..LastOf(T)), P)

LEMMA LastProbeByRecursion ==
    ASSUME NEW T, NEW v
    PROVE  LastProbe(T, v) = ProbesOf(T, v)[<<0, LastOf(T)>>]
BY DEF LastProbe, ProbesOf, Probes, Cut

\* A turn of the search depends on shorter intervals only.
LEMMA CutShortens ==
    ASSUME NEW T, NEW n, Table(T, n), NEW v \in Int, NEW a \in 0..n, NEW b \in 0..n,
           NEW P, NEW Q,
           \A c, d \in 0..n : c < d /\ d - c < b - a => P[<<c, d>>] = Q[<<c, d>>]
    PROVE  Cut(T, v, P, <<a, b>>) = Cut(T, v, Q, <<a, b>>)
<1> DEFINE p == (a + b) \div 2
<1>1. n \in Nat /\ p \in 0..n /\ 2 * p <= a + b /\ a + b <= 2 * p + 1 /\ T[p] \in Nat
  BY DEF Table
<1> HIDE DEF p
<1>2. CASE T[p] < v /\ p + 1 < b
  <2>1. p + 1 \in 0..n /\ b - (p + 1) < b - a
    BY <1>1, <1>2
  <2> QED  BY <1>1, <1>2, <2>1 DEF Cut, p
<1>3. CASE ~(T[p] < v /\ p + 1 < b) /\ T[p] > v /\ a < p - 1
  <2>1. p - 1 \in 0..n /\ (p - 1) - a < b - a
    BY <1>1, <1>3
  <2> QED  BY <1>1, <1>3, <2>1 DEF Cut, p
<1>4. CASE ~(T[p] < v /\ p + 1 < b) /\ ~(T[p] > v /\ a < p - 1)
  BY <1>4 DEF Cut, p
<1> QED  BY <1>2, <1>3, <1>4

\* An interval of one entry is not cut.
LEMMA CutOfOne ==
    ASSUME NEW T, NEW n, Table(T, n), NEW v \in Int, NEW P,
           NEW a \in 0..n, NEW b \in 0..n, b <= a
    PROVE  Cut(T, v, P, <<a, b>>) = (a + b) \div 2
<1> DEFINE p == (a + b) \div 2
<1>1. n \in Nat
  BY DEF Table
<1>2. ~(p + 1 < b) /\ ~(a < p - 1)
  BY <1>1
<1> QED  BY <1>2 DEF Cut

\* There is such a function: on the intervals of length up to w first.
LEMMA ProbesExist ==
    ASSUME NEW T, NEW n, Table(T, n), NEW v \in Int
    PROVE  \E P : Probes(T, v, (0..n) \X (0..n), P)
<1> DEFINE Upto(w) == {r \in (0..n) \X (0..n) : r[2] - r[1] <= w}
           W == {w \in Nat : \E P : P = [r \in Upto(w) |-> Cut(T, v, P, r)]}
<1>0. n \in Nat
  BY DEF Table
<1>1. ASSUME NEW w \in Nat, NEW P, P = [r \in Upto(w) |-> Cut(T, v, P, r)],
             NEW Q, \A r \in Upto(w) : Q[r] = P[r],
             NEW r \in Upto(w + 1)
      PROVE  Cut(T, v, P, r) = Cut(T, v, Q, r)
  <2>1. PICK a \in 0..n, b \in 0..n : r = <<a, b>> /\ b - a <= w + 1
    OBVIOUS
  <2>2. ASSUME NEW c \in 0..n, NEW d \in 0..n, c < d, d - c < b - a
        PROVE  P[<<c, d>>] = Q[<<c, d>>]
    <3>1. <<c, d>> \in Upto(w)
      BY <1>0, <2>1, <2>2
    <3> HIDE DEF Upto
    <3> QED  BY <1>1, <3>1
  <2> HIDE DEF Upto
  <2> QED  BY <2>1, <2>2, CutShortens
<1>2. 0 \in W
  <2>1. ASSUME NEW r \in Upto(0), NEW Z, NEW Q
        PROVE  Cut(T, v, Z, r) = Cut(T, v, Q, r)
    <3>1. PICK a \in 0..n, b \in 0..n : r = <<a, b>> /\ b - a <= 0
      OBVIOUS
    <3>2. b <= a
      BY <1>0, <3>1
    <3> HIDE DEF Upto
    <3> QED  BY <3>1, <3>2, CutOfOne
  <2> DEFINE P == [r \in Upto(0) |-> Cut(T, v, T, r)]
  <2>2. P = [r \in Upto(0) |-> Cut(T, v, P, r)]
    BY <2>1
  <2> HIDE DEF P, Upto
  <2> QED  BY <2>2
<1>3. ASSUME NEW w \in W PROVE w + 1 \in W
  <2>0. w \in Nat /\ w + 1 \in Nat
    OBVIOUS
  <2>1. PICK P : P = [r \in Upto(w) |-> Cut(T, v, P, r)]
    OBVIOUS
  <2> DEFINE Q == [r \in Upto(w + 1) |-> Cut(T, v, P, r)]
  <2>2. \A r \in Upto(w) : r \in Upto(w + 1) /\ Q[r] = P[r]
    BY <1>0, <2>0, <2>1
  <2>3. \A r \in Upto(w + 1) : Cut(T, v, P, r) = Cut(T, v, Q, r)
    <3> HIDE DEF Upto, Q, W
    <3> QED  BY <1>1, <2>0, <2>1, <2>2
  <2>4. Q = [r \in Upto(w + 1) |-> Cut(T, v, Q, r)]
    BY <2>3
  <2> HIDE DEF Q, Upto
  <2> QED  BY <2>0, <2>4
<1>4. n \in W
  <2> HIDE DEF W
  <2>1. W \in SUBSET Nat
    BY DEF W
  <2> QED  BY <1>0, <1>2, <1>3, <2>1, InductionOnNat
<1>5. Upto(n) = (0..n) \X (0..n)
  BY <1>0
<1> QED  BY <1>4, <1>5 DEF Probes

LEMMA LastOfTable == ASSUME NEW T, NEW n, Table(T, n) PROVE LastOf(T) = n
BY DEF Table, LastOf

LEMMA SearchCuts ==
    ASSUME NEW T, NEW n, Table(T, n), NEW v \in Int, NEW a \in 0..n, NEW b \in 0..n
    PROVE  ProbesOf(T, v)[<<a, b>>] = Cut(T, v, ProbesOf(T, v), <<a, b>>)
<1>1. Probes(T, v, (0..n) \X (0..n), ProbesOf(T, v))
  <2>1. ProbesOf(T, v) = CHOOSE P : Probes(T, v, (0..n) \X (0..n), P)
    BY LastOfTable DEF ProbesOf
  <2> QED  BY <2>1, ProbesExist
<1> QED  BY <1>1 DEF Probes

\* The search ends beside the wanted speed, from every interval outside of which
\* all entries are ruled out.
Outside(T, n, v, a, b) == \A k \in 0..n : /\ k < a => T[k] < v
                                          /\ k > b => v < T[k]
LEMMA SearchBeside ==
    ASSUME NEW T, NEW n, Table(T, n), NEW v \in Int,
           NEW a \in 0..n, NEW b \in 0..n, a <= b, Outside(T, n, v, a, b)
    PROVE  ProbesOf(T, v)[<<a, b>>] \in 0..n /\ Beside(T, n, v, ProbesOf(T, v)[<<a, b>>])
<1> DEFINE P == ProbesOf(T, v)
           W == {w \in Nat : \A c, d \in 0..n :
                    c <= d /\ d - c <= w /\ Outside(T, n, v, c, d) =>
                        P[<<c, d>>] \in 0..n /\ Beside(T, n, v, P[<<c, d>>])}
<1>0. /\ n \in Nat /\ \A k \in 0..n : T[k] \in Nat
      /\ \A k, l \in 0..n : k < l => T[k] < T[l]
  BY DEF Table, Increasing
<1>1. ASSUME NEW c \in 0..n, NEW d \in 0..n, c <= d, Outside(T, n, v, c, d),
             \A x, y \in 0..n : x <= y /\ y - x < d - c /\ Outside(T, n, v, x, y) =>
                 P[<<x, y>>] \in 0..n /\ Beside(T, n, v, P[<<x, y>>])
      PROVE  P[<<c, d>>] \in 0..n /\ Beside(T, n, v, P[<<c, d>>])
  <2> DEFINE p == (c + d) \div 2
  <2>1. P[<<c, d>>] = Cut(T, v, P, <<c, d>>)
    BY SearchCuts
  <2>2. p \in 0..n /\ c <= p /\ p <= d /\ T[p] \in Nat
    BY <1>0, <1>1
  <2> HIDE DEF p, P
  <2>3. CASE T[p] < v /\ p + 1 < d
    <3>1. P[<<c, d>>] = P[<<p + 1, d>>]
      BY <1>0, <2>1, <2>2, <2>3 DEF Cut, p
    <3>2. p + 1 \in 0..n /\ p + 1 <= d /\ d - (p + 1) < d - c
      BY <1>0, <2>2, <2>3
    <3>3. Outside(T, n, v, p + 1, d)
      <4>1. \A k \in 0..n : k < p + 1 => T[k] <= T[p]
        BY <1>0, <2>2
      <4> QED  BY <1>0, <1>1, <2>2, <2>3, <4>1 DEF Outside
    <3> QED  BY <1>1, <3>1, <3>2, <3>3
  <2>4. CASE ~(T[p] < v /\ p + 1 < d) /\ T[p] > v /\ c < p - 1
    <3>1. P[<<c, d>>] = P[<<c, p - 1>>]
      BY <2>1, <2>2, <2>4 DEF Cut, p
    <3>2. p - 1 \in 0..n /\ c <= p - 1 /\ (p - 1) - c < d - c
      BY <1>0, <2>2, <2>4
    <3>3. Outside(T, n, v, c, p - 1)
      <4>1. \A k \in 0..n : k > p - 1 => T[p] <= T[k]
        BY <1>0, <2>2
      <4> QED  BY <1>0, <1>1, <2>2, <2>4, <4>1 DEF Outside
    <3> QED  BY <1>1, <3>1, <3>2, <3>3
  <2>5. CASE ~(T[p] < v /\ p + 1 < d) /\ ~(T[p] > v /\ c < p - 1)
    <3>1. P[<<c, d>>] = p
      BY <2>1, <2>5 DEF Cut, p
    <3>2. T[p] < v => \A k \in 0..n : k > p + 1 => v < T[k]
      BY <1>0, <1>1, <2>2, <2>5 DEF Outside
    <3>3. v < T[p] => \A k \in 0..n : k < p - 1 => T[k] < v
      BY <1>0, <1>1, <2>2, <2>5 DEF Outside
    <3> QED  BY <2>2, <3>1, <3>2, <3>3 DEF Beside
  <2> QED  BY <2>3, <2>4, <2>5
<1>2. 0 \in W
  <2> SUFFICES ASSUME NEW c \in 0..n, NEW d \in 0..n, c <= d, d - c <= 0,
                      Outside(T, n, v, c, d)
               PROVE  P[<<c, d>>] \in 0..n /\ Beside(T, n, v, P[<<c, d>>])
    OBVIOUS
  <2>1. \A x, y \in 0..n : ~(x <= y /\ y - x < d - c)
    BY <1>0
  <2> HIDE DEF P
  <2> QED  BY <1>1, <2>1
<1>3. ASSUME NEW w \in W PROVE w + 1 \in W
  <2>0. w \in Nat /\ w + 1 \in Nat
    OBVIOUS
  <2> SUFFICES ASSUME NEW c \in 0..n, NEW d \in 0..n, c <= d, d - c <= w + 1,
                      Outside(T, n, v, c, d)
               PROVE  P[<<c, d>>] \in 0..n /\ Beside(T, n, v, P[<<c, d>>])
    BY <2>0
  <2>1. ASSUME NEW x \in 0..n, NEW y \in 0..n, x <= y, y - x < d - c,
               Outside(T, n, v, x, y)
        PROVE  P[<<x, y>>] \in 0..n /\ Beside(T, n, v, P[<<x, y>>])
    <3>1. y - x <= w
      BY <1>0, <2>0, <2>1
    <3> HIDE DEF P
    <3> QED  BY <2>1, <3>1
  <2> HIDE DEF P, W
  <2> QED  BY <1>1, <2>1
<1>4. b - a \in W
  <2> HIDE DEF W
  <2>1. W \in SUBSET Nat /\ b - a \in Nat
    BY <1>0 DEF W
  <2> QED  BY <1>2, <1>3, <2>1, InductionOnNat
<1> HIDE DEF P
<1>5. b - a <= b - a
  BY <1>0
<1> QED  BY <1>4, <1>5 DEF P

\* What is implemented for a wanted speed: the next entry below or above it.
THEOREM ImplementedRight ==
    ASSUME NEW T, NEW n, Table(T, n), NEW v \in Int
    PROVE  Implemented(T, v) \in 0..n /\ NoneBetween(T, n, v, Implemented(T, v))
<1>1. n \in Nat /\ LastOf(T) = n
  BY LastOfTable DEF Table
<1>2. 0 \in 0..n /\ n \in 0..n /\ 0 <= n /\ Outside(T, n, v, 0, n)
  BY <1>1 DEF Outside
<1>3. LastProbe(T, v) \in 0..n /\ Beside(T, n, v, LastProbe(T, v))
  BY <1>1, <1>2, SearchBeside, LastProbeByRecursion
<1> QED  BY <1>3, CloserSuffices DEF Implemented
=============================================================================
