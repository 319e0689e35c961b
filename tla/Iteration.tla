------------------------------ MODULE Iteration ------------------------------
(***************************************************************************)
(* Induction and iteration for proofs about recursive functions.  They     *)
(* are stated of sets and functions, not of predicates and operators, so   *)
(* that the provers can use them.                                          *)
(***************************************************************************)
EXTENDS Integers, FiniteSets, FiniteSetsExt, WellFoundedInduction, NaturalsInduction,
        FiniteSetTheorems, TLAPS

\* A set of naturals that is not empty has a least element.
LEMMA LeastOf ==
  ASSUME NEW S, S \subseteq Nat, S # {}
  PROVE  \E x \in S : \A y \in S : x <= y
<1>1. PICK x \in S : \A y \in S : <<y, x>> \notin OpToRel(<, Nat)
  BY NatLessThanWellFounded, WFMin
<1>2. \A y \in S : ~ (y < x)
  BY <1>1 DEF OpToRel
<1>3. QED
  BY <1>2

\* Induction: a set that has 0 and the successor of each of its numbers.
LEMMA Induction ==
  ASSUME NEW P, 0 \in P, \A n \in Nat : n \in P => n + 1 \in P
  PROVE  Nat \subseteq P
<1> DEFINE S == Nat \ P
<1>1. SUFFICES ASSUME S # {} PROVE FALSE
  OBVIOUS
<1>2. PICK x \in S : \A y \in S : x <= y
  BY <1>1, LeastOf
<1>3. x # 0 /\ x - 1 \in Nat
  BY <1>2
<1>4. x - 1 \in P
  BY <1>2, <1>3
<1>5. x \in P
  BY <1>3, <1>4
<1>6. QED
  BY <1>2, <1>5

\* Induction up to a bound.
LEMMA BoundedInduction ==
  ASSUME NEW N \in Nat, NEW P, 0 \in P, \A n \in 0..(N - 1) : n \in P => n + 1 \in P
  PROVE  0..N \subseteq P
<1> DEFINE Q == {n \in Nat : n <= N => n \in P}
<1>1. 0 \in Q
  OBVIOUS
<1>2. \A n \in Nat : n \in Q => n + 1 \in Q
  OBVIOUS
<1> HIDE DEF Q
<1>3. Nat \subseteq Q
  BY <1>1, <1>2, Induction
<1>4. QED
  BY <1>3 DEF Q

\* A function that begins with base and goes on with step.
Iterates(f, S, base, step, N) ==
  /\ f \in [0..N -> S]
  /\ f[0] = base
  /\ \A k \in 1..N : f[k] = step[f[k - 1]]

LEMMA IterationExists ==
  ASSUME NEW S, NEW base \in S, NEW step \in [S -> S], NEW N \in Nat
  PROVE  \E f : Iterates(f, S, base, step, N)
<1> DEFINE P == {n \in Nat : \E f : Iterates(f, S, base, step, n)}
<1>1. 0 \in P
  <2> DEFINE f == [k \in 0..0 |-> base]
  <2>1. Iterates(f, S, base, step, 0)
    BY DEF Iterates
  <2>2. QED
    BY <2>1
<1>2. ASSUME NEW n \in Nat, n \in P
      PROVE  n + 1 \in P
  <2>1. PICK g : Iterates(g, S, base, step, n)
    BY <1>2
  <2> DEFINE f == [k \in 0..(n + 1) |-> IF k <= n THEN g[k] ELSE step[g[n]]]
  <2>2. /\ f \in [0..(n + 1) -> S] /\ f[0] = base
        /\ \A k \in 1..n : f[k] = step[f[k - 1]]
    BY <2>1 DEF Iterates
  <2>3. f[n + 1] = step[f[n]]
    BY <2>1 DEF Iterates
  <2> HIDE DEF f
  <2>4. \A k \in 1..(n + 1) : k \in 1..n \/ k = n + 1
    OBVIOUS
  <2>5. \A k \in 1..(n + 1) : f[k] = step[f[k - 1]]
    <3> TAKE k \in 1..(n + 1)
    <3>1. CASE k \in 1..n
      BY <2>2, <3>1
    <3>2. CASE k = n + 1
      <4>1. k - 1 = n
        BY <3>2
      <4>2. QED
        BY <2>3, <3>2, <4>1
    <3>3. QED
      BY <2>4, <3>1, <3>2
  <2>6. Iterates(f, S, base, step, n + 1)
    BY <2>2, <2>5 DEF Iterates
  <2>7. QED
    BY <2>6
<1> HIDE DEF P
<1>3. Nat \subseteq P
  BY <1>1, <1>2, Induction
<1>4. QED
  BY <1>3 DEF P

\* Induction over the subsets of a finite set.
LEMMA SubsetInduction ==
  ASSUME NEW S, IsFiniteSet(S), NEW P, {} \in P,
         \A T \in SUBSET S : T # {} /\ (\A x \in T : T \ {x} \in P) => T \in P
  PROVE  SUBSET S \subseteq P
<1> DEFINE Q == {n \in Nat : \A T \in SUBSET S : Cardinality(T) <= n => T \in P}
<1>1. \A T \in SUBSET S : /\ IsFiniteSet(T) /\ Cardinality(T) \in Nat
                          /\ Cardinality(T) = 0 <=> T = {}
                          /\ \A x \in T : Cardinality(T \ {x}) = Cardinality(T) - 1
  <2>1. ASSUME NEW T \in SUBSET S
        PROVE  IsFiniteSet(T) /\ Cardinality(T) \in Nat
    BY FS_Subset, FS_CardinalityType
  <2>2. QED
    BY <2>1, FS_EmptySet, FS_RemoveElement
<1>2. 0 \in Q
  <2>1. \A T \in SUBSET S : Cardinality(T) <= 0 => T = {}
    BY <1>1
  <2>2. \A T \in SUBSET S : Cardinality(T) <= 0 => T \in P
    BY <2>1
  <2>3. QED
    BY <2>2
<1>3. ASSUME NEW n \in Nat, n \in Q
      PROVE  n + 1 \in Q
  <2>1. ASSUME NEW T \in SUBSET S, Cardinality(T) <= n + 1
        PROVE  T \in P
    <3>1. CASE T = {}
      BY <3>1
    <3>2. CASE T # {}
      <4>1. \A x \in T : T \ {x} \in SUBSET S /\ Cardinality(T \ {x}) <= n
        BY <1>1, <2>1
      <4>2. \A x \in T : T \ {x} \in P
        BY <1>3, <4>1
      <4>3. QED
        BY <3>2, <4>2
    <3>3. QED
      BY <3>1, <3>2
  <2>2. QED
    BY <2>1
<1> HIDE DEF Q
<1>4. Nat \subseteq Q
  BY <1>2, <1>3, Induction
<1>5. QED
  BY <1>1, <1>4 DEF Q

\* A fold over the subsets of S: the elements are taken away one by one, as pick
\* tells, and step says what each does to the values V.
FoldsOver(h, S, V, base, pick, step) ==
  /\ h \in [SUBSET S -> V]
  /\ h[{}] = base
  /\ \A T \in SUBSET S : T # {} => h[T] = step[pick[T]][h[T \ {pick[T]}]]

Picks(pick, S) ==
  \A T \in SUBSET S : T # {} => pick[T] \in T

LEMMA FoldExists ==
  ASSUME NEW S, IsFiniteSet(S), NEW V, NEW base \in V, NEW step \in [S -> [V -> V]],
         NEW pick, Picks(pick, S)
  PROVE  \E h : FoldsOver(h, S, V, base, pick, step)
<1> DEFINE W == [SUBSET S -> V]
           Over(h) == [T \in SUBSET S |->
                         IF T = {} THEN base ELSE step[pick[T]][h[T \ {pick[T]}]]]
           next == [h \in W |-> Over(h)]
           N == Cardinality(S)
           start == [T \in SUBSET S |-> base]
<1>1. next \in [W -> W]
  <2>1. ASSUME NEW h \in W, NEW T \in SUBSET S, T # {}
        PROVE  step[pick[T]][h[T \ {pick[T]}]] \in V
    <3>1. pick[T] \in S /\ T \ {pick[T]} \in SUBSET S
      BY <2>1 DEF Picks
    <3>2. h[T \ {pick[T]}] \in V
      BY <3>1
    <3>3. QED
      BY <3>1, <3>2
  <2>2. ASSUME NEW h \in W
        PROVE  Over(h) \in W
    BY <2>1
  <2> HIDE DEF W, Over
  <2>3. QED
    BY <2>2
<1>2. start \in W
  OBVIOUS
<1>3. \A h \in W : next[h] = Over(h)
  OBVIOUS
<1>4. /\ N \in Nat
      /\ \A T \in SUBSET S : /\ Cardinality(T) \in Nat /\ Cardinality(T) <= N
                             /\ Cardinality(T) = 0 => T = {}
                             /\ \A x \in T : Cardinality(T \ {x}) = Cardinality(T) - 1
  <2>1. ASSUME NEW T \in SUBSET S
        PROVE  IsFiniteSet(T) /\ Cardinality(T) \in Nat /\ Cardinality(T) <= N
    BY FS_Subset, FS_CardinalityType
  <2>2. N \in Nat
    BY FS_CardinalityType
  <2>3. QED
    BY <2>1, <2>2, FS_EmptySet, FS_RemoveElement
<1> HIDE DEF next, W
<1>5. PICK g : Iterates(g, W, start, next, N)
  BY <1>1, <1>2, <1>4, IterationExists
<1>6. /\ g \in [0..N -> W] /\ g[0] = start
      /\ \A k \in 1..N : g[k] = next[g[k - 1]]
  BY <1>5 DEF Iterates
<1> DEFINE P == {n \in 0..N : \A T \in SUBSET S : Cardinality(T) <= n => Over(g[n])[T] = g[n][T]}
<1>7. 0 \in P
  <2>1. 0 \in 0..N
    BY <1>4
  <2>2. \A T \in SUBSET S : Cardinality(T) <= 0 => T = {}
    BY <1>4
  <2>3. Over(g[0])[{}] = base /\ g[0][{}] = base
    BY <1>6
  <2>4. QED
    BY <2>1, <2>2, <2>3
<1>8. ASSUME NEW n \in 0..(N - 1), n \in P
      PROVE  n + 1 \in P
  <2>1. n \in 0..N /\ n + 1 \in 1..N /\ n + 1 \in 0..N /\ (n + 1) - 1 = n
    BY <1>4
  <2>2. g[n] \in W /\ g[n + 1] \in W /\ g[n + 1] = Over(g[n])
    BY <1>3, <1>6, <2>1
  <2>3. \A T \in SUBSET S : Cardinality(T) <= n => g[n + 1][T] = g[n][T]
    BY <1>8, <2>2
  <2>4. ASSUME NEW T \in SUBSET S, Cardinality(T) <= n + 1
        PROVE  Over(g[n + 1])[T] = Over(g[n])[T]
    <3>1. CASE T = {}
      BY <3>1
    <3>2. CASE T # {}
      <4> DEFINE U == T \ {pick[T]}
      <4>1. pick[T] \in T /\ U \in SUBSET S
        BY <3>2 DEF Picks
      <4>2. Cardinality(U) <= n
        BY <1>4, <2>1, <2>4, <4>1
      <4>3. g[n + 1][U] = g[n][U]
        BY <2>3, <4>1, <4>2
      <4>4. QED
        BY <3>2, <4>3
    <3>3. QED
      BY <3>1, <3>2
  <2>5. \A T \in SUBSET S : Cardinality(T) <= n + 1 => Over(g[n + 1])[T] = g[n + 1][T]
    BY <2>2, <2>4
  <2> HIDE DEF Over
  <2>6. QED
    BY <2>1, <2>5
<1> HIDE DEF P
<1>9. 0..N \subseteq P
  BY <1>4, <1>7, <1>8, BoundedInduction
<1>10. N \in P /\ N \in 0..N
  BY <1>4, <1>9
<1>11. \A T \in SUBSET S : g[N][T] = Over(g[N])[T]
  BY <1>4, <1>10 DEF P
<1>12. g[N] \in [SUBSET S -> V]
  BY <1>6, <1>10 DEF W
<1>13. FoldsOver(g[N], S, V, base, pick, step)
  BY <1>11, <1>12 DEF FoldsOver
<1>14. QED
  BY <1>13

----------------------------------------------------------------------------
(* Folds along the numbers 1 to n.                                         *)

LEMMA LargestOf ==
  ASSUME NEW n \in Nat, NEW T \in SUBSET (0..n), T # {}
  PROVE  Max(T) \in T /\ \A y \in T : y <= Max(T)
<1> DEFINE D == {n - x : x \in T}
<1>1. D \subseteq Nat /\ D # {}
  <2>1. \A x \in T : x \in 0..n
    OBVIOUS
  <2>2. \A x \in T : n - x \in Nat
    BY <2>1
  <2>3. QED
    BY <2>2
<1>2. PICK d \in D : \A e \in D : d <= e
  BY <1>1, LeastOf
<1>3. PICK x \in T : d = n - x
  BY <1>2
<1>4. \A y \in T : n - y \in D /\ y \in 0..n /\ x \in 0..n
  BY <1>3
<1>5. ASSUME NEW y \in T
      PROVE  x >= y
  <2>1. n - x <= n - y
    BY <1>2, <1>3, <1>4
  <2> HIDE DEF D
  <2>2. QED
    BY <1>4, <2>1
<1>6. Max(T) \in T /\ \A y \in T : Max(T) >= y
  BY <1>3, <1>5 DEF Max
<1>7. \A y \in T : y \in 0..n /\ Max(T) \in 0..n
  BY <1>6
<1>8. QED
  BY <1>6, <1>7

LEMMA Latest ==
  ASSUME NEW n \in Nat
  PROVE  /\ \A T \in SUBSET (1..n) : T # {} => Max(T) \in T
         /\ \A k \in 1..n : Max(1..k) = k /\ (1..k) \ {k} = 1..(k - 1)
<1>1. \A T \in SUBSET (1..n) : T # {} => Max(T) \in T
  <2>1. \A T \in SUBSET (1..n) : T \in SUBSET (0..n)
    OBVIOUS
  <2>2. QED
    BY <2>1, LargestOf
<1>2. ASSUME NEW k \in 1..n
      PROVE  Max(1..k) = k /\ (1..k) \ {k} = 1..(k - 1)
  <2>1. k \in 1..k /\ \A y \in 1..k : k >= y
    OBVIOUS
  <2>2. Max(1..k) \in 1..k /\ Max(1..k) >= k
    <3>1. PICK x \in 1..k : \A y \in 1..k : x >= y
      BY <2>1
    <3>2. Max(1..k) \in 1..k /\ \A y \in 1..k : Max(1..k) >= y
      BY <3>1 DEF Max
    <3>3. QED
      BY <2>1, <3>2
  <2>3. QED
    BY <2>2
<1>3. QED
  BY <1>1, <1>2

\* Step after step of the numbers 1 to n, through values of V.
Walks(F, n, V, base, step) ==
  /\ F \in [0..n -> V] /\ F[0] = base
  /\ \A k \in 1..n : F[k] = step[k][F[k - 1]]

\* A function on the subsets of 1..n that takes the latest number each time.
TakesLatest(h, n, V, base, step) ==
  /\ h \in [SUBSET (1..n) -> V] /\ h[{}] = base
  /\ \A T \in SUBSET (1..n) : T # {} => h[T] = step[Max(T)][h[T \ {Max(T)}]]

LEMMA LatestExists ==
  ASSUME NEW n \in Nat, NEW V, NEW base \in V, NEW step \in [1..n -> [V -> V]]
  PROVE  \E h : TakesLatest(h, n, V, base, step)
<1> DEFINE pick == [T \in SUBSET (1..n) |-> Max(T)]
<1>1. Picks(pick, 1..n)
  BY Latest DEF Picks
<1>2. IsFiniteSet(1..n)
  BY FS_Interval
<1>3. PICK h : FoldsOver(h, 1..n, V, base, pick, step)
  <2> HIDE DEF pick
  <2>1. QED
    BY <1>1, <1>2, FoldExists
<1>4. TakesLatest(h, n, V, base, step)
  BY <1>3 DEF FoldsOver, TakesLatest
<1>5. QED
  BY <1>4

LEMMA LatestWalks ==
  ASSUME NEW n \in Nat, NEW V, NEW base, NEW step, NEW h, TakesLatest(h, n, V, base, step)
  PROVE  Walks([k \in 0..n |-> h[1..k]], n, V, base, step)
<1> DEFINE F == [k \in 0..n |-> h[1..k]]
<1>1. F \in [0..n -> V]
  <2>1. \A k \in 0..n : 1..k \in SUBSET (1..n)
    OBVIOUS
  <2>2. QED
    BY <2>1 DEF TakesLatest
<1>2. F[0] = base
  <2>1. 1..0 = {}
    OBVIOUS
  <2>2. QED
    BY <2>1 DEF TakesLatest
<1>3. ASSUME NEW k \in 1..n
      PROVE  F[k] = step[k][F[k - 1]]
  <2>1. 1..k \in SUBSET (1..n) /\ 1..k # {} /\ k \in 0..n /\ k - 1 \in 0..n
    OBVIOUS
  <2>2. Max(1..k) = k /\ (1..k) \ {k} = 1..(k - 1)
    BY Latest
  <2>3. h[1..k] = step[k][h[1..(k - 1)]]
    BY <2>1, <2>2 DEF TakesLatest
  <2>4. QED
    BY <2>1, <2>3
<1>4. QED
  BY <1>1, <1>2, <1>3 DEF Walks

\* Two functions on the subsets of 1..n that agree on a set when they do without
\* its latest number.
LEMMA SameFold ==
  ASSUME NEW n \in Nat, NEW h, NEW g, g[{}] = h[{}],
         \A T \in SUBSET (1..n) :
           T # {} /\ g[T \ {Max(T)}] = h[T \ {Max(T)}] => g[T] = h[T]
  PROVE  g[1..n] = h[1..n]
<1> DEFINE S == 1..n
           P == {T \in SUBSET S : g[T] = h[T]}
<1>1. {} \in P
  OBVIOUS
<1>2. ASSUME NEW T \in SUBSET S, T # {}, \A x \in T : T \ {x} \in P
      PROVE  T \in P
  <2>1. Max(T) \in T
    BY <1>2, Latest
  <2>2. g[T \ {Max(T)}] = h[T \ {Max(T)}]
    BY <1>2, <2>1
  <2>3. QED
    BY <1>2, <2>2
<1>3. IsFiniteSet(S)
  <2>1. IsFiniteSet(1..n)
    BY ONLY n \in Nat, FS_Interval
  <2>2. QED
    BY <2>1
<1>4. S \in SUBSET S
  OBVIOUS
<1>5. ASSUME SUBSET S \subseteq P PROVE g[1..n] = h[1..n]
  BY <1>4, <1>5
<1> HIDE DEF P, S
<1>6. SUBSET S \subseteq P
  BY <1>1, <1>2, <1>3, SubsetInduction
<1>7. QED
  BY <1>5, <1>6

\* A fold g along 1..n, known to satisfy its equation where its values are in V.
FoldsTo(g, n, V, base, step) ==
  /\ g[{}] = base
  /\ \A T \in SUBSET (1..n) :
       T # {} /\ g[T \ {Max(T)}] \in V => g[T] = step[Max(T)][g[T \ {Max(T)}]]

LEMMA FoldWalks ==
  ASSUME NEW n \in Nat, NEW V, NEW base, NEW step, NEW h, TakesLatest(h, n, V, base, step),
         NEW g, FoldsTo(g, n, V, base, step)
  PROVE  \E F : Walks(F, n, V, base, step) /\ F[n] = g[1..n]
<1>1. /\ h \in [SUBSET (1..n) -> V] /\ h[{}] = base
      /\ \A T \in SUBSET (1..n) : T # {} => h[T] = step[Max(T)][h[T \ {Max(T)}]]
  BY DEF TakesLatest
<1>2. \A T \in SUBSET (1..n) : h[T \ {Max(T)}] \in V
  BY <1>1
<1>3. \A T \in SUBSET (1..n) :
        T # {} /\ g[T \ {Max(T)}] = h[T \ {Max(T)}] => g[T] = h[T]
  BY <1>1, <1>2 DEF FoldsTo
<1>4. g[1..n] = h[1..n]
  BY <1>1, <1>3, SameFold DEF FoldsTo
<1> DEFINE F == [k \in 0..n |-> h[1..k]]
<1>5. Walks(F, n, V, base, step)
  BY LatestWalks
<1>6. F[n] = g[1..n]
  BY <1>4
<1>7. QED
  BY <1>5, <1>6
============================================================================
