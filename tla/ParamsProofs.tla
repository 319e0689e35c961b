---------------------------- MODULE ParamsProofs ----------------------------
(***************************************************************************)
(* Proofs about Params, for any objects and any file of assignments: every *)
(* parameter of an interface has a value, the most specific assignment     *)
(* wins, and the order of the file does not matter.                        *)
(***************************************************************************)
EXTENDS Params, Iteration, SequenceTheorems

----------------------------------------------------------------------------
(* Assignments.                                                            *)

LEMMA AssignmentFacts ==
  ASSUME NEW a \in Offered
  PROVE  /\ a.paramObj \in Kinds /\ a.value \in FileValue
         /\ Len(a.attributes) \in Nat /\ DOMAIN a.attributes = 1..Len(a.attributes)
         /\ ParamRank(a) \in Nat /\ a.value.rank \in Nat
<1>1. IsAssignment(a)
  BY ParamsAssumption
<1>2. a.paramObj \in Kinds /\ a.value \in FileValue /\ a.attributes \in Seq(ToSet(a.attributes))
  BY <1>1 DEF IsAssignment
<1>3. ParamRank(a) \in DOMAIN ParamOrder
  BY <1>1 DEF IsAssignment, ParamRank
<1>4. Len(a.attributes) \in Nat /\ DOMAIN a.attributes = 1..Len(a.attributes)
  BY <1>2
<1>5. a.value.rank \in Nat
  BY <1>2 DEF FileValue
<1>6. QED
  BY <1>2, <1>3, <1>4, <1>5, ParamsAssumption

LEMMA SublistIs ==
  ASSUME NEW a
  PROVE  Sublist(a) \in {"wc", "sg", "nm"}
  BY DEF Sublist

LEMMA Members ==
  ASSUME NEW S, NEW s \in Seq(S)
  PROVE  /\ Len(s) \in Nat /\ DOMAIN s = 1..Len(s)
         /\ ToSet(s) = {s[i] : i \in 1..Len(s)} /\ ToSet(s) \subseteq S /\ s \in Seq(ToSet(s))
  BY DEF ToSet

LEMMA AppendMembers ==
  ASSUME NEW S, NEW s \in Seq(S), NEW x \in S
  PROVE  ToSet(Append(s, x)) = ToSet(s) \cup {x}
<1>1. /\ Len(s) \in Nat /\ DOMAIN s = 1..Len(s) /\ DOMAIN Append(s, x) = 1..(Len(s) + 1)
      /\ Append(s, x)[Len(s) + 1] = x /\ \A i \in 1..Len(s) : Append(s, x)[i] = s[i]
  OBVIOUS
<1>2. 1..(Len(s) + 1) = 1..Len(s) \cup {Len(s) + 1}
  BY <1>1
<1>3. QED
  BY <1>1, <1>2 DEF ToSet

----------------------------------------------------------------------------
(* Only.                                                                   *)

Picking(s, A, V) ==
  [k \in 1..Len(s) |-> [t \in V |-> IF s[k] \in A THEN Append(t, s[k]) ELSE t]]

LEMMA OnlyWalks ==
  ASSUME NEW s \in Seq(Offered), NEW A
  PROVE  LET V == Seq(Offered)
         IN  \E F : Walks(F, Len(s), V, << >>, Picking(s, A, V)) /\ F[Len(s)] = Only(s, A)
<1> DEFINE n == Len(s)
           V == Seq(Offered)
           step == Picking(s, A, V)
           Op(t, a) == IF a \in A THEN Append(t, a) ELSE t
           Defines(q) ==
             q = [T \in SUBSET DOMAIN s |->
                    IF T = {} THEN << >> ELSE Op(q[T \ {Max(T)}], s[Max(T)])]
           chosen == CHOOSE q : Defines(q)
<1>1. n \in Nat /\ DOMAIN s = 1..n /\ \A k \in 1..n : s[k] \in Offered
  OBVIOUS
<1>2. step \in [1..n -> [V -> V]]
  <2>1. \A k \in 1..n, t \in V : Op(t, s[k]) \in V
    BY <1>1
  <2>2. QED
    BY <2>1 DEF Picking
<1>3. << >> \in V
  OBVIOUS
<1>4. Only(s, A) = chosen[DOMAIN s]
  BY DEF Only, FoldLeft, MapThenFoldSet
<1>5. \A k \in 1..n, t \in V : step[k][t] = Op(t, s[k])
  BY DEF Picking
<1>6. \A T \in SUBSET (1..n) : T # {} => Max(T) \in 1..n
  BY <1>1, Latest
<1> HIDE DEF n, V, step, Op
<1>7. PICK h : TakesLatest(h, n, V, << >>, step)
  BY <1>1, <1>2, <1>3, LatestExists
<1>8. Defines(h)
  <2>1. \A T \in SUBSET (1..n) : h[T \ {Max(T)}] \in V
    BY <1>7 DEF TakesLatest
  <2>2. QED
    BY <1>1, <1>5, <1>6, <1>7, <2>1 DEF TakesLatest
<1>9. Defines(chosen)
  BY <1>8
<1> HIDE DEF chosen
<1>10. FoldsTo(chosen, n, V, << >>, step)
  BY <1>1, <1>5, <1>6, <1>9 DEF FoldsTo
<1> HIDE DEF Defines
<1>11. \E F : Walks(F, n, V, << >>, step) /\ F[n] = chosen[1..n]
  BY <1>1, <1>7, <1>10, FoldWalks
<1>12. QED
  BY <1>1, <1>4, <1>11 DEF V, n, step

LEMMA OnlyFacts ==
  ASSUME NEW s \in Seq(Offered), NEW A
  PROVE  Only(s, A) \in Seq(Offered) /\ ToSet(Only(s, A)) = ToSet(s) \cap A
<1> DEFINE n == Len(s)
           V == Seq(Offered)
<1>1. PICK F : Walks(F, n, V, << >>, Picking(s, A, V)) /\ F[n] = Only(s, A)
  BY OnlyWalks
<1>2. /\ F \in [0..n -> V] /\ F[0] = << >>
      /\ \A k \in 1..n : F[k] = IF s[k] \in A THEN Append(F[k - 1], s[k]) ELSE F[k - 1]
  <2>1. F \in [0..n -> V] /\ F[0] = << >> /\ \A k \in 1..n : F[k] = Picking(s, A, V)[k][F[k - 1]]
    BY <1>1 DEF Walks
  <2>2. \A k \in 1..n : k - 1 \in 0..n
    OBVIOUS
  <2>3. \A k \in 1..n : F[k - 1] \in V
    BY <2>1, <2>2
  <2> HIDE DEF V
  <2>4. QED
    BY <2>1, <2>3 DEF Picking
<1> DEFINE P == {k \in 0..n : ToSet(F[k]) = {s[i] : i \in 1..k} \cap A}
<1>3. 0 \in P
  BY <1>2 DEF ToSet
<1>4. ASSUME NEW k \in 0..(n - 1), k \in P
      PROVE  k + 1 \in P
  <2>1. k + 1 \in 1..n /\ k + 1 \in 0..n /\ (k + 1) - 1 = k /\ F[k] \in V
    BY <1>2
  <2>2. F[k + 1] = IF s[k + 1] \in A THEN Append(F[k], s[k + 1]) ELSE F[k]
    BY <1>2, <2>1
  <2>3. {s[i] : i \in 1..(k + 1)} = {s[i] : i \in 1..k} \cup {s[k + 1]}
    <3>1. 1..(k + 1) = 1..k \cup {k + 1}
      OBVIOUS
    <3>2. QED
      BY <3>1
  <2>4. ToSet(Append(F[k], s[k + 1])) = ToSet(F[k]) \cup {s[k + 1]}
    BY <2>1, AppendMembers
  <2>5. QED
    BY <1>4, <2>1, <2>2, <2>3, <2>4
<1> HIDE DEF P
<1>5. n \in P
  <2>1. 0..n \subseteq P
    BY <1>3, <1>4, BoundedInduction
  <2>2. QED
    BY <2>1
<1>6. QED
  BY <1>1, <1>2, <1>5, Members DEF P

----------------------------------------------------------------------------
(* Order.  A relation of pairs <<x, y>> says that x should come before y.  *)

NoInversion(s, R) ==
  \A i, j \in DOMAIN s : i < j => <<s[j], s[i]>> \notin R

\* R is a strict weak order of S.
Orders(R, S) ==
  /\ \A x, y \in S : <<x, y>> \in R => <<y, x>> \notin R
  /\ \A x, y, z \in S : <<x, z>> \in R => <<x, y>> \in R \/ <<y, z>> \in R

LEMMA ConcatAt ==
  ASSUME NEW S, NEW s \in Seq(S), NEW t \in Seq(S)
  PROVE  /\ s \o t \in Seq(S) /\ Len(s \o t) = Len(s) + Len(t)
         /\ DOMAIN (s \o t) = 1..(Len(s) + Len(t))
         /\ \A i \in 1..Len(s) : (s \o t)[i] = s[i]
         /\ \A i \in (Len(s) + 1)..(Len(s) + Len(t)) : (s \o t)[i] = t[i - Len(s)]
  OBVIOUS

LEMMA ConcatFacts ==
  ASSUME NEW S, NEW s \in Seq(S), NEW t \in Seq(S)
  PROVE  /\ s \o t \in Seq(S) /\ ToSet(s \o t) = ToSet(s) \cup ToSet(t)
         /\ \A R : /\ NoInversion(s, R) /\ NoInversion(t, R)
                   /\ \A x \in ToSet(t), y \in ToSet(s) : <<x, y>> \notin R
                   => NoInversion(s \o t, R)
<1> DEFINE u == s \o t
           m == Len(s)
           n == Len(t)
<1>1. /\ m \in Nat /\ n \in Nat /\ DOMAIN s = 1..m /\ DOMAIN t = 1..n
      /\ u \in Seq(S) /\ DOMAIN u = 1..(m + n)
      /\ \A i \in 1..m : u[i] = s[i]
      /\ \A i \in (m + 1)..(m + n) : u[i] = t[i - m]
  OBVIOUS
<1> HIDE DEF u, m, n
<1>2. \A i \in 1..(m + n) : i \in 1..m \/ (i \in (m + 1)..(m + n) /\ i - m \in 1..n)
  BY <1>1
<1>3. /\ \A i \in 1..m : i \in 1..(m + n)
      /\ \A i \in 1..n : i + m \in (m + 1)..(m + n) /\ i + m \in 1..(m + n) /\ (i + m) - m = i
  BY <1>1
<1>4. ToSet(u) = ToSet(s) \cup ToSet(t)
  <2>1. \A i \in 1..n : u[i + m] = t[i]
    BY <1>1, <1>3
  <2>2. \A i \in 1..(m + n) : u[i] \in ToSet(s) \cup ToSet(t)
    BY <1>1, <1>2 DEF ToSet
  <2>3. \A i \in 1..m : s[i] \in ToSet(u)
    BY <1>1, <1>3 DEF ToSet
  <2>4. \A i \in 1..n : t[i] \in ToSet(u)
    BY <1>1, <1>3, <2>1 DEF ToSet
  <2>5. QED
    BY <1>1, <2>2, <2>3, <2>4 DEF ToSet
<1>5. ASSUME NEW R, NoInversion(s, R), NoInversion(t, R),
             \A x \in ToSet(t), y \in ToSet(s) : <<x, y>> \notin R
      PROVE  NoInversion(u, R)
  <2>1. SUFFICES ASSUME NEW i \in 1..(m + n), NEW j \in 1..(m + n), i < j
                 PROVE  <<u[j], u[i]>> \notin R
    BY <1>1 DEF NoInversion
  <2>2. CASE i \in 1..m /\ j \in 1..m
    BY <1>1, <1>5, <2>1, <2>2 DEF NoInversion
  <2>3. CASE i \in 1..m /\ j \in (m + 1)..(m + n)
    <3>1. j - m \in 1..n
      BY <1>1, <2>3
    <3>2. u[j] = t[j - m] /\ u[i] = s[i]
      BY <1>1, <2>3
    <3>3. u[j] \in ToSet(t) /\ u[i] \in ToSet(s)
      BY <1>1, <2>3, <3>1, <3>2 DEF ToSet
    <3>4. QED
      BY <1>5, <3>3
  <2>4. CASE i \in (m + 1)..(m + n) /\ j \in (m + 1)..(m + n)
    <3>1. i - m \in 1..n /\ j - m \in 1..n /\ i - m < j - m
      BY <1>1, <2>1, <2>4
    <3>2. QED
      BY <1>1, <1>5, <2>4, <3>1 DEF NoInversion
  <2>5. QED
    BY <1>1, <1>2, <2>1, <2>2, <2>3, <2>4
<1>6. QED
  BY <1>1, <1>4, <1>5 DEF u

----------------------------------------------------------------------------
(* sort.Slice.                                                             *)

\* Where x goes in s, and what is where afterwards.
Places(u, s, x, p) ==
  /\ p \in 1..(Len(s) + 1)
  /\ DOMAIN u = 1..(Len(s) + 1)
  /\ \A i \in 1..(p - 1) : u[i] = s[i]
  /\ u[p] = x
  /\ \A i \in (p + 1)..(Len(s) + 1) : u[i] = s[i - 1]

LEMMA InsertPlaces ==
  ASSUME NEW S, NEW s \in Seq(S), NEW x \in S, NEW p \in 1..(Len(s) + 1)
  PROVE  InsertAt(s, p, x) \in Seq(S) /\ Places(InsertAt(s, p, x), s, x, p)
<1> DEFINE n == Len(s)
           a == SubSeq(s, 1, p - 1)
           b == SubSeq(s, p, n)
           u == a \o <<x>> \o b
<1>1. n \in Nat /\ p \in 1..(n + 1)
  OBVIOUS
<1>2. a \in Seq(S) /\ Len(a) = p - 1 /\ \A i \in 1..(p - 1) : a[i] = s[i]
  BY <1>1
<1>3. b \in Seq(S) /\ Len(b) = n - p + 1 /\ \A i \in 1..(n - p + 1) : b[i] = s[p + i - 1]
  BY <1>1
<1> HIDE DEF a, b, n
<1>4. /\ u \in Seq(S) /\ Len(u) = n + 1 /\ DOMAIN u = 1..(n + 1)
      /\ \A i \in 1..(p - 1) : u[i] = a[i]
      /\ u[p] = x
      /\ \A i \in (p + 1)..(n + 1) : u[i] = b[i - p]
  <2> DEFINE c == a \o <<x>>
  <2>1. /\ c \in Seq(S) /\ Len(c) = p /\ c[p] = x
        /\ \A i \in 1..(p - 1) : c[i] = a[i]
    BY <1>1, <1>2
  <2> HIDE DEF c
  <2>2. /\ c \o b \in Seq(S) /\ Len(c \o b) = n + 1 /\ DOMAIN (c \o b) = 1..(n + 1)
        /\ \A i \in 1..p : (c \o b)[i] = c[i]
        /\ \A i \in (p + 1)..(n + 1) : (c \o b)[i] = b[i - p]
    <3>1. Len(c) + Len(b) = n + 1
      BY <1>1, <1>3, <2>1
    <3>2. b \in Seq(S) /\ c \in Seq(S)
      BY <1>3, <2>1
    <3>3. /\ c \o b \in Seq(S) /\ Len(c \o b) = Len(c) + Len(b)
          /\ DOMAIN (c \o b) = 1..(Len(c) + Len(b))
          /\ \A i \in 1..Len(c) : (c \o b)[i] = c[i]
          /\ \A i \in (Len(c) + 1)..(Len(c) + Len(b)) : (c \o b)[i] = b[i - Len(c)]
      BY ONLY <3>2, ConcatAt
    <3>4. Len(c) = p
      BY <2>1
    <3> DEFINE cb == c \o b
               l == Len(b)
    <3> HIDE DEF cb, l
    <3>5. /\ cb \in Seq(S) /\ Len(cb) = p + l /\ DOMAIN cb = 1..(p + l)
          /\ \A i \in 1..p : cb[i] = c[i]
          /\ \A i \in (p + 1)..(p + l) : cb[i] = b[i - p]
      BY <3>3, <3>4 DEF cb, l
    <3>6. p + l = n + 1
      BY <3>1, <3>4 DEF l
    <3>7. QED
      BY <3>5, <3>6 DEF cb
  <2>3. /\ \A i \in 1..(p - 1) : (c \o b)[i] = a[i]
        /\ (c \o b)[p] = x
    BY <1>1, <2>1, <2>2
  <2>4. u = c \o b
    BY DEF c
  <2>5. QED
    BY <2>2, <2>3, <2>4
<1>5. \A i \in (p + 1)..(n + 1) : u[i] = s[i - 1]
  <2>1. \A i \in (p + 1)..(n + 1) : i - p \in 1..(n - p + 1) /\ p + (i - p) - 1 = i - 1
    BY <1>1
  <2> HIDE DEF u
  <2>2. QED
    BY <1>3, <1>4, <2>1
<1>6. InsertAt(s, p, x) = u
  BY DEF InsertAt, a, b, n
<1> HIDE DEF u
<1>7. QED
  BY <1>1, <1>2, <1>4, <1>5, <1>6 DEF Places, n

LEMMA InsertedFacts ==
  ASSUME NEW S, NEW s \in Seq(S), NEW x \in S, NEW R
  PROVE  /\ Inserted(s, x, R) \in Seq(S)
         /\ ToSet(Inserted(s, x, R)) = ToSet(s) \cup {x}
         /\ NoInversion(s, R) /\ Orders(R, S) => NoInversion(Inserted(s, x, R), R)
<1> DEFINE n == Len(s)
           M == {0} \cup {i \in DOMAIN s : <<x, s[i]>> \notin R}
           p == 1 + Max(M)
           u == Inserted(s, x, R)
<1>1. n \in Nat /\ DOMAIN s = 1..n /\ \A i \in 1..n : s[i] \in S
  OBVIOUS
<1>2. Max(M) \in M /\ \A y \in M : y <= Max(M)
  <2>1. M \in SUBSET (0..n) /\ M # {}
    BY <1>1
  <2> HIDE DEF M
  <2>2. QED
    BY <1>1, <2>1, LargestOf
<1>3. p \in 1..(n + 1) /\ p - 1 \in M /\ \A y \in M : y <= p - 1
  <2>1. M \in SUBSET (0..n)
    BY <1>1
  <2> HIDE DEF M
  <2>2. Max(M) \in 0..n
    BY <1>2, <2>1
  <2>3. p - 1 = Max(M) /\ p \in 1..(n + 1)
    BY <1>1, <2>2
  <2> HIDE DEF p
  <2>4. QED
    BY <1>2, <2>3
<1>4. u = InsertAt(s, p, x)
  BY DEF Inserted
<1>5. /\ p - 1 # 0 => p - 1 \in 1..n /\ <<x, s[p - 1]>> \notin R
      /\ \A i \in p..n : <<x, s[i]>> \in R
  <2>1. p - 1 # 0 => p - 1 \in 1..n /\ <<x, s[p - 1]>> \notin R
    BY <1>1, <1>3
  <2>2. ASSUME NEW i \in p..n, <<x, s[i]>> \notin R
        PROVE  FALSE
    <3>1. i \in M
      BY <1>1, <1>3, <2>2
    <3> HIDE DEF M, p
    <3>2. i <= p - 1
      BY <1>3, <3>1
    <3>3. QED
      BY <1>1, <1>3, <2>2, <3>2
  <2>3. QED
    BY <2>1, <2>2
<1> HIDE DEF M, p, u, n
<1>6. u \in Seq(S) /\ Places(u, s, x, p)
  BY <1>3, <1>4, InsertPlaces DEF n
<1>7. /\ DOMAIN u = 1..(n + 1) /\ u[p] = x
      /\ \A i \in 1..(p - 1) : u[i] = s[i]
      /\ \A i \in (p + 1)..(n + 1) : u[i] = s[i - 1]
  BY <1>6 DEF Places, n
<1>8. \A i \in 1..(n + 1) : i \in 1..(p - 1) \/ i = p \/ i \in (p + 1)..(n + 1)
  BY <1>1, <1>3
<1>9. /\ \A i \in 1..(p - 1) : i \in 1..n /\ i \in 1..(n + 1)
      /\ \A i \in (p + 1)..(n + 1) : i - 1 \in 1..n /\ i - 1 \in p..n
      /\ \A i \in p..n : i + 1 \in (p + 1)..(n + 1) /\ (i + 1) - 1 = i /\ i + 1 \in 1..(n + 1)
      /\ \A i \in 1..n : i \in 1..(p - 1) \/ i \in p..n
      /\ p \in 1..(n + 1)
  BY <1>1, <1>3
<1>10. ToSet(u) = ToSet(s) \cup {x}
  <2>1. \A i \in 1..(n + 1) : u[i] \in ToSet(s) \cup {x}
    BY <1>1, <1>7, <1>8, <1>9 DEF ToSet
  <2>2. \A i \in 1..n : s[i] \in ToSet(u)
    <3>1. \A i \in 1..(p - 1) : s[i] \in ToSet(u)
      BY <1>7, <1>9 DEF ToSet
    <3>2. \A i \in p..n : u[i + 1] = s[i] /\ i + 1 \in DOMAIN u
      BY <1>7, <1>9
    <3>3. \A i \in p..n : s[i] \in ToSet(u)
      BY <3>2 DEF ToSet
    <3>4. QED
      BY <1>9, <3>1, <3>3
  <2>3. x \in ToSet(u)
    BY <1>7, <1>9 DEF ToSet
  <2>4. QED
    BY <1>1, <1>7, <2>1, <2>2, <2>3 DEF ToSet
<1>11. ASSUME NoInversion(s, R), Orders(R, S)
       PROVE  NoInversion(u, R)
  <2>1. \A i \in 1..(p - 1) : <<x, s[i]>> \notin R
    <3>1. ASSUME NEW i \in 1..(p - 1), <<x, s[i]>> \in R
          PROVE  FALSE
      <4>1. p - 1 # 0 /\ p - 1 \in 1..n /\ i \in 1..n /\ (i < p - 1 \/ i = p - 1)
        BY <1>3, <1>5, <1>9, <3>1
      <4>2. <<x, s[p - 1]>> \notin R
        BY <1>5, <4>1
      <4>3. i < p - 1
        BY <3>1, <4>1, <4>2
      <4>4. <<s[p - 1], s[i]>> \notin R
        BY <1>1, <1>11, <4>1, <4>3 DEF NoInversion
      <4>5. s[i] \in S /\ s[p - 1] \in S
        BY <1>1, <4>1
      <4>6. QED
        BY <1>11, <3>1, <4>2, <4>4, <4>5 DEF Orders
    <3>2. QED
      BY <3>1
  <2>2. \A i \in p..n : <<s[i], x>> \notin R
    <3>1. \A i \in p..n : i \in 1..n
      BY <1>1, <1>3
    <3>2. QED
      BY <1>1, <1>5, <1>11, <3>1 DEF Orders
  <2>3. SUFFICES ASSUME NEW i \in 1..(n + 1), NEW j \in 1..(n + 1), i < j
                 PROVE  <<u[j], u[i]>> \notin R
    BY <1>7 DEF NoInversion
  <2>4. CASE j \in 1..(p - 1)
    <3>1. i \in 1..(p - 1)
      BY <1>1, <1>3, <2>3, <2>4
    <3>2. QED
      BY <1>1, <1>7, <1>9, <1>11, <2>3, <2>4, <3>1 DEF NoInversion
  <2>5. CASE j = p
    <3>1. i \in 1..(p - 1)
      BY <1>1, <1>3, <2>3, <2>5
    <3>2. QED
      BY <1>7, <2>1, <2>5, <3>1
  <2>6. CASE j \in (p + 1)..(n + 1)
    <3>1. u[j] = s[j - 1] /\ j - 1 \in p..n /\ j - 1 \in 1..n
      BY <1>7, <1>9, <2>6
    <3>2. CASE i \in 1..(p - 1)
      <4>1. i \in 1..n /\ u[i] = s[i] /\ i < j - 1
        BY <1>1, <1>3, <1>7, <1>9, <2>6, <3>2
      <4>2. QED
        BY <1>1, <1>11, <3>1, <4>1 DEF NoInversion
    <3>3. CASE i = p
      BY <1>7, <2>2, <3>1, <3>3
    <3>4. CASE i \in (p + 1)..(n + 1)
      <4>1. i - 1 \in 1..n /\ u[i] = s[i - 1] /\ i - 1 < j - 1
        BY <1>1, <1>3, <1>7, <1>9, <2>3, <3>4
      <4>2. QED
        BY <1>1, <1>11, <3>1, <4>1 DEF NoInversion
    <3>5. QED
      BY <1>8, <3>2, <3>3, <3>4
  <2>7. QED
    BY <1>8, <2>4, <2>5, <2>6
<1>12. QED
  BY <1>6, <1>10, <1>11 DEF u

\* Insertions, one after the other.
Inserting(s, R, V) ==
  [k \in 1..Len(s) |-> [t \in V |-> Inserted(t, s[k], R)]]

LEMMA SortWalks ==
  ASSUME NEW S, NEW s \in Seq(S), NEW R
  PROVE  LET V == Seq(S)
         IN  \E F : Walks(F, Len(s), V, << >>, Inserting(s, R, V)) /\ F[Len(s)] = SortSlice(s, R)
<1> DEFINE n == Len(s)
           V == Seq(S)
           step == Inserting(s, R, V)
           Defines(q) ==
             q = [T \in SUBSET DOMAIN s |->
                    IF T = {} THEN << >> ELSE Inserted(q[T \ {Max(T)}], s[Max(T)], R)]
           chosen == CHOOSE q : Defines(q)
<1>1. n \in Nat /\ DOMAIN s = 1..n /\ \A k \in 1..n : s[k] \in S
  OBVIOUS
<1>2. step \in [1..n -> [V -> V]]
  <2>1. \A k \in 1..n, t \in V : Inserted(t, s[k], R) \in V
    BY <1>1, InsertedFacts
  <2>2. QED
    BY <2>1 DEF Inserting
<1>3. << >> \in V
  OBVIOUS
<1>4. SortSlice(s, R) = chosen[DOMAIN s]
  BY DEF SortSlice, FoldLeft, MapThenFoldSet
<1>5. \A k \in 1..n, t \in V : step[k][t] = Inserted(t, s[k], R)
  BY DEF Inserting
<1>6. \A T \in SUBSET (1..n) : T # {} => Max(T) \in 1..n
  BY <1>1, Latest
<1> HIDE DEF n, V, step
<1>7. PICK h : TakesLatest(h, n, V, << >>, step)
  BY <1>1, <1>2, <1>3, LatestExists
<1>8. Defines(h)
  <2>1. \A T \in SUBSET (1..n) : h[T \ {Max(T)}] \in V
    BY <1>7 DEF TakesLatest
  <2>2. QED
    BY <1>1, <1>5, <1>6, <1>7, <2>1 DEF TakesLatest
<1>9. Defines(chosen)
  BY <1>8
<1> HIDE DEF chosen
<1>10. FoldsTo(chosen, n, V, << >>, step)
  BY <1>1, <1>5, <1>6, <1>9 DEF FoldsTo
<1> HIDE DEF Defines
<1>11. \E F : Walks(F, n, V, << >>, step) /\ F[n] = chosen[1..n]
  BY <1>1, <1>7, <1>10, FoldWalks
<1>12. QED
  BY <1>1, <1>4, <1>11 DEF V, n, step

\* The first k members.
FirstOf(s, k) == {s[i] : i \in 1..k}

LEMMA FirstGrows ==
  ASSUME NEW s, NEW k \in Nat
  PROVE  FirstOf(s, k + 1) = FirstOf(s, k) \cup {s[k + 1]}
<1>1. 1..(k + 1) = 1..k \cup {k + 1}
  OBVIOUS
<1>2. QED
  BY <1>1 DEF FirstOf

LEMMA SortFacts ==
  ASSUME NEW S, NEW s \in Seq(S), NEW R
  PROVE  /\ SortSlice(s, R) \in Seq(S) /\ ToSet(SortSlice(s, R)) = ToSet(s)
         /\ Orders(R, S) => NoInversion(SortSlice(s, R), R)
<1> DEFINE n == Len(s)
           V == Seq(S)
<1>1. PICK F : Walks(F, n, V, << >>, Inserting(s, R, V)) /\ F[n] = SortSlice(s, R)
  BY SortWalks
<1>2. /\ F \in [0..n -> V] /\ F[0] = << >>
      /\ \A k \in 1..n : F[k] = Inserted(F[k - 1], s[k], R)
  <2>1. F \in [0..n -> V] /\ F[0] = << >> /\ \A k \in 1..n : F[k] = Inserting(s, R, V)[k][F[k - 1]]
    BY <1>1 DEF Walks
  <2>2. \A k \in 1..n : k - 1 \in 0..n
    OBVIOUS
  <2>3. \A k \in 1..n : F[k - 1] \in V
    BY <2>1, <2>2
  <2> HIDE DEF V
  <2>4. QED
    BY <2>1, <2>3 DEF Inserting
<1> DEFINE P == {k \in 0..n : /\ ToSet(F[k]) = FirstOf(s, k)
                              /\ Orders(R, S) => NoInversion(F[k], R)}
<1>3. 0 \in P
  <2>1. DOMAIN << >> = {} /\ 0 \in 0..n
    OBVIOUS
  <2>2. QED
    BY <1>2, <2>1 DEF ToSet, FirstOf, NoInversion
<1>4. ASSUME NEW k \in 0..(n - 1), k \in P
      PROVE  k + 1 \in P
  <2>1. k + 1 \in 1..n /\ k + 1 \in 0..n /\ (k + 1) - 1 = k /\ F[k] \in Seq(S) /\ s[k + 1] \in S /\ k \in Nat
    BY <1>2
  <2>2. F[k + 1] = Inserted(F[k], s[k + 1], R)
    BY <1>2, <2>1
  <2>3. FirstOf(s, k + 1) = FirstOf(s, k) \cup {s[k + 1]}
    BY <2>1, FirstGrows
  <2>4. /\ ToSet(F[k + 1]) = ToSet(F[k]) \cup {s[k + 1]}
        /\ NoInversion(F[k], R) /\ Orders(R, S) => NoInversion(F[k + 1], R)
    BY ONLY <2>1, <2>2, InsertedFacts
  <2>5. ToSet(F[k]) = FirstOf(s, k) /\ (Orders(R, S) => NoInversion(F[k], R))
    BY <1>4
  <2>6. QED
    BY <2>1, <2>3, <2>4, <2>5
<1> HIDE DEF P
<1>5. n \in P
  <2>1. 0..n \subseteq P
    BY <1>3, <1>4, BoundedInduction
  <2>2. QED
    BY <2>1
<1>6. SortSlice(s, R) \in V
  BY <1>1, <1>2
<1>7. QED
  BY <1>1, <1>5, <1>6, Members DEF P, FirstOf

----------------------------------------------------------------------------
(* Neighbours that are equal.                                              *)

Distinct(s, k) == k = 1 \/ ~Eq(s[k], s[k - 1])

Keeping(s, V) ==
  [k \in 1..Len(s) |-> [t \in V |-> IF Distinct(s, k) THEN Append(t, s[k]) ELSE t]]

LEMMA KeepWalks ==
  ASSUME NEW s \in Seq(Offered)
  PROVE  LET V == Seq(Offered)
         IN  \E F : Walks(F, Len(s), V, << >>, Keeping(s, V)) /\ F[Len(s)] = NoDuplicates(s)
<1> DEFINE n == Len(s)
           V == Seq(Offered)
           step == Keeping(s, V)
           kept == {i \in DOMAIN s : i = 1 \/ ~Eq(s[i], s[i - 1])}
           idx == [i \in DOMAIN s |-> i]
           Op(t, i) == IF i \in kept THEN Append(t, s[i]) ELSE t
           Defines(q) ==
             q = [T \in SUBSET DOMAIN idx |->
                    IF T = {} THEN << >> ELSE Op(q[T \ {Max(T)}], idx[Max(T)])]
           chosen == CHOOSE q : Defines(q)
<1>1. /\ n \in Nat /\ DOMAIN s = 1..n /\ \A k \in 1..n : s[k] \in Offered
      /\ DOMAIN idx = 1..n /\ \A k \in 1..n : idx[k] = k
  OBVIOUS
<1>2. step \in [1..n -> [V -> V]]
  <2>1. \A k \in 1..n, t \in V : (IF Distinct(s, k) THEN Append(t, s[k]) ELSE t) \in V
    BY <1>1
  <2>2. QED
    BY <2>1 DEF Keeping
<1>3. << >> \in V
  OBVIOUS
<1>4. NoDuplicates(s) = chosen[DOMAIN idx]
  BY DEF NoDuplicates, FoldLeft, MapThenFoldSet
<1>5. \A k \in 1..n, t \in V : step[k][t] = Op(t, k)
  BY <1>1 DEF Keeping, Distinct
<1>6. \A T \in SUBSET (1..n) : T # {} => Max(T) \in 1..n
  BY <1>1, Latest
<1> HIDE DEF n, V, step, Op, idx
<1>7. PICK h : TakesLatest(h, n, V, << >>, step)
  BY <1>1, <1>2, <1>3, LatestExists
<1>8. Defines(h)
  <2>1. \A T \in SUBSET (1..n) : h[T \ {Max(T)}] \in V
    BY <1>7 DEF TakesLatest
  <2>2. \A T \in SUBSET (1..n) :
          T # {} => h[T] = Op(h[T \ {Max(T)}], idx[Max(T)])
    <3>1. \A T \in SUBSET (1..n) : T # {} => idx[Max(T)] = Max(T)
      BY <1>1, <1>6
    <3>2. \A T \in SUBSET (1..n) : T # {} => h[T] = Op(h[T \ {Max(T)}], Max(T))
      BY <1>5, <1>6, <1>7, <2>1 DEF TakesLatest
    <3>3. QED
      BY <3>1, <3>2
  <2>3. h \in [SUBSET DOMAIN idx -> V] /\ h[{}] = << >>
    BY <1>1, <1>7 DEF TakesLatest
  <2>4. QED
    BY <1>1, <2>2, <2>3
<1>9. Defines(chosen)
  BY <1>8
<1> HIDE DEF chosen
<1>10. FoldsTo(chosen, n, V, << >>, step)
  <2>1. chosen[{}] = << >>
    BY <1>9
  <2>2. ASSUME NEW T \in SUBSET (1..n), T # {}, chosen[T \ {Max(T)}] \in V
        PROVE  chosen[T] = step[Max(T)][chosen[T \ {Max(T)}]]
    <3>1. chosen[T] = Op(chosen[T \ {Max(T)}], idx[Max(T)])
      BY <1>1, <1>9, <2>2
    <3>2. Max(T) \in 1..n /\ idx[Max(T)] = Max(T)
      BY <1>1, <1>6, <2>2
    <3>3. QED
      BY <1>5, <2>2, <3>1, <3>2
  <2>3. QED
    BY <2>1, <2>2 DEF FoldsTo
<1> HIDE DEF Defines
<1>11. \E F : Walks(F, n, V, << >>, step) /\ F[n] = chosen[1..n]
  BY <1>1, <1>7, <1>10, FoldWalks
<1>12. QED
  BY <1>1, <1>4, <1>11 DEF V, n, step

LEMMA NoDuplicatesFacts ==
  ASSUME NEW s \in Seq(Offered)
  PROVE  /\ NoDuplicates(s) \in Seq(Offered) /\ ToSet(NoDuplicates(s)) \subseteq ToSet(s)
         /\ \A x \in ToSet(s) : \E y \in ToSet(NoDuplicates(s)) : Eq(x, y)
         /\ \A R : NoInversion(s, R) => NoInversion(NoDuplicates(s), R)
<1> DEFINE n == Len(s)
           V == Seq(Offered)
<1>1. PICK F : Walks(F, n, V, << >>, Keeping(s, V)) /\ F[n] = NoDuplicates(s)
  BY KeepWalks
<1>2. /\ F \in [0..n -> V] /\ F[0] = << >>
      /\ \A k \in 1..n : F[k] = IF Distinct(s, k) THEN Append(F[k - 1], s[k]) ELSE F[k - 1]
  <2>1. F \in [0..n -> V] /\ F[0] = << >> /\ \A k \in 1..n : F[k] = Keeping(s, V)[k][F[k - 1]]
    BY <1>1 DEF Walks
  <2>2. \A k \in 1..n : k - 1 \in 0..n
    OBVIOUS
  <2>3. \A k \in 1..n : F[k - 1] \in V
    BY <2>1, <2>2
  <2> HIDE DEF V
  <2>4. QED
    BY <2>1, <2>3 DEF Keeping
<1> DEFINE Inv(k) ==
             /\ ToSet(F[k]) \subseteq FirstOf(s, k)
             /\ \A i \in 1..k : \E y \in ToSet(F[k]) : Eq(s[i], y)
             /\ \A R : NoInversion(s, R) => NoInversion(F[k], R)
           P == {k \in 0..n : Inv(k)}
<1>3. 0 \in P
  <2>1. DOMAIN << >> = {} /\ 0 \in 0..n /\ 1..0 = {}
    OBVIOUS
  <2>2. QED
    BY <1>2, <2>1 DEF ToSet, FirstOf, NoInversion
<1>4. ASSUME NEW k \in 0..(n - 1), k \in P
      PROVE  k + 1 \in P
  <2> DEFINE x == s[k + 1]
             t == F[k]
             u == F[k + 1]
  <2>1. /\ k + 1 \in 1..n /\ k + 1 \in 0..n /\ (k + 1) - 1 = k /\ t \in Seq(Offered)
        /\ x \in Offered /\ k \in Nat /\ DOMAIN s = 1..n /\ 1..k \subseteq 1..n
    BY <1>2
  <2>2. u = IF Distinct(s, k + 1) THEN Append(t, x) ELSE t
    BY <1>2, <2>1
  <2>3. FirstOf(s, k + 1) = FirstOf(s, k) \cup {x}
    BY <2>1, FirstGrows
  <2>4. Inv(k)
    BY <1>4
  <2>5. \A i \in 1..(k + 1) : i \in 1..k \/ i = k + 1
    BY <2>1
  <2> HIDE DEF n, V
  <2>6. CASE Distinct(s, k + 1)
    <3>1. u = Append(t, x) /\ ToSet(u) = ToSet(t) \cup {x}
      BY <2>1, <2>2, <2>6, AppendMembers
    <3>2. \A i \in 1..(k + 1) : \E y \in ToSet(u) : Eq(s[i], y)
      <4>1. Eq(x, x)
        BY DEF Eq, EqAttrbs
      <4>2. QED
        BY <2>4, <2>5, <3>1, <4>1
    <3>3. ASSUME NEW R, NoInversion(s, R)
          PROVE  NoInversion(u, R)
      <4>1. NoInversion(t, R)
        BY <2>4, <3>3
      <4>2. \A y \in ToSet(t) : <<x, y>> \notin R
        <5>1. \A i \in 1..k : i \in DOMAIN s /\ k + 1 \in DOMAIN s /\ i < k + 1
          BY <2>1
        <5>2. \A i \in 1..k : <<x, s[i]>> \notin R
          BY <3>3, <5>1 DEF NoInversion
        <5>3. QED
          BY <2>4, <5>2 DEF FirstOf
      <4>3. <<x>> \in Seq(Offered) /\ ToSet(<<x>>) = {x} /\ NoInversion(<<x>>, R) /\ Append(t, x) = t \o <<x>>
        <5>1. <<x>> \in Seq(Offered) /\ DOMAIN <<x>> = {1} /\ <<x>>[1] = x /\ Append(t, x) = t \o <<x>>
          BY <2>1
        <5>2. QED
          BY <5>1 DEF ToSet, NoInversion
      <4>4. \A a \in ToSet(<<x>>), y \in ToSet(t) : <<a, y>> \notin R
        BY <4>2, <4>3
      <4>5. NoInversion(t \o <<x>>, R)
        BY <2>1, <4>1, <4>3, <4>4, ConcatFacts
      <4>6. QED
        BY <3>1, <4>3, <4>5
    <3>4. Inv(k + 1)
      BY <2>3, <2>4, <3>1, <3>2, <3>3
    <3>5. QED
      BY <2>1, <3>4
  <2>7. CASE ~Distinct(s, k + 1)
    <3>1. u = t /\ k + 1 # 1 /\ Eq(x, s[k])
      BY <2>1, <2>2, <2>7 DEF Distinct
    <3>2. PICK y \in ToSet(t) : Eq(s[k], y)
      BY <2>1, <2>4, <3>1
    <3>3. Eq(x, y)
      BY <3>1, <3>2 DEF Eq, EqAttrbs
    <3>4. Inv(k + 1)
      BY <2>3, <2>4, <2>5, <3>1, <3>3
    <3>5. QED
      BY <2>1, <3>4
  <2>8. QED
    BY <2>6, <2>7
<1> HIDE DEF P
<1>5. n \in P
  <2>1. 0..n \subseteq P
    BY <1>3, <1>4, BoundedInduction
  <2>2. QED
    BY <2>1
<1>6. Inv(n)
  BY <1>5 DEF P
<1>7. NoDuplicates(s) \in V
  BY <1>1, <1>2
<1>8. ToSet(s) = FirstOf(s, n)
  BY Members DEF FirstOf
<1>9. \A x \in ToSet(s) : \E i \in 1..n : x = s[i]
  BY <1>8 DEF FirstOf
<1>10. QED
  BY <1>1, <1>6, <1>7, <1>8, <1>9

----------------------------------------------------------------------------
(* From general to specific.                                               *)

\* Of assignments for one kind of object, the general ones come first.
GeneralFirst ==
  {r \in Offered \X Offered : r[1].paramObj = r[2].paramObj /\ Refines(r[2], r[1])}

\* ... and so do those of the earlier sublists, whatever their attributes.
LaterList(b, a) == Tier[Sublist(b)] > Tier[Sublist(a)]

ListsInTurn ==
  {r \in Offered \X Offered : r[1].paramObj = r[2].paramObj /\ LaterList(r[2], r[1])}

OneKind(S) == \A a, b \in S : a.paramObj = b.paramObj

OneList(S) == \A a, b \in S : Sublist(a) = Sublist(b)

LEMMA MoreGeneralIsStrict ==
  ASSUME NEW a \in Offered, NEW b \in Offered
  PROVE  /\ MoreGeneral(a, b) => ~MoreGeneral(b, a)
         /\ \A c \in Offered : MoreGeneral(a, b) /\ MoreGeneral(b, c) => MoreGeneral(a, c)
<1>1. \A x \in Offered : Len(x.attributes) \in Nat
  BY AssignmentFacts
<1>2. QED
  BY <1>1 DEF MoreGeneral

LEMMA GeneralOrNot ==
  ASSUME NEW S, S \subseteq Offered, OneKind(S), OneList(S), WeaklyOrdered(S),
         NEW x \in S, NEW y \in S, NEW z \in S, MoreGeneral(x, z)
  PROVE  MoreGeneral(x, y) \/ MoreGeneral(y, z)
<1>1. SUFFICES ASSUME ~MoreGeneral(x, y), ~MoreGeneral(y, z) PROVE FALSE
  OBVIOUS
<1>2. x \in Offered /\ y \in Offered /\ z \in Offered
  OBVIOUS
<1>3. ~MoreGeneral(y, x)
  BY <1>1, <1>2, MoreGeneralIsStrict
<1>4. ~MoreGeneral(z, y)
  BY <1>1, <1>2, MoreGeneralIsStrict
<1>5. /\ x.paramObj = y.paramObj /\ y.paramObj = z.paramObj
      /\ Sublist(x) = Sublist(y) /\ Sublist(y) = Sublist(z)
  BY DEF OneKind, OneList
<1>6. ~MoreGeneral(x, z)
  BY <1>1, <1>3, <1>4, <1>5 DEF WeaklyOrdered
<1>7. QED
  BY <1>6

LEMMA SingleIsOrder ==
  ASSUME NEW S, S \subseteq Offered, OneKind(S), OneList(S), WeaklyOrdered(S)
  PROVE  Orders(LessSingle, S)
<1>1. \A x, y \in S : x \in Offered /\ y \in Offered /\ (<<x, y>> \in LessSingle <=> MoreGeneral(x, y))
  BY DEF LessSingle
<1>2. \A x, y \in S : <<x, y>> \in LessSingle => <<y, x>> \notin LessSingle
  BY <1>1, MoreGeneralIsStrict
<1>3. \A x, y, z \in S : <<x, z>> \in LessSingle => <<x, y>> \in LessSingle \/ <<y, z>> \in LessSingle
  BY <1>1, GeneralOrNot
<1>4. QED
  BY <1>2, <1>3 DEF Orders

LEMMA NamedIsOrder ==
  ASSUME NEW S, S \subseteq Offered, OneKind(S), OneList(S), WeaklyOrdered(S)
  PROVE  Orders(LessNamed, S)
<1> DEFINE Less(x, y) == MoreGeneral(x, y) \/ (~MoreGeneral(y, x) /\ Before(x, y))
<1>1. \A x, y \in S : x \in Offered /\ y \in Offered /\ (<<x, y>> \in LessNamed <=> Less(x, y))
  BY DEF LessNamed
<1>2. ASSUME NEW x \in S, NEW y \in S
      PROVE  /\ Before(x, y) => ~Before(y, x)
             /\ \A z \in S : Before(x, z) => Before(x, y) \/ Before(y, z)
  <2>1. \A a \in S : ParamRank(a) \in Nat /\ a.value.rank \in Nat
    BY AssignmentFacts
  <2>2. QED
    BY <2>1 DEF Before
<1>3. \A x, y \in S : MoreGeneral(x, y) => ~MoreGeneral(y, x)
  BY <1>1, MoreGeneralIsStrict
<1>4. \A x, y, z \in S : MoreGeneral(x, z) => MoreGeneral(x, y) \/ MoreGeneral(y, z)
  BY GeneralOrNot
<1>5. \A x, y \in S : Less(x, y) => ~Less(y, x)
  BY <1>2, <1>3
<1>6. ASSUME NEW x \in S, NEW y \in S, NEW z \in S, Less(x, z)
      PROVE  Less(x, y) \/ Less(y, z)
  <2>1. CASE MoreGeneral(x, z)
    BY <1>4, <2>1
  <2>2. CASE ~MoreGeneral(z, x) /\ Before(x, z)
    <3>1. MoreGeneral(y, x) => MoreGeneral(y, z)
      BY <1>4, <2>2
    <3>2. MoreGeneral(z, y) => MoreGeneral(x, y)
      BY <1>4, <2>2
    <3>3. Before(x, y) \/ Before(y, z)
      BY <1>2, <2>2
    <3>4. QED
      BY <1>4, <2>2, <3>1, <3>2, <3>3
  <2>3. QED
    BY <1>6, <2>1, <2>2
<1> HIDE DEF Less
<1>7. QED
  BY <1>1, <1>5, <1>6 DEF Orders

\* A wildcard that stands alone is the attribute that tells.
LEMMA SublistAlone ==
  ASSUME NEW a \in Offered, "*" \in Names(a) => Len(a.attributes) = 1
  PROVE  Sublist(a) = IF "*" \in Names(a) THEN "wc" ELSE IF "name" \in Names(a) THEN "nm" ELSE "sg"
<1> DEFINE D == DOMAIN a.attributes
           telling == {i \in D : a.attributes[i][1] \in {"*", "name"}}
           first == CHOOSE i \in telling : \A j \in telling : i <= j
<1>1. D = 1..Len(a.attributes) /\ Len(a.attributes) \in Nat
  BY AssignmentFacts
<1>2. \A n : n \in Names(a) <=> \E i \in D : a.attributes[i][1] = n
  BY DEF Names
<1>3. Sublist(a) = IF telling = {} THEN "sg"
                   ELSE IF a.attributes[first][1] = "*" THEN "wc" ELSE "nm"
  BY DEF Sublist
<1>4. telling # {} => first \in telling
  <2>1. telling \subseteq Nat
    BY <1>1
  <2> HIDE DEF telling
  <2>2. QED
    BY <2>1, LeastOf
<1> HIDE DEF first, D
<1>5. CASE "*" \in Names(a)
  <2>1. D = {1} /\ a.attributes[1][1] = "*"
    BY <1>1, <1>2, <1>5
  <2>2. telling = {1}
    BY <2>1
  <2>3. QED
    BY <1>3, <1>4, <1>5, <2>1, <2>2
<1>6. CASE "*" \notin Names(a)
  BY <1>2, <1>3, <1>4, <1>6
<1>7. QED
  BY <1>5, <1>6

LEMMA WithinList ==
  ASSUME NEW a \in Offered, NEW b \in Offered
  PROVE  <<a, b>> \in GeneralFirst <=>
           /\ a.paramObj = b.paramObj
           /\ \/ Sublist(a) = "wc" /\ Sublist(b) \in {"sg", "nm"}
              \/ Sublist(a) = "sg" /\ Sublist(b) = "nm"
              \/ Sublist(a) = Sublist(b) /\ MoreGeneral(a, b)
<1>1. Sublist(a) \in {"wc", "sg", "nm"} /\ Sublist(b) \in {"wc", "sg", "nm"}
  BY SublistIs
<1>2. Refines(b, a) <=> \/ Sublist(a) = "wc" /\ Sublist(b) \in {"sg", "nm"}
                        \/ Sublist(a) = "sg" /\ Sublist(b) = "nm"
                        \/ Sublist(a) = Sublist(b) /\ MoreGeneral(a, b)
  <2>1. Tier["wc"] = 1 /\ Tier["sg"] = 2 /\ Tier["nm"] = 3
    BY DEF Tier
  <2>2. QED
    BY <1>1, <2>1 DEF Refines
<1>3. QED
  BY <1>2 DEF GeneralFirst

\* Weakening of the comparison to a subset, and to another relation.
LEMMA NoInversionOf ==
  ASSUME NEW s, NEW R, NEW Q, NoInversion(s, R),
         \A x, y \in ToSet(s) : <<x, y>> \in Q => <<x, y>> \in R
  PROVE  NoInversion(s, Q)
<1>1. \A i \in DOMAIN s : s[i] \in ToSet(s)
  BY DEF ToSet
<1>2. QED
  BY <1>1 DEF NoInversion

LEMMA ReorderFacts ==
  ASSUME NEW s \in Seq(Offered)
  PROVE  /\ ReorderExpParams(s) \in Seq(Offered) /\ ToSet(ReorderExpParams(s)) \subseteq ToSet(s)
         /\ \A x \in ToSet(s) : \E y \in ToSet(ReorderExpParams(s)) : Eq(x, y)
         /\ NoInversion(ReorderExpParams(s), ListsInTurn)
         /\ OneKind(ToSet(s)) /\ WeaklyOrdered(ToSet(s)) /\ WildcardsAlone(ToSet(s))
            => NoInversion(ReorderExpParams(s), GeneralFirst)
<1> DEFINE S == ToSet(s)
           On(l) == {a \in Offered : Sublist(a) = l}
           wc == SortSlice(OfSublist(s, "wc"), LessWildcard)
           sg == SortSlice(OfSublist(s, "sg"), LessSingle)
           nm == SortSlice(OfSublist(s, "nm"), LessNamed)
           all == wc \o sg \o nm
<1>1. S \subseteq Offered
  BY Members
<1>2. \A l : OfSublist(s, l) \in Seq(S \cap On(l)) /\ ToSet(OfSublist(s, l)) = S \cap On(l)
  <2>1. \A l : OfSublist(s, l) = Only(s, On(l))
    BY DEF OfSublist
  <2>2. \A A : Only(s, A) \in Seq(Offered) /\ ToSet(Only(s, A)) = S \cap A
    BY OnlyFacts
  <2> HIDE DEF On, S
  <2>3. \A A : Only(s, A) \in Seq(ToSet(Only(s, A)))
    BY <2>2, Members
  <2>4. QED
    BY <2>1, <2>2, <2>3
<1> HIDE DEF S, On
<1>3. /\ wc \in Seq(S \cap On("wc")) /\ ToSet(wc) = S \cap On("wc")
      /\ sg \in Seq(S \cap On("sg")) /\ ToSet(sg) = S \cap On("sg")
      /\ nm \in Seq(S \cap On("nm")) /\ ToSet(nm) = S \cap On("nm")
  BY <1>2, SortFacts
<1>4. /\ Orders(LessSingle, S \cap On("sg")) => NoInversion(sg, LessSingle)
      /\ Orders(LessNamed, S \cap On("nm")) => NoInversion(nm, LessNamed)
  BY <1>2, SortFacts
<1> HIDE DEF wc, sg, nm
<1>5. wc \in Seq(Offered) /\ sg \in Seq(Offered) /\ nm \in Seq(Offered)
  BY <1>1, <1>3
<1>6. /\ wc \o sg \in Seq(Offered) /\ ToSet(wc \o sg) = ToSet(wc) \cup ToSet(sg)
      /\ all \in Seq(Offered) /\ ToSet(all) = ToSet(wc \o sg) \cup ToSet(nm)
  <2>1. wc \o sg \in Seq(Offered) /\ ToSet(wc \o sg) = ToSet(wc) \cup ToSet(sg)
    BY <1>5, ConcatFacts
  <2> DEFINE ws == wc \o sg
  <2>2. all = ws \o nm
    OBVIOUS
  <2> HIDE DEF ws, all
  <2>3. ws \in Seq(Offered)
    BY <2>1 DEF ws
  <2>4. ws \o nm \in Seq(Offered) /\ ToSet(ws \o nm) = ToSet(ws) \cup ToSet(nm)
    BY <1>5, <2>3, ConcatFacts
  <2>5. QED
    BY <2>1, <2>2, <2>4 DEF ws
<1>7. ToSet(all) = S
  <2>1. \A a \in S : a \in On("wc") \/ a \in On("sg") \/ a \in On("nm")
    BY <1>1, SublistIs DEF On
  <2> HIDE DEF all
  <2>2. QED
    BY <1>3, <1>6, <2>1
<1>8. ReorderExpParams(s) = NoDuplicates(all)
  BY DEF ReorderExpParams, wc, sg, nm
<1>9. ASSUME OneKind(S), WeaklyOrdered(S), WildcardsAlone(S)
      PROVE  NoInversion(all, GeneralFirst)
  <2> DEFINE Q == GeneralFirst
  <2>1. \A l : \A a \in S : a \in On(l) <=> Sublist(a) = l
    BY <1>1 DEF On
  <2>2. \A a, b \in S : <<a, b>> \in Q /\ Sublist(a) = Sublist(b) => MoreGeneral(a, b)
    BY <1>1, WithinList
  <2> HIDE DEF Q
  <2>2a. /\ \A a \in ToSet(wc) : a \in S /\ a \in Offered /\ Sublist(a) = "wc"
         /\ \A a \in ToSet(sg) : a \in S /\ a \in Offered /\ Sublist(a) = "sg"
         /\ \A a \in ToSet(nm) : a \in S /\ a \in Offered /\ Sublist(a) = "nm"
    BY <1>1, <1>3, <2>1
  <2>2b. \A a, b \in Offered :
           <<a, b>> \in Q => \/ Sublist(a) = "wc" \/ Sublist(a) = Sublist(b)
                             \/ Sublist(a) = "sg" /\ Sublist(b) = "nm"
    BY WithinList DEF Q
  <2>3. NoInversion(wc, Q)
    <3>1. \A a \in S : Sublist(a) = "wc" => Len(a.attributes) = 1
      BY <1>1, <1>9, SublistAlone DEF WildcardsAlone
    <3>2. \A a, b \in ToSet(wc) : <<a, b>> \notin Q
      <4>1. \A a, b \in ToSet(wc) : <<a, b>> \in Q => MoreGeneral(a, b)
        BY <2>2, <2>2a
      <4>2. \A a, b \in ToSet(wc) : Len(a.attributes) = 1 /\ Len(b.attributes) = 1
        BY <2>2a, <3>1
      <4>3. \A a, b \in ToSet(wc) : ~MoreGeneral(a, b)
        BY <4>2 DEF MoreGeneral
      <4>4. QED
        BY <4>1, <4>3
    <3>3. NoInversion(wc, {})
      BY DEF NoInversion
    <3>4. QED
      BY <3>2, <3>3, NoInversionOf
  <2>4. ASSUME NEW l
        PROVE  LET L == S \cap On(l)
               IN  L \subseteq Offered /\ OneKind(L) /\ OneList(L) /\ WeaklyOrdered(L)
    <3>1. S \cap On(l) \subseteq S /\ OneList(S \cap On(l))
      BY <2>1 DEF OneList
    <3> DEFINE L == S \cap On(l)
    <3> HIDE DEF L
    <3>2. L \subseteq S /\ OneList(L)
      BY <3>1 DEF L
    <3>3. OneKind(L) /\ WeaklyOrdered(L)
      <4>1. OneKind(L)
        BY <1>9, <3>2 DEF OneKind
      <4>2. WeaklyOrdered(L)
        BY <1>9, <3>2 DEF WeaklyOrdered
      <4>3. QED
        BY <4>1, <4>2
    <3>4. QED
      BY <1>1, <3>2, <3>3 DEF L
  <2>5. NoInversion(sg, LessSingle) /\ NoInversion(nm, LessNamed)
    BY <1>4, <2>4, SingleIsOrder, NamedIsOrder
  <2>6. NoInversion(sg, Q)
    <3>1. \A a, b \in ToSet(sg) : <<a, b>> \in Q => <<a, b>> \in LessSingle
      <4>1. \A a, b \in ToSet(sg) : a \in Offered /\ b \in Offered /\ a \in S /\ b \in S /\ Sublist(a) = Sublist(b)
        BY <1>1, <1>3, <2>1
      <4>2. QED
        BY <2>2, <4>1 DEF LessSingle
    <3>2. QED
      BY <2>5, <3>1, NoInversionOf
  <2>7. NoInversion(nm, Q)
    <3>1. \A a, b \in ToSet(nm) : <<a, b>> \in Q => <<a, b>> \in LessNamed
      <4>1. \A a, b \in ToSet(nm) : a \in Offered /\ b \in Offered /\ a \in S /\ b \in S /\ Sublist(a) = Sublist(b)
        BY <1>1, <1>3, <2>1
      <4>2. QED
        BY <2>2, <4>1 DEF LessNamed
    <3>2. QED
      BY <2>5, <3>1, NoInversionOf
  <2>8. NoInversion(wc \o sg, Q)
    <3>1. \A x \in ToSet(sg), y \in ToSet(wc) : <<x, y>> \notin Q
      BY <2>2a, <2>2b
    <3>2. QED
      BY <1>5, <2>3, <2>6, <3>1, ConcatFacts
  <2>9. \A x \in ToSet(nm), y \in ToSet(wc \o sg) : <<x, y>> \notin Q
    <3>1. \A x \in ToSet(nm), y \in ToSet(wc) : <<x, y>> \notin Q
      BY <2>2a, <2>2b
    <3>2. \A x \in ToSet(nm), y \in ToSet(sg) : <<x, y>> \notin Q
      BY <2>2a, <2>2b
    <3>3. QED
      BY <1>6, <3>1, <3>2
  <2>10. NoInversion(all, Q)
    BY <1>5, <1>6, <2>7, <2>8, <2>9, ConcatFacts
  <2>11. QED
    BY <2>10 DEF Q
<1>9a. NoInversion(all, ListsInTurn)
  <2> DEFINE Q == ListsInTurn
  <2>1. /\ \A a \in ToSet(wc) : a \in Offered /\ Sublist(a) = "wc"
        /\ \A a \in ToSet(sg) : a \in Offered /\ Sublist(a) = "sg"
        /\ \A a \in ToSet(nm) : a \in Offered /\ Sublist(a) = "nm"
    BY <1>1, <1>3 DEF On
  <2>2. Tier["wc"] = 1 /\ Tier["sg"] = 2 /\ Tier["nm"] = 3
    BY DEF Tier
  <2>3. \A a, b \in Offered : <<a, b>> \in Q => Tier[Sublist(b)] > Tier[Sublist(a)]
    BY DEF LaterList, ListsInTurn
  <2> HIDE DEF Q
  <2>4. /\ \A a, b \in ToSet(wc) : <<a, b>> \notin Q
        /\ \A a, b \in ToSet(sg) : <<a, b>> \notin Q
        /\ \A a, b \in ToSet(nm) : <<a, b>> \notin Q
    BY <2>1, <2>2, <2>3
  <2>5. /\ \A a \in ToSet(sg), b \in ToSet(wc) : <<a, b>> \notin Q
        /\ \A a \in ToSet(nm), b \in ToSet(wc) : <<a, b>> \notin Q
        /\ \A a \in ToSet(nm), b \in ToSet(sg) : <<a, b>> \notin Q
    BY <2>1, <2>2, <2>3
  <2>6. NoInversion(wc, Q) /\ NoInversion(sg, Q) /\ NoInversion(nm, Q)
    <3>1. NoInversion(wc, {}) /\ NoInversion(sg, {}) /\ NoInversion(nm, {})
      BY DEF NoInversion
    <3>2. QED
      BY <2>4, <3>1, NoInversionOf
  <2>7. NoInversion(wc \o sg, Q)
    BY <1>5, <2>5, <2>6, ConcatFacts
  <2>8. \A x \in ToSet(nm), y \in ToSet(wc \o sg) : <<x, y>> \notin Q
    BY <1>6, <2>5
  <2>9. NoInversion(all, Q)
    BY <1>5, <1>6, <2>6, <2>7, <2>8, ConcatFacts
  <2>10. QED
    BY <2>9 DEF Q
<1> HIDE DEF all
<1>10. /\ NoDuplicates(all) \in Seq(Offered) /\ ToSet(NoDuplicates(all)) \subseteq S
       /\ \A x \in S : \E y \in ToSet(NoDuplicates(all)) : Eq(x, y)
       /\ NoInversion(all, GeneralFirst) => NoInversion(NoDuplicates(all), GeneralFirst)
       /\ NoInversion(all, ListsInTurn) => NoInversion(NoDuplicates(all), ListsInTurn)
  BY <1>6, <1>7, NoDuplicatesFacts
<1>11. QED
  BY <1>8, <1>9, <1>9a, <1>10 DEF S

----------------------------------------------------------------------------
(* The whole list.                                                         *)

OfKind(s, k) == ReorderExpParams(Only(s, {a \in Offered : a.paramObj = k}))

Ordered(s) ==
  OfKind(s, "Endpoint") \o OfKind(s, "Router") \o OfKind(s, "Switch")
    \o OfKind(s, "Interface") \o OfKind(s, "Network") \o OfKind(s, "Flow")

\* What is true of the list of the kinds K, and of longer ones.
Part(L, s, K) ==
  /\ L \in Seq(Offered) /\ ToSet(L) \subseteq {x \in ToSet(s) : x.paramObj \in K}
  /\ \A x \in ToSet(s) : x.paramObj \in K => \E y \in ToSet(L) : Eq(x, y)
  /\ NoInversion(L, ListsInTurn)
  /\ WeaklyOrdered(ToSet(s)) /\ WildcardsAlone(ToSet(s)) => NoInversion(L, GeneralFirst)

LEMMA KindPart ==
  ASSUME NEW s \in Seq(Offered), NEW k
  PROVE  Part(OfKind(s, k), s, {k})
<1> DEFINE A == {a \in Offered : a.paramObj = k}
           t == Only(s, A)
<1>1. t \in Seq(Offered) /\ ToSet(t) = ToSet(s) \cap A /\ ToSet(s) \subseteq Offered
  BY OnlyFacts, Members
<1>2. \A x \in ToSet(s) : x \in ToSet(t) <=> x.paramObj = k
  BY <1>1
<1>3. OneKind(ToSet(t))
  BY <1>1 DEF OneKind
<1> HIDE DEF t, A
<1>4. ToSet(t) \subseteq ToSet(s)
  BY <1>1
<1>5. WeaklyOrdered(ToSet(s)) => WeaklyOrdered(ToSet(t))
  BY <1>4 DEF WeaklyOrdered
<1>6. WildcardsAlone(ToSet(s)) => WildcardsAlone(ToSet(t))
  BY <1>4 DEF WildcardsAlone
<1>7. OfKind(s, k) = ReorderExpParams(t)
  BY DEF OfKind, t, A
<1>8. /\ OfKind(s, k) \in Seq(Offered) /\ ToSet(OfKind(s, k)) \subseteq ToSet(t)
      /\ \A x \in ToSet(t) : \E y \in ToSet(OfKind(s, k)) : Eq(x, y)
      /\ NoInversion(OfKind(s, k), ListsInTurn)
      /\ OneKind(ToSet(t)) /\ WeaklyOrdered(ToSet(t)) /\ WildcardsAlone(ToSet(t))
         => NoInversion(OfKind(s, k), GeneralFirst)
  BY <1>1, <1>7, ReorderFacts
<1>9. QED
  BY <1>2, <1>3, <1>4, <1>5, <1>6, <1>8 DEF Part

LEMMA PartsJoin ==
  ASSUME NEW s \in Seq(Offered), NEW K, NEW L, Part(L, s, K), NEW M, NEW k, Part(M, s, {k}), k \notin K
  PROVE  Part(L \o M, s, K \cup {k})
<1>1. L \in Seq(Offered) /\ M \in Seq(Offered)
  BY DEF Part
<1>2. L \o M \in Seq(Offered) /\ ToSet(L \o M) = ToSet(L) \cup ToSet(M)
  BY <1>1, ConcatFacts
<1>3. ToSet(L \o M) \subseteq {x \in ToSet(s) : x.paramObj \in K \cup {k}}
  BY <1>2 DEF Part
<1>4. \A x \in ToSet(s) : x.paramObj \in K \cup {k} => \E y \in ToSet(L \o M) : Eq(x, y)
  BY <1>2 DEF Part
<1>5. ASSUME WeaklyOrdered(ToSet(s)), WildcardsAlone(ToSet(s))
      PROVE  NoInversion(L \o M, GeneralFirst)
  <2>1. NoInversion(L, GeneralFirst) /\ NoInversion(M, GeneralFirst)
    BY <1>5 DEF Part
  <2>2. \A x \in ToSet(M), y \in ToSet(L) : <<x, y>> \notin GeneralFirst
    <3>1. \A x \in ToSet(M), y \in ToSet(L) : x.paramObj # y.paramObj
      BY DEF Part
    <3>2. QED
      BY <3>1 DEF GeneralFirst
  <2>3. QED
    BY <1>1, <2>1, <2>2, ConcatFacts
<1>6. NoInversion(L \o M, ListsInTurn)
  <2>1. NoInversion(L, ListsInTurn) /\ NoInversion(M, ListsInTurn)
    BY DEF Part
  <2>2. \A x \in ToSet(M), y \in ToSet(L) : <<x, y>> \notin ListsInTurn
    <3>1. \A x \in ToSet(M), y \in ToSet(L) : x.paramObj # y.paramObj
      BY DEF Part
    <3>2. QED
      BY <3>1 DEF ListsInTurn
  <2>3. QED
    BY <1>1, <2>1, <2>2, ConcatFacts
<1>7. QED
  BY <1>2, <1>3, <1>4, <1>5, <1>6 DEF Part

LEMMA OrderedFacts ==
  ASSUME NEW s \in Seq(Offered)
  PROVE  Part(Ordered(s), s, Kinds)
<1>1. Part(OfKind(s, "Endpoint"), s, {"Endpoint"})
  BY KindPart
<1>2. Part(OfKind(s, "Endpoint") \o OfKind(s, "Router"), s, {"Endpoint"} \cup {"Router"})
  BY <1>1, KindPart, PartsJoin
<1> DEFINE L2 == OfKind(s, "Endpoint") \o OfKind(s, "Router")
           K2 == {"Endpoint"} \cup {"Router"}
<1>3. Part(L2 \o OfKind(s, "Switch"), s, K2 \cup {"Switch"})
  <2>1. "Switch" \notin K2
    OBVIOUS
  <2> HIDE DEF L2, K2
  <2>2. Part(L2, s, K2)
    BY <1>2 DEF L2, K2
  <2>3. QED
    BY <2>1, <2>2, KindPart, PartsJoin
<1> DEFINE L3 == L2 \o OfKind(s, "Switch")
           K3 == K2 \cup {"Switch"}
<1>4. Part(L3 \o OfKind(s, "Interface"), s, K3 \cup {"Interface"})
  <2>1. "Interface" \notin K3
    OBVIOUS
  <2> HIDE DEF L3, K3
  <2>2. Part(L3, s, K3)
    BY <1>3 DEF L3, K3
  <2>3. QED
    BY <2>1, <2>2, KindPart, PartsJoin
<1> DEFINE L4 == L3 \o OfKind(s, "Interface")
           K4 == K3 \cup {"Interface"}
<1>5. Part(L4 \o OfKind(s, "Network"), s, K4 \cup {"Network"})
  <2>1. "Network" \notin K4
    OBVIOUS
  <2> HIDE DEF L4, K4
  <2>2. Part(L4, s, K4)
    BY <1>4 DEF L4, K4
  <2>3. QED
    BY <2>1, <2>2, KindPart, PartsJoin
<1> DEFINE L5 == L4 \o OfKind(s, "Network")
           K5 == K4 \cup {"Network"}
<1>6. Part(L5 \o OfKind(s, "Flow"), s, K5 \cup {"Flow"})
  <2>1. "Flow" \notin K5
    OBVIOUS
  <2> HIDE DEF L5, K5
  <2>2. Part(L5, s, K5)
    BY <1>5 DEF L5, K5
  <2>3. QED
    BY <2>1, <2>2, KindPart, PartsJoin
<1>7. Ordered(s) = L5 \o OfKind(s, "Flow")
  BY DEF Ordered
<1>8. K5 \cup {"Flow"} = Kinds
  BY DEF Kinds
<1> HIDE DEF L5, K5
<1>9. QED
  BY <1>6, <1>7, <1>8

----------------------------------------------------------------------------
(* What one assignment does.                                               *)

Setting(o) == [ParamsOf(o) -> Nat \cup {Unset, Noticeable}]

\* The parameters of all objects, of type, and with those that transit divides
\* by and waits for.
Settings == {v \in [Objects -> UNION {Setting(o) : o \in Objects}] : \A o \in Objects : v[o] \in Setting(o)}

Complete ==
  {v \in Settings : \A o \in Objects : ParamObj[o] \in DOMAIN Needed =>
                      \A p \in Needed[ParamObj[o]] : v[o][p] \in Nat}

\* What p of o becomes when it is given v.
Taken(o, p, v) ==
  LET vs == StringToValueStruct(v)
      reads == Reads[ParamObj[o]][p]
  IN  IF reads = "one" THEN (IF vs.int = 1 THEN 1 ELSE 0) ELSE vs[reads]

LEMMA SettingOf ==
  ASSUME NEW v, DOMAIN v = Objects, v = [o \in Objects |-> v[o]], \A o \in Objects : v[o] \in Setting(o)
  PROVE  v \in Settings
  BY DEF Settings

LEMMA ReadsKinds ==
  ASSUME NEW o \in Objects, NEW p \in ParamsOf(o)
  PROVE  Reads[ParamObj[o]][p] \in {"text", "float", "bool", "one", "int"}
<1>1. \A k \in Kinds : \A q \in DOMAIN Reads[k] : Reads[k][q] \in {"text", "float", "bool", "one", "int"}
  BY DEF Reads, Kinds
<1>2. ParamObj[o] \in Kinds /\ p \in DOMAIN Reads[ParamObj[o]]
  BY ParamsAssumption DEF ParamsOf
<1>3. QED
  BY <1>1, <1>2

LEMMA TakenIsNat ==
  ASSUME NEW o \in Objects, NEW p \in ParamsOf(o), NEW v \in FileValue
  PROVE  Taken(o, p, v) \in Nat
<1> DEFINE vs == StringToValueStruct(v)
<1>1. vs.int \in Nat /\ vs.float \in Nat /\ vs.bool \in Nat /\ vs.text \in Nat
  BY DEF StringToValueStruct, FileValue
<1>2. vs["int"] \in Nat /\ vs["float"] \in Nat /\ vs["bool"] \in Nat /\ vs["text"] \in Nat
  BY <1>1
<1> HIDE DEF vs
<1>3. QED
  BY <1>2, ReadsKinds DEF Taken, vs

LEMMA SetParamFacts ==
  ASSUME NEW now \in Settings, NEW o \in Objects, NEW p, NEW v \in FileValue
  PROVE  /\ SetParam(now, o, p, v)[o] \in Setting(o)
         /\ \A q \in ParamsOf(o) : SetParam(now, o, p, v)[o][q] = IF q = p THEN Taken(o, p, v) ELSE now[o][q]
         /\ p \in ParamsOf(o) /\ now[o][p] = Taken(o, p, v) => SetParam(now, o, p, v) = now
<1>1. now[o] \in Setting(o) /\ now \in [Objects -> UNION {Setting(x) : x \in Objects}]
  BY DEF Settings
<1>2. CASE p \notin ParamsOf(o)
  <2>1. SetParam(now, o, p, v) = now
    BY <1>2 DEF SetParam
  <2>2. QED
    BY <1>1, <1>2, <2>1
<1>3. CASE p \in ParamsOf(o)
  <2>1. SetParam(now, o, p, v) = [now EXCEPT ![o] = [now[o] EXCEPT ![p] = Taken(o, p, v)]]
    BY <1>3 DEF SetParam, Taken
  <2>2. Taken(o, p, v) \in Nat
    BY <1>3, TakenIsNat
  <2>3. SetParam(now, o, p, v)[o] = [now[o] EXCEPT ![p] = Taken(o, p, v)]
    BY <1>1, <2>1
  <2>4. now[o] \in [ParamsOf(o) -> Nat \cup {Unset, Noticeable}]
    BY <1>1 DEF Setting
  <2>5. ASSUME now[o][p] = Taken(o, p, v)
        PROVE  SetParam(now, o, p, v) = now
    <3>1. [now[o] EXCEPT ![p] = Taken(o, p, v)] = now[o]
      BY <2>4, <2>5
    <3>2. QED
      BY <1>1, <2>1, <3>1
  <2>6. QED
    BY <1>3, <2>2, <2>3, <2>4, <2>5 DEF Setting
<1>4. QED
  BY <1>2, <1>3

\* What is needed is a parameter of the object, and has a default.
LEMMA NeededAreKnown ==
  ASSUME NEW o \in Objects, ParamObj[o] \in DOMAIN Needed, NEW p \in Needed[ParamObj[o]]
  PROVE  p \in ParamsOf(o) /\ HasDefault(o, p)
<1>1. ParamObj[o] = "Interface" \/ ParamObj[o] = "Network"
  BY DEF Needed
<1>2. CASE ParamObj[o] = "Interface"
  <2>1. p \in {"latency", "delay", "bandwidth", "buffer", "MTU"}
    BY <1>2 DEF Needed
  <2>2. p \in DOMAIN Reads["Interface"] /\ "Interface" \in DOMAIN ExpParams
        /\ p \in ExpParams["Interface"]
    BY <2>1 DEF Reads, Kinds, ExpParams
  <2>3. p \in DOMAIN Defaults
    BY <2>1 DEF Defaults
  <2>4. QED
    BY <1>2, <2>2, <2>3 DEF ParamsOf, HasDefault
<1>3. CASE ParamObj[o] = "Network"
  <2>1. p \in {"latency", "bandwidth", "capacity"}
    BY <1>3 DEF Needed
  <2>2. p \in DOMAIN Reads["Network"] /\ "Network" \in DOMAIN ExpParams
        /\ p \in ExpParams["Network"]
    BY <2>1 DEF Reads, Kinds, ExpParams
  <2>3. p \in DOMAIN Defaults
    BY <2>1 DEF Defaults
  <2>4. QED
    BY <1>3, <2>2, <2>3 DEF ParamsOf, HasDefault
<1>4. QED
  BY <1>1, <1>2, <1>3

LEMMA AppliedFacts ==
  ASSUME NEW now \in Settings, NEW a \in Offered
  PROVE  /\ Applied(now, a) \in Settings
         /\ now \in Complete => Applied(now, a) \in Complete
         /\ \A o \in Objects : \A p \in ParamsOf(o) :
              Applied(now, a)[o][p] = IF Matches(now, o, a) /\ a.param = p
                                      THEN Taken(o, p, a.value) ELSE now[o][p]
<1> DEFINE v == Applied(now, a)
<1>1. a.value \in FileValue
  BY AssignmentFacts
<1>2. /\ DOMAIN v = Objects /\ v = [o \in Objects |-> v[o]]
      /\ \A o \in Objects : v[o] = IF Matches(now, o, a) THEN SetParam(now, o, a.param, a.value)[o] ELSE now[o]
  BY DEF Applied
<1> HIDE DEF v
<1>3. \A o \in Objects : now[o] \in Setting(o)
  BY DEF Settings
<1>4. \A o \in Objects : v[o] \in Setting(o)
  BY <1>1, <1>2, <1>3, SetParamFacts
<1>5. v \in Settings
  BY <1>2, <1>4, SettingOf
<1>6. ASSUME NEW o \in Objects, NEW p \in ParamsOf(o)
      PROVE  v[o][p] = IF Matches(now, o, a) /\ a.param = p THEN Taken(o, p, a.value) ELSE now[o][p]
  BY <1>1, <1>2, SetParamFacts
<1>7. ASSUME now \in Complete
      PROVE  v \in Complete
  <2>1. ASSUME NEW o \in Objects, ParamObj[o] \in DOMAIN Needed, NEW p \in Needed[ParamObj[o]]
        PROVE  v[o][p] \in Nat
    <3>1. p \in ParamsOf(o)
      BY <2>1, NeededAreKnown
    <3>2. Taken(o, p, a.value) \in Nat
      BY <1>1, <3>1, TakenIsNat
    <3>3. now[o][p] \in Nat
      BY <1>7, <2>1 DEF Complete
    <3>4. QED
      BY <1>6, <3>1, <3>2, <3>3
  <2>2. QED
    BY <1>5, <2>1 DEF Complete
<1>8. QED
  BY <1>5, <1>6, <1>7 DEF v

LEMMA CreatedIsSettings == Created \in Settings
<1>1. DOMAIN Created = Objects /\ Created = [o \in Objects |-> Created[o]]
  BY DEF Created
<1>2. ASSUME NEW o \in Objects
      PROVE  Created[o] \in Setting(o)
  <2>1. Created[o] = [p \in ParamsOf(o) |->
                        IF p = "model" THEN Model[o]
                        ELSE IF ParamObj[o] = "Interface" /\ p \in DOMAIN IntrfcState
                             THEN IntrfcState[p] ELSE Unset]
    BY DEF Created
  <2>2. Model[o] \in Nat
    BY ParamsAssumption
  <2>3. \A p \in DOMAIN IntrfcState : IntrfcState[p] \in Nat \cup {Unset, Noticeable}
    BY DEF IntrfcState
  <2>4. QED
    BY <2>1, <2>2, <2>3 DEF Setting
<1>3. QED
  BY <1>1, <1>2, SettingOf

LEMMA DefaultedIsComplete == Defaulted \in Complete
<1>1. /\ DOMAIN Defaulted = Objects /\ Defaulted = [o \in Objects |-> Defaulted[o]]
      /\ \A o \in Objects :
           Defaulted[o] = [p \in ParamsOf(o) |->
                             IF HasDefault(o, p) THEN SetParam(Created, o, p, Defaults[p])[o][p]
                             ELSE Created[o][p]]
  BY DEF Defaulted
<1>2. \A p \in DOMAIN Defaults : Defaults[p] \in FileValue
  BY DEF Defaults, Spelt, FileValue
<1>3. ASSUME NEW o \in Objects, NEW p \in ParamsOf(o), HasDefault(o, p)
      PROVE  Defaulted[o][p] \in Nat
  <2>1. p \in DOMAIN Defaults
    BY <1>3 DEF HasDefault
  <2>2. Defaults[p] \in FileValue
    BY <1>2, <2>1
  <2>3. SetParam(Created, o, p, Defaults[p])[o][p] = Taken(o, p, Defaults[p])
    BY <2>2, CreatedIsSettings, SetParamFacts
  <2>4. QED
    BY <1>1, <1>3, <2>2, <2>3, TakenIsNat
<1>4. ASSUME NEW o \in Objects
      PROVE  Defaulted[o] \in Setting(o)
  <2>1. \A p \in ParamsOf(o) : Created[o][p] \in Nat \cup {Unset, Noticeable}
    BY CreatedIsSettings DEF Settings, Setting
  <2>2. \A p \in ParamsOf(o) : Defaulted[o][p] \in Nat \cup {Unset, Noticeable}
    BY <1>1, <1>3, <2>1
  <2>3. DOMAIN Defaulted[o] = ParamsOf(o) /\ Defaulted[o] = [p \in ParamsOf(o) |-> Defaulted[o][p]]
    BY <1>1
  <2>4. QED
    BY <2>2, <2>3 DEF Setting
<1>5. Defaulted \in Settings
  BY <1>1, <1>4, SettingOf
<1>6. ASSUME NEW o \in Objects, ParamObj[o] \in DOMAIN Needed, NEW p \in Needed[ParamObj[o]]
      PROVE  Defaulted[o][p] \in Nat
  BY <1>3, <1>6, NeededAreKnown
<1>7. QED
  BY <1>5, <1>6 DEF Complete

----------------------------------------------------------------------------
(* What all assignments together do.                                       *)

Applying(L, V) == [k \in 1..Len(L) |-> [v \in V |-> Applied(v, L[k])]]

LEMMA LoadedWalks ==
  ASSUME NEW s \in Seq(Offered)
  PROVE  LET L == Ordered(s)
         IN  \E F : /\ Walks(F, Len(L), Complete, Defaulted, Applying(L, Complete))
                    /\ F[Len(L)] = Loaded(s)
<1> DEFINE L == Ordered(s)
           n == Len(L)
           step == Applying(L, Complete)
           Defines(q) ==
             q = [T \in SUBSET DOMAIN L |->
                    IF T = {} THEN Defaulted ELSE Applied(q[T \ {Max(T)}], L[Max(T)])]
           chosen == CHOOSE q : Defines(q)
<1>1. n \in Nat /\ DOMAIN L = 1..n /\ \A k \in 1..n : L[k] \in Offered
  <2>1. L \in Seq(Offered)
    BY OrderedFacts DEF Part
  <2> HIDE DEF L
  <2>2. QED
    BY <2>1
<1>2. step \in [1..n -> [Complete -> Complete]]
  <2>1. \A k \in 1..n, v \in Complete : Applied(v, L[k]) \in Complete
    BY <1>1, AppliedFacts DEF Complete
  <2>2. QED
    BY <2>1 DEF Applying
<1>3. Defaulted \in Complete
  BY DefaultedIsComplete
<1>4. Loaded(s) = chosen[DOMAIN L]
  BY DEF Loaded, Ordered, OfKind, FoldLeft, MapThenFoldSet
<1>5. \A k \in 1..n, v \in Complete : step[k][v] = Applied(v, L[k])
  BY DEF Applying
<1>6. \A T \in SUBSET (1..n) : T # {} => Max(T) \in 1..n
  BY <1>1, Latest
<1> HIDE DEF n, step, L
<1>7. PICK h : TakesLatest(h, n, Complete, Defaulted, step)
  BY <1>1, <1>2, <1>3, LatestExists
<1>8. Defines(h)
  <2>1. \A T \in SUBSET (1..n) : h[T \ {Max(T)}] \in Complete
    BY <1>7 DEF TakesLatest
  <2>2. QED
    BY <1>1, <1>5, <1>6, <1>7, <2>1 DEF TakesLatest
<1>9. Defines(chosen)
  BY <1>8
<1> HIDE DEF chosen
<1>10. FoldsTo(chosen, n, Complete, Defaulted, step)
  BY <1>1, <1>5, <1>6, <1>9 DEF FoldsTo
<1> HIDE DEF Defines
<1>11. \E F : Walks(F, n, Complete, Defaulted, step) /\ F[n] = chosen[1..n]
  BY <1>1, <1>7, <1>10, FoldWalks
<1>12. QED
  BY <1>1, <1>4, <1>11 DEF n, step, L

LEMMA LoadedIsComplete ==
  ASSUME NEW s \in Seq(Offered)
  PROVE  Loaded(s) \in Complete
<1> DEFINE n == Len(Ordered(s))
<1>1. n \in Nat
  BY OrderedFacts DEF Part
<1>2. PICK F : F \in [0..n -> Complete] /\ F[n] = Loaded(s)
  BY LoadedWalks DEF Walks
<1> HIDE DEF n
<1>3. n \in 0..n
  BY <1>1
<1>4. QED
  BY <1>2, <1>3

\* The last one of the first k assignments in A decides.
Decides(v, L, k, A, o, p) ==
  \/ /\ \A i \in 1..k : L[i] \notin A
     /\ v[o][p] = Defaulted[o][p]
  \/ \E i \in 1..k : /\ L[i] \in A /\ v[o][p] = Taken(o, p, L[i].value)
                     /\ \A j \in (i + 1)..k : L[j] \notin A

LEMMA LastDecides ==
  ASSUME NEW s \in Seq(Offered), NEW o \in Objects, NEW p \in ParamsOf(o),
         NEW V, V \subseteq Settings, Defaulted \in V,
         \A v \in V, a \in ToSet(s) : Applied(v, a) \in V,
         NEW A, \A a \in ToSet(s), v \in V : a \in A <=> a.param = p /\ Matches(v, o, a)
  PROVE  Loaded(s) \in V /\ Decides(Loaded(s), Ordered(s), Len(Ordered(s)), A, o, p)
<1> DEFINE L == Ordered(s)
           n == Len(L)
<1>1. PICK F : Walks(F, n, Complete, Defaulted, Applying(L, Complete)) /\ F[n] = Loaded(s)
  BY LoadedWalks
<1>2. L \in Seq(Offered) /\ ToSet(L) \subseteq ToSet(s)
  BY OrderedFacts DEF Part
<1> HIDE DEF L
<1>3. n \in Nat /\ \A k \in 1..n : L[k] \in Offered /\ L[k] \in ToSet(s)
  BY <1>2, Members
<1>4. /\ F \in [0..n -> Complete] /\ F[0] = Defaulted
      /\ \A k \in 1..n : F[k] = Applied(F[k - 1], L[k])
  <2>1. /\ F \in [0..n -> Complete] /\ F[0] = Defaulted
        /\ \A k \in 1..n : F[k] = Applying(L, Complete)[k][F[k - 1]]
    BY <1>1 DEF Walks
  <2>2. \A k \in 1..n : k - 1 \in 0..n
    BY <1>3
  <2>3. \A k \in 1..n : F[k - 1] \in Complete
    BY <2>1, <2>2
  <2>4. QED
    BY <2>1, <2>3 DEF Applying
<1> HIDE DEF n
<1> DEFINE P == {k \in 0..n : F[k] \in V /\ Decides(F[k], L, k, A, o, p)}
<1>5. 0 \in P
  <2>1. 0 \in 0..n /\ 1..0 = {}
    BY <1>3
  <2>2. QED
    BY <1>4, <2>1 DEF Decides
<1>6. ASSUME NEW k \in 0..(n - 1), k \in P
      PROVE  k + 1 \in P
  <2> DEFINE v == F[k]
             w == F[k + 1]
             a == L[k + 1]
  <2>1. /\ k \in Nat /\ k + 1 \in 1..n /\ k + 1 \in 0..n /\ (k + 1) - 1 = k
        /\ v \in Complete /\ a \in Offered /\ a \in ToSet(s)
    BY <1>3, <1>4
  <2>2. v \in V /\ v \in Settings
    BY <1>6
  <2>3. w = Applied(v, a) /\ w \in V
    BY <1>4, <2>1, <2>2
  <2>4. Decides(v, L, k, A, o, p)
    BY <1>6
  <2>5. \A i \in 1..(k + 1) : i \in 1..k \/ i = k + 1
    BY <2>1
  <2> HIDE DEF v, w
  <2>6. w[o][p] = IF a \in A THEN Taken(o, p, a.value) ELSE v[o][p]
    BY <2>1, <2>2, <2>3, AppliedFacts
  <2>7. CASE a \in A
    <3>1. w[o][p] = Taken(o, p, L[k + 1].value) /\ L[k + 1] \in A
      BY <2>6, <2>7
    <3>2. k + 1 \in 1..(k + 1) /\ ((k + 1) + 1)..(k + 1) = {}
      BY <2>1
    <3>3. Decides(w, L, k + 1, A, o, p)
      BY <3>1, <3>2 DEF Decides
    <3>4. QED
      BY <2>1, <2>3, <3>3 DEF w
  <2>8. CASE a \notin A
    <3>1. w[o][p] = v[o][p] /\ L[k + 1] \notin A
      BY <2>6, <2>8
    <3>2. \A i \in 1..k : i \in 1..(k + 1)
      BY <2>1
    <3>3. \A i \in 1..k : \A j \in (i + 1)..(k + 1) : j \in (i + 1)..k \/ j = k + 1
      BY <2>1
    <3>4. Decides(w, L, k + 1, A, o, p)
      <4>1. CASE \A i \in 1..k : L[i] \notin A
        <5>1. \A i \in 1..(k + 1) : L[i] \notin A
          BY <2>5, <3>1, <4>1
        <5>2. v[o][p] = Defaulted[o][p]
          BY <2>4, <4>1 DEF Decides
        <5>3. QED
          BY <3>1, <5>1, <5>2 DEF Decides
      <4>2. CASE \E i \in 1..k : L[i] \in A
        <5>1. PICK i \in 1..k : /\ L[i] \in A /\ v[o][p] = Taken(o, p, L[i].value)
                                /\ \A j \in (i + 1)..k : L[j] \notin A
          BY <2>4, <4>2 DEF Decides
        <5>2. \A j \in (i + 1)..(k + 1) : L[j] \notin A
          BY <3>1, <3>3, <5>1
        <5>3. QED
          BY <3>1, <3>2, <5>1, <5>2 DEF Decides
      <4>3. QED
        BY <4>1, <4>2
    <3>5. QED
      BY <2>1, <2>3, <3>4 DEF w
  <2>9. QED
    BY <2>7, <2>8
<1> HIDE DEF P
<1>7. n \in P
  <2>1. 0..n \subseteq P
    BY <1>3, <1>5, <1>6, BoundedInduction
  <2>2. QED
    BY <1>3, <2>1
<1>8. QED
  BY <1>1, <1>7 DEF P, n, L

----------------------------------------------------------------------------
(* The most specific assignment wins.                                      *)

Alone(a) == "*" \in Names(a) => Len(a.attributes) = 1

LEMMA MatchesAlone ==
  ASSUME NEW a \in Offered, Alone(a), NEW v, NEW o
  PROVE  Matches(v, o, a) <=>
           /\ ParamObj[o] = a.paramObj
           /\ "*" \in Names(a) \/ \A x \in ToSet(a.attributes) : MatchParam(v, o, x)
<1> DEFINE t == a.attributes
           n == Len(a.attributes)
<1>1. n \in Nat /\ DOMAIN t = 1..n
  BY AssignmentFacts
<1>2. Matches(v, o, a) <=>
        /\ ParamObj[o] = a.paramObj
        /\ \A i \in 1..n : (\A j \in 1..i : t[j][1] # "*") => MatchParam(v, o, t[i])
  BY <1>1 DEF Matches
<1>3. "*" \in Names(a) <=> \E i \in 1..n : t[i][1] = "*"
  BY <1>1 DEF Names
<1>4. \A x : x \in ToSet(t) <=> \E i \in 1..n : x = t[i]
  BY <1>1 DEF ToSet
<1>5. CASE "*" \in Names(a)
  <2>1. n = 1
    BY <1>5 DEF Alone
  <2> HIDE DEF t, n
  <2>2. t[1][1] = "*" /\ \A i \in 1..n : 1 \in 1..i
    BY <1>3, <1>5, <2>1
  <2>3. QED
    BY <1>2, <1>5, <2>2
<1>6. CASE "*" \notin Names(a)
  <2> HIDE DEF t, n
  <2>1. \A i \in 1..n : \A j \in 1..i : j \in 1..n
    BY <1>1
  <2>2. \A i \in 1..n : \A j \in 1..i : t[j][1] # "*"
    BY <1>3, <1>6, <2>1
  <2>3. QED
    BY <1>2, <1>4, <1>6, <2>2 DEF t
<1>7. QED
  BY <1>5, <1>6

\* Assignments that are equal match the same objects and refine the same ones.
LEMMA EqualsAreOne ==
  ASSUME NEW a \in Offered, NEW b \in Offered, Eq(a, b), Alone(a), Alone(b)
  PROVE  /\ \A v, o : Matches(v, o, a) <=> Matches(v, o, b)
         /\ \A c : Refines(a, c) <=> Refines(b, c)
         /\ Sublist(a) = Sublist(b)
<1>1. /\ a.paramObj = b.paramObj /\ ToSet(a.attributes) = ToSet(b.attributes)
      /\ Len(a.attributes) = Len(b.attributes)
  BY DEF Eq, EqAttrbs
<1>2. Names(a) = Names(b)
  <2>1. \A x \in {a, b} : Names(x) = {y[1] : y \in ToSet(x.attributes)}
    BY DEF Names, ToSet
  <2>2. QED
    BY <1>1, <2>1
<1>3. Sublist(a) = Sublist(b)
  BY <1>2, SublistAlone DEF Alone
<1>4. ASSUME NEW v, NEW o
      PROVE  Matches(v, o, a) <=> Matches(v, o, b)
  BY <1>1, <1>2, MatchesAlone
<1>5. ASSUME NEW c
      PROVE  Refines(a, c) <=> Refines(b, c)
  <2>1. MoreGeneral(c, a) <=> MoreGeneral(c, b)
    BY <1>1, <1>2 DEF MoreGeneral
  <2>2. QED
    BY <1>3, <2>1 DEF Refines
<1>6. QED
  BY <1>3, <1>4, <1>5

LEMMA NothingRefinesItself ==
  ASSUME NEW a \in Offered
  PROVE  ~Refines(a, a)
<1>1. Len(a.attributes) \in Nat
  BY AssignmentFacts
<1>2. Sublist(a) \in {"wc", "sg", "nm"}
  BY SublistIs
<1>3. Tier[Sublist(a)] \in Nat
  BY <1>2 DEF Tier
<1>4. QED
  BY <1>1, <1>3 DEF Refines, MoreGeneral

\* Values at which every assignment of S matches o or not alike: if the model is
\* tested, it is the one that o has after the defaults.
Steady(S, o) ==
  {v \in Settings : TestsModel(S, ParamObj[o]) /\ "model" \in ParamsOf(o)
                      => v[o].model = Defaulted[o].model}

LEMMA MatchesAlways ==
  ASSUME NEW S, S \subseteq Offered, NEW o \in Objects, NEW a \in S,
         NEW v \in Steady(S, o), NEW w \in Steady(S, o)
  PROVE  Matches(v, o, a) <=> Matches(w, o, a)
<1>1. CASE a.paramObj = ParamObj[o]
  <2>1. ASSUME NEW i \in DOMAIN a.attributes
        PROVE  MatchParam(v, o, a.attributes[i]) <=> MatchParam(w, o, a.attributes[i])
    <3>1. CASE a.attributes[i][1] # "model"
      BY <3>1 DEF MatchParam
    <3>2. CASE a.attributes[i][1] = "model" /\ "model" \in ParamsOf(o)
      <4>1. TestsModel(S, ParamObj[o])
        BY <1>1, <3>2 DEF TestsModel, Names
      <4>2. v[o].model = w[o].model
        BY <3>2, <4>1 DEF Steady
      <4>3. QED
        BY <3>2, <4>2 DEF MatchParam
    <3>3. CASE a.attributes[i][1] = "model" /\ "model" \notin ParamsOf(o)
      <4>1. \A k \in Kinds : "model" \in Testable[k] => "model" \in DOMAIN Reads[k]
        BY DEF Kinds, Testable, Reads
      <4>2. "model" \notin Testable[ParamObj[o]]
        BY <3>3, <4>1, ParamsAssumption DEF ParamsOf
      <4>3. QED
        BY <3>3, <4>2 DEF MatchParam
    <3>4. QED
      BY <3>1, <3>2, <3>3
  <2>2. QED
    BY <2>1 DEF Matches
<1>2. CASE a.paramObj # ParamObj[o]
  BY <1>2 DEF Matches
<1>3. QED
  BY <1>1, <1>2

\* Without assignments to a model that is tested, no assignment changes what
\* another one matches.
LEMMA SteadyStays ==
  ASSUME NEW S, S \subseteq Offered, NEW o \in Objects, ~ModelMoves(S, ParamObj[o])
  PROVE  /\ Steady(S, o) \subseteq Settings /\ Defaulted \in Steady(S, o)
         /\ \A v \in Steady(S, o), a \in S : Applied(v, a) \in Steady(S, o)
<1>1. Defaulted \in Settings
  BY DefaultedIsComplete DEF Complete
<1>2. ASSUME NEW v \in Steady(S, o), NEW a \in S
      PROVE  Applied(v, a) \in Steady(S, o)
  <2>1. v \in Settings /\ a \in Offered
    BY DEF Steady
  <2>2. Applied(v, a) \in Settings
    BY <2>1, AppliedFacts
  <2>3. ASSUME TestsModel(S, ParamObj[o]), "model" \in ParamsOf(o)
        PROVE  Applied(v, a)[o].model = Defaulted[o].model
    <3>1. v[o].model = Defaulted[o].model
      BY <2>3 DEF Steady
    <3>2. ~(Matches(v, o, a) /\ a.param = "model")
      BY <2>3 DEF ModelMoves, Matches
    <3>3. Applied(v, a)[o]["model"] = v[o]["model"]
      BY <2>1, <2>3, <3>2, AppliedFacts
    <3>4. QED
      BY <3>1, <3>3
  <2>4. QED
    BY <2>2, <2>3 DEF Steady
<1>3. QED
  BY <1>1, <1>2 DEF Steady

CandidatesOf(S, v, o, p) == {a \in S : a.param = p /\ Matches(v, o, a)}

LEMMA FinalValue ==
  ASSUME NEW s \in Seq(Offered), WildcardsAlone(ToSet(s)),
         NEW o \in Objects, NEW p \in ParamsOf(o), ~ModelMoves(ToSet(s), ParamObj[o]),
         NEW now \in Steady(ToSet(s), o)
  PROVE  LET C == CandidatesOf(ToSet(s), now, o, p)
         IN  \/ C = {} /\ Loaded(s)[o][p] = Defaulted[o][p]
             \/ \E a \in C : /\ Loaded(s)[o][p] = Taken(o, p, a.value)
                             /\ \A b \in C : ~LaterList(b, a)
                             /\ WeaklyOrdered(ToSet(s)) => \A b \in C : ~Refines(b, a)
<1> DEFINE S == ToSet(s)
           C == CandidatesOf(S, now, o, p)
           L == Ordered(s)
           n == Len(L)
<1>1. S \subseteq Offered
  BY Members
<1>2. \A a \in S, v \in Steady(S, o) : a \in C <=> a.param = p /\ Matches(v, o, a)
  BY <1>1, MatchesAlways DEF CandidatesOf
<1>3. Decides(Loaded(s), L, n, C, o, p)
  <2> DEFINE V == Steady(S, o)
  <2>1. V \subseteq Settings /\ Defaulted \in V /\ \A v \in V, a \in S : Applied(v, a) \in V
    BY <1>1, SteadyStays
  <2> HIDE DEF V, C
  <2>2. QED
    BY <1>2, <2>1, LastDecides DEF V
<1>4. /\ L \in Seq(Offered) /\ ToSet(L) \subseteq S
      /\ \A x \in S : \E y \in ToSet(L) : Eq(x, y)
      /\ NoInversion(L, ListsInTurn)
      /\ WeaklyOrdered(S) => NoInversion(L, GeneralFirst)
  <2>1. Part(L, s, Kinds)
    BY OrderedFacts
  <2>2. \A x \in S : x.paramObj \in Kinds
    BY <1>1, AssignmentFacts
  <2> HIDE DEF L
  <2>3. QED
    BY <2>1, <2>2 DEF Part
<1> HIDE DEF L
<1>5. n \in Nat /\ DOMAIN L = 1..n /\ \A y : y \in ToSet(L) <=> \E i \in 1..n : y = L[i]
  <2>1. L \in Seq(Offered)
    BY <1>4
  <2>2. Len(L) \in Nat /\ DOMAIN L = 1..Len(L) /\ ToSet(L) = {L[i] : i \in 1..Len(L)}
    BY ONLY <2>1, Members
  <2>3. QED
    BY <2>2
<1>6. \A a \in S : Alone(a)
  BY DEF WildcardsAlone, Alone
\* Every candidate is in the list, as itself or as one that is equal to it.
<1>7. ASSUME NEW b \in C
      PROVE  \E j \in 1..n : /\ L[j] \in C
                             /\ \A c : Refines(b, c) <=> Refines(L[j], c)
                             /\ Sublist(b) = Sublist(L[j])
  <2>1. b \in S /\ b.param = p /\ Matches(now, o, b)
    BY DEF CandidatesOf
  <2>2. PICK y \in ToSet(L) : Eq(b, y)
    BY <1>4, <2>1
  <2>3. y \in S /\ y.param = p
    BY <1>4, <2>1, <2>2 DEF Eq
  <2>4. /\ Matches(now, o, y)
        /\ \A c : Refines(b, c) <=> Refines(y, c)
        /\ Sublist(b) = Sublist(y)
    BY <1>1, <1>6, <2>1, <2>2, <2>3, EqualsAreOne
  <2>5. y \in C
    BY <2>3, <2>4 DEF CandidatesOf
  <2>6. QED
    BY <1>5, <2>4, <2>5
<1> HIDE DEF n
<1>8. CASE \A i \in 1..n : L[i] \notin C
  <2>1. C = {}
    BY <1>7, <1>8
  <2>2. Loaded(s)[o][p] = Defaulted[o][p]
    BY <1>3, <1>8 DEF Decides
  <2>3. QED
    BY <2>1, <2>2
<1>9. CASE \E i \in 1..n : L[i] \in C
  <2>1. PICK i \in 1..n : /\ L[i] \in C /\ Loaded(s)[o][p] = Taken(o, p, L[i].value)
                          /\ \A j \in (i + 1)..n : L[j] \notin C
    BY <1>3, <1>9 DEF Decides
  \* Nothing after i is a candidate, so that nothing is inverted with i.
  <2>2. ASSUME NEW R, NoInversion(L, R), NEW j \in 1..n, L[j] \in C, L[j] # L[i],
               <<L[i], L[j]>> \in R
        PROVE  FALSE
    <3>1. ~(j < i)
      BY <1>5, <2>2 DEF NoInversion
    <3>2. j # i
      BY <2>2
    <3>3. j \in (i + 1)..n
      BY <1>5, <3>1, <3>2
    <3>4. QED
      BY <2>1, <2>2, <3>3
  <2>3. ASSUME NEW j \in 1..n, L[j] \in C
        PROVE  /\ L[i] \in Offered /\ L[j] \in Offered
               /\ L[i].paramObj = ParamObj[o] /\ L[j].paramObj = ParamObj[o]
    BY <1>1, <2>1, <2>3 DEF CandidatesOf, Matches
  <2>4. ASSUME WeaklyOrdered(S), NEW b \in C, Refines(b, L[i])
        PROVE  FALSE
    <3>1. PICK j \in 1..n : L[j] \in C /\ Refines(L[j], L[i])
      BY <1>7, <2>4
    <3>2. <<L[i], L[j]>> \in GeneralFirst
      BY <2>3, <3>1 DEF GeneralFirst
    <3>3. L[j] # L[i]
      BY <2>3, <3>1, NothingRefinesItself
    <3>4. QED
      BY <1>4, <2>2, <2>4, <3>1, <3>2, <3>3
  <2>5. ASSUME NEW b \in C, LaterList(b, L[i])
        PROVE  FALSE
    <3>1. PICK j \in 1..n : L[j] \in C /\ LaterList(L[j], L[i])
      <4>1. PICK j \in 1..n : L[j] \in C /\ Sublist(b) = Sublist(L[j])
        BY <1>7
      <4>2. QED
        BY <2>5, <4>1 DEF LaterList
    <3>2. <<L[i], L[j]>> \in ListsInTurn
      BY <2>3, <3>1 DEF ListsInTurn
    <3>3. L[j] # L[i]
      <4>1. Tier[Sublist(L[i])] \in Nat
        BY <2>3, <3>1, SublistIs DEF Tier
      <4>2. QED
        BY <3>1, <4>1 DEF LaterList
    <3>4. QED
      BY <1>4, <2>2, <3>1, <3>2, <3>3
  <2>6. QED
    BY <2>1, <2>4, <2>5
<1>10. QED
  BY <1>8, <1>9

----------------------------------------------------------------------------
(* The theorems.                                                           *)

\* The inductive invariant: what is loaded is what Loaded makes of the file.
IInv ==
  /\ params \in Seq(Offered) /\ Len(params) <= MaxParams
  /\ loaded \in BOOLEAN /\ value \in Settings
  /\ loaded => value = Loaded(params)

LEMMA Initially == Init => IInv
<1>1. MaxParams \in Nat
  BY ParamsAssumption
<1>2. << >> \in Seq(Offered) /\ Len(<< >>) = 0
  OBVIOUS
<1>3. ASSUME Init
      PROVE  IInv
  <2>1. params = << >> /\ loaded = FALSE /\ value = Created
    BY <1>3 DEF Init
  <2>2. params \in Seq(Offered) /\ Len(params) <= MaxParams
    BY <1>1, <1>2, <2>1
  <2>3. value \in Settings
    BY <2>1, CreatedIsSettings
  <2>4. loaded \in BOOLEAN /\ ~loaded
    BY <2>1
  <2>5. QED
    BY <2>2, <2>3, <2>4 DEF IInv
<1>4. QED
  BY <1>3

LEMMA StepKeeps == IInv /\ [Next]_vars => IInv'
<1> SUFFICES ASSUME IInv, [Next]_vars PROVE IInv'
  OBVIOUS
<1>1. MaxParams \in Nat
  BY ParamsAssumption
<1>2. ASSUME NEW a \in Offered, Add(a)
      PROVE  IInv'
  <2>1. params' \in Seq(Offered) /\ Len(params') = Len(params) + 1 /\ Len(params) \in Nat
    BY <1>2 DEF IInv, Add
  <2>2. Len(params') <= MaxParams
    BY <1>1, <1>2, <2>1 DEF Add
  <2>3. QED
    BY <1>2, <2>1, <2>2 DEF IInv, Add
<1>3. CASE SetTopoParameters
  <2>1. Loaded(params) \in Settings
    BY LoadedIsComplete DEF IInv, Complete
  <2>2. QED
    BY <1>3, <2>1 DEF IInv, SetTopoParameters
<1>4. CASE UNCHANGED vars
  BY <1>4 DEF IInv, vars
<1>5. QED
  BY <1>2, <1>3, <1>4 DEF Next, AddParameter, WriteByHand

\* The invariant, for any objects and any assignments.
LEMMA Invariance == Spec => []IInv
<1>1. QED
  BY Initially, StepKeeps, PTL DEF Spec

\* TypeOK: parameters keep their type, and once the file is loaded, those of
\* interfaces and networks that transit divides by and waits for have a value.
THEOREM TypeCorrect == Spec => []TypeOK
<1>1. IInv => TypeOK
  <2>1. ASSUME IInv
        PROVE  TypeOK
    <3>1. \A o \in Objects : value[o] \in [ParamsOf(o) -> Nat \cup {Unset, Noticeable}]
      BY <2>1 DEF IInv, Settings, Setting
    <3>2. ASSUME loaded, NEW o \in {m \in Objects : ParamObj[m] \in DOMAIN Needed},
                 NEW p \in Needed[ParamObj[o]]
          PROVE  value[o][p] \in Nat
      <4>1. value \in Complete
        BY <2>1, <3>2, LoadedIsComplete DEF IInv
      <4>2. QED
        BY <4>1 DEF Complete
    <3>3. QED
      BY <2>1, <3>1, <3>2 DEF IInv, TypeOK
  <2>2. QED
    BY <2>1
<1>2. QED
  BY <1>1, Invariance, PTL

\* What is loaded is steady.
LEMMA LoadedIsSteady ==
  ASSUME NEW s \in Seq(Offered), NEW o \in Objects, ~ModelMoves(ToSet(s), ParamObj[o])
  PROVE  Loaded(s) \in Steady(ToSet(s), o)
<1> DEFINE S == ToSet(s)
           V == Steady(S, o)
<1>1. S \subseteq Offered
  BY Members
<1>2. V \subseteq Settings /\ Defaulted \in V /\ \A v \in V, a \in S : Applied(v, a) \in V
  BY <1>1, SteadyStays
<1>3. \E p : p \in ParamsOf(o)
  <2>1. \A k \in Kinds : \E p : p \in DOMAIN Reads[k]
    BY DEF Kinds, Reads
  <2>2. QED
    BY <2>1, ParamsAssumption DEF ParamsOf
<1>4. PICK p : p \in ParamsOf(o)
  BY <1>3
<1> DEFINE C == CandidatesOf(S, Defaulted, o, p)
<1>5. \A a \in S, v \in V : a \in C <=> a.param = p /\ Matches(v, o, a)
  BY <1>1, <1>2, MatchesAlways DEF CandidatesOf
<1> HIDE DEF V, C
<1>6. Loaded(s) \in V
  BY <1>2, <1>4, <1>5, LastDecides
<1>7. QED
  BY <1>6 DEF V

\* MoreNamesDecide, for any objects and any file of up to twelve assignments
\* whose wildcards stand alone: where no tested model is assigned to, the last
\* sublist with a match decides, and in a file that CompareAttrbs orders, a match
\* that no other one refines.
THEOREM NamesDecide == Spec => []MoreNamesDecide
<1>1. ASSUME IInv
      PROVE  MoreNamesDecide
  <2> DEFINE S == ToSet(params)
  <2>1. ASSUME loaded, WildcardsAlone(S), NEW o \in Objects, NEW p \in ParamsOf(o),
               Candidates(S, o, p) # {}, ~ModelMoves(S, ParamObj[o])
        PROVE  \E a \in Candidates(S, o, p) :
                 /\ SetParam(value, o, p, a.value) = value
                 /\ \A b \in Candidates(S, o, p) : Tier[Sublist(b)] <= Tier[Sublist(a)]
                 /\ WeaklyOrdered(S) => \A b \in Candidates(S, o, p) : ~Refines(b, a)
    <3>1. value = Loaded(params) /\ value \in Settings /\ params \in Seq(Offered)
      BY <1>1, <2>1 DEF IInv
    <3>2. Candidates(S, o, p) = CandidatesOf(S, value, o, p)
      BY DEF Candidates, CandidatesOf
    <3>3. value \in Steady(S, o)
      BY <2>1, <3>1, LoadedIsSteady
    <3>4. PICK a \in Candidates(S, o, p) :
            /\ value[o][p] = Taken(o, p, a.value)
            /\ \A b \in Candidates(S, o, p) : ~LaterList(b, a)
            /\ WeaklyOrdered(S) => \A b \in Candidates(S, o, p) : ~Refines(b, a)
      BY <2>1, <3>1, <3>2, <3>3, FinalValue
    <3>5. \A b \in Candidates(S, o, p) : b \in Offered /\ Tier[Sublist(b)] \in Nat
      <4>1. \A b \in Candidates(S, o, p) : b \in Offered
        BY <3>1, Members DEF Candidates
      <4>2. \A b \in Offered : Tier[Sublist(b)] \in Nat
        BY SublistIs DEF Tier
      <4>3. QED
        BY <4>1, <4>2
    <3>6. a.value \in FileValue
      BY <3>5, AssignmentFacts
    <3>7. SetParam(value, o, p, a.value) = value
      BY <3>1, <3>4, <3>6, SetParamFacts
    <3>8. \A b \in Candidates(S, o, p) : Tier[Sublist(b)] <= Tier[Sublist(a)]
      BY <3>4, <3>5 DEF LaterList
    <3>9. QED
      BY <3>4, <3>7, <3>8
  <2>2. QED
    BY <2>1 DEF MoreNamesDecide
<1>2. QED
  BY <1>1, Invariance, PTL

LEMMA ExchangeMembers ==
  ASSUME NEW S, NEW s \in Seq(S), NEW i \in 1..(Len(s) - 1)
  PROVE  LET t == [s EXCEPT ![i] = s[i + 1], ![i + 1] = s[i]]
         IN  t \in Seq(S) /\ ToSet(t) = ToSet(s)
<1> DEFINE t == [s EXCEPT ![i] = s[i + 1], ![i + 1] = s[i]]
           n == Len(s)
<1>1. n \in Nat /\ DOMAIN s = 1..n /\ i \in 1..n /\ i + 1 \in 1..n /\ i # i + 1
      /\ \A k \in 1..n : s[k] \in S
  OBVIOUS
<1>2. /\ t \in Seq(S) /\ DOMAIN t = 1..n
      /\ \A k \in 1..n : t[k] = IF k = i THEN s[i + 1] ELSE IF k = i + 1 THEN s[i] ELSE s[k]
  BY <1>1
<1> HIDE DEF t, n
<1>3. \A k \in 1..n : t[k] \in ToSet(s)
  BY <1>1, <1>2 DEF ToSet
<1>4. \A k \in 1..n : s[k] \in ToSet(t)
  <2>1. t[i] = s[i + 1] /\ t[i + 1] = s[i]
    BY <1>1, <1>2
  <2>2. \A k \in 1..n : k # i /\ k # i + 1 => t[k] = s[k]
    BY <1>2
  <2>3. QED
    BY <1>1, <1>2, <2>1, <2>2 DEF ToSet
<1>5. ToSet(t) = ToSet(s)
  BY <1>1, <1>2, <1>3, <1>4 DEF ToSet
<1>6. QED
  BY <1>2, <1>5 DEF t

\* SortableOrderFree: in a file of up to twelve assignments that CompareAttrbs
\* orders, with wildcards alone, without conflicts and without assignments to a
\* model that is tested, the order does not matter.
THEOREM SortableOrderIsFree == Spec => []SortableOrderFree
<1>1. ASSUME IInv
      PROVE  SortableOrderFree
  <2> DEFINE S == ToSet(params)
  <2>1. ASSUME loaded, WeaklyOrdered(S), WildcardsAlone(S), \A a, b \in S : ~Conflict(a, b),
               \A k \in Kinds : ~ModelMoves(S, k), NEW i \in 1..(Len(params) - 1)
        PROVE  Loaded(Exchanged(i)) = value
    <3> DEFINE t == Exchanged(i)
    <3>1. value = Loaded(params) /\ value \in Settings /\ params \in Seq(Offered)
      BY <1>1, <2>1 DEF IInv
    <3>2. t \in Seq(Offered) /\ ToSet(t) = S
      BY <3>1, ExchangeMembers DEF Exchanged
    <3> HIDE DEF t
    <3>3. Loaded(t) \in Settings
      BY <3>2, LoadedIsComplete DEF Complete
    <3>4. ASSUME NEW o \in Objects, NEW p \in ParamsOf(o)
          PROVE  Loaded(t)[o][p] = value[o][p]
      <4> DEFINE C == CandidatesOf(S, value, o, p)
      <4>1. ~ModelMoves(S, ParamObj[o]) /\ value \in Steady(S, o)
        <5>1. ~ModelMoves(S, ParamObj[o])
          BY <2>1, ParamsAssumption
        <5>2. QED
          BY <3>1, <5>1, LoadedIsSteady
      <4>2. \/ C = {} /\ value[o][p] = Defaulted[o][p]
            \/ \E a \in C : /\ \A b \in C : ~Refines(b, a)
                            /\ value[o][p] = Taken(o, p, a.value)
        BY <2>1, <3>1, <4>1, FinalValue
      <4>3. \/ C = {} /\ Loaded(t)[o][p] = Defaulted[o][p]
            \/ \E a \in C : /\ \A b \in C : ~Refines(b, a)
                            /\ Loaded(t)[o][p] = Taken(o, p, a.value)
        BY <2>1, <3>2, <4>1, FinalValue
      <4>4. ASSUME NEW a \in C, NEW b \in C, \A c \in C : ~Refines(c, a), \A c \in C : ~Refines(c, b)
            PROVE  a.value = b.value
        <5>1. /\ a \in S /\ b \in S /\ a.param = b.param
              /\ Matches(value, o, a) /\ Matches(value, o, b)
          BY DEF CandidatesOf
        <5>2. ~Refines(a, b) /\ ~Refines(b, a)
          BY <4>4
        <5>3. ~Conflict(a, b)
          BY <2>1, <5>1
        <5>4. QED
          BY <5>1, <5>2, <5>3 DEF Conflict
      <4> HIDE DEF C
      <4>5. QED
        BY <4>2, <4>3, <4>4
    <3>5. \A o \in Objects : Loaded(t)[o] = value[o]
      <4>1. ASSUME NEW o \in Objects
            PROVE  Loaded(t)[o] = value[o]
        <5>1. Loaded(t)[o] \in Setting(o) /\ value[o] \in Setting(o)
          BY <3>1, <3>3 DEF Settings
        <5>2. QED
          BY <3>4, <5>1 DEF Setting
      <4>2. QED
        BY <4>1
    <3>6. Loaded(t) = value
      BY <3>1, <3>3, <3>5 DEF Settings
    <3>7. QED
      BY <3>6 DEF t
  <2>2. QED
    BY <2>1 DEF SortableOrderFree
<1>2. QED
  BY <1>1, Invariance, PTL
============================================================================
