--------------------------- MODULE FlowRatesProofs ---------------------------
(***************************************************************************)
(* Proofs about FlowRates: what admission and squeezing keep of the rates  *)
(* of inelastic flows, at any depth of the recursion of EstablishFlowRate. *)
(***************************************************************************)
EXTENDS FlowRates, Iteration

Rates == [Flows -> Values \cup {Absent}]

----------------------------------------------------------------------------
(* Totals over sets of flows.                                              *)

Taken == [T \in SUBSET Flows |-> CHOOSE x \in T : TRUE]
Added(m) == [f \in Flows |-> [acc \in Values |-> Plus(At(m, f), acc)]]

LEMMA Numbers ==
  /\ Int \subseteq Values /\ NaN \in Values /\ 0 \in Values
  /\ NaN \notin Int /\ Absent \notin Values /\ Absent \notin Int /\ Absent # NaN
  /\ Absent \notin Flows /\ IsFiniteSet(Flows)
  BY FlowAssumption DEF FlowAssumption, Values

LEMMA AtValue ==
  ASSUME NEW m \in Rates, NEW f \in Flows
  PROVE  At(m, f) \in Values
  BY Numbers DEF At, Rates

LEMMA PlusValue ==
  /\ \A x, y \in Values : Plus(x, y) \in Values /\ Minus(x, y) \in Values
  /\ \A x, y \in Values : Plus(x, y) = Plus(y, x)
  /\ \A x \in Values : Plus(0, x) = x
  BY Numbers DEF Plus, Minus, Values

LEMMA PlusMoves ==
  ASSUME NEW x \in Values, NEW y \in Values, NEW z \in Values
  PROVE  Plus(x, Plus(y, z)) = Plus(y, Plus(x, z))
  BY Numbers DEF Plus, Values

\* Total is a fold, the same one for all sets of flows.
LEMMA TotalFold ==
  ASSUME NEW m \in Rates
  PROVE  \E h : /\ FoldsOver(h, Flows, Values, 0, Taken, Added(m))
                /\ \A S \in SUBSET Flows : Total(m, S) = h[S]
<1>1. Added(m) \in [Flows -> [Values -> Values]]
  BY AtValue, PlusValue DEF Added
<1>2. Picks(Taken, Flows)
  BY DEF Picks, Taken
<1>3. PICK h : FoldsOver(h, Flows, Values, 0, Taken, Added(m))
  BY <1>1, <1>2, Numbers, FoldExists
<1>4. /\ h \in [SUBSET Flows -> Values] /\ h[{}] = 0
      /\ \A T \in SUBSET Flows : T # {} => /\ Taken[T] \in T
                                           /\ h[T \ {Taken[T]}] \in Values
                                           /\ h[T] = Plus(At(m, Taken[T]), h[T \ {Taken[T]}])
  <2>1. h \in [SUBSET Flows -> Values] /\ h[{}] = 0
    BY <1>3 DEF FoldsOver
  <2>2. ASSUME NEW T \in SUBSET Flows, T # {}
        PROVE  /\ Taken[T] \in T /\ Taken[T] \in Flows
               /\ h[T \ {Taken[T]}] \in Values
    BY <1>2, <2>1, <2>2 DEF Picks
  <2>3. ASSUME NEW T \in SUBSET Flows, T # {}
        PROVE  h[T] = Plus(At(m, Taken[T]), h[T \ {Taken[T]}])
    <3>1. h[T] = Added(m)[Taken[T]][h[T \ {Taken[T]}]]
      BY <1>3, <2>3 DEF FoldsOver
    <3>2. QED
      BY <2>2, <2>3, <3>1 DEF Added
  <2>4. QED
    BY <2>1, <2>2, <2>3
<1>5. ASSUME NEW S \in SUBSET Flows
      PROVE  Total(m, S) = h[S]
  <2> DEFINE Defines(g) ==
        g = [T \in SUBSET S |->
               IF T = {} THEN 0
               ELSE Plus(At(m, CHOOSE x \in T : TRUE), g[T \ {CHOOSE x \in T : TRUE}])]
      chosen == CHOOSE g : Defines(g)
  <2>1. Total(m, S) = chosen[S]
    BY DEF Total, FoldSet, MapThenFoldSet
  <2> DEFINE g0 == [T \in SUBSET S |-> h[T]]
  <2>2. Defines(g0)
    <3>1. \A T \in SUBSET S : T # {} => T \in SUBSET Flows /\ T \ {Taken[T]} \in SUBSET S
                                        /\ Taken[T] = CHOOSE x \in T : TRUE
      BY DEF Taken
    <3>2. \A T \in SUBSET S : T # {} => h[T] = Plus(At(m, CHOOSE x \in T : TRUE), g0[T \ {CHOOSE x \in T : TRUE}])
      BY <1>4, <3>1
    <3>3. QED
      BY <1>4, <3>2
  <2>3. Defines(chosen)
    BY <2>2
  <2> DEFINE P == {T \in SUBSET S : chosen[T] = h[T]}
  <2>4. {} \in P
    BY <1>4, <2>3
  <2>5. \A T \in SUBSET S : T # {} /\ (\A x \in T : T \ {x} \in P) => T \in P
    <3> SUFFICES ASSUME NEW T \in SUBSET S, T # {}, \A x \in T : T \ {x} \in P
                 PROVE  T \in P
      OBVIOUS
    <3>1. Taken[T] \in T /\ Taken[T] = CHOOSE x \in T : TRUE
      BY <1>4 DEF Taken
    <3>2. chosen[T] = Plus(At(m, Taken[T]), chosen[T \ {Taken[T]}])
      BY <2>3, <3>1
    <3>3. QED
      BY <1>4, <3>1, <3>2
  <2> HIDE DEF P, Defines
  <2>6. SUBSET S \subseteq P
    BY <2>4, <2>5, SubsetInduction, FS_Subset, Numbers
  <2>7. QED
    BY <2>1, <2>6 DEF P
<1>6. QED
  BY <1>3, <1>5

\* A total begins with 0 and takes the flows in any order.
LEMMA TotalFacts ==
  ASSUME NEW m \in Rates
  PROVE  /\ Total(m, {}) = 0
         /\ \A S \in SUBSET Flows : Total(m, S) \in Values
         /\ \A S \in SUBSET Flows : \A f \in S :
              Total(m, S) = Plus(At(m, f), Total(m, S \ {f}))
<1>1. PICK h : /\ FoldsOver(h, Flows, Values, 0, Taken, Added(m))
               /\ \A S \in SUBSET Flows : Total(m, S) = h[S]
  BY TotalFold
<1>2. h \in [SUBSET Flows -> Values] /\ h[{}] = 0
  BY <1>1 DEF FoldsOver
<1>3. ASSUME NEW T \in SUBSET Flows, T # {}
      PROVE  /\ Taken[T] \in T
             /\ h[T] = Plus(At(m, Taken[T]), h[T \ {Taken[T]}])
  <2>1. Taken[T] \in T /\ Taken[T] \in Flows
    BY <1>3 DEF Taken
  <2>2. h[T] = Added(m)[Taken[T]][h[T \ {Taken[T]}]]
    BY <1>1, <1>3 DEF FoldsOver
  <2>3. h[T \ {Taken[T]}] \in Values
    BY <1>2
  <2>4. QED
    BY <2>1, <2>2, <2>3 DEF Added
<1> DEFINE P == {T \in SUBSET Flows : \A f \in T : h[T] = Plus(At(m, f), h[T \ {f}])}
<1>4. {} \in P
  OBVIOUS
<1>5. ASSUME NEW T \in SUBSET Flows, T # {}, \A x \in T : T \ {x} \in P
      PROVE  T \in P
  <2>1. PICK p : p = Taken[T]
    OBVIOUS
  <2>2. p \in T /\ p \in Flows /\ h[T] = Plus(At(m, p), h[T \ {p}])
    BY <1>3, <1>5, <2>1
  <2>3. ASSUME NEW f \in T, f # p
        PROVE  h[T] = Plus(At(m, f), h[T \ {f}])
    <3> DEFINE U == (T \ {p}) \ {f}
    <3>1. U = (T \ {f}) \ {p} /\ f \in T \ {p} /\ p \in T \ {f} /\ f \in Flows
      BY <2>2, <2>3
    <3>2. h[T \ {p}] = Plus(At(m, f), h[U])
      BY <1>5, <2>2, <3>1
    <3>3. h[T \ {f}] = Plus(At(m, p), h[U])
      BY <1>5, <2>3, <3>1
    <3>4. At(m, f) \in Values /\ At(m, p) \in Values /\ h[U] \in Values
      BY <1>2, <2>2, <3>1, AtValue
    <3> HIDE DEF U, P
    <3>5. Plus(At(m, p), Plus(At(m, f), h[U])) = Plus(At(m, f), Plus(At(m, p), h[U]))
      BY <3>4, PlusMoves
    <3>6. QED
      BY <2>2, <3>2, <3>3, <3>5
  <2>4. QED
    BY <2>2, <2>3
<1> HIDE DEF P
<1>6. SUBSET Flows \subseteq P
  BY <1>4, <1>5, SubsetInduction, Numbers
<1>7. \A S \in SUBSET Flows : \A f \in S : h[S] = Plus(At(m, f), h[S \ {f}])
  BY <1>6 DEF P
<1>8. \A S \in SUBSET Flows : S \in SUBSET Flows /\ (\A f \in S : S \ {f} \in SUBSET Flows)
  OBVIOUS
<1>9. QED
  BY <1>1, <1>2, <1>7, <1>8

\* Flows at the same rates have the same total.
LEMMA TotalSame ==
  ASSUME NEW m \in Rates, NEW w \in Rates, NEW S \in SUBSET Flows,
         \A f \in S : At(m, f) = At(w, f)
  PROVE  Total(m, S) = Total(w, S)
<1> DEFINE P == {T \in SUBSET S : Total(m, T) = Total(w, T)}
<1>1. {} \in P
  BY TotalFacts
<1>2. ASSUME NEW T \in SUBSET S, T # {}, \A x \in T : T \ {x} \in P
      PROVE  T \in P
  <2>1. PICK x \in T : TRUE
    BY <1>2
  <2>2. T \in SUBSET Flows /\ x \in S /\ Total(m, T \ {x}) = Total(w, T \ {x})
    BY <1>2, <2>1
  <2>3. Total(m, T) = Plus(At(m, x), Total(m, T \ {x})) /\ Total(w, T) = Plus(At(w, x), Total(w, T \ {x}))
    BY <2>1, <2>2, TotalFacts
  <2>4. QED
    BY <2>2, <2>3
<1> HIDE DEF P
<1>3. SUBSET S \subseteq P
  BY <1>1, <1>2, SubsetInduction, FS_Subset, Numbers
<1>4. QED
  BY <1>3 DEF P

\* Flows without a rate do not count.
LEMMA TotalOfPart ==
  ASSUME NEW m \in Rates, NEW R \in SUBSET Flows, NEW S \in SUBSET Flows,
         R \subseteq S, \A f \in S \ R : At(m, f) = 0
  PROVE  Total(m, S) = Total(m, R)
<1> DEFINE P == {T \in SUBSET (S \ R) : Total(m, R \cup T) = Total(m, R)}
<1>1. {} \in P
  <2>1. R \cup {} = R
    OBVIOUS
  <2>2. QED
    BY <2>1
<1>2. ASSUME NEW T \in SUBSET (S \ R), T # {}, \A x \in T : T \ {x} \in P
      PROVE  T \in P
  <2>1. PICK x \in T : TRUE
    BY <1>2
  <2>2. R \cup T \in SUBSET Flows /\ x \in R \cup T /\ (R \cup T) \ {x} = R \cup (T \ {x})
    BY <2>1
  <2>3. Total(m, R \cup T) = Plus(0, Total(m, R \cup (T \ {x})))
    BY <2>1, <2>2, TotalFacts
  <2>4. Total(m, R \cup (T \ {x})) = Total(m, R) /\ Total(m, R) \in Values
    BY <1>2, <2>1, TotalFacts
  <2>5. QED
    BY <2>3, <2>4, PlusValue
<1> HIDE DEF P
<1>3. IsFiniteSet(S \ R)
  BY FS_Subset, Numbers
<1>4. SUBSET (S \ R) \subseteq P
  BY <1>1, <1>2, <1>3, SubsetInduction
<1>5. S \ R \in P /\ R \cup (S \ R) = S
  BY <1>4
<1>6. QED
  BY <1>5 DEF P

\* Naturals have a total that is a natural.
LEMMA TotalNat ==
  ASSUME NEW m \in Rates, NEW S \in SUBSET Flows, \A f \in S : At(m, f) \in Nat
  PROVE  Total(m, S) \in Nat
<1> DEFINE P == {T \in SUBSET S : Total(m, T) \in Nat}
<1>1. {} \in P
  BY TotalFacts
<1>2. ASSUME NEW T \in SUBSET S, T # {}, \A x \in T : T \ {x} \in P
      PROVE  T \in P
  <2>1. PICK x \in T : TRUE
    BY <1>2
  <2>2. T \in SUBSET Flows /\ At(m, x) \in Nat /\ Total(m, T \ {x}) \in Nat
    BY <1>2, <2>1
  <2>3. Total(m, T) = Plus(At(m, x), Total(m, T \ {x}))
    BY <2>1, <2>2, TotalFacts
  <2>4. QED
    BY <2>2, <2>3, Numbers DEF Plus
<1> HIDE DEF P
<1>3. SUBSET S \subseteq P
  BY <1>1, <1>2, SubsetInduction, FS_Subset, Numbers
<1>4. QED
  BY <1>3 DEF P

\* Sum and Fixed, over sets of flows that do not change.
LEMMA SumsAre ==
  ASSUME NEW m \in Rates
  PROVE  /\ Sum(m) = Total(m, Flows)
         /\ Fixed(m) = Total(m, Flows \ elastic)
<1>1. Present(m) \in SUBSET Flows /\ \A f \in Flows \ Present(m) : At(m, f) = 0
  BY DEF Present, At
<1>2. Sum(m) = Total(m, Flows)
  <2>1. Flows \in SUBSET Flows /\ Present(m) \subseteq Flows
    BY <1>1
  <2>2. Total(m, Flows) = Total(m, Present(m))
    BY <1>1, <2>1, TotalOfPart
  <2>3. QED
    BY <2>2 DEF Sum
<1>3. Fixed(m) = Total(m, Flows \ elastic)
  <2>1. /\ Present(m) \ elastic \in SUBSET Flows /\ Flows \ elastic \in SUBSET Flows
        /\ Present(m) \ elastic \subseteq Flows \ elastic
        /\ \A f \in (Flows \ elastic) \ (Present(m) \ elastic) : At(m, f) = 0
    BY <1>1
  <2>2. Total(m, Flows \ elastic) = Total(m, Present(m) \ elastic)
    BY <2>1, TotalOfPart
  <2>3. QED
    BY <2>2 DEF Fixed
<1>4. QED
  BY <1>2, <1>3

\* What a total becomes when one flow changes its rate.
LEMMA TotalChange ==
  ASSUME NEW m \in Rates, NEW f \in Flows, NEW v \in Values \cup {Absent},
         NEW S \in SUBSET Flows
  PROVE  LET w == [m EXCEPT ![f] = v]
         IN  /\ w \in Rates /\ w[f] = v /\ \A g \in Flows \ {f} : w[g] = m[g] /\ At(w, g) = At(m, g)
             /\ f \notin S => Total(w, S) = Total(m, S)
             /\ /\ f \in S /\ At(w, f) \in Nat
                /\ \A g \in S : At(m, g) \in Nat
                => /\ Total(m, S) \in Nat /\ Total(w, S) \in Nat
                   /\ Total(w, S) = Total(m, S) + (At(w, f) - At(m, f))
<1> DEFINE w == [m EXCEPT ![f] = v]
<1>1. w \in Rates /\ w[f] = v /\ \A g \in Flows \ {f} : w[g] = m[g]
  BY DEF Rates
<1>2. \A g \in Flows \ {f} : At(w, g) = At(m, g)
  BY <1>1 DEF At
<1> HIDE DEF w
<1>3. ASSUME f \notin S
      PROVE  Total(w, S) = Total(m, S)
  <2>1. \A g \in S : At(w, g) = At(m, g)
    BY <1>2, <1>3
  <2>2. QED
    BY <1>1, <2>1, TotalSame
<1>4. ASSUME f \in S, At(w, f) \in Nat, \A g \in S : At(m, g) \in Nat
      PROVE  /\ Total(m, S) \in Nat /\ Total(w, S) \in Nat
             /\ Total(w, S) = Total(m, S) + (At(w, f) - At(m, f))
  <2>1. S \ {f} \in SUBSET Flows /\ \A g \in S \ {f} : At(m, g) \in Nat /\ At(w, g) = At(m, g)
    BY <1>2, <1>4
  <2>2. Total(m, S \ {f}) \in Nat
    BY <2>1, TotalNat
  <2>3. Total(w, S \ {f}) = Total(m, S \ {f})
    BY <1>1, <2>1, TotalSame
  <2>4. Total(w, S) = Plus(At(w, f), Total(w, S \ {f})) /\ Total(m, S) = Plus(At(m, f), Total(m, S \ {f}))
    BY <1>1, <1>4, TotalFacts
  <2>5. At(m, f) \in Nat
    BY <1>4
  <2>6. Total(w, S) = At(w, f) + Total(m, S \ {f})
    BY <1>4, <2>2, <2>3, <2>4, Numbers DEF Plus
  <2>7. Total(m, S) = At(m, f) + Total(m, S \ {f})
    BY <2>2, <2>4, <2>5, Numbers DEF Plus
  <2>8. QED
    BY <1>4, <2>2, <2>5, <2>6, <2>7
<1>5. QED
  BY <1>1, <1>2, <1>3, <1>4 DEF w

----------------------------------------------------------------------------
(* Routes and their stops.                                                 *)

LEMMA RouteFacts ==
  ASSUME NEW g \in Flows
  PROVE  LET r == FlowRoute[g]
             n == 2 * Len(r) - 1
         IN  /\ n \in Nat /\ n >= 1
             /\ DOMAIN Stops(r) = 1..n /\ \A k \in 1..n : Stops(r)[k] = k
             /\ FlowSides(g) = {SideAt(r, k) : k \in 1..n}
             /\ FlowSides(g) \subseteq Sides
             /\ \A k \in 1..n : /\ SideAt(r, k) \in Sides /\ FarSide(r, k) \in Sides
                                /\ SideAt(r, k)[1] \in Intrfcs
                                /\ StepAt(r, k).src \in Intrfcs /\ StepAt(r, k).dst \in Intrfcs
<1> DEFINE r == FlowRoute[g]
           n == 2 * Len(r) - 1
<1>1. r \in Seq([src : Intrfcs, dst : Intrfcs]) /\ r # << >>
  BY FlowAssumption DEF FlowAssumption
<1>2. Len(r) \in Nat /\ Len(r) >= 1
  BY <1>1
<1>3. n \in Nat /\ n >= 1
  BY <1>2
<1>4. DOMAIN Stops(r) = 1..n /\ \A k \in 1..n : Stops(r)[k] = k
  BY <1>3 DEF Stops
<1>5. ASSUME NEW i \in 1..Len(r)
      PROVE  /\ <<r[i].src, "egress">> \in Sides /\ <<r[i].dst, "ingress">> \in Sides
             /\ r[i].src \in Intrfcs /\ r[i].dst \in Intrfcs
  <2>1. r[i] \in [src : Intrfcs, dst : Intrfcs]
    <3> HIDE DEF r
    <3>1. r \in Seq([src : Intrfcs, dst : Intrfcs]) /\ i \in 1..Len(r)
      BY <1>1
    <3>2. \A X : \A q \in Seq(X) : \A j \in 1..Len(q) : q[j] \in X
      OBVIOUS
    <3>3. QED
      BY <3>1, <3>2
  <2>2. QED
    BY <2>1 DEF Sides
<1>6. ASSUME NEW k \in 1..n
      PROVE  (k + 1) \div 2 \in 1..Len(r)
  BY <1>2
<1> HIDE DEF n, r
<1>7. ASSUME NEW k \in 1..n
      PROVE  /\ SideAt(r, k) \in Sides /\ FarSide(r, k) \in Sides
             /\ SideAt(r, k)[1] \in Intrfcs
             /\ StepAt(r, k).src \in Intrfcs /\ StepAt(r, k).dst \in Intrfcs
  <2>1. PICK i \in 1..Len(r) : i = (k + 1) \div 2
    BY <1>6
  <2>2. StepAt(r, k) = r[i]
    BY <2>1 DEF StepAt
  <2>3. QED
    BY <1>5, <2>2 DEF SideAt, FarSide
<1>8. FlowSides(g) = {SideAt(r, k) : k \in 1..n}
  BY <1>4 DEF FlowSides, r
<1>9. FlowSides(g) \subseteq Sides
  BY <1>7, <1>8
<1>10. QED
  BY <1>3, <1>4, <1>7, <1>8, <1>9 DEF r, n

----------------------------------------------------------------------------
(* Types of what is computed at a stop.                                    *)

LEMMA BandwidthFacts ==
  \A i \in Intrfcs : /\ Bndwdth[i] \in Nat \ {0} /\ NetBndwdth[i] \in Nat \ {0}
                     /\ Bndwdth[i] \in Values /\ NetBndwdth[i] \in Values
<1>1. \A i \in Intrfcs : Bndwdth[i] \in Nat \ {0} /\ NetBndwdth[i] \in Nat \ {0}
  BY FlowAssumption DEF FlowAssumption, Intrfcs
<1>2. QED
  BY <1>1, Numbers

LEMMA MinOfValue ==
  \A x, y \in Values : MinOf(x, y) \in Values
  BY Numbers DEF MinOf, Values

LEMMA ShareValue ==
  ASSUME NEW request \in [Flows -> Nat \cup {Absent}], NEW f \in Flows,
         NEW S \in SUBSET Flows, NEW bw \in Values
  PROVE  Share(request, f, S, bw) \in Values
<1>1. request \in Rates
  BY Numbers DEF Rates
<1>2. \A x \in Flows : At(request, x) \in Nat
  BY DEF At
<1>3. Total(request, S) \in Nat /\ At(request, f) \in Nat
  BY <1>1, <1>2, TotalNat
<1>4. CASE Total(request, S) = 0 \/ bw = NaN
  BY <1>4, Numbers DEF Share
<1>5. CASE ~ (Total(request, S) = 0 \/ bw = NaN)
  <2>1. bw \in Int
    BY <1>5 DEF Values
  <2>2. PICK p : p = At(request, f) * bw
    OBVIOUS
  <2>3. PICK agg : agg = Total(request, S)
    OBVIOUS
  <2>4. p \in Int
    BY <1>3, <2>1, <2>2
  <2>5. agg \in Nat /\ agg > 0
    BY <1>3, <1>5, <2>3
  <2>6. p \div agg \in Int
    BY <2>4, <2>5
  <2>7. Share(request, f, S, bw) = p \div agg
    BY <1>5, <2>2, <2>3 DEF Share
  <2>8. QED
    BY <2>6, <2>7, Numbers
<1>6. QED
  BY <1>4, <1>5

LEMMA PortalFields ==
  ASSUME NEW s \in PortalType
  PROVE  /\ s.load \in [Sides -> Rates] /\ s.lambda \in [Sides -> Values]
         /\ s.request \in [Flows -> Nat \cup {Absent}] /\ s.request \in Rates
         /\ s.accepted \in Rates /\ s.calls \in Seq(Rates)
         /\ \A side \in Sides : s.load[side] \in Rates
<1>1. /\ s.load \in [Sides -> Rates] /\ s.lambda \in [Sides -> Values]
      /\ s.request \in [Flows -> Nat \cup {Absent}]
      /\ s.accepted \in Rates /\ s.calls \in Seq(Rates)
  BY DEF PortalType, Rates
<1>2. [Flows -> Nat \cup {Absent}] \subseteq Rates
  BY Numbers DEF Rates
<1>3. QED
  BY <1>1, <1>2

LEMMA SumsValue ==
  ASSUME NEW m \in Rates
  PROVE  Sum(m) \in Values /\ Fixed(m) \in Values
<1>1. Flows \in SUBSET Flows /\ Flows \ elastic \in SUBSET Flows
  OBVIOUS
<1>2. QED
  BY <1>1, SumsAre, TotalFacts

LEMMA AcrossRates ==
  ASSUME NEW load \in [Sides -> Rates], NEW g \in Flows,
         NEW k \in 1..(2 * Len(FlowRoute[g]) - 1)
  PROVE  AcrossNet(load, FlowRoute[g], k) \in Rates
<1>1. SideAt(FlowRoute[g], k) \in Sides /\ FarSide(FlowRoute[g], k) \in Sides
  BY RouteFacts
<1>2. load[SideAt(FlowRoute[g], k)] \in Rates /\ load[FarSide(FlowRoute[g], k)] \in Rates
  BY <1>1
<1>3. QED
  BY <1>2 DEF AcrossNet, Rates

LEMMA DiscoverAtValue ==
  ASSUME NEW s \in PortalType, NEW f \in Flows, NEW rq \in Values, NEW g \in Flows,
         NEW k \in 1..(2 * Len(FlowRoute[g]) - 1), NEW min \in Values \cup {Absent}
  PROVE  DiscoverAt(s, f, rq, FlowRoute[g], k, min) \in Values \cup {Absent}
<1> DEFINE r == FlowRoute[g]
           m == s.load[SideAt(r, k)]
           w == AcrossNet(s.load, r, k)
<1>1. /\ SideAt(r, k) \in Sides /\ SideAt(r, k)[1] \in Intrfcs
      /\ m \in Rates /\ w \in Rates
  BY RouteFacts, PortalFields, AcrossRates
<1>2. /\ Bndwdth[SideAt(r, k)[1]] \in Values /\ NetBndwdth[SideAt(r, k)[1]] \in Values
      /\ Sum(m) \in Values /\ Sum(w) \in Values
  BY <1>1, BandwidthFacts, SumsValue
<1>3. {f} \cup ElasticIn(m) \in SUBSET Flows
  BY DEF ElasticIn, Present
<1>4. s.request \in [Flows -> Nat \cup {Absent}]
  BY PortalFields
<1> HIDE DEF m, w
<1>5. \A bw \in Values : Share(s.request, f, {f} \cup ElasticIn(m), bw) \in Values
  BY <1>3, <1>4, ShareValue
<1>6. /\ Minus(Bndwdth[SideAt(r, k)[1]], Sum(m)) \in Values
      /\ Minus(NetBndwdth[SideAt(r, k)[1]], Sum(w)) \in Values
  BY <1>2, PlusValue
<1> HIDE DEF r
<1>7. ASSUME NEW x \in Values
      PROVE  /\ DiscoverAtIntrfc(s, f, rq, r, k, x) \in Values \cup {Absent}
             /\ DiscoverAtNet(s, f, rq, r, k, x) \in Values \cup {Absent}
  BY <1>5, <1>6, MinOfValue DEF DiscoverAtIntrfc, DiscoverAtNet, m, w
<1>8. DiscoverAt(s, f, rq, r, k, min) \in Values \cup {Absent}
  BY <1>7 DEF DiscoverAt
<1>9. QED
  BY <1>8 DEF r

----------------------------------------------------------------------------
(* DiscoverFlowRate.                                                       *)

Discovering(s, f, rq, g) ==
  [k \in 1..(2 * Len(FlowRoute[g]) - 1) |->
     [min \in Values \cup {Absent} |-> DiscoverAt(s, f, rq, FlowRoute[g], k, min)]]

\* DiscoverFlowRate, stop after stop.
LEMMA DiscoverWalks ==
  ASSUME NEW s \in PortalType, NEW f \in Flows, NEW rq \in Values, NEW g \in Flows
  PROVE  LET n == 2 * Len(FlowRoute[g]) - 1
         IN  \E F : /\ Walks(F, n, Values \cup {Absent}, rq, Discovering(s, f, rq, g))
                    /\ F[n] = DiscoverFlowRate(s, f, rq, FlowRoute[g])
<1> DEFINE r == FlowRoute[g]
           n == 2 * Len(FlowRoute[g]) - 1
           V == Values \cup {Absent}
           step == Discovering(s, f, rq, g)
<1>1. n \in Nat /\ n >= 1 /\ DOMAIN Stops(r) = 1..n /\ \A k \in 1..n : Stops(r)[k] = k
  BY RouteFacts
<1>2. step \in [1..n -> [V -> V]]
  BY DiscoverAtValue DEF Discovering
<1>3. PICK h : TakesLatest(h, n, V, rq, step)
  <2>1. rq \in V
    OBVIOUS
  <2> HIDE DEF step, V, n
  <2>2. QED
    BY <1>1, <1>2, <2>1, LatestExists
<1> DEFINE Defines(q) ==
      q = [T \in SUBSET DOMAIN Stops(r) |->
             IF T = {} THEN rq
             ELSE DiscoverAt(s, f, rq, r, Stops(r)[Max(T)], q[T \ {Max(T)}])]
    chosen == CHOOSE q : Defines(q)
<1>4. DiscoverFlowRate(s, f, rq, r) = chosen[DOMAIN Stops(r)]
  BY DEF DiscoverFlowRate, FoldLeft, MapThenFoldSet
<1>5. /\ h \in [SUBSET (1..n) -> V] /\ h[{}] = rq
      /\ \A T \in SUBSET (1..n) : T # {} =>
           h[T] = DiscoverAt(s, f, rq, r, Stops(r)[Max(T)], h[T \ {Max(T)}])
  <2>1. h \in [SUBSET (1..n) -> V] /\ h[{}] = rq
    BY <1>3 DEF TakesLatest
  <2>2. ASSUME NEW T \in SUBSET (1..n), T # {}
        PROVE  h[T] = DiscoverAt(s, f, rq, r, Stops(r)[Max(T)], h[T \ {Max(T)}])
    <3>1. Max(T) \in 1..n /\ Stops(r)[Max(T)] = Max(T)
      BY <1>1, <2>2, Latest
    <3>2. h[T \ {Max(T)}] \in V
      BY <2>1
    <3>3. h[T] = step[Max(T)][h[T \ {Max(T)}]]
      BY <1>3, <2>2 DEF TakesLatest
    <3>4. QED
      BY <3>1, <3>2, <3>3 DEF Discovering
  <2>3. QED
    BY <2>1, <2>2
<1>6. Defines(h)
  BY <1>1, <1>5
<1>7. Defines(chosen)
  BY <1>6
<1> DEFINE P == {T \in SUBSET (1..n) : chosen[T] = h[T]}
<1>8. {} \in P
  BY <1>1, <1>5, <1>7
<1>9. ASSUME NEW T \in SUBSET (1..n), T # {}, \A x \in T : T \ {x} \in P
      PROVE  T \in P
  <2>1. Max(T) \in T
    BY <1>1, <1>9, Latest
  <2>2. chosen[T] = DiscoverAt(s, f, rq, r, Stops(r)[Max(T)], chosen[T \ {Max(T)}])
    BY <1>1, <1>7, <1>9
  <2>3. QED
    BY <1>5, <1>9, <2>1, <2>2
<1> HIDE DEF P, Defines, step, chosen, V
<1>10. SUBSET (1..n) \subseteq P
  <2>1. IsFiniteSet(1..n)
    BY <1>1, FS_Interval
  <2> HIDE DEF n
  <2>2. PICK S : S = 1..n
    OBVIOUS
  <2>3. \A T \in SUBSET S : T # {} /\ (\A x \in T : T \ {x} \in P) => T \in P
    BY <1>9, <2>2
  <2>4. IsFiniteSet(S)
    BY <2>1, <2>2
  <2>5. SUBSET S \subseteq P
    BY <1>8, <2>3, <2>4, SubsetInduction
  <2>6. QED
    BY <2>2, <2>5
<1>11. chosen[1..n] = h[1..n]
  BY <1>10 DEF P
<1> DEFINE F == [k \in 0..n |-> h[1..k]]
<1>12. Walks(F, n, V, rq, step)
  BY <1>1, <1>3, LatestWalks
<1>13. F[n] = DiscoverFlowRate(s, f, rq, r)
  BY <1>1, <1>4, <1>11
<1> HIDE DEF F
<1>14. QED
  BY <1>12, <1>13 DEF step, V

----------------------------------------------------------------------------
(* SetFlowRate.                                                            *)

\* With naturals only, lambda is the sum of the rates on every side.
Balanced(s) ==
  \A side \in Sides : /\ \A x \in Flows : s.load[side][x] \in Nat \cup {Absent}
                      /\ s.lambda[side] = Sum(s.load[side])

Changed(t, s, side, f, rate) ==
  /\ t \in PortalType
  /\ t.request = s.request /\ t.accepted = s.accepted /\ t.calls = s.calls
  /\ t.load = [s.load EXCEPT ![side] = [s.load[side] EXCEPT ![f] = rate]]
  /\ t.lambda = [s.lambda EXCEPT ![side] =
                   Plus(s.lambda[side], Minus(rate, At(s.load[side], f)))]

LEMMA ChgFacts ==
  ASSUME NEW s \in PortalType, NEW side \in Sides, NEW f \in Flows, NEW rate \in Values
  PROVE  Changed(ChgFlowRate(s, side, f, rate), s, side, f, rate)
<1> DEFINE t == ChgFlowRate(s, side, f, rate)
           load == [s.load EXCEPT ![side] = [s.load[side] EXCEPT ![f] = rate]]
           lambda == [s.lambda EXCEPT ![side] =
                        Plus(s.lambda[side], Minus(rate, At(s.load[side], f)))]
<1>1. /\ t.request = s.request /\ t.accepted = s.accepted /\ t.calls = s.calls
      /\ t.load = load /\ t.lambda = lambda
  BY DEF ChgFlowRate, PortalType
<1>2. load \in [Sides -> Rates]
  <2>1. s.load \in [Sides -> Rates] /\ s.load[side] \in Rates
    BY PortalFields
  <2>2. [s.load[side] EXCEPT ![f] = rate] \in Rates
    BY <2>1 DEF Rates
  <2>3. QED
    BY <2>1, <2>2
<1>3. lambda \in [Sides -> Values]
  <2>1. s.lambda \in [Sides -> Values] /\ s.lambda[side] \in Values /\ At(s.load[side], f) \in Values
    BY PortalFields, AtValue
  <2>2. Plus(s.lambda[side], Minus(rate, At(s.load[side], f))) \in Values
    BY <2>1, PlusValue
  <2>3. QED
    BY <2>1, <2>2
<1>4. t = [s EXCEPT !.load = load, !.lambda = lambda]
  BY DEF ChgFlowRate
<1>5. t \in PortalType
  <2> HIDE DEF load, lambda, t
  <2>1. QED
    BY <1>2, <1>3, <1>4 DEF PortalType, Rates
<1>6. QED
  BY <1>1, <1>5 DEF Changed

LEMMA ChgBalanced ==
  ASSUME NEW s \in PortalType, NEW side \in Sides, NEW f \in Flows, NEW rate \in Nat,
         Balanced(s)
  PROVE  Balanced(ChgFlowRate(s, side, f, rate))
<1> DEFINE t == ChgFlowRate(s, side, f, rate)
           m == s.load[side]
           w == [m EXCEPT ![f] = rate]
<1>1. rate \in Values
  BY Numbers
<1>2. /\ t.load = [s.load EXCEPT ![side] = w]
      /\ t.lambda = [s.lambda EXCEPT ![side] = Plus(s.lambda[side], Minus(rate, At(m, f)))]
  BY <1>1, ChgFacts DEF Changed
<1>3. m \in Rates /\ s.load \in [Sides -> Rates] /\ s.lambda \in [Sides -> Values]
  BY PortalFields
<1>4. \A x \in Flows : m[x] \in Nat \cup {Absent} /\ At(m, x) \in Nat
  BY DEF Balanced, At
<1>5. w \in Rates /\ w[f] = rate /\ At(w, f) = rate /\ \A x \in Flows : w[x] \in Nat \cup {Absent}
  BY <1>1, <1>3, <1>4, Numbers DEF Rates, At
<1>6. Total(m, Flows) \in Nat /\ Total(w, Flows) = Total(m, Flows) + (rate - At(m, f))
  <2>1. rate \in Values \cup {Absent} /\ Flows \in SUBSET Flows
    BY <1>1
  <2> HIDE DEF m
  <2>2. QED
    BY <1>3, <1>4, <1>5, <2>1, TotalChange
<1>7. s.lambda[side] = Total(m, Flows) /\ Sum(w) = Total(w, Flows)
  BY <1>3, <1>5, SumsAre DEF Balanced
<1>8. Plus(s.lambda[side], Minus(rate, At(m, f))) = Sum(w)
  <2>1. At(m, f) \in Nat
    BY <1>4
  <2> HIDE DEF m, w
  <2>2. QED
    BY <1>6, <1>7, <2>1, Numbers DEF Plus, Minus
<1> HIDE DEF m, w, t
<1>9. ASSUME NEW a \in Sides
      PROVE  /\ \A x \in Flows : t.load[a][x] \in Nat \cup {Absent}
             /\ t.lambda[a] = Sum(t.load[a])
  <2>1. CASE a = side
    BY <1>2, <1>3, <1>5, <1>8, <2>1
  <2>2. CASE a # side
    BY <1>2, <1>3, <2>2 DEF Balanced
  <2>3. QED
    BY <2>1, <2>2
<1>10. Balanced(t)
  BY <1>9 DEF Balanced
<1>11. QED
  BY <1>10 DEF t

\* Squeezing names flows of S, other than the one that squeezes.
Squeezed(c, chg, f, S) ==
  /\ c \in Rates
  /\ \A x \in Flows : c[x] # Absent => chg[x] # Absent \/ x \in S \ {f}

LEMMA SqueezeFacts ==
  ASSUME NEW request \in [Flows -> Nat \cup {Absent}], NEW chg \in Rates, NEW f \in Flows,
         NEW S \in SUBSET Flows, NEW bw \in Values
  PROVE  Squeezed(Squeeze(request, chg, f, S, bw), chg, f, S)
<1>1. ASSUME NEW x \in Flows
      PROVE  Share(request, x, S, bw) \in Values
  BY ShareValue
<1>2. \A x \in Flows : chg[x] \in Values \cup {Absent}
  BY DEF Rates
<1>3. \A x \in Flows : chg[x] # Absent => MinOf(chg[x], Share(request, x, S, bw)) \in Values
  BY <1>1, <1>2, MinOfValue
<1>4. QED
  BY <1>1, <1>2, <1>3 DEF Squeeze, Squeezed, Rates

SetType == [state : PortalType, chg : Rates]

\* What SetAtStop makes of s and of the flows to revisit so far.
StopSet(v, s, chg, f, rate, side) ==
  /\ v \in SetType
  /\ \/ v.state = s /\ At(s.load[side], f) = rate
     \/ v.state = ChgFlowRate(s, side, f, rate)
  /\ \A x \in Flows : v.chg[x] # Absent => chg[x] # Absent \/ x \in elastic \ {f}

LEMMA StopFacts ==
  ASSUME NEW s \in PortalType, NEW chg \in Rates, NEW f \in Flows, NEW rate \in Values,
         NEW g \in Flows, NEW k \in 1..(2 * Len(FlowRoute[g]) - 1)
  PROVE  StopSet(SetAtStop(s, chg, f, rate, FlowRoute[g], k), s, chg, f, rate,
                 SideAt(FlowRoute[g], k))
<1> DEFINE r == FlowRoute[g]
           side == SideAt(r, k)
           t == ChgFlowRate(s, side, f, rate)
           bw == Minus(Bndwdth[side[1]], Fixed(s.load[side]))
           near == Squeeze(s.request, chg, f, ElasticIn(t.load[side]), bw)
           atIntrfc == IF IsCongested(s.load, side) \/ IsCongested(t.load, side)
                       THEN near ELSE chg
           far == Squeeze(s.request, atIntrfc, f, ElasticIn(AcrossNet(t.load, r, k)),
                          NetBndwdth[side[1]])
           atNet == IF IsEgress(k) /\ NetIsCongested(t.load, r, k) THEN far ELSE atIntrfc
           v == SetAtStop(s, chg, f, rate, r, k)
<1>1. side \in Sides /\ side[1] \in Intrfcs
  BY RouteFacts
<1>2. t \in PortalType
  BY <1>1, ChgFacts DEF Changed
<1>3. s.request \in [Flows -> Nat \cup {Absent}] /\ s.load[side] \in Rates
  BY <1>1, PortalFields
<1>4. bw \in Values /\ NetBndwdth[side[1]] \in Values
  BY <1>1, <1>3, BandwidthFacts, SumsValue, PlusValue
<1>5. v = IF Close(rate, At(s.load[side], f)) THEN [state |-> s, chg |-> chg]
                                              ELSE [state |-> t, chg |-> atNet]
  BY DEF SetAtStop
<1> HIDE DEF t, bw, v, side
<1>6. /\ near \in Rates
      /\ \A x \in Flows : near[x] # Absent => chg[x] # Absent \/ x \in elastic \ {f}
  <2>1. PICK S : S = ElasticIn(t.load[side])
    OBVIOUS
  <2>2. S \in SUBSET Flows /\ S \subseteq elastic
    BY <2>1 DEF ElasticIn, Present
  <2>3. Squeezed(Squeeze(s.request, chg, f, S, bw), chg, f, S)
    BY <1>3, <1>4, <2>2, SqueezeFacts
  <2>4. QED
    BY <2>1, <2>2, <2>3 DEF near, Squeezed
<1>7. /\ atIntrfc \in Rates
      /\ \A x \in Flows : atIntrfc[x] # Absent => chg[x] # Absent \/ x \in elastic \ {f}
  BY <1>6
<1> HIDE DEF near, atIntrfc
<1>8. /\ far \in Rates
      /\ \A x \in Flows : far[x] # Absent => chg[x] # Absent \/ x \in elastic \ {f}
  <2>1. PICK S : S = ElasticIn(AcrossNet(t.load, r, k))
    OBVIOUS
  <2>2. S \in SUBSET Flows /\ S \subseteq elastic
    BY <2>1 DEF ElasticIn, Present
  <2>3. Squeezed(Squeeze(s.request, atIntrfc, f, S, NetBndwdth[side[1]]), atIntrfc, f, S)
    BY <1>3, <1>4, <1>7, <2>2, SqueezeFacts
  <2>4. QED
    BY <1>7, <2>1, <2>2, <2>3 DEF far, Squeezed
<1>9. /\ atNet \in Rates
      /\ \A x \in Flows : atNet[x] # Absent => chg[x] # Absent \/ x \in elastic \ {f}
  BY <1>7, <1>8
<1> HIDE DEF far, atNet
<1>10. CASE Close(rate, At(s.load[side], f))
  <2>1. v = [state |-> s, chg |-> chg] /\ At(s.load[side], f) = rate
    BY <1>5, <1>10 DEF Close
  <2>2. QED
    BY <2>1 DEF SetType, StopSet, v, side
<1>11. CASE ~ Close(rate, At(s.load[side], f))
  <2>1. v = [state |-> t, chg |-> atNet]
    BY <1>5, <1>11
  <2>2. v \in SetType /\ v.state = t /\ v.chg = atNet
    BY <1>2, <1>9, <2>1 DEF SetType
  <2>3. QED
    BY <1>9, <2>2 DEF StopSet, t, v, side
<1>12. QED
  BY <1>10, <1>11

\* What SetFlowRate has made of s after j stops: f has its rate at each of them,
\* and nothing has changed for the other flows.
SetSoFar(v, j, s, f, rate, g) ==
  /\ v \in SetType
  /\ v.state.request = s.request /\ v.state.calls = s.calls
  /\ v.state.accepted = [s.accepted EXCEPT ![f] = rate]
  /\ \A side \in Sides : /\ \A x \in Flows \ {f} : v.state.load[side][x] = s.load[side][x]
                         /\ v.state.load[side][f] \in {rate, s.load[side][f]}
                         /\ side \notin FlowSides(g) => v.state.load[side][f] = s.load[side][f]
  /\ \A k \in 1..j : rate \in Int => At(v.state.load[SideAt(FlowRoute[g], k)], f) = rate
  /\ \A x \in Flows : v.chg[x] # Absent => x \in elastic \ {f}
  /\ rate \in Nat /\ Balanced(s) => Balanced(v.state)

LEMMA SetStep ==
  ASSUME NEW s \in PortalType, NEW f \in Flows, NEW rate \in Values, NEW g \in Flows,
         NEW j \in Nat, j + 1 \in 1..(2 * Len(FlowRoute[g]) - 1),
         NEW v, SetSoFar(v, j, s, f, rate, g)
  PROVE  SetSoFar(SetAtStop(v.state, v.chg, f, rate, FlowRoute[g], j + 1), j + 1, s, f, rate, g)
<1> DEFINE side == SideAt(FlowRoute[g], j + 1)
           w == SetAtStop(v.state, v.chg, f, rate, FlowRoute[g], j + 1)
           t == ChgFlowRate(v.state, side, f, rate)
<1>1. v.state \in PortalType /\ v.chg \in Rates
  BY DEF SetSoFar, SetType
<1>2. StopSet(w, v.state, v.chg, f, rate, side)
  BY <1>1, StopFacts
<1>3. side \in Sides /\ side \in FlowSides(g) /\ \A k \in 1..j : SideAt(FlowRoute[g], k) \in Sides
  <2>1. \A k \in 1..j : k \in 1..(2 * Len(FlowRoute[g]) - 1)
    BY RouteFacts
  <2>2. QED
    BY <2>1, RouteFacts
<1> HIDE DEF w, side, t
<1>4. /\ w \in SetType
      /\ \A x \in Flows : w.chg[x] # Absent => x \in elastic \ {f}
  BY <1>2 DEF StopSet, SetSoFar
<1>5. /\ v.state.load \in [Sides -> Rates] /\ v.state.load[side] \in Rates
  BY <1>1, <1>3, PortalFields
<1>6. \A k \in 1..(j + 1) : k \in 1..j \/ (k = j + 1 /\ SideAt(FlowRoute[g], k) = side)
  BY DEF side
<1>7. rate # Absent
  BY Numbers
<1>8. CASE w.state = v.state /\ At(v.state.load[side], f) = rate
  <2>1. \A k \in 1..(j + 1) : rate \in Int => At(w.state.load[SideAt(FlowRoute[g], k)], f) = rate
    BY <1>6, <1>8 DEF SetSoFar
  <2>2. QED
    BY <1>4, <1>8, <2>1 DEF SetSoFar, w
<1>9. CASE w.state = t
  <2>1. /\ t.request = v.state.request /\ t.accepted = v.state.accepted /\ t.calls = v.state.calls
        /\ t.load = [v.state.load EXCEPT ![side] = [v.state.load[side] EXCEPT ![f] = rate]]
    <3>1. Changed(t, v.state, side, f, rate)
      BY <1>1, <1>3, ChgFacts DEF t
    <3>2. QED
      BY <3>1 DEF Changed
  <2>2. /\ t.load[side][f] = rate
        /\ \A x \in Flows \ {f} : t.load[side][x] = v.state.load[side][x]
        /\ \A a \in Sides \ {side} : t.load[a] = v.state.load[a]
    BY <1>3, <1>5, <2>1 DEF Rates
  <2>3. \A a \in Sides : /\ \A x \in Flows \ {f} : t.load[a][x] = s.load[a][x]
                         /\ t.load[a][f] \in {rate, s.load[a][f]}
                         /\ a \notin FlowSides(g) => t.load[a][f] = s.load[a][f]
    <3> TAKE a \in Sides
    <3>1. CASE a = side
      BY <1>3, <2>2, <3>1 DEF SetSoFar
    <3>2. CASE a # side
      BY <2>2, <3>2 DEF SetSoFar
    <3>3. QED
      BY <3>1, <3>2
  <2>4. \A k \in 1..(j + 1) : rate \in Int => At(t.load[SideAt(FlowRoute[g], k)], f) = rate
    <3>1. At(t.load[side], f) = rate
      BY <1>7, <2>2 DEF At
    <3>2. ASSUME NEW k \in 1..j, rate \in Int
          PROVE  At(t.load[SideAt(FlowRoute[g], k)], f) = rate
      <4>1. At(v.state.load[SideAt(FlowRoute[g], k)], f) = rate
        BY <3>2 DEF SetSoFar
      <4>2. CASE SideAt(FlowRoute[g], k) = side
        BY <3>1, <4>2
      <4>3. CASE SideAt(FlowRoute[g], k) # side
        BY <1>3, <2>2, <4>1, <4>3
      <4>4. QED
        BY <4>2, <4>3
    <3>3. QED
      BY <1>6, <3>1, <3>2
  <2>5. rate \in Nat /\ Balanced(s) => Balanced(t)
    BY <1>1, <1>3, ChgBalanced DEF SetSoFar, t
  <2>6. QED
    BY <1>4, <1>9, <2>1, <2>3, <2>4, <2>5 DEF SetSoFar, w
<1>10. QED
  BY <1>2, <1>8, <1>9 DEF StopSet, t

LEMMA SetFirst ==
  ASSUME NEW s \in PortalType, NEW f \in Flows, NEW rate \in Values, NEW g \in Flows
  PROVE  LET first == ChgFlowRate([s EXCEPT !.accepted = [s.accepted EXCEPT ![f] = rate]],
                                  SideAt(FlowRoute[g], 1), f, rate)
         IN  SetSoFar([state |-> first, chg |-> NoRates], 0, s, f, rate, g)
<1> DEFINE accepted == [s.accepted EXCEPT ![f] = rate]
           q == [s EXCEPT !.accepted = accepted]
           side == SideAt(FlowRoute[g], 1)
           t == ChgFlowRate(q, side, f, rate)
<1>1. side \in Sides /\ side \in FlowSides(g)
  <2>1. 1 \in 1..(2 * Len(FlowRoute[g]) - 1)
    BY RouteFacts
  <2>2. SideAt(FlowRoute[g], 1) \in Sides
    BY <2>1, RouteFacts
  <2>3. SideAt(FlowRoute[g], 1) \in FlowSides(g)
    <3>1. FlowSides(g) = {SideAt(FlowRoute[g], k) : k \in 1..(2 * Len(FlowRoute[g]) - 1)}
      BY RouteFacts
    <3>2. QED
      BY <2>1, <3>1
  <2>4. QED
    BY <2>2, <2>3
<1>2. accepted \in Rates
  BY PortalFields DEF Rates
<1>3. /\ q.request = s.request /\ q.calls = s.calls /\ q.accepted = accepted
      /\ q.load = s.load /\ q.lambda = s.lambda
  BY DEF PortalType
<1>4. q \in PortalType
  <2> HIDE DEF accepted
  <2>1. QED
    BY <1>2 DEF PortalType, Rates
<1> HIDE DEF accepted, q, side
<1>5. /\ t \in PortalType
      /\ t.request = q.request /\ t.accepted = q.accepted /\ t.calls = q.calls
      /\ t.load = [s.load EXCEPT ![side] = [s.load[side] EXCEPT ![f] = rate]]
  <2>1. Changed(t, q, side, f, rate)
    BY <1>1, <1>4, ChgFacts
  <2> HIDE DEF t
  <2>2. QED
    BY <1>3, <2>1 DEF Changed
<1>6. rate \in Nat /\ Balanced(s) => Balanced(t)
  BY <1>1, <1>3, <1>4, ChgBalanced DEF Balanced
<1>7. s.load \in [Sides -> Rates] /\ s.load[side] \in Rates
  BY <1>1, PortalFields
<1> HIDE DEF t
<1>8. \A a \in Sides : /\ \A x \in Flows \ {f} : t.load[a][x] = s.load[a][x]
                       /\ t.load[a][f] \in {rate, s.load[a][f]}
                       /\ a \notin FlowSides(g) => t.load[a][f] = s.load[a][f]
  BY <1>1, <1>5, <1>7 DEF Rates
<1>9. NoRates \in Rates /\ \A x \in Flows : NoRates[x] = Absent
  BY DEF NoRates, Rates
<1>10. SetSoFar([state |-> t, chg |-> NoRates], 0, s, f, rate, g)
  <2> DEFINE v == [state |-> t, chg |-> NoRates]
  <2>1. v \in SetType /\ v.state = t /\ v.chg = NoRates
    BY <1>5, <1>9 DEF SetType
  <2> HIDE DEF v
  <2>2. \A k \in 1..0 : rate \in Int => At(v.state.load[SideAt(FlowRoute[g], k)], f) = rate
    OBVIOUS
  <2>3. SetSoFar(v, 0, s, f, rate, g)
    BY <1>3, <1>5, <1>6, <1>8, <1>9, <2>1, <2>2 DEF SetSoFar, accepted
  <2>4. QED
    BY <2>3 DEF v
<1>11. QED
  BY <1>10 DEF t, q, side, accepted

Setting(f, rate, g) ==
  [k \in 1..(2 * Len(FlowRoute[g]) - 1) |->
     [v \in SetType |-> SetAtStop(v.state, v.chg, f, rate, FlowRoute[g], k)]]

\* SetFlowRate gives f its rate at every stop, and changes no other flow.
LEMMA SetFacts ==
  ASSUME NEW s \in PortalType, NEW f \in Flows, NEW rate \in Values, NEW g \in Flows
  PROVE  SetSoFar(SetFlowRate(s, f, rate, FlowRoute[g]), 2 * Len(FlowRoute[g]) - 1,
                  s, f, rate, g)
<1> DEFINE r == FlowRoute[g]
           n == 2 * Len(FlowRoute[g]) - 1
           first == ChgFlowRate([s EXCEPT !.accepted = [s.accepted EXCEPT ![f] = rate]],
                                SideAt(r, 1), f, rate)
           base == [state |-> first, chg |-> NoRates]
           step == Setting(f, rate, g)
           Defines(q) ==
             q = [T \in SUBSET DOMAIN Stops(r) |->
                    IF T = {} THEN base
                    ELSE SetAtStop(q[T \ {Max(T)}].state, q[T \ {Max(T)}].chg, f, rate, r,
                                   Stops(r)[Max(T)])]
           chosen == CHOOSE q : Defines(q)
<1>1. n \in Nat /\ n >= 1 /\ DOMAIN Stops(r) = 1..n /\ \A k \in 1..n : Stops(r)[k] = k
  BY RouteFacts
<1>2. SetSoFar(base, 0, s, f, rate, g)
  BY SetFirst
<1>3. SetFlowRate(s, f, rate, r) = chosen[DOMAIN Stops(r)]
  BY DEF SetFlowRate, FoldLeft, MapThenFoldSet
<1> HIDE DEF base, first
<1>4. step \in [1..n -> [SetType -> SetType]]
  <2>1. ASSUME NEW k \in 1..n, NEW v \in SetType
        PROVE  SetAtStop(v.state, v.chg, f, rate, r, k) \in SetType
    <3>1. v.state \in PortalType /\ v.chg \in Rates
      BY DEF SetType
    <3>2. StopSet(SetAtStop(v.state, v.chg, f, rate, r, k), v.state, v.chg, f, rate, SideAt(r, k))
      BY <3>1, StopFacts
    <3>3. QED
      BY <3>2 DEF StopSet
  <2>2. QED
    BY <2>1 DEF Setting
<1>5. PICK h : TakesLatest(h, n, SetType, base, step)
  <2>1. base \in SetType
    BY <1>2 DEF SetSoFar
  <2> HIDE DEF step, n
  <2>2. QED
    BY <1>1, <1>4, <2>1, LatestExists
<1>6. ASSUME NEW T \in SUBSET (1..n), T # {}
      PROVE  h[T] = SetAtStop(h[T \ {Max(T)}].state, h[T \ {Max(T)}].chg, f, rate, r,
                              Stops(r)[Max(T)])
  <2>1. Max(T) \in 1..n /\ Stops(r)[Max(T)] = Max(T)
    BY <1>1, <1>6, Latest
  <2>2. h[T \ {Max(T)}] \in SetType
    BY <1>5 DEF TakesLatest
  <2>3. h[T] = step[Max(T)][h[T \ {Max(T)}]]
    BY <1>5, <1>6 DEF TakesLatest
  <2>4. QED
    BY <2>1, <2>2, <2>3 DEF Setting
<1>7. h \in [SUBSET (1..n) -> SetType] /\ h[{}] = base
  BY <1>5 DEF TakesLatest
<1>8. Defines(h)
  BY <1>1, <1>6, <1>7
<1>9. Defines(chosen)
  BY <1>8
<1>10. chosen[{}] = base
  BY <1>1, <1>9
<1>11. ASSUME NEW k \in 1..n
       PROVE  chosen[1..k] = SetAtStop(chosen[1..(k - 1)].state, chosen[1..(k - 1)].chg,
                                       f, rate, r, k)
  <2> HIDE DEF n
  <2>1. 1..k \in SUBSET (1..n) /\ 1..k # {}
    <3>1. k \in 1..n /\ n \in Nat
      BY <1>1
    <3>2. \A i \in 1..k : i \in 1..n
      BY <3>1
    <3>3. k \in 1..k
      BY <3>1
    <3>4. QED
      BY <3>2, <3>3
  <2>2. Max(1..k) = k /\ (1..k) \ {k} = 1..(k - 1) /\ Stops(r)[k] = k
    BY <1>1, Latest
  <2>3. PICK T : T = 1..k
    OBVIOUS
  <2>4. T \in SUBSET DOMAIN Stops(r) /\ T # {} /\ Max(T) = k /\ T \ {Max(T)} = 1..(k - 1)
    BY <1>1, <2>1, <2>2, <2>3
  <2> HIDE DEF chosen
  <2>5. chosen[T] = SetAtStop(chosen[T \ {Max(T)}].state, chosen[T \ {Max(T)}].chg, f, rate, r,
                              Stops(r)[Max(T)])
    BY <1>9, <2>4
  <2>6. QED
    BY <2>2, <2>3, <2>4, <2>5
<1> HIDE DEF chosen, Defines
<1> DEFINE P == {j \in 0..n : SetSoFar(chosen[1..j], j, s, f, rate, g)}
<1>12. 0 \in P
  <2>1. 1..0 = {} /\ 0 \in 0..n
    BY <1>1
  <2>2. QED
    BY <1>2, <1>10, <2>1
<1>13. ASSUME NEW j \in 0..(n - 1), j \in P
       PROVE  j + 1 \in P
  <2>1. j \in Nat /\ j + 1 \in 1..n /\ j + 1 \in 0..n /\ (j + 1) - 1 = j
    BY <1>1
  <2>2. PICK v : v = chosen[1..j]
    OBVIOUS
  <2>3. SetSoFar(v, j, s, f, rate, g)
    BY <1>13, <2>2
  <2>4. SetSoFar(SetAtStop(v.state, v.chg, f, rate, r, j + 1), j + 1, s, f, rate, g)
    BY <2>1, <2>3, SetStep
  <2>5. chosen[1..(j + 1)] = SetAtStop(v.state, v.chg, f, rate, r, j + 1)
    BY <1>11, <2>1, <2>2
  <2>6. QED
    BY <2>1, <2>4, <2>5
<1> HIDE DEF P
<1>14. 0..n \subseteq P
  BY <1>1, <1>12, <1>13, BoundedInduction
<1>15. n \in P
  BY <1>1, <1>14
<1>16. SetSoFar(chosen[1..n], n, s, f, rate, g)
  BY <1>15 DEF P
<1>17. QED
  BY <1>1, <1>3, <1>16

\* There is room for rq at every stop of the route of g.
Room(s, rq, g) ==
  \A k \in 1..(2 * Len(FlowRoute[g]) - 1) :
    ~ Less(Minus(Bndwdth[SideAt(FlowRoute[g], k)[1]],
                 Fixed(s.load[SideAt(FlowRoute[g], k)])), rq)

\* An inelastic flow is given what it asks for, where there is room for it.
LEMMA DiscoverFacts ==
  ASSUME NEW s \in PortalType, NEW f \in Flows, NEW rq \in Values, NEW g \in Flows
  PROVE  /\ DiscoverFlowRate(s, f, rq, FlowRoute[g]) \in Values \cup {Absent}
         /\ f \notin elastic /\ DiscoverFlowRate(s, f, rq, FlowRoute[g]) # Absent =>
              DiscoverFlowRate(s, f, rq, FlowRoute[g]) = rq /\ Room(s, rq, g)
<1> DEFINE r == FlowRoute[g]
           n == 2 * Len(FlowRoute[g]) - 1
           V == Values \cup {Absent}
           step == Discovering(s, f, rq, g)
           Fits(k) == ~ Less(Minus(Bndwdth[SideAt(r, k)[1]], Fixed(s.load[SideAt(r, k)])), rq)
<1>1. n \in Nat /\ n >= 1
  BY RouteFacts
<1>2. PICK F : /\ Walks(F, n, V, rq, step)
               /\ F[n] = DiscoverFlowRate(s, f, rq, r)
  BY DiscoverWalks
<1>3. F \in [0..n -> V] /\ F[0] = rq /\ \A k \in 1..n : F[k] = step[k][F[k - 1]]
  BY <1>2 DEF Walks
<1> HIDE DEF n
<1>4. F[n] \in V
  BY <1>1, <1>3
<1>5. ASSUME f \notin elastic, F[n] # Absent
      PROVE  F[n] = rq /\ \A k \in 1..n : Fits(k)
  <2> DEFINE P == {k \in 0..n : F[k] = Absent \/ (F[k] = rq /\ \A i \in 1..k : Fits(i))}
  <2> HIDE DEF Fits, step
  <2>1. 0 \in P
    BY <1>1, <1>3
  <2>2. ASSUME NEW k \in 0..(n - 1), k \in P
        PROVE  k + 1 \in P
    <3>1. k + 1 \in 1..n /\ k + 1 \in 0..n /\ (k + 1) - 1 = k /\ k \in 0..n
      BY <1>1
    <3>2. F[k] \in V
      BY <1>3, <3>1
    <3>3. F[k + 1] = DiscoverAt(s, f, rq, r, k + 1, F[k])
      <4>1. F[k + 1] = step[k + 1][F[k]]
        BY <1>3, <3>1
      <4>2. QED
        BY <3>1, <3>2, <4>1 DEF step, n, Discovering
    <3>4. CASE F[k] = Absent
      BY <3>1, <3>3, <3>4 DEF DiscoverAt
    <3>5. CASE F[k] # Absent
      <4>1. F[k] = rq /\ \A i \in 1..k : Fits(i)
        BY <2>2, <3>5
      <4>2. PICK x : x = DiscoverAtIntrfc(s, f, rq, r, k + 1, rq)
        OBVIOUS
      <4>3. x = Absent \/ (x = rq /\ Fits(k + 1))
        BY <1>5, <4>2 DEF DiscoverAtIntrfc, Fits
      <4>4. F[k + 1] = Absent \/ (F[k + 1] = rq /\ Fits(k + 1))
        BY <1>5, <3>3, <4>1, <4>2, <4>3 DEF DiscoverAt, DiscoverAtNet
      <4>5. \A i \in 1..(k + 1) : i \in 1..k \/ i = k + 1
        BY <3>1
      <4>6. QED
        BY <3>1, <4>1, <4>4, <4>5
    <3>6. QED
      BY <3>4, <3>5
  <2> HIDE DEF P
  <2>3. 0..n \subseteq P
    BY <1>1, <2>1, <2>2, BoundedInduction
  <2>4. n \in P
    BY <1>1, <2>3
  <2>5. QED
    BY <1>5, <2>4 DEF P
<1>6. QED
  BY <1>2, <1>4, <1>5 DEF Room, n

\* SetAlongRoute changes f on the sides of its route.
LEMMA AlongRoute ==
  ASSUME NEW load \in [Sides -> Rates], NEW f \in Flows, NEW rate \in Values \cup {Absent}
  PROVE  SetAlongRoute(load, f, rate) =
           [a \in Sides |-> IF a \in FlowSides(f) THEN [load[a] EXCEPT ![f] = rate] ELSE load[a]]
<1> DEFINE S == FlowSides(f)
           Rated(T) == [a \in Sides |-> IF a \in T THEN [load[a] EXCEPT ![f] = rate] ELSE load[a]]
           h == [T \in SUBSET S |-> Rated(T)]
           Defines(q) ==
             q = [T \in SUBSET S |->
                    IF T = {} THEN load
                    ELSE [q[T \ {CHOOSE x \in T : TRUE}] EXCEPT
                            ![CHOOSE x \in T : TRUE] =
                               [q[T \ {CHOOSE x \in T : TRUE}][CHOOSE x \in T : TRUE]
                                  EXCEPT ![f] = rate]]]
           chosen == CHOOSE q : Defines(q)
<1>1. S \subseteq Sides
  BY RouteFacts
<1>2. SetAlongRoute(load, f, rate) = chosen[S]
  BY DEF SetAlongRoute, FoldSet, MapThenFoldSet
<1>3. IsFiniteSet(S)
  <2>1. PICK n \in Nat : S = {SideAt(FlowRoute[f], k) : k \in 1..n}
    BY RouteFacts
  <2>2. IsFiniteSet(1..n)
    BY FS_Interval
  <2> DEFINE stop == [k \in 1..n |-> SideAt(FlowRoute[f], k)]
  <2>3. stop \in Surjection(1..n, S)
    BY <2>1 DEF Surjection
  <2> HIDE DEF stop, S
  <2>4. QED
    BY <2>2, <2>3, FS_Surjection
<1> HIDE DEF S
<1>4. Rated({}) = load
  OBVIOUS
<1>5. ASSUME NEW T \in SUBSET S, NEW x \in T
      PROVE  Rated(T) = [Rated(T \ {x}) EXCEPT ![x] = [Rated(T \ {x})[x] EXCEPT ![f] = rate]]
  <2>1. x \in Sides
    BY <1>1
  <2>2. Rated(T \ {x})[x] = load[x]
    BY <2>1
  <2>3. QED
    BY <2>1, <2>2
<1> HIDE DEF Rated
<1>6. Defines(h)
  <2>1. \A T \in SUBSET S : T # {} => /\ (CHOOSE x \in T : TRUE) \in T
                                      /\ T \ {CHOOSE x \in T : TRUE} \in SUBSET S
    OBVIOUS
  <2>2. ASSUME NEW T \in SUBSET S, T # {}
        PROVE  Rated(T) = [h[T \ {CHOOSE x \in T : TRUE}] EXCEPT
                            ![CHOOSE x \in T : TRUE] =
                               [h[T \ {CHOOSE x \in T : TRUE}][CHOOSE x \in T : TRUE]
                                  EXCEPT ![f] = rate]]
    <3>1. PICK x : x = CHOOSE y \in T : TRUE
      OBVIOUS
    <3>2. x \in T /\ T \ {x} \in SUBSET S
      BY <2>1, <2>2, <3>1
    <3>3. h[T \ {x}] = Rated(T \ {x})
      BY <3>2
    <3>4. Rated(T) = [Rated(T \ {x}) EXCEPT ![x] = [Rated(T \ {x})[x] EXCEPT ![f] = rate]]
      BY <1>5, <3>2
    <3> HIDE DEF h
    <3>5. QED
      BY <3>1, <3>3, <3>4
  <2>3. QED
    BY <1>4, <2>2
<1>7. Defines(chosen)
  BY <1>6
<1> DEFINE P == {T \in SUBSET S : chosen[T] = Rated(T)}
<1>8. {} \in P
  BY <1>4, <1>7
<1>9. ASSUME NEW T \in SUBSET S, T # {}, \A x \in T : T \ {x} \in P
      PROVE  T \in P
  <2>1. PICK x : x = CHOOSE y \in T : TRUE
    OBVIOUS
  <2>2. x \in T
    BY <1>9, <2>1
  <2>3. chosen[T \ {x}] = Rated(T \ {x})
    BY <1>9, <2>2
  <2>4. Rated(T) = [Rated(T \ {x}) EXCEPT ![x] = [Rated(T \ {x})[x] EXCEPT ![f] = rate]]
    BY <1>5, <2>2
  <2> HIDE DEF chosen
  <2>5. chosen[T] = [chosen[T \ {x}] EXCEPT ![x] = [chosen[T \ {x}][x] EXCEPT ![f] = rate]]
    BY <1>7, <1>9, <2>1
  <2>6. QED
    BY <2>3, <2>4, <2>5
<1> HIDE DEF P, chosen, Defines
<1>10. SUBSET S \subseteq P
  BY <1>3, <1>8, <1>9, SubsetInduction
<1>11. chosen[S] = Rated(S)
  BY <1>10 DEF P
<1>12. QED
  BY <1>2, <1>11 DEF Rated, S

----------------------------------------------------------------------------
(* The inductive invariant, of the rates s and the flows that are held:    *)
(* those running and the one that is being entered.                        *)

\* Rates of inelastic flows are naturals: they are never squeezed.
InelasticNatural(s) ==
  \A f \in Flows \ elastic : \A a \in Sides : s.load[a][f] \in Nat \cup {Absent}

\* An inelastic flow that is held has its accepted rate on all of its route.
Carried(s, held) ==
  \A f \in held \ elastic : /\ s.accepted[f] \in Nat
                            /\ \A a \in FlowSides(f) : s.load[a][f] = s.accepted[f]

Fits(s) == \A a \in Sides : AtMost(Fixed(s.load[a]), Bndwdth[a[1]])

\* With inelastic flows only, a flow that is not held has no rate left, and none
\* has a rate off its route: what a start and an end leave out of lambda is 0.
Idle(s, held) ==
  \A f \in Flows : \A a \in Sides :
    f \notin held \/ a \notin FlowSides(f) => s.load[a][f] \in {0, Absent}

CallsElastic(s) ==
  \A i \in DOMAIN s.calls : \A x \in Flows : s.calls[i][x] # Absent => x \in elastic

Consistent(s, held) ==
  /\ s \in PortalType
  /\ InelasticNatural(s)
  /\ Carried(s, held)
  /\ Fits(s)
  /\ elastic = {} => Balanced(s) /\ Idle(s, held)
  /\ CallsElastic(s)

Held == (running \cup {entry.flow}) \cap Flows

\* An inelastic flow that is ending has the rate 0 already.
EndingAtZero ==
  entry.action = "End" /\ entry.flow \in Flows \ elastic => np.accepted[entry.flow] = 0

IInv == TypeOK /\ Consistent(np, Held) /\ EndingAtZero

----------------------------------------------------------------------------
(* What the steps of an entry keep.                                        *)

\* Rates of inelastic flows that stay, or change between 0 and none, use what
\* they used.
LEMMA FixedSame ==
  ASSUME NEW m \in Rates, NEW w \in Rates, \A f \in Flows \ elastic : At(m, f) = At(w, f)
  PROVE  Fixed(m) = Fixed(w)
<1>1. Flows \ elastic \in SUBSET Flows
  OBVIOUS
<1>2. Total(m, Flows \ elastic) = Total(w, Flows \ elastic)
  BY <1>1, TotalSame
<1>3. QED
  BY <1>2, SumsAre

LEMMA SumSame ==
  ASSUME NEW m \in Rates, NEW w \in Rates, \A f \in Flows : At(m, f) = At(w, f)
  PROVE  Sum(m) = Sum(w)
<1>1. Total(m, Flows) = Total(w, Flows)
  BY TotalSame
<1>2. QED
  BY <1>1, SumsAre

LEMMA FixedNat ==
  ASSUME NEW s \in PortalType, InelasticNatural(s), NEW a \in Sides
  PROVE  Fixed(s.load[a]) \in Nat /\ \A f \in Flows \ elastic : At(s.load[a], f) \in Nat
<1>1. s.load[a] \in Rates /\ Flows \ elastic \in SUBSET Flows
  BY PortalFields
<1>2. \A f \in Flows \ elastic : At(s.load[a], f) \in Nat
  BY DEF InelasticNatural, At
<1>3. QED
  BY <1>1, <1>2, SumsAre, TotalNat

\* A flow may lose its rates, all along its route, when lambda does not count them.
LEMMA ZeroKeeps ==
  ASSUME NEW s, NEW held \in SUBSET Flows, Consistent(s, held), NEW f \in Flows,
         NEW t \in PortalType, NEW v \in {0, Absent}, t.load = SetAlongRoute(s.load, f, v),
         t.lambda = s.lambda, t.calls = s.calls,
         \A g \in Flows \ {f} : t.accepted[g] = s.accepted[g],
         elastic = {} => \A a \in FlowSides(f) : s.load[a][f] \in {0, Absent}
  PROVE  Consistent(t, held \ {f})
<1> USE DEF Consistent
<1>1. /\ s.load \in [Sides -> Rates] /\ t.load \in [Sides -> Rates]
      /\ \A a \in Sides : s.load[a] \in Rates /\ t.load[a] \in Rates
  BY PortalFields
<1>2. v \in Values \cup {Absent}
  BY Numbers
<1>3. t.load = [a \in Sides |-> IF a \in FlowSides(f) THEN [s.load[a] EXCEPT ![f] = v]
                                                      ELSE s.load[a]]
  BY <1>1, <1>2, AlongRoute
<1>4. \A a \in Sides : /\ \A g \in Flows \ {f} : t.load[a][g] = s.load[a][g]
                       /\ a \in FlowSides(f) => t.load[a][f] = v
                       /\ a \notin FlowSides(f) => t.load[a][f] = s.load[a][f]
  BY <1>1, <1>3 DEF Rates
<1>5. InelasticNatural(t)
  BY <1>4 DEF InelasticNatural
<1>6. Carried(t, held \ {f})
  <2>1. ASSUME NEW g \in (held \ {f}) \ elastic
        PROVE  /\ t.accepted[g] \in Nat
               /\ \A a \in FlowSides(g) : t.load[a][g] = t.accepted[g]
    <3>1. g \in Flows \ {f} /\ g \in held \ elastic
      OBVIOUS
    <3>2. FlowSides(g) \subseteq Sides
      BY <3>1, RouteFacts
    <3>3. s.accepted[g] \in Nat /\ \A a \in FlowSides(g) : s.load[a][g] = s.accepted[g]
      BY <3>1 DEF Carried
    <3>4. QED
      BY <1>4, <3>1, <3>2, <3>3
  <2>2. QED
    BY <2>1 DEF Carried
<1>7. ASSUME NEW a \in Sides
      PROVE  AtMost(Fixed(t.load[a]), Bndwdth[a[1]])
  <2> DEFINE m == s.load[a]
             w == [m EXCEPT ![f] = v]
             S == Flows \ elastic
  <2>1. AtMost(Fixed(m), Bndwdth[a[1]])
    BY DEF Fits
  <2>2. m \in Rates /\ S \in SUBSET Flows /\ \A g \in S : At(m, g) \in Nat
    BY <1>1 DEF InelasticNatural, At
  <2>3. Fixed(m) \in Nat
    BY FixedNat
  <2>4. CASE a \in FlowSides(f) /\ f \notin elastic
    <3>1. t.load[a] = w
      BY <1>3, <2>4
    <3>2. At(w, f) = 0 /\ f \in S
      BY <2>2, <2>4 DEF At, Rates
    <3> HIDE DEF m, S
    <3>3. Total(m, S) \in Nat /\ Total(w, S) \in Nat /\ Total(w, S) = Total(m, S) + (0 - At(m, f))
      BY <1>2, <2>2, <3>2, TotalChange
    <3> HIDE DEF w
    <3>4. w \in Rates
      BY <1>1, <3>1
    <3>5. Fixed(m) = Total(m, S) /\ Fixed(w) = Total(w, S)
      BY <2>2, <3>4, SumsAre DEF S
    <3>6. At(m, f) \in Nat
      BY <2>2, <3>2
    <3>7. Fixed(w) \in Nat /\ Fixed(w) <= Fixed(m)
      BY <3>3, <3>5, <3>6
    <3>8. a[1] \in Intrfcs
      BY <2>4, RouteFacts
    <3>9. QED
      BY <2>1, <2>3, <3>1, <3>7, <3>8, Numbers, BandwidthFacts DEF AtMost
  <2>5. CASE a \notin FlowSides(f) \/ f \in elastic
    <3>1. \A g \in Flows \ elastic : At(t.load[a], g) = At(m, g)
      BY <1>4, <2>5 DEF At
    <3>2. Fixed(t.load[a]) = Fixed(m)
      BY <1>1, <3>1, FixedSame
    <3>3. QED
      BY <2>1, <3>2
  <2>6. QED
    BY <2>4, <2>5
<1>8. ASSUME elastic = {}
      PROVE  Balanced(t) /\ Idle(t, held \ {f})
  <2>1. \A a \in Sides : \A g \in Flows : At(t.load[a], g) = At(s.load[a], g)
    BY <1>4, <1>8 DEF At
  <2>2. \A a \in Sides : Sum(t.load[a]) = Sum(s.load[a])
    BY <1>1, <2>1, SumSame
  <2>3. Balanced(t)
    BY <1>4, <1>8, <2>2 DEF Balanced
  <2>4. Idle(t, held \ {f})
    BY <1>4, <1>8 DEF Idle
  <2>5. QED
    BY <2>3, <2>4
<1>9. Fits(t) /\ CallsElastic(t)
  BY <1>7 DEF Fits, CallsElastic
<1>10. QED
  BY <1>5, <1>6, <1>8, <1>9

Called(t, v) == t = [v.state EXCEPT !.calls = Append(v.state.calls, v.chg)]

\* What EstablishFlowRate makes of s, when it does not refuse.
Establishes(t, s, f, rq, g) ==
  \E v : /\ Called(t, v)
         /\ \E rate \in Values :
              /\ SetSoFar(v, 2 * Len(FlowRoute[g]) - 1, s, f, rate, g)
              /\ f \notin elastic => rate = rq /\ Room(s, rq, g)

LEMMA EstablishFacts ==
  ASSUME NEW s \in PortalType, NEW f \in Flows, NEW rq \in Values, NEW g \in Flows
  PROVE  \/ EstablishFlowRate(s, f, rq, FlowRoute[g]) = Absent
         \/ Establishes(EstablishFlowRate(s, f, rq, FlowRoute[g]), s, f, rq, g)
<1> DEFINE rate == DiscoverFlowRate(s, f, rq, FlowRoute[g])
           v == SetFlowRate(s, f, rate, FlowRoute[g])
<1>1. rate \in Values \cup {Absent} /\ (f \notin elastic /\ rate # Absent => rate = rq /\ Room(s, rq, g))
  BY DiscoverFacts
<1>2. CASE rate = Absent
  BY <1>2 DEF EstablishFlowRate
<1>3. CASE rate # Absent
  <2>1. EstablishFlowRate(s, f, rq, FlowRoute[g]) = [v.state EXCEPT !.calls = Append(v.state.calls, v.chg)]
    BY <1>3 DEF EstablishFlowRate
  <2>2. rate \in Values
    BY <1>1, <1>3
  <2> HIDE DEF rate
  <2>3. SetSoFar(v, 2 * Len(FlowRoute[g]) - 1, s, f, rate, g)
    BY <2>2, SetFacts
  <2> HIDE DEF v
  <2>4. f \notin elastic => rate = rq /\ Room(s, rq, g)
    BY <1>1, <1>3
  <2>5. QED
    BY <2>1, <2>2, <2>3, <2>4 DEF Establishes, Called
<1>4. QED
  BY <1>2, <1>3

\* The fields after it, and the types.
LEMMA EstablishedType ==
  ASSUME NEW s \in PortalType, NEW f \in Flows, NEW rq \in Values, NEW g \in Flows,
         NEW t, Establishes(t, s, f, rq, g)
  PROVE  /\ t \in PortalType
         /\ Len(t.calls) = Len(s.calls) + 1
         /\ \A x \in Flows \ {f} : /\ t.accepted[x] = s.accepted[x]
                                   /\ \A a \in Sides : t.load[a][x] = s.load[a][x]
<1>0. PICK v : /\ Called(t, v)
               /\ \E rate \in Values :
                    SetSoFar(v, 2 * Len(FlowRoute[g]) - 1, s, f, rate, g)
  BY DEF Establishes
<1>1. PICK rate \in Values :
        /\ Called(t, v)
        /\ SetSoFar(v, 2 * Len(FlowRoute[g]) - 1, s, f, rate, g)
  BY <1>0
<1>2. v.state \in PortalType /\ v.chg \in Rates /\ v.state.calls = s.calls
  BY <1>1 DEF SetSoFar, SetType
<1>3. s.calls \in Seq(Rates)
  BY PortalFields
<1> DEFINE c == Append(s.calls, v.chg)
<1>4. c \in Seq(Rates) /\ Len(c) = Len(s.calls) + 1
  BY <1>2, <1>3
<1> HIDE DEF c
<1>5. t = [v.state EXCEPT !.calls = c]
  BY <1>1, <1>2 DEF c, Called
<1>6. t \in PortalType /\ t.calls = c /\ t.load = v.state.load /\ t.accepted = v.state.accepted
  BY <1>2, <1>4, <1>5 DEF PortalType, Rates
<1>7. s.accepted \in Rates
  BY PortalFields
<1>8. \A x \in Flows \ {f} : t.accepted[x] = s.accepted[x]
  BY <1>1, <1>6, <1>7 DEF SetSoFar, Rates
<1>9. QED
  BY <1>1, <1>4, <1>6, <1>8 DEF SetSoFar

LEMMA EstablishKeeps ==
  ASSUME NEW s, NEW held \in SUBSET Flows, Consistent(s, held), NEW f \in Flows,
         NEW rq \in Values, NEW g \in Flows, NEW t, Establishes(t, s, f, rq, g),
         f \notin elastic => /\ g = f /\ rq \in Nat
                             /\ \A a \in FlowSides(f) : s.load[a][f] # Absent
  PROVE  /\ Consistent(t, held \cup {f})
         /\ f \notin elastic => t.accepted[f] = rq
<1> DEFINE n == 2 * Len(FlowRoute[g]) - 1
<1>0. PICK v : /\ Called(t, v)
               /\ \E rate \in Values :
                    /\ SetSoFar(v, n, s, f, rate, g)
                    /\ f \notin elastic => rate = rq /\ Room(s, rq, g)
  BY DEF Establishes
<1>1. PICK rate \in Values : /\ SetSoFar(v, n, s, f, rate, g)
                             /\ f \notin elastic => rate = rq /\ Room(s, rq, g)
  BY <1>0
<1>2. s \in PortalType /\ t \in PortalType
  BY EstablishedType DEF Consistent
<1>3. /\ t.load = v.state.load /\ t.lambda = v.state.lambda
      /\ t.accepted = [s.accepted EXCEPT ![f] = rate]
      /\ t.calls = Append(s.calls, v.chg) /\ v.chg \in Rates
      /\ s.calls \in Seq(Rates) /\ s.accepted \in Rates
  <2>1. v.state \in PortalType /\ v.chg \in Rates
    BY <1>1 DEF SetSoFar, SetType
  <2>2. s.calls \in Seq(Rates) /\ s.accepted \in Rates
    BY <1>2, PortalFields
  <2>3. /\ t.load = v.state.load /\ t.lambda = v.state.lambda
        /\ t.accepted = v.state.accepted /\ t.calls = Append(v.state.calls, v.chg)
    BY <1>0, <2>1 DEF PortalType, Called
  <2>4. QED
    BY <1>1, <2>1, <2>2, <2>3 DEF SetSoFar
<1>4. \A a \in Sides : /\ \A x \in Flows \ {f} : t.load[a][x] = s.load[a][x]
                       /\ t.load[a][f] \in {rate, s.load[a][f]}
                       /\ a \notin FlowSides(g) => t.load[a][f] = s.load[a][f]
  BY <1>1, <1>3 DEF SetSoFar
<1>5. \A a \in Sides : s.load[a] \in Rates /\ t.load[a] \in Rates
  BY <1>2, PortalFields
<1>6. ASSUME f \notin elastic, NEW a \in FlowSides(f)
      PROVE  /\ a \in Sides /\ a[1] \in Intrfcs /\ t.load[a][f] = rq
             /\ ~ Less(Minus(Bndwdth[a[1]], Fixed(s.load[a])), rq)
  <2>1. FlowSides(f) = {SideAt(FlowRoute[f], k) : k \in 1..n} /\ n \in Nat
    BY <1>6, RouteFacts
  <2>2. PICK k \in 1..n : a = SideAt(FlowRoute[f], k)
    BY <1>6, <2>1
  <2>3. a \in Sides /\ a[1] \in Intrfcs
    BY <1>6, <2>2, RouteFacts
  <2>4. rate = rq /\ rq \in Int /\ g = f
    BY <1>1, <1>6
  <2>5. At(t.load[a], f) = rq
    BY <1>1, <1>3, <2>2, <2>4 DEF SetSoFar
  <2>6. t.load[a][f] # Absent
    BY <1>4, <1>6, <2>3, <2>4, Numbers
  <2>7. ~ Less(Minus(Bndwdth[a[1]], Fixed(s.load[a])), rq)
    BY <1>1, <1>6, <2>2, <2>4 DEF Room
  <2>8. QED
    BY <2>3, <2>5, <2>6, <2>7 DEF At
<1>7. InelasticNatural(t)
  BY <1>1, <1>4 DEF InelasticNatural, Consistent
<1>8. t.accepted[f] = rate /\ \A x \in Flows \ {f} : t.accepted[x] = s.accepted[x]
  BY <1>3 DEF Rates
<1>9. Carried(t, held \cup {f})
  <2>1. ASSUME NEW x \in (held \cup {f}) \ elastic, NEW y, y = t.accepted[x]
        PROVE  y \in Nat /\ \A a \in FlowSides(x) : t.load[a][x] = y
    <3>1. CASE x = f
      BY <1>1, <1>6, <1>8, <2>1, <3>1
    <3>2. CASE x # f
      <4>1. x \in Flows \ {f} /\ x \in held \ elastic /\ FlowSides(x) \subseteq Sides
        BY <2>1, <3>2, RouteFacts
      <4>2. s.accepted[x] \in Nat /\ \A a \in FlowSides(x) : s.load[a][x] = s.accepted[x]
        BY <4>1 DEF Carried, Consistent
      <4>3. QED
        BY <1>4, <1>8, <2>1, <4>1, <4>2
    <3>3. QED
      BY <3>1, <3>2
  <2>2. QED
    BY <2>1 DEF Carried
<1>10. ASSUME NEW a \in Sides
       PROVE  AtMost(Fixed(t.load[a]), Bndwdth[a[1]])
  <2> DEFINE m == s.load[a]
             w == [m EXCEPT ![f] = rq]
             S == Flows \ elastic
  <2>1. AtMost(Fixed(m), Bndwdth[a[1]])
    BY DEF Fits, Consistent
  <2>2. m \in Rates /\ S \in SUBSET Flows /\ \A x \in S : At(m, x) \in Nat
    BY <1>5 DEF InelasticNatural, At, Consistent
  <2>3. Fixed(m) \in Nat
    BY <1>2, FixedNat DEF Consistent
  <2>4. CASE a \in FlowSides(f) /\ f \notin elastic
    <3>1. t.load[a] = w /\ rq \in Nat
      BY <1>4, <1>5, <1>6, <2>2, <2>4 DEF Rates
    <3>2. At(w, f) = rq /\ f \in S
      BY <2>2, <2>4, <3>1, Numbers DEF At, Rates
    <3> HIDE DEF m, S
    <3>3. Total(m, S) \in Nat /\ Total(w, S) \in Nat /\ Total(w, S) = Total(m, S) + (rq - At(m, f))
      BY <2>2, <3>1, <3>2, TotalChange
    <3> HIDE DEF w
    <3>4. w \in Rates
      BY <1>5, <3>1
    <3>5. Fixed(m) = Total(m, S) /\ Fixed(w) = Total(w, S)
      BY <2>2, <3>4, SumsAre DEF S
    <3>6. At(m, f) \in Nat
      BY <2>2, <3>2
    <3>7. Fixed(w) \in Nat /\ Fixed(w) <= Fixed(m) + rq
      BY <3>1, <3>3, <3>5, <3>6
    <3>8. a[1] \in Intrfcs /\ Bndwdth[a[1]] \in Nat /\ ~ Less(Minus(Bndwdth[a[1]], Fixed(m)), rq)
      BY <1>6, <2>4, BandwidthFacts DEF m
    <3>9. Fixed(m) + rq <= Bndwdth[a[1]]
      BY <2>3, <3>1, <3>8, Numbers DEF Less, Minus
    <3>10. QED
      BY <2>3, <3>1, <3>7, <3>8, <3>9, Numbers DEF AtMost
  <2>5. CASE a \notin FlowSides(f) \/ f \in elastic
    <3>1. \A x \in Flows \ elastic : At(t.load[a], x) = At(m, x)
      BY <1>4, <2>5 DEF At
    <3>2. Fixed(t.load[a]) = Fixed(m)
      BY <1>5, <3>1, FixedSame
    <3>3. QED
      BY <2>1, <3>2
  <2>6. QED
    BY <2>4, <2>5
<1>11. ASSUME elastic = {}
       PROVE  Balanced(t) /\ Idle(t, held \cup {f})
  <2>1. Balanced(v.state)
    BY <1>1, <1>11 DEF SetSoFar, Consistent
  <2>2. Balanced(t)
    BY <1>3, <2>1 DEF Balanced
  <2>3. Idle(t, held \cup {f})
    BY <1>4, <1>11 DEF Idle, Consistent
  <2>4. QED
    BY <2>2, <2>3
<1>12. CallsElastic(t)
  <2>1. \A i \in DOMAIN t.calls : (i \in DOMAIN s.calls /\ t.calls[i] = s.calls[i]) \/ t.calls[i] = v.chg
    BY <1>3
  <2>2. \A x \in Flows : v.chg[x] # Absent => x \in elastic
    BY <1>1 DEF SetSoFar
  <2>3. QED
    BY <2>1, <2>2 DEF CallsElastic, Consistent
<1>13. QED
  BY <1>1, <1>2, <1>7, <1>8, <1>9, <1>10, <1>11, <1>12 DEF Consistent, Fits

\* What is asked for is not among what has to be consistent.
LEMMA RequestFree ==
  ASSUME NEW s, NEW held, Consistent(s, held), NEW t \in PortalType,
         t.load = s.load, t.lambda = s.lambda, t.accepted = s.accepted,
         \A i \in DOMAIN t.calls : \A x \in Flows : t.calls[i][x] # Absent => x \in elastic
  PROVE  Consistent(t, held)
BY DEF Consistent, InelasticNatural, Carried, Fits, Balanced, Idle, CallsElastic

LEMMA AskedType ==
  ASSUME NEW s \in PortalType, NEW f \in Flows, NEW rate \in Nat,
         NEW t, t = [s EXCEPT !.request = [s.request EXCEPT ![f] = rate]]
  PROVE  /\ t \in PortalType /\ t.load = s.load /\ t.lambda = s.lambda
         /\ t.accepted = s.accepted /\ t.calls = s.calls
<1>1. [s.request EXCEPT ![f] = rate] \in [Flows -> Nat \cup {Absent}]
  BY PortalFields
<1>2. PICK request \in [Flows -> Nat \cup {Absent}] : t = [s EXCEPT !.request = request]
  BY <1>1
<1>3. QED
  BY <1>2 DEF PortalType

LEMMA BuiltType ==
  ASSUME NEW s \in PortalType, NEW f \in Flows, NEW t, t = BuildFlow(s, f)
  PROVE  /\ t \in PortalType /\ t.load = SetAlongRoute(s.load, f, 0) /\ t.lambda = s.lambda
         /\ t.accepted = s.accepted /\ t.calls = s.calls
         /\ \A a \in FlowSides(f) : t.load[a][f] = 0
         /\ \A a \in Sides : \A x \in Flows \ {f} : t.load[a][x] = s.load[a][x]
<1>1. s.load \in [Sides -> Rates] /\ \A a \in Sides : s.load[a] \in Rates
  BY PortalFields
<1>2. PICK load : load = SetAlongRoute(s.load, f, 0)
  OBVIOUS
<1>3. load = [a \in Sides |-> IF a \in FlowSides(f) THEN [s.load[a] EXCEPT ![f] = 0] ELSE s.load[a]]
  BY <1>1, <1>2, Numbers, AlongRoute
<1>4. load \in [Sides -> Rates]
  <2>1. \A a \in Sides : [s.load[a] EXCEPT ![f] = 0] \in Rates
    BY <1>1, Numbers DEF Rates
  <2>2. QED
    BY <1>1, <1>3, <2>1
<1>5. t = [s EXCEPT !.load = load]
  BY <1>2 DEF BuildFlow
<1>6. /\ t \in PortalType /\ t.load = load /\ t.lambda = s.lambda
      /\ t.accepted = s.accepted /\ t.calls = s.calls
  BY <1>4, <1>5 DEF PortalType, Rates
<1>7. FlowSides(f) \subseteq Sides
  BY RouteFacts
<1>8. /\ \A a \in FlowSides(f) : t.load[a][f] = 0
      /\ \A a \in Sides : \A x \in Flows \ {f} : t.load[a][x] = s.load[a][x]
  BY <1>1, <1>3, <1>6, <1>7 DEF Rates
<1>9. QED
  BY <1>2, <1>6, <1>8

\* Between entries the calls are over, and the flows that are held are running.
LEMMA NoEntryFacts ==
  ASSUME TypeOK, entry = NoEntry
  PROVE  np.calls = << >> /\ Held = running /\ running \in SUBSET Flows /\ entry.flow \notin Flows
BY Numbers DEF TypeOK, Held, NoEntry

Undisturbed ==
  \A f \in running \ elastic : \A s \in Sides :
    np'.load[s][f] = np.load[s][f] \/ f \in {entry.flow, entry'.flow}

LEMMA ConsistentNext ==
  ASSUME NEW s, NEW held, Consistent(s, held), np' = s, Held' = held, elastic' = elastic
  PROVE  Consistent(np, Held)'
BY DEF Consistent, InelasticNatural, Carried, Fits, Fixed, Balanced, Idle, CallsElastic

LEMMA EntryStep ==
  ASSUME IInv, NEW f \in Flows, NEW action \in {"Srt", "Chg", "End"}, NEW rate \in Nat,
         action = "Srt" <=> f \notin running, action = "End" => rate = 0,
         FlowEntry(f, action, rate)
  PROVE  IInv' /\ Undisturbed
<1> DEFINE asked == [np EXCEPT !.request = [np.request EXCEPT ![f] = rate]]
           built == IF action = "Srt" THEN BuildFlow(asked, f) ELSE asked
           established == EstablishFlowRate(built, f, rate, FlowRoute[f])
<1>1. /\ TypeOK /\ Consistent(np, Held) /\ entry = NoEntry
      /\ elastic' = elastic /\ running' = running
  BY DEF IInv, FlowEntry
<1>2. np.calls = << >> /\ Held = running /\ running \in SUBSET Flows
  BY <1>1, NoEntryFacts
<1>3. np \in PortalType /\ elastic \in ElasticSets
  BY <1>1 DEF TypeOK
<1>4. /\ asked \in PortalType /\ asked.load = np.load /\ asked.lambda = np.lambda
      /\ asked.accepted = np.accepted /\ asked.calls = np.calls
  BY <1>3, AskedType
<1>5. \/ established = Absent /\ np' = built /\ entry' = NoEntry
      \/ established # Absent /\ np' = established /\ entry' = [flow |-> f, action |-> action]
  BY DEF FlowEntry
<1> HIDE DEF asked
<1>6. Consistent(asked, running)
  BY <1>1, <1>2, <1>4, RequestFree
<1>7. /\ Consistent(built, running) /\ built.calls = << >>
      /\ \A a \in Sides : \A x \in Flows : x # f \/ f \in running => built.load[a][x] = np.load[a][x]
      /\ f \notin elastic => \A a \in FlowSides(f) : built.load[a][f] # Absent
  <2>1. CASE action = "Srt"
    <3>1. /\ built \in PortalType /\ built.load = SetAlongRoute(asked.load, f, 0)
          /\ built.lambda = asked.lambda
          /\ built.accepted = asked.accepted /\ built.calls = asked.calls
          /\ \A a \in FlowSides(f) : built.load[a][f] = 0
          /\ \A a \in Sides : \A x \in Flows \ {f} : built.load[a][x] = asked.load[a][x]
      BY <1>4, <2>1, BuiltType
    <3> HIDE DEF built
    <3>2. elastic = {} => \A a \in FlowSides(f) : asked.load[a][f] \in {0, Absent}
      <4>1. FlowSides(f) \subseteq Sides
        BY RouteFacts
      <4>2. QED
        BY <1>6, <2>1, <4>1 DEF Consistent, Idle
    <3>3. Consistent(built, running \ {f})
      BY <1>2, <1>6, <3>1, <3>2, ZeroKeeps
    <3>4. running \ {f} = running
      BY <2>1
    <3>5. QED
      BY <1>2, <1>4, <2>1, <3>1, <3>3, <3>4, Numbers
  <2>2. CASE action # "Srt"
    <3>1. built = asked
      BY <2>2
    <3>2. f \notin elastic => \A a \in FlowSides(f) : asked.load[a][f] # Absent
      BY <1>6, <2>2, Numbers DEF Consistent, Carried
    <3>3. QED
      BY <1>2, <1>4, <1>6, <3>1, <3>2
  <2>3. QED
    BY <2>1, <2>2
<1> HIDE DEF built
<1>8. rate \in Values /\ built \in PortalType
  BY <1>7, Numbers DEF Consistent
<1>9. CASE established = Absent
  <2>1. np' = built /\ entry' = NoEntry
    BY <1>5, <1>9
  <2>2. TypeOK'
    BY <1>1, <1>2, <1>3, <1>7, <1>8, <2>1 DEF TypeOK
  <2>3. Held' = running /\ EndingAtZero'
    <3>1. entry'.flow = Absent
      BY <2>1 DEF NoEntry
    <3>2. QED
      BY <1>1, <1>2, <3>1, Numbers DEF Held, EndingAtZero
  <2>4. Consistent(np, Held)'
    BY <1>1, <1>7, <2>1, <2>3, ConsistentNext
  <2>5. Undisturbed
    BY <1>2, <1>7, <2>1 DEF Undisturbed
  <2>6. QED
    BY <2>2, <2>3, <2>4, <2>5 DEF IInv
<1>10. CASE established # Absent
  <2>1. np' = established /\ entry' = [flow |-> f, action |-> action]
    BY <1>5, <1>10
  <2>2. Establishes(established, built, f, rate, f)
    BY <1>8, <1>10, EstablishFacts
  <2> HIDE DEF established
  <2>3. /\ established \in PortalType /\ Len(established.calls) = Len(built.calls) + 1
        /\ \A a \in Sides : \A x \in Flows \ {f} : established.load[a][x] = built.load[a][x]
    BY <1>8, <2>2, EstablishedType
  <2>4. /\ Consistent(established, running \cup {f})
        /\ f \notin elastic => established.accepted[f] = rate
    BY <1>2, <1>7, <1>8, <2>2, EstablishKeeps
  <2>5. established.calls # << >>
    <3>1. Len(built.calls) = 0
      BY <1>7
    <3>2. Len(established.calls) = 1
      BY <2>3, <3>1
    <3>3. QED
      BY <3>2
  <2>6. entry' \in [flow : Flows, action : {"Srt", "Chg", "End"}] /\ entry'.flow = f /\ entry' # NoEntry
    BY <2>1, Numbers DEF NoEntry
  <2>7. TypeOK'
    BY <1>1, <1>2, <1>3, <2>1, <2>3, <2>5, <2>6 DEF TypeOK
  <2>8. Held' = running \cup {f} /\ EndingAtZero'
    BY <1>1, <1>2, <2>1, <2>4, <2>6 DEF Held, EndingAtZero
  <2>9. Consistent(np, Held)'
    BY <1>1, <2>1, <2>4, <2>8, ConsistentNext
  <2>10. Undisturbed
    BY <1>2, <1>7, <2>1, <2>3, <2>6 DEF Undisturbed
  <2>11. QED
    BY <2>7, <2>8, <2>9, <2>10 DEF IInv
<1>11. QED
  BY <1>9, <1>10

LEMMA CallsOver ==
  ASSUME NEW s \in PortalType, NEW t, t = [s EXCEPT !.calls = << >>]
  PROVE  /\ t \in PortalType /\ t.load = s.load /\ t.lambda = s.lambda
         /\ t.accepted = s.accepted /\ t.calls = << >>
<1>1. << >> \in Seq([Flows -> Values \cup {Absent}])
  OBVIOUS
<1>2. PICK c \in Seq([Flows -> Values \cup {Absent}]) : c = << >>
  BY <1>1
<1>3. t = [s EXCEPT !.calls = c]
  BY <1>2
<1>4. t \in PortalType /\ t.load = s.load /\ t.lambda = s.lambda /\ t.accepted = s.accepted /\ t.calls = c
  BY <1>3 DEF PortalType
<1>5. QED
  BY <1>2, <1>4

\* With elastic flows about, fewer flows held is less to keep.
LEMMA FewerHeld ==
  ASSUME NEW s, NEW held, NEW fewer, Consistent(s, held), fewer \subseteq held, elastic # {}
  PROVE  Consistent(s, fewer)
BY DEF Consistent, Carried

\* A call of EstablishFlowRate under way belongs to the entry in progress.
LEMMA CallFacts ==
  ASSUME TypeOK, np.calls # << >>
  PROVE  /\ np \in PortalType /\ running \in SUBSET Flows
         /\ entry.flow \in Flows /\ Held = running \cup {entry.flow}
         /\ np.calls \in Seq(Rates) /\ Len(np.calls) \in Nat /\ Len(np.calls) >= 1
         /\ np.calls[Len(np.calls)] \in Rates
<1>1. entry \in [flow : Flows, action : {"Srt", "Chg", "End"}]
  BY DEF TypeOK
<1>2. np \in PortalType /\ running \in SUBSET Flows
  BY DEF TypeOK
<1>3. np.calls \in Seq(Rates)
  BY <1>2, PortalFields
<1>4. Len(np.calls) \in Nat /\ Len(np.calls) >= 1
  BY <1>3
<1>5. QED
  BY <1>1, <1>2, <1>3, <1>4 DEF Held

LEMMA RevisitStep ==
  ASSUME IInv, NEW x \in Flows, Revisit(x)
  PROVE  IInv' /\ Undisturbed
<1> DEFINE n == Len(np.calls)
           rq == MinOf(np.calls[n][x], At(np.request, x))
           c == [np.calls EXCEPT ![n] = [np.calls[n] EXCEPT ![x] = Absent]]
           left == [np EXCEPT !.calls = c]
           established == EstablishFlowRate(left, x, rq, FlowRoute[entry.flow])
           over == [left EXCEPT !.calls = << >>]
<1>1. /\ TypeOK /\ Consistent(np, Held) /\ np.calls # << >>
      /\ elastic' = elastic /\ running' = running
  BY DEF IInv, Revisit
<1>2. /\ np \in PortalType /\ running \in SUBSET Flows
      /\ entry.flow \in Flows /\ Held = running \cup {entry.flow}
      /\ np.calls \in Seq(Rates) /\ n \in Nat /\ n >= 1 /\ np.calls[n] \in Rates
  BY <1>1, CallFacts
<1>3. np.calls[n][x] # Absent
  BY DEF Revisit, Last
<1>4. \/ established = Absent /\ np' = over /\ entry' = NoEntry
      \/ established # Absent /\ np' = established /\ entry' = entry
  BY DEF Revisit
<1>5. x \in elastic
  BY <1>1, <1>2, <1>3 DEF Consistent, CallsElastic
<1>6. rq \in Values
  <2>1. np.request \in Rates
    BY <1>2, PortalFields
  <2>2. np.calls[n][x] \in Values
    BY <1>2, <1>3 DEF Rates
  <2>3. QED
    BY <2>1, <2>2, AtValue, MinOfValue
<1>7. /\ c \in Seq(Rates)
      /\ \A i \in DOMAIN c : \A y \in Flows : c[i][y] # Absent => y \in elastic
  <2>1. [np.calls[n] EXCEPT ![x] = Absent] \in Rates
    BY <1>2 DEF Rates
  <2>2. c \in Seq(Rates)
    BY <1>2, <2>1
  <2>3. \A i \in 1..n : \A y \in Flows : np.calls[i][y] # Absent => y \in elastic
    BY <1>1, <1>2 DEF Consistent, CallsElastic
  <2>4. \A y \in Flows : [np.calls[n] EXCEPT ![x] = Absent][y] # Absent => np.calls[n][y] # Absent
    BY <1>2 DEF Rates
  <2>5. QED
    BY <1>2, <2>2, <2>3, <2>4
<1> HIDE DEF c, rq, n
<1>8. /\ left \in PortalType /\ left.load = np.load /\ left.lambda = np.lambda
      /\ left.accepted = np.accepted /\ left.calls = c
  BY <1>2, <1>7 DEF PortalType, Rates
<1>9. /\ over \in PortalType /\ over.load = np.load /\ over.lambda = np.lambda
      /\ over.accepted = np.accepted /\ over.calls = << >>
  <2> HIDE DEF left
  <2>1. QED
    BY <1>8, CallsOver
<1> HIDE DEF left, over
<1>10. Consistent(left, Held)
  BY <1>1, <1>7, <1>8, RequestFree
<1>11. Consistent(over, running)
  <2>1. \A i \in DOMAIN over.calls : FALSE
    BY <1>9
  <2>2. Consistent(over, Held)
    BY <1>1, <1>9, <2>1, RequestFree
  <2>3. QED
    BY <1>2, <1>5, <2>2, FewerHeld
<1>12. CASE established = Absent
  <2>1. np' = over /\ entry' = NoEntry /\ entry'.flow = Absent
    BY <1>4, <1>12 DEF NoEntry
  <2>2. TypeOK'
    BY <1>1, <1>2, <1>9, <2>1 DEF TypeOK
  <2>3. Held' = running /\ EndingAtZero'
    BY <1>1, <1>2, <2>1, Numbers DEF Held, EndingAtZero
  <2>4. Consistent(np, Held)'
    BY <1>1, <1>11, <2>1, <2>3, ConsistentNext
  <2>5. Undisturbed
    BY <1>9, <2>1 DEF Undisturbed
  <2>6. QED
    BY <2>2, <2>3, <2>4, <2>5 DEF IInv
<1>13. CASE established # Absent
  <2>1. np' = established /\ entry' = entry
    BY <1>4, <1>13
  <2>2. Establishes(established, left, x, rq, entry.flow)
    BY <1>2, <1>6, <1>8, <1>13, EstablishFacts
  <2> HIDE DEF established
  <2>3. /\ established \in PortalType /\ Len(established.calls) = Len(c) + 1
        /\ \A y \in Flows \ {x} : /\ established.accepted[y] = np.accepted[y]
                                  /\ \A a \in Sides : established.load[a][y] = np.load[a][y]
    BY <1>2, <1>6, <1>8, <2>2, EstablishedType
  <2>4. Consistent(established, Held \cup {x})
    BY <1>2, <1>5, <1>6, <1>10, <2>2, EstablishKeeps
  <2>5. Consistent(established, Held)
    BY <1>5, <2>4, FewerHeld
  <2>6. established.calls # << >>
    <3>1. Len(c) \in Nat
      BY <1>7
    <3>2. Len(established.calls) # 0
      BY <2>3, <3>1
    <3>3. QED
      BY <3>2
  <2>7. TypeOK'
    BY <1>1, <1>2, <2>1, <2>3, <2>6 DEF TypeOK
  <2>8. Held' = Held
    BY <1>1, <2>1 DEF Held
  <2>9. EndingAtZero'
    BY <1>1, <1>5, <2>1, <2>3 DEF EndingAtZero, IInv
  <2>10. Consistent(np, Held)'
    BY <1>1, <2>1, <2>5, <2>8, ConsistentNext
  <2>11. Undisturbed
    BY <1>2, <1>5, <2>1, <2>3 DEF Undisturbed
  <2>12. QED
    BY <2>7, <2>9, <2>10, <2>11 DEF IInv
<1>14. QED
  BY <1>12, <1>13

LEMMA ReturnStep ==
  ASSUME IInv, ReturnToCaller
  PROVE  IInv' /\ Undisturbed
<1> DEFINE c == Front(np.calls)
<1>1. /\ TypeOK /\ Consistent(np, Held) /\ np.calls # << >> /\ Len(np.calls) > 1
      /\ np' = [np EXCEPT !.calls = c]
      /\ elastic' = elastic /\ entry' = entry /\ running' = running
  BY DEF IInv, ReturnToCaller, CallDone
<1>2. np \in PortalType /\ np.calls \in Seq(Rates)
  BY <1>1, CallFacts
<1>3. /\ c \in Seq(Rates) /\ c # << >>
      /\ \A i \in DOMAIN c : i \in DOMAIN np.calls /\ c[i] = np.calls[i]
  <2>1. PICK q \in Seq(Rates) : q = np.calls
    BY <1>2
  <2>2. c = SubSeq(q, 1, Len(q) - 1) /\ Len(q) \in Nat /\ Len(q) > 1
    BY <1>1, <2>1 DEF Front
  <2> HIDE DEF c
  <2>3. \A i \in 1..(Len(q) - 1) : i \in 1..Len(q) /\ q[i] \in Rates
    BY <2>2
  <2>4. c \in Seq(Rates) /\ Len(c) = Len(q) - 1 /\ \A i \in 1..(Len(q) - 1) : c[i] = q[i]
    BY <2>2, <2>3
  <2>5. DOMAIN c = 1..(Len(q) - 1) /\ c # << >>
    <3>1. Len(c) # 0
      BY <2>2, <2>4
    <3>2. c # << >>
      BY <3>1
    <3>3. QED
      BY <2>2, <2>4, <3>2
  <2>6. QED
    BY <2>1, <2>3, <2>4, <2>5
<1> HIDE DEF c
<1>4. /\ np' \in PortalType /\ np'.load = np.load /\ np'.lambda = np.lambda
      /\ np'.accepted = np.accepted /\ np'.calls = c
  BY <1>1, <1>2, <1>3 DEF PortalType, Rates
<1>5. \A i \in DOMAIN c : \A x \in Flows : c[i][x] # Absent => x \in elastic
  BY <1>1, <1>3 DEF Consistent, CallsElastic
<1>6. PICK t \in PortalType : t = np'
  BY <1>4
<1>7. Consistent(t, Held)
  BY <1>1, <1>4, <1>5, <1>6, RequestFree
<1>8. Held' = Held
  BY <1>1 DEF Held
<1>9. Consistent(np, Held)'
  BY <1>1, <1>6, <1>7, <1>8, ConsistentNext
<1>10. TypeOK'
  <2>1. np'.calls # << >>
    BY <1>3, <1>4
  <2>2. QED
    BY <1>1, <1>4, <2>1 DEF TypeOK
<1>11. EndingAtZero'
  BY <1>1, <1>4 DEF IInv, EndingAtZero
<1>12. Undisturbed
  BY <1>4 DEF Undisturbed
<1>13. QED
  BY <1>9, <1>10, <1>11, <1>12 DEF IInv

Removed(t, s, f) ==
  /\ t \in PortalType /\ t.load = SetAlongRoute(s.load, f, Absent) /\ t.lambda = s.lambda
  /\ t.calls = s.calls
  /\ \A x \in Flows \ {f} : /\ t.accepted[x] = s.accepted[x]
                            /\ \A a \in Sides : t.load[a][x] = s.load[a][x]

LEMMA RemovedType ==
  ASSUME NEW s \in PortalType, NEW f \in Flows, NEW t, t = RmFlow(s, f)
  PROVE  Removed(t, s, f)
<1>1. /\ s.load \in [Sides -> Rates] /\ \A a \in Sides : s.load[a] \in Rates
      /\ s.accepted \in Rates /\ s.request \in [Flows -> Nat \cup {Absent}]
  BY PortalFields
<1>2. PICK load : load = SetAlongRoute(s.load, f, Absent)
  OBVIOUS
<1>3. load = [a \in Sides |-> IF a \in FlowSides(f) THEN [s.load[a] EXCEPT ![f] = Absent]
                                                    ELSE s.load[a]]
  BY <1>1, <1>2, AlongRoute
<1>4. load \in [Sides -> Rates]
  <2>1. \A a \in Sides : [s.load[a] EXCEPT ![f] = Absent] \in Rates
    BY <1>1 DEF Rates
  <2>2. QED
    BY <1>1, <1>3, <2>1
<1>5. PICK request \in [Flows -> Nat \cup {Absent}] : request = [s.request EXCEPT ![f] = Absent]
  BY <1>1
<1>6. PICK accepted \in Rates : accepted = [s.accepted EXCEPT ![f] = Absent]
  BY <1>1 DEF Rates
<1>7. t = [s EXCEPT !.load = load, !.request = request, !.accepted = accepted]
  BY <1>2, <1>5, <1>6 DEF RmFlow
<1>8. /\ t \in PortalType /\ t.load = load /\ t.lambda = s.lambda
      /\ t.accepted = accepted /\ t.calls = s.calls
  BY <1>4, <1>7 DEF PortalType, Rates
<1>9. \A x \in Flows \ {f} : /\ t.accepted[x] = s.accepted[x]
                             /\ \A a \in Sides : t.load[a][x] = s.load[a][x]
  BY <1>1, <1>3, <1>6, <1>8 DEF Rates
<1>10. QED
  BY <1>2, <1>8, <1>9 DEF Removed

LEMMA FinishStep ==
  ASSUME IInv, FinishEntry
  PROVE  IInv' /\ Undisturbed
<1> DEFINE s == [np EXCEPT !.calls = << >>]
           f == entry.flow
<1>1. /\ TypeOK /\ Consistent(np, Held) /\ np.calls # << >>
      /\ np' = (IF entry.action = "End" THEN RmFlow(s, f) ELSE s)
      /\ running' = (IF entry.action = "End" THEN running \ {f} ELSE running \cup {f})
      /\ elastic' = elastic /\ entry' = NoEntry /\ entry'.flow = Absent
  BY DEF IInv, FinishEntry, CallDone, NoEntry
<1>2. /\ np \in PortalType /\ running \in SUBSET Flows
      /\ f \in Flows /\ Held = running \cup {f} /\ Held \in SUBSET Flows
  BY <1>1, CallFacts
<1>3. /\ s \in PortalType /\ s.load = np.load /\ s.lambda = np.lambda
      /\ s.accepted = np.accepted /\ s.calls = << >>
  BY <1>2, CallsOver
<1> HIDE DEF s
<1>4. Consistent(s, Held)
  <2>1. \A i \in DOMAIN s.calls : FALSE
    BY <1>3
  <2>2. QED
    BY <1>1, <1>3, <2>1, RequestFree
<1>5. EndingAtZero'
  BY <1>1, Numbers DEF EndingAtZero
<1>6. Held' = running'
  BY <1>1, <1>2, Numbers DEF Held
<1>7. CASE entry.action = "End"
  <2>1. PICK t : t = RmFlow(s, f)
    OBVIOUS
  <2>2. /\ t \in PortalType /\ t.load = SetAlongRoute(s.load, f, Absent) /\ t.lambda = s.lambda
        /\ t.calls = s.calls
        /\ \A x \in Flows \ {f} : /\ t.accepted[x] = s.accepted[x]
                                  /\ \A a \in Sides : t.load[a][x] = s.load[a][x]
    <3>1. Removed(t, s, f)
      BY <1>2, <1>3, <2>1, RemovedType
    <3>2. QED
      BY <3>1 DEF Removed
  <2>3. elastic = {} => \A a \in FlowSides(f) : s.load[a][f] \in {0, Absent}
    <3>1. elastic = {} => s.accepted[f] = 0
      BY <1>2, <1>3, <1>7 DEF IInv, EndingAtZero
    <3>2. QED
      BY <1>2, <1>4, <3>1 DEF Consistent, Carried
  <2>4. Consistent(t, Held \ {f})
    BY <1>2, <1>4, <2>2, <2>3, ZeroKeeps
  <2>5. Held' = Held \ {f}
    BY <1>1, <1>2, <1>6, <1>7
  <2>6. Consistent(np, Held)'
    BY <1>1, <1>7, <2>1, <2>4, <2>5, ConsistentNext
  <2>7. TypeOK'
    BY <1>1, <1>2, <1>3, <1>7, <2>1, <2>2 DEF TypeOK
  <2>8. Undisturbed
    BY <1>1, <1>2, <1>3, <1>7, <2>1, <2>2 DEF Undisturbed
  <2>9. QED
    BY <1>5, <2>6, <2>7, <2>8 DEF IInv
<1>8. CASE entry.action # "End"
  <2>1. np' = s /\ Held' = Held
    BY <1>1, <1>2, <1>6, <1>8
  <2>2. Consistent(np, Held)'
    BY <1>1, <1>4, <2>1, ConsistentNext
  <2>3. TypeOK'
    BY <1>1, <1>2, <1>3, <1>8, <2>1 DEF TypeOK
  <2>4. Undisturbed
    BY <1>3, <2>1 DEF Undisturbed
  <2>5. QED
    BY <1>5, <2>2, <2>3, <2>4 DEF IInv
<1>9. QED
  BY <1>7, <1>8

LEMMA Initially ==
  ASSUME Init
  PROVE  IInv
<1>1. NoRates \in Rates /\ NoRates \in [Flows -> Nat \cup {Absent}] /\ \A f \in Flows : NoRates[f] = Absent
  BY DEF NoRates, Rates
<1>2. << >> \in Seq(Rates)
  OBVIOUS
<1>3. /\ np.load = [a \in Sides |-> NoRates] /\ np.lambda = [a \in Sides |-> 0]
      /\ np.request = NoRates /\ np.accepted = NoRates /\ np.calls = << >>
      /\ elastic \in ElasticSets /\ entry = NoEntry /\ entry.flow = Absent /\ running = {}
  BY DEF Init, NoEntry
<1>4. np \in PortalType
  <2>1. [a \in Sides |-> NoRates] \in [Sides -> Rates]
    BY <1>1
  <2>2. [a \in Sides |-> 0] \in [Sides -> Values]
    BY Numbers
  <2>3. PICK c \in Seq(Rates) : c = << >>
    BY <1>2
  <2>4. np = [load |-> [a \in Sides |-> NoRates], lambda |-> [a \in Sides |-> 0],
              request |-> NoRates, accepted |-> NoRates, calls |-> c]
    BY <2>3 DEF Init
  <2>5. QED
    BY <1>1, <2>1, <2>2, <2>4 DEF PortalType, Rates
<1>5. TypeOK
  BY <1>3, <1>4 DEF TypeOK
<1>6. Held = {} /\ EndingAtZero
  BY <1>3, Numbers DEF Held, EndingAtZero
<1>7. ASSUME NEW a \in Sides
      PROVE  /\ np.load[a] = NoRates /\ np.lambda[a] = 0 /\ Sum(NoRates) = 0 /\ Fixed(NoRates) = 0
  <2>1. Present(NoRates) = {}
    BY <1>1 DEF Present
  <2>2. Sum(NoRates) = Total(NoRates, {}) /\ Fixed(NoRates) = Total(NoRates, {})
    BY <2>1 DEF Sum, Fixed
  <2>3. QED
    BY <1>1, <1>3, <2>2, TotalFacts
<1>8. \A a \in Sides : a[1] \in Intrfcs
  <2>1. ASSUME NEW a \in Sides
        PROVE  a[1] \in Intrfcs
    <3>1. PICK f \in Flows :
            \/ \E i \in 1..Len(FlowRoute[f]) : a = <<FlowRoute[f][i].src, "egress">>
            \/ \E i \in 1..Len(FlowRoute[f]) : a = <<FlowRoute[f][i].dst, "ingress">>
      BY DEF Sides
    <3>2. PICK i \in 1..Len(FlowRoute[f]) : \/ a = <<FlowRoute[f][i].src, "egress">>
                                            \/ a = <<FlowRoute[f][i].dst, "ingress">>
      BY <3>1
    <3>3. FlowRoute[f] \in Seq([src : Intrfcs, dst : Intrfcs])
      BY FlowAssumption DEF FlowAssumption
    <3>4. \A X : \A q \in Seq(X) : \A j \in 1..Len(q) : q[j] \in X
      OBVIOUS
    <3>5. FlowRoute[f][i] \in [src : Intrfcs, dst : Intrfcs]
      BY <3>3, <3>4
    <3>6. QED
      BY <3>2, <3>5
  <2>2. QED
    BY <2>1
<1>9. Fits(np)
  BY <1>7, <1>8, Numbers, BandwidthFacts DEF Fits, AtMost
<1>10. InelasticNatural(np) /\ Carried(np, Held) /\ Idle(np, Held) /\ CallsElastic(np)
  BY <1>1, <1>3, <1>6, <1>7 DEF InelasticNatural, Carried, Idle, CallsElastic
<1>11. Balanced(np)
  BY <1>1, <1>7 DEF Balanced
<1>12. QED
  BY <1>4, <1>5, <1>6, <1>9, <1>10, <1>11 DEF IInv, Consistent

LEMMA StutterKeeps ==
  ASSUME IInv, UNCHANGED vars
  PROVE  IInv' /\ Undisturbed
<1>1. np' = np /\ entry' = entry /\ running' = running /\ elastic' = elastic
  BY DEF vars
<1>2. Consistent(np, Held)'
  BY <1>1, ConsistentNext DEF IInv, Held
<1>3. TypeOK' /\ EndingAtZero' /\ Undisturbed
  BY <1>1 DEF IInv, TypeOK, EndingAtZero, Undisturbed
<1>4. QED
  BY <1>2, <1>3 DEF IInv

LEMMA StepKeeps ==
  ASSUME IInv, [Next]_vars
  PROVE  IInv' /\ Undisturbed
<1>1. Requests \subseteq Nat
  BY FlowAssumption DEF FlowAssumption
<1>2. ASSUME NEW f \in Flows, NEW rate \in Requests, StartFlow(f, rate)
      PROVE  IInv' /\ Undisturbed
  BY <1>1, <1>2, EntryStep DEF StartFlow
<1>3. ASSUME NEW f \in Flows, NEW rate \in Requests, ChangeRate(f, rate)
      PROVE  IInv' /\ Undisturbed
  BY <1>1, <1>3, EntryStep DEF ChangeRate
<1>4. ASSUME NEW f \in Flows, EndFlow(f)
      PROVE  IInv' /\ Undisturbed
  BY <1>4, EntryStep DEF EndFlow
<1>5. ASSUME NEW f \in Flows, Revisit(f)
      PROVE  IInv' /\ Undisturbed
  BY <1>5, RevisitStep
<1>6. QED
  BY <1>2, <1>3, <1>4, <1>5, ReturnStep, FinishStep, StutterKeeps DEF Next

----------------------------------------------------------------------------
(* Theorems.                                                               *)

\* The inductive invariant holds, for any flows, routes and bandwidths, any set
\* of elastic flows, and at any depth of the recursion of EstablishFlowRate.
THEOREM Invariance == Spec => []IInv
<1>1. Init => IInv
  BY Initially
<1>2. IInv /\ [Next]_vars => IInv'
  BY StepKeeps
<1>3. QED
  BY <1>1, <1>2, PTL DEF Spec

\* Types, and calls are under way only while an entry is in progress.
THEOREM TypeCorrect == Spec => []TypeOK
<1>1. IInv => TypeOK
  BY DEF IInv
<1>2. QED
  BY <1>1, Invariance, PTL

\* Every side of the route of an established inelastic flow carries the accepted
\* rate, whatever was refused, at once or halfway, and whoever was squeezed.
THEOREM CarriedEndToEnd == Spec => []InelasticEndToEnd
<1>1. IInv => InelasticEndToEnd
  BY DEF IInv, TypeOK, Consistent, Carried, Held, InelasticEndToEnd
<1>2. QED
  BY <1>1, Invariance, PTL

\* Inelastic flows never reserve more than an interface has.
THEOREM NeverOverReserved == Spec => []ReservationsFit
<1>1. IInv => ReservationsFit
  BY DEF IInv, Consistent, Fits, ReservationsFit
<1>2. QED
  BY <1>1, Invariance, PTL

\* With inelastic flows only, the lambda of a side is the total of its rates.
THEOREM LambdaIsReserved == Spec => []ReservedLambda
<1>1. IInv => ReservedLambda
  BY DEF IInv, Consistent, Balanced, ReservedLambda
<1>2. QED
  BY <1>1, Invariance, PTL

\* Only the entry of an inelastic flow itself changes its rates.
THEOREM SqueezingSparesInelastic == Spec => InelasticUndisturbed
<1>1. IInv /\ [Next]_vars =>
        [\A f \in running \ elastic : \A s \in Sides :
           np'.load[s][f] = np.load[s][f] \/ f \in {entry.flow, entry'.flow}]_vars
  BY StepKeeps DEF Undisturbed
<1>2. QED
  BY <1>1, Invariance, PTL DEF Spec, InelasticUndisturbed
============================================================================
