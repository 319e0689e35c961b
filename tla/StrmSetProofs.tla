--------------------------- MODULE StrmSetProofs ---------------------------
(***************************************************************************)
(* Proofs about StrmSet: for any sources, rates, times and bounds.         *)
(***************************************************************************)
EXTENDS StrmSet, Iteration, FiniteSetTheorems, SequenceTheorems

----------------------------------------------------------------------------
(* The operators of the sampling.                                          *)

\* No more frames arrive in a slot than there are sources.
LEMMA SamplesBounded ==
  ASSUME NEW excluded
  PROVE  Samples(excluded) \subseteq 0..Cardinality(Srcs)
<1> DEFINE known == {s \in Srcs \ {excluded} : rate[s] # Absent}
<1>1. /\ Cardinality(known) \in Nat /\ Cardinality(Srcs) \in Nat
      /\ Cardinality(known) <= Cardinality(Srcs)
  <2>1. IsFiniteSet(Srcs) /\ known \in SUBSET Srcs
    BY StrmAssumption
  <2>2. IsFiniteSet(known) /\ Cardinality(known) <= Cardinality(Srcs)
    BY <2>1, FS_Subset
  <2>3. QED
    BY <2>1, <2>2, FS_CardinalityType
<1>2. \A reps \in SetToSeqs(known) : Len(reps) = Cardinality(known)
  BY <1>1 DEF SetToSeqs
<1>3. \A k \in Samples(excluded) : \E reps \in SetToSeqs(known) : k \in 0..Len(reps)
  BY DEF Samples
<1> HIDE DEF known
<1>4. QED
  BY <1>1, <1>2, <1>3

\* Queues of residual frames are natural numbers.
LEMMA BacklogsNatural ==
  ASSUME NEW n \in Nat, residual \in Nat
  PROVE  Backlogs(n) \subseteq Nat
<1> DEFINE served(q) == IF q > 0 THEN q - 1 ELSE 0
           slot(Q) == {served(q + a) : q \in Q, a \in Samples(0)}
           step == [Q \in SUBSET Nat |-> slot(Q)]
           Defines(f) == f = [k \in 0..n |-> IF k = 0 THEN {residual} ELSE slot(f[k - 1])]
<1>1. Samples(0) \subseteq Nat
  <2>1. Cardinality(Srcs) \in Nat
    BY StrmAssumption, FS_CardinalityType
  <2>2. QED
    BY <2>1, SamplesBounded
<1>2. step \in [SUBSET Nat -> SUBSET Nat]
  <2>1. ASSUME NEW Q \in SUBSET Nat
        PROVE  slot(Q) \in SUBSET Nat
    BY <1>1
  <2>2. QED
    BY <2>1
<1>3. {residual} \in SUBSET Nat
  OBVIOUS
<1>4. \A Q \in SUBSET Nat : step[Q] = slot(Q)
  OBVIOUS
<1> HIDE DEF step, slot
<1>5. PICK f : Iterates(f, SUBSET Nat, {residual}, step, n)
  BY <1>2, <1>3, IterationExists
<1>6. Defines(f)
  <2>1. f \in [0..n -> SUBSET Nat] /\ f[0] = {residual} /\ \A k \in 1..n : f[k] = step[f[k - 1]]
    BY <1>5 DEF Iterates
  <2>2. \A k \in 1..n : k - 1 \in 0..n
    OBVIOUS
  <2>3. \A k \in 1..n : f[k] = slot(f[k - 1])
    BY <1>4, <2>1, <2>2
  <2>4. \A k \in 0..n : k # 0 => k \in 1..n
    OBVIOUS
  <2>5. \A k \in 0..n : f[k] = IF k = 0 THEN {residual} ELSE slot(f[k - 1])
    BY <2>1, <2>3, <2>4
  <2>6. QED
    BY <2>1, <2>5
<1> DEFINE after == CHOOSE g : Defines(g)
<1>7. Defines(after)
  <2> HIDE DEF Defines
  <2>1. QED
    BY <1>6
<1>8. Backlogs(n) = after[n]
  BY DEF Backlogs, slot
<1> HIDE DEF after
<1> DEFINE P == {k \in 0..n : after[k] \in SUBSET Nat}
<1>9. 0 \in P
  BY <1>7
<1>10. \A k \in 0..(n - 1) : k \in P => k + 1 \in P
  <2> SUFFICES ASSUME NEW k \in 0..(n - 1), k \in P
               PROVE  k + 1 \in P
    OBVIOUS
  <2>1. k + 1 \in 0..n /\ k + 1 # 0 /\ (k + 1) - 1 = k
    OBVIOUS
  <2>2. after[k + 1] = slot(after[k])
    BY <1>7, <2>1
  <2>3. after[k] \in SUBSET Nat
    OBVIOUS
  <2>4. slot(after[k]) \in SUBSET Nat
    BY <1>2, <1>4, <2>3
  <2>5. QED
    BY <2>1, <2>2, <2>4
<1> HIDE DEF P
<1>11. 0..n \subseteq P
  BY <1>9, <1>10, BoundedInduction
<1>12. n \in 0..n
  OBVIOUS
<1>13. QED
  BY <1>8, <1>11, <1>12 DEF P

LEMMA SlotsNatural ==
  ASSUME NEW t \in Nat, clock \in Nat
  PROVE  SlotsBefore(t) \in Nat
<1>1. \A a \in Nat, b \in Nat \ {0} : a \div b \in Nat
  OBVIOUS
<1>2. Slot \in Nat \ {0}
  BY StrmAssumption
<1>3. clock < t => t - clock + Slot - 1 \in Nat
  BY <1>2
<1>4. QED
  BY <1>1, <1>2, <1>3 DEF SlotsBefore

\* A packet is served at its arrival or later, and what it leaves behind has
\* come in one slot.
LEMMA DelayFacts ==
  ASSUME NEW p, p.arrival \in Nat, clock \in Nat, residual \in Nat,
         NEW d \in QueueingDelay(p)
  PROVE  d.at \in Nat /\ d.behind \in 0..Cardinality(Srcs)
<1>1. PICK q \in Backlogs(SlotsBefore(p.arrival)), arrived \in Samples(p.src) :
        d \in {[at |-> p.arrival + Slot * (q + before), behind |-> arrived - before] : before \in 0..arrived}
  BY DEF QueueingDelay
<1>2. PICK before \in 0..arrived :
        d = [at |-> p.arrival + Slot * (q + before), behind |-> arrived - before]
  BY <1>1
<1>3. q \in Nat
  BY SlotsNatural, BacklogsNatural
<1>4. arrived \in 0..Cardinality(Srcs) /\ Cardinality(Srcs) \in Nat
  BY SamplesBounded, StrmAssumption, FS_CardinalityType
<1>5. \A a, b \in Nat : a * b \in Nat
  OBVIOUS
<1>6. Slot * (q + before) \in Nat
  BY <1>3, <1>4, <1>5, StrmAssumption
<1>7. d.at = p.arrival + Slot * (q + before) /\ d.behind = arrived - before
  BY <1>2
<1>8. QED
  BY <1>4, <1>6, <1>7

----------------------------------------------------------------------------
(* The inductive invariant.                                                *)

\* The types, without what TypeOK says of a pending entry.
Types ==
  /\ rate \in [Srcs -> 0..MaxRate \cup {Absent}] /\ active \in BOOLEAN /\ streaming \in BOOLEAN
  /\ clock \in Nat /\ residual \in 0..Cardinality(Srcs)
  /\ pckts \in 0..MaxPckts /\ now \in 0..Horizon

Packets(t) == [arrival : 0..t, src : Srcs, svc : FgTimes]

\* The clock of the stream set may be ahead of the time, but never of the end of
\* the service that the side is bound to give: the one under way, or that of the
\* head of the queue, which has its entry pending whenever the side is not busy.
SideOK ==
  /\ queue \in Seq(Packets(now))
  /\ entry \in Nat \cup {Never} /\ done \in Nat \cup {Never}
  /\ entry # Never => /\ queue # << >> /\ done = Never
                      /\ entry >= now /\ clock <= entry + Head(queue).svc
  /\ done # Never => done >= now /\ clock <= done
  /\ queue # << >> /\ done = Never => entry # Never
  /\ queue = << >> /\ done = Never => clock <= now

IInv == Types /\ SideOK

LEMMA Constants ==
  /\ MaxPckts \in Nat /\ Horizon \in Nat /\ MaxRate \in Nat
  /\ Rates \subseteq Nat /\ FgTimes \subseteq Nat
  /\ Cardinality(Srcs) \in Nat
  BY StrmAssumption, FS_CardinalityType

LEMMA Meaning ==
  ASSUME IInv
  PROVE  TypeOK /\ IdleClock
<1>1. TypeOK
  BY DEF IInv, Types, SideOK, TypeOK, Packets
<1>2. IdleClock
  BY DEF IInv, SideOK, IdleClock
<1>3. QED
  BY <1>1, <1>2

LEMMA InitIInv ==
  ASSUME Init
  PROVE  IInv
<1>1. Types
  <2>1. /\ clock \in Nat /\ residual \in 0..Cardinality(Srcs)
        /\ pckts \in 0..MaxPckts /\ now \in 0..Horizon
    BY Constants DEF Init
  <2>2. rate \in [Srcs -> 0..MaxRate \cup {Absent}]
    BY DEF Init
  <2>3. QED
    BY <2>1, <2>2 DEF Init, Types
<1>2. SideOK
  BY DEF Init, SideOK, Never
<1>3. QED
  BY <1>1, <1>2 DEF IInv

\* The head of a queue of packets.
LEMMA HeadFacts ==
  ASSUME NEW t \in Nat, NEW q \in Seq(Packets(t)), q # << >>
  PROVE  /\ Head(q).arrival \in Nat /\ Head(q).svc \in Nat
         /\ Tail(q) \in Seq(Packets(t))
<1>1. Head(q) \in Packets(t) /\ Tail(q) \in Seq(Packets(t))
  OBVIOUS
<1>2. \A p \in Packets(t) : p.arrival \in 0..t /\ p.svc \in FgTimes
  BY DEF Packets
<1>3. FgTimes \subseteq Nat
  BY Constants
<1>4. Head(q).arrival \in 0..t /\ Head(q).svc \in FgTimes
  BY <1>1, <1>2
<1>5. \A a \in 0..t : a \in Nat
  OBVIOUS
<1>6. QED
  BY <1>1, <1>3, <1>4, <1>5

\* The side after a packet has gone into service.
LEMMA InService ==
  ASSUME now \in Nat, NEW q \in Seq(Packets(now)), q # << >>, EnterService(q),
         clock' \in Nat, clock' <= now + Head(q).svc, now' = now
  PROVE  SideOK'
<1>1. Head(q).svc \in Nat /\ Tail(q) \in Seq(Packets(now))
  BY HeadFacts
<1>2. /\ queue' \in Seq(Packets(now')) /\ entry' = Never
      /\ done' = now + Head(q).svc /\ done' \in Nat /\ done' # Never
  BY <1>1 DEF EnterService, Never
<1>3. QED
  BY <1>1, <1>2 DEF SideOK

\* The next packet goes into service, or has its entry scheduled.
LEMMA NextServed ==
  ASSUME IInv, NEW q \in Seq(Packets(now)), q # << >>, NextToService(q),
         clock <= now, now' = now
  PROVE  SideOK' /\ clock' \in Nat /\ residual' \in 0..Cardinality(Srcs)
<1>1. /\ now \in Nat /\ clock \in Nat /\ residual \in 0..Cardinality(Srcs) /\ residual \in Nat
  BY Constants DEF IInv, Types
<1>2. Head(q).arrival \in Nat /\ Head(q).svc \in Nat
  BY <1>1, HeadFacts
<1>3. CASE ~ active
  <2>1. EnterService(q) /\ clock' = clock /\ residual' = residual
    BY <1>3 DEF NextToService, strm
  <2>2. SideOK'
    BY <1>1, <1>2, <2>1, InService
  <2>3. QED
    BY <1>1, <2>1, <2>2
<1>4. CASE active
  <2>1. PICK d \in QueueingDelay(Head(q)) :
          /\ clock' = d.at + Head(q).svc /\ residual' = d.behind
          /\ IF d.at > now THEN queue' = q /\ entry' = d.at /\ done' = Never
                           ELSE EnterService(q)
    BY <1>4 DEF NextToService, ClockAfter
  <2>2. d.at \in Nat /\ d.behind \in 0..Cardinality(Srcs)
    BY <1>1, <1>2, DelayFacts
  <2>3. clock' \in Nat /\ residual' \in 0..Cardinality(Srcs)
    BY <1>2, <2>1, <2>2
  <2>4. CASE d.at > now
    <3>1. queue' = q /\ entry' = d.at /\ done' = Never
      BY <2>1, <2>4
    <3>2. entry' # Never
      BY <2>2, <3>1 DEF Never
    <3>3. SideOK'
      BY <1>1, <1>2, <2>1, <2>2, <2>4, <3>1, <3>2 DEF SideOK
    <3>4. QED
      BY <2>3, <3>3
  <2>5. CASE ~ (d.at > now)
    <3>1. EnterService(q) /\ clock' <= now + Head(q).svc
      BY <1>1, <1>2, <2>1, <2>2, <2>5
    <3>2. SideOK'
      BY <1>1, <2>3, <3>1, InService
    <3>3. QED
      BY <2>3, <3>2
  <2>6. QED
    BY <2>4, <2>5
<1>5. QED
  BY <1>3, <1>4

----------------------------------------------------------------------------
(* The steps.                                                              *)

\* A packet that arrives.
LEMMA ArriveInv ==
  ASSUME IInv, NEW src \in Srcs, NEW svc \in FgTimes, Arrive(src, svc)
  PROVE  IInv'
<1> DEFINE p == [arrival |-> now, src |-> src, svc |-> svc]
           q == Append(queue, p)
<1>1. /\ now \in Nat /\ clock \in Nat /\ residual \in 0..Cardinality(Srcs)
      /\ queue \in Seq(Packets(now))
  BY Constants DEF IInv, Types, SideOK
<1>2. /\ pckts' = pckts + 1 /\ pckts < MaxPckts /\ now' = now /\ AddNetworkMsg(p)
      /\ UNCHANGED <<rate, active, streaming>>
  BY DEF Arrive
<1>3. p \in Packets(now)
  BY <1>1 DEF Packets
<1> HIDE DEF p
<1>4. /\ q \in Seq(Packets(now)) /\ q # << >>
      /\ queue # << >> => Head(q) = Head(queue)
      /\ Len(q) > 1 <=> queue # << >>
  <2>1. q \in Seq(Packets(now)) /\ Len(q) = Len(queue) + 1 /\ Len(queue) \in Nat
    BY <1>1, <1>3
  <2>2. queue # << >> <=> Len(queue) > 0
    BY <1>1
  <2>3. Head(q) = IF queue = << >> THEN p ELSE Head(queue)
    BY <1>1, HeadTailAppend
  <2>4. q # << >>
    BY <2>1
  <2> HIDE DEF q
  <2>5. QED
    BY <2>1, <2>2, <2>3, <2>4
<1>5. AddNetworkMsg(p) <=>
        IF done # Never \/ Len(q) > 1
        THEN queue' = q /\ UNCHANGED <<entry, done, strm>>
        ELSE IF streaming THEN NextToService(q)
        ELSE EnterService(q) /\ UNCHANGED strm
  BY DEF AddNetworkMsg
<1> HIDE DEF q
<1>6. SideOK' /\ clock' \in Nat /\ residual' \in 0..Cardinality(Srcs)
  <2>1. CASE done # Never \/ queue # << >>
    <3>1. queue' = q /\ UNCHANGED <<entry, done, clock, residual>>
      BY <1>2, <1>4, <1>5, <2>1 DEF strm
    <3>2. queue' \in Seq(Packets(now')) /\ queue' # << >>
      BY <1>2, <1>4, <3>1
    <3>3. /\ entry \in Nat \cup {Never} /\ done \in Nat \cup {Never}
          /\ entry # Never => /\ queue # << >> /\ done = Never
                              /\ entry >= now /\ clock <= entry + Head(queue).svc
          /\ done # Never => done >= now /\ clock <= done
          /\ queue # << >> /\ done = Never => entry # Never
      BY DEF IInv, SideOK
    <3>4. entry # Never => clock <= entry + Head(q).svc
      BY <1>4, <3>3
    <3>5. SideOK'
      BY <1>2, <2>1, <3>1, <3>2, <3>3, <3>4 DEF SideOK
    <3>6. QED
      BY <1>1, <3>1, <3>5
  <2>2. CASE done = Never /\ queue = << >>
    <3>1. clock <= now
      BY <2>2 DEF IInv, SideOK
    <3>2. CASE streaming
      <4>1. NextToService(q)
        BY <1>2, <1>4, <1>5, <2>2, <3>2
      <4>2. QED
        BY <1>2, <1>4, <3>1, <4>1, NextServed
    <3>3. CASE ~ streaming
      <4>1. EnterService(q) /\ clock' = clock /\ residual' = residual
        BY <1>2, <1>4, <1>5, <2>2, <3>3 DEF strm
      <4>2. Head(q).svc \in Nat
        BY <1>1, <1>4, HeadFacts
      <4>3. SideOK'
        BY <1>1, <1>2, <1>4, <3>1, <4>1, <4>2, InService
      <4>4. QED
        BY <1>1, <4>1, <4>3
    <3>4. QED
      BY <3>2, <3>3
  <2>3. QED
    BY <2>1, <2>2
<1>7. Types'
  BY <1>2, <1>6, Constants DEF IInv, Types
<1>8. QED
  BY <1>6, <1>7 DEF IInv

\* Steps that leave the rates alone.
LEMMA EnterIntrfcServiceInv ==
  ASSUME IInv, EnterIntrfcService
  PROVE  IInv'
<1>1. /\ now \in Nat /\ clock \in Nat /\ queue \in Seq(Packets(now))
      /\ entry = now /\ EnterService(queue)
      /\ UNCHANGED <<rate, active, streaming, clock, residual, pckts, now>>
  BY Constants DEF IInv, Types, SideOK, EnterIntrfcService, strm
<1>2. queue # << >> /\ clock <= now + Head(queue).svc
  BY <1>1 DEF IInv, SideOK, Never
<1>3. SideOK'
  BY <1>1, <1>2, InService
<1>4. Types'
  BY <1>1 DEF IInv, Types
<1>5. QED
  BY <1>3, <1>4 DEF IInv

LEMMA ExitIntrfcInv ==
  ASSUME IInv, ExitIntrfc
  PROVE  IInv'
<1>1. /\ now \in Nat /\ clock \in Nat /\ queue \in Seq(Packets(now)) /\ done = now
      /\ residual \in 0..Cardinality(Srcs)
      /\ UNCHANGED <<rate, active, streaming, pckts, now>>
  BY Constants DEF IInv, Types, SideOK, ExitIntrfc
<1>2. clock <= now /\ entry = Never
  BY <1>1 DEF IInv, SideOK, Never
<1>3. SideOK' /\ clock' \in Nat /\ residual' \in 0..Cardinality(Srcs)
  <2>1. CASE queue = << >>
    <3>1. done' = Never /\ UNCHANGED <<queue, entry, clock, residual>>
      BY <2>1 DEF ExitIntrfc, strm
    <3>2. SideOK'
      BY <1>1, <1>2, <2>1, <3>1 DEF SideOK
    <3>3. QED
      BY <1>1, <3>1, <3>2
  <2>2. CASE queue # << >>
    <3>1. NextToService(queue)
      BY <2>2 DEF ExitIntrfc
    <3>2. QED
      BY <1>1, <1>2, <2>2, <3>1, NextServed
  <2>3. QED
    BY <2>1, <2>2
<1>4. Types'
  BY <1>1, <1>3 DEF IInv, Types
<1>5. QED
  BY <1>3, <1>4 DEF IInv

\* Rates do not touch the side.
LEMMA RatesInv ==
  ASSUME IInv,
         (\E src \in Srcs, r \in Rates : AdjustStrmRate(src, r)) \/ PushStrmServiceTimes
  PROVE  IInv'
<1>1. UNCHANGED <<clock, residual, queue, entry, done, pckts, now>>
  BY DEF AdjustStrmRate, PushStrmServiceTimes, strm, side
<1>2. SideOK'
  BY <1>1 DEF IInv, SideOK
<1>3. /\ rate' \in [Srcs -> 0..MaxRate \cup {Absent}]
      /\ active' \in BOOLEAN /\ streaming' \in BOOLEAN
  <2>1. CASE PushStrmServiceTimes
    BY <2>1 DEF IInv, Types, PushStrmServiceTimes
  <2>2. CASE \E src \in Srcs, r \in Rates : AdjustStrmRate(src, r)
    <3>1. PICK src \in Srcs, r \in Rates : AdjustStrmRate(src, r)
      BY <2>2
    <3> DEFINE before == IF rate[src] = Absent THEN 0 ELSE rate[src]
    <3>2. before + r \in 0..MaxRate
      <4>1. rate[src] \in 0..MaxRate \cup {Absent}
        BY DEF IInv, Types
      <4>2. before \in Nat /\ r \in Nat
        BY <4>1, Constants
      <4>3. before + r <= MaxRate
        BY <3>1 DEF AdjustStrmRate
      <4>4. QED
        BY <4>2, <4>3, Constants
    <3>3. rate' = [rate EXCEPT ![src] = before + r]
      BY <3>1 DEF AdjustStrmRate
    <3>4. /\ rate \in [Srcs -> 0..MaxRate \cup {Absent}]
          /\ active \in BOOLEAN /\ streaming \in BOOLEAN
      BY DEF IInv, Types
    <3>5. streaming' = streaming /\ active' \in BOOLEAN
      BY <3>1, <3>4 DEF AdjustStrmRate
    <3> HIDE DEF before
    <3>6. QED
      BY <3>2, <3>3, <3>4, <3>5
  <2>3. QED
    BY <2>1, <2>2
<1>4. Types'
  BY <1>1, <1>3 DEF IInv, Types
<1>5. QED
  BY <1>2, <1>4 DEF IInv

\* Time passes while nothing is due.
LEMMA TickInv ==
  ASSUME IInv, Tick
  PROVE  IInv'
<1>1. /\ now \in Nat /\ now < Horizon /\ now' = now + 1 /\ entry # now /\ done # now
      /\ UNCHANGED <<rate, active, streaming, clock, residual, queue, entry, done, pckts>>
  BY Constants DEF IInv, Types, Tick, strm, side
<1>2. Types'
  BY <1>1, Constants DEF IInv, Types
<1>3. queue \in Seq(Packets(now + 1))
  <2>1. Packets(now) \subseteq Packets(now + 1)
    BY <1>1 DEF Packets
  <2>2. queue \in Seq(Packets(now))
    BY DEF IInv, SideOK
  <2>3. QED
    BY <2>1, <2>2
<1>4. clock \in Nat
  BY DEF IInv, Types
<1>5. SideOK'
  BY <1>1, <1>3, <1>4 DEF IInv, SideOK
<1>6. QED
  BY <1>2, <1>5 DEF IInv

LEMMA StepIInv ==
  ASSUME IInv, [Next]_vars
  PROVE  IInv'
<1>1. CASE \E src \in Srcs, svc \in FgTimes : Arrive(src, svc)
  BY <1>1, ArriveInv
<1>2. CASE EnterIntrfcService
  BY <1>2, EnterIntrfcServiceInv
<1>3. CASE ExitIntrfc
  BY <1>3, ExitIntrfcInv
<1>4. CASE (\E src \in Srcs, r \in Rates : AdjustStrmRate(src, r)) \/ PushStrmServiceTimes
  BY <1>4, RatesInv
<1>5. CASE Tick
  BY <1>5, TickInv
<1>6. CASE UNCHANGED vars
  <2>1. UNCHANGED <<rate, active, streaming, clock, residual, queue, entry, done, pckts, now>>
    BY <1>6 DEF vars, strm, side
  <2>2. Types' /\ SideOK'
    BY <2>1 DEF IInv, Types, SideOK
  <2>3. QED
    BY <2>2 DEF IInv
<1>7. QED
  BY <1>1, <1>2, <1>3, <1>4, <1>5, <1>6 DEF Next

----------------------------------------------------------------------------
(* The theorems.                                                           *)

\* The inductive invariant holds in every reachable state.
THEOREM Invariance == Spec => []IInv
<1>1. Init => IInv
  BY InitIInv
<1>2. IInv /\ [Next]_vars => IInv'
  BY StepIInv
<1>3. QED
  BY <1>1, <1>2, PTL DEF Spec

\* The state of the side and of its stream set keeps its type, whatever the
\* samples: no draw leaves behind more frames than there are sources, and an
\* entry is pending only for a packet that waits before an idle side.
THEOREM TypeCorrect == Spec => []TypeOK
<1>1. IInv => TypeOK
  BY Meaning
<1>2. QED
  BY <1>1, Invariance, PTL

\* Whenever the side is idle the clock of its stream set is not ahead of the
\* time, although queueingDelay moves it past services still to come.
THEOREM ClockIdle == Spec => []IdleClock
<1>1. IInv => IdleClock
  BY Meaning
<1>2. QED
  BY <1>1, Invariance, PTL
============================================================================
