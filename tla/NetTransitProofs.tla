-------------------------- MODULE NetTransitProofs --------------------------
(***************************************************************************)
(* Proofs about NetTransit, for every set of interfaces, routes and        *)
(* connections.  What one side of an interface may do is a matter of its   *)
(* own record: the lemmas about addNetworkMsg, enterIntrfcService and      *)
(* schedNxtMsgToIntrfc say what they preserve of it, and the handlers join *)
(* that with where each frame is.                                          *)
(***************************************************************************)
EXTENDS NetTransit, FiniteSetTheorems, SequenceTheorems, TLAPS

----------------------------------------------------------------------------
(* The inductive invariant.                                                *)

HeldIn(d) == Range(d.queue) \cup d.leaving

\* What a handler leaves of a side: at most one frame in service, a head that
\* waits only with an event that fetches it, no frame twice.
SideOK(d) ==
  /\ d \in SideType
  /\ d.transit => d.entering = {} /\ \E f \in Frames : d.leaving = {f}
  /\ ~ d.transit => d.leaving = {}
  /\ d.entering # {} => d.queue # << >> /\ d.entering = {Head(d.queue)}
  /\ d.queue # << >> => d.transit \/ d.entering # {}
  /\ IsInjective(d.queue)
  /\ Range(d.queue) \cap d.leaving = {}

\* A side whose head may start service.
Ready(d) ==
  /\ d \in SideType
  /\ ~ d.transit /\ d.leaving = {} /\ d.entering = {}
  /\ d.queue # << >>
  /\ IsInjective(d.queue)

\* Line(s) as a function of the record of the side.
LineOf(d) == SetToSeq(d.leaving) \o d.queue

Message == [route : Routes, len : MsgLens, frames : 1..MaxFrames,
            frameLen : Nat, report : BOOLEAN]

\* Where each frame is: FrameAtOnePlace without what SideOK says.
Whereabouts ==
  /\ \A f \in Frames :
       HeldAt(f) \in IF f \in InNetwork(f[1]) \ (toEgress \cup toIngress)
                    THEN {{EgressSide(f)}, {IngressSide(f)}} ELSE {{}}
  /\ \A f \in toEgress \cup toIngress : f \in InNetwork(f[1])
  /\ toEgress \cap toIngress = {}

\* The inductive invariant.  Only a connection that was made is ever reported.
IInv ==
  /\ conn \in [Conns -> Message \cup {NoConn}]
  /\ step \in [Frames -> Nat]
  /\ TypeOK
  /\ \A s \in Sides : SideOK(side[s])
  /\ Whereabouts
  /\ OutstandingFrames
  /\ returned \subseteq Entered

\* What a step may do to the side s: f joins it, or leaves it, or the frames in
\* it stay, in all cases in their order.
Joins(s, f) ==
  /\ s \in Sides
  /\ \E d : /\ side' = [side EXCEPT ![s] = d] /\ SideOK(d)
            /\ HeldIn(d) = HeldIn(side[s]) \cup {f}
            /\ LineOf(d) = Append(LineOf(side[s]), f)

Leaves(s, f) ==
  /\ s \in Sides /\ LineOf(side[s]) # << >>
  /\ \E d : /\ side' = [side EXCEPT ![s] = d] /\ SideOK(d)
            /\ HeldIn(d) = HeldIn(side[s]) \ {f}
            /\ LineOf(d) = Tail(LineOf(side[s]))

Stays(s) ==
  /\ s \in Sides
  /\ \E d : /\ side' = [side EXCEPT ![s] = d] /\ SideOK(d)
            /\ HeldIn(d) = HeldIn(side[s])
            /\ LineOf(d) = LineOf(side[s])

\* The action of FirstInFirstOut.
InOrder ==
  \A s \in Sides :
    \/ Line(s)' = Line(s)
    \/ Line(s) # << >> /\ Line(s)' = Tail(Line(s))
    \/ Line(s)' # << >> /\ Front(Line(s)') = Line(s)

----------------------------------------------------------------------------
(* Sequences without repetition.                                           *)

\* The only sequence of no elements, or of one.
LEMMA SetToSeqSmall ==
  /\ SetToSeq({}) = << >>
  /\ \A x : SetToSeq({x}) = <<x>>
<1>1. SetToSeq({}) = << >>
  <2>1. Cardinality({}) = 0
    BY FS_EmptySet
  <2>2. \A g \in [1..0 -> {}] : g = << >>
    OBVIOUS
  <2>3. << >> \in [1..0 -> {}] /\ IsInjective(<< >>)
    BY DEF IsInjective
  <2>4. QED
    BY <2>1, <2>2, <2>3 DEF SetToSeq
<1>2. ASSUME NEW x PROVE SetToSeq({x}) = <<x>>
  <2>1. Cardinality({x}) = 1
    BY FS_Singleton
  <2>2. \A g \in [1..1 -> {x}] : g = <<x>>
    OBVIOUS
  <2>3. <<x>> \in [1..1 -> {x}] /\ IsInjective(<<x>>)
    BY DEF IsInjective
  <2>4. QED
    BY <2>1, <2>2, <2>3 DEF SetToSeq
<1>3. QED
  BY <1>1, <1>2

\* A frame that is not in a sequence without repetition may join it at the end.
LEMMA AppendInjects ==
  ASSUME NEW S, NEW q \in Seq(S), NEW x \in S, IsInjective(q), x \notin Range(q)
  PROVE  /\ Append(q, x) \in Seq(S)
         /\ IsInjective(Append(q, x))
         /\ Range(Append(q, x)) = Range(q) \cup {x}
<1>1. \A i \in 1..Len(q) : q[i] # x
  BY DEF Range
<1>2. /\ Append(q, x) \in Seq(S)
      /\ DOMAIN Append(q, x) = 1..(Len(q) + 1)
      /\ \A i \in 1..Len(q) : Append(q, x)[i] = q[i]
      /\ Append(q, x)[Len(q) + 1] = x
      /\ DOMAIN q = 1..Len(q) /\ Len(q) \in Nat
  OBVIOUS
<1>3. IsInjective(Append(q, x))
  BY <1>1, <1>2 DEF IsInjective
<1>4. Range(Append(q, x)) = Range(q) \cup {x}
  BY <1>2 DEF Range
<1>5. QED
  BY <1>2, <1>3, <1>4

\* Without its head, such a sequence has all its elements but that one.
LEMMA TailInjects ==
  ASSUME NEW S, NEW q \in Seq(S), q # << >>, IsInjective(q)
  PROVE  /\ Tail(q) \in Seq(S) /\ Head(q) \in S
         /\ IsInjective(Tail(q))
         /\ Head(q) \notin Range(Tail(q))
         /\ Range(q) = Range(Tail(q)) \cup {Head(q)}
         /\ <<Head(q)>> \o Tail(q) = q
<1>1. /\ Tail(q) \in Seq(S) /\ Head(q) \in S
      /\ Len(q) \in Nat \ {0}
      /\ DOMAIN q = 1..Len(q) /\ DOMAIN Tail(q) = 1..(Len(q) - 1)
      /\ \A i \in 1..(Len(q) - 1) : Tail(q)[i] = q[i + 1]
      /\ Head(q) = q[1]
  OBVIOUS
<1>2. IsInjective(Tail(q))
  BY <1>1 DEF IsInjective
<1>3. Head(q) \notin Range(Tail(q))
  BY <1>1 DEF IsInjective, Range
<1>4. Range(q) = Range(Tail(q)) \cup {Head(q)}
  <2>1. ASSUME NEW i \in 1..Len(q) PROVE q[i] \in Range(Tail(q)) \cup {Head(q)}
    <3>1. CASE i = 1
      BY <3>1, <1>1
    <3>2. CASE i # 1
      <4>1. i - 1 \in 1..(Len(q) - 1) /\ Tail(q)[i - 1] = q[i]
        BY <3>2, <1>1
      <4>2. QED
        BY <4>1, <1>1 DEF Range
    <3>3. QED
      BY <3>1, <3>2
  <2>2. QED
    BY <2>1, <1>1 DEF Range
<1>5. <<Head(q)>> \o Tail(q) = q
  OBVIOUS
<1>6. QED
  BY <1>1, <1>2, <1>3, <1>4, <1>5

----------------------------------------------------------------------------
(* One side of an interface.                                               *)

\* enterIntrfcService: the head is in service, and the order is kept.
LEMMA StartServiceFacts ==
  ASSUME NEW d, Ready(d)
  PROVE  /\ SideOK(StartService(d))
         /\ HeldIn(StartService(d)) = HeldIn(d)
         /\ LineOf(StartService(d)) = LineOf(d)
<1> DEFINE e == StartService(d)
           h == Head(d.queue)
<1>1. /\ d \in SideType /\ d.queue \in Seq(Frames) /\ d.queue # << >>
      /\ d.leaving = {} /\ d.entering = {} /\ IsInjective(d.queue)
  BY DEF Ready, SideType
<1>2. /\ Tail(d.queue) \in Seq(Frames) /\ h \in Frames
      /\ IsInjective(Tail(d.queue)) /\ h \notin Range(Tail(d.queue))
      /\ Range(d.queue) = Range(Tail(d.queue)) \cup {h}
      /\ <<h>> \o Tail(d.queue) = d.queue
  BY <1>1, TailInjects
<1>3. /\ e \in SideType /\ e.queue = Tail(d.queue) /\ e.transit
      /\ e.entering = {} /\ e.leaving = {h}
  BY <1>1, <1>2 DEF StartService, SideType
<1>4. SideOK(e)
  BY <1>2, <1>3 DEF SideOK, SideType
<1>5. HeldIn(e) = HeldIn(d)
  BY <1>1, <1>2, <1>3 DEF HeldIn
<1>6. LineOf(e) = LineOf(d)
  <2>1. LineOf(e) = d.queue
    BY <1>2, <1>3, SetToSeqSmall DEF LineOf
  <2>2. LineOf(d) = d.queue
    BY <1>1, SetToSeqSmall, ConcatEmptySeq DEF LineOf
  <2>3. QED
    BY <2>1, <2>2
<1>7. QED
  BY <1>4, <1>5, <1>6

\* Whether or not streams hold the head back, an event that fetches it is
\* pending, and the order is kept.
LEMMA HeadToServiceFacts ==
  ASSUME NEW d, Ready(d), NEW s, NEW e \in HeadToService(s, d)
  PROVE  SideOK(e) /\ HeldIn(e) = HeldIn(d) /\ LineOf(e) = LineOf(d)
<1>1. CASE e = StartService(d)
  BY <1>1, StartServiceFacts
<1>2. CASE e = [d EXCEPT !.entering = @ \cup {Head(d.queue)}]
  <2>1. /\ d \in SideType /\ d.queue \in Seq(Frames) /\ d.queue # << >>
        /\ ~ d.transit /\ d.leaving = {} /\ d.entering = {} /\ IsInjective(d.queue)
    BY DEF Ready, SideType
  <2>2. Head(d.queue) \in Frames
    BY <2>1, TailInjects
  <2>3. /\ e \in SideType /\ e.queue = d.queue /\ ~ e.transit
        /\ e.entering = {Head(d.queue)} /\ e.leaving = {}
    BY <1>2, <2>1, <2>2 DEF SideType
  <2>4. SideOK(e)
    BY <2>1, <2>2, <2>3 DEF SideOK, SideType
  <2>5. HeldIn(e) = HeldIn(d) /\ LineOf(e) = LineOf(d)
    BY <2>1, <2>3 DEF HeldIn, LineOf
  <2>6. QED
    BY <2>4, <2>5
<1>3. QED
  BY <1>1, <1>2 DEF HeadToService

\* The line of a side in order: at most the frame in service, then the queue.
LEMMA LineFacts ==
  ASSUME NEW d, SideOK(d)
  PROVE  /\ LineOf(d) \in Seq(Frames)
         /\ d.transit => \E f \in Frames : d.leaving = {f} /\ LineOf(d) = <<f>> \o d.queue
         /\ ~ d.transit => LineOf(d) = d.queue
<1>1. d.queue \in Seq(Frames)
  BY DEF SideOK, SideType
<1>2. CASE d.transit
  <2>1. PICK f \in Frames : d.leaving = {f}
    BY <1>2 DEF SideOK
  <2>2. LineOf(d) = <<f>> \o d.queue
    BY <2>1, SetToSeqSmall DEF LineOf
  <2>3. <<f>> \o d.queue \in Seq(Frames)
    BY <1>1
  <2>4. QED
    BY <1>2, <2>1, <2>2, <2>3
<1>3. CASE ~ d.transit
  <2>1. LineOf(d) = d.queue
    BY <1>1, <1>3, SetToSeqSmall, ConcatEmptySeq DEF LineOf, SideOK
  <2>2. QED
    BY <1>1, <1>3, <2>1
<1>4. QED
  BY <1>2, <1>3

\* addNetworkMsg: the frame joins the line at the end, and an idle side starts.
LEMMA AddNetworkMsgFacts ==
  ASSUME NEW s, SideOK(side[s]), NEW f \in Frames, f \notin HeldIn(side[s]),
         NEW d \in AddNetworkMsg(s, f)
  PROVE  /\ SideOK(d)
         /\ HeldIn(d) = HeldIn(side[s]) \cup {f}
         /\ LineOf(d) = Append(LineOf(side[s]), f)
<1> DEFINE o == side[s]
           a == [o EXCEPT !.queue = Append(@, f)]
<1>1. /\ o \in SideType /\ o.queue \in Seq(Frames) /\ IsInjective(o.queue)
      /\ f \notin Range(o.queue) /\ f \notin o.leaving
  BY DEF SideOK, SideType, HeldIn
<1>2. /\ Append(o.queue, f) \in Seq(Frames) /\ Append(o.queue, f) # << >>
      /\ IsInjective(Append(o.queue, f))
      /\ Range(Append(o.queue, f)) = Range(o.queue) \cup {f}
  <2>1. Append(o.queue, f) # << >>
    BY <1>1
  <2>2. QED
    BY <1>1, <2>1, AppendInjects
<1>3. /\ a \in SideType /\ a.queue = Append(o.queue, f) /\ a.transit = o.transit
      /\ a.entering = o.entering /\ a.leaving = o.leaving
  BY <1>1, <1>2 DEF SideType
<1>4. HeldIn(a) = HeldIn(o) \cup {f}
  BY <1>2, <1>3 DEF HeldIn
<1>5. LineOf(a) = Append(LineOf(o), f)
  <2>1. \A q \in Seq(Frames) : q \o Append(o.queue, f) = Append(q \o o.queue, f)
    BY <1>1
  <2>2. SetToSeq(o.leaving) \in Seq(Frames)
    <3>1. CASE o.transit
      <4>1. PICK g \in Frames : o.leaving = {g}
        BY <3>1 DEF SideOK
      <4>2. SetToSeq(o.leaving) = <<g>>
        BY <4>1, SetToSeqSmall, Zenon
      <4>3. QED
        BY <4>2
    <3>2. CASE ~ o.transit
      <4>1. SetToSeq(o.leaving) = << >>
        BY <3>2, SetToSeqSmall, Zenon DEF SideOK
      <4>2. QED
        BY <4>1
    <3>3. QED
      BY <3>1, <3>2
  <2>3. QED
    BY <1>3, <2>1, <2>2 DEF LineOf
<1>6. CASE d = a /\ (o.transit \/ Len(a.queue) # 1)
  <2>1. o.queue # << >> => Head(a.queue) = Head(o.queue)
    BY <1>1, <1>3
  <2>2. ~ o.transit => o.queue # << >>
    BY <1>1, <1>3, <1>6
  <2>3. SideOK(a)
    BY <1>1, <1>2, <1>3, <2>1, <2>2 DEF SideOK, SideType
  <2>4. QED
    BY <1>6, <1>4, <1>5, <2>3
<1>7. CASE ~ (o.transit \/ Len(a.queue) # 1)
  <2>1. o.queue = << >>
    BY <1>1, <1>3, <1>7
  <2>2. Ready(a)
    BY <1>1, <1>2, <1>3, <1>7, <2>1 DEF Ready, SideOK, SideType
  <2>3. CASE d \in HeadToService(s, a)
    BY <2>2, <2>3, <1>4, <1>5, HeadToServiceFacts
  <2>4. CASE d = StartService(a)
    BY <2>2, <2>4, <1>4, <1>5, StartServiceFacts
  <2>5. QED
    BY <1>7, <2>3, <2>4 DEF AddNetworkMsg
<1>8. QED
  BY <1>6, <1>7 DEF AddNetworkMsg

\* exitEgressIntrfc and arriveIngressIntrfc: the frame that was served is gone
\* from the front of the line, and the next one is fetched.
LEMMA EndServiceFacts ==
  ASSUME NEW s, SideOK(side[s]), NEW f \in side[s].leaving, NEW d \in EndService(s, f)
  PROVE  /\ SideOK(d)
         /\ HeldIn(d) = HeldIn(side[s]) \ {f}
         /\ LineOf(side[s]) # << >> /\ LineOf(d) = Tail(LineOf(side[s]))
<1> DEFINE o == side[s]
           a == [o EXCEPT !.transit = FALSE, !.leaving = @ \ {f}]
<1>1. /\ o \in SideType /\ o.queue \in Seq(Frames) /\ IsInjective(o.queue)
      /\ o.transit /\ o.leaving = {f} /\ f \in Frames /\ o.entering = {}
      /\ f \notin Range(o.queue)
  BY DEF SideOK, SideType
<1>2. /\ a \in SideType /\ a.queue = o.queue /\ ~ a.transit
      /\ a.entering = {} /\ a.leaving = {}
  BY <1>1 DEF SideType
<1>3. HeldIn(a) = HeldIn(o) \ {f}
  BY <1>1, <1>2 DEF HeldIn
<1>4. LineOf(o) # << >> /\ LineOf(a) = Tail(LineOf(o))
  <2>1. LineOf(o) = <<f>> \o o.queue
    BY <1>1, SetToSeqSmall DEF LineOf
  <2>2. LineOf(a) = o.queue
    BY <1>1, <1>2, SetToSeqSmall, ConcatEmptySeq DEF LineOf
  <2>3. <<f>> \o o.queue # << >> /\ Tail(<<f>> \o o.queue) = o.queue
    BY <1>1
  <2>4. QED
    BY <2>1, <2>2, <2>3
<1>5. CASE o.queue = << >>
  <2>1. d = a
    BY <1>2, <1>5 DEF EndService
  <2>2. SideOK(a)
    BY <1>1, <1>2, <1>5 DEF SideOK, SideType
  <2>3. QED
    BY <1>3, <1>4, <2>1, <2>2
<1>6. CASE o.queue # << >>
  <2>1. d \in HeadToService(s, a)
    BY <1>2, <1>6 DEF EndService
  <2>2. Ready(a)
    BY <1>1, <1>2, <1>6 DEF Ready, SideType
  <2>3. QED
    BY <1>3, <1>4, <2>1, <2>2, HeadToServiceFacts
<1>7. QED
  BY <1>5, <1>6

\* The delayed entry into service finds the head it was scheduled for.
LEMMA DelayedServiceFacts ==
  ASSUME NEW o, SideOK(o), NEW f \in o.entering
  PROVE  LET d == StartService([o EXCEPT !.entering = @ \ {f}])
         IN  SideOK(d) /\ HeldIn(d) = HeldIn(o) /\ LineOf(d) = LineOf(o)
<1> DEFINE a == [o EXCEPT !.entering = @ \ {f}]
<1>1. /\ o \in SideType /\ ~ o.transit /\ o.leaving = {} /\ o.entering = {f}
      /\ o.queue # << >> /\ IsInjective(o.queue)
  BY DEF SideOK
<1>2. /\ a \in SideType /\ a.queue = o.queue /\ ~ a.transit
      /\ a.entering = {} /\ a.leaving = {}
  BY <1>1 DEF SideType
<1>3. Ready(a)
  BY <1>1, <1>2 DEF Ready, SideType
<1>4. HeldIn(a) = HeldIn(o) /\ LineOf(a) = LineOf(o)
  BY <1>1, <1>2 DEF HeldIn, LineOf
<1>5. QED
  BY <1>3, <1>4, StartServiceFacts

----------------------------------------------------------------------------
(* A step at one side, seen from all of them.                              *)

SidesOK == side \in [Sides -> SideType] /\ \A s \in Sides : SideOK(side[s])

\* Only the frames held at that side, and only its line, can change.
LEMMA SideChange ==
  ASSUME SidesOK, NEW s \in Sides, NEW d, SideOK(d), side' = [side EXCEPT ![s] = d]
  PROVE  /\ SidesOK'
         /\ \A g : HeldAt(g)' = IF g \in HeldIn(d) THEN HeldAt(g) \cup {s} ELSE HeldAt(g) \ {s}
         /\ \A u \in Sides : u # s => Line(u)' = Line(u)
         /\ Line(s) = LineOf(side[s]) /\ Line(s)' = LineOf(d)
<1>1. /\ side' \in [Sides -> SideType] /\ side'[s] = d
      /\ \A u \in Sides : u # s => side'[u] = side[u]
  BY DEF SidesOK, SideOK
<1>2. SidesOK'
  BY <1>1 DEF SidesOK
<1>3. ASSUME NEW g
      PROVE  HeldAt(g)' = IF g \in HeldIn(d) THEN HeldAt(g) \cup {s} ELSE HeldAt(g) \ {s}
  BY <1>1 DEF HeldAt, Held, HeldIn
<1>4. /\ \A u \in Sides : u # s => Line(u)' = Line(u)
      /\ Line(s) = LineOf(side[s]) /\ Line(s)' = LineOf(d)
  BY <1>1 DEF Line, LineOf
<1>5. QED
  BY <1>2, <1>3, <1>4

\* Front takes away what Append added.
LEMMA FrontOfAppend ==
  ASSUME NEW S, NEW q \in Seq(S), NEW x \in S
  PROVE  Append(q, x) # << >> /\ Front(Append(q, x)) = q
BY DEF Front

LEMMA JoinsFacts ==
  ASSUME SidesOK, NEW s, NEW f \in Frames, Joins(s, f)
  PROVE  /\ SidesOK' /\ InOrder
         /\ \A g : HeldAt(g)' = IF g = f THEN HeldAt(g) \cup {s} ELSE HeldAt(g)
<1>1. PICK d : /\ side' = [side EXCEPT ![s] = d] /\ SideOK(d)
               /\ HeldIn(d) = HeldIn(side[s]) \cup {f}
               /\ LineOf(d) = Append(LineOf(side[s]), f)
  BY DEF Joins
<1>2. s \in Sides /\ SideOK(side[s])
  BY DEF Joins, SidesOK
<1>3. /\ SidesOK'
      /\ \A g : HeldAt(g)' = IF g \in HeldIn(d) THEN HeldAt(g) \cup {s} ELSE HeldAt(g) \ {s}
      /\ \A u \in Sides : u # s => Line(u)' = Line(u)
      /\ Line(s) = LineOf(side[s]) /\ Line(s)' = LineOf(d)
  BY <1>1, <1>2, SideChange
<1>4. \A g : s \in HeldAt(g) <=> g \in HeldIn(side[s])
  BY <1>2 DEF HeldAt, Held, HeldIn
<1>5. ASSUME NEW g PROVE HeldAt(g)' = IF g = f THEN HeldAt(g) \cup {s} ELSE HeldAt(g)
  BY <1>1, <1>3, <1>4
<1>6. Line(s)' # << >> /\ Front(Line(s)') = Line(s)
  <2>1. LineOf(side[s]) \in Seq(Frames)
    BY <1>2, LineFacts
  <2>2. QED
    BY <1>1, <1>3, <2>1, FrontOfAppend
<1>7. QED
  BY <1>3, <1>5, <1>6 DEF InOrder

LEMMA LeavesFacts ==
  ASSUME SidesOK, NEW s, NEW f, Leaves(s, f)
  PROVE  /\ SidesOK' /\ InOrder
         /\ \A g : HeldAt(g)' = IF g = f THEN HeldAt(g) \ {s} ELSE HeldAt(g)
<1>1. PICK d : /\ side' = [side EXCEPT ![s] = d] /\ SideOK(d)
               /\ HeldIn(d) = HeldIn(side[s]) \ {f}
               /\ LineOf(d) = Tail(LineOf(side[s]))
  BY DEF Leaves
<1>2. s \in Sides /\ SideOK(side[s]) /\ LineOf(side[s]) # << >>
  BY DEF Leaves, SidesOK
<1>3. /\ SidesOK'
      /\ \A g : HeldAt(g)' = IF g \in HeldIn(d) THEN HeldAt(g) \cup {s} ELSE HeldAt(g) \ {s}
      /\ \A u \in Sides : u # s => Line(u)' = Line(u)
      /\ Line(s) = LineOf(side[s]) /\ Line(s)' = LineOf(d)
  BY <1>1, <1>2, SideChange
<1>4. \A g : s \in HeldAt(g) <=> g \in HeldIn(side[s])
  BY <1>2 DEF HeldAt, Held, HeldIn
<1>5. ASSUME NEW g PROVE HeldAt(g)' = IF g = f THEN HeldAt(g) \ {s} ELSE HeldAt(g)
  BY <1>1, <1>3, <1>4
<1>6. QED
  BY <1>1, <1>2, <1>3, <1>5 DEF InOrder

LEMMA StaysFacts ==
  ASSUME SidesOK, NEW s, Stays(s)
  PROVE  SidesOK' /\ InOrder /\ \A g : HeldAt(g)' = HeldAt(g)
<1>1. PICK d : /\ side' = [side EXCEPT ![s] = d] /\ SideOK(d)
               /\ HeldIn(d) = HeldIn(side[s])
               /\ LineOf(d) = LineOf(side[s])
  BY DEF Stays
<1>2. s \in Sides /\ SideOK(side[s])
  BY DEF Stays, SidesOK
<1>3. /\ SidesOK'
      /\ \A g : HeldAt(g)' = IF g \in HeldIn(d) THEN HeldAt(g) \cup {s} ELSE HeldAt(g) \ {s}
      /\ \A u \in Sides : u # s => Line(u)' = Line(u)
      /\ Line(s) = LineOf(side[s]) /\ Line(s)' = LineOf(d)
  BY <1>1, <1>2, SideChange
<1>4. \A g : s \in HeldAt(g) <=> g \in HeldIn(side[s])
  BY <1>2 DEF HeldAt, Held, HeldIn
<1>5. ASSUME NEW g PROVE HeldAt(g)' = HeldAt(g)
  BY <1>1, <1>3, <1>4
<1>6. QED
  BY <1>1, <1>3, <1>5 DEF InOrder

----------------------------------------------------------------------------
(* Frames and their routes.                                                *)

\* The frames of a connection that are in the network are frames, and on the
\* route of the connection.
LEMMA InNetworkFacts ==
  ASSUME conn \in [Conns -> Message \cup {NoConn}], NEW c \in Conns
  PROVE  /\ conn[c].frames \in 0..MaxFrames
         /\ c \in Entered <=> conn[c] \in Message
         /\ c \in Entered <=> conn[c].frames \in 1..MaxFrames
         /\ InNetwork(c) = {f \in Frames : f[1] = c /\ f[2] <= conn[c].frames /\ OnRoute(f)}
         /\ InNetwork(c) # {} => c \in Entered
<1>1. /\ conn[c].frames \in 0..MaxFrames
      /\ c \in Entered <=> conn[c] \in Message
      /\ c \in Entered <=> conn[c].frames \in 1..MaxFrames
  BY TransitAssumption DEF Message, NoConn, Entered
<1>2. ASSUME NEW f \in InNetwork(c)
      PROVE  f \in Frames /\ f[1] = c /\ f[2] <= conn[c].frames /\ OnRoute(f)
  <2>1. PICK k \in 1..conn[c].frames : f = <<c, k>>
    BY DEF InNetwork
  <2>2. k \in 1..MaxFrames
    BY <1>1, <2>1, TransitAssumption
  <2>3. QED
    BY <2>1, <2>2 DEF InNetwork, Frames
<1>3. ASSUME NEW f \in Frames, f[1] = c, f[2] <= conn[c].frames, OnRoute(f)
      PROVE  f \in InNetwork(c)
  <2>1. f = <<c, f[2]>> /\ f[2] \in 1..MaxFrames
    BY <1>3 DEF Frames
  <2>2. f[2] \in 1..conn[c].frames
    BY <1>1, <1>3, <2>1, TransitAssumption
  <2>3. QED
    BY <1>3, <2>1, <2>2 DEF InNetwork
<1>4. InNetwork(c) # {} => c \in Entered
  BY <1>1, TransitAssumption DEF InNetwork
<1>5. QED
  BY <1>1, <1>2, <1>3, <1>4

\* A frame on its route has two sides to pass through at its step.
LEMMA StepSides ==
  ASSUME conn \in [Conns -> Message \cup {NoConn}], NEW f \in Frames, OnRoute(f)
  PROVE  /\ f[1] \in Entered /\ Route(f) \in Routes
         /\ step[f] \in 1..Len(Route(f)) /\ Len(Route(f)) \in Nat
         /\ EgressSide(f) \in Sides /\ IngressSide(f) \in Sides
         /\ EgressSide(f) # IngressSide(f)
<1>1. f[1] \in Conns
  BY DEF Frames
<1>2. conn[f[1]] # NoConn
  <2>1. CASE conn[f[1]] = NoConn
    <3>1. Route(f) = << >>
      BY <2>1 DEF Route, NoConn
    <3>2. QED
      BY <3>1 DEF OnRoute
  <2>2. QED
    BY <2>1
<1>3. conn[f[1]] \in Message /\ f[1] \in Entered
  BY <1>1, <1>2, InNetworkFacts
<1>4. Route(f) \in Routes
  BY <1>3 DEF Message, Route
<1>5. Route(f) \in Seq([src : Intrfcs, dst : Intrfcs])
  BY <1>4, TransitAssumption
<1>6. step[f] \in 1..Len(Route(f)) /\ Len(Route(f)) \in Nat
  BY <1>5 DEF OnRoute
<1>7. EgressSide(f) \in RouteSides(Route(f)) /\ IngressSide(f) \in RouteSides(Route(f))
  BY <1>6 DEF EgressSide, IngressSide, RouteSides
<1>8. EgressSide(f) \in Sides /\ IngressSide(f) \in Sides
  BY <1>4, <1>7 DEF Sides
<1>9. EgressSide(f) # IngressSide(f)
  BY DEF EgressSide, IngressSide
<1>10. QED
  BY <1>3, <1>4, <1>6, <1>8, <1>9

\* A frame at a side is in the network, on its route, and has no entry pending.
LEMMA HeldInNetwork ==
  ASSUME IInv, NEW f \in Frames, NEW s \in HeldAt(f)
  PROVE  /\ f \in InNetwork(f[1]) /\ f \notin toEgress \cup toIngress
         /\ HeldAt(f) = {s} /\ s \in {EgressSide(f), IngressSide(f)}
<1>1. /\ HeldAt(f) \in IF f \in InNetwork(f[1]) \ (toEgress \cup toIngress)
                      THEN {{EgressSide(f)}, {IngressSide(f)}} ELSE {{}}
      /\ HeldAt(f) # {}
  BY DEF IInv, Whereabouts
<1>2. QED
  BY <1>1

\* A frame with an entry pending is in the network and at no side.
LEMMA PendingInNetwork ==
  ASSUME IInv, NEW f \in toEgress \cup toIngress
  PROVE  f \in Frames /\ f \in InNetwork(f[1]) /\ OnRoute(f) /\ HeldAt(f) = {}
<1>1. f \in Frames /\ f \in InNetwork(f[1])
  BY DEF IInv, Whereabouts, TypeOK
<1>2. OnRoute(f)
  BY <1>1 DEF InNetwork
<1>3. HeldAt(f) = {}
  BY <1>1 DEF IInv, Whereabouts
<1>4. QED
  BY <1>1, <1>2, <1>3

LEMMA SidesOfIInv == IInv => SidesOK
BY DEF IInv, TypeOK, SidesOK

----------------------------------------------------------------------------
(* Initial states.                                                         *)

LEMMA InitIInv == Init => IInv
<1> SUFFICES ASSUME Init PROVE IInv
  OBVIOUS
<1>1. conn \in [Conns -> Message \cup {NoConn}] /\ Entered = {}
  BY DEF Init, Entered, NoConn
<1>2. \A f \in Frames : Route(f) = << >> /\ step[f] = 1 /\ ~ OnRoute(f)
  <2>1. ASSUME NEW f \in Frames PROVE Route(f) = << >> /\ step[f] = 1
    BY DEF Init, Frames, Route, NoConn
  <2>2. QED
    BY <2>1 DEF OnRoute
<1>3. step \in [Frames -> Nat]
  BY DEF Init
<1>4. SideOK(IdleSide)
  <2>1. IdleSide \in SideType /\ IsInjective(<< >>) /\ Range(<< >>) = {}
    BY DEF IdleSide, SideType, IsInjective, Range
  <2>2. QED
    BY <2>1 DEF IdleSide, SideOK
<1>5. \A s \in Sides : side[s] = IdleSide /\ SideOK(side[s])
  BY <1>4 DEF Init
<1>6. TypeOK
  <2>1. \A f \in Frames : step[f] \in 1..(Len(Route(f)) + 1)
    BY <1>2
  <2>2. side \in [Sides -> SideType]
    BY <1>4 DEF Init, SideOK
  <2>3. QED
    BY <1>1, <2>1, <2>2 DEF Init, TypeOK
<1>7. Whereabouts
  <2>1. \A f \in Frames : HeldAt(f) = {}
    BY <1>5 DEF HeldAt, Held, IdleSide, Range
  <2>2. \A f \in Frames : f \notin InNetwork(f[1])
    BY <1>2 DEF InNetwork
  <2>3. QED
    BY <2>1, <2>2 DEF Init, Whereabouts
<1>8. OutstandingFrames /\ returned \subseteq Entered
  BY <1>1 DEF Init, OutstandingFrames
<1>9. QED
  BY <1>1, <1>3, <1>5, <1>6, <1>7, <1>8 DEF IInv

----------------------------------------------------------------------------
(* What each handler does to one side.                                     *)

LEMMA EnterEgressJoins ==
  ASSUME IInv, NEW f \in Frames, EnterEgressIntrfc(f)
  PROVE  Joins(EgressSide(f), f)
<1>1. f \in toEgress
  BY DEF EnterEgressIntrfc
<1>2. OnRoute(f) /\ HeldAt(f) = {}
  BY <1>1, PendingInNetwork
<1>3. EgressSide(f) \in Sides /\ SideOK(side[EgressSide(f)])
  BY <1>2, StepSides DEF IInv
<1>4. f \notin HeldIn(side[EgressSide(f)])
  BY <1>2, <1>3 DEF HeldAt, Held, HeldIn
<1>5. PICK d \in AddNetworkMsg(EgressSide(f), f) : side' = [side EXCEPT ![EgressSide(f)] = d]
  BY DEF EnterEgressIntrfc
<1>6. QED
  BY <1>3, <1>4, <1>5, AddNetworkMsgFacts DEF Joins

LEMMA EnterIngressJoins ==
  ASSUME IInv, NEW f \in Frames, EnterIngressIntrfc(f)
  PROVE  Joins(IngressSide(f), f)
<1>1. f \in toIngress
  BY DEF EnterIngressIntrfc
<1>2. OnRoute(f) /\ HeldAt(f) = {}
  BY <1>1, PendingInNetwork
<1>3. IngressSide(f) \in Sides /\ SideOK(side[IngressSide(f)])
  BY <1>2, StepSides DEF IInv
<1>4. f \notin HeldIn(side[IngressSide(f)])
  BY <1>2, <1>3 DEF HeldAt, Held, HeldIn
<1>5. PICK d \in AddNetworkMsg(IngressSide(f), f) : side' = [side EXCEPT ![IngressSide(f)] = d]
  BY DEF EnterIngressIntrfc
<1>6. QED
  BY <1>3, <1>4, <1>5, AddNetworkMsgFacts DEF Joins

LEMMA EnterServiceStays ==
  ASSUME IInv, NEW f \in Frames, NEW s \in Sides, EnterIntrfcService(s, f)
  PROVE  Stays(s)
<1>1. SideOK(side[s]) /\ f \in side[s].entering
  BY DEF IInv, EnterIntrfcService
<1>2. side' = [side EXCEPT ![s] = StartService([side[s] EXCEPT !.entering = @ \ {f}])]
  BY DEF EnterIntrfcService
<1>3. QED
  BY <1>1, <1>2, DelayedServiceFacts DEF Stays

LEMMA ExitEgressLeaves ==
  ASSUME IInv, NEW f \in Frames, ExitEgressIntrfc(f)
  PROVE  Leaves(EgressSide(f), f) /\ HeldAt(f) = {EgressSide(f)}
<1>1. OnRoute(f) /\ f \in side[EgressSide(f)].leaving
  BY DEF ExitEgressIntrfc
<1>2. EgressSide(f) \in Sides /\ SideOK(side[EgressSide(f)])
  BY <1>1, StepSides DEF IInv
<1>3. PICK d \in EndService(EgressSide(f), f) : side' = [side EXCEPT ![EgressSide(f)] = d]
  BY DEF ExitEgressIntrfc
<1>4. Leaves(EgressSide(f), f)
  BY <1>1, <1>2, <1>3, EndServiceFacts DEF Leaves
<1>5. EgressSide(f) \in HeldAt(f)
  BY <1>1, <1>2 DEF HeldAt, Held
<1>6. QED
  BY <1>4, <1>5, HeldInNetwork

LEMMA ArriveIngressLeaves ==
  ASSUME IInv, NEW f \in Frames, ArriveIngressIntrfc(f)
  PROVE  Leaves(IngressSide(f), f) /\ HeldAt(f) = {IngressSide(f)}
<1>1. OnRoute(f) /\ f \in side[IngressSide(f)].leaving
  BY DEF ArriveIngressIntrfc
<1>2. IngressSide(f) \in Sides /\ SideOK(side[IngressSide(f)])
  BY <1>1, StepSides DEF IInv
<1>3. PICK d \in EndService(IngressSide(f), f) : side' = [side EXCEPT ![IngressSide(f)] = d]
  BY DEF ArriveIngressIntrfc
<1>4. Leaves(IngressSide(f), f)
  BY <1>1, <1>2, <1>3, EndServiceFacts DEF Leaves
<1>5. IngressSide(f) \in HeldAt(f)
  BY <1>1, <1>2 DEF HeldAt, Held
<1>6. QED
  BY <1>4, <1>5, HeldInNetwork

----------------------------------------------------------------------------
(* Steps that move no frame along its route.                               *)

\* Where connections and steps stay, everybody is on the route as before.
LEMMA SameRoutes ==
  ASSUME UNCHANGED <<conn, step>>
  PROVE  /\ Entered' = Entered
         /\ \A c \in Conns : InNetwork(c)' = InNetwork(c)
         /\ \A f \in Frames : /\ Route(f)' = Route(f) /\ OnRoute(f)' = OnRoute(f)
                              /\ EgressSide(f)' = EgressSide(f)
                              /\ IngressSide(f)' = IngressSide(f)
BY DEF Entered, InNetwork, Route, OnRoute, EgressSide, IngressSide

\* What is left to see to when connections, steps and reports stay.
LEMMA SameRoutesIInv ==
  ASSUME IInv, UNCHANGED <<conn, step, returnTo, returned, frameSizeCache>>,
         SidesOK', Whereabouts',
         toEgress' \subseteq Frames, toIngress' \subseteq Frames,
         active' \in SUBSET BgfRoutes, streaming' \in SUBSET active'
  PROVE  IInv'
<1>1. /\ Entered' = Entered
      /\ \A c \in Conns : InNetwork(c)' = InNetwork(c)
      /\ \A f \in Frames : Route(f)' = Route(f)
  BY SameRoutes
<1>2. TypeOK'
  BY <1>1 DEF IInv, TypeOK, SidesOK
<1>3. OutstandingFrames'
  BY <1>1 DEF IInv, OutstandingFrames, Entered
<1>4. QED
  BY <1>1, <1>2, <1>3 DEF IInv, SidesOK

LEMMA EnterEgressIInv ==
  ASSUME IInv, NEW f \in Frames, EnterEgressIntrfc(f)
  PROVE  IInv' /\ InOrder
<1>1. /\ SidesOK' /\ InOrder
      /\ \A g : HeldAt(g)' = IF g = f THEN HeldAt(g) \cup {EgressSide(f)} ELSE HeldAt(g)
  BY EnterEgressJoins, SidesOfIInv, JoinsFacts
<1>2. /\ f \in toEgress /\ toEgress' = toEgress \ {f}
      /\ UNCHANGED <<step, toIngress, returnTo, returned, conn, frameSizeCache, active, streaming>>
  BY DEF EnterEgressIntrfc, transitVars
<1>3. f \in InNetwork(f[1]) /\ HeldAt(f) = {} /\ f \notin toIngress
  BY <1>2, PendingInNetwork DEF IInv, Whereabouts
<1>4. /\ \A c \in Conns : InNetwork(c)' = InNetwork(c)
      /\ \A g \in Frames : EgressSide(g)' = EgressSide(g) /\ IngressSide(g)' = IngressSide(g)
  BY <1>2, SameRoutes
<1>5. Whereabouts'
  <2>1. ASSUME NEW g \in Frames
        PROVE  (HeldAt(g) \in IF g \in InNetwork(g[1]) \ (toEgress \cup toIngress)
                             THEN {{EgressSide(g)}, {IngressSide(g)}} ELSE {{}})'
    <3>1. g[1] \in Conns
      BY DEF Frames
    <3>2. CASE g = f
      BY <1>1, <1>2, <1>3, <1>4, <3>1, <3>2
    <3>3. CASE g # f
      BY <1>1, <1>2, <1>4, <3>1, <3>3 DEF IInv, Whereabouts
    <3>4. QED
      BY <3>2, <3>3
  <2>2. (\A g \in toEgress \cup toIngress : g \in InNetwork(g[1]))'
    BY <1>2, <1>4 DEF IInv, Whereabouts, TypeOK, Frames
  <2>3. QED
    BY <1>2, <2>1, <2>2 DEF IInv, Whereabouts
<1>6. IInv'
  BY <1>1, <1>2, <1>5, SameRoutesIInv DEF IInv, TypeOK
<1>7. QED
  BY <1>1, <1>6

LEMMA EnterIngressIInv ==
  ASSUME IInv, NEW f \in Frames, EnterIngressIntrfc(f)
  PROVE  IInv' /\ InOrder
<1>1. /\ SidesOK' /\ InOrder
      /\ \A g : HeldAt(g)' = IF g = f THEN HeldAt(g) \cup {IngressSide(f)} ELSE HeldAt(g)
  BY EnterIngressJoins, SidesOfIInv, JoinsFacts
<1>2. /\ f \in toIngress /\ toIngress' = toIngress \ {f}
      /\ UNCHANGED <<step, toEgress, returnTo, returned, conn, frameSizeCache, active, streaming>>
  BY DEF EnterIngressIntrfc, transitVars
<1>3. f \in InNetwork(f[1]) /\ HeldAt(f) = {} /\ f \notin toEgress
  BY <1>2, PendingInNetwork DEF IInv, Whereabouts
<1>4. /\ \A c \in Conns : InNetwork(c)' = InNetwork(c)
      /\ \A g \in Frames : EgressSide(g)' = EgressSide(g) /\ IngressSide(g)' = IngressSide(g)
  BY <1>2, SameRoutes
<1>5. Whereabouts'
  <2>1. ASSUME NEW g \in Frames
        PROVE  (HeldAt(g) \in IF g \in InNetwork(g[1]) \ (toEgress \cup toIngress)
                             THEN {{EgressSide(g)}, {IngressSide(g)}} ELSE {{}})'
    <3>1. g[1] \in Conns
      BY DEF Frames
    <3>2. CASE g = f
      BY <1>1, <1>2, <1>3, <1>4, <3>1, <3>2
    <3>3. CASE g # f
      BY <1>1, <1>2, <1>4, <3>1, <3>3 DEF IInv, Whereabouts
    <3>4. QED
      BY <3>2, <3>3
  <2>2. (\A g \in toEgress \cup toIngress : g \in InNetwork(g[1]))'
    BY <1>2, <1>4 DEF IInv, Whereabouts, TypeOK, Frames
  <2>3. QED
    BY <1>2, <2>1, <2>2 DEF IInv, Whereabouts
<1>6. IInv'
  BY <1>1, <1>2, <1>5, SameRoutesIInv DEF IInv, TypeOK
<1>7. QED
  BY <1>1, <1>6

LEMMA EnterServiceIInv ==
  ASSUME IInv, NEW f \in Frames, NEW s \in Sides, EnterIntrfcService(s, f)
  PROVE  IInv' /\ InOrder
<1>1. SidesOK' /\ InOrder /\ \A g : HeldAt(g)' = HeldAt(g)
  BY EnterServiceStays, SidesOfIInv, StaysFacts
<1>2. UNCHANGED <<step, toEgress, toIngress, returnTo, returned, conn, frameSizeCache,
                  active, streaming>>
  BY DEF EnterIntrfcService, transitVars
<1>3. /\ \A c \in Conns : InNetwork(c)' = InNetwork(c)
      /\ \A g \in Frames : EgressSide(g)' = EgressSide(g) /\ IngressSide(g)' = IngressSide(g)
  BY <1>2, SameRoutes
<1>4. Whereabouts'
  <2>1. \A g \in Frames : g[1] \in Conns
    BY DEF Frames
  <2>2. ASSUME NEW g \in Frames
        PROVE  (HeldAt(g) \in IF g \in InNetwork(g[1]) \ (toEgress \cup toIngress)
                             THEN {{EgressSide(g)}, {IngressSide(g)}} ELSE {{}})'
    BY <1>1, <1>2, <1>3, <2>1 DEF IInv, Whereabouts
  <2>3. (\A g \in toEgress \cup toIngress : g \in InNetwork(g[1]))'
    BY <1>2, <1>3, <2>1 DEF IInv, Whereabouts, TypeOK
  <2>4. QED
    BY <1>2, <2>2, <2>3 DEF IInv, Whereabouts
<1>5. IInv'
  BY <1>1, <1>2, <1>4, SameRoutesIInv DEF IInv, TypeOK
<1>6. QED
  BY <1>1, <1>5

LEMMA ExitEgressIInv ==
  ASSUME IInv, NEW f \in Frames, ExitEgressIntrfc(f)
  PROVE  IInv' /\ InOrder
<1>1. /\ SidesOK' /\ InOrder
      /\ \A g : HeldAt(g)' = IF g = f THEN HeldAt(g) \ {EgressSide(f)} ELSE HeldAt(g)
  BY ExitEgressLeaves, SidesOfIInv, LeavesFacts
<1>2. /\ toIngress' = toIngress \cup {f}
      /\ UNCHANGED <<step, toEgress, returnTo, returned, conn, frameSizeCache, active, streaming>>
  BY DEF ExitEgressIntrfc, transitVars
<1>3. HeldAt(f) = {EgressSide(f)} /\ f \in InNetwork(f[1]) /\ f \notin toEgress \cup toIngress
  BY ExitEgressLeaves, HeldInNetwork
<1>4. /\ \A c \in Conns : InNetwork(c)' = InNetwork(c)
      /\ \A g \in Frames : EgressSide(g)' = EgressSide(g) /\ IngressSide(g)' = IngressSide(g)
  BY <1>2, SameRoutes
<1>5. Whereabouts'
  <2>1. ASSUME NEW g \in Frames
        PROVE  (HeldAt(g) \in IF g \in InNetwork(g[1]) \ (toEgress \cup toIngress)
                             THEN {{EgressSide(g)}, {IngressSide(g)}} ELSE {{}})'
    <3>1. g[1] \in Conns
      BY DEF Frames
    <3>2. CASE g = f
      BY <1>1, <1>2, <1>3, <3>2
    <3>3. CASE g # f
      BY <1>1, <1>2, <1>4, <3>1, <3>3 DEF IInv, Whereabouts
    <3>4. QED
      BY <3>2, <3>3
  <2>2. (\A g \in toEgress \cup toIngress : g \in InNetwork(g[1]))'
    BY <1>2, <1>3, <1>4 DEF IInv, Whereabouts, TypeOK, Frames
  <2>3. QED
    BY <1>2, <1>3, <2>1, <2>2 DEF IInv, Whereabouts
<1>6. IInv'
  BY <1>1, <1>2, <1>5, SameRoutesIInv DEF IInv, TypeOK
<1>7. QED
  BY <1>1, <1>6

----------------------------------------------------------------------------
(* The last frame of a message.                                            *)

\* The frames of a message that has just entered are as many as it was cut into.
LEMMA FramesCounted ==
  ASSUME NEW c, NEW n \in Nat
  PROVE  /\ IsFiniteSet({<<c, k>> : k \in 1..n})
         /\ Cardinality({<<c, k>> : k \in 1..n}) = n
<1> DEFINE F == {<<c, k>> : k \in 1..n}
<1>1. IsFiniteSet(1..n) /\ Cardinality(1..n) = n
  BY FS_Interval
<1>2. [k \in 1..n |-> <<c, k>>] \in Bijection(1..n, F)
  BY DEF Bijection, Injection, Surjection, IsInjective
<1>3. ExistsBijection(1..n, F)
  BY <1>2 DEF ExistsBijection
<1>4. QED
  BY <1>1, <1>3, FS_Bijection, FS_SameCardinalityBij

\* InNetwork(c) is finite: it has at most as many frames as the message.
LEMMA InNetworkFinite ==
  ASSUME conn \in [Conns -> Message \cup {NoConn}], NEW c \in Conns
  PROVE  /\ IsFiniteSet(InNetwork(c))
         /\ Cardinality(InNetwork(c)) \in 0..conn[c].frames
         /\ Cardinality(InNetwork(c)) = 0 <=> InNetwork(c) = {}
<1>1. conn[c].frames \in Nat
  BY InNetworkFacts, TransitAssumption
<1>2. /\ IsFiniteSet({<<c, k>> : k \in 1..conn[c].frames})
      /\ Cardinality({<<c, k>> : k \in 1..conn[c].frames}) = conn[c].frames
  BY <1>1, FramesCounted
<1>3. InNetwork(c) \subseteq {<<c, k>> : k \in 1..conn[c].frames}
  BY DEF InNetwork
<1>4. /\ IsFiniteSet(InNetwork(c)) /\ Cardinality(InNetwork(c)) \in Nat
      /\ Cardinality(InNetwork(c)) <= conn[c].frames
  BY <1>2, <1>3, FS_Subset, FS_CardinalityType
<1>5. Cardinality(InNetwork(c)) = 0 <=> InNetwork(c) = {}
  BY <1>4, FS_EmptySet
<1>6. QED
  BY <1>1, <1>4, <1>5

\* Which frames are where when the frame f moves one step on.
LEMMA NextStepFacts ==
  ASSUME IInv, NEW f \in Frames, OnRoute(f), f \in InNetwork(f[1]),
         conn' = conn, step' = [step EXCEPT ![f] = @ + 1]
  PROVE  /\ Entered' = Entered
         /\ \A c \in Conns : InNetwork(c)' = IF c = f[1] /\ LastStep(f) THEN InNetwork(c) \ {f}
                                                                       ELSE InNetwork(c)
         /\ \A g \in Frames : g # f => EgressSide(g)' = EgressSide(g) /\ IngressSide(g)' = IngressSide(g)
         /\ step' \in [Frames -> Nat]
         /\ \A g \in Frames : step'[g] \in 1..(Len(Route(g)') + 1)
<1>1. step \in [Frames -> Nat] /\ conn \in [Conns -> Message \cup {NoConn}]
  BY DEF IInv
<1>2. /\ step' \in [Frames -> Nat] /\ step'[f] = step[f] + 1
      /\ \A g \in Frames : g # f => step'[g] = step[g]
  BY <1>1
<1>3. /\ Entered' = Entered
      /\ \A g \in Frames : Route(g)' = Route(g)
  BY DEF Entered, Route
<1>4. step[f] \in 1..Len(Route(f)) /\ Len(Route(f)) \in Nat /\ DOMAIN Route(f) = 1..Len(Route(f))
  <2>1. /\ step[f] \in 1..Len(Route(f)) /\ Len(Route(f)) \in Nat
        /\ Route(f) \in Seq([src : Intrfcs, dst : Intrfcs])
    BY <1>1, StepSides, TransitAssumption
  <2>2. QED
    BY <2>1
<1>5. OnRoute(f)' <=> ~ LastStep(f)
  BY <1>2, <1>3, <1>4 DEF OnRoute, LastStep
<1>6. \A g \in Frames : g # f => OnRoute(g)' = OnRoute(g)
  BY <1>2, <1>3 DEF OnRoute
<1>7. ASSUME NEW c \in Conns
      PROVE  InNetwork(c)' = IF c = f[1] /\ LastStep(f) THEN InNetwork(c) \ {f} ELSE InNetwork(c)
  <2>1. InNetwork(c) = {g \in Frames : g[1] = c /\ g[2] <= conn[c].frames /\ OnRoute(g)}
    BY <1>1, InNetworkFacts
  <2>2. InNetwork(c)' = {g \in Frames : g[1] = c /\ g[2] <= conn[c].frames /\ OnRoute(g)'}
    <3>1. conn[c].frames \in 0..MaxFrames
      BY <1>1, InNetworkFacts
    <3>2. InNetwork(c)' = {g \in {<<c, k>> : k \in 1..conn[c].frames} : OnRoute(g)'}
      BY DEF InNetwork
    <3>3. {<<c, k>> : k \in 1..conn[c].frames} = {g \in Frames : g[1] = c /\ g[2] <= conn[c].frames}
      BY <3>1, TransitAssumption DEF Frames
    <3>4. QED
      BY <3>2, <3>3
  <2>3. QED
    BY <2>1, <2>2, <1>5, <1>6
<1>8. \A g \in Frames : g # f => EgressSide(g)' = EgressSide(g) /\ IngressSide(g)' = IngressSide(g)
  BY <1>2, <1>3 DEF EgressSide, IngressSide
<1>9. \A g \in Frames : step'[g] \in 1..(Len(Route(g)') + 1)
  BY <1>2, <1>3, <1>4 DEF IInv, TypeOK
<1>10. QED
  BY <1>2, <1>3, <1>7, <1>8, <1>9

\* The count of outstanding frames is right before and after Depart.
LEMMA DepartFacts ==
  ASSUME IInv, NEW c \in Conns, NEW f \in InNetwork(c), Depart(c), conn' = conn,
         \A d \in Conns : InNetwork(d)' = IF d = c THEN InNetwork(d) \ {f} ELSE InNetwork(d)
  PROVE  /\ OutstandingFrames'
         /\ returnTo' \in [Conns -> 1..MaxFrames \cup {None}]
         /\ returned' \subseteq Entered
         /\ returned' = IF conn[c].report /\ Cardinality(InNetwork(c)) = 1
                        THEN returned \cup {c} ELSE returned
<1> DEFINE k == Cardinality(InNetwork(c))
<1>1. conn \in [Conns -> Message \cup {NoConn}] /\ Entered' = Entered /\ returned \subseteq Entered
      /\ returnTo \in [Conns -> 1..MaxFrames \cup {None}]
  BY DEF IInv, TypeOK, Entered
<1>2. c \in Entered
  BY <1>1, InNetworkFacts
<1>3. k \in Nat \ {0} /\ IsFiniteSet(InNetwork(c))
  BY <1>1, InNetworkFinite, InNetworkFacts
<1>4. /\ InNetwork(c)' = InNetwork(c) \ {f}
      /\ Cardinality(InNetwork(c)') = k - 1 /\ (InNetwork(c)' = {} <=> k = 1)
  <2>1. InNetwork(c)' = InNetwork(c) \ {f}
    OBVIOUS
  <2>2. IsFiniteSet(InNetwork(c) \ {f}) /\ Cardinality(InNetwork(c) \ {f}) = k - 1
    BY <1>3, FS_RemoveElement
  <2>3. InNetwork(c) \ {f} = {} <=> k - 1 = 0
    BY <2>2, FS_EmptySet
  <2>4. QED
    BY <2>1, <2>2, <2>3, <1>3
<1>5. CASE conn[c].report
  <2>1. c \notin returned /\ returnTo[c] = k
    BY <1>2, <1>5, <1>3 DEF IInv, OutstandingFrames
  <2>2. /\ returnTo' = [returnTo EXCEPT ![c] = IF k = 1 THEN None ELSE k - 1]
        /\ returned' = IF k = 1 THEN returned \cup {c} ELSE returned
    BY <1>1, <1>3, <1>5, <2>1 DEF Depart, AfterDepart, None
  <2>3. returnTo' \in [Conns -> 1..MaxFrames \cup {None}]
    BY <1>1, <1>3, <2>1, <2>2, TransitAssumption DEF None
  <2>4. ASSUME NEW d \in Entered, conn[d].report
        PROVE  /\ (d \in returned') <=> (InNetwork(d)' = {})
               /\ returnTo'[d] = IF d \in returned' THEN None ELSE Cardinality(InNetwork(d)')
    <3>1. d \in Conns
      BY DEF Entered
    <3>2. CASE d = c
      BY <1>1, <1>3, <1>4, <2>1, <2>2, <3>2
    <3>3. CASE d # c
      <4>1. InNetwork(d)' = InNetwork(d) /\ returnTo'[d] = returnTo[d] /\ (d \in returned' <=> d \in returned)
        BY <1>1, <2>2, <3>1, <3>3
      <4>2. QED
        BY <2>4, <4>1 DEF IInv, OutstandingFrames
    <3>4. QED
      BY <3>2, <3>3
  <2>5. OutstandingFrames'
    BY <1>1, <2>4 DEF OutstandingFrames
  <2>6. QED
    BY <1>1, <1>2, <1>5, <2>2, <2>3, <2>5
<1>6. CASE ~ conn[c].report
  <2>1. UNCHANGED <<returnTo, returned>>
    BY <1>6 DEF Depart
  <2>2. ASSUME NEW d \in Entered, conn[d].report
        PROVE  /\ (d \in returned') <=> (InNetwork(d)' = {})
               /\ returnTo'[d] = IF d \in returned' THEN None ELSE Cardinality(InNetwork(d)')
    <3>1. d \in Conns /\ d # c
      BY <1>6, <2>2 DEF Entered
    <3>2. InNetwork(d)' = InNetwork(d)
      BY <3>1
    <3>3. QED
      BY <2>1, <2>2, <3>2 DEF IInv, OutstandingFrames
  <2>3. OutstandingFrames'
    BY <1>1, <2>2 DEF OutstandingFrames
  <2>4. QED
    BY <1>1, <1>6, <2>1, <2>3
<1>7. QED
  BY <1>5, <1>6

LEMMA ArriveIngressIInv ==
  ASSUME IInv, NEW f \in Frames, ArriveIngressIntrfc(f)
  PROVE  IInv' /\ InOrder
<1> DEFINE c == f[1]
<1>1. /\ SidesOK' /\ InOrder
      /\ \A g : HeldAt(g)' = IF g = f THEN HeldAt(g) \ {IngressSide(f)} ELSE HeldAt(g)
  BY ArriveIngressLeaves, SidesOfIInv, LeavesFacts
<1>2. /\ OnRoute(f) /\ step' = [step EXCEPT ![f] = @ + 1]
      /\ UNCHANGED <<toIngress, conn, frameSizeCache, active, streaming>>
  BY DEF ArriveIngressIntrfc, transitVars
<1>3. HeldAt(f) = {IngressSide(f)} /\ f \in InNetwork(c) /\ f \notin toEgress \cup toIngress
  BY ArriveIngressLeaves, HeldInNetwork
<1>4. c \in Conns
  BY DEF Frames
<1>5. /\ Entered' = Entered
      /\ \A d \in Conns : InNetwork(d)' = IF d = c /\ LastStep(f) THEN InNetwork(d) \ {f}
                                                                 ELSE InNetwork(d)
      /\ \A g \in Frames : g # f => EgressSide(g)' = EgressSide(g) /\ IngressSide(g)' = IngressSide(g)
      /\ step' \in [Frames -> Nat]
      /\ \A g \in Frames : step'[g] \in 1..(Len(Route(g)') + 1)
  BY <1>2, <1>3, NextStepFacts
<1>6. /\ toEgress' = IF LastStep(f) THEN toEgress ELSE toEgress \cup {f}
      /\ LastStep(f) => Depart(c)
      /\ ~ LastStep(f) => UNCHANGED <<returnTo, returned>>
  BY DEF ArriveIngressIntrfc
<1>7. Whereabouts'
  <2>1. ASSUME NEW g \in Frames
        PROVE  (HeldAt(g) \in IF g \in InNetwork(g[1]) \ (toEgress \cup toIngress)
                             THEN {{EgressSide(g)}, {IngressSide(g)}} ELSE {{}})'
    <3>1. g[1] \in Conns
      BY DEF Frames
    <3>2. CASE g = f
      <4>1. HeldAt(f)' = {}
        BY <1>1, <1>3
      <4>2. ~ (f \in InNetwork(c)' \ (toEgress' \cup toIngress'))
        BY <1>4, <1>5, <1>6
      <4>3. QED
        BY <3>2, <4>1, <4>2
    <3>3. CASE g # f
      <4>1. g \in InNetwork(g[1])' <=> g \in InNetwork(g[1])
        BY <1>5, <3>1, <3>3
      <4>2. g \in toEgress' \cup toIngress' <=> g \in toEgress \cup toIngress
        BY <1>2, <1>6, <3>3
      <4>3. QED
        BY <1>1, <1>5, <3>3, <4>1, <4>2 DEF IInv, Whereabouts
    <3>4. QED
      BY <3>2, <3>3
  <2>2. ASSUME NEW g \in (toEgress \cup toIngress)'
        PROVE  g \in InNetwork(g[1])'
    <3>1. CASE g = f
      <4>1. ~ LastStep(f)
        BY <1>2, <1>3, <1>6, <2>2, <3>1
      <4>2. QED
        BY <1>3, <1>4, <1>5, <3>1, <4>1
    <3>2. CASE g # f
      <4>1. g \in toEgress \cup toIngress /\ g[1] \in Conns
        BY <1>2, <1>6, <2>2, <3>2 DEF IInv, TypeOK, Frames
      <4>2. g \in InNetwork(g[1])
        BY <4>1 DEF IInv, Whereabouts
      <4>3. QED
        BY <1>5, <3>2, <4>1, <4>2
    <3>3. QED
      BY <3>1, <3>2
  <2>3. (toEgress \cap toIngress = {})'
    BY <1>2, <1>3, <1>6 DEF IInv, Whereabouts
  <2>4. QED
    BY <2>1, <2>2, <2>3 DEF Whereabouts
<1>8. /\ OutstandingFrames' /\ returned' \subseteq Entered
      /\ returnTo' \in [Conns -> 1..MaxFrames \cup {None}]
  <2>1. CASE LastStep(f)
    BY <1>2, <1>3, <1>4, <1>5, <1>6, <2>1, DepartFacts
  <2>2. CASE ~ LastStep(f)
    <3>1. UNCHANGED <<returnTo, returned, conn>> /\ \A d \in Conns : InNetwork(d)' = InNetwork(d)
      BY <1>2, <1>5, <1>6, <2>2
    <3>2. OutstandingFrames'
      BY <1>5, <3>1 DEF IInv, OutstandingFrames, Entered
    <3>3. QED
      BY <3>1, <3>2 DEF IInv, TypeOK
  <2>3. QED
    BY <2>1, <2>2
<1>9. TypeOK'
  <2>1. returned' \subseteq Conns /\ toEgress' \subseteq Frames
    BY <1>6, <1>8 DEF IInv, TypeOK, Entered
  <2>2. side' \in [Sides -> SideType]
    BY <1>1 DEF SidesOK
  <2>3. QED
    BY <1>2, <1>5, <1>8, <2>1, <2>2 DEF IInv, TypeOK
<1>10. QED
  BY <1>1, <1>2, <1>5, <1>7, <1>8, <1>9 DEF IInv, SidesOK

----------------------------------------------------------------------------
(* Messages entering.                                                      *)

\* FindFrameSize finds a size: the least of a finite set that holds the default.
LEMMA LeastFrameSizeFacts ==
  ASSUME NEW r \in Routes
  PROVE  LeastFrameSize(r) \in Nat \ {0}
<1> DEFINE S == {MaxFrameLen} \cup (RouteMTUs(r) \ {0})
<1>1. S \subseteq Nat \ {0} /\ S # {}
  <2>1. r \in Seq([src : Intrfcs, dst : Intrfcs])
    BY TransitAssumption
  <2>2. ASSUME NEW i \in 1..Len(r)
        PROVE  r[i].src \in Intrfcs /\ r[i].dst \in Intrfcs
    <3>1. r[i] \in [src : Intrfcs, dst : Intrfcs]
      BY <2>1, ElementOfSeq
    <3>2. QED
      BY <3>1
  <2>3. RouteMTUs(r) \subseteq Nat
    BY <2>2, TransitAssumption DEF RouteMTUs
  <2>4. QED
    BY <2>3, TransitAssumption
<1>2. \E x \in S : \A y \in S : x <= y
  <2>1. PICK x \in S : \A y \in S : <<y, x>> \notin OpToRel(<, Nat)
    BY <1>1, NatLessThanWellFounded, WFMin
  <2>2. \A y \in S : ~ (y < x)
    BY <1>1, <2>1 DEF OpToRel
  <2>3. QED
    BY <1>1, <2>2
<1>3. Min(S) \in S
  BY <1>2 DEF Min
<1>4. QED
  BY <1>1, <1>3 DEF LeastFrameSize

\* A message is cut into at least one frame.
LEMMA NumFramesPositive ==
  ASSUME NEW len \in Nat \ {0}, NEW size \in 1..len
  PROVE  NumFrames(len, size) \in Nat \ {0}
<1>1. len \div size \in Nat
  OBVIOUS
<1>2. len % size = 0 => len \div size # 0
  <2>1. len = size * (len \div size) + (len % size)
    OBVIOUS
  <2>2. ASSUME len % size = 0, len \div size = 0 PROVE FALSE
    BY <2>1, <2>2
  <2>3. QED
    BY <2>2
<1>3. QED
  BY <1>1, <1>2 DEF NumFrames

\* EnterNetwork: the frames of the new connection are all before their first
\* side, or all before their last one, or all gone.
LEMMA EnterNetworkIInv ==
  ASSUME IInv, NEW c \in Conns, NEW r \in Routes, NEW len \in MsgLens,
         NEW latency \in Latencies, NEW report \in BOOLEAN, NEW background \in BOOLEAN,
         EnterNetwork(c, r, len, latency, report, background)
  PROVE  /\ IInv' /\ InOrder
         /\ c \notin Entered /\ c \notin returned /\ Entered' = Entered \cup {c}
         /\ conn'[c].report = report /\ conn'[c].frames \in 1..MaxFrames
         /\ \A d \in Conns \ {c} : conn'[d] = conn[d] /\ InNetwork(d)' = InNetwork(d)
         /\ Cardinality(InNetwork(c)') = IF latency = "Zero" THEN 0 ELSE conn'[c].frames
         /\ InNetwork(c) = {}
         /\ returned' = IF latency = "Zero" /\ report THEN returned \cup {c} ELSE returned
<1> DEFINE size == FindFrameSize(r, background)
           frameLen == IF len < size THEN len ELSE size
           n == NumFrames(len, frameLen)
           fs == {<<c, k>> : k \in 1..n}
           m == [route |-> r, len |-> len, frames |-> n, frameLen |-> frameLen, report |-> report]
<1>1. /\ NextConnectID(c) /\ n <= MaxFrames
      /\ frameSizeCache' = IF background THEN frameSizeCache ELSE size
      /\ conn' = [conn EXCEPT ![c] = m]
      /\ step' = [f \in Frames |-> IF f \in fs THEN FirstStep(r, latency) ELSE step[f]]
      /\ toEgress' = IF latency = "Simulate" THEN toEgress \cup fs ELSE toEgress
      /\ toIngress' = IF latency = "Place" THEN toIngress \cup fs ELSE toIngress
      /\ returnTo' = [returnTo EXCEPT ![c] = IF latency = "Zero" /\ report THEN None ELSE n]
      /\ returned' = IF latency = "Zero" /\ report THEN returned \cup {c} ELSE returned
      /\ UNCHANGED <<side, active, streaming>>
  BY DEF EnterNetwork
<1>2. /\ conn \in [Conns -> Message \cup {NoConn}] /\ step \in [Frames -> Nat]
      /\ returned \subseteq Entered /\ SidesOK /\ TypeOK
  BY SidesOfIInv DEF IInv
<1>3. size \in Nat \ {0}
  BY <1>2, LeastFrameSizeFacts DEF FindFrameSize, TypeOK
<1>4. len \in Nat \ {0} /\ frameLen \in 1..len
  BY <1>3, TransitAssumption
<1>5. n \in 1..MaxFrames
  BY <1>1, <1>4, NumFramesPositive, TransitAssumption
<1>6. m \in Message /\ m.frames = n /\ m.route = r /\ m.report = report
  BY <1>4, <1>5 DEF Message
<1>7. /\ conn' \in [Conns -> Message \cup {NoConn}] /\ conn'[c] = m
      /\ \A d \in Conns \ {c} : conn'[d] = conn[d]
  BY <1>1, <1>2, <1>6
<1>8. c \notin Entered /\ conn[c] = NoConn
  BY <1>1, <1>2, InNetworkFacts DEF NextConnectID
<1>9. Entered' = Entered \cup {c}
  BY <1>5, <1>6, <1>7, TransitAssumption DEF Entered
<1>10. r \in Seq([src : Intrfcs, dst : Intrfcs]) /\ r # << >> /\ Len(r) \in Nat \ {0}
       /\ DOMAIN r = 1..Len(r)
  <2>1. r \in Seq([src : Intrfcs, dst : Intrfcs]) /\ r # << >>
    BY TransitAssumption
  <2>2. QED
    BY <2>1
<1>11. /\ fs \subseteq Frames
       /\ \A f \in Frames : f[1] # c => f \notin fs
       /\ \A f \in Frames : f[1] = c => (f \in fs <=> f[2] <= n)
  BY <1>5, TransitAssumption DEF Frames
<1>12. FirstStep(r, latency) \in 1..(Len(r) + 1)
       /\ (FirstStep(r, latency) \in 1..Len(r) <=> latency # "Zero")
  BY <1>10 DEF FirstStep, Latencies
<1>13. ASSUME NEW f \in Frames, f[1] # c
       PROVE  /\ Route(f)' = Route(f) /\ step'[f] = step[f] /\ OnRoute(f)' = OnRoute(f)
              /\ EgressSide(f)' = EgressSide(f) /\ IngressSide(f)' = IngressSide(f)
  <2>1. f[1] \in Conns
    BY DEF Frames
  <2>2. Route(f)' = Route(f) /\ step'[f] = step[f]
    BY <1>1, <1>7, <1>11, <1>13, <2>1 DEF Route
  <2>3. QED
    BY <2>2 DEF OnRoute, EgressSide, IngressSide
<1>14. ASSUME NEW f \in Frames, f[1] = c
       PROVE  /\ Route(f)' = r
              /\ step'[f] = IF f \in fs THEN FirstStep(r, latency) ELSE 1
              /\ HeldAt(f) = {} /\ f \notin toEgress \cup toIngress
  <2>1. Route(f)' = r
    BY <1>6, <1>7, <1>14 DEF Route
  <2>2. Route(f) = << >>
    BY <1>8, <1>14 DEF Route, NoConn
  <2>3. step[f] = 1
    <3>1. step[f] \in 1..(Len(Route(f)) + 1)
      BY <1>2 DEF TypeOK
    <3>2. QED
      BY <2>2, <3>1
  <2>4. f \notin InNetwork(f[1])
    BY <2>2 DEF InNetwork, OnRoute
  <2>5. HeldAt(f) = {} /\ f \notin toEgress \cup toIngress
    BY <2>4 DEF IInv, Whereabouts
  <2>6. QED
    BY <1>1, <2>1, <2>3, <2>5
<1>15. \A d \in Conns \ {c} : InNetwork(d)' = InNetwork(d)
  <2>1. ASSUME NEW d \in Conns \ {c}
        PROVE  InNetwork(d)' = InNetwork(d)
    <3>1. InNetwork(d) = {f \in Frames : f[1] = d /\ f[2] <= conn[d].frames /\ OnRoute(f)}
      BY <1>2, InNetworkFacts
    <3>2. InNetwork(d)' = {f \in {<<d, k>> : k \in 1..conn[d].frames} : OnRoute(f)'}
      BY <1>7 DEF InNetwork
    <3>3. conn[d].frames \in 0..MaxFrames
      BY <1>2, InNetworkFacts
    <3>4. {<<d, k>> : k \in 1..conn[d].frames} = {f \in Frames : f[1] = d /\ f[2] <= conn[d].frames}
      BY <3>3, TransitAssumption DEF Frames
    <3>5. QED
      BY <3>1, <3>2, <3>4, <1>13
  <2>2. QED
    BY <2>1
<1>16. InNetwork(c)' = IF latency = "Zero" THEN {} ELSE fs
  <2>1. InNetwork(c)' = {f \in fs : OnRoute(f)'}
    BY <1>6, <1>7 DEF InNetwork
  <2>2. \A f \in fs : OnRoute(f)' <=> latency # "Zero"
    <3>1. ASSUME NEW f \in fs PROVE OnRoute(f)' <=> latency # "Zero"
      <4>1. f \in Frames /\ f[1] = c
        BY <1>11
      <4>2. Route(f)' = r /\ step'[f] = FirstStep(r, latency)
        BY <1>14, <4>1
      <4>3. QED
        BY <1>10, <1>12, <4>2 DEF OnRoute
    <3>2. QED
      BY <3>1
  <2>3. QED
    BY <2>1, <2>2
<1>17. Cardinality(InNetwork(c)') = IF latency = "Zero" THEN 0 ELSE n
  <2>1. n \in Nat
    BY <1>5, TransitAssumption
  <2>2. Cardinality(fs) = n
    BY <2>1, FramesCounted, Zenon
  <2>3. Cardinality({}) = 0
    BY FS_EmptySet
  <2>4. QED
    BY <1>16, <2>2, <2>3
<1>18. InNetwork(c) = {}
  BY <1>2, <1>8, InNetworkFacts
<1>19. SidesOK' /\ InOrder /\ \A g : HeldAt(g)' = HeldAt(g)
  BY <1>1, <1>2 DEF SidesOK, InOrder, Line, HeldAt, Held
<1>20. Whereabouts'
  <2>1. ASSUME NEW g \in Frames
        PROVE  (HeldAt(g) \in IF g \in InNetwork(g[1]) \ (toEgress \cup toIngress)
                             THEN {{EgressSide(g)}, {IngressSide(g)}} ELSE {{}})'
    <3>1. g[1] \in Conns
      BY DEF Frames
    <3>2. CASE g[1] = c
      <4>1. HeldAt(g)' = {}
        BY <1>14, <1>19, <3>2
      <4>2. ~ (g \in InNetwork(g[1])' \ (toEgress' \cup toIngress'))
        BY <1>1, <1>16, <3>2 DEF Latencies
      <4>3. QED
        BY <4>1, <4>2
    <3>3. CASE g[1] # c
      <4>1. g \in InNetwork(g[1])' <=> g \in InNetwork(g[1])
        BY <1>15, <3>1, <3>3
      <4>2. g \in toEgress' \cup toIngress' <=> g \in toEgress \cup toIngress
        BY <1>1, <1>11, <3>3
      <4>3. QED
        BY <1>13, <1>19, <3>3, <4>1, <4>2 DEF IInv, Whereabouts
    <3>4. QED
      BY <3>2, <3>3
  <2>2. ASSUME NEW g \in (toEgress \cup toIngress)'
        PROVE  g \in InNetwork(g[1])'
    <3>1. CASE g \in toEgress \cup toIngress
      <4>1. g \in Frames /\ g \in InNetwork(g[1]) /\ g[1] \in Conns
        BY <3>1, PendingInNetwork DEF Frames
      <4>2. g[1] # c
        BY <1>18, <4>1
      <4>3. QED
        BY <1>15, <4>1, <4>2
    <3>2. CASE g \notin toEgress \cup toIngress
      <4>1. g \in fs /\ latency # "Zero"
        BY <1>1, <2>2, <3>2
      <4>2. QED
        BY <1>16, <4>1
    <3>3. QED
      BY <3>1, <3>2
  <2>3. (toEgress \cap toIngress = {})'
    <3>1. fs \cap (toEgress \cup toIngress) = {}
      BY <1>11, <1>14
    <3>2. QED
      BY <1>1, <3>1 DEF IInv, Whereabouts
  <2>4. QED
    BY <2>1, <2>2, <2>3 DEF Whereabouts
<1>21. TypeOK'
  <2>1. ASSUME NEW d \in Entered'
        PROVE  /\ conn'[d].route \in Routes /\ conn'[d].frames \in 1..MaxFrames
               /\ conn'[d].frameLen \in 1..conn'[d].len /\ conn'[d].report \in BOOLEAN
    <3>1. CASE d = c
      BY <1>4, <1>5, <1>7, <3>1
    <3>2. CASE d # c
      BY <1>2, <1>7, <1>9, <2>1, <3>2 DEF TypeOK, Entered
    <3>3. QED
      BY <3>1, <3>2
  <2>2. ASSUME NEW f \in Frames
        PROVE  step'[f] \in 1..(Len(Route(f)') + 1)
    <3>1. CASE f[1] = c
      BY <1>10, <1>12, <1>14, <3>1
    <3>2. CASE f[1] # c
      BY <1>2, <1>13, <3>2 DEF TypeOK
    <3>3. QED
      BY <3>1, <3>2
  <2>3. toEgress' \in SUBSET Frames /\ toIngress' \in SUBSET Frames
    BY <1>1, <1>2, <1>11 DEF TypeOK
  <2>4. returnTo' \in [Conns -> 1..MaxFrames \cup {None}] /\ returned' \in SUBSET Conns
    BY <1>1, <1>2, <1>5 DEF TypeOK
  <2>5. frameSizeCache' \in (Nat \ {0}) \cup {None}
    BY <1>1, <1>2, <1>3 DEF TypeOK
  <2>6. side' \in [Sides -> SideType] /\ active' \in SUBSET BgfRoutes /\ streaming' \in SUBSET active'
    BY <1>1, <1>2 DEF TypeOK
  <2>7. QED
    BY <2>1, <2>2, <2>3, <2>4, <2>5, <2>6 DEF TypeOK
<1>22. OutstandingFrames'
  <2>1. ASSUME NEW d \in Entered', conn'[d].report
        PROVE  /\ (d \in returned') <=> (InNetwork(d)' = {})
               /\ returnTo'[d] = IF d \in returned' THEN None ELSE Cardinality(InNetwork(d)')
    <3>1. CASE d = c
      <4>1. c \notin returned /\ returnTo'[c] = IF latency = "Zero" THEN None ELSE n
        BY <1>1, <1>2, <1>6, <1>7, <1>8, <2>1, <3>1 DEF TypeOK
      <4>2. returned' = IF latency = "Zero" THEN returned \cup {c} ELSE returned
        BY <1>1, <1>6, <1>7, <2>1, <3>1
      <4>3. <<c, 1>> \in fs
        BY <1>5
      <4>4. QED
        BY <1>16, <1>17, <3>1, <4>1, <4>2, <4>3
    <3>2. CASE d # c
      <4>1. d \in Entered /\ d \in Conns \ {c} /\ conn[d].report
        BY <1>7, <1>9, <2>1, <3>2 DEF Entered
      <4>2. returnTo'[d] = returnTo[d] /\ (d \in returned' <=> d \in returned)
        BY <1>1, <1>2, <3>2, <4>1 DEF TypeOK
      <4>3. QED
        BY <1>15, <4>1, <4>2 DEF IInv, OutstandingFrames
    <3>3. QED
      BY <3>1, <3>2
  <2>2. QED
    BY <2>1 DEF OutstandingFrames
<1>23. returned' \subseteq Entered'
  BY <1>1, <1>2, <1>9
<1>24. step' \in [Frames -> Nat]
  BY <1>1, <1>2, <1>12
<1>25. IInv'
  BY <1>7, <1>19, <1>20, <1>21, <1>22, <1>23, <1>24 DEF IInv, SidesOK
<1>26. c \notin returned
  BY <1>2, <1>8
<1>27. conn'[c].report = report /\ conn'[c].frames = n
  BY <1>6, <1>7
<1>28. QED
  BY <1>1, <1>5, <1>7, <1>8, <1>9, <1>15, <1>17, <1>18, <1>19, <1>25, <1>26, <1>27

----------------------------------------------------------------------------
(* Every step.                                                             *)

\* Streams only change which frames may be held back.
LEMMA StreamIInv ==
  ASSUME IInv, NEW r \in BgfRoutes, ActivateStream(r) \/ PushStrmServiceTimes(r)
  PROVE  IInv' /\ InOrder
<1>1. /\ UNCHANGED <<conn, step, toEgress, toIngress, side, returnTo, returned, frameSizeCache>>
      /\ active' \in SUBSET BgfRoutes /\ streaming' \in SUBSET active'
  BY DEF ActivateStream, PushStrmServiceTimes, IInv, TypeOK
<1>2. SidesOK' /\ InOrder
  BY <1>1, SidesOfIInv DEF SidesOK, InOrder, Line
<1>3. Whereabouts'
  BY <1>1 DEF IInv, Whereabouts, HeldAt, Held, InNetwork, OnRoute, Route, EgressSide, IngressSide
<1>4. IInv'
  BY <1>1, <1>2, <1>3, SameRoutesIInv DEF IInv, TypeOK
<1>5. QED
  BY <1>2, <1>4

LEMMA FrameStepIInv ==
  ASSUME IInv, NEW f \in Frames, FrameStep(f)
  PROVE  IInv' /\ InOrder
BY EnterEgressIInv, EnterIngressIInv, EnterServiceIInv, ExitEgressIInv, ArriveIngressIInv
   DEF FrameStep

LEMMA StepIInv ==
  ASSUME IInv, [Next]_vars
  PROVE  IInv' /\ InOrder
<1>1. ASSUME NEW c \in Conns, NEW len \in MsgLens, NEW r \in Routes,
             NEW latency \in Latencies, NEW report \in BOOLEAN,
             EnterMessage(c, r, len, latency, report)
      PROVE  IInv' /\ InOrder
  BY <1>1, EnterNetworkIInv DEF EnterMessage
<1>2. ASSUME NEW c \in Conns, NEW len \in MsgLens, NEW r \in BgfRoutes, EnterBgfPckt(c, r, len)
      PROVE  IInv' /\ InOrder
  <2>1. r \in Routes /\ "Simulate" \in Latencies
    BY TransitAssumption DEF Latencies
  <2>2. QED
    BY <1>2, <2>1, EnterNetworkIInv DEF EnterBgfPckt
<1>3. ASSUME NEW f \in Frames, FrameStep(f)
      PROVE  IInv' /\ InOrder
  BY <1>3, FrameStepIInv
<1>4. ASSUME NEW r \in BgfRoutes, ActivateStream(r) \/ PushStrmServiceTimes(r)
      PROVE  IInv' /\ InOrder
  BY <1>4, StreamIInv
<1>5. CASE UNCHANGED vars
  <2>1. /\ UNCHANGED <<conn, step, toEgress, toIngress, side, returnTo, returned, frameSizeCache>>
        /\ active' \in SUBSET BgfRoutes /\ streaming' \in SUBSET active'
    BY <1>5 DEF vars, IInv, TypeOK
  <2>2. SidesOK' /\ InOrder
    BY <2>1, SidesOfIInv DEF SidesOK, InOrder, Line
  <2>3. Whereabouts'
    BY <2>1 DEF IInv, Whereabouts, HeldAt, Held, InNetwork, OnRoute, Route, EgressSide, IngressSide
  <2>4. IInv'
    BY <2>1, <2>2, <2>3, SameRoutesIInv DEF IInv, TypeOK
  <2>5. QED
    BY <2>2, <2>4
<1>6. QED
  BY <1>1, <1>2, <1>3, <1>4, <1>5 DEF Next

----------------------------------------------------------------------------
(* Theorems.                                                               *)

\* The inductive invariant holds in every reachable state.
THEOREM Invariance == Spec => []IInv
<1>1. Init => IInv
  BY InitIInv
<1>2. IInv /\ [Next]_vars => IInv'
  BY StepIInv
<1>3. QED
  BY <1>1, <1>2, PTL DEF Spec

\* The state keeps its shape, and the count of outstanding frames never stands
\* at zero in an entry of ReturnTo.
THEOREM TypeCorrect == Spec => []TypeOK
<1>1. IInv => TypeOK
  BY DEF IInv
<1>2. QED
  BY <1>1, Invariance, PTL

\* enterIntrfcService never meets the ordering panic: when it fires, the head of
\* the queue is the frame it was scheduled for.
THEOREM HeadsStillThere == Spec => []HeadStillThere
<1>1. IInv => HeadStillThere
  BY DEF IInv, SideOK, HeadStillThere
<1>2. QED
  BY <1>1, Invariance, PTL

\* Each side of an interface serves one frame at a time, and the transit flag
\* tells whether it does.
THEOREM OneFrameAtATime == Spec => []OneFrameInService
<1>1. IInv => OneFrameInService
  <2> SUFFICES ASSUME IInv, NEW s \in Sides
               PROVE  /\ Cardinality(side[s].leaving) = IF side[s].transit THEN 1 ELSE 0
                      /\ Cardinality(side[s].entering) <= 1
                      /\ side[s].transit => side[s].entering = {}
    BY DEF OneFrameInService
  <2>1. SideOK(side[s])
    BY DEF IInv
  <2>2. Cardinality(side[s].leaving) = IF side[s].transit THEN 1 ELSE 0
    BY <2>1, FS_EmptySet, FS_Singleton DEF SideOK
  <2>3. Cardinality(side[s].entering) <= 1
    <3>1. CASE side[s].entering = {}
      BY <3>1, FS_EmptySet
    <3>2. CASE side[s].entering # {}
      <4>1. side[s].entering = {Head(side[s].queue)}
        BY <2>1, <3>2 DEF SideOK
      <4>2. Cardinality(side[s].entering) = 1
        BY <4>1, FS_Singleton, Zenon
      <4>3. QED
        BY <4>2
    <3>3. QED
      BY <3>1, <3>2
  <2>4. QED
    BY <2>1, <2>2, <2>3 DEF SideOK
<1>2. QED
  BY <1>1, Invariance, PTL

\* No wakeup is lost: a queue with frames has an event pending that fetches one.
THEOREM QueuesAreServed == Spec => []QueueIsServed
<1>1. IInv => QueueIsServed
  BY DEF IInv, SideOK, QueueIsServed
<1>2. QED
  BY <1>1, Invariance, PTL

\* No frame is lost, duplicated, or at a side that is not its next one.
THEOREM FramesAtOnePlace == Spec => []FrameAtOnePlace
<1>1. IInv => FrameAtOnePlace
  BY DEF IInv, SideOK, Whereabouts, FrameAtOnePlace
<1>2. QED
  BY <1>1, Invariance, PTL

\* A report is made exactly when the last frame of its message has departed.
THEOREM FramesCountedRight == Spec => []OutstandingFrames
<1>1. IInv => OutstandingFrames
  BY DEF IInv
<1>2. QED
  BY <1>1, Invariance, PTL

\* Frames leave each side in the order in which they came.
THEOREM FramesInOrder == Spec => FirstInFirstOut
<1>1. IInv /\ [Next]_vars => [InOrder]_vars
  BY StepIInv
<1>2. QED
  BY <1>1, Invariance, PTL DEF Spec, FirstInFirstOut, InOrder

----------------------------------------------------------------------------
(* What the network promises (MessageDelivery).                            *)

Left == [c \in Conns |-> Cardinality(InNetwork(c))]
Wanted == {c \in Entered : conn[c].report}

\* With no connection made yet, no frame is left.
LEMMA InitDelivers == Init => Delivery!Init
<1> SUFFICES ASSUME Init PROVE Left = [c \in Conns |-> 0] /\ Wanted = {} /\ returned = {}
  BY DEF Delivery!Init, Left, Wanted
<1>1. Entered = {} /\ returned = {}
  BY DEF Init, Entered, NoConn
<1>2. ASSUME NEW c \in Conns PROVE Cardinality(InNetwork(c)) = 0
  <2>1. InNetwork(c) = {}
    BY <1>1, InitIInv, InNetworkFacts DEF IInv
  <2>2. QED
    BY <2>1, FS_EmptySet
<1>3. QED
  BY <1>1, <1>2 DEF Left, Wanted

\* A message that enters is new to the user, with all its frames left, or none.
LEMMA EnterDelivers ==
  ASSUME IInv, NEW c \in Conns, NEW r \in Routes, NEW len \in MsgLens,
         NEW latency \in Latencies, NEW report \in BOOLEAN, NEW background \in BOOLEAN,
         EnterNetwork(c, r, len, latency, report, background)
  PROVE  Delivery!Next
<1> DEFINE n == IF latency = "Zero" THEN 0 ELSE conn'[c].frames
<1>1. /\ c \notin Entered /\ c \notin returned /\ Entered' = Entered \cup {c}
      /\ conn'[c].report = report /\ conn'[c].frames \in 1..MaxFrames
      /\ \A d \in Conns \ {c} : conn'[d] = conn[d] /\ InNetwork(d)' = InNetwork(d)
      /\ Cardinality(InNetwork(c)') = n
      /\ InNetwork(c) = {}
      /\ returned' = IF latency = "Zero" /\ report THEN returned \cup {c} ELSE returned
  BY EnterNetworkIInv
<1>2. n \in 0..MaxFrames /\ (n = 0 <=> latency = "Zero")
  BY <1>1, TransitAssumption
<1>3. c \notin Wanted /\ Left[c] = 0
  BY <1>1, FS_EmptySet DEF Wanted, Left
<1>4. Left' = [Left EXCEPT ![c] = n]
  BY <1>1 DEF Left
<1>5. Wanted' = IF report THEN Wanted \cup {c} ELSE Wanted
  <2>1. \A d \in Entered : d \in Conns \ {c}
    BY <1>1 DEF Entered
  <2>2. QED
    BY <1>1, <2>1 DEF Wanted
<1>6. returned' = IF report /\ n = 0 THEN returned \cup {c} ELSE returned
  BY <1>1, <1>2
<1>7. Delivery!Fresh(c)
  BY <1>3 DEF Delivery!Fresh, Left, Wanted
<1>8. Delivery!Enter(c, n, report)
  BY <1>4, <1>5, <1>6 DEF Delivery!Enter, Left, Wanted
<1>9. QED
  BY <1>2, <1>7, <1>8 DEF Delivery!Next

\* Where no frame leaves the network and none enters, the user sees nothing.
LEMMA InsideUnseen ==
  ASSUME UNCHANGED <<conn, returned>>, \A c \in Conns : InNetwork(c)' = InNetwork(c)
  PROVE  UNCHANGED Delivery!vars
<1>1. Left' = Left
  BY DEF Left
<1>2. Wanted' = Wanted
  BY DEF Wanted, Entered
<1>3. QED
  BY <1>1, <1>2 DEF Delivery!vars, Left, Wanted

\* A frame that arrives at the end of its route is delivered.
LEMMA ArriveDelivers ==
  ASSUME IInv, NEW f \in Frames, ArriveIngressIntrfc(f)
  PROVE  Delivery!Next \/ UNCHANGED Delivery!vars
<1> DEFINE c == f[1]
           k == Cardinality(InNetwork(c))
<1>1. /\ OnRoute(f) /\ step' = [step EXCEPT ![f] = @ + 1] /\ conn' = conn
      /\ LastStep(f) => Depart(c)
      /\ ~ LastStep(f) => UNCHANGED <<returnTo, returned>>
  BY DEF ArriveIngressIntrfc, transitVars
<1>2. f \in InNetwork(c) /\ c \in Conns /\ conn \in [Conns -> Message \cup {NoConn}]
  BY ArriveIngressLeaves, HeldInNetwork DEF Frames, IInv
<1>3. \A d \in Conns : InNetwork(d)' = IF d = c /\ LastStep(f) THEN InNetwork(d) \ {f}
                                                              ELSE InNetwork(d)
  BY <1>1, <1>2, NextStepFacts
<1>4. CASE LastStep(f)
  <2>1. returned' = IF conn[c].report /\ k = 1 THEN returned \cup {c} ELSE returned
    BY <1>1, <1>2, <1>3, <1>4, DepartFacts
  <2>2. k \in Nat \ {0} /\ IsFiniteSet(InNetwork(c)) /\ c \in Entered
    BY <1>2, InNetworkFinite, InNetworkFacts
  <2>3. Cardinality(InNetwork(c)') = k - 1
    BY <1>2, <1>3, <1>4, <2>2, FS_RemoveElement
  <2>4. Left[c] > 0 /\ Left' = [Left EXCEPT ![c] = @ - 1]
    BY <1>2, <1>3, <2>2, <2>3 DEF Left
  <2>5. Wanted' = Wanted /\ (c \in Wanted <=> conn[c].report)
    BY <1>1, <2>2 DEF Wanted, Entered
  <2>6. returned' = IF c \in Wanted /\ Left[c] = 1 THEN returned \cup {c} ELSE returned
    BY <1>2, <2>1, <2>5 DEF Left
  <2>7. Delivery!Deliver(c)
    BY <2>4, <2>5, <2>6 DEF Delivery!Deliver, Left, Wanted
  <2>8. QED
    BY <1>2, <2>7 DEF Delivery!Next
<1>5. CASE ~ LastStep(f)
  BY <1>1, <1>3, <1>5, InsideUnseen
<1>6. QED
  BY <1>4, <1>5

\* Every step of the network is one that the user was promised, or unseen.
LEMMA StepDelivers ==
  ASSUME IInv, [Next]_vars
  PROVE  [Delivery!Next]_(Delivery!vars)
<1>1. ASSUME NEW c \in Conns, NEW len \in MsgLens, NEW r \in Routes,
             NEW latency \in Latencies, NEW report \in BOOLEAN,
             EnterMessage(c, r, len, latency, report)
      PROVE  Delivery!Next
  BY <1>1, EnterDelivers DEF EnterMessage
<1>2. ASSUME NEW c \in Conns, NEW len \in MsgLens, NEW r \in BgfRoutes, EnterBgfPckt(c, r, len)
      PROVE  Delivery!Next
  <2>1. r \in Routes /\ "Simulate" \in Latencies
    BY TransitAssumption DEF Latencies
  <2>2. QED
    BY <1>2, <2>1, EnterDelivers DEF EnterBgfPckt
<1>3. ASSUME NEW f \in Frames, FrameStep(f)
      PROVE  Delivery!Next \/ UNCHANGED Delivery!vars
  <2>1. CASE ArriveIngressIntrfc(f)
    BY <2>1, ArriveDelivers
  <2>2. CASE ~ ArriveIngressIntrfc(f)
    <3>1. UNCHANGED <<conn, step, returned>>
      BY <1>3, <2>2 DEF FrameStep, EnterEgressIntrfc, EnterIngressIntrfc, EnterIntrfcService,
                        ExitEgressIntrfc, transitVars
    <3>2. QED
      BY <3>1, SameRoutes, InsideUnseen
  <2>3. QED
    BY <2>1, <2>2
<1>4. ASSUME NEW r \in BgfRoutes, ActivateStream(r) \/ PushStrmServiceTimes(r)
      PROVE  UNCHANGED Delivery!vars
  <2>1. UNCHANGED <<conn, step, returned>>
    BY <1>4 DEF ActivateStream, PushStrmServiceTimes
  <2>2. QED
    BY <2>1, SameRoutes, InsideUnseen
<1>5. CASE UNCHANGED vars
  <2>1. UNCHANGED <<conn, step, returned>>
    BY <1>5 DEF vars
  <2>2. QED
    BY <2>1, SameRoutes, InsideUnseen
<1>6. QED
  BY <1>1, <1>2, <1>3, <1>4, <1>5 DEF Next

\* The safety part of DeliverySpec: interfaces, devices and delays together
\* implement the network that the importing program was promised.  (That every
\* frame gets through is liveness and is model-checked.)
THEOREM DeliveryImplemented == Spec => Delivery!Init /\ [][Delivery!Next]_(Delivery!vars)
<1>1. Init => Delivery!Init
  BY InitDelivers
<1>2. IInv /\ [Next]_vars => [Delivery!Next]_(Delivery!vars)
  BY StepDelivers
<1>3. QED
  BY <1>1, <1>2, Invariance, PTL DEF Spec
============================================================================
