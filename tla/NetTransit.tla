----------------------------- MODULE NetTransit -----------------------------
(***************************************************************************)
(* Frames on their way through interfaces and devices (net.go), from       *)
(* EnterNetwork to Depart.                                                 *)
(*                                                                         *)
(* Each side of an interface is a first-in first-out queue in front of one *)
(* server.  Three kinds of events move a frame through a side: one that    *)
(* adds it to the queue (enterEgressIntrfc, enterIngressIntrfc), possibly  *)
(* one that enters it into service after a delay caused by background      *)
(* streams (enterIntrfcService), and one that ends its service             *)
(* (exitEgressIntrfc, arriveIngressIntrfc).  Delays depend on lengths,     *)
(* loads and random priorities, so pending events fire in any order.       *)
(***************************************************************************)
EXTENDS Integers, Sequences, FiniteSets, FiniteSetsExt, SequencesExt

CONSTANTS
  Intrfcs,      \* interfaces
  Routes,       \* sequences of steps [src |-> interface, dst |-> interface]
  BgfRoutes,    \* routes that background flows take
  Conns,        \* connectIDs, given out once each, in order
  MaxFrames,    \* bound on the frames of a message
  MsgLens,      \* lengths of messages, of packets and of stream frames
  MaxFrameLen,  \* 1560, the frame size where no MTU is smaller
  MTU           \* State.MTU of each interface, 0 when unset

ASSUME TransitAssumption ==
  /\ Routes \subseteq Seq([src : Intrfcs, dst : Intrfcs]) \ {<< >>}
  /\ BgfRoutes \subseteq Routes
  /\ Conns \subseteq Nat /\ MsgLens \subseteq Nat \ {0}
  /\ MaxFrameLen \in Nat \ {0}
  /\ MTU \in [Intrfcs -> Nat]
  /\ MaxFrames \in Nat \ {0}

Frames == Conns \X (1..MaxFrames)

\* The sides of interfaces that routes pass through.
RouteSides(r) == {<<r[i].src, "egress">> : i \in 1..Len(r)}
                   \cup {<<r[i].dst, "ingress">> : i \in 1..Len(r)}

Sides == UNION {RouteSides(r) : r \in Routes}

Latencies == {"Zero", "Place", "Simulate"}

None == -1

VARIABLES
  conn,       \* a connection's route and frames, and whether it wants a report
  step,       \* StepIdx of a frame, from 1; past the route when it has departed
  toEgress,   \* frames with a pending enterEgressIntrfc event
  toIngress,  \* frames with a pending enterIngressIntrfc event
  side,       \* state of each side of each interface
  returnTo,   \* np.ReturnTo[connectID].pckts, or None when there is no entry
  returned,   \* connections whose rtnFunc has been scheduled
  frameSizeCache, \* FrameSizeCache[0], the entry of packets, or None
  active,     \* routes of flows that made their interfaces' strmQ active
  streaming   \* routes of flows that set streaming on their interfaces

vars == <<conn, step, toEgress, toIngress, side, returnTo, returned,
          frameSizeCache, active, streaming>>

NoConn == [route |-> << >>, len |-> 0, frames |-> 0, frameLen |-> 0, report |-> FALSE]

Entered == {c \in Conns : conn[c].frames > 0}

\* queue is msgQueue; transit is EgressTransit or IngressTransit; entering
\* and leaving hold the frames with a pending enterIntrfcService event and a
\* pending exitEgressIntrfc or arriveIngressIntrfc event at this side.
IdleSide == [queue |-> << >>, transit |-> FALSE, entering |-> {}, leaving |-> {}]

SideType == [queue : Seq(Frames), transit : BOOLEAN,
             entering : SUBSET Frames, leaving : SUBSET Frames]

----------------------------------------------------------------------------
(* One side of an interface.                                               *)

\* A flow gives a rate to the sides of its route but the last, the ingress
\* side at its destination (SetFlowRate), so that side's strmQ stays inactive;
\* bgfPushStrmServiceTimes marks every side.
FlowSides(r) == RouteSides(r) \ {<<r[Len(r)].dst, "ingress">>}

IsActive(s) == \E r \in active : s \in FlowSides(r)
IsStreaming(s) == \E r \in streaming : s \in RouteSides(r)

\* Defects of enterIntrfcService: the head stays in the queue; the last message
\* is taken.
StartServiceUnpopped(d) == [d EXCEPT !.transit = TRUE,
                                     !.leaving = @ \cup {Head(d.queue)}]

StartServiceOfLast(d) == [d EXCEPT !.transit = TRUE,
                                   !.queue = Front(@),
                                   !.leaving = @ \cup {Last(d.queue)}]

\* enterIntrfcService: pop the head and schedule the end of its service.
StartService(d) == [d EXCEPT !.transit = TRUE,
                             !.queue = Tail(@),
                             !.leaving = @ \cup {Head(d.queue)}]

\* queueingDelay is asked how long streams hold the head of the queue back.
\* An inactive strmQ says not at all; an active one may go either way.
HeadToService(s, d) ==
  {StartService(d)} \cup
    (IF IsActive(s) THEN {[d EXCEPT !.entering = @ \cup {Head(d.queue)}]} ELSE {})

\* Defects of addNetworkMsg: the length of the queue is not looked at; a message
\* joins in front.
AddNetworkMsgEager(s, f) ==
  LET d == [side[s] EXCEPT !.queue = Append(@, f)]
  IN  IF d.transit THEN {d}
      ELSE IF IsStreaming(s) THEN HeadToService(s, d)
      ELSE {StartService(d)}

AddNetworkMsgInFront(s, f) ==
  LET d == [side[s] EXCEPT !.queue = <<f>> \o @]
  IN  IF d.transit \/ Len(d.queue) # 1 THEN {d} ELSE HeadToService(s, d)

\* addNetworkMsg: only the arrival at an idle, empty side starts anything.
AddNetworkMsg(s, f) ==
  LET d == [side[s] EXCEPT !.queue = Append(@, f)]
  IN  IF d.transit \/ Len(d.queue) # 1 THEN {d}
      ELSE IF IsStreaming(s) THEN HeadToService(s, d)
      ELSE {StartService(d)}

\* Defect: schedNxtMsgToIntrfc is not called.
EndServiceOnly(s, f) == {[side[s] EXCEPT !.transit = FALSE, !.leaving = @ \ {f}]}

\* The side after the end of a service: the flag is cleared, and
\* schedNxtMsgToIntrfc sees to the next frame in the queue.
EndService(s, f) ==
  LET d == [side[s] EXCEPT !.transit = FALSE, !.leaving = @ \ {f}]
  IN  IF d.queue = << >> THEN {d} ELSE HeadToService(s, d)

----------------------------------------------------------------------------
(* The ends of the network.                                                *)

Route(f) == conn[f[1]].route
EgressSide(f) == <<Route(f)[step[f]].src, "egress">>
IngressSide(f) == <<Route(f)[step[f]].dst, "ingress">>
OnRoute(f) == step[f] \in DOMAIN Route(f)

\* Routes do not pass through endpoints, so an interface of an endpoint is
\* the last of its route.
LastStep(f) == step[f] = Len(Route(f))

\* FindFrameSize without the cache: the least MTU along a route.
RouteMTUs(r) == {MTU[r[i].src] : i \in 1..Len(r)} \cup {MTU[r[i].dst] : i \in 1..Len(r)}

LeastFrameSize(r) == Min({MaxFrameLen} \cup (RouteMTUs(r) \ {0}))

\* FindFrameSize.  A packet of a background flow asks with its flow's ID, and
\* a flow keeps its route; the other packets all ask with flow ID 0.
FindFrameSize(r, background) ==
  IF background \/ frameSizeCache = None THEN LeastFrameSize(r) ELSE frameSizeCache

\* Defects of Depart: the first frame makes the report; the entry is kept.
AfterDepartOfFirst(pckts) == None

AfterDepartKept(pckts) == pckts - 1

\* Depart called for one frame of a message when pckts of them are missing: the
\* last one schedules the report and removes the entry.  A background packet
\* has no return context and Depart leaves its entry alone.
AfterDepart(pckts) == IF pckts = 1 THEN None ELSE pckts - 1

Depart(c) ==
  IF returnTo[c] # None /\ conn[c].report
  THEN /\ returnTo' = [returnTo EXCEPT ![c] = AfterDepart(@)]
       /\ returned' = IF returnTo'[c] = None THEN returned \cup {c} ELSE returned
  ELSE UNCHANGED <<returnTo, returned>>

Init ==
  /\ conn = [c \in Conns |-> NoConn]
  /\ step = [f \in Frames |-> 1]
  /\ toEgress = {} /\ toIngress = {}
  /\ side = [s \in Sides |-> IdleSide]
  /\ returnTo = [c \in Conns |-> None]
  /\ returned = {}
  /\ frameSizeCache = None
  /\ active = {} /\ streaming = {}

\* c is the connection ID that nxtConnectID gives next.
NextConnectID(c) == c \notin Entered /\ \A d \in Conns \ Entered : c <= d

\* EnterNetwork with a discrete packet, together with Arrive and SendNetMsg
\* of each of its frames.  Zero latency departs the frames within the call;
\* Place puts them before the last interface of the route.
NumFrames(len, size) == IF len % size = 0 THEN len \div size ELSE (len \div size) + 1

FirstStep(r, latency) == CASE latency = "Simulate" -> 1
                           [] latency = "Place"    -> Len(r)
                           [] latency = "Zero"     -> Len(r) + 1

EnterNetwork(c, r, len, latency, report, background) ==
  LET size == FindFrameSize(r, background)
      frameLen == IF len < size THEN len ELSE size
      n == NumFrames(len, frameLen)
      fs == {<<c, k>> : k \in 1..n}
  IN  /\ NextConnectID(c)
      /\ n <= MaxFrames
      /\ frameSizeCache' = IF background THEN frameSizeCache ELSE size
      /\ conn' = [conn EXCEPT ![c] = [route |-> r, len |-> len, frames |-> n,
                                      frameLen |-> frameLen, report |-> report]]
      /\ step' = [f \in Frames |-> IF f \in fs THEN FirstStep(r, latency) ELSE step[f]]
      /\ toEgress' = IF latency = "Simulate" THEN toEgress \cup fs ELSE toEgress
      /\ toIngress' = IF latency = "Place" THEN toIngress \cup fs ELSE toIngress
      /\ returnTo' = [returnTo EXCEPT ![c] = IF latency = "Zero" /\ report THEN None ELSE n]
      /\ returned' = IF latency = "Zero" /\ report THEN returned \cup {c} ELSE returned
      /\ UNCHANGED <<side, active, streaming>>

\* A message of the program, which may or may not ask for a report.
EnterMessage(c, r, len, latency, report) == EnterNetwork(c, r, len, latency, report, FALSE)

\* bgfPcktArrivals: a packet of a background flow, which nobody waits for.
EnterBgfPckt(c, r, len) == EnterNetwork(c, r, len, "Simulate", FALSE, TRUE)

transitVars == <<conn, frameSizeCache, active, streaming>>

EnterEgressIntrfc(f) ==
  /\ f \in toEgress
  /\ toEgress' = toEgress \ {f}
  /\ \E d \in AddNetworkMsg(EgressSide(f), f) :
       side' = [side EXCEPT ![EgressSide(f)] = d]
  /\ UNCHANGED <<step, toIngress, returnTo, returned, transitVars>>

EnterIngressIntrfc(f) ==
  /\ f \in toIngress
  /\ toIngress' = toIngress \ {f}
  /\ \E d \in AddNetworkMsg(IngressSide(f), f) :
       side' = [side EXCEPT ![IngressSide(f)] = d]
  /\ UNCHANGED <<step, toEgress, returnTo, returned, transitVars>>

\* The delayed entry into service.  The handler panics when the queue is
\* empty or its head is not f: see HeadStillThere.
EnterIntrfcService(s, f) ==
  /\ f \in side[s].entering
  /\ side[s].queue # << >> /\ Head(side[s].queue) = f
  /\ side' = [side EXCEPT ![s] =
                StartService([side[s] EXCEPT !.entering = @ \ {f}])]
  /\ UNCHANGED <<step, toEgress, toIngress, returnTo, returned, transitVars>>

\* The frame leaves for the interface at the other end of the link or network.
ExitEgressIntrfc(f) ==
  /\ OnRoute(f)
  /\ f \in side[EgressSide(f)].leaving
  /\ \E d \in EndService(EgressSide(f), f) :
       side' = [side EXCEPT ![EgressSide(f)] = d]
  /\ toIngress' = toIngress \cup {f}
  /\ UNCHANGED <<step, toEgress, returnTo, returned, transitVars>>

\* At an endpoint the frame departs; a switch or router passes it on.
ArriveIngressIntrfc(f) ==
  /\ OnRoute(f)
  /\ f \in side[IngressSide(f)].leaving
  /\ \E d \in EndService(IngressSide(f), f) :
       side' = [side EXCEPT ![IngressSide(f)] = d]
  /\ step' = [step EXCEPT ![f] = @ + 1]
  /\ \/ /\ LastStep(f)
        /\ Depart(f[1])
        /\ UNCHANGED toEgress
     \/ /\ ~ LastStep(f)
        /\ toEgress' = toEgress \cup {f}
        /\ UNCHANGED <<returnTo, returned>>
  /\ UNCHANGED <<toIngress, transitVars>>

\* A background flow over r: its acceptance makes the streams active, and
\* bgfPushStrmServiceTimes marks the interfaces as streaming.  They are
\* separate events, and nothing takes either mark back.
ActivateStream(r) ==
  /\ r \notin active
  /\ active' = active \cup {r}
  /\ UNCHANGED <<conn, step, toEgress, toIngress, side, returnTo, returned,
                 frameSizeCache, streaming>>

PushStrmServiceTimes(r) ==
  /\ r \in active \ streaming
  /\ streaming' = streaming \cup {r}
  /\ UNCHANGED <<conn, step, toEgress, toIngress, side, returnTo, returned,
                 frameSizeCache, active>>

\* The events that move f, each of which the event manager will fire.
FrameStep(f) ==
  \/ EnterEgressIntrfc(f)
  \/ EnterIngressIntrfc(f)
  \/ \E s \in Sides : EnterIntrfcService(s, f)
  \/ ExitEgressIntrfc(f)
  \/ ArriveIngressIntrfc(f)

Next ==
  \/ \E c \in Conns, len \in MsgLens :
       \/ \E r \in Routes, latency \in Latencies, report \in BOOLEAN :
            EnterMessage(c, r, len, latency, report)
       \/ \E r \in BgfRoutes : EnterBgfPckt(c, r, len)
  \/ \E f \in Frames : FrameStep(f)
  \/ \E r \in BgfRoutes : ActivateStream(r) \/ PushStrmServiceTimes(r)

Spec == Init /\ [][Next]_vars

FairSpec == Spec /\ WF_vars(\E f \in Frames : FrameStep(f))

----------------------------------------------------------------------------
(* Properties.                                                             *)

\* The state has its shape; the counter of outstanding frames never reaches
\* zero without its entry being removed (Depart deletes ReturnTo[connectID]).
TypeOK ==
  /\ \A c \in Entered : /\ conn[c].route \in Routes
                        /\ conn[c].frames \in 1..MaxFrames
                        /\ conn[c].frameLen \in 1..conn[c].len
                        /\ conn[c].report \in BOOLEAN
  /\ \A f \in Frames : step[f] \in 1..(Len(Route(f)) + 1)
  /\ toEgress \in SUBSET Frames /\ toIngress \in SUBSET Frames
  /\ side \in [Sides -> SideType]
  /\ returnTo \in [Conns -> 1..MaxFrames \cup {None}]
  /\ returned \in SUBSET Conns
  /\ frameSizeCache \in (Nat \ {0}) \cup {None}
  /\ active \in SUBSET BgfRoutes /\ streaming \in SUBSET active

\* Frames of c that have not departed.
InNetwork(c) == {f \in {<<c, k>> : k \in 1..conn[c].frames} : OnRoute(f)}

\* A delayed enterIntrfcService is scheduled with the MsgID of the head of the
\* queue and pops whatever is the head when it fires, panicking with "intrfcQ
\* msgQueue ordering problem" on another message and dereferencing nil on an
\* empty queue.  Whatever arrives, and whichever services end, in between, the
\* head is still the frame the event was scheduled for.
HeadStillThere ==
  \A s \in Sides : \A f \in side[s].entering :
    side[s].queue # << >> /\ Head(side[s].queue) = f

\* One frame at a time passes through a side of an interface: the transit flag
\* is up exactly while an end of service is pending, there is never more than
\* one such event, and no entry into service is pending next to it.
OneFrameInService ==
  \A s \in Sides :
    /\ Cardinality(side[s].leaving) = IF side[s].transit THEN 1 ELSE 0
    /\ Cardinality(side[s].entering) <= 1
    /\ side[s].transit => side[s].entering = {}

\* No lost wakeup: addNetworkMsg leaves a frame in the queue only because
\* something else will fetch it, so a queue with frames always has an end of
\* service or an entry into service pending.
QueueIsServed ==
  \A s \in Sides :
    side[s].queue # << >> => side[s].transit \/ side[s].entering # {}

\* Frames in the queue or the server of a side.  (A pending enterIntrfcService
\* concerns a frame in the queue.)
Held(s) == Range(side[s].queue) \cup side[s].leaving

HeldAt(f) == {s \in Sides : f \in Held(s)}

\* Frames are neither lost nor duplicated between handlers that copy the
\* message by value (exitEgressIntrfc, arriveIngressIntrfc) and handlers that
\* pass a pointer: a frame in the network has one pending entry to a side, or
\* is at one side of the current step of its route, once; a frame that has
\* departed is nowhere.
FrameAtOnePlace ==
  /\ \A s \in Sides : /\ IsInjective(side[s].queue)
                      /\ Range(side[s].queue) \cap side[s].leaving = {}
  /\ \A f \in Frames :
       HeldAt(f) \in IF f \in InNetwork(f[1]) \ (toEgress \cup toIngress)
                    THEN {{EgressSide(f)}, {IngressSide(f)}} ELSE {{}}
  /\ \A f \in toEgress \cup toIngress : f \in InNetwork(f[1])
  /\ toEgress \cap toIngress = {}

\* The report counts right: while frames of a message that wants a report are
\* in the network, ReturnTo[connectID].pckts is their number, and the entry is
\* gone, the report made, from the moment the last one departs.
OutstandingFrames ==
  \A c \in Entered : conn[c].report =>
    /\ (c \in returned) <=> (InNetwork(c) = {})
    /\ returnTo[c] = IF c \in returned THEN None ELSE Cardinality(InNetwork(c))

\* Frames in a side, in the order in which they entered it.
Line(s) == SetToSeq(side[s].leaving) \o side[s].queue

\* Frames leave a side in the order in which they came: a step removes at most
\* the first of the line and adds at most one at the end, never both, whether
\* entries into service are immediate or delayed by background streams.
FirstInFirstOut ==
  [][\A s \in Sides :
       \/ Line(s)' = Line(s)
       \/ Line(s) # << >> /\ Line(s)' = Tail(Line(s))
       \/ Line(s)' # << >> /\ Front(Line(s)') = Line(s)]_vars

\* What the network promises its user.
Delivery == INSTANCE MessageDelivery WITH
  inNetwork <- [c \in Conns |-> Cardinality(InNetwork(c))],
  wanted    <- {c \in Entered : conn[c].report}

\* Every message is reported exactly when its last frame has departed, and
\* every frame gets through, as long as the event manager fires what is
\* scheduled.  (A property of FairSpec.)
DeliverySpec == Delivery!Spec

\* No frame is larger than an interface of its route can carry: FindFrameSize
\* "returns the smallest MTU on any interface along the way.  This defines the
\* maximum frame size to be used on that route".
MTURespected ==
  \A c \in Entered : conn[c].frameLen <= LeastFrameSize(conn[c].route)
============================================================================
