------------------------------ MODULE FlowRates ------------------------------
(***************************************************************************)
(* Rates of flows (transition.go): FlowEntry starts, changes or ends a     *)
(* flow, DiscoverFlowRate finds the rate it can have, SetFlowRate gives    *)
(* that rate to the interfaces and names the elastic flows to recompute,   *)
(* and EstablishFlowRate calls itself for each of them, in the order of a  *)
(* Go map: any order.  One handler runs all of this; its recursion is      *)
(* unfolded into steps, and what the program sees is the state in which no *)
(* entry is in progress.                                                   *)
(*                                                                         *)
(* Rates are whole multiples of the 1e-3 Mbps below which the code does    *)
(* not tell two rates apart; a share of a bandwidth is rounded down.  NaN  *)
(* is kept: 0/0 in requestedLoadFracVec, and all that is computed from it. *)
(***************************************************************************)
EXTENDS Integers, Sequences, FiniteSets, FiniteSetsExt, SequencesExt

CONSTANTS
  Flows,       \* flowIDs
  FlowRoute,   \* route of each flow, steps [src |-> interface, dst |-> interface]
  Bndwdth,     \* State.Bndwdth of an interface
  NetBndwdth,  \* NetState.Bndwdth of the network an interface faces
  Requests,    \* rates the importing program asks for
  ElasticSets, \* sets of flows that may be the elastic ones
  MaxCalls,    \* bound on the depth of the recursion of EstablishFlowRate
  MaxRate,     \* entries are explored while no rate or lambda is beyond it
  NaN,         \* the float64 that is not a number
  Absent       \* what a Go map does not hold

Intrfcs == DOMAIN Bndwdth

ASSUME FlowAssumption ==
  /\ IsFiniteSet(Flows)
  /\ FlowRoute \in [Flows -> Seq([src : Intrfcs, dst : Intrfcs]) \ {<< >>}]
  /\ Bndwdth \in [Intrfcs -> Nat \ {0}]
  /\ NetBndwdth \in [Intrfcs -> Nat \ {0}]
  /\ Requests \subseteq Nat \ {0}
  /\ ElasticSets \subseteq SUBSET Flows
  /\ MaxCalls \in Nat \ {0} /\ MaxRate \in Nat
  /\ NaN \notin Int /\ Absent \notin Int \cup {NaN} \cup Flows

VARIABLES
  elastic,  \* flows with np.Elastic[flowID]
  np,       \* the portal's rates, those of the interfaces, and the recursion
  entry,    \* the FlowEntry in progress
  running   \* flows the program was told are established, and has not ended

vars == <<elastic, np, entry, running>>

Values == Int \cup {NaN}

\* The sides of interfaces that routes pass through.
Sides == UNION {{<<FlowRoute[f][i].src, "egress">> : i \in 1..Len(FlowRoute[f])}
                  \cup {<<FlowRoute[f][i].dst, "ingress">> : i \in 1..Len(FlowRoute[f])}
                : f \in Flows}

NoEntry == [flow |-> Absent, action |-> Absent]

\* load is ToEgress and ToIngress of every interface (ThruEgress and
\* ThruIngress are always equal to them); lambda is intrfcQStruct.lambda (to
\* which EgressLambda and IngressLambda are always equal); request and
\* accepted are RequestRate and AcceptedRate; calls holds, for each call of
\* EstablishFlowRate under way, what it has still to revisit.
PortalType ==
  [load : [Sides -> [Flows -> Values \cup {Absent}]],
   lambda : [Sides -> Values],
   request : [Flows -> Nat \cup {Absent}],
   accepted : [Flows -> Values \cup {Absent}],
   calls : Seq([Flows -> Values \cup {Absent}])]

TypeOK ==
  /\ elastic \in ElasticSets
  /\ np \in PortalType
  /\ entry \in [flow : Flows, action : {"Srt", "Chg", "End"}] \cup {NoEntry}
  /\ running \in SUBSET Flows
  /\ np.calls = << >> <=> entry = NoEntry

----------------------------------------------------------------------------
(* float64 and Go maps, as far as the code needs them.                     *)

Plus(x, y) == IF NaN \in {x, y} THEN NaN ELSE x + y
Minus(x, y) == IF NaN \in {x, y} THEN NaN ELSE x - y
MinOf(x, y) == IF NaN \in {x, y} THEN NaN ELSE IF x <= y THEN x ELSE y
Less(x, y) == NaN \notin {x, y} /\ x < y
AtMost(x, y) == NaN \notin {x, y} /\ x <= y

\* math.Abs(x - y) < 1e-3
Close(x, y) == NaN \notin {x, y} /\ x = y

\* A map that holds nothing; a map read at a key it may not hold.
NoRates == [f \in Flows |-> Absent]
At(m, f) == IF m[f] = Absent THEN 0 ELSE m[f]
Present(m) == {f \in Flows : m[f] # Absent}

Total(m, S) == FoldSet(LAMBDA f, acc : Plus(At(m, f), acc), 0, S)
Sum(m) == Total(m, Present(m))

\* Defect: every flow passes for elastic.
ElasticInAll(m) == Present(m)

Fixed(m) == Total(m, Present(m) \ elastic)
ElasticIn(m) == Present(m) \cap elastic

\* An element of requestedLoadFracVec times a bandwidth: the part of bw that
\* is due to f when the flows of S divide it as they requested.
Share(request, f, S, bw) ==
  LET agg == Total(request, S)
  IN  IF agg = 0 \/ bw = NaN THEN NaN ELSE (At(request, f) * bw) \div agg

----------------------------------------------------------------------------
(* Sides of interfaces along a route, in the order in which the code       *)
(* visits them: the egress side of the first step, then for each further   *)
(* step the ingress side of the device that it leaves and the egress side. *)
(* The ingress side at the destination is not among them.                  *)

Stops(r) == [k \in 1..(2 * Len(r) - 1) |-> k]
IsEgress(k) == k % 2 = 1
StepAt(r, k) == r[(k + 1) \div 2]
SideAt(r, k) == IF IsEgress(k) THEN <<StepAt(r, k).src, "egress">>
                               ELSE <<StepAt(r, k).dst, "ingress">>
FlowSides(f) == {SideAt(FlowRoute[f], k) : k \in DOMAIN Stops(FlowRoute[f])}

\* The flows on an egress stop and on the ingress side across the network,
\* those of the egress stop counted once.
FarSide(r, k) == <<StepAt(r, k).dst, "ingress">>
AcrossNet(load, r, k) ==
  LET near == load[SideAt(r, k)]
      far == load[FarSide(r, k)]
  IN  [f \in Flows |-> IF near[f] # Absent THEN near[f] ELSE far[f]]

\* DiscoverFlowRate for f, which asks for rq and can have min so far: what it
\* can have at the interface of a stop, or Absent when it is refused there.
DiscoverAtIntrfc(s, f, rq, r, k, min) ==
  LET m == s.load[SideAt(r, k)]
      bw == Bndwdth[SideAt(r, k)[1]]
      free == Minus(bw, Sum(m))
  IN  IF f \notin elastic
      THEN IF Less(Minus(bw, Fixed(m)), rq) THEN Absent ELSE min
      ELSE IF ~ IsEgress(k) /\ AtMost(min, free) THEN min
      ELSE MinOf(min, Share(s.request, f, {f} \cup ElasticIn(m), free))

\* The same at the network that an egress side faces.
DiscoverAtNet(s, f, rq, r, k, min) ==
  LET bw == NetBndwdth[SideAt(r, k)[1]]
      free == Minus(bw, Sum(AcrossNet(s.load, r, k)))
      useable == Minus(bw, Fixed(AcrossNet(s.load, r, k)))
      peers == {f} \cup ElasticIn(s.load[SideAt(r, k)])
  IN  IF AtMost(free, 0) \/ AtMost(useable, 0) THEN Absent
      ELSE IF AtMost(rq, useable) THEN min
      ELSE IF f \notin elastic THEN Absent
      ELSE MinOf(min, Share(s.request, f, peers, free))

DiscoverAt(s, f, rq, r, k, min) ==
  LET atIntrfc == DiscoverAtIntrfc(s, f, rq, r, k, min)
  IN  IF min = Absent \/ atIntrfc = Absent THEN Absent
      ELSE IF IsEgress(k) THEN DiscoverAtNet(s, f, rq, r, k, atIntrfc)
      ELSE atIntrfc

\* Defect: only the source's own interface is asked.
DiscoverFlowRateAtSource(s, f, rq, r) == DiscoverAt(s, f, rq, r, 1, rq)

DiscoverFlowRate(s, f, rq, r) ==
  FoldLeft(LAMBDA min, k : DiscoverAt(s, f, rq, r, k, min), rq, Stops(r))

----------------------------------------------------------------------------
(* SetFlowRate.                                                            *)

IsCongested(load, s) == Close(Sum(load[s]), Bndwdth[s[1]])

\* The network counts the bandwidth of the slower interface as used.
NetIsCongested(load, r, k) ==
  LET slower == MinOf(Bndwdth[StepAt(r, k).src], Bndwdth[StepAt(r, k).dst])
  IN  ~ Less(Plus(slower, Sum(AcrossNet(load, r, k))), NetBndwdth[StepAt(r, k).src])

\* Defect: the rate is added, not its difference with the old one.
ChgFlowRateAdded(s, side, f, rate) ==
  [s EXCEPT !.load = [s.load EXCEPT ![side] = [s.load[side] EXCEPT ![f] = rate]],
            !.lambda = [s.lambda EXCEPT ![side] = Plus(@, rate)]]

\* intrfcStruct.ChgFlowRate.
ChgFlowRate(s, side, f, rate) ==
  [s EXCEPT !.load = [s.load EXCEPT ![side] = [s.load[side] EXCEPT ![f] = rate]],
            !.lambda = [s.lambda EXCEPT ![side] = Plus(@, Minus(rate, At(s.load[side], f)))]]

\* Lower the bounds in chg to the shares of bw due to the flows of S.
Squeeze(request, chg, f, S, bw) ==
  [x \in Flows |-> IF x \notin S \ {f} THEN chg[x]
                   ELSE IF chg[x] = Absent THEN Share(request, x, S, bw)
                   ELSE MinOf(chg[x], Share(request, x, S, bw))]

\* One stop, with the flows to revisit so far in chg.  A stop at which f has
\* its rate already is passed over.
SetAtStop(s, chg, f, rate, r, k) ==
  LET side == SideAt(r, k)
      t == ChgFlowRate(s, side, f, rate)
      atIntrfc == IF IsCongested(s.load, side) \/ IsCongested(t.load, side)
                  THEN Squeeze(s.request, chg, f, ElasticIn(t.load[side]),
                               Minus(Bndwdth[side[1]], Fixed(s.load[side])))
                  ELSE chg
      atNet == IF IsEgress(k) /\ NetIsCongested(t.load, r, k)
               THEN Squeeze(s.request, atIntrfc, f, ElasticIn(AcrossNet(t.load, r, k)),
                            NetBndwdth[side[1]])
               ELSE atIntrfc
  IN  IF Close(rate, At(s.load[side], f)) THEN [state |-> s, chg |-> chg]
                                          ELSE [state |-> t, chg |-> atNet]

\* Defect: the last stop is left out.
SetFlowRateShort(s, f, rate, r) ==
  LET first == ChgFlowRate([s EXCEPT !.accepted = [s.accepted EXCEPT ![f] = rate]],
                           SideAt(r, 1), f, rate)
  IN  FoldLeft(LAMBDA set, k : SetAtStop(set.state, set.chg, f, rate, r, k),
               [state |-> first, chg |-> NoRates], Front(Stops(r)))

SetFlowRate(s, f, rate, r) ==
  LET first == ChgFlowRate([s EXCEPT !.accepted = [s.accepted EXCEPT ![f] = rate]],
                           SideAt(r, 1), f, rate)
  IN  FoldLeft(LAMBDA set, k : SetAtStop(set.state, set.chg, f, rate, r, k),
               [state |-> first, chg |-> NoRates], Stops(r))

\* EstablishFlowRate up to its loop; Absent when it finds no rate.
EstablishFlowRate(s, f, rq, r) ==
  LET rate == DiscoverFlowRate(s, f, rq, r)
      set == SetFlowRate(s, f, rate, r)
  IN  IF rate = Absent THEN Absent
      ELSE [set.state EXCEPT !.calls = Append(@, set.chg)]

----------------------------------------------------------------------------
Init ==
  /\ elastic \in ElasticSets
  /\ np = [load |-> [s \in Sides |-> NoRates], lambda |-> [s \in Sides |-> 0],
           request |-> NoRates, accepted |-> NoRates, calls |-> << >>]
  /\ entry = NoEntry
  /\ running = {}

SetAlongRoute(load, f, rate) ==
  FoldSet(LAMBDA side, acc : [acc EXCEPT ![side] = [acc[side] EXCEPT ![f] = rate]],
          load, FlowSides(f))

\* BuildFlow: the flow appears with rate 0 along its route.
BuildFlow(s, f) == [s EXCEPT !.load = SetAlongRoute(s.load, f, 0)]

\* RmFlow and ClearRmFlow.
RmFlow(s, f) ==
  [s EXCEPT !.load = SetAlongRoute(s.load, f, Absent),
            !.request = [s.request EXCEPT ![f] = Absent],
            !.accepted = [s.accepted EXCEPT ![f] = Absent]]

\* Rates of elastic flows may fall below 0, and lambda may grow, without end.
InRange(x) == x \in (-MaxRate)..MaxRate \cup {NaN, Absent}
WithinBound == \A s \in Sides : InRange(np.lambda[s]) /\ \A f \in Flows : InRange(np.load[s][f])

\* FlowEntry up to the recursion, when no other one is in progress.
FlowEntry(f, action, rate) ==
  LET asked == [np EXCEPT !.request = [np.request EXCEPT ![f] = rate]]
      built == IF action = "Srt" THEN BuildFlow(asked, f) ELSE asked
      established == EstablishFlowRate(built, f, rate, FlowRoute[f])
  IN  /\ entry = NoEntry /\ WithinBound
      /\ \/ /\ established = Absent
            /\ np' = built
            /\ entry' = NoEntry
         \/ /\ established # Absent
            /\ np' = established
            /\ entry' = [flow |-> f, action |-> action]
      /\ UNCHANGED <<elastic, running>>

StartFlow(f, rate) == f \notin running /\ FlowEntry(f, "Srt", rate)

ChangeRate(f, rate) == f \in running /\ FlowEntry(f, "Chg", rate)

\* Flow.RmFlow asks for rate 0.
EndFlow(f) == f \in running /\ FlowEntry(f, "End", 0)

\* The innermost call revisits one of the flows it has left, along the route
\* of the flow that was entered.  A refusal there refuses the entry and leaves
\* the rates that have been set so far.
Revisit(x) ==
  /\ np.calls # << >> /\ Last(np.calls)[x] # Absent
  /\ Len(np.calls) < MaxCalls
  /\ LET n == Len(np.calls)
         rq == MinOf(np.calls[n][x], At(np.request, x))
         left == [np EXCEPT !.calls = [np.calls EXCEPT ![n] = [np.calls[n] EXCEPT ![x] = Absent]]]
         established == EstablishFlowRate(left, x, rq, FlowRoute[entry.flow])
     IN  \/ /\ established = Absent
            /\ np' = [left EXCEPT !.calls = << >>]
            /\ entry' = NoEntry
         \/ /\ established # Absent
            /\ np' = established
            /\ UNCHANGED entry
  /\ UNCHANGED <<elastic, running>>

CallDone == np.calls # << >> /\ Last(np.calls) = NoRates

\* Defect: the outermost call returns without its caller's knowledge.
ReturnToCallerAlways ==
  /\ CallDone
  /\ np' = [np EXCEPT !.calls = Front(@)]
  /\ UNCHANGED <<elastic, entry, running>>

ReturnToCaller ==
  /\ CallDone /\ Len(np.calls) > 1
  /\ np' = [np EXCEPT !.calls = Front(@)]
  /\ UNCHANGED <<elastic, entry, running>>

\* The outermost call returns to FlowEntry, which removes a flow that ends.
FinishEntry ==
  /\ CallDone /\ Len(np.calls) = 1
  /\ LET s == [np EXCEPT !.calls = << >>]
     IN  np' = IF entry.action = "End" THEN RmFlow(s, entry.flow) ELSE s
  /\ running' = IF entry.action = "End" THEN running \ {entry.flow}
                                        ELSE running \cup {entry.flow}
  /\ entry' = NoEntry
  /\ UNCHANGED elastic

Next ==
  \/ \E f \in Flows : \/ \E rate \in Requests : StartFlow(f, rate) \/ ChangeRate(f, rate)
                      \/ EndFlow(f)
                      \/ Revisit(f)
  \/ ReturnToCaller
  \/ FinishEntry

Spec == Init /\ [][Next]_vars

----------------------------------------------------------------------------
(* Correctness.                                                            *)

\* An inelastic flow has its rate end to end: every side of its route carries
\* the accepted rate, also when a change was refused, at once or halfway, and
\* whatever other flows were squeezed.
InelasticEndToEnd ==
  \A f \in running \ elastic : \A s \in FlowSides(f) :
    entry.flow # f => np.load[s][f] = np.accepted[f]

\* Inelastic flows never reserve more than an interface has, though each is
\* admitted against the reservations of the moment.
ReservationsFit ==
  \A s \in Sides : AtMost(Fixed(np.load[s]), Bndwdth[s[1]])

\* Squeezing spares inelastic flows: only the entry of an established inelastic
\* flow itself changes the rates of that flow, at any depth of the recursion.
InelasticUndisturbed ==
  [][\A f \in running \ elastic : \A s \in Sides :
       np'.load[s][f] = np.load[s][f] \/ f \in {entry.flow, entry'.flow}]_vars

\* With inelastic flows only, lambda of every side is the total of the rates of
\* its flows through any sequence of starts, changes, refusals and ends.
ReservedLambda ==
  elastic = {} /\ entry = NoEntry => \A s \in Sides : np.lambda[s] = Sum(np.load[s])

\* "SetFlowRate to establish that rate through the route for the named flow"
\* (EstablishFlowRate).
RateAlongOwnRoute ==
  entry = NoEntry =>
    \A f \in running : \A s \in FlowSides(f) : np.load[s][f] = np.accepted[f]
=============================================================================
