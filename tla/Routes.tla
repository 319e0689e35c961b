------------------------------- MODULE Routes --------------------------------
(***************************************************************************)
(* Routes through a topology: what createTopoReferences (mrnes.go) makes   *)
(* of the interfaces once the topology is loaded, and the routes findRoute *)
(* (routes.go) can then choose.  They are functions of the topology, and   *)
(* are defined here of every topology that the program may have built.     *)
(*                                                                         *)
(* A loaded interface is found by its name, so this stands for topologies  *)
(* in which no name is used twice.  Calls build others too: NamesUnique.   *)
(***************************************************************************)
EXTENDS TopoDesc

\* compatibleIntrfcs.
Compatible(i, j) ==
  \/ Intrfc(i).cable # {} /\ Intrfc(j).cable # {}
  \/ Intrfc(i).carry # {} /\ Intrfc(j).carry # {}

\* Where the loading loop connects i to: its cable goes before what it carries,
\* and that before its wireless peers.
Cabled(i) == {j \in Intrfc(i).cable : Compatible(i, j)}
Carried(i) == {j \in Intrfc(i).carry : Compatible(i, j)}

Peers(i) == IF Cabled(i) # {} THEN Cabled(i)
            ELSE IF Carried(i) # {} THEN Carried(i)
            ELSE Intrfc(i).wireless

\* Interfaces of d that are connected to e.
Towards(d, e) == {k \in DOMAIN frames.intrfcs[d] : \E j \in Peers(<<d, k>>) : j[1] = e}

\* connectIds: of several interfaces of d the last one stays in
\* routeStepIntrfcs.
RouteStepIntrfcs(d, e) ==
  LET i == <<d, Max(Towards(d, e))>>
  IN  {<<i, j>> : j \in {p \in Peers(i) : p[1] = e}}

\* What connectDirectedIds adds, for every interface and where it leads.
Links == UNION {{<<<<i[1], "src">>, <<j[1], "dst">>>> : j \in Peers(i)} : i \in Existing}

\* Defect: endpoints pass messages on.
DirectedThruEndpts == Links \cup {<<<<d, "dst">>, <<d, "src">>>> : d \in Devs}

\* Every device is a source and a destination, and all but endpoints lead from
\* their destination to their source.
DirectedTopoGraph ==
  Links \cup {<<<<d, "dst">>, <<d, "src">>>> : d \in {x \in Devs : DevType[x] # "Endpt"}}

\* Device e comes after those of p in the graph.
Extends(graph, p, e) ==
  /\ ~ Contains(p, e)
  /\ <<<<Last(p), "src">>, <<e, "dst">>>> \in graph
  /\ Len(p) > 1 => <<<<Last(p), "dst">>, <<Last(p), "src">>>> \in graph

\* The paths of n steps from d: the edges within a device weigh nothing, and a
\* shortest path does not come back to a device.
Paths(graph, d) ==
  LET paths[n \in 0..(Cardinality(Devs) - 1)] ==
        IF n = 0 THEN {<<d>>}
        ELSE UNION {{Append(p, e) : e \in {x \in Devs : Extends(graph, p, x)}} : p \in paths[n - 1]}
  IN  paths

\* findRoute, routeFrom: Dijkstra's algorithm returns one of the shortest paths,
\* and none where there is none.
FindRoute(graph, d, e) ==
  LET paths == Paths(graph, d)
      reached == {n \in DOMAIN paths : \E p \in paths[n] : Last(p) = e}
  IN  IF reached = {} THEN {}
      ELSE {p \in paths[Min(reached)] : Last(p) = e}

----------------------------------------------------------------------------
(* Properties.  Where an interface has both a cable and something it        *)
(* carries, the loading loop takes the cable only.  Calls build such        *)
(* interfaces, see NoCableConfusion; Unmixed excludes them.                 *)

Unmixed == \A i \in Existing : Intrfc(i).cable = {} \/ Intrfc(i).carry = {}

\* A route passes through switches and routers, never through an endpoint,
\* although endpoints with several interfaces may be the only way: findRoute
\* uses the directed graph to that end.
NoEndptInTransit ==
  NamesUnique =>
    LET graph == DirectedTopoGraph
    IN  \A d, e \in Devs : \A p \in FindRoute(graph, d, e) :
          \A k \in 2..(Len(p) - 1) : DevType[p[k]] # "Endpt"

\* In an unmixed topology there is a route back wherever there is a route,
\* through the same devices: routeFrom takes it for granted when it reverses a
\* path.  In a mixed one there need not be any.
RoutesThereAndBack ==
  NamesUnique /\ Unmixed =>
    LET graph == DirectedTopoGraph
    IN  \A d, e \in Devs : \A p \in FindRoute(graph, d, e) :
          Reverse(p) \in FindRoute(graph, e, d)

\* In an unmixed topology, devices that ConnectDevs has connected exchange
\* messages in one step.  In a mixed one the connection may be lost.
ConnectedAreNeighbors ==
  NamesUnique /\ Unmixed =>
    LET graph == DirectedTopoGraph
    IN  \A pair \in connected : \A d, e \in pair :
          d # e => FindRoute(graph, d, e) = {<<d, e>>}

\* Both interfaces of a step have a cable, or neither: transitDelay panics with
\* "cabled interface confusion" otherwise.
NoCableConfusion ==
  NamesUnique =>
    LET graph == DirectedTopoGraph
    IN  \A d, e \in Devs : \A p \in FindRoute(graph, d, e) : \A k \in 1..(Len(p) - 1) :
          \A step \in RouteStepIntrfcs(p[k], p[k + 1]) :
            (Intrfc(step[1]).cable = {}) <=> (Intrfc(step[2]).cable = {})
=============================================================================
