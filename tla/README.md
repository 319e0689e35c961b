# A verification project for mrnes

mrnes is a Go library that simulates networks of endpoints, switches and routers
for programs that import it. The TLA+ modules here model the parts of it that keep
state and decide things: the scheduler of an endpoint's cores, the passage of
frames through interfaces, the rates of flows, the portal's records of who is to be
told what, the delays that background streams cause, the parameters of an
experiment, and the construction of the topology on which all of that runs. TLC
checks them on small instances, TLAPS proves their safety properties for every
size, and five runs exhibit disagreements between the code and what its own
comments, documents and assertions say.

`PROJECT.json` lists components, runs, hazards, findings and theorems, and maps
every definition to the lines of code it models.

## 1. The system

One goroutine runs everything. The event manager (`evtm`, a library) holds a
queue of events ordered by virtual time and, at one instant, by a priority that
the code mostly draws at random; it calls one handler at a time, and the handler
runs to its end. The interleavings that matter are therefore those of *events*:
which handler is called next, and what has happened between the scheduling of an
event and its handling. The importing program calls in between handlers (or from
its own), and is called back by events that carry a context and a function of its
choice.

| component | source | state | operations |
|---|---|---|---|
| task scheduler | `scheduler.go`, `mrnes.go` 1058-1091 | waiting queues by priority, `numWaiting`, `inservice`, `inBckgrnd`, a task's remaining `req` | `Schedule`, `joinQueue`, `timeSliceComplete`, `scheduleNxtTask`, `addBckgrnd`, `rmBckgrnd`, `InitializeBckgrndEndpt` |
| interfaces and transit | `net.go` 73-260, 1986-2363 | for each side of an interface: `msgQueue`, a transit flag; for each frame: its route and `StepIdx` | `enterEgressIntrfc`, `enterIntrfcService`, `exitEgressIntrfc`, `enterIngressIntrfc`, `arriveIngressIntrfc` |
| network portal | `net.go` 248-460, `transition.go` | `ReturnTo` and three more tables of return records, `Connections`, `InvConnection` | `EnterNetwork`, `Arrive`, `Depart`, `ReportFlowChg`, `ClearRmFlow` |
| rates of flows | `transition.go` 255-889, `net.go` 396-414, 900-1103 | `RequestRate`, `AcceptedRate`, the rates of flows at each side, `lambda` | `FlowEntry`, `EstablishFlowRate`, `DiscoverFlowRate`, `SetFlowRate`, `BuildFlow`, `RmFlow` |
| flows of the program | `flow.go` | `FlowList`, a flow's connection, `Suspended` | `StartFlows`, `StopFlows`, `StartFlow`, `ChangeRate`, `RmFlow`, `bgfPcktArrivals`, `bgfPushStrmServiceTimes` |
| stream sets | `flow-sim.go` | frame rates by source, residual packets, own time | `adjustStrmRate`, `queueingDelay` |
| topology under construction | `desc-topo.go` | frames of devices, interfaces and networks, links, a name counter | `ConnectDevs`, `WirelessConnectTo`, `IncludeDev`, `AddIntrfc`, `ConnectNetworks` |
| loaded topology | `mrnes.go` 675-1038 | topology graphs, `routeStepIntrfcs` | `createTopoReferences`, `connectIds`, `connectDirectedIds` |
| routes | `routes.go` | caches of trees and routes | `findRoute`, `routeFrom` |
| parameters | `param.go`, `mrnes.go` 249-573 | lists of attribute/value pairs | `AddParameter`, `reorderExpParams`, `SetTopoParameters` |
| trace, dictionaries, files | `trace.go`, parts of `desc-topo.go`, `param.go` | records | input and output |

How they interact: a topology is built by calls, written, loaded, and turned into
graphs (`createTopoReferences`) from which `findRoute` takes routes. A program
enters a message (`EnterNetwork`); its frames cross the sides of the interfaces of
the route and `Depart` reports to the program. Flows enter the same way but
move no frames: they change rates at the interfaces of their routes, and through
`strmQ` those rates may hold frames back. The scheduler is independent of the
network; it is called by the program.

What is hard: events at one instant in any order; delayed events that refer to a
queue which has changed since; counters kept incrementally next to the sets they
count (`numWaiting`, `inservice`, `pckts`, `lambda`); iteration over Go maps in
random order while changing the state that the iteration computes from; a
refusal halfway through an operation; sequences of construction calls each of
which looks for something an earlier call left. Nothing is persisted and messages
between components are not lost, so there are no crashes to recover from.

What makes each component correct:

- scheduler: no core leaked, freed twice or idle while a task waits; no task lost,
  queued twice, served more or less than it asked; priority, then order of arrival;
- transit: one frame at a time through a side, in order; no queue forgotten; no
  frame lost or duplicated; one report, exactly with the last frame; frame sizes
  that every interface of the route can take;
- rates: what an inelastic flow was promised it has on every interface, no
  interface reserves more than it has, `lambda` is what it says;
- portal: an entry that asks for an answer gets one, once; nothing that is done to
  a flow touches a record made for another; reports about a flow go to that flow;
- stream sets: a foreground packet waits for the stream frames before it and for no
  others, and the set's own clock does not lose time;
- parameters: the most specific assignment decides, whatever the order of the file
  (the document's wish; what the code does of it is in sections 3 and 4);
- topology: links are mutual and stay; names identify; networks know their devices;
- routes: never through an endpoint, with a way back.

## 2. The modules

| module | models | composed with |
|---|---|---|
| `TaskScheduler` | the scheduler and its background load | |
| `TaskSchedulerProofs` | theorems about it | extends `TaskScheduler` |
| `MessageDelivery` | abstract: what `EnterNetwork` promises | |
| `NetTransit` | interfaces, frames, packets' return records | instantiates `MessageDelivery` |
| `NetTransitProofs` | theorems about it | extends `NetTransit` |
| `FlowRates` | rates of flows | |
| `FlowRatesProofs` | theorems about it | extends `FlowRates`, `Iteration` |
| `FlowAnswers` | abstract: what an entry of a flow may count on | |
| `FlowPortal` | the portal's tables, and flows from creation to end | instantiates `FlowAnswers` |
| `FlowPortalProofs` | theorems about it | extends `FlowPortal` |
| `StrmSet` | background streams at one side of an interface | |
| `StrmSetProofs` | theorems about it | extends `StrmSet`, `Iteration` |
| `Params` | parameters of an experiment | |
| `ParamsProofs` | theorems about it | extends `Params`, `Iteration` |
| `TopoDesc` | construction of topologies | |
| `Routes` | loaded topology and routes | extends `TopoDesc` |
| `TopoProofs` | theorems about both | extends `Routes`, `Iteration` |
| `Iteration` | induction, recursive functions and folds, for the proofs | |
| `MC*` | instances for TLC | extend the above |

Operators marked *Defect* in a comment are variants of the definition after them
with a plausible bug. They are used to test the properties: with the variant in
place of the definition, TLC finds the property violated.

### TaskScheduler

`sched` is the `TaskScheduler` struct together with the pending events of its
tasks (`slicing`: a `timeSliceComplete` is pending; `completing`: the program's
completion event is pending; both fall due at the same instant, `due` away).
`job` holds the `Task` structs. There is no clock: each event has the delay that
remains, `Tick` passes a unit of time when no event is due, and events due now
fire in any order. `JoinQueue` and `ScheduleNxtTask` are functions on `sched`, as
handlers compose them: `timeSliceComplete` first calls the next task and only
then puts the residue of the old one back. `asked` and `served` are history.

Two early returns (background switched off) can never be taken; the module says
why. The heap that `scheduler.go` has in comments is not modelled.

### NetTransit and MessageDelivery

`side` is a side of an interface: its queue, transit flag, and the frames with a
pending `enterIntrfcService` (`entering`) or a pending end of service
(`leaving`). Frames between sides are in `toEgress` or `toIngress`. A frame is
its connection and its number. Delays depend on lengths, bandwidths, loads and
random priorities, and all frames' events are independent, so pending events
fire in any order. This includes every order the program can produce and more;
what holds, holds of the code. The stream sets decide whether the head of a
queue is held back, which is a free choice where a background flow has made the
side's `strmQ` active, and never otherwise.

Background flows enter as packets that nobody waits for and as the two marks
they leave on interfaces (`active`, `streaming`). `FindFrameSize` keeps its cache.

`MessageDelivery` says it without interfaces: a message enters as a number of
frames, which leave one by one; the report is made with the last. `NetTransit`
implements it under the mapping that counts the frames not departed.

### FlowRates

`np` holds the portal's rates and those of the sides, and `calls`, the stack of
`EstablishFlowRate`'s recursion: for each call under way, the flows that it has
still to revisit, with the bounds on their rates. In the code this is one handler;
its steps are unfolded so that the random order of the Go maps is TLC's choice.
Rates are whole multiples of the 1e-3 Mbps below which the code takes two rates
for equal; shares are rounded down. NaN is a value with its rules. The order of
branches in `DiscoverFlowRate` is kept, including what looks odd: the ingress
side at the destination is not visited; the network's ingress flows are summed
but not squeezed; `IsCongested` of the network adds the bandwidth of the slower
interface to the bandwidth in use.

### FlowPortal and FlowAnswers

`np` holds the tables of `NetworkPortal` as far as anything reads them, the counter
of connections, and the events the portal has scheduled: messages under way
(`inTransit`) and answers (`returning`). The methods `Arrive`, `Depart`,
`ClearRmFlow`, `ReportFlowChg` are functions on `np`, which `FlowEntry` composes in
the order of the code. What a rate computation decides - whether the entry is
accepted, and which other flows it gives a new rate - is a free choice among what
`EstablishFlowRate` can leave behind. `loop` is the state of `StartFlows`: two loops
over a map, each in any order. `owner`, `wants` and `answered` are history: for
which flow a connection was made, which accepted entries ask for an answer, and
which were given one. `np.reports` holds the reports of the last step only.

The program is assumed to use a connection only for the flow it was made for, to
start only flows that it has not running, and to call only between events. Its
`End` goes through `EnterNetwork` with or without the flow's connection
(`Flow.RmFlow` gives none).

`FlowAnswers` says it without tables: an entry that asks stays open until it is
answered or its flow is ended, and is answered at most once; as long as it is open
an answer will come. `FlowPortal` implements it.

### StrmSet

One side of an interface with its stream set. Frames of streams are not simulated:
`queueingDelay` samples, for each slot since the set's clock, how many sources
present a frame at once. `CDF` is the distribution that `createStrmArrivalsCDF`
computes, scaled to whole numbers, in every order of the map; `Samples` the numbers
that can be drawn from it, so that a probability of 0 (or below, when the
aggregate rate exceeds the capacity) is a choice that does not exist. The clock,
the residual, the delayed and the immediate entry into service are as in the code.
The rate of a source is the aggregate that `queueingDelay` samples from; the rates of
single flows beside it (`strmFrameRateByFlow`) are not kept, for nothing reads them.

### Params

`params` is the list that `AddParameter` builds or that a file holds; loading
(`SetTopoParameters`) is one action. `SortSlice` is the insertion sort that
`sort.Slice` is up to 12 elements: since the comparison need not be a strict weak
order, what the sort does matters. Comparisons are relations on the assignments
that are on offer. Values keep what `stringToValueStruct` makes of them (an `int` is
also a float, only `1` and `true` are true) and their order as strings, by which
named assignments are sorted. `Eq` removes neighbours that are
equal. Before the file come the built-in defaults, and before them what an interface
is created with: an MTU, and a delay and a latency (`Noticeable`) that are there to
be noticed if no default replaces them.

`FileOrderFree` is what `docs/MRNES-API.md` says of every file, in terms of the
objects that assignments match; the code does not keep it. `MoreNamesDecide` and
`SortableOrderFree` are what is left of it: the code compares *names* of attributes,
not the objects they match, so "more specific" means more names. They presuppose

- that a wildcard stands alone (`WildcardsAlone`, the comment at `mrnes.go` 503);
- that the names order the file, that is, what they leave undecided they leave
  undecided transitively (`WeaklyOrdered`; not needed for the order of the three
  sublists, which `MoreNamesDecide` has for every file);
- that the file does not assign to a model that it also tests (`ModelMoves`);
- for the order of the file, that no two assignments conflict.

### TopoDesc and Routes

`frames` is the state of the description: the interfaces of each device in order,
the members of networks, the name counter. Names are numbers: a name is its
device and the counter at the time. A program may also give an interface a name of
its choice (`ChosenNames`); it is a number too, so that it can be one that the
counter makes up before or later, and is taken to tell its device. Each call is one
action: `ConnectDevs` includes both devices, then tries the pairs of interfaces in
the order of its loops, then free interfaces, then creates. A call that panics is
not a step. An interface that `AddIntrfc` refuses, since the device has one of that
name, has been counted all the same, and has entered a router in the network.
`Routes` defines, on every state, the graph that loading would make of it and the
set of shortest paths.

## 3. The runs

| run | properties | shows |
|---|---|---|
| `sched_core` | `TypeOK` `CoreAccounting` `QueueAccounting` `WorkConserving` `ServiceAccounted` `NoOvertaking` `HeadsLeaveInOrder` `ExcessNeverGrows` `ExcessDrains` `Task1Completes` | accounting and order under every interleaving; background may take more cores than there are, and recovers; the highest priority is served |
| `net_core` | `TypeOK` `HeadStillThere` `OneFrameInService` `QueueIsServed` `FrameAtOnePlace` `OutstandingFrames` `FirstInFirstOut` `DeliverySpec` | transit is right, and implements delivery, liveness included |
| `net_mtu` | `MTURespected`: violated | finding |
| `flow_rates` | `TypeOK` `InelasticEndToEnd` `ReservationsFit` `ReservedLambda` `InelasticUndisturbed` | inelastic flows are safe from everything else |
| `flow_route` | `RateAlongOwnRoute`: violated | finding |
| `portal` | `TypeOK` `RecordsAwaitDelivery` `OthersUntouched` `AnswersSpec` | entries are answered once, and flows do not touch each other's records |
| `portal_reports` | `ReportsReachTheirFlow`: violated | finding |
| `strm` | `TypeOK` `IdleClock` | entries into service are consistent; the set's clock is never ahead of an idle side |
| `params` | `TypeOK` `MoreNamesDecide` `SortableOrderFree` | every needed value is set; precedence by names, and in which files the order is free |
| `params_order` | `FileOrderFree`: violated | finding |
| `topo_build` | `TypeOK` `CablesJoinTwo` `ReachIsMutual` `ConnectionsKept` `NamesTellApart` `NoEndptInTransit` `RoutesThereAndBack` `ConnectedAreNeighbors` | in any order of calls links are mutual, within networks that know their devices, and stay, and names tell apart the interfaces of a device that face one network; routes reverse and join neighbours where no name is used twice and no interface is both cabled and carrying |
| `topo_cable` | `NoCableConfusion`: violated | finding |

Bounds, and why they are enough:

- Scheduler: two cores, four tasks, two priorities, one of them the one that
  `createTask` raises, and three bursts of background that initialisation may
  start on top of two tasks in service, so that an excess exists and lasts. With
  two tasks in service and one of each level waiting, the two lower ones could starve
  the third if the levels were read in the wrong order. A requirement of 2 with a
  slice of 1 gives a whole slice, a wait for a core at the back of the level and a
  residue that is just one slice, the boundary of `finish`; slices shorter than that
  are left to the proofs, which are for all lengths. `Task1Completes` is
  `TopPriorityCompletes` for one task: nothing tells the tasks apart, so it stands
  for every task, and one temporal branch is checked instead of four.
- Transit: two connections of up to two frames, on two routes that share the
  second half, one background flow that passes through the shared interface.
  Four sides in a row suffice for overtaking and lost wakeups; two frames of one
  message and two messages at one side are both reached. Length 2 with an MTU of 1
  on one route makes two frames or one.
- Rates: three flows on two routes sharing an interface of bandwidth 6, requests
  of 2 and 4: one, two or three fit or not. `MaxCalls` bounds the depth of the
  recursion at 3 (a flow revisits another, which revisits a third); `MaxRate`
  stops the exploration of entries where rates of elastic flows go below -6 or
  `lambda` beyond 6: both can grow without end. The properties that pass are
  about inelastic flows, which these bounds do not cut off.
- Portal: two flows, three connections, one message of a connection under way at a
  time. Two flows suffice for one to touch the other's records and for connection
  IDs to differ from flow IDs; the third connection is that of a restart, of
  `Flow.RmFlow` or of a background packet.
- Stream sets: the device itself and two more sources, aggregate rates of 0, 2 and 4
  against a capacity of 3: below, and past it where probabilities are negative;
  three packets up to time 6, of which two may wait; service of a packet takes
  longer than a slot, so that slots are skipped and frames left behind.
  `MaxRate` stops the growth of an aggregate, which has no end.
- Parameters: ten assignments for three interfaces, a network, an endpoint and a
  flow, up to five in a file, in every order and with repetitions: wildcards, single
  attributes, one list more specific than another, two names, a value that differs
  as a string and as a number, and one that changes the model another tests. The
  run of the finding offers the three assignments that disagree.
- Topology: two endpoints, a router, one more that `ConnectNetworks` may create,
  a wired and a wireless network; calls while fewer than three interfaces have been
  counted, each call creating up to four: enough for two calls to compete for
  the interfaces of a third, for a route over a device in between, and for a router
  that `ConnectNetworks` created to be connected twice. The program may also choose
  two names, which the counter makes up as well, before or after. A wired network may
  have wireless interfaces, as `CreateIntrfc` does not compare the two.

`CHECK_DEADLOCK FALSE` stands where the system may stop: all messages delivered
(`net_*`), calls or connections beyond the bound (`flow_*`, `portal*`), the end of
time (`strm`), parameters loaded (`params*`), construction at its bound (`topo_*`).
The scheduler's run checks for deadlock.

Symmetry is used only in safety runs: the two flows of one route, which the set
of elastic flows treats alike (`flow_rates`), and the two endpoints
(`topo_build`); none of the symmetric elements occurs in a CHOOSE on
which the result depends.

### Fairness

The event manager's loop takes the next event as long as there is one, and
handlers end. So something that is pending fires: weak fairness on the event
manager's step as a whole (`EventStep`, which includes the passage of time) for
the scheduler. It is fairness on the disjunction, not on each event, and the delays are
part of the state, so it forces nothing the clock does not. For transit, where
delays are abstracted, it is weak fairness on the events of frames taken together:
each has a finite delay, and as only finitely many frames enter, one step after the
other gets them all through. For the portal, weak fairness on the arrival of a
message under way and on each scheduled answer, for each connection: other events
can go on for ever there (entries without a connection of their own), but the
delay of each is finite and virtual time passes. Nothing is assumed of the
importing program: it need not present tasks, messages or flows.

### Findings

1. *Frame size* (`net.go` 2343-2347). The cache is keyed by flow ID, 0 for every
   packet of the program, so the first route decides the frame size on all routes,
   against `net.go` 2339-2341. In the run a message on a route of interfaces with a
   large MTU comes first; one on the other route, through an interface with MTU 1,
   is then sent in frames of 2. (In the other order frames are smaller than they
   need be, which `MTURespected` allows.)
2. *Route of a revisited flow* (`transition.go` 509-510). The recursive call passes
   the route of the flow that was entered, against `transition.go` 482.
3. *Reports of rates* (`transition.go` 325, 336). Report records are kept by
   connection ID (`net.go` 252-253) and looked up by flow ID. As soon as `StartFlows`
   does not visit flows in the order of their creation - it ranges over a map - a
   report about one flow is made with the record of another.
4. *Cable on a carrying interface* (`desc-topo.go` 482, 517, 535). The search for
   a free interface looks at `Cable` only, against its comment at 508-509; such a
   topology reaches the state at which `transitDelay` panics (`net.go` 2017).
5. *Order of the file* (`mrnes.go` 286). The comparison given to `sort.Slice` is no
   strict weak order. With {group, devtype}, {media}, {group} in this order in the
   file the sort leaves all three in place, and {group} is applied last, although
   nothing in the file contradicts anything else; exchanging the first two gives
   the other result, against `docs/MRNES-API.md` 317.

Observed on the way, without a run of their own:

- Scheduler: `docs/MRNES-Internals.md` line 223 says aging forestalls starvation; the
  key that would do it is commented out (`scheduler.go` 112-114), and a task of low
  priority can wait for ever. While background holds more cores than there are,
  `scheduleNxtTask` takes the head of a level and `joinQueue` puts it back at the
  end, so that the level rotates; `HeadsLeaveInOrder` is stated for other states.
- Rates: ending a lone elastic flow divides 0 by 0 (`net.go` 411), and the sides of its
  route keep NaN as `lambda`, which line 62 calls the sum of the rates of flows. Start
  one elastic flow and end it: this is all it takes, and `FlowRates` follows the NaN
  from there on. `ReservedLambda` is stated for inelastic flows only.
- Rates: `FlowRates` has ends of flows as `Flow.RmFlow` makes them, with rate 0. An
  `End` that the program enters itself with another rate would first give the flow
  that rate and then remove it, and leave it in `lambda`; `ReservedLambda` is not
  stated for it.
- Names (`desc-topo.go` 293, 752): `CreateIntrfc` counts before it makes up a name,
  `IncludeDev` and the connecting calls make up the name before it counts. An
  unnamed interface that the program adds to a device, and then one that `IncludeDev`
  makes for the same device and another network, have one name, against lines 219
  and 249. `NamesTellApart` is what holds instead; the properties of routes presuppose
  that it has not happened (`NamesUnique`).
- Portal: an `End` with latency `Place` or `Simulate` that asks for an answer is never
  answered, for `RmFlow` clears the records before the message arrives
  (`transition.go` 287-293). The answer to `Srt` takes the report records of the
  connection with it (`net.go` 390-394), so a program that asks for both gets
  reports only until then. `Flow.RmFlow` makes a connection of its own, and
  `ClearRmFlow` clears that one; the entry in `Connections` of the flow's first
  connection stays. Records of background packets stay too.
- Flows: `FlowRateChange`, `FlowRemoved` and `AcceptedFlowRate` are scheduled by
  nothing. A flow of packets created after `StartFlows` generates none.
- Stream sets: a product over sources is begun anew at each source visited while
  exactly one is in the combination (`flow-sim.go` 160, 170), so that the weights do
  not sum to one; with two sources below capacity two arrivals at once are never
  drawn. `adjustStrmRate` overwrites the rate of the flow and adds it to the aggregate
  of the source without taking off the old one (378), so that the aggregate only
  grows, against lines 252 and 256. A set once active stays so. When a packet
  waited, the clock goes back to its arrival, not on to its service as the comment
  at 355 has it.
- Parameters: finding 5 has two sisters, of which `FileOrderFree` fails too.
  `CompareAttrbs` (`param.go` 50) looks at names of attributes, so an assignment to all
  wired interfaces and one of the same parameter to those of a group are
  incomparable even where the former match a superset: the order of the file decides,
  and the general one may come last. And an assignment of `model` (`mrnes.go` 535)
  changes what later ones match, so that an assignment of a model to a group next
  to another parameter for endpoints of the group's old model depends on the order.
- Parameters: `UpdateExpCfg` appends its values, but a named assignment whose value is
  the larger string is applied later and wins.
  Of two neighbours <group, *> and <*, group> with one value, the second counts as a
  duplicate of the first, although it matches every object and the first does not.
  `AddParameter` panics on "Flow" and on the attribute "faces", while `matchParam`
  of an interface knows "faces" and not "network". `trace` of an interface or an
  endpoint is true for 1 only.

## 4. What is proved

Every theorem is of the specification (`Spec => ...`), for all values of the
constants that satisfy the module's assumption; the runs check the same
definitions on instances. In each module the theorems follow from one inductive
invariant, proved in `Invariance` by a lemma for each action; what the operators
do that handlers compose is stated in lemmas before.

| module | theorem | property |
|---|---|---|
| `TaskSchedulerProofs` | `TypeCorrect` | `TypeOK` |
| | `CoresAccounted` | `CoreAccounting` |
| | `QueuesAccounted` | `QueueAccounting` |
| | `NoIdleCore` | `WorkConserving` |
| | `ServedInFull` | `ServiceAccounted` |
| | `ExcessStays` | `ExcessNeverGrows` |
| | `NobodyOvertakes` | `NoOvertaking` |
| | `HeadsLeave` | `HeadsLeaveInOrder` |
| `NetTransitProofs` | `TypeCorrect` | `TypeOK` |
| | `HeadsStillThere` | `HeadStillThere` |
| | `OneFrameAtATime` | `OneFrameInService` |
| | `QueuesAreServed` | `QueueIsServed` |
| | `FramesAtOnePlace` | `FrameAtOnePlace` |
| | `FramesCountedRight` | `OutstandingFrames` |
| | `FramesInOrder` | `FirstInFirstOut` |
| | `DeliveryImplemented` | `DeliverySpec` without its fairness |
| `FlowRatesProofs` | `TypeCorrect` | `TypeOK` |
| | `CarriedEndToEnd` | `InelasticEndToEnd` |
| | `NeverOverReserved` | `ReservationsFit` |
| | `LambdaIsReserved` | `ReservedLambda` |
| | `SqueezingSparesInelastic` | `InelasticUndisturbed` |
| `FlowPortalProofs` | `TypeCorrect` | `TypeOK` |
| | `RecordsAreAwaited` | `RecordsAwaitDelivery` |
| | `OthersAreUntouched` | `OthersUntouched` |
| | `AnswersImplemented` | `AnswersSpec` without its fairness |
| `StrmSetProofs` | `TypeCorrect` | `TypeOK` |
| | `ClockIdle` | `IdleClock` |
| `ParamsProofs` | `TypeCorrect` | `TypeOK` |
| | `NamesDecide` | `MoreNamesDecide` |
| | `SortableOrderIsFree` | `SortableOrderFree` |
| `TopoProofs` | `TypeCorrect` | `TypeOK` |
| | `CablesJoin` | `CablesJoinTwo` |
| | `ReachMutual` | `ReachIsMutual` |
| | `NamesTell` | `NamesTellApart` |
| | `ConnectionsStay` | `ConnectionsKept` |
| | `EndptsKeepOut` | `NoEndptInTransit` |
| | `RoutesReverse` | `RoutesThereAndBack` |
| | `NeighborsRoute` | `ConnectedAreNeighbors` |

Four of these have premises in the property itself, which exclude what section 3
exhibits: `RoutesReverse` and `NeighborsRoute` are about topologies in which no
name is used twice on a device and no interface is both cabled and carrying
(`EndptsKeepOut` needs the former only); `NamesDecide` and `SortableOrderIsFree` about
the files described in section 2. They say nothing of other topologies and files.

### The inductive invariants, and why they are needed

*Scheduler.* Assumed is only `SchedulerAssumption`: cores and slices are positive,
which the code needs (with a slice of 0 a task never advances). That a core is not
leaked needs to know that a task with a pending event is not waiting as well; that
no core is idle needs `inservice <= Cores` and that `Queued` and the non-empty
levels agree; and that a completion is not overtaken by a second slice needs that a
completion event is pending only in the last slice (`FinishOK`). `IInv` adds these,
and that no background event exists before initialisation. The intermediate states
of a handler satisfy `Consistent`, with one lemma for each function that moves a
task (`JoinWaits` and `JoinEnters` for the two outcomes of `joinQueue`,
`PopTaskFacts` for the head of a level, `ScheduleNxtTaskFacts`, `LeaveCoreFacts`),
and each handler composes them. `WorkConserving` is broken in the middle of
`timeSliceComplete` and restored by the call that follows; this is why it is kept
apart from `Consistent`.

*Transit.* `SideOK` relates, on each side, the queue, the transit flag and the two
kinds of pending event: it is what makes an arrival between the scheduling of an
entry and the entry harmless. `Whereabouts` says that a frame in the network is
either on its way between sides or held by one side, and that this is the egress or
the ingress side of the step it is at: hence in one place only. `OutstandingFrames`
is inductive with it. For the refinement, reported connections must have been
entered.

*Rates.* The state within a handler matters as much as that between handlers, since
every level of the recursion computes from what the levels above have set so far.
`Consistent` holds at each of them: rates of inelastic flows are naturals, so
never squeezed and never NaN; one that is held (running, or being entered) has its
accepted rate on its whole route; no side is over-reserved; calls under way name
elastic flows only. A start sets 0 along the route and an end removes the rates
without telling `lambda`; `ReservedLambda` therefore needs to know that a flow that
starts has no rate left on any side (`Idle`) and that one that ends was given 0
first (`EndingAtZero`). An entry refused halfway breaks `Idle`, but only where
there are elastic flows. `DiscoverFlowRate` and `SetFlowRate` are folds along the
stops; `DiscoverFacts` and `SetFacts` say what they compute on a route of any
length, `SetSoFar` after some of the stops. `Total`, a fold over a set of flows
in an order that nobody knows, takes them in any order (`TotalFacts`).

*Portal.* `PortalOK`: a connection is known under the flow it was made for and no
other, whichever of the tables it is looked up in; a record with a context is
there as long as the accepted message is under way, and gone when its answer is. From
the first follows that what is done to a flow leaves the others' records alone,
from the second that an open entry will be answered, and once.

*Stream sets.* `IdleClock` is not inductive: while a packet waits or is in service
the clock may be ahead. The invariant bounds it by the end of the service that the
side is bound to give. `SamplesBounded` and `DelayFacts` say what `queueingDelay`
returns for any rates and draws.

*Parameters.* The invariant says only that what is loaded is `Loaded` of the file; the
work is in what `Loaded` computes for files of every length up to `MaxParams`, which
is assumed at most 12: `sort.Slice`, as the model states it, is an insertion sort
only that far. Each of its stages is a fold, and of each a lemma says what it keeps:
`Only` and `SortSlice` the members, `NoDuplicates` one of every group of equals, and
the last two the order.
`InsertedFacts` is the step of the sort: it leaves no inversion when the relation
is asymmetric and negatively transitive, which `SingleIsOrder` and `NamedIsOrder`
derive from `WeaklyOrdered`. Hence no assignment comes before one that it refines
(`OrderedFacts`), and of a later sublist none comes before one of an earlier in any
file (`LaterList`). What an object matches does not change while the list is applied
unless the model moves (`Steady`); so the last match decides (`LastDecides`), and
what decides is refined by no other (`FinalValue`). Two orders of a file without conflicts thus
agree on every parameter. That an equal that was removed is not missed
(`EqualsAreOne`) needs wildcards to stand alone: `EqAttrbs` ignores the order of the
attributes, and matching stops at a wildcard.

*Topology.* `TopoOK`: links are mutual, between two devices, in one network and one
medium, and interfaces of a device that face one network have different names.
The latter is needed because links are found by name, and it holds although names
are not unique in a device (see "Observed on the way" in section 3): the interfaces that have a name in
common face different networks. With it `AddWireless` and `CarryContained` find the
interface they mean. Devices not yet built have no interfaces.

*Routes.* The functions `Paths` and `FindRoute` are characterised exactly for every
graph: `Paths[n]` are the paths of n steps, `FindRoute` the shortest. The graph leads
from a device's destination node to its source node for other devices than endpoints
only, hence no endpoint in between. Edges are mutual as links are, when no interface
has both a cable and something it carries (`Unmixed`, the premise of
`RoutesThereAndBack`), hence a route reversed is a route, and as short.

*Iteration* derives from the well-foundedness of the naturals what these proofs
use: induction up to a bound and over the subsets of a finite set, stated of sets
instead of predicates, and the existence of functions that are defined by recursion
(`IterationExists`, `FoldExists`, `FoldWalks` for folds along a sequence).

### Only model-checked

- Liveness: `ExcessDrains`, `Task1Completes`, and the fairness that
  `DeliverySpec` and `AnswersSpec` state (fairness and ENABLED are out of the
  prover's reach).
- The five findings, which are counterexamples.

## 5. What is not modelled

- Estimates of delay and loss (tables of operation times, M/M/1, M/D/1): formulas
  over floating point without state. Transit treats delays as free choices.
- Stream sets: a change of bandwidth while packets wait; several sides together.
- Rates: an `End` that the program enters itself with a rate other than 0.
- `LatencyConsts`, `Mode` and other tables that only latency formulas read.
- The caches of routes: nothing changes a loaded graph.
- Trace, dictionaries and files: input and output, which nothing reads back.
- `CableIntrfcFrames` and `CarryIntrfcFrames` of `desc-topo.go`, which no function
  of the library calls.

## 6. Plan

Done: scheduler, transit with delivery, rates, portal with answers, stream sets,
topology with routes, parameters, each with its proofs.

Next, in this order:

1. `FlowPortal` composed with `FlowRates`, in place of the free choice of what a
   rate computation decides.
2. A bounded exploration of termination of `EstablishFlowRate`.
