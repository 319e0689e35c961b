----------------------------- MODULE FlowPortal -----------------------------
(***************************************************************************)
(* The tables of the network portal (net.go) and the flows that go in and  *)
(* out through it (transition.go, flow.go): connections, return records,   *)
(* reports to flows whose rates change, and the packets of background      *)
(* flows.  What EstablishFlowRate decides is a free choice here; FlowRates *)
(* has the rates.                                                          *)
(*                                                                         *)
(* Flow IDs and connection IDs are two counters that start from 1.         *)
(***************************************************************************)
EXTENDS Integers, Sequences, FiniteSets

CONSTANTS
  MaxFlows,    \* bound on the flows that are created
  MaxConns,    \* bound on the connections
  MaxTransit,  \* bound on the messages of one connection that are under way
  Rtns         \* RtnDescs the program passes, see RtnDescs

Flows == 1..MaxFlows
Conns == 1..MaxConns

\* Whether Rtn.Cxt is there (Arrive needs Rtn itself), and whether Src, Dst
\* and Loss are.
RtnDescs == [cxt : BOOLEAN, src : BOOLEAN, dst : BOOLEAN, loss : BOOLEAN]

ASSUME PortalAssumption ==
  /\ MaxFlows \in Nat \ {0} /\ MaxConns \in Nat \ {0} /\ MaxTransit \in Nat \ {0}
  /\ Rtns \subseteq RtnDescs

VARIABLES
  flowList,   \* FlowList, by flowID
  loop,       \* the loops of StartFlows and the flows each has still to visit
  np,         \* the portal, and the events it has scheduled
  arrivals,   \* flows with a pending bgfPcktArrivals event
  running,    \* flows the program was told are established, and has not ended
  owner,      \* flow of the entry that each connection was made for
  wants,      \* connections with a context whose message was accepted
  answered    \* connections whose rtnFunc has been called

vars == <<flowList, loop, np, arrivals, running, owner, wants, answered>>

\* returnTo is ReturnTo, with or without a context in the record; lossRtn,
\* reportSrc, reportDst, request and accepted are the keys of LossRtn,
\* ReportRtnSrc, ReportRtnDst, RequestRate and AcceptedRate; connections and
\* invConnection are 0 where the maps hold nothing; lastConn is the counter of
\* nxtConnectID.  atIntrfcs holds the flows that interfaces know; inTransit
\* counts the messages of a connection that are under way; returning holds the
\* connections whose rtnFunc is scheduled.  reports holds the reports of rates
\* that the last step made, with the key of the record that each is made to.
PortalType ==
  [returnTo : [Conns -> {"none", "nil", "cxt"}],
   lossRtn : SUBSET Conns, reportSrc : SUBSET Conns, reportDst : SUBSET Conns,
   connections : [Conns -> Flows \cup {0}], invConnection : [Flows -> Conns \cup {0}],
   request : SUBSET Flows, accepted : SUBSET Flows, lastConn : Conns \cup {0},
   atIntrfcs : SUBSET Flows, inTransit : [Conns -> 0..MaxTransit],
   returning : SUBSET Conns, reports : SUBSET [to : Conns, about : Flows]]

FlowType == [pckt : BOOLEAN, suspended : BOOLEAN, connectID : Conns \cup {0}]

Created == DOMAIN flowList

Init ==
  /\ flowList = << >>
  /\ loop = [in |-> "before", left |-> {}]
  /\ np = [returnTo |-> [c \in Conns |-> "none"],
           lossRtn |-> {}, reportSrc |-> {}, reportDst |-> {},
           connections |-> [c \in Conns |-> 0], invConnection |-> [f \in Flows |-> 0],
           request |-> {}, accepted |-> {}, lastConn |-> 0,
           atIntrfcs |-> {}, inTransit |-> [c \in Conns |-> 0],
           returning |-> {}, reports |-> {}]
  /\ arrivals = {} /\ running = {}
  /\ owner = [c \in Conns |-> 0]
  /\ wants = {} /\ answered = {}

----------------------------------------------------------------------------
(* The portal's methods, as functions on np.                               *)

NextConn == np.lastConn + 1

With(S, c, present) == IF present THEN S \cup {c} ELSE S

\* A new connection c with the records that the caller asks for.
Arrive(s, c, rtns) ==
  [s EXCEPT !.lastConn = c,
            !.returnTo = [s.returnTo EXCEPT ![c] = IF rtns.cxt THEN "cxt" ELSE "nil"],
            !.lossRtn = With(@, c, rtns.loss),
            !.reportSrc = With(@, c, rtns.src),
            !.reportDst = With(@, c, rtns.dst)]

\* EnterNetwork remembers the flow of a new connection, in both directions.
Connect(s, c, f) ==
  [s EXCEPT !.connections = [s.connections EXCEPT ![c] = f],
            !.invConnection = [s.invConnection EXCEPT ![f] = c]]

\* Delete every record of a connection.
DropRecords(s, c) ==
  [s EXCEPT !.returnTo = [s.returnTo EXCEPT ![c] = "none"],
            !.lossRtn = @ \ {c}, !.reportSrc = @ \ {c}, !.reportDst = @ \ {c}]

AsksReturn(s, c) == c \in Conns /\ s.returnTo[c] = "cxt"

\* Defect: the record is left for the next message of the connection.
DepartKept(s, c) ==
  IF AsksReturn(s, c) THEN [s EXCEPT !.returning = @ \cup {c}] ELSE s

\* Depart with the one frame of a flow's message: the answer is scheduled and
\* the records go.  Without a context Depart returns early.
Depart(s, c) ==
  IF AsksReturn(s, c)
  THEN DropRecords([s EXCEPT !.returning = @ \cup {c}], c)
  ELSE s

\* Placed or simulated, the message is under way for a while.
SendNetMsg(s, c, latency) ==
  IF latency = "Zero" THEN Depart(s, c)
  ELSE [s EXCEPT !.inTransit = [s.inTransit EXCEPT ![c] = @ + 1]]

\* Defect: the tables indexed by connection are cleared at the flow's ID.
ClearRmFlowByFlow(s, f) ==
  LET t == [s EXCEPT !.request = @ \ {f}, !.accepted = @ \ {f}]
  IN  IF f \notin Conns THEN t
      ELSE DropRecords([t EXCEPT !.connections = [t.connections EXCEPT ![f] = 0]], f)

\* InvConnection keeps its entry.
ClearRmFlow(s, f) ==
  LET c == s.invConnection[f]
      t == [s EXCEPT !.request = @ \ {f}, !.accepted = @ \ {f}]
  IN  IF c = 0 THEN t
      ELSE DropRecords([t EXCEPT !.connections = [t.connections EXCEPT ![c] = 0]], c)

\* ReportFlowChg for each of the flows F: the records, which are kept by
\* connection, are looked up with the flow's ID.
ReportFlowChg(s, F) ==
  [s EXCEPT !.reports = @ \cup {[to |-> f, about |-> f] : f \in F \cap (s.reportSrc \cup s.reportDst)}]

\* The interfaces forget the flow; FlowRates shows the ones that may not.
RmFlow(s, f) ==
  ClearRmFlow(ReportFlowChg([s EXCEPT !.atIntrfcs = @ \ {f}], {f}), f)

BuildFlow(s, f, action) ==
  IF action = "Srt" THEN [s EXCEPT !.atIntrfcs = @ \cup {f}] ELSE s

\* The flows with a new rate when EstablishFlowRate gives up: none, or f and
\* some of the others, when it is one of them that cannot have its rate.
RefusedAfter(s, f) ==
  LET others == s.atIntrfcs \ {f}
  IN  {{}} \cup IF others = {} THEN {} ELSE {{f} \cup F : F \in SUBSET others}

\* What FlowEntry may leave behind when it returns ok.  The flows chg are the
\* ones whose rates were recomputed besides f.
FlowEntry(s, f, c, action, latency, ok) ==
  LET built == BuildFlow([s EXCEPT !.request = @ \cup {f}], f, action)
      sent(chg) == SendNetMsg([built EXCEPT !.accepted = @ \cup {f} \cup chg], c, latency)
      ended(chg) == IF action = "End" THEN RmFlow(sent(chg), f) ELSE sent(chg)
  IN  IF ok
      THEN {ReportFlowChg(ended(chg), chg) : chg \in SUBSET (built.atIntrfcs \ {f})}
      ELSE {[built EXCEPT !.accepted = @ \cup F] : F \in RefusedAfter(built, f)}

----------------------------------------------------------------------------
(* Entries.                                                                *)

Quiet == [np EXCEPT !.reports = {}]

\* What the caller learns from the entry, and from the portal s it finds.
Learn(s, f, c, action, ok) ==
  /\ running' = IF ~ok THEN running
                ELSE IF action = "End" THEN running \ {f} ELSE running \cup {f}
  /\ wants' = IF ok /\ AsksReturn(s, c) THEN wants \cup {c} ELSE wants
  /\ UNCHANGED answered

\* EnterNetwork for a flow, with the connection the caller gives, or 0.  The
\* first two guards are the code's panics.
EnterNetwork(f, action, given, latency, rtns, ok) ==
  LET c == IF given = 0 THEN NextConn ELSE given
      s == IF given = 0 THEN Connect(Arrive(Quiet, c, rtns), c, f) ELSE Quiet
  IN  /\ given # 0 => np.connections[given] # 0
      /\ action # "Srt" => f \in np.request \cap np.accepted
      /\ c \in Conns
      /\ latency # "Zero" => np.inTransit[c] < MaxTransit
      /\ np' \in FlowEntry(s, f, c, action, latency, ok)
      /\ owner' = IF given = 0 THEN [owner EXCEPT ![c] = f] ELSE owner
      /\ Learn(s, f, c, action, ok)

\* The flow keeps the connection of the entry; a flow of packets makes none.
StartFlow(f, rtns, ok) ==
  /\ IF flowList[f].pckt
     THEN ok /\ UNCHANGED <<np, running, owner, wants, answered>>
     ELSE EnterNetwork(f, "Srt", 0, "Zero", rtns, ok)

ConnectIDAfter(f) == IF flowList[f].pckt THEN 0 ELSE NextConn

\* The program's own entries: it gives a connection only to the flow that it
\* was made for, and starts only flows that it has not running.
ProgramEnters(f, action, given, latency, rtns) ==
  /\ loop.in = "done"
  /\ ~flowList[f].pckt
  /\ action = "Srt" => f \notin running /\ given = 0
  /\ given # 0 => np.connections[given] = f
  /\ \E ok \in BOOLEAN : EnterNetwork(f, action, given, latency, rtns, ok)
  /\ UNCHANGED <<flowList, loop, arrivals>>

ProgramStarts(f, rtns) ==
  /\ loop.in = "done" /\ f \notin running
  /\ \E ok \in BOOLEAN : StartFlow(f, rtns, ok)
  /\ flowList' = [flowList EXCEPT ![f].connectID = ConnectIDAfter(f)]
  /\ UNCHANGED <<loop, arrivals>>

\* Flow.RmFlow gives no connection: the portal makes a new one.
ProgramRemoves(f, cxt) ==
  ProgramEnters(f, "End", 0, "Zero", [cxt |-> cxt, src |-> FALSE, dst |-> FALSE, loss |-> FALSE])

\* ChangeRate goes around EnterNetwork.
ChangeRate(f) ==
  LET c == flowList[f].connectID
  IN  /\ loop.in = "done" /\ f \in running
      /\ \E ok \in BOOLEAN :
           /\ np' \in FlowEntry(Quiet, f, c, "Chg", "Zero", ok)
           /\ Learn(np, f, c, "Chg", ok)
      /\ UNCHANGED <<flowList, loop, arrivals, owner>>

----------------------------------------------------------------------------
(* Flows.                                                                  *)

CreateFlow(pckt) ==
  /\ loop.in \in {"before", "done"} /\ Len(flowList) < MaxFlows
  /\ flowList' = Append(flowList, [pckt |-> pckt, suspended |-> FALSE, connectID |-> 0])
  /\ UNCHANGED <<loop, np, arrivals, running, owner, wants, answered>>

\* StartFlows: two loops over the flows that exist, each in any order.
StartFlows ==
  /\ loop.in = "before"
  /\ loop' = [in |-> "start", left |-> Created]
  /\ UNCHANGED <<flowList, np, arrivals, running, owner, wants, answered>>

StartFlowsRtns == [cxt |-> FALSE, src |-> TRUE, dst |-> TRUE, loss |-> FALSE]

StartNext(f) ==
  /\ loop.in = "start" /\ f \in loop.left
  /\ loop' = [loop EXCEPT !.left = @ \ {f}]
  /\ \E ok \in BOOLEAN :
       /\ StartFlow(f, StartFlowsRtns, ok)
       /\ flowList' = [flowList EXCEPT ![f].connectID = ConnectIDAfter(f), ![f].suspended = ~ok]
  /\ UNCHANGED arrivals

\* Defect: every flow is taken for one of packets.
PushNextAny(f) ==
  /\ loop.in = "push" /\ f \in loop.left
  /\ loop' = [loop EXCEPT !.left = @ \ {f}]
  /\ arrivals' = IF ~flowList[f].suspended THEN arrivals \cup {f} ELSE arrivals
  /\ UNCHANGED <<flowList, np, running, owner, wants, answered>>

\* The first pass of bgfPcktArrivals, at time 0, only schedules the next.  What
\* bgfPushStrmServiceTimes does to the interfaces is in NetTransit.
PushNext(f) ==
  /\ loop.in = "push" /\ f \in loop.left
  /\ loop' = [loop EXCEPT !.left = @ \ {f}]
  /\ arrivals' = IF flowList[f].pckt /\ ~flowList[f].suspended THEN arrivals \cup {f} ELSE arrivals
  /\ UNCHANGED <<flowList, np, running, owner, wants, answered>>

NextLoop ==
  /\ loop.left = {} /\ loop.in \in {"start", "push"}
  /\ loop' = IF loop.in = "start" THEN [in |-> "push", left |-> Created]
             ELSE [in |-> "done", left |-> {}]
  /\ UNCHANGED <<flowList, np, arrivals, running, owner, wants, answered>>

\* Called when a pending arrival will see it: nothing else reads Suspended any
\* more once StartFlows is done.
StopFlows ==
  /\ loop.in = "done" /\ arrivals # {}
  /\ flowList' = [f \in Created |-> [flowList[f] EXCEPT !.suspended = TRUE]]
  /\ UNCHANGED <<loop, np, arrivals, running, owner, wants, answered>>

----------------------------------------------------------------------------
(* Events.                                                                 *)

\* A packet of a background flow, with a loss record and no context.
BgfPckt(f) ==
  /\ ~flowList[f].suspended
  /\ NextConn \in Conns
  /\ LET s == Arrive(Quiet, NextConn, [cxt |-> FALSE, src |-> FALSE, dst |-> FALSE, loss |-> TRUE])
     IN  np' = SendNetMsg(s, NextConn, "Simulate")
  /\ owner' = [owner EXCEPT ![NextConn] = f]
  /\ UNCHANGED arrivals

BgfPcktArrivals(f) ==
  /\ loop.in = "done" /\ f \in arrivals
  /\ \/ BgfPckt(f)
     \/ /\ flowList[f].suspended
        /\ arrivals' = arrivals \ {f}
        /\ UNCHANGED <<np, owner>>
  /\ UNCHANGED <<flowList, loop, running, wants, answered>>

MessageArrives(c) ==
  /\ loop.in = "done" /\ np.inTransit[c] > 0
  /\ np' = Depart([Quiet EXCEPT !.inTransit = [np.inTransit EXCEPT ![c] = @ - 1]], c)
  /\ UNCHANGED <<flowList, loop, arrivals, running, owner, wants, answered>>

ReturnFires(c) ==
  /\ loop.in = "done" /\ c \in np.returning
  /\ np' = [Quiet EXCEPT !.returning = @ \ {c}]
  /\ answered' = answered \cup {c}
  /\ UNCHANGED <<flowList, loop, arrivals, running, owner, wants>>

\* Every step that enters the flow f.
FlowStep(f) ==
  \/ \E action \in {"Srt", "Chg", "End"}, given \in Conns \cup {0},
        latency \in {"Zero", "Place"}, rtns \in Rtns :
       ProgramEnters(f, action, given, latency, rtns)
  \/ \E rtns \in Rtns : ProgramStarts(f, rtns)
  \/ \E cxt \in BOOLEAN : ProgramRemoves(f, cxt)
  \/ ChangeRate(f)
  \/ StartNext(f)

Next ==
  \/ \E pckt \in BOOLEAN : CreateFlow(pckt)
  \/ StartFlows \/ NextLoop \/ StopFlows
  \/ \E f \in Created : FlowStep(f) \/ PushNext(f) \/ BgfPcktArrivals(f)
  \/ \E c \in Conns : MessageArrives(c) \/ ReturnFires(c)

Spec == Init /\ [][Next]_vars

\* The event manager fires every event that is scheduled.
FairSpec == Spec /\ \A c \in Conns : WF_vars(MessageArrives(c)) /\ WF_vars(ReturnFires(c))

----------------------------------------------------------------------------
(* Properties.                                                             *)

\* Types; only flows of packets generate packets; the portal has no record of
\* a connection that nxtConnectID has not handed out.
TypeOK ==
  /\ flowList \in Seq(FlowType) /\ Created \subseteq Flows
  /\ loop.in \in {"before", "start", "push", "done"} /\ loop.left \subseteq Created
  /\ np \in PortalType
  /\ arrivals \subseteq {f \in Created : flowList[f].pckt}
  /\ running \subseteq Created /\ owner \in [Conns -> Flows \cup {0}]
  /\ wants \subseteq Conns /\ answered \subseteq Conns
  /\ \A c \in Conns : c > np.lastConn => np.returnTo[c] = "none" /\ owner[c] = 0

\* A record that waits with a context for an accepted message is not forgotten:
\* the message is under way and will find it.
RecordsAwaitDelivery ==
  \A c \in wants : np.returnTo[c] = "cxt" => np.inTransit[c] > 0

Entries(c) ==
  <<np.returnTo[c], np.connections[c], c \in np.lossRtn, c \in np.reportSrc, c \in np.reportDst>>

\* Flow and connection IDs are counted apart, and every table is indexed by one
\* of them: a start, change or removal of one flow changes no record and no
\* connection that was made for another.
OthersUntouched ==
  [][\A c \in Conns : owner[c] # 0 /\ Entries(c)' # Entries(c) =>
       \A f \in Created \ {owner[c]} : ~FlowStep(f)]_vars

\* A flow's entry that is accepted and gives a context is answered once, and is
\* answered at all unless the flow is ended meanwhile.
Answers == INSTANCE FlowAnswers WITH
  asked <- wants, given <- answered,
  open <- {<<c, owner[c]>> : c \in np.returning \cup {d \in wants : np.returnTo[d] = "cxt"}}

AnswersSpec == Answers!Spec

\* "maps ... to see if the named flow asked to have changes reported"
\* (transition.go:310), of maps "indexed by connectID" (net.go:252): a report
\* about a flow is made to a record of that flow.
ReportsReachTheirFlow == \A r \in np.reports : owner[r.to] = r.about
=============================================================================
