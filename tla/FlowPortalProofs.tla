-------------------------- MODULE FlowPortalProofs --------------------------
(***************************************************************************)
(* Proofs about FlowPortal, for any number of flows, connections and       *)
(* messages under way.  The portal's methods are functions on its tables;  *)
(* PortalOK says what each of them preserves, whoever calls it.            *)
(***************************************************************************)
EXTENDS FlowPortal, SequenceTheorems, TLAPS

----------------------------------------------------------------------------
(* The inductive invariant.                                                *)

\* The tables that have to do with connections.
Tables(s) == <<s.returnTo, s.lossRtn, s.reportSrc, s.reportDst, s.connections,
               s.invConnection, s.lastConn, s.inTransit, s.returning>>

\* The portal s when the connections were made for the flows ow and messages
\* that want an answer were accepted on the connections w: a connection is known
\* under the flow it was made for only; a record with a context is there while
\* the accepted message is under way and gone when its answer is; connections to
\* come have left no trace.
PortalOK(s, ow, w) ==
  /\ s \in PortalType /\ ow \in [Conns -> Flows \cup {0}] /\ w \subseteq Conns
  /\ \A c \in Conns :
       /\ s.connections[c] # 0 => ow[c] = s.connections[c]
       /\ s.returnTo[c] = "cxt" => /\ ow[c] # 0 /\ c \notin s.returning
                                   /\ c \in w <=> s.inTransit[c] > 0
       /\ c \in s.returning => ow[c] # 0
       /\ c > s.lastConn => /\ s.returnTo[c] = "none" /\ s.inTransit[c] = 0
                            /\ ow[c] = 0 /\ c \notin w /\ c \notin s.returning
  /\ \A f \in Flows : s.invConnection[f] # 0 => ow[s.invConnection[f]] = f

\* The inductive invariant: a flow keeps the ID of a connection made for it.
IInv ==
  /\ TypeOK
  /\ loop \in [in : {"before", "start", "push", "done"}, left : SUBSET Flows]
  /\ PortalOK(np, owner, wants)
  /\ \A f \in Created : flowList[f].connectID # 0 => owner[flowList[f].connectID] = f

\* Entries(c) and the answers under way, as functions of the portal.
EntriesOf(s, c) ==
  <<s.returnTo[c], s.connections[c], c \in s.lossRtn, c \in s.reportSrc, c \in s.reportDst>>

OpenOf(s, ow, w) == {<<c, ow[c]>> : c \in s.returning \cup {d \in w : s.returnTo[d] = "cxt"}}

----------------------------------------------------------------------------
(* The portal's methods.                                                   *)

\* Only the tables matter to PortalOK, EntriesOf and OpenOf.
LEMMA SameTables ==
  ASSUME NEW s, NEW t \in PortalType, Tables(t) = Tables(s), NEW ow, NEW w
  PROVE  /\ PortalOK(s, ow, w) => PortalOK(t, ow, w)
         /\ \A c : EntriesOf(t, c) = EntriesOf(s, c)
         /\ OpenOf(t, ow, w) = OpenOf(s, ow, w)
         /\ t.invConnection = s.invConnection /\ t.lastConn = s.lastConn
<1>1. /\ t.returnTo = s.returnTo /\ t.lossRtn = s.lossRtn /\ t.reportSrc = s.reportSrc
      /\ t.reportDst = s.reportDst /\ t.connections = s.connections
      /\ t.invConnection = s.invConnection /\ t.lastConn = s.lastConn
      /\ t.inTransit = s.inTransit /\ t.returning = s.returning
  BY DEF Tables
<1>2. PortalOK(s, ow, w) => PortalOK(t, ow, w)
  BY <1>1 DEF PortalOK
<1>3. (\A c : EntriesOf(t, c) = EntriesOf(s, c)) /\ OpenOf(t, ow, w) = OpenOf(s, ow, w)
  BY <1>1 DEF EntriesOf, OpenOf
<1>4. QED
  BY <1>1, <1>2, <1>3

\* Arrive: a new connection for the flow f, with the records asked for.
ArrivePost(s, t, ow, o, w, c, rtns) ==
  /\ PortalOK(t, o, w)
  /\ \A d \in Conns : d # c => EntriesOf(t, d) = EntriesOf(s, d)
  /\ OpenOf(t, o, w) = OpenOf(s, ow, w)
  /\ t.lastConn = c /\ t.invConnection = s.invConnection /\ t.inTransit[c] = 0
  /\ t.returnTo[c] = IF rtns.cxt THEN "cxt" ELSE "nil"

LEMMA ArriveFacts ==
  ASSUME NEW s, NEW ow, NEW w, PortalOK(s, ow, w), NEW c \in Conns, c = s.lastConn + 1,
         NEW f \in Flows, NEW rtns \in RtnDescs, NEW o, o = [ow EXCEPT ![c] = f]
  PROVE  ArrivePost(s, Arrive(s, c, rtns), ow, o, w, c, rtns)
<1> DEFINE t == Arrive(s, c, rtns)
<1>1. /\ s \in PortalType /\ ow \in [Conns -> Flows \cup {0}] /\ w \subseteq Conns
      /\ c > s.lastConn /\ s.lastConn \in Nat
  BY DEF PortalOK, PortalType, Conns
<1>2. /\ t.returnTo = [s.returnTo EXCEPT ![c] = IF rtns.cxt THEN "cxt" ELSE "nil"]
      /\ t.lastConn = c /\ t.connections = s.connections /\ t.invConnection = s.invConnection
      /\ t.inTransit = s.inTransit /\ t.returning = s.returning
      /\ \A d : d # c => /\ d \in t.lossRtn <=> d \in s.lossRtn
                         /\ d \in t.reportSrc <=> d \in s.reportSrc
                         /\ d \in t.reportDst <=> d \in s.reportDst
  BY <1>1 DEF Arrive, PortalType, With
<1>3. t \in PortalType
  <2>1. [s.returnTo EXCEPT ![c] = IF rtns.cxt THEN "cxt" ELSE "nil"] \in [Conns -> {"none", "nil", "cxt"}]
    BY <1>1 DEF PortalType
  <2>2. ASSUME NEW S \in SUBSET Conns, NEW p
        PROVE  With(S, c, p) \in SUBSET Conns
    BY DEF With
  <2>3. /\ With(s.lossRtn, c, rtns.loss) \in SUBSET Conns
        /\ With(s.reportSrc, c, rtns.src) \in SUBSET Conns
        /\ With(s.reportDst, c, rtns.dst) \in SUBSET Conns
    BY <1>1, <2>2 DEF PortalType
  <2>4. QED
    BY <1>1, <2>1, <2>3 DEF Arrive, PortalType
<1>4. /\ s.returnTo \in [Conns -> {"none", "nil", "cxt"}] /\ s.lastConn \in Nat
      /\ Flows \subseteq Nat \ {0} /\ Conns \subseteq Nat \ {0}
      /\ s.connections \in [Conns -> Flows \cup {0}]
      /\ s.invConnection \in [Flows -> Conns \cup {0}]
  BY <1>1, PortalAssumption DEF PortalType, Flows, Conns
<1>5. /\ o \in [Conns -> Flows \cup {0}] /\ o[c] = f /\ f # 0
      /\ \A d \in Conns : d # c => o[d] = ow[d]
  BY <1>1, <1>4
<1>6. /\ t.returnTo[c] = (IF rtns.cxt THEN "cxt" ELSE "nil")
      /\ \A d \in Conns : d # c => t.returnTo[d] = s.returnTo[d]
  BY <1>2, <1>4
<1>7. s.inTransit[c] = 0 /\ ow[c] = 0 /\ c \notin w /\ c \notin s.returning
  BY <1>1 DEF PortalOK
<1>8. ASSUME NEW d \in Conns
      PROVE  /\ t.connections[d] # 0 => o[d] = t.connections[d]
             /\ t.returnTo[d] = "cxt" => /\ o[d] # 0 /\ d \notin t.returning
                                         /\ d \in w <=> t.inTransit[d] > 0
             /\ d \in t.returning => o[d] # 0
             /\ d > t.lastConn => /\ t.returnTo[d] = "none" /\ t.inTransit[d] = 0
                                  /\ o[d] = 0 /\ d \notin w /\ d \notin t.returning
  <2>1. CASE d = c
    <3>1. s.connections[c] = 0
      BY <1>4, <1>7 DEF PortalOK
    <3>2. QED
      BY <1>2, <1>5, <1>6, <1>7, <2>1, <3>1, <1>4
  <2>2. CASE d # c
    <3>1. d > t.lastConn => d > s.lastConn
      BY <1>1, <1>2, <1>4
    <3>2. QED
      BY <1>2, <1>5, <1>6, <2>2, <3>1 DEF PortalOK
  <2>3. QED
    BY <2>1, <2>2
<1>9. ASSUME NEW g \in Flows, t.invConnection[g] # 0
      PROVE  o[t.invConnection[g]] = g
  <2>1. ow[s.invConnection[g]] = g /\ s.invConnection[g] \in Conns
    BY <1>2, <1>4, <1>9 DEF PortalOK
  <2>2. s.invConnection[g] # c
    BY <1>4, <1>7, <2>1
  <2>3. QED
    BY <1>2, <1>5, <2>1, <2>2
<1>10. PortalOK(t, o, w)
  BY <1>1, <1>3, <1>5, <1>8, <1>9 DEF PortalOK
<1>11. \A d \in Conns : d # c => EntriesOf(t, d) = EntriesOf(s, d)
  BY <1>2, <1>6 DEF EntriesOf
<1>12. OpenOf(t, o, w) = OpenOf(s, ow, w)
  <2>1. s.returning \subseteq Conns
    BY <1>1 DEF PortalType
  <2>2. \A d \in s.returning \cup w : d \in Conns /\ d # c /\ o[d] = ow[d] /\ t.returnTo[d] = s.returnTo[d]
    BY <1>1, <1>5, <1>6, <1>7, <2>1
  <2>3. QED
    BY <1>2, <2>2 DEF OpenOf
<1>13. QED
  BY <1>2, <1>6, <1>7, <1>10, <1>11, <1>12 DEF ArrivePost

\* Connect: both tables remember the flow that the connection is for.
LEMMA ConnectFacts ==
  ASSUME NEW s, NEW ow, NEW w, PortalOK(s, ow, w),
         NEW c \in Conns, NEW f \in Flows, ow[c] = f
  PROVE  LET t == Connect(s, c, f)
         IN  /\ PortalOK(t, ow, w)
             /\ \A d \in Conns : d # c => EntriesOf(t, d) = EntriesOf(s, d)
             /\ OpenOf(t, ow, w) = OpenOf(s, ow, w)
             /\ t.lastConn = s.lastConn /\ t.returnTo = s.returnTo
             /\ t.inTransit = s.inTransit /\ t.invConnection[f] = c
<1> DEFINE t == Connect(s, c, f)
<1>1. s \in PortalType /\ ow \in [Conns -> Flows \cup {0}] /\ w \subseteq Conns
  BY DEF PortalOK
<1>2. /\ t \in PortalType
      /\ t.connections = [s.connections EXCEPT ![c] = f]
      /\ t.invConnection = [s.invConnection EXCEPT ![f] = c]
      /\ t.returnTo = s.returnTo /\ t.lossRtn = s.lossRtn /\ t.reportSrc = s.reportSrc
      /\ t.reportDst = s.reportDst /\ t.lastConn = s.lastConn
      /\ t.inTransit = s.inTransit /\ t.returning = s.returning
  BY <1>1 DEF Connect, PortalType
<1>3. /\ t.connections[c] = f /\ \A d \in Conns : d # c => t.connections[d] = s.connections[d]
      /\ t.invConnection[f] = c
      /\ \A g \in Flows : g # f => t.invConnection[g] = s.invConnection[g]
  BY <1>1, <1>2 DEF PortalType
<1>4. PortalOK(t, ow, w)
  BY <1>1, <1>2, <1>3 DEF PortalOK
<1>5. \A d \in Conns : d # c => EntriesOf(t, d) = EntriesOf(s, d)
  BY <1>2, <1>3 DEF EntriesOf
<1>6. OpenOf(t, ow, w) = OpenOf(s, ow, w)
  BY <1>2 DEF OpenOf
<1>7. QED
  BY <1>2, <1>3, <1>4, <1>5, <1>6

LEMMA DropFacts ==
  ASSUME NEW s \in PortalType, NEW c \in Conns
  PROVE  LET t == DropRecords(s, c)
         IN  /\ t \in PortalType
             /\ t.returnTo = [s.returnTo EXCEPT ![c] = "none"]
             /\ t.lossRtn = s.lossRtn \ {c} /\ t.reportSrc = s.reportSrc \ {c}
             /\ t.reportDst = s.reportDst \ {c} /\ t.returning = s.returning
             /\ t.connections = s.connections /\ t.invConnection = s.invConnection
             /\ t.lastConn = s.lastConn /\ t.inTransit = s.inTransit
<1>1. [s.returnTo EXCEPT ![c] = "none"] \in [Conns -> {"none", "nil", "cxt"}]
  BY DEF PortalType
<1>2. QED
  BY <1>1 DEF DropRecords, PortalType

\* Depart leaves alone what it does not answer.
LEMMA DepartFacts ==
  ASSUME NEW s \in PortalType, NEW c
  PROVE  LET t == Depart(s, c)
         IN  /\ t \in PortalType
             /\ t.connections = s.connections /\ t.invConnection = s.invConnection
             /\ t.lastConn = s.lastConn /\ t.inTransit = s.inTransit
             /\ \A d \in Conns : d # c => /\ EntriesOf(t, d) = EntriesOf(s, d)
                                          /\ t.returnTo[d] = s.returnTo[d]
                                          /\ d \in t.returning <=> d \in s.returning
             /\ AsksReturn(s, c) => t.returnTo[c] = "none" /\ c \in t.returning
             /\ ~ AsksReturn(s, c) => t = s
<1> DEFINE t == Depart(s, c)
<1>1. CASE AsksReturn(s, c)
  <2>1. c \in Conns
    BY <1>1 DEF AsksReturn
  <2>2. /\ t \in PortalType
        /\ t.returnTo = [s.returnTo EXCEPT ![c] = "none"]
        /\ t.lossRtn = s.lossRtn \ {c} /\ t.reportSrc = s.reportSrc \ {c}
        /\ t.reportDst = s.reportDst \ {c} /\ t.returning = s.returning \cup {c}
        /\ t.connections = s.connections /\ t.invConnection = s.invConnection
        /\ t.lastConn = s.lastConn /\ t.inTransit = s.inTransit
    <3> DEFINE u == [s EXCEPT !.returning = @ \cup {c}]
    <3>1. s.returning \cup {c} \in SUBSET Conns
      BY <2>1 DEF PortalType
    <3>2. /\ u \in PortalType /\ u.returning = s.returning \cup {c}
          /\ u.returnTo = s.returnTo /\ u.lossRtn = s.lossRtn
          /\ u.reportSrc = s.reportSrc /\ u.reportDst = s.reportDst
          /\ u.connections = s.connections /\ u.invConnection = s.invConnection
          /\ u.lastConn = s.lastConn /\ u.inTransit = s.inTransit
      BY <3>1 DEF PortalType
    <3>3. t = DropRecords(u, c)
      BY <1>1 DEF Depart
    <3> HIDE DEF t, u
    <3>4. QED
      BY <2>1, <3>2, <3>3, DropFacts
  <2>3. t.returnTo[c] = "none" /\ \A d \in Conns : d # c => t.returnTo[d] = s.returnTo[d]
    BY <2>1, <2>2 DEF PortalType
  <2>4. \A d \in Conns : d # c => EntriesOf(t, d) = EntriesOf(s, d)
    BY <2>2, <2>3 DEF EntriesOf
  <2>5. QED
    BY <1>1, <2>2, <2>3, <2>4
<1>2. CASE ~ AsksReturn(s, c)
  BY <1>2 DEF Depart
<1>3. QED
  BY <1>1, <1>2

Accepted(s, c, w) == w \cup IF AsksReturn(s, c) THEN {c} ELSE {}

SendPost(s, t, ow, w, c) ==
  /\ PortalOK(t, ow, Accepted(s, c, w))
  /\ \A d \in Conns : d # c => EntriesOf(t, d) = EntriesOf(s, d)
  /\ OpenOf(t, ow, Accepted(s, c, w))
       = OpenOf(s, ow, w) \cup IF AsksReturn(s, c) THEN {<<c, ow[c]>>} ELSE {}
  /\ t.invConnection = s.invConnection /\ t.lastConn = s.lastConn

\* SendNetMsg with the message of an accepted entry: an answer is open if the
\* record of the connection has a context.
LEMMA SendFacts ==
  ASSUME NEW s, NEW ow, NEW w, PortalOK(s, ow, w), NEW c \in Conns \cup {0}, NEW latency,
         c <= s.lastConn,
         latency # "Zero" => c # 0 /\ s.inTransit[c] < MaxTransit
  PROVE  SendPost(s, SendNetMsg(s, c, latency), ow, w, c)
<1> DEFINE t == SendNetMsg(s, c, latency)
           x == Accepted(s, c, w)
<1> USE DEF SendPost
<1>1. /\ s \in PortalType /\ ow \in [Conns -> Flows \cup {0}] /\ w \subseteq Conns
      /\ Conns \subseteq Nat \ {0} /\ s.lastConn \in Nat
      /\ s.returning \subseteq Conns /\ s.inTransit \in [Conns -> 0..MaxTransit]
      /\ MaxTransit \in Nat /\ 0 \notin Conns
  BY PortalAssumption DEF PortalOK, PortalType, Conns
<1>2. x \subseteq Conns /\ \A d \in Conns : d # c => (d \in x <=> d \in w)
  BY <1>1 DEF Accepted, AsksReturn
<1>3. AsksReturn(s, c) => c \in Conns /\ c \in x /\ ow[c] # 0 /\ c \notin s.returning
  BY <1>1 DEF Accepted, AsksReturn, PortalOK
<1>4. CASE latency = "Zero"
  <2>1. t = Depart(s, c)
    BY <1>4 DEF SendNetMsg
  <2>2. /\ t \in PortalType
        /\ t.connections = s.connections /\ t.invConnection = s.invConnection
        /\ t.lastConn = s.lastConn /\ t.inTransit = s.inTransit
        /\ \A d \in Conns : d # c => /\ EntriesOf(t, d) = EntriesOf(s, d)
                                     /\ t.returnTo[d] = s.returnTo[d]
                                     /\ d \in t.returning <=> d \in s.returning
        /\ AsksReturn(s, c) => t.returnTo[c] = "none" /\ c \in t.returning
        /\ ~ AsksReturn(s, c) => t = s
    BY <1>1, <2>1, DepartFacts
  <2>3. CASE AsksReturn(s, c)
    <3>1. PortalOK(t, ow, x)
      <4>1. ASSUME NEW d \in Conns, d # c
            PROVE  /\ t.connections[d] # 0 => ow[d] = t.connections[d]
                   /\ t.returnTo[d] = "cxt" => /\ ow[d] # 0 /\ d \notin t.returning
                                               /\ d \in x <=> t.inTransit[d] > 0
                   /\ d \in t.returning => ow[d] # 0
                   /\ d > t.lastConn => /\ t.returnTo[d] = "none" /\ t.inTransit[d] = 0
                                        /\ ow[d] = 0 /\ d \notin x /\ d \notin t.returning
        BY <1>2, <2>2, <4>1 DEF PortalOK
      <4>2. /\ t.connections[c] # 0 => ow[c] = t.connections[c]
            /\ t.returnTo[c] = "none" /\ ow[c] # 0 /\ ~ c > t.lastConn
        BY <1>1, <1>3, <2>2, <2>3 DEF PortalOK
      <4>3. \A f \in Flows : t.invConnection[f] # 0 => ow[t.invConnection[f]] = f
        BY <2>2 DEF PortalOK
      <4>4. QED
        BY <1>1, <1>2, <2>2, <4>1, <4>2, <4>3 DEF PortalOK
    <3>2. t.returning \cup {d \in x : t.returnTo[d] = "cxt"}
            = s.returning \cup {d \in w : s.returnTo[d] = "cxt"} \cup {c}
      <4>1. t.returning \subseteq Conns
        BY <2>2 DEF PortalType
      <4>2. QED
        BY <1>1, <1>2, <1>3, <2>2, <2>3, <4>1
    <3>3. OpenOf(t, ow, x) = OpenOf(s, ow, w) \cup {<<c, ow[c]>>}
      BY <3>2 DEF OpenOf
    <3>4. QED
      BY <2>2, <2>3, <3>1, <3>3
  <2>4. CASE ~ AsksReturn(s, c)
    <3>1. x = w
      BY <2>4 DEF Accepted
    <3>2. QED
      BY <2>2, <2>4, <3>1
  <2>5. QED
    BY <2>3, <2>4
<1>5. CASE latency # "Zero"
  <2>1. c \in Conns /\ s.inTransit[c] + 1 \in 0..MaxTransit
    BY <1>1, <1>5
  <2>2. [s.inTransit EXCEPT ![c] = @ + 1] \in [Conns -> 0..MaxTransit]
    BY <1>1, <2>1
  <2>3. /\ t \in PortalType
        /\ t.inTransit = [s.inTransit EXCEPT ![c] = @ + 1]
        /\ t.connections = s.connections /\ t.invConnection = s.invConnection
        /\ t.lastConn = s.lastConn /\ t.returnTo = s.returnTo
        /\ t.lossRtn = s.lossRtn /\ t.reportSrc = s.reportSrc /\ t.reportDst = s.reportDst
        /\ t.returning = s.returning
    BY <1>1, <1>5, <2>2 DEF SendNetMsg, PortalType
  <2>4. /\ t.inTransit[c] = s.inTransit[c] + 1 /\ t.inTransit[c] > 0
        /\ \A d \in Conns : d # c => t.inTransit[d] = s.inTransit[d]
    <3>1. s.inTransit[c] \in 0..MaxTransit
      BY <1>1, <2>1
    <3>2. s.inTransit[c] + 1 > 0
      BY <1>1, <3>1
    <3>3. /\ t.inTransit[c] = s.inTransit[c] + 1
          /\ \A d \in Conns : d # c => t.inTransit[d] = s.inTransit[d]
      BY <1>1, <2>1, <2>3
    <3>4. QED
      BY <3>2, <3>3
  <2>5. PortalOK(t, ow, x)
    <3>1. ASSUME NEW d \in Conns, d # c
          PROVE  /\ t.connections[d] # 0 => ow[d] = t.connections[d]
                 /\ t.returnTo[d] = "cxt" => /\ ow[d] # 0 /\ d \notin t.returning
                                             /\ d \in x <=> t.inTransit[d] > 0
                 /\ d \in t.returning => ow[d] # 0
                 /\ d > t.lastConn => /\ t.returnTo[d] = "none" /\ t.inTransit[d] = 0
                                      /\ ow[d] = 0 /\ d \notin x /\ d \notin t.returning
      BY <1>2, <2>3, <2>4, <3>1 DEF PortalOK
    <3>2. /\ t.connections[c] # 0 => ow[c] = t.connections[c]
          /\ t.returnTo[c] = "cxt" => /\ ow[c] # 0 /\ c \notin t.returning
                                      /\ c \in x <=> t.inTransit[c] > 0
          /\ c \in t.returning => ow[c] # 0
          /\ ~ c > t.lastConn
      BY <1>1, <1>3, <2>1, <2>3, <2>4 DEF PortalOK, AsksReturn
    <3>3. \A f \in Flows : t.invConnection[f] # 0 => ow[t.invConnection[f]] = f
      BY <2>3 DEF PortalOK
    <3>4. QED
      BY <1>1, <1>2, <2>3, <3>1, <3>2, <3>3 DEF PortalOK
  <2>6. OpenOf(t, ow, x) = OpenOf(s, ow, w) \cup IF AsksReturn(s, c) THEN {<<c, ow[c]>>} ELSE {}
    <3>1. {d \in x : t.returnTo[d] = "cxt"}
            = {d \in w : s.returnTo[d] = "cxt"} \cup IF AsksReturn(s, c) THEN {c} ELSE {}
      BY <2>3 DEF Accepted, AsksReturn
    <3>2. QED
      BY <2>3, <3>1 DEF OpenOf
  <2>7. \A d \in Conns : d # c => EntriesOf(t, d) = EntriesOf(s, d)
    BY <2>3 DEF EntriesOf
  <2>8. QED
    BY <2>3, <2>5, <2>6, <2>7
<1>6. QED
  BY <1>4, <1>5

\* ClearRmFlow takes what the portal has on the flow's own connection.
LEMMA ClearFacts ==
  ASSUME NEW s, NEW ow, NEW w, PortalOK(s, ow, w), NEW f \in Flows
  PROVE  LET t == ClearRmFlow(s, f)
         IN  /\ PortalOK(t, ow, w)
             /\ \A d \in Conns : ow[d] # f => EntriesOf(t, d) = EntriesOf(s, d)
             /\ OpenOf(t, ow, w) \subseteq OpenOf(s, ow, w)
             /\ {o \in OpenOf(s, ow, w) : o[2] # f} \subseteq OpenOf(t, ow, w)
             /\ t.invConnection = s.invConnection /\ t.lastConn = s.lastConn
<1> DEFINE t == ClearRmFlow(s, f)
           c == s.invConnection[f]
<1>1. /\ s \in PortalType /\ ow \in [Conns -> Flows \cup {0}] /\ w \subseteq Conns
      /\ c \in Conns \cup {0} /\ Flows \subseteq Nat \ {0}
  BY PortalAssumption DEF PortalOK, PortalType, Flows
<1>2. CASE c = 0
  <2>1. t = [s EXCEPT !.request = @ \ {f}, !.accepted = @ \ {f}]
    BY <1>2 DEF ClearRmFlow
  <2>2. t \in PortalType /\ Tables(t) = Tables(s)
    <3>1. s.request \ {f} \in SUBSET Flows /\ s.accepted \ {f} \in SUBSET Flows
      BY <1>1 DEF PortalType
    <3>2. t \in PortalType
      BY <1>1, <2>1, <3>1 DEF PortalType
    <3>3. Tables(t) = Tables(s)
      BY <1>1, <2>1 DEF PortalType, Tables
    <3>4. QED
      BY <3>2, <3>3
  <2>3. QED
    BY <2>2, SameTables
<1>3. CASE c # 0
  <2>1. c \in Conns /\ ow[c] = f
    BY <1>1, <1>3 DEF PortalOK
  <2>2. /\ t \in PortalType
        /\ t.returnTo = [s.returnTo EXCEPT ![c] = "none"]
        /\ t.connections = [s.connections EXCEPT ![c] = 0]
        /\ t.lossRtn = s.lossRtn \ {c} /\ t.reportSrc = s.reportSrc \ {c}
        /\ t.reportDst = s.reportDst \ {c}
        /\ t.returning = s.returning /\ t.invConnection = s.invConnection
        /\ t.lastConn = s.lastConn /\ t.inTransit = s.inTransit
    <3> DEFINE u == [s EXCEPT !.request = @ \ {f}, !.accepted = @ \ {f}]
               v == [u EXCEPT !.connections = [u.connections EXCEPT ![c] = 0]]
    <3>1. s.request \ {f} \in SUBSET Flows /\ s.accepted \ {f} \in SUBSET Flows
      BY <1>1 DEF PortalType
    <3>2. /\ u \in PortalType
          /\ u.returnTo = s.returnTo /\ u.connections = s.connections
          /\ u.lossRtn = s.lossRtn /\ u.reportSrc = s.reportSrc
          /\ u.reportDst = s.reportDst
          /\ u.returning = s.returning /\ u.invConnection = s.invConnection
          /\ u.lastConn = s.lastConn /\ u.inTransit = s.inTransit
      BY <1>1, <3>1 DEF PortalType
    <3>3. [s.connections EXCEPT ![c] = 0] \in [Conns -> Flows \cup {0}]
      BY <1>1, <2>1 DEF PortalType
    <3>4. /\ v \in PortalType
          /\ v.returnTo = s.returnTo /\ v.connections = [s.connections EXCEPT ![c] = 0]
          /\ v.lossRtn = s.lossRtn /\ v.reportSrc = s.reportSrc
          /\ v.reportDst = s.reportDst
          /\ v.returning = s.returning /\ v.invConnection = s.invConnection
          /\ v.lastConn = s.lastConn /\ v.inTransit = s.inTransit
      BY <3>2, <3>3 DEF PortalType
    <3>5. t = DropRecords(v, c)
      BY <1>3 DEF ClearRmFlow
    <3> HIDE DEF u, v, t, c
    <3>6. QED
      BY <3>4, <3>5, <2>1, DropFacts
  <2>3. /\ t.returnTo[c] = "none" /\ t.connections[c] = 0
        /\ \A d \in Conns : d # c => /\ t.returnTo[d] = s.returnTo[d]
                                     /\ t.connections[d] = s.connections[d]
    BY <1>1, <2>1, <2>2 DEF PortalType
  <2>4. PortalOK(t, ow, w)
    BY <1>1, <2>2, <2>3 DEF PortalOK
  <2>5. \A d \in Conns : ow[d] # f => EntriesOf(t, d) = EntriesOf(s, d)
    BY <2>1, <2>2, <2>3 DEF EntriesOf
  <2>6. /\ {d \in w : t.returnTo[d] = "cxt"} \subseteq {d \in w : s.returnTo[d] = "cxt"}
        /\ \A d \in w : d # c /\ s.returnTo[d] = "cxt" => t.returnTo[d] = "cxt"
    BY <1>1, <2>3
  <2>7. OpenOf(t, ow, w) \subseteq OpenOf(s, ow, w)
    BY <2>2, <2>6 DEF OpenOf
  <2>8. ASSUME NEW o \in OpenOf(s, ow, w), o[2] # f
        PROVE  o \in OpenOf(t, ow, w)
    <3>1. PICK d \in s.returning \cup {e \in w : s.returnTo[e] = "cxt"} : o = <<d, ow[d]>>
      BY DEF OpenOf
    <3>2. d # c
      BY <2>1, <2>8, <3>1
    <3>3. QED
      BY <2>2, <2>6, <3>1, <3>2 DEF OpenOf
  <2>9. QED
    BY <2>2, <2>4, <2>5, <2>7, <2>8
<1>4. QED
  BY <1>2, <1>3

\* What a step of an entry that only concerns flows and rates leaves alone.
LEMMA ReportFacts ==
  ASSUME NEW s \in PortalType, NEW F \in SUBSET Flows
  PROVE  ReportFlowChg(s, F) \in PortalType /\ Tables(ReportFlowChg(s, F)) = Tables(s)
<1>1. s.reports \cup {[to |-> f, about |-> f] : f \in F \cap (s.reportSrc \cup s.reportDst)}
        \in SUBSET [to : Conns, about : Flows]
  BY DEF PortalType
<1>2. ReportFlowChg(s, F) \in PortalType
  BY <1>1 DEF ReportFlowChg, PortalType
<1>3. Tables(ReportFlowChg(s, F)) = Tables(s)
  BY DEF ReportFlowChg, PortalType, Tables
<1>4. QED
  BY <1>2, <1>3

LEMMA AcceptedTables ==
  ASSUME NEW s \in PortalType, NEW F \in SUBSET Flows
  PROVE  LET t == [s EXCEPT !.accepted = @ \cup F]
         IN  t \in PortalType /\ Tables(t) = Tables(s)
<1>1. s.accepted \cup F \in SUBSET Flows
  BY DEF PortalType
<1>2. [s EXCEPT !.accepted = @ \cup F] \in PortalType
  BY <1>1 DEF PortalType
<1>3. Tables([s EXCEPT !.accepted = @ \cup F]) = Tables(s)
  BY DEF PortalType, Tables
<1>4. QED
  BY <1>2, <1>3

LEMMA BuiltTables ==
  ASSUME NEW s \in PortalType, NEW f \in Flows, NEW action
  PROVE  LET t == BuildFlow([s EXCEPT !.request = @ \cup {f}], f, action)
         IN  t \in PortalType /\ Tables(t) = Tables(s)
<1> DEFINE u == [s EXCEPT !.request = @ \cup {f}]
<1>1. s.request \cup {f} \in SUBSET Flows
  BY DEF PortalType
<1>2. u \in PortalType /\ Tables(u) = Tables(s)
  <2>1. u \in PortalType
    BY <1>1 DEF PortalType
  <2>2. Tables(u) = Tables(s)
    BY DEF PortalType, Tables
  <2>3. QED
    BY <2>1, <2>2
<1> HIDE DEF u
<1>3. u.atIntrfcs \cup {f} \in SUBSET Flows
  BY <1>2 DEF PortalType
<1>4. [u EXCEPT !.atIntrfcs = @ \cup {f}] \in PortalType
  BY <1>2, <1>3 DEF PortalType
<1>5. Tables([u EXCEPT !.atIntrfcs = @ \cup {f}]) = Tables(u)
  BY <1>2 DEF PortalType, Tables
<1>6. BuildFlow(u, f, action) \in PortalType /\ Tables(BuildFlow(u, f, action)) = Tables(s)
  BY <1>2, <1>4, <1>5 DEF BuildFlow
<1>7. QED
  BY <1>6 DEF u

\* RmFlow, as ClearRmFlow.
LEMMA RmFlowFacts ==
  ASSUME NEW s, NEW ow, NEW w, PortalOK(s, ow, w), NEW f \in Flows
  PROVE  LET t == RmFlow(s, f)
         IN  /\ PortalOK(t, ow, w)
             /\ \A d \in Conns : ow[d] # f => EntriesOf(t, d) = EntriesOf(s, d)
             /\ OpenOf(t, ow, w) \subseteq OpenOf(s, ow, w)
             /\ {o \in OpenOf(s, ow, w) : o[2] # f} \subseteq OpenOf(t, ow, w)
             /\ t.invConnection = s.invConnection /\ t.lastConn = s.lastConn
<1> DEFINE u == [s EXCEPT !.atIntrfcs = @ \ {f}]
           v == ReportFlowChg(u, {f})
<1>1. s \in PortalType
  BY DEF PortalOK
<1>2. s.atIntrfcs \ {f} \in SUBSET Flows
  BY <1>1 DEF PortalType
<1>3. u \in PortalType
  BY <1>1, <1>2 DEF PortalType
<1>4. Tables(u) = Tables(s)
  BY <1>1 DEF PortalType, Tables
<1> HIDE DEF u
<1>5. v \in PortalType /\ Tables(v) = Tables(s)
  BY <1>3, <1>4, ReportFacts
<1> HIDE DEF v
<1>6. /\ PortalOK(v, ow, w)
      /\ \A c : EntriesOf(v, c) = EntriesOf(s, c)
      /\ OpenOf(v, ow, w) = OpenOf(s, ow, w)
      /\ v.invConnection = s.invConnection /\ v.lastConn = s.lastConn
  BY <1>5, SameTables
<1>7. RmFlow(s, f) = ClearRmFlow(v, f)
  BY DEF RmFlow, u, v
<1>8. LET t == ClearRmFlow(v, f)
      IN  /\ PortalOK(t, ow, w)
          /\ \A d \in Conns : ow[d] # f => EntriesOf(t, d) = EntriesOf(v, d)
          /\ OpenOf(t, ow, w) \subseteq OpenOf(v, ow, w)
          /\ {o \in OpenOf(v, ow, w) : o[2] # f} \subseteq OpenOf(t, ow, w)
          /\ t.invConnection = v.invConnection /\ t.lastConn = v.lastConn
  BY <1>6, ClearFacts
<1>9. QED
  BY <1>6, <1>7, <1>8

\* What an entry may turn the tables s into: what it does beyond its own message
\* is to take the records of the flow it ends.
AsksOn(s, c, ok) == ok /\ AsksReturn(s, c)

NewOpen(s, c, ow, ok) == IF AsksOn(s, c, ok) THEN {<<c, ow[c]>>} ELSE {}

WantsAfter(s, c, w, ok) == IF AsksOn(s, c, ok) THEN w \cup {c} ELSE w

EntryPost(s, t, ow, w, f, c, action, ok) ==
  /\ PortalOK(t, ow, WantsAfter(s, c, w, ok))
  /\ t.lastConn = s.lastConn
  /\ \A d \in Conns : d # c /\ ow[d] # f => EntriesOf(t, d) = EntriesOf(s, d)
  /\ OpenOf(t, ow, WantsAfter(s, c, w, ok)) \subseteq OpenOf(s, ow, w) \cup NewOpen(s, c, ow, ok)
  /\ {o \in OpenOf(s, ow, w) \cup NewOpen(s, c, ow, ok) : o[2] # f}
       \subseteq OpenOf(t, ow, WantsAfter(s, c, w, ok))
  /\ ~ ok \/ action # "End" =>
       OpenOf(t, ow, WantsAfter(s, c, w, ok)) = OpenOf(s, ow, w) \cup NewOpen(s, c, ow, ok)

\* FlowEntry for a flow and the connection c, old or new.
LEMMA FlowEntryFacts ==
  ASSUME NEW s, NEW ow, NEW w, PortalOK(s, ow, w), NEW f \in Flows,
         NEW c \in Conns \cup {0}, NEW action, NEW latency, NEW ok \in BOOLEAN,
         c <= s.lastConn,
         latency # "Zero" => c # 0 /\ s.inTransit[c] < MaxTransit,
         NEW t \in FlowEntry(s, f, c, action, latency, ok)
  PROVE  EntryPost(s, t, ow, w, f, c, action, ok)
<1> DEFINE x == WantsAfter(s, c, w, ok)
           new == NewOpen(s, c, ow, ok)
           built == BuildFlow([s EXCEPT !.request = @ \cup {f}], f, action)
<1>1. s \in PortalType
  BY DEF PortalOK
<1>2. built \in PortalType /\ Tables(built) = Tables(s)
  BY <1>1, BuiltTables
<1>3. built.atIntrfcs \in SUBSET Flows
  BY <1>2 DEF PortalType
<1>4. CASE ~ ok
  <2>1. PICK F \in RefusedAfter(built, f) : t = [built EXCEPT !.accepted = @ \cup F]
    BY <1>4 DEF FlowEntry
  <2>2. F \in SUBSET Flows
    BY <1>3, <2>1 DEF RefusedAfter
  <2> HIDE DEF built
  <2>3. t \in PortalType /\ Tables(t) = Tables(s)
    BY <1>2, <2>1, <2>2, AcceptedTables
  <2>4. /\ PortalOK(t, ow, w)
        /\ \A d : EntriesOf(t, d) = EntriesOf(s, d)
        /\ OpenOf(t, ow, w) = OpenOf(s, ow, w)
        /\ t.lastConn = s.lastConn
    BY <2>3, SameTables
  <2>5. x = w /\ new = {}
    BY <1>4 DEF WantsAfter, NewOpen, AsksOn
  <2>6. QED
    BY <1>4, <2>4, <2>5 DEF EntryPost
<1>5. CASE ok
  <2> DEFINE acc(chg) == [built EXCEPT !.accepted = @ \cup {f} \cup chg]
             sent(chg) == SendNetMsg(acc(chg), c, latency)
             ended(chg) == IF action = "End" THEN RmFlow(sent(chg), f) ELSE sent(chg)
  <2>1. PICK chg \in SUBSET (built.atIntrfcs \ {f}) : t = ReportFlowChg(ended(chg), chg)
    BY <1>5 DEF FlowEntry
  <2>2. chg \in SUBSET Flows
    BY <1>3, <2>1
  <2>3. acc(chg) \in PortalType /\ Tables(acc(chg)) = Tables(s)
    <3>1. (built.accepted \cup {f}) \cup chg = built.accepted \cup ({f} \cup chg)
      OBVIOUS
    <3>2. acc(chg) = [built EXCEPT !.accepted = @ \cup ({f} \cup chg)]
      BY <3>1
    <3> HIDE DEF built
    <3>3. QED
      BY <1>2, <2>2, <3>2, AcceptedTables
  <2> DEFINE a == acc(chg)
  <2>4. /\ PortalOK(a, ow, w)
        /\ \A d : EntriesOf(a, d) = EntriesOf(s, d)
        /\ OpenOf(a, ow, w) = OpenOf(s, ow, w)
        /\ a.lastConn = s.lastConn
    <3> HIDE DEF acc
    <3>1. QED
      BY <2>3, SameTables
  <2>5. a.inTransit = s.inTransit /\ a.returnTo = s.returnTo
    <3> HIDE DEF acc
    <3>1. QED
      BY <2>3 DEF Tables
  <2>6. /\ AsksReturn(a, c) = AsksReturn(s, c) /\ Accepted(a, c, w) = x
        /\ new = IF AsksReturn(a, c) THEN {<<c, ow[c]>>} ELSE {}
    BY <1>5, <2>5 DEF AsksReturn, Accepted, WantsAfter, NewOpen, AsksOn
  <2> DEFINE b == sent(chg)
  <2>7. /\ PortalOK(b, ow, x)
        /\ \A d \in Conns : d # c => EntriesOf(b, d) = EntriesOf(s, d)
        /\ OpenOf(b, ow, x) = OpenOf(s, ow, w) \cup new
        /\ b.lastConn = s.lastConn
    <3> HIDE DEF acc, a
    <3>1. b = SendNetMsg(a, c, latency)
      BY DEF a
    <3>2. c <= a.lastConn /\ (latency # "Zero" => c # 0 /\ a.inTransit[c] < MaxTransit)
      BY <2>4, <2>5
    <3> HIDE DEF x, new, b
    <3>3. /\ PortalOK(b, ow, Accepted(a, c, w))
          /\ \A d \in Conns : d # c => EntriesOf(b, d) = EntriesOf(a, d)
          /\ OpenOf(b, ow, Accepted(a, c, w))
                = OpenOf(a, ow, w) \cup IF AsksReturn(a, c) THEN {<<c, ow[c]>>} ELSE {}
          /\ b.lastConn = a.lastConn
      BY <2>4, <3>1, <3>2, SendFacts DEF SendPost
    <3>4. QED
      BY <1>5, <2>4, <2>6, <3>3
  <2> HIDE DEF acc, sent, a, x, new
  <2> DEFINE e == ended(chg)
  <2>8. /\ PortalOK(e, ow, x)
        /\ \A d \in Conns : d # c /\ ow[d] # f => EntriesOf(e, d) = EntriesOf(s, d)
        /\ OpenOf(e, ow, x) \subseteq OpenOf(s, ow, w) \cup new
        /\ {o \in OpenOf(s, ow, w) \cup new : o[2] # f} \subseteq OpenOf(e, ow, x)
        /\ action # "End" => OpenOf(e, ow, x) = OpenOf(s, ow, w) \cup new
        /\ e.lastConn = s.lastConn
    <3>1. CASE action = "End"
      <4>1. e = RmFlow(b, f)
        BY <3>1
      <4> HIDE DEF b, e
      <4>2. QED
        BY <2>7, <3>1, <4>1, RmFlowFacts
    <3>2. CASE action # "End"
      <4>1. e = b
        BY <3>2
      <4> HIDE DEF b, e
      <4>2. QED
        BY <2>7, <4>1
    <3>3. QED
      BY <3>1, <3>2
  <2>9. t = ReportFlowChg(e, chg)
    BY <2>1
  <2> HIDE DEF e, ended
  <2>10. t \in PortalType /\ Tables(t) = Tables(e)
    BY <2>2, <2>8, <2>9, ReportFacts DEF PortalOK
  <2>11. /\ PortalOK(t, ow, x)
         /\ \A d : EntriesOf(t, d) = EntriesOf(e, d)
         /\ OpenOf(t, ow, x) = OpenOf(e, ow, x)
         /\ t.lastConn = e.lastConn
    BY <2>8, <2>10, SameTables
  <2>12. /\ PortalOK(t, ow, x)
         /\ t.lastConn = s.lastConn
         /\ \A d \in Conns : d # c /\ ow[d] # f => EntriesOf(t, d) = EntriesOf(s, d)
         /\ OpenOf(t, ow, x) \subseteq OpenOf(s, ow, w) \cup new
         /\ {o \in OpenOf(s, ow, w) \cup new : o[2] # f} \subseteq OpenOf(t, ow, x)
         /\ action # "End" => OpenOf(t, ow, x) = OpenOf(s, ow, w) \cup new
    BY <2>8, <2>11
  <2>13. QED
    BY <1>5, <2>12 DEF x, new, EntryPost
<1>6. QED
  BY <1>4, <1>5

----------------------------------------------------------------------------
(* The actions.                                                            *)

Open == OpenOf(np, owner, wants)

\* What every action does: connections stay with their flows.
Keeps ==
  /\ PortalOK(np, owner, wants)'
  /\ \A d \in Conns : owner[d] # 0 => owner'[d] = owner[d]

\* What a step for the flow f leaves behind.
EntryDone(f) ==
  /\ Keeps
  /\ \A d \in Conns : owner[d] \notin {0, f} => EntriesOf(np', d) = EntriesOf(np, d)
  /\ running' \subseteq running \cup {f} /\ answered' = answered
  /\ [Answers!Next]_(Answers!vars)

LEMMA QuietFacts ==
  ASSUME IInv
  PROVE  /\ Quiet \in PortalType /\ Tables(Quiet) = Tables(np)
         /\ PortalOK(Quiet, owner, wants)
         /\ \A d : EntriesOf(Quiet, d) = EntriesOf(np, d)
         /\ OpenOf(Quiet, owner, wants) = Open
         /\ Quiet.lastConn = np.lastConn /\ Quiet.inTransit = np.inTransit
         /\ Quiet.returnTo = np.returnTo /\ Quiet.connections = np.connections
         /\ Quiet.returning = np.returning
<1>1. np \in PortalType /\ PortalOK(np, owner, wants)
  BY DEF IInv, TypeOK
<1>2. Quiet \in PortalType
  BY <1>1 DEF Quiet, PortalType
<1>3. Tables(Quiet) = Tables(np)
  BY <1>1 DEF Quiet, PortalType, Tables
<1>4. QED
  BY <1>1, <1>2, <1>3, SameTables DEF Open, Tables

\* The tables s that a caller of FlowEntry finds for the flow f: c is the
\* connection it uses, if there is one.
EntryReady(s, f, c, latency) ==
  /\ PortalOK(s, owner', wants) /\ c <= s.lastConn
  /\ latency # "Zero" => c # 0 /\ s.inTransit[c] < MaxTransit
  /\ c # 0 => owner'[c] = f
  /\ \A d \in Conns : d # c => EntriesOf(s, d) = EntriesOf(np, d)
  /\ \A d \in Conns : owner[d] # 0 => owner'[d] = owner[d]
  /\ OpenOf(s, owner', wants) = Open

\* The entry that every caller of FlowEntry makes.
LEMMA EntryStep ==
  ASSUME IInv, NEW s, NEW f \in Flows, NEW c \in Conns \cup {0},
         NEW action, NEW latency, NEW ok \in BOOLEAN,
         EntryReady(s, f, c, latency),
         np' \in FlowEntry(s, f, c, action, latency, ok),
         Learn(s, f, c, action, ok)
  PROVE  EntryDone(f)
<1> DEFINE new == IF ok /\ AsksReturn(s, c) THEN {<<c, owner'[c]>>} ELSE {}
<1> USE DEF EntryReady
<1>1. /\ wants' = (IF ok /\ AsksReturn(s, c) THEN wants \cup {c} ELSE wants)
      /\ running' = IF ~ok THEN running
                    ELSE IF action = "End" THEN running \ {f} ELSE running \cup {f}
      /\ answered' = answered
  BY DEF Learn
<1>2. /\ PortalOK(np', owner', wants')
      /\ np'.lastConn = s.lastConn
      /\ \A d \in Conns : d # c /\ owner'[d] # f => EntriesOf(np', d) = EntriesOf(s, d)
      /\ Open' \subseteq Open \cup new
      /\ {o \in Open \cup new : o[2] # f} \subseteq Open'
      /\ ~ ok \/ action # "End" => Open' = Open \cup new
  <2>1. EntryPost(s, np', owner', wants, f, c, action, ok)
    BY FlowEntryFacts
  <2>2. Open' = OpenOf(np', owner', wants')
    BY DEF Open
  <2>3. WantsAfter(s, c, wants, ok) = wants' /\ NewOpen(s, c, owner', ok) = new
    BY <1>1 DEF WantsAfter, NewOpen, AsksOn
  <2>4. QED
    BY <2>1, <2>2, <2>3 DEF EntryPost
<1>3. ASSUME NEW d \in Conns, owner[d] \notin {0, f}
      PROVE  EntriesOf(np', d) = EntriesOf(np, d)
  <2>1. owner'[d] = owner[d] /\ d # c
    BY <1>3, PortalAssumption DEF Conns
  <2>2. QED
    BY <1>2, <1>3, <2>1
<1>4. [Answers!Next]_(Answers!vars)
  <2>1. Open = {<<d, owner[d]>> : d \in np.returning \cup {e \in wants : np.returnTo[e] = "cxt"}}
    BY DEF Open, OpenOf
  <2>2. Open' = {<<d, owner[d]>> : d \in np.returning \cup {e \in wants : np.returnTo[e] = "cxt"}}'
    BY DEF Open, OpenOf
  <2>3. wants' \subseteq Conns
    BY <1>2 DEF PortalOK
  <2>4. CASE ~ ok
    <3>1. wants' = wants /\ Open' = Open /\ running' = running
      BY <1>1, <1>2, <2>4
    <3>2. QED
      BY <1>1, <2>1, <2>2, <3>1 DEF Answers!vars
  <2>5. CASE ok /\ action = "End"
    <3>1. new \subseteq (wants' \ wants) \X {f} \cup Open
      <4>1. CASE AsksReturn(s, c)
        <5>1. c \in Conns /\ s.returnTo[c] = "cxt" /\ new = {<<c, f>>} /\ c \in wants'
          BY <1>1, <2>5, <4>1, PortalAssumption DEF AsksReturn, Conns
        <5>2. CASE c \in wants
          <6>1. <<c, f>> \in OpenOf(s, owner', wants)
            BY <5>1, <5>2, PortalAssumption DEF OpenOf, Conns
          <6>2. QED
            BY <5>1, <6>1
        <5>3. CASE c \notin wants
          BY <5>1, <5>3
        <5>4. QED
          BY <5>2, <5>3
      <4>2. CASE ~ AsksReturn(s, c)
        BY <4>2
      <4>3. QED
        BY <4>1, <4>2
    <3>2. /\ running' = running \ {f} /\ wants \subseteq wants'
          /\ {o \in Open : o[2] # f} \subseteq Open'
          /\ Open' \subseteq Open \cup ((wants' \ wants) \X {f})
      BY <1>1, <1>2, <2>5, <3>1
    <3>3. Answers!End(f)
      BY <1>1, <2>1, <2>2, <2>3, <3>2 DEF Answers!End
    <3>4. QED
      BY <3>3 DEF Answers!Next
  <2>6. CASE ok /\ action # "End" /\ AsksReturn(s, c)
    <3>1. c \in Conns /\ s.returnTo[c] = "cxt" /\ c # 0 /\ new = {<<c, f>>}
      BY <2>6, PortalAssumption DEF AsksReturn, Conns
    <3>2. running' = running \cup {f} /\ Open' = Open \cup {<<c, f>>} /\ wants' = wants \cup {c}
      BY <1>1, <1>2, <2>6, <3>1
    <3>3. CASE c \in wants
      <4>1. <<c, f>> \in OpenOf(s, owner', wants)
        BY <3>1, <3>3 DEF OpenOf
      <4>2. wants' = wants /\ Open' = Open
        BY <3>2, <3>3, <4>1
      <4>3. Answers!Start(f)
        BY <1>1, <2>1, <2>2, <3>2, <4>2 DEF Answers!Start
      <4>4. QED
        BY <4>3 DEF Answers!Next
    <3>4. CASE c \notin wants
      <4>1. Answers!Ask(c, f)
        BY <1>1, <2>1, <2>2, <3>2, <3>4 DEF Answers!Ask
      <4>2. QED
        BY <3>1, <4>1 DEF Answers!Next
    <3>5. QED
      BY <3>3, <3>4
  <2>7. CASE ok /\ action # "End" /\ ~ AsksReturn(s, c)
    <3>1. running' = running \cup {f} /\ Open' = Open /\ wants' = wants
      BY <1>1, <1>2, <2>7
    <3>2. Answers!Start(f)
      BY <1>1, <2>1, <2>2, <3>1 DEF Answers!Start
    <3>3. QED
      BY <3>2 DEF Answers!Next
  <2>8. QED
    BY <2>4, <2>5, <2>6, <2>7
<1>5. running' \subseteq running \cup {f}
  BY <1>1
<1>6. QED
  BY <1>1, <1>2, <1>3, <1>4, <1>5 DEF EntryDone, Keeps

LEMMA IdleEntry ==
  ASSUME IInv, NEW f, UNCHANGED <<np, running, owner, wants, answered>>
  PROVE  EntryDone(f)
<1>1. Keeps
  BY DEF Keeps, IInv, PortalOK
<1>2. UNCHANGED Answers!vars
  BY DEF Answers!vars
<1>3. QED
  BY <1>1, <1>2 DEF EntryDone

LEMMA EnterStep ==
  ASSUME IInv, NEW f \in Flows, NEW action, NEW given \in Conns \cup {0}, NEW latency,
         NEW rtns \in RtnDescs, NEW ok \in BOOLEAN,
         given # 0 => np.connections[given] = f,
         EnterNetwork(f, action, given, latency, rtns, ok)
  PROVE  /\ EntryDone(f)
         /\ given = 0 => NextConn \in Conns /\ owner'[NextConn] = f
<1> DEFINE c == IF given = 0 THEN NextConn ELSE given
           s == IF given = 0 THEN Connect(Arrive(Quiet, c, rtns), c, f) ELSE Quiet
<1>1. /\ c \in Conns
      /\ latency # "Zero" => np.inTransit[c] < MaxTransit
      /\ np' \in FlowEntry(s, f, c, action, latency, ok)
      /\ owner' = IF given = 0 THEN [owner EXCEPT ![c] = f] ELSE owner
      /\ Learn(s, f, c, action, ok)
  BY DEF EnterNetwork
<1>2. /\ np \in PortalType /\ owner \in [Conns -> Flows \cup {0}]
      /\ PortalOK(np, owner, wants) /\ np.lastConn \in Nat
      /\ Flows \subseteq Nat \ {0} /\ Conns \subseteq Nat \ {0} /\ 0 \notin Conns
  <2>1. Flows \subseteq Nat \ {0} /\ Conns \subseteq Nat \ {0} /\ 0 \notin Conns
    BY PortalAssumption DEF Flows, Conns
  <2>2. PortalOK(np, owner, wants)
    BY DEF IInv
  <2>3. np \in PortalType /\ owner \in [Conns -> Flows \cup {0}]
    BY <2>2 DEF PortalOK
  <2>4. np.lastConn \in Conns \cup {0}
    BY <2>3 DEF PortalType
  <2>5. np.lastConn \in Nat
    BY <2>4, PortalAssumption DEF Conns
  <2>6. QED
    BY <2>1, <2>2, <2>3, <2>5
<1>3. /\ PortalOK(s, owner', wants) /\ owner'[c] = f
      /\ c <= s.lastConn /\ s.inTransit[c] = np.inTransit[c]
      /\ \A d \in Conns : d # c => EntriesOf(s, d) = EntriesOf(np, d)
      /\ OpenOf(s, owner', wants) = Open
      /\ \A d \in Conns : owner[d] # 0 => owner'[d] = owner[d]
  <2>1. CASE given = 0
    <3> DEFINE q == Quiet
               a == Arrive(q, c, rtns)
               o == [owner EXCEPT ![c] = f]
    <3>1. c = q.lastConn + 1 /\ owner' = o /\ s = Connect(a, c, f) /\ c \in Conns
      BY <1>1, <2>1, QuietFacts DEF NextConn
    <3> HIDE DEF c, s, q
    <3>2. /\ PortalOK(a, o, wants)
          /\ \A d \in Conns : d # c => EntriesOf(a, d) = EntriesOf(q, d)
          /\ OpenOf(a, o, wants) = OpenOf(q, owner, wants)
          /\ a.lastConn = c /\ a.inTransit[c] = 0
      <4>1. PortalOK(q, owner, wants)
        BY QuietFacts DEF q
      <4>2. o = [owner EXCEPT ![c] = f]
        OBVIOUS
      <4> HIDE DEF o
      <4>3. ArrivePost(q, Arrive(q, c, rtns), owner, o, wants, c, rtns)
        BY <3>1, <4>1, <4>2, ArriveFacts
      <4>4. QED
        BY <4>3 DEF ArrivePost
    <3> HIDE DEF a
    <3>3. o[c] = f /\ owner'[c] = f
      BY <1>2, <3>1
    <3> HIDE DEF o
    <3>4. /\ PortalOK(s, o, wants)
          /\ \A d \in Conns : d # c => EntriesOf(s, d) = EntriesOf(a, d)
          /\ OpenOf(s, o, wants) = OpenOf(a, o, wants)
          /\ s.lastConn = a.lastConn /\ s.inTransit = a.inTransit
      BY <3>1, <3>2, <3>3, ConnectFacts
    <3>5. np.inTransit[c] = 0 /\ owner[c] = 0
      <4>1. c > np.lastConn
        BY <1>2, <3>1, QuietFacts DEF q
      <4>2. QED
        BY <3>1, <1>2, <4>1 DEF PortalOK
    <3>6. \A d \in Conns : owner[d] # 0 => owner'[d] = owner[d]
      BY <1>2, <3>1, <3>5 DEF o
    <3>7. c <= s.lastConn
      BY <1>2, <3>1, <3>2, <3>4
    <3>8. PortalOK(s, owner', wants) /\ OpenOf(s, owner', wants) = Open
      BY <3>1, <3>2, <3>4, QuietFacts DEF q
    <3>9. \A d \in Conns : d # c => EntriesOf(s, d) = EntriesOf(np, d)
      BY <3>2, <3>4, QuietFacts DEF q
    <3>10. QED
      BY <3>2, <3>3, <3>4, <3>5, <3>6, <3>7, <3>8, <3>9
  <2>2. CASE given # 0
    <3>1. c = given /\ s = Quiet /\ owner' = owner
      BY <1>1, <2>2
    <3>2. owner[c] = f
      BY <1>1, <1>2, <2>2, <3>1 DEF PortalOK
    <3> HIDE DEF c, s
    <3>3. c <= np.lastConn
      <4>1. c \in Conns /\ owner[c] # 0
        BY <1>1, <1>2, <3>1, <3>2
      <4>2. ~ c > np.lastConn
        BY <1>2, <4>1 DEF PortalOK
      <4>3. QED
        BY <1>2, <4>1, <4>2
    <3>4. QED
      BY <3>1, <3>2, <3>3, QuietFacts
  <2>3. QED
    BY <2>1, <2>2
<1>4. given = 0 => c = NextConn
  OBVIOUS
<1> HIDE DEF c, s
<1>5. EntryDone(f)
  <2>1. latency # "Zero" => c # 0 /\ s.inTransit[c] < MaxTransit
    BY <1>1, <1>2, <1>3
  <2>2. c \in Conns \cup {0}
    BY <1>1
  <2>3. EntryReady(s, f, c, latency)
    BY <1>2, <1>3, <2>1 DEF EntryReady
  <2>4. QED
    BY <1>1, <2>2, <2>3, EntryStep
<1>6. QED
  BY <1>1, <1>3, <1>4, <1>5

\* The flows after an entry for f: the connection that f keeps is its own.
LEMMA EntryInv ==
  ASSUME IInv, NEW f \in Created, EntryDone(f), UNCHANGED arrivals,
         loop' = loop \/ loop' = [loop EXCEPT !.left = @ \ {f}],
         flowList' \in Seq(FlowType), Created' = Created,
         \A g \in Created :
           /\ flowList'[g].pckt = flowList[g].pckt
           /\ flowList'[g].connectID # 0 =>
                \/ flowList'[g].connectID = flowList[g].connectID
                \/ owner'[flowList'[g].connectID] = g
  PROVE  IInv'
<1>1. loop' \in [in : {"before", "start", "push", "done"}, left : SUBSET Flows]
  <2>1. loop \in [in : {"before", "start", "push", "done"}, left : SUBSET Flows]
    BY DEF IInv
  <2>2. loop.left \ {f} \in SUBSET Flows
    BY <2>1
  <2>3. QED
    BY <2>1, <2>2
<1>2. loop'.in = loop.in /\ loop'.left \subseteq loop.left
  BY DEF IInv
<1>3. /\ np' \in PortalType /\ owner' \in [Conns -> Flows \cup {0}] /\ wants' \subseteq Conns
      /\ \A c \in Conns : c > np'.lastConn => np'.returnTo[c] = "none" /\ owner'[c] = 0
  BY DEF EntryDone, Keeps, PortalOK
<1>4. TypeOK'
  BY <1>2, <1>3 DEF TypeOK, IInv, EntryDone
<1>5. ASSUME NEW g \in Created', flowList'[g].connectID # 0
      PROVE  owner'[flowList'[g].connectID] = g
  <2>1. CASE owner'[flowList'[g].connectID] = g
    BY <2>1
  <2>2. CASE flowList'[g].connectID = flowList[g].connectID
    <3>1. flowList[g] \in FlowType
      <4>1. flowList \in Seq(FlowType) /\ g \in 1..Len(flowList)
        BY <1>5 DEF IInv, TypeOK, Created
      <4>2. QED
        BY <4>1, ElementOfSeq
    <3>2. flowList[g].connectID \in Conns /\ owner[flowList[g].connectID] = g
      BY <1>5, <2>2, <3>1 DEF IInv, FlowType
    <3>3. g # 0
      BY <1>5, PortalAssumption DEF IInv, TypeOK, Flows
    <3>4. QED
      BY <2>2, <3>2, <3>3 DEF EntryDone, Keeps
  <2>3. QED
    BY <1>5, <2>1, <2>2
<1>6. QED
  BY <1>1, <1>4, <1>5 DEF IInv, EntryDone, Keeps

\* The entries of a flow.
LEMMA FlowStepDone ==
  ASSUME IInv, NEW f \in Created, FlowStep(f)
  PROVE  EntryDone(f) /\ IInv'
<1>1. /\ f \in Flows /\ f \in 1..Len(flowList) /\ flowList \in Seq(FlowType)
      /\ Rtns \subseteq RtnDescs /\ Conns \subseteq Nat \ {0}
  BY PortalAssumption DEF IInv, TypeOK, Created, Conns
<1>2. flowList[f] \in FlowType
  BY <1>1, ElementOfSeq
<1>3. ASSUME NEW action, NEW given \in Conns \cup {0}, NEW latency, NEW rtns \in RtnDescs,
             ProgramEnters(f, action, given, latency, rtns)
      PROVE  EntryDone(f) /\ IInv'
  <2>1. /\ given # 0 => np.connections[given] = f
        /\ \E ok \in BOOLEAN : EnterNetwork(f, action, given, latency, rtns, ok)
        /\ UNCHANGED <<flowList, loop, arrivals>>
    BY <1>3 DEF ProgramEnters
  <2>2. EntryDone(f)
    BY <1>1, <2>1, EnterStep
  <2>3. IInv'
    BY <1>1, <2>1, <2>2, EntryInv DEF Created
  <2>4. QED
    BY <2>2, <2>3
\* The flow started, with the connection it keeps from then on.
<1>4. ASSUME NEW rtns \in RtnDescs, NEW ok \in BOOLEAN, NEW susp \in BOOLEAN,
             StartFlow(f, rtns, ok), UNCHANGED arrivals,
             loop' = loop \/ loop' = [loop EXCEPT !.left = @ \ {f}],
             flowList' = [flowList EXCEPT ![f] = [@ EXCEPT !.connectID = ConnectIDAfter(f),
                                                           !.suspended = susp]]
      PROVE  EntryDone(f) /\ IInv'
  <2>1. /\ EntryDone(f)
        /\ ConnectIDAfter(f) # 0 => ConnectIDAfter(f) \in Conns /\ owner'[ConnectIDAfter(f)] = f
    <3>1. CASE flowList[f].pckt
      <4>1. UNCHANGED <<np, running, owner, wants, answered>> /\ ConnectIDAfter(f) = 0
        BY <1>4, <3>1 DEF StartFlow, ConnectIDAfter
      <4>2. QED
        BY <4>1, IdleEntry
    <3>2. CASE ~ flowList[f].pckt
      <4>1. EnterNetwork(f, "Srt", 0, "Zero", rtns, ok) /\ ConnectIDAfter(f) = NextConn
        BY <1>4, <3>2 DEF StartFlow, ConnectIDAfter
      <4>2. QED
        BY <1>1, <4>1, EnterStep
    <3>3. QED
      BY <3>1, <3>2
  <2> DEFINE r == [flowList[f] EXCEPT !.connectID = ConnectIDAfter(f), !.suspended = susp]
  <2>2. r \in FlowType /\ r.pckt = flowList[f].pckt /\ r.connectID = ConnectIDAfter(f)
    BY <1>2, <2>1 DEF FlowType
  <2> HIDE DEF r
  <2>3. flowList' = [flowList EXCEPT ![f] = r]
    BY <1>4 DEF r
  <2>4. /\ flowList' \in Seq(FlowType) /\ Created' = Created /\ flowList'[f] = r
        /\ \A g \in Created : g # f => flowList'[g] = flowList[g]
    BY <1>1, <2>2, <2>3, ExceptSeq DEF Created
  <2>5. ASSUME NEW g \in Created
        PROVE  /\ flowList'[g].pckt = flowList[g].pckt
               /\ flowList'[g].connectID # 0 =>
                    \/ flowList'[g].connectID = flowList[g].connectID
                    \/ owner'[flowList'[g].connectID] = g
    BY <2>1, <2>2, <2>4
  <2>6. IInv'
    BY <1>4, <2>1, <2>4, <2>5, EntryInv
  <2>7. QED
    BY <2>1, <2>6
<1>5. ASSUME NEW rtns \in RtnDescs, ProgramStarts(f, rtns)
      PROVE  EntryDone(f) /\ IInv'
  <2>1. PICK ok \in BOOLEAN : StartFlow(f, rtns, ok)
    BY <1>5 DEF ProgramStarts
  <2>2. flowList[f].suspended \in BOOLEAN
    BY <1>2 DEF FlowType
  <2>3. flowList' = [flowList EXCEPT ![f] = [@ EXCEPT !.connectID = ConnectIDAfter(f),
                                                      !.suspended = flowList[f].suspended]]
    <3>1. [flowList[f] EXCEPT !.connectID = ConnectIDAfter(f), !.suspended = flowList[f].suspended]
            = [flowList[f] EXCEPT !.connectID = ConnectIDAfter(f)]
      BY <1>2 DEF FlowType
    <3>2. QED
      BY <1>5, <3>1 DEF ProgramStarts
  <2>4. UNCHANGED <<loop, arrivals>>
    BY <1>5 DEF ProgramStarts
  <2>5. QED
    BY <1>4, <2>1, <2>2, <2>3, <2>4
<1>6. ASSUME NEW cxt \in BOOLEAN, ProgramRemoves(f, cxt)
      PROVE  EntryDone(f) /\ IInv'
  BY <1>3, <1>6 DEF ProgramRemoves, RtnDescs
<1>7. ASSUME ChangeRate(f)
      PROVE  EntryDone(f) /\ IInv'
  <2> DEFINE c == flowList[f].connectID
  <2>1. /\ \E ok \in BOOLEAN : np' \in FlowEntry(Quiet, f, c, "Chg", "Zero", ok)
                               /\ Learn(np, f, c, "Chg", ok)
        /\ UNCHANGED <<flowList, loop, arrivals, owner>>
    BY <1>7 DEF ChangeRate
  <2>2. c \in Conns \cup {0} /\ (c # 0 => owner[c] = f)
    BY <1>2 DEF IInv, FlowType
  <2> HIDE DEF c
  <2>3. c <= np.lastConn
    <3>1. /\ owner \in [Conns -> Flows \cup {0}] /\ np \in PortalType
          /\ PortalOK(np, owner, wants) /\ f # 0
      BY <1>1, PortalAssumption DEF IInv, PortalOK, Flows
    <3>2. np.lastConn \in Conns \cup {0}
      BY <3>1 DEF PortalType
    <3>3. np.lastConn \in Nat /\ c \in Nat /\ np.lastConn >= 0
      BY <2>2, <3>2, PortalAssumption DEF Conns
    <3>4. CASE c = 0
      BY <3>3, <3>4
    <3>5. CASE c # 0
      <4>1. ~ c > np.lastConn
        BY <2>2, <3>1, <3>5 DEF PortalOK
      <4>2. QED
        BY <3>3, <4>1
    <3>6. QED
      BY <3>4, <3>5
  <2>4. EntryReady(Quiet, f, c, "Zero")
    BY <2>1, <2>2, <2>3, QuietFacts DEF EntryReady
  <2>5. PICK ok \in BOOLEAN : /\ np' \in FlowEntry(Quiet, f, c, "Chg", "Zero", ok)
                              /\ Learn(np, f, c, "Chg", ok)
    BY <2>1
  <2>6. Learn(Quiet, f, c, "Chg", ok)
    BY <2>5, QuietFacts DEF Learn, AsksReturn
  <2>7. EntryDone(f)
    BY <1>1, <2>2, <2>4, <2>5, <2>6, EntryStep
  <2>8. IInv'
    BY <1>1, <2>1, <2>7, EntryInv DEF Created
  <2>9. QED
    BY <2>7, <2>8
<1>8. ASSUME StartNext(f)
      PROVE  EntryDone(f) /\ IInv'
  <2>1. PICK ok \in BOOLEAN :
          /\ StartFlow(f, StartFlowsRtns, ok)
          /\ flowList' = [flowList EXCEPT ![f].connectID = ConnectIDAfter(f), ![f].suspended = ~ok]
    BY <1>8 DEF StartNext
  <2>2. UNCHANGED arrivals /\ loop' = [loop EXCEPT !.left = @ \ {f}]
    BY <1>8 DEF StartNext
  <2>3. StartFlowsRtns \in RtnDescs
    BY DEF StartFlowsRtns, RtnDescs
  <2>4. flowList' = [flowList EXCEPT ![f] = [@ EXCEPT !.connectID = ConnectIDAfter(f),
                                                      !.suspended = ~ok]]
    <3>1. f \in DOMAIN flowList
      BY DEF Created
    <3>2. flowList = [g \in DOMAIN flowList |-> flowList[g]]
      BY <1>1
    <3>3. QED
      BY <2>1, <3>1, <3>2
  <2>5. QED
    BY <1>4, <2>1, <2>2, <2>3, <2>4
<1>9. QED
  BY <1>1, <1>3, <1>5, <1>6, <1>7, <1>8 DEF FlowStep

\* Steps that touch neither the list of flows nor the loops.
LEMMA EventInv ==
  ASSUME IInv, Keeps, UNCHANGED <<flowList, loop, running>>,
         arrivals' \subseteq arrivals, answered' \subseteq Conns
  PROVE  IInv'
<1>1. /\ np' \in PortalType /\ owner' \in [Conns -> Flows \cup {0}] /\ wants' \subseteq Conns
      /\ \A c \in Conns : c > np'.lastConn => np'.returnTo[c] = "none" /\ owner'[c] = 0
  BY DEF Keeps, PortalOK
<1>2. TypeOK'
  BY <1>1 DEF TypeOK, IInv, Created
<1>3. ASSUME NEW f \in Created, flowList[f].connectID # 0
      PROVE  owner'[flowList[f].connectID] = f
  <2>1. flowList \in Seq(FlowType) /\ f \in 1..Len(flowList) /\ f # 0
    BY DEF IInv, TypeOK, Created
  <2>2. flowList[f] \in FlowType
    BY <2>1, ElementOfSeq
  <2>3. flowList[f].connectID \in Conns /\ owner[flowList[f].connectID] = f
    BY <1>3, <2>2 DEF IInv, FlowType
  <2>4. QED
    BY <2>1, <2>3 DEF Keeps
<1>4. QED
  BY <1>2, <1>3 DEF IInv, Keeps, Created

\* A packet of a background flow: a connection of its own, without a context.
LEMMA BgfPcktDone ==
  ASSUME IInv, NEW f \in Flows, BgfPckt(f), UNCHANGED wants
  PROVE  Keeps /\ Open' = Open
<1> DEFINE q == Quiet
           c == NextConn
           rtns == [cxt |-> FALSE, src |-> FALSE, dst |-> FALSE, loss |-> TRUE]
           a == Arrive(q, c, rtns)
<1>1. /\ c \in Conns /\ np' = SendNetMsg(a, c, "Simulate") /\ owner' = [owner EXCEPT ![c] = f]
  BY DEF BgfPckt
<1>2. rtns \in RtnDescs /\ ~ rtns.cxt
  BY DEF RtnDescs
<1>3. c = q.lastConn + 1 /\ PortalOK(q, owner, wants) /\ OpenOf(q, owner, wants) = Open
  BY QuietFacts DEF NextConn
<1>4. owner \in [Conns -> Flows \cup {0}] /\ np \in PortalType /\ c > np.lastConn
  <2>1. owner \in [Conns -> Flows \cup {0}] /\ np \in PortalType
    BY DEF IInv, PortalOK
  <2>2. np.lastConn \in Conns \cup {0}
    BY <2>1 DEF PortalType
  <2>3. np.lastConn + 1 > np.lastConn
    BY <2>2, PortalAssumption DEF Conns
  <2>4. QED
    BY <2>1, <2>3 DEF NextConn
<1>5. owner[c] = 0
  BY <1>1, <1>4 DEF IInv, PortalOK
<1> HIDE DEF q, c, rtns
<1>6. ArrivePost(q, a, owner, owner', wants, c, rtns)
  BY <1>1, <1>2, <1>3, ArriveFacts
<1> HIDE DEF a
<1>7. /\ PortalOK(a, owner', wants) /\ OpenOf(a, owner', wants) = Open
      /\ a.lastConn = c /\ a.inTransit[c] = 0 /\ ~ AsksReturn(a, c)
  BY <1>2, <1>3, <1>6 DEF ArrivePost, AsksReturn
<1>8. /\ c \in Conns \cup {0} /\ c <= a.lastConn
      /\ c # 0 /\ a.inTransit[c] < MaxTransit
  BY <1>1, <1>7, PortalAssumption DEF Conns
<1>9. Accepted(a, c, wants) = wants
  BY <1>7 DEF Accepted
<1>10. /\ PortalOK(np', owner', Accepted(a, c, wants))
       /\ OpenOf(np', owner', Accepted(a, c, wants))
            = OpenOf(a, owner', wants) \cup IF AsksReturn(a, c) THEN {<<c, owner'[c]>>} ELSE {}
  <2>1. SendPost(a, np', owner', wants, c)
    BY <1>1, <1>7, <1>8, SendFacts
  <2>2. QED
    BY <2>1 DEF SendPost
<1>11. PortalOK(np', owner', wants') /\ Open' = Open
  BY <1>7, <1>9, <1>10 DEF Open
<1>12. \A d \in Conns : owner[d] # 0 => owner'[d] = owner[d]
  BY <1>1, <1>4, <1>5
<1>13. QED
  BY <1>11, <1>12 DEF Keeps

\* A message that arrives is answered if its record is still there.
LEMMA MessageArrivesDone ==
  ASSUME IInv, NEW c \in Conns, MessageArrives(c)
  PROVE  Keeps /\ Open' = Open
<1> DEFINE u == [Quiet EXCEPT !.inTransit = [np.inTransit EXCEPT ![c] = @ - 1]]
<1>1. /\ np.inTransit[c] > 0 /\ np' = Depart(u, c)
      /\ UNCHANGED <<owner, wants, answered, running>>
  BY DEF MessageArrives
<1>2. np \in PortalType /\ PortalOK(np, owner, wants)
  BY DEF IInv, PortalOK
<1>3. [np.inTransit EXCEPT ![c] = @ - 1] \in [Conns -> 0..MaxTransit]
  <2>1. np.inTransit \in [Conns -> 0..MaxTransit]
    BY <1>2 DEF PortalType
  <2>2. np.inTransit[c] - 1 \in 0..MaxTransit
    BY <1>1, <2>1, PortalAssumption
  <2>3. QED
    BY <2>1, <2>2
<1>4. /\ u \in PortalType
      /\ u.inTransit = [np.inTransit EXCEPT ![c] = @ - 1]
      /\ u.returnTo = np.returnTo /\ u.connections = np.connections
      /\ u.invConnection = np.invConnection /\ u.lastConn = np.lastConn
      /\ u.returning = np.returning
  BY <1>2, <1>3, QuietFacts DEF Quiet, PortalType
<1> HIDE DEF u
<1>5. /\ np' \in PortalType
      /\ np'.connections = u.connections /\ np'.invConnection = u.invConnection
      /\ np'.lastConn = u.lastConn /\ np'.inTransit = u.inTransit
      /\ \A d \in Conns : d # c => /\ np'.returnTo[d] = u.returnTo[d]
                                   /\ d \in np'.returning <=> d \in u.returning
      /\ AsksReturn(u, c) => np'.returnTo[c] = "none" /\ c \in np'.returning
      /\ ~ AsksReturn(u, c) => np' = u
  BY <1>1, <1>4, DepartFacts
<1>6. AsksReturn(u, c) => np.returnTo[c] = "cxt" /\ c \in wants /\ owner[c] # 0
  BY <1>1, <1>2, <1>4 DEF AsksReturn, PortalOK
<1>7. \A d \in Conns : d # c => np'.inTransit[d] = np.inTransit[d]
  BY <1>2, <1>4, <1>5 DEF PortalType
<1>8. PortalOK(np', owner', wants')
  <2>1. ASSUME NEW d \in Conns, d # c
        PROVE  /\ np'.connections[d] # 0 => owner[d] = np'.connections[d]
               /\ np'.returnTo[d] = "cxt" => /\ owner[d] # 0 /\ d \notin np'.returning
                                             /\ d \in wants <=> np'.inTransit[d] > 0
               /\ d \in np'.returning => owner[d] # 0
               /\ d > np'.lastConn => /\ np'.returnTo[d] = "none" /\ np'.inTransit[d] = 0
                                      /\ owner[d] = 0 /\ d \notin wants /\ d \notin np'.returning
    BY <1>2, <1>4, <1>5, <1>7, <2>1 DEF PortalOK
  <2>2. /\ np'.connections[c] # 0 => owner[c] = np'.connections[c]
        /\ np'.returnTo[c] # "cxt"
        /\ c \in np'.returning => owner[c] # 0
        /\ ~ c > np'.lastConn
    <3>1. ~ c > np.lastConn
      BY <1>1, <1>2 DEF PortalOK
    <3>2. CASE AsksReturn(u, c)
      BY <1>2, <1>4, <1>5, <1>6, <3>1, <3>2 DEF PortalOK
    <3>3. CASE ~ AsksReturn(u, c)
      BY <1>2, <1>4, <1>5, <3>1, <3>3 DEF PortalOK, AsksReturn
    <3>4. QED
      BY <3>2, <3>3
  <2>3. \A f \in Flows : np'.invConnection[f] # 0 => owner[np'.invConnection[f]] = f
    BY <1>2, <1>4, <1>5 DEF PortalOK
  <2>4. QED
    BY <1>1, <1>2, <1>5, <2>1, <2>2, <2>3 DEF PortalOK
<1>9. np'.returning \cup {d \in wants : np'.returnTo[d] = "cxt"}
        = np.returning \cup {d \in wants : np.returnTo[d] = "cxt"}
  <2>1. np.returning \subseteq Conns /\ np'.returning \subseteq Conns /\ wants \subseteq Conns
    BY <1>2, <1>5 DEF PortalType, PortalOK
  <2>2. CASE AsksReturn(u, c)
    BY <1>4, <1>5, <1>6, <2>1, <2>2
  <2>3. CASE ~ AsksReturn(u, c)
    BY <1>4, <1>5, <2>3
  <2>4. QED
    BY <2>2, <2>3
<1>10. Open' = Open
  BY <1>1, <1>9 DEF Open, OpenOf
<1>11. QED
  BY <1>1, <1>8, <1>10 DEF Keeps

LEMMA ReturnFiresDone ==
  ASSUME IInv, NEW c \in Conns, ReturnFires(c)
  PROVE  Keeps /\ owner[c] \in Flows /\ <<c, owner[c]>> \in Open /\ Open' = Open \ {<<c, owner[c]>>}
<1>1. /\ c \in np.returning /\ np' = [Quiet EXCEPT !.returning = @ \ {c}]
      /\ UNCHANGED <<owner, wants>>
  BY DEF ReturnFires
<1>2. np \in PortalType /\ PortalOK(np, owner, wants) /\ owner \in [Conns -> Flows \cup {0}]
  BY DEF IInv, PortalOK
<1>3. /\ np' \in PortalType
      /\ np'.returning = np.returning \ {c} /\ np'.returnTo = np.returnTo
      /\ np'.connections = np.connections /\ np'.invConnection = np.invConnection
      /\ np'.lastConn = np.lastConn /\ np'.inTransit = np.inTransit
  <2>1. Quiet.returning \ {c} \in SUBSET Conns
    BY <1>2, QuietFacts DEF PortalType
  <2>2. np' \in PortalType
    BY <1>1, <2>1, QuietFacts DEF PortalType
  <2>3. QED
    BY <1>1, <1>2, <2>2 DEF Quiet, PortalType
<1>4. PortalOK(np', owner', wants')
  BY <1>1, <1>2, <1>3 DEF PortalOK
<1>5. owner[c] \in Flows /\ np.returnTo[c] # "cxt"
  BY <1>1, <1>2 DEF PortalOK
<1>6. Open' = Open \ {<<c, owner[c]>>}
  <2>1. np'.returning \cup {d \in wants' : np'.returnTo[d] = "cxt"}
          = (np.returning \cup {d \in wants : np.returnTo[d] = "cxt"}) \ {c}
    BY <1>1, <1>3, <1>5
  <2>2. QED
    BY <1>1, <2>1 DEF Open, OpenOf
<1>7. <<c, owner[c]>> \in Open
  BY <1>1 DEF Open, OpenOf
<1>8. QED
  BY <1>1, <1>4, <1>5, <1>6, <1>7 DEF Keeps

----------------------------------------------------------------------------
(* Every step.                                                             *)

LEMMA InitIInv == Init => IInv /\ Answers!Init
<1> SUFFICES ASSUME Init PROVE IInv /\ Answers!Init
  OBVIOUS
<1>1. /\ flowList = << >> /\ loop = [in |-> "before", left |-> {}]
      /\ arrivals = {} /\ running = {} /\ wants = {} /\ answered = {}
      /\ owner = [c \in Conns |-> 0]
  BY DEF Init
<1>2. /\ np.returnTo = [c \in Conns |-> "none"] /\ np.lossRtn = {}
      /\ np.reportSrc = {} /\ np.reportDst = {}
      /\ np.connections = [c \in Conns |-> 0] /\ np.invConnection = [f \in Flows |-> 0]
      /\ np.lastConn = 0 /\ np.inTransit = [c \in Conns |-> 0] /\ np.returning = {}
  BY DEF Init
<1>3. np \in PortalType
  BY PortalAssumption DEF Init, PortalType
<1>4. PortalOK(np, owner, wants)
  BY <1>1, <1>2, <1>3 DEF PortalOK
<1>5. flowList \in Seq(FlowType) /\ Created = {}
  BY <1>1 DEF Created
<1>6. loop \in [in : {"before", "start", "push", "done"}, left : SUBSET Flows]
  BY <1>1
<1>7. TypeOK
  BY <1>1, <1>2, <1>3, <1>4, <1>5 DEF TypeOK, PortalOK
<1>8. Answers!Init
  BY <1>1, <1>2 DEF Answers!Init
<1>9. QED
  BY <1>4, <1>5, <1>6, <1>7, <1>8 DEF IInv

\* The answers do not change when nothing of the portal does.
LEMMA SameAnswers ==
  ASSUME UNCHANGED <<running, wants, answered>>, Open' = Open
  PROVE  UNCHANGED Answers!vars
<1>1. /\ Open = {<<d, owner[d]>> : d \in np.returning \cup {e \in wants : np.returnTo[e] = "cxt"}}
      /\ Open' = {<<d, owner[d]>> : d \in np.returning \cup {e \in wants : np.returnTo[e] = "cxt"}}'
  BY DEF Open, OpenOf
<1>2. QED
  BY <1>1 DEF Answers!vars

LEMMA StepIInv ==
  ASSUME IInv, [Next]_vars
  PROVE  IInv' /\ [Answers!Next]_(Answers!vars)
<1>1. /\ flowList \in Seq(FlowType) /\ Created = 1..Len(flowList) /\ Created \subseteq Flows
      /\ loop \in [in : {"before", "start", "push", "done"}, left : SUBSET Flows]
      /\ Len(flowList) \in Nat
  BY DEF IInv, TypeOK, Created
<1>2. ASSUME UNCHANGED <<np, running, owner, wants, answered>>
      PROVE  Keeps /\ UNCHANGED Answers!vars
  BY <1>2, IdleEntry DEF EntryDone, Answers!vars
<1>3. ASSUME UNCHANGED <<flowList, np, running, owner, wants, answered>>,
             loop' \in [in : {"before", "start", "push", "done"}, left : SUBSET Created],
             arrivals' \subseteq {f \in Created : flowList[f].pckt}
      PROVE  IInv' /\ [Answers!Next]_(Answers!vars)
  <2>1. TypeOK'
    BY <1>3 DEF TypeOK, IInv, Created
  <2>2. loop' \in [in : {"before", "start", "push", "done"}, left : SUBSET Flows]
    BY <1>1, <1>3
  <2>3. IInv'
    BY <1>2, <1>3, <2>1, <2>2 DEF IInv, Created, Keeps
  <2>4. QED
    BY <1>2, <1>3, <2>3
<1>4. /\ loop \in [in : {"before", "start", "push", "done"}, left : SUBSET Created]
      /\ arrivals \subseteq {f \in Created : flowList[f].pckt}
  BY <1>1 DEF IInv, TypeOK
<1>5. CASE \E pckt \in BOOLEAN : CreateFlow(pckt)
  <2>1. PICK pckt \in BOOLEAN : CreateFlow(pckt)
    BY <1>5
  <2> DEFINE r == [pckt |-> pckt, suspended |-> FALSE, connectID |-> 0]
  <2>2. /\ flowList' = Append(flowList, r) /\ Len(flowList) < MaxFlows
        /\ UNCHANGED <<loop, np, arrivals, running, owner, wants, answered>>
    BY <2>1 DEF CreateFlow
  <2>3. r \in FlowType /\ r.connectID = 0
    BY DEF FlowType
  <2> HIDE DEF r
  <2>4. /\ flowList' \in Seq(FlowType) /\ Created' = 1..(Len(flowList) + 1)
        /\ flowList'[Len(flowList) + 1] = r
        /\ \A f \in Created : flowList'[f] = flowList[f]
    BY <1>1, <2>2, <2>3 DEF Created
  <2>5. Created \subseteq Created' /\ Created' \subseteq Flows
    BY <1>1, <2>2, <2>4, PortalAssumption DEF Flows
  <2>6. TypeOK'
    <3>1. loop'.in \in {"before", "start", "push", "done"} /\ loop'.left \subseteq Created'
      BY <1>4, <2>2, <2>5
    <3>2. arrivals' \subseteq {f \in Created' : flowList'[f].pckt}
      BY <1>4, <2>2, <2>4, <2>5
    <3>3. running' \subseteq Created'
      BY <2>2, <2>5 DEF IInv, TypeOK
    <3>4. QED
      BY <2>2, <2>4, <2>5, <3>1, <3>2, <3>3 DEF TypeOK, IInv
  <2>7. ASSUME NEW f \in Created', flowList'[f].connectID # 0
        PROVE  owner'[flowList'[f].connectID] = f
    <3>1. f # Len(flowList) + 1
      BY <2>3, <2>4, <2>7
    <3>2. f \in Created
      BY <1>1, <2>4, <3>1
    <3>3. QED
      BY <2>2, <2>4, <2>7, <3>2 DEF IInv
  <2>8. QED
    BY <1>1, <1>2, <2>2, <2>6, <2>7 DEF IInv, Keeps
<1>6. CASE StartFlows
  <2>1. loop' = [in |-> "start", left |-> Created] /\ UNCHANGED <<flowList, arrivals>>
    BY <1>6 DEF StartFlows
  <2>2. QED
    BY <1>3, <1>4, <1>6, <2>1 DEF StartFlows
<1>7. CASE NextLoop
  <2>1. loop' \in [in : {"before", "start", "push", "done"}, left : SUBSET Created]
    BY <1>7 DEF NextLoop
  <2>2. QED
    BY <1>3, <1>4, <1>7, <2>1 DEF NextLoop
<1>8. CASE StopFlows
  <2>1. /\ flowList' = [f \in Created |-> [flowList[f] EXCEPT !.suspended = TRUE]]
        /\ UNCHANGED <<loop, np, arrivals, running, owner, wants, answered>>
    BY <1>8 DEF StopFlows
  <2>2. ASSUME NEW f \in Created
        PROVE  /\ flowList[f] \in FlowType /\ flowList'[f] \in FlowType
               /\ flowList'[f].pckt = flowList[f].pckt
               /\ flowList'[f].connectID = flowList[f].connectID
    <3>1. flowList[f] \in FlowType
      BY <1>1, ElementOfSeq
    <3>2. QED
      BY <2>1, <3>1 DEF FlowType
  <2>3. flowList' \in Seq(FlowType) /\ Created' = Created
    <3>1. flowList' \in [1..Len(flowList) -> FlowType]
      BY <1>1, <2>1, <2>2
    <3>2. flowList' \in Seq(FlowType)
      BY <1>1, <3>1
    <3>3. QED
      BY <2>1, <3>2 DEF Created
  <2>4. TypeOK'
    BY <1>4, <2>1, <2>2, <2>3 DEF TypeOK, IInv
  <2>5. QED
    BY <1>2, <2>1, <2>2, <2>3, <2>4 DEF IInv, Keeps
<1>9. ASSUME NEW f \in Created, FlowStep(f)
      PROVE  IInv' /\ [Answers!Next]_(Answers!vars)
  BY <1>9, FlowStepDone DEF EntryDone
<1>10. ASSUME NEW f \in Created, PushNext(f)
       PROVE  IInv' /\ [Answers!Next]_(Answers!vars)
  <2>1. loop' \in [in : {"before", "start", "push", "done"}, left : SUBSET Created]
    BY <1>4, <1>10 DEF PushNext
  <2>2. arrivals' \subseteq {g \in Created : flowList[g].pckt}
    BY <1>4, <1>10 DEF PushNext
  <2>3. QED
    BY <1>3, <1>10, <2>1, <2>2 DEF PushNext
<1>11. ASSUME NEW f \in Created, BgfPcktArrivals(f)
       PROVE  IInv' /\ [Answers!Next]_(Answers!vars)
  <2>1. /\ UNCHANGED <<flowList, loop, running, wants, answered>>
        /\ BgfPckt(f) \/ (arrivals' = arrivals \ {f} /\ UNCHANGED <<np, owner>>)
    BY <1>11 DEF BgfPcktArrivals
  <2>2. arrivals' \subseteq arrivals
    BY <2>1 DEF BgfPckt
  <2>3. Keeps /\ UNCHANGED Answers!vars
    <3>1. CASE BgfPckt(f)
      BY <1>1, <2>1, <3>1, BgfPcktDone, SameAnswers
    <3>2. CASE UNCHANGED <<np, owner>>
      BY <1>2, <2>1, <3>2
    <3>3. QED
      BY <2>1, <3>1, <3>2
  <2>4. answered' \subseteq Conns
    BY <2>1 DEF IInv, TypeOK
  <2>5. QED
    BY <2>1, <2>2, <2>3, <2>4, EventInv
<1>12. ASSUME NEW c \in Conns, MessageArrives(c)
       PROVE  IInv' /\ [Answers!Next]_(Answers!vars)
  <2>1. UNCHANGED <<flowList, loop, arrivals, running, owner, wants, answered>>
    BY <1>12 DEF MessageArrives
  <2>2. answered' \subseteq Conns
    BY <2>1 DEF IInv, TypeOK
  <2>3. QED
    <3>1. Keeps /\ Open' = Open
      BY <1>12, MessageArrivesDone
    <3>2. IInv'
      BY <2>1, <2>2, <3>1, EventInv
    <3>3. UNCHANGED Answers!vars
      BY <2>1, <3>1, SameAnswers
    <3>4. QED
      BY <3>2, <3>3
<1>13. ASSUME NEW c \in Conns, ReturnFires(c)
       PROVE  IInv' /\ [Answers!Next]_(Answers!vars)
  <2>1. /\ UNCHANGED <<flowList, loop, arrivals, running, owner, wants>>
        /\ answered' = answered \cup {c}
    BY <1>13 DEF ReturnFires
  <2>2. answered' \subseteq Conns
    BY <2>1 DEF IInv, TypeOK
  <2>3. /\ Keeps /\ owner[c] \in Flows /\ <<c, owner[c]>> \in Open
        /\ Open' = Open \ {<<c, owner[c]>>}
    BY <1>13, ReturnFiresDone
  <2>4. /\ Open = {<<d, owner[d]>> : d \in np.returning \cup {e \in wants : np.returnTo[e] = "cxt"}}
        /\ Open' = {<<d, owner[d]>> : d \in np.returning \cup {e \in wants : np.returnTo[e] = "cxt"}}'
    BY DEF Open, OpenOf
  <2>5. PICK f \in Flows : f = owner[c]
    BY <2>3
  <2>6. Answers!Answer(c, f)
    BY <2>1, <2>3, <2>4, <2>5 DEF Answers!Answer
  <2>7. IInv'
    BY <2>1, <2>2, <2>3, EventInv
  <2>8. Answers!Next
    BY <2>5, <2>6 DEF Answers!Next
  <2>9. QED
    BY <2>7, <2>8
<1>14. CASE UNCHANGED vars
  BY <1>3, <1>4, <1>14 DEF vars
<1>15. QED
  BY <1>5, <1>6, <1>7, <1>8, <1>9, <1>10, <1>11, <1>12, <1>13, <1>14 DEF Next

----------------------------------------------------------------------------
(* Theorems.                                                               *)

\* The inductive invariant holds in every reachable state.
THEOREM Invariance == Spec => []IInv
<1>1. Init => IInv
  BY InitIInv
<1>2. IInv /\ [Next]_vars => IInv'
  BY StepIInv
<1>3. QED
  BY <1>1, <1>2, PTL DEF Spec

\* The tables keep their shape; only flows of packets generate packets; the
\* portal has no record of a connection that nxtConnectID has not handed out.
THEOREM TypeCorrect == Spec => []TypeOK
<1>1. IInv => TypeOK
  BY DEF IInv
<1>2. QED
  BY <1>1, Invariance, PTL

\* No record waits with a context for an accepted message that has gone.
THEOREM RecordsAreAwaited == Spec => []RecordsAwaitDelivery
<1>1. IInv => RecordsAwaitDelivery
  BY DEF IInv, PortalOK, RecordsAwaitDelivery
<1>2. QED
  BY <1>1, Invariance, PTL

\* An entry, change or removal of one flow leaves alone every record and every
\* connection that was made for another.
THEOREM OthersAreUntouched == Spec => OthersUntouched
<1> DEFINE Step == \A c \in Conns : owner[c] # 0 /\ Entries(c)' # Entries(c) =>
                     \A f \in Created \ {owner[c]} : ~FlowStep(f)
<1>1. IInv /\ [Next]_vars => [Step]_vars
  <2> SUFFICES ASSUME IInv, NEW c \in Conns, owner[c] # 0, Entries(c)' # Entries(c),
                      NEW f \in Created \ {owner[c]}, FlowStep(f)
               PROVE  FALSE
    OBVIOUS
  <2>1. EntriesOf(np', c) = EntriesOf(np, c)
    BY FlowStepDone DEF EntryDone
  <2>2. QED
    BY <2>1 DEF EntriesOf, Entries
<1>2. QED
  BY <1>1, Invariance, PTL DEF Spec, OthersUntouched

\* The safety part of AnswersSpec: an answer is open from the acceptance of an
\* entry with a context until it is given, on that entry's connection, and only
\* the end of its flow takes it away.  (That it is given is liveness and is
\* model-checked.)
THEOREM AnswersImplemented == Spec => Answers!Init /\ [][Answers!Next]_(Answers!vars)
<1>1. Init => Answers!Init
  BY InitIInv
<1>2. IInv /\ [Next]_vars => [Answers!Next]_(Answers!vars)
  BY StepIInv
<1>3. QED
  BY <1>1, <1>2, Invariance, PTL DEF Spec
============================================================================
