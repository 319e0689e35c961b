------------------------------ MODULE StrmSet ------------------------------
(***************************************************************************)
(* The streams of background frames through one side of an interface       *)
(* (flow-sim.go) and the foreground packets that they delay (net.go).      *)
(* Stream frames are not simulated one by one: when a foreground packet    *)
(* comes up, the stream set samples how many arrived, slot by slot, since  *)
(* its own clock, and says when the packet enters into service.            *)
(*                                                                         *)
(* Times are whole numbers.  One packet at most is in service.             *)
(***************************************************************************)
EXTENDS Integers, Sequences, SequencesExt, FiniteSets, FiniteSetsExt

CONSTANTS
  Srcs,         \* interfaces that the side gets frames from; 0 for the device
                \* itself
  Rates,        \* rates of streams, in frames per second
  ServiceRate,  \* stream frames per second that the side can serve
  Slot,         \* time to serve one stream frame
  FgTimes,      \* times to serve a foreground packet
  MaxRate,      \* bound on the aggregate rate of a source
  MaxPckts,     \* bound on the foreground packets
  Horizon       \* bound on the time

ASSUME StrmAssumption ==
  /\ IsFiniteSet(Srcs) /\ Srcs \subseteq Nat /\ Rates \subseteq Nat
  /\ {ServiceRate, Slot, MaxRate, MaxPckts, Horizon} \subseteq Nat \ {0}
  /\ FgTimes \subseteq Nat \ {0}

VARIABLES
  rate,       \* strmFrameRate of every source, Absent without a strmRep
  active,     \* strmSet.active
  streaming,  \* whether bgfPushStrmServiceTimes has marked the side
  clock,      \* strmSet.time
  residual,   \* strmSet.fgSampleResidual
  queue,      \* foreground packets that wait: when they arrived, from where,
              \* and the time their service takes
  entry,      \* time of the pending enterIntrfcService, or Never
  done,       \* end of the service under way, or Never
  pckts,      \* foreground packets so far
  now

strm == <<clock, residual>>
side == <<queue, entry, done>>
vars == <<rate, active, streaming, strm, side, pckts, now>>

Absent == -1
Never == -1

Init ==
  /\ rate = [s \in Srcs |-> Absent] /\ active = FALSE /\ streaming = FALSE
  /\ clock = 0 /\ residual = 0
  /\ queue = << >> /\ entry = Never /\ done = Never /\ pckts = 0 /\ now = 0

----------------------------------------------------------------------------
(* Sampling.                                                               *)


\* The weight that createStrmArrivalsCDF gives to the arrival of exactly the
\* sources in, visited in the order reps: a product of fractions of ServiceRate,
\* begun anew at every source visited while just one of in has been.
Weight(reps, in) ==
  LET visit(w, s) ==
        LET sets == IF s \in in THEN w.sets + 1 ELSE w.sets
            p == IF s \in in THEN rate[s] ELSE ServiceRate - rate[s]
        IN  IF sets = 1 THEN [sets |-> sets, num |-> p, deg |-> 1]
            ELSE [sets |-> sets, num |-> w.num * p, deg |-> w.deg + 1]
      all == FoldLeft(visit, [sets |-> 0, num |-> 1, deg |-> 0], reps)
  IN  all.num * ServiceRate ^ (Len(reps) - all.deg)

\* presentPDF, cdf: scaled by One.
One(reps) == ServiceRate ^ Len(reps)

CDF(reps, k) ==
  IF k = Len(reps) THEN One(reps)
  ELSE MapThenSumSet(LAMBDA in : Weight(reps, in),
                     {in \in SUBSET ToSet(reps) : Cardinality(in) <= k})

\* The numbers that sampleStrmArrivals can draw with the cdf of all sources but
\* one, in any order of the map: the first k whose cdf is above the draw.
Samples(excluded) ==
  LET known == {s \in Srcs \ {excluded} : rate[s] # Absent}
  IN  UNION {{k \in 0..Len(reps) :
                CDF(reps, k) > 0 /\ \A j \in 0..(k - 1) : CDF(reps, j) < CDF(reps, k) /\ CDF(reps, j) < One(reps)}
               : reps \in SetToSeqs(known)}

\* Queues that residual frames may have become after n slots with arrivals.
Backlogs(n) ==
  LET served(q) == IF q > 0 THEN q - 1 ELSE 0
      after[k \in 0..n] ==
        IF k = 0 THEN {residual}
        ELSE {served(q + a) : q \in after[k - 1], a \in Samples(0)}
  IN  after[n]

\* Slots from the clock up to but not including time t.
SlotsBefore(t) == IF clock < t THEN (t - clock + Slot - 1) \div Slot ELSE 0

\* Defect: the frames behind the packet are served before the clock goes on.
ClockPastResidual(at, svc, behind) == at + svc + Slot * behind

\* The clock goes past the service of the packet, which begins at time at.
ClockAfter(at, svc, behind) == at + svc

\* queueingDelay for the packet p: when p can be served, and the frames that
\* arrived together with it and come behind.
QueueingDelay(p) ==
  UNION {{[at |-> p.arrival + Slot * (q + before), behind |-> arrived - before] : before \in 0..arrived}
           : q \in Backlogs(SlotsBefore(p.arrival)), arrived \in Samples(p.src)}

----------------------------------------------------------------------------
(* Service of foreground packets.                                          *)

\* Defect: the event that has just put the packet into service is kept.
EnterServiceKeepEntry(q) ==
  /\ queue' = Tail(q) /\ entry' = entry
  /\ done' = now + Head(q).svc

EnterService(q) ==
  /\ queue' = Tail(q) /\ entry' = Never
  /\ done' = now + Head(q).svc

\* The head of q goes into service, now or when the stream frames are through.
NextToService(q) ==
  IF ~active THEN EnterService(q) /\ UNCHANGED strm
  ELSE \E d \in QueueingDelay(Head(q)) :
         /\ clock' = ClockAfter(d.at, Head(q).svc, d.behind) /\ residual' = d.behind
         /\ IF d.at > now
            THEN queue' = q /\ entry' = d.at /\ done' = Never
            ELSE EnterService(q)

AddNetworkMsg(p) ==
  LET q == Append(queue, p)
  IN  IF done # Never \/ Len(q) > 1
      THEN queue' = q /\ UNCHANGED <<entry, done, strm>>
      ELSE IF streaming THEN NextToService(q)
      ELSE EnterService(q) /\ UNCHANGED strm

Arrive(src, svc) ==
  /\ pckts < MaxPckts /\ now < Horizon
  /\ pckts' = pckts + 1
  /\ AddNetworkMsg([arrival |-> now, src |-> src, svc |-> svc])
  /\ UNCHANGED <<rate, active, streaming, now>>

EnterIntrfcService ==
  /\ entry = now
  /\ EnterService(queue)
  /\ UNCHANGED <<rate, active, streaming, strm, pckts, now>>

\* Exit from the side, and schedNxtMsgToIntrfc.
ExitIntrfc ==
  /\ done = now
  /\ IF queue = << >> THEN done' = Never /\ UNCHANGED <<queue, entry, strm>>
     ELSE NextToService(queue)
  /\ UNCHANGED <<rate, active, streaming, pckts, now>>

----------------------------------------------------------------------------
(* Rates.                                                                  *)

\* Whatever flow of the source has changed, the rate is added to its aggregate.
\* The set is never inactive again.
AdjustStrmRate(src, r) ==
  LET before == IF rate[src] = Absent THEN 0 ELSE rate[src]
  IN  /\ before + r <= MaxRate
      /\ rate' = [rate EXCEPT ![src] = before + r]
      /\ active' = (active \/ rate[src] = Absent \/ r > 0)
      /\ UNCHANGED <<streaming, strm, side, pckts, now>>

PushStrmServiceTimes ==
  /\ ~streaming /\ streaming' = TRUE
  /\ UNCHANGED <<rate, active, strm, side, pckts, now>>

Tick ==
  /\ entry # now /\ done # now /\ now < Horizon
  /\ now' = now + 1
  /\ UNCHANGED <<rate, active, streaming, strm, side, pckts>>

Next ==
  \/ \E src \in Srcs, svc \in FgTimes : Arrive(src, svc)
  \/ EnterIntrfcService \/ ExitIntrfc
  \/ \E src \in Srcs, r \in Rates : AdjustStrmRate(src, r)
  \/ PushStrmServiceTimes \/ Tick

Spec == Init /\ [][Next]_vars

----------------------------------------------------------------------------
(* Properties.                                                             *)

\* Types; no more stream frames are left behind than there are sources; a
\* pending entry is for the head of the queue while nothing is in service.
TypeOK ==
  /\ rate \in [Srcs -> 0..MaxRate \cup {Absent}] /\ active \in BOOLEAN /\ streaming \in BOOLEAN
  /\ clock \in Nat /\ residual \in 0..Cardinality(Srcs)
  /\ queue \in Seq([arrival : 0..now, src : Srcs, svc : FgTimes])
  /\ entry \in Nat \cup {Never} /\ done \in Nat \cup {Never}
  /\ pckts \in 0..MaxPckts /\ now \in 0..Horizon
  /\ entry # Never => queue # << >> /\ done = Never /\ entry >= now

\* The stream set moves its own clock past services that are still to come.
\* When the side is idle again the clock is not ahead of the time, so that the
\* next packet finds every slot in between sampled.
IdleClock == queue = << >> /\ done = Never => clock <= now
=============================================================================
