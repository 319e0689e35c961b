--------------------------- MODULE TaskScheduler ---------------------------
(***************************************************************************)
(* The TaskScheduler of an endpoint (scheduler.go): Cores cores shared by  *)
(* foreground tasks, served in slices, and by background bursts.           *)
(*                                                                         *)
(* Time is kept as the delay that remains until each scheduled event, so   *)
(* the model has no clock.  Tick passes one unit of time when no event is  *)
(* due; events due at the same instant fire in any order, as the event     *)
(* manager leaves their order to a random priority.                        *)
(***************************************************************************)
EXTENDS Integers, Sequences, FiniteSets

CONSTANTS
  Cores,        \* ts.cores
  Tasks,        \* identities of Task structs, reused once a task is over
  PriArgs,      \* priorities passed to Schedule
  Reqs,         \* service requirements passed to Schedule
  Slices,       \* time slices passed to Schedule
  Bursts,       \* identities of background bursts
  BurstLens,    \* durations drawn for a burst
  Gaps,         \* delays drawn between background arrivals
  InitBusy,     \* round(cores * rho), cores made busy at initialisation
  HasBckgrnd    \* EndptState.BckgrndRate > 0

\* createTask raises a priority that is not positive to 1.
EffectivePri(p) == IF p > 0 THEN p ELSE 1

Priorities == {EffectivePri(p) : p \in PriArgs} \cup {1}

ASSUME SchedulerAssumption ==
  /\ Cores \in Nat \ {0}
  /\ IsFiniteSet(Tasks)
  /\ PriArgs \subseteq Int /\ IsFiniteSet(Priorities)
  /\ Reqs \subseteq Nat
  /\ Slices \subseteq Nat \ {0}
  /\ IsFiniteSet(Bursts)
  /\ BurstLens \subseteq Nat
  /\ Gaps \subseteq Nat
  /\ InitBusy \in Nat
  /\ HasBckgrnd \in BOOLEAN

VARIABLES
  sched,      \* the TaskScheduler struct and its tasks' pending events
  job,        \* the Task structs
  bckgrndOn,  \* ts.bckgrndOn
  rmPending,  \* bursts with a pending rmBckgrnd event
  rmDue,      \* delay left until that event
  addDue      \* delay left until the pending addBckgrnd event, or None

vars == <<sched, job, bckgrndOn, rmPending, rmDue, addDue>>

None == -1

\* A Task struct: pri, req (what is still to be served) and timeslice; asked
\* and served are history: the requirement given to Schedule, and the time
\* the task has held a core.
NoJob == [pri |-> 1, req |-> 0, timeslice |-> 1, asked |-> 0, served |-> 0]

JobType == [pri : Priorities, req : Nat, timeslice : Nat \ {0},
            asked : Nat, served : Nat]

\* waiting, numWaiting, inservice and inBckgrnd are fields of the struct.
\* slicing and completing hold the tasks with a pending timeSliceComplete
\* and completeFunc event; the two are scheduled for the same instant, which
\* is due away.  The sorted list ts.priorities is the order of Priorities: a
\* level that never held a task is an empty queue.
SchedType == [waiting : [Priorities -> Seq(Tasks)], numWaiting : Int,
              inservice : Int, inBckgrnd : Int,
              slicing : SUBSET Tasks, completing : SUBSET Tasks,
              due : [Tasks -> Nat]]

TypeOK ==
  /\ sched \in SchedType
  /\ job \in [Tasks -> JobType]
  /\ bckgrndOn \in BOOLEAN
  /\ rmPending \in SUBSET Bursts
  /\ rmDue \in [Bursts -> Nat]
  /\ addDue \in Nat \cup {None}

----------------------------------------------------------------------------
(* The functions of scheduler.go that no event calls directly.             *)

Busy(s) == s.inservice + s.inBckgrnd

\* Defect: a task whose residue is just one slice is not finished by it.
FinishStrict(jb, t) == jb[t].req < jb[t].timeslice

\* task.finish: the field is set on entry to service from req and timeslice,
\* which do not change until the slice is over.
Finish(jb, t) == jb[t].req <= jb[t].timeslice

\* Defects of joinQueue: a task that joins goes in front; background cores
\* are not counted.
JoinQueueInFront(s, jb, t) ==
  IF Cores <= Busy(s)
  THEN [s EXCEPT !.waiting = [s.waiting EXCEPT ![jb[t].pri] = <<t>> \o @], !.numWaiting = @ + 1]
  ELSE [s EXCEPT !.inservice = @ + 1,
                 !.slicing = @ \cup {t},
                 !.completing = IF Finish(jb, t) THEN @ \cup {t} ELSE @,
                 !.due = [s.due EXCEPT ![t] = IF Finish(jb, t) THEN jb[t].req
                                                            ELSE jb[t].timeslice]]

JoinQueueNoBckgrnd(s, jb, t) ==
  IF Cores <= s.inservice
  THEN [s EXCEPT !.waiting = [s.waiting EXCEPT ![jb[t].pri] = Append(@, t)], !.numWaiting = @ + 1]
  ELSE [s EXCEPT !.inservice = @ + 1,
                 !.slicing = @ \cup {t},
                 !.completing = IF Finish(jb, t) THEN @ \cup {t} ELSE @,
                 !.due = [s.due EXCEPT ![t] = IF Finish(jb, t) THEN jb[t].req
                                                            ELSE jb[t].timeslice]]

\* joinQueue: wait when every core is busy; otherwise hold a core for one
\* slice, or for what is left of the task when that is not longer.
JoinQueue(s, jb, t) ==
  IF Cores <= Busy(s)
  THEN [s EXCEPT !.waiting = [s.waiting EXCEPT ![jb[t].pri] = Append(@, t)],
                 !.numWaiting = @ + 1]
  ELSE [s EXCEPT !.inservice = @ + 1,
                 !.slicing = @ \cup {t},
                 !.completing = IF Finish(jb, t) THEN @ \cup {t} ELSE @,
                 !.due = [s.due EXCEPT ![t] = IF Finish(jb, t) THEN jb[t].req
                                                            ELSE jb[t].timeslice]]

Levels(s) == {p \in Priorities : s.waiting[p] # << >>}


\* Defect: the levels are sorted in increasing order.
BottomLevel(s) == CHOOSE p \in Levels(s) : \A q \in Levels(s) : p <= q

TopLevel(s) == CHOOSE p \in Levels(s) : \A q \in Levels(s) : q <= p

\* Defect: numWaiting is not decremented.
PopTaskUncounted(s, p) == [s EXCEPT !.waiting = [s.waiting EXCEPT ![p] = Tail(@)]]

PopTask(s, p) == [s EXCEPT !.waiting = [s.waiting EXCEPT ![p] = Tail(@)], !.numWaiting = @ - 1]

\* Defect: only the highest priority is looked at.
ScheduleNxtTaskOneLevel(s, jb) ==
  LET top == CHOOSE p \in Priorities : \A q \in Priorities : q <= p IN
  IF s.waiting[top] = << >>
  THEN s
  ELSE JoinQueue(PopTask(s, top), jb, Head(s.waiting[top]))

\* scheduleNxtTask: the head of the highest non-empty level joins again.
ScheduleNxtTask(s, jb) ==
  IF Levels(s) = {}
  THEN s
  ELSE JoinQueue(PopTask(s, TopLevel(s)), jb, Head(s.waiting[TopLevel(s)]))

Queued(s) == {t \in Tasks : \E p \in Priorities :
                              \E i \in 1..Len(s.waiting[p]) : s.waiting[p][i] = t}

Active(s) == Queued(s) \cup s.slicing \cup s.completing

----------------------------------------------------------------------------
Init ==
  /\ sched = [waiting |-> [p \in Priorities |-> << >>], numWaiting |-> 0,
              inservice |-> 0, inBckgrnd |-> 0,
              slicing |-> {}, completing |-> {}, due |-> [t \in Tasks |-> 0]]
  /\ job = [t \in Tasks |-> NoJob]
  /\ bckgrndOn = FALSE
  /\ rmPending = {}
  /\ rmDue = [b \in Bursts |-> 0]
  /\ addDue = None

bckgrndVars == <<bckgrndOn, rmPending, rmDue, addDue>>

\* Schedule: the importing program presents a task at any time.
Schedule(t, pri, req, timeslice) ==
  /\ t \notin Active(sched)
  /\ job' = [job EXCEPT ![t] = [pri |-> EffectivePri(pri), req |-> req,
                                timeslice |-> timeslice,
                                asked |-> req, served |-> 0]]
  /\ sched' = JoinQueue(sched, job', t)
  /\ UNCHANGED bckgrndVars

\* Defect: the core is not given back.
LeaveCoreHeld(s, t) == [s EXCEPT !.slicing = @ \ {t}]

LeaveCore(s, t) == [s EXCEPT !.inservice = @ - 1, !.slicing = @ \ {t}]

\* Defect: the residue joins the queue before the next task is called.
ResumeLaterJoinsFirst(t) ==
  /\ t \in sched.slicing /\ sched.due[t] = 0
  /\ ~ Finish(job, t)
  /\ job' = [job EXCEPT ![t].req = @ - job[t].timeslice]
  /\ sched' = ScheduleNxtTask(JoinQueue(LeaveCore(sched, t), job', t), job')
  /\ UNCHANGED bckgrndVars

\* timeSliceComplete of a task that has not finished: the next waiting task
\* is called before the residue of this one joins the queue.
ResumeLater(t) ==
  /\ t \in sched.slicing /\ sched.due[t] = 0
  /\ ~ Finish(job, t)
  /\ job' = [job EXCEPT ![t].req = @ - job[t].timeslice]
  /\ sched' = JoinQueue(ScheduleNxtTask(LeaveCore(sched, t), job), job', t)
  /\ UNCHANGED bckgrndVars

\* timeSliceComplete of a task that has finished.
LastSliceComplete(t) ==
  /\ t \in sched.slicing /\ sched.due[t] = 0
  /\ Finish(job, t)
  /\ sched' = ScheduleNxtTask(LeaveCore(sched, t), job)
  /\ job' = IF t \in sched.completing THEN job ELSE [job EXCEPT ![t] = NoJob]
  /\ UNCHANGED bckgrndVars

TimeSliceComplete(t) == ResumeLater(t) \/ LastSliceComplete(t)

\* The completion event of the importing program.
CompleteFunc(t) ==
  /\ t \in sched.completing /\ sched.due[t] = 0
  /\ sched' = [sched EXCEPT !.completing = @ \ {t}]
  /\ job' = IF t \in sched.slicing THEN job ELSE [job EXCEPT ![t] = NoJob]
  /\ UNCHANGED bckgrndVars

\* InitializeBckgrndEndpt, once: the cores made busy are counted whatever
\* the number of cores and of tasks in service.
InitializeBckgrndEndpt ==
  /\ HasBckgrnd /\ ~ bckgrndOn
  /\ bckgrndOn' = TRUE
  /\ addDue' \in Gaps
  /\ \E B \in SUBSET Bursts :
       /\ Cardinality(B) = InitBusy
       /\ rmPending' = B
       /\ \E d \in [B -> BurstLens] :
            rmDue' = [b \in Bursts |-> IF b \in B THEN d[b] ELSE 0]
  /\ sched' = [sched EXCEPT !.inBckgrnd = @ + InitBusy]
  /\ UNCHANGED job

\* addBckgrnd.  Its early return while background is off is never taken: the
\* event exists only once InitializeBckgrndEndpt has set bckgrndOn, which
\* nothing clears.
AddBckgrnd ==
  /\ bckgrndOn /\ addDue = 0
  /\ addDue' \in Gaps
  /\ \/ /\ Cores <= Busy(sched)
        /\ UNCHANGED <<sched, rmPending, rmDue>>
     \/ /\ Busy(sched) < Cores
        /\ \E b \in Bursts \ rmPending, d \in BurstLens :
             /\ rmPending' = rmPending \cup {b}
             /\ rmDue' = [rmDue EXCEPT ![b] = d]
        /\ sched' = [sched EXCEPT !.inBckgrnd = @ + 1]
  /\ UNCHANGED <<job, bckgrndOn>>

\* Defect: the end of a burst frees no core.
EndBurstHeld(s) == s

EndBurst(s) == IF s.inBckgrnd > 0 THEN [s EXCEPT !.inBckgrnd = @ - 1] ELSE s

\* rmBckgrnd, with the same unreachable early return as addBckgrnd.
RmBckgrnd(b) ==
  /\ bckgrndOn
  /\ b \in rmPending /\ rmDue[b] = 0
  /\ rmPending' = rmPending \ {b}
  /\ sched' = ScheduleNxtTask(EndBurst(sched), job)
  /\ UNCHANGED <<job, bckgrndOn, rmDue, addDue>>

\* Defect: time passes the end of a burst.
NothingDueButBursts ==
  /\ \A t \in sched.slicing \cup sched.completing : sched.due[t] > 0
  /\ addDue # 0

\* The event manager moves time on when no event is due.
NothingDue ==
  /\ \A t \in sched.slicing \cup sched.completing : sched.due[t] > 0
  /\ \A b \in rmPending : rmDue[b] > 0
  /\ addDue # 0

Tick ==
  /\ NothingDue
  /\ sched.slicing # {} \/ rmPending # {} \/ addDue # None
  /\ sched' = [sched EXCEPT !.due = [t \in Tasks |->
                 IF t \in sched.slicing \cup sched.completing
                 THEN sched.due[t] - 1 ELSE sched.due[t]]]
  /\ job' = [t \in Tasks |-> IF t \in sched.slicing
                             THEN [job[t] EXCEPT !.served = @ + 1] ELSE job[t]]
  /\ rmDue' = [b \in Bursts |-> IF b \in rmPending THEN rmDue[b] - 1 ELSE rmDue[b]]
  /\ addDue' = IF addDue = None THEN None ELSE addDue - 1
  /\ UNCHANGED <<bckgrndOn, rmPending>>

Arrival == \E t \in Tasks, p \in PriArgs, r \in Reqs, ts \in Slices : Schedule(t, p, r, ts)

\* What the event manager does on its own.
EventStep ==
  \/ \E t \in Tasks : TimeSliceComplete(t)
  \/ \E t \in Tasks : CompleteFunc(t)
  \/ AddBckgrnd
  \/ \E b \in Bursts : RmBckgrnd(b)
  \/ Tick

Next == Arrival \/ InitializeBckgrndEndpt \/ EventStep

Spec == Init /\ [][Next]_vars

\* The event manager never stops while an event is pending; nothing obliges
\* the importing program to present tasks.
FairSpec == Spec /\ WF_vars(EventStep)

----------------------------------------------------------------------------
(* Correctness.                                                            *)

\* The counters inservice and inBckgrnd agree with the events that will
\* decrement them (timeSliceComplete, rmBckgrnd): no core is leaked or freed
\* twice, whatever the order of slices, bursts and initialisation.
CoreAccounting ==
  /\ sched.inservice = Cardinality(sched.slicing)
  /\ sched.inBckgrnd = Cardinality(rmPending)
  /\ sched.inservice <= Cores

\* A task waits at most once, only at its own level, never while it holds a
\* core, and numWaiting counts the waiting tasks: none is lost or duplicated
\* when joinQueue and scheduleNxtTask move it back and forth.
QueueAccounting ==
  /\ sched.numWaiting = Cardinality(Queued(sched))
  /\ \A p \in Priorities : \A i \in 1..Len(sched.waiting[p]) :
       /\ job[sched.waiting[p][i]].pri = p
       /\ sched.waiting[p][i] \notin sched.slicing \cup sched.completing
       /\ \A j \in 1..Len(sched.waiting[p]) :
            sched.waiting[p][i] = sched.waiting[p][j] => i = j

\* joinQueue looks only at the cores, not at the queues, and
\* scheduleNxtTask calls one task per freed core: together they must never
\* leave a core idle while a task waits.
WorkConserving == Queued(sched) # {} => Cores <= Busy(sched)

\* The slices given to a task add up to its requirement: what it has been
\* served, what is left of the present slice and what stays in req.  A task
\* whose last slice is just as long as its residue is over with it: no task
\* that has been served waits for a core with nothing left to be served.
ServiceAccounted ==
  /\ \A t \in Queued(sched) :
       /\ job[t].served + job[t].req = job[t].asked
       /\ job[t].served > 0 => job[t].req > 0
  /\ \A t \in sched.slicing :
       job[t].served + sched.due[t]
         + (IF Finish(job, t) THEN 0 ELSE job[t].req - job[t].timeslice) = job[t].asked
  /\ \A t \in sched.completing \ sched.slicing : job[t].served = job[t].asked

\* Is s the queue q after at most its head has left and others have joined?
HeadLeaves(q, s) ==
  \/ Len(q) <= Len(s) /\ SubSeq(s, 1, Len(q)) = q
  \/ /\ q # << >>
     /\ Len(q) <= Len(s) + 1
     /\ SubSeq(s, 1, Len(q) - 1) = Tail(q)
     /\ Head(q) \in sched'.slicing

\* While the cores are not overcommitted, a level gives up only its head, and
\* only to a core; everybody else keeps his place and newcomers go behind.
HeadsLeaveInOrder ==
  [][Busy(sched) <= Cores =>
       \A p \in Priorities : HeadLeaves(sched.waiting[p], sched'.waiting[p])]_vars

\* t starts a slice in this step: it is given a core, or its slice ended and
\* it keeps the core for another.
StartsSlice(t) ==
  /\ t \in sched'.slicing
  /\ t \notin sched.slicing \/ job'[t].req # job[t].req

\* No task takes a core past another, neither one that arrives nor one whose
\* slice has just ended: as long as any task waits, whoever starts a slice
\* was the head of a waiting level, and no task waited above that level.
NoOvertaking ==
  [][\A t \in Tasks : StartsSlice(t) /\ Queued(sched) # {} =>
       \E p \in Priorities :
         /\ sched.waiting[p] # << >> /\ t = Head(sched.waiting[p])
         /\ \A q \in Priorities : q > p => sched.waiting[q] = << >>]_vars

\* Once background made more cores busy than there are, no step but the
\* initialisation adds to the excess.
ExcessNeverGrows ==
  [][(Cores < Busy(sched') /\ bckgrndOn) => Busy(sched') <= Busy(sched)]_vars

\* ... and it drains, however many tasks the program keeps presenting.
ExcessDrains == (Cores < Busy(sched)) ~> (Busy(sched) <= Cores)

\* A task of the highest priority is served and reported complete, whatever
\* else is presented, and whatever number of cores background took at first.
TopPriorityCompletes(t) ==
  (t \in Active(sched) /\ \A p \in Priorities : p <= job[t].pri) ~> (t \notin Active(sched))
============================================================================
