------------------------ MODULE TaskSchedulerProofs ------------------------
(***************************************************************************)
(* Proofs about TaskScheduler, for every number of cores and every finite  *)
(* set of tasks.  The two functions of scheduler.go that move tasks,       *)
(* joinQueue and scheduleNxtTask, each get a lemma that says what it       *)
(* preserves; the handlers are compositions of them.  What holds of the    *)
(* state comes first; how much service each task is given, and in which    *)
(* order tasks leave their levels, rests on it.                            *)
(***************************************************************************)
EXTENDS TaskScheduler, FiniteSetTheorems, SequenceTheorems, TLAPS

----------------------------------------------------------------------------
(* What every intermediate state of a handler satisfies.                   *)

\* A waiting task stands once, at its own level, and holds no core.
QueuesOK(s, jb) ==
  \A p \in Priorities : \A i \in 1..Len(s.waiting[p]) :
    /\ jb[s.waiting[p][i]].pri = p
    /\ s.waiting[p][i] \notin s.slicing \cup s.completing
    /\ \A j \in 1..Len(s.waiting[p]) :
         s.waiting[p][i] = s.waiting[p][j] => i = j

\* A completion event is pending for a task in service only in its last slice.
FinishOK(s, jb) == \A t \in s.slicing : t \in s.completing => Finish(jb, t)

Consistent(s, jb) ==
  /\ s \in SchedType
  /\ s.inservice = Cardinality(s.slicing)
  /\ s.inservice <= Cores
  /\ s.inBckgrnd \in Nat
  /\ s.numWaiting = Cardinality(Queued(s))
  /\ QueuesOK(s, jb)
  /\ FinishOK(s, jb)

Conserving(s) == Queued(s) # {} => Cores <= Busy(s)

\* The inductive invariant.
IInv ==
  /\ TypeOK
  /\ Consistent(sched, job)
  /\ sched.inBckgrnd = Cardinality(rmPending)
  /\ bckgrndOn \/ (rmPending = {} /\ addDue = None)
  /\ WorkConserving

----------------------------------------------------------------------------
\* The positive priority 1 is always a level.
LEMMA PrioritiesFacts ==
  /\ Priorities \subseteq Nat \ {0}
  /\ IsFiniteSet(Priorities)
  /\ 1 \in Priorities
  /\ \A p \in PriArgs : EffectivePri(p) \in Priorities
BY SchedulerAssumption DEF Priorities, EffectivePri

\* A finite non-empty set of integers has a greatest element.
LEMMA GreatestOfFinite ==
  ASSUME NEW S, IsFiniteSet(S), S \subseteq Int, S # {}
  PROVE  \E x \in S : \A y \in S : y <= x
<1> DEFINE Above(x) == {y \in S : x < y}
           T == {Above(x) : x \in S}
<1>1. T \subseteq FiniteSubsetsOf(S) /\ T # {}
  <2>1. ASSUME NEW x \in S PROVE Above(x) \in SUBSET S /\ IsFiniteSet(Above(x))
    BY FS_Subset
  <2>2. QED
    BY <2>1 DEF FiniteSubsetsOf
<1>2. PICK A \in T : \A B \in T : <<B, A>> \notin StrictSubsetOrdering(S)
  BY <1>1, FS_StrictSubsetOrderingWellFounded, WFMin
<1>3. PICK x \in S : A = Above(x)
  OBVIOUS
<1>4. ASSUME NEW y \in S, x < y PROVE FALSE
  <2>1. Above(y) \subseteq Above(x) /\ Above(y) # Above(x)
    <3>1. \A z \in S : y < z => x < z
      BY <1>4
    <3>2. y \in Above(x) /\ y \notin Above(y)
      BY <1>4
    <3>3. QED
      BY <3>1, <3>2
  <2>2. <<Above(y), Above(x)>> \in StrictSubsetOrdering(S)
    BY <2>1 DEF StrictSubsetOrdering
  <2>3. QED
    BY <2>2, <1>2, <1>3
<1>5. QED
  BY <1>4

\* TopLevel is a non-empty level, and no higher level has a waiting task.
LEMMA TopLevelFacts ==
  ASSUME NEW s, Levels(s) # {}
  PROVE  /\ TopLevel(s) \in Priorities
         /\ s.waiting[TopLevel(s)] # << >>
         /\ \A q \in Levels(s) : q <= TopLevel(s)
<1>1. IsFiniteSet(Levels(s)) /\ Levels(s) \subseteq Int
  <2>1. Levels(s) \in SUBSET Priorities
    BY DEF Levels
  <2>2. IsFiniteSet(Levels(s))
    BY <2>1, PrioritiesFacts, FS_Subset
  <2>3. Priorities \subseteq Int
    BY PrioritiesFacts
  <2>4. QED
    BY <2>1, <2>2, <2>3
<1>2. \E p \in Levels(s) : \A q \in Levels(s) : q <= p
  BY <1>1, GreatestOfFinite
<1>3. TopLevel(s) \in Levels(s) /\ \A q \in Levels(s) : q <= TopLevel(s)
  BY <1>2 DEF TopLevel
<1>4. QED
  BY <1>3 DEF Levels

\* Tasks wait exactly when some level is not empty.
LEMMA QueuedLevels ==
  ASSUME NEW s \in SchedType
  PROVE  Queued(s) = {} <=> Levels(s) = {}
<1>1. ASSUME NEW p \in Priorities
      PROVE  s.waiting[p] \in Seq(Tasks)
  BY DEF SchedType
<1>2. ASSUME NEW p \in Priorities, s.waiting[p] # << >>
      PROVE  Queued(s) # {}
  <2>1. Len(s.waiting[p]) >= 1 /\ s.waiting[p][1] \in Tasks
    BY <1>1, <1>2
  <2>2. QED
    BY <2>1 DEF Queued
<1>3. ASSUME NEW t \in Queued(s)
      PROVE  Levels(s) # {}
  <2>1. PICK p \in Priorities : \E i \in 1..Len(s.waiting[p]) : s.waiting[p][i] = t
    BY DEF Queued
  <2>2. s.waiting[p] # << >>
    BY <2>1, <1>1
  <2>3. QED
    BY <2>2 DEF Levels
<1>4. QED
  BY <1>2, <1>3 DEF Levels

LEMMA QueuedFinite ==
  ASSUME NEW s
  PROVE  /\ Queued(s) \in SUBSET Tasks
         /\ IsFiniteSet(Queued(s))
         /\ Cardinality(Queued(s)) \in Nat
<1>1. Queued(s) \in SUBSET Tasks
  BY DEF Queued
<1>2. QED
  BY <1>1, SchedulerAssumption, FS_Subset, FS_CardinalityType

\* scheduleNxtTask takes the head of the highest level out of the queues.
LEMMA PopTaskFacts ==
  ASSUME NEW s, NEW jb, Consistent(s, jb), Levels(s) # {}
  PROVE  LET p == TopLevel(s)
             h == Head(s.waiting[p])
             r == PopTask(s, p)
         IN  /\ Consistent(r, jb)
             /\ h \in Tasks /\ h \in Queued(s) /\ h \notin Active(r)
             /\ jb[h].pri = p
             /\ Queued(r) = Queued(s) \ {h}
             /\ Busy(r) = Busy(s)
             /\ r.inBckgrnd = s.inBckgrnd
             /\ r.slicing = s.slicing /\ r.completing = s.completing
             /\ r.due = s.due
<1> DEFINE p == TopLevel(s)
           q == s.waiting[p]
           h == Head(q)
           r == PopTask(s, p)
<1>1. p \in Priorities /\ q # << >>
  BY TopLevelFacts
<1>2. s \in SchedType /\ q \in Seq(Tasks)
  BY <1>1 DEF Consistent, SchedType
<1>3. /\ h \in Tasks /\ h = q[1] /\ 1 \in 1..Len(q)
      /\ Tail(q) \in Seq(Tasks) /\ Len(Tail(q)) = Len(q) - 1
      /\ \A i \in 1..Len(Tail(q)) : Tail(q)[i] = q[i+1] /\ i + 1 \in 1..Len(q)
  BY <1>1, <1>2, HeadTailProperties
<1>4. /\ r \in SchedType
      /\ r.waiting = [s.waiting EXCEPT ![p] = Tail(q)]
      /\ r.numWaiting = s.numWaiting - 1
      /\ r.inservice = s.inservice /\ r.inBckgrnd = s.inBckgrnd
      /\ r.slicing = s.slicing /\ r.completing = s.completing /\ r.due = s.due
  <2>1. r = [s EXCEPT !.waiting = [s.waiting EXCEPT ![p] = Tail(q)],
                      !.numWaiting = s.numWaiting - 1]
    BY DEF PopTask
  <2>2. [s.waiting EXCEPT ![p] = Tail(q)] \in [Priorities -> Seq(Tasks)]
    BY <1>1, <1>2, <1>3 DEF SchedType
  <2>3. s.numWaiting - 1 \in Int
    BY <1>2 DEF SchedType
  <2> HIDE DEF p, q, h, r
  <2>4. QED
    BY <1>2, <2>1, <2>2, <2>3 DEF SchedType
<1>5. /\ r.waiting[p] = Tail(q)
      /\ \A m \in Priorities : m # p => r.waiting[m] = s.waiting[m]
  BY <1>1, <1>2, <1>4 DEF SchedType
<1>6. QueuesOK(s, jb)
  BY DEF Consistent
<1>7. jb[h].pri = p /\ h \notin s.slicing \cup s.completing
  BY <1>1, <1>3, <1>6 DEF QueuesOK
<1>8. ASSUME NEW m \in Priorities, NEW i \in 1..Len(r.waiting[m])
      PROVE  /\ r.waiting[m][i] # h
             /\ \E k \in 1..Len(s.waiting[m]) :
                   s.waiting[m][k] = r.waiting[m][i] /\ (m = p => k = i + 1)
  <2>1. CASE m = p
    <3>1. i \in 1..Len(Tail(q)) /\ r.waiting[m][i] = q[i+1] /\ i + 1 \in 1..Len(q)
      BY <2>1, <1>3, <1>5
    <3>2. q[i+1] # q[1]
      BY <3>1, <1>1, <1>3, <1>6 DEF QueuesOK
    <3>3. QED
      BY <2>1, <3>1, <3>2, <1>3
  <2>2. CASE m # p
    <3>1. r.waiting[m] = s.waiting[m]
      BY <2>2, <1>5
    <3>2. jb[s.waiting[m][i]].pri = m
      BY <3>1, <1>6 DEF QueuesOK
    <3>3. QED
      BY <2>2, <3>1, <3>2, <1>7
  <2>3. QED
    BY <2>1, <2>2
<1>9. QueuesOK(r, jb)
  <2> SUFFICES ASSUME NEW m \in Priorities, NEW i \in 1..Len(r.waiting[m])
               PROVE  /\ jb[r.waiting[m][i]].pri = m
                      /\ r.waiting[m][i] \notin r.slicing \cup r.completing
                      /\ \A j \in 1..Len(r.waiting[m]) :
                           r.waiting[m][i] = r.waiting[m][j] => i = j
    BY DEF QueuesOK
  <2>1. CASE m = p
    <3>1. /\ i + 1 \in 1..Len(q) /\ r.waiting[m][i] = q[i+1]
          /\ \A j \in 1..Len(r.waiting[m]) : j + 1 \in 1..Len(q) /\ r.waiting[m][j] = q[j+1]
      BY <2>1, <1>3, <1>5
    <3>2. /\ jb[q[i+1]].pri = m /\ q[i+1] \notin s.slicing \cup s.completing
          /\ \A k \in 1..Len(q) : q[i+1] = q[k] => i + 1 = k
      BY <2>1, <3>1, <1>6 DEF QueuesOK
    <3>3. QED
      BY <3>1, <3>2, <1>4
  <2>2. CASE m # p
    <3>1. r.waiting[m] = s.waiting[m]
      BY <2>2, <1>5
    <3>2. QED
      BY <3>1, <1>4, <1>6 DEF QueuesOK
  <2>3. QED
    BY <2>1, <2>2
<1>10. h \in Queued(s)
  BY <1>1, <1>3 DEF Queued
<1>11. Queued(r) = Queued(s) \ {h}
  <2>1. Queued(r) \subseteq Queued(s) \ {h}
    BY <1>8 DEF Queued
  <2>2. ASSUME NEW t \in Queued(s), t # h PROVE t \in Queued(r)
    <3>1. PICK m \in Priorities : \E i \in 1..Len(s.waiting[m]) : s.waiting[m][i] = t
      BY DEF Queued
    <3>2. PICK i \in 1..Len(s.waiting[m]) : s.waiting[m][i] = t
      BY <3>1
    <3>3. t \in Tasks
      BY DEF Queued
    <3>4. CASE m = p
      <4>1. i # 1
        BY <3>2, <3>4, <2>2, <1>3
      <4>2. i - 1 \in 1..Len(Tail(q))
        BY <4>1, <3>4, <1>2, <1>3
      <4>3. Tail(q)[i-1] = t
        BY <4>2, <3>2, <3>4, <1>3
      <4>4. QED
        BY <4>2, <4>3, <3>3, <1>1, <1>5 DEF Queued
    <3>5. CASE m # p
      BY <3>2, <3>3, <3>5, <1>5 DEF Queued
    <3>6. QED
      BY <3>4, <3>5
  <2>3. QED
    BY <2>1, <2>2
<1>12. r.numWaiting = Cardinality(Queued(r))
  <2>1. Cardinality(Queued(r)) = Cardinality(Queued(s)) - 1
    <3>1. \A x : x \in Queued(s) => Cardinality(Queued(s) \ {x}) = Cardinality(Queued(s)) - 1
      BY QueuedFinite, FS_RemoveElement
    <3>2. QED
      BY <1>10, <1>11, <3>1
  <2>2. QED
    BY <2>1, <1>4 DEF Consistent
<1>13. Consistent(r, jb)
  BY <1>4, <1>9, <1>12 DEF Consistent, FinishOK
<1>14. h \notin Active(r)
  BY <1>4, <1>7, <1>11 DEF Active
<1>15. Busy(r) = Busy(s)
  BY <1>4 DEF Busy
<1>16. QED
  BY <1>3, <1>4, <1>7, <1>10, <1>11, <1>13, <1>14, <1>15

\* joinQueue, every core busy: the task waits behind its level.
LEMMA JoinWaits ==
  ASSUME NEW s, NEW jb \in [Tasks -> JobType], Consistent(s, jb),
         NEW t \in Tasks, t \notin Active(s), Cores <= Busy(s)
  PROVE  LET r == JoinQueue(s, jb, t)
         IN  /\ Consistent(r, jb)
             /\ Queued(r) = Queued(s) \cup {t}
             /\ Busy(r) = Busy(s)
             /\ r.inBckgrnd = s.inBckgrnd
             /\ r.slicing = s.slicing /\ r.completing = s.completing
             /\ r.due = s.due
<1> DEFINE p == jb[t].pri
           q == s.waiting[p]
           r == JoinQueue(s, jb, t)
<1>1. p \in Priorities
  BY DEF JobType
<1>2. s \in SchedType /\ q \in Seq(Tasks)
  BY <1>1 DEF Consistent, SchedType
<1>3. /\ Append(q, t) \in Seq(Tasks) /\ Len(Append(q, t)) = Len(q) + 1
      /\ \A i \in 1..Len(q) : Append(q, t)[i] = q[i] /\ i \in 1..Len(Append(q, t))
      /\ Append(q, t)[Len(q) + 1] = t /\ Len(q) + 1 \in 1..Len(Append(q, t))
      /\ \A i \in 1..Len(Append(q, t)) : i \in 1..Len(q) \/ i = Len(q) + 1
  BY <1>2, AppendProperties
<1>4. /\ r \in SchedType
      /\ r.waiting = [s.waiting EXCEPT ![p] = Append(q, t)]
      /\ r.numWaiting = s.numWaiting + 1
      /\ r.inservice = s.inservice /\ r.inBckgrnd = s.inBckgrnd
      /\ r.slicing = s.slicing /\ r.completing = s.completing /\ r.due = s.due
  <2>1. r = [s EXCEPT !.waiting = [s.waiting EXCEPT ![p] = Append(q, t)],
                      !.numWaiting = s.numWaiting + 1]
    BY DEF JoinQueue
  <2>2. [s.waiting EXCEPT ![p] = Append(q, t)] \in [Priorities -> Seq(Tasks)]
    BY <1>1, <1>2, <1>3 DEF SchedType
  <2>3. s.numWaiting + 1 \in Int
    BY <1>2 DEF SchedType
  <2> HIDE DEF p, q, r
  <2>4. QED
    BY <1>2, <2>1, <2>2, <2>3 DEF SchedType
<1>5. /\ r.waiting[p] = Append(q, t)
      /\ \A m \in Priorities : m # p => r.waiting[m] = s.waiting[m]
  BY <1>1, <1>2, <1>4 DEF SchedType
<1>6. QueuesOK(s, jb)
  BY DEF Consistent
<1>7. t \notin Queued(s) /\ t \notin s.slicing \cup s.completing
  BY DEF Active
<1>8. \A m \in Priorities : \A i \in 1..Len(s.waiting[m]) : s.waiting[m][i] # t
  BY <1>7 DEF Queued
<1>9. QueuesOK(r, jb)
  <2> SUFFICES ASSUME NEW m \in Priorities, NEW i \in 1..Len(r.waiting[m])
               PROVE  /\ jb[r.waiting[m][i]].pri = m
                      /\ r.waiting[m][i] \notin r.slicing \cup r.completing
                      /\ \A j \in 1..Len(r.waiting[m]) :
                           r.waiting[m][i] = r.waiting[m][j] => i = j
    BY DEF QueuesOK
  <2>1. CASE m = p /\ i \in 1..Len(q)
    <3>1. r.waiting[m] = Append(q, t) /\ r.waiting[m][i] = q[i]
      BY <2>1, <1>3, <1>5
    <3>2. /\ jb[q[i]].pri = m /\ q[i] \notin s.slicing \cup s.completing /\ q[i] # t
          /\ \A j \in 1..Len(q) : q[i] = q[j] => i = j
      BY <2>1, <1>6, <1>8 DEF QueuesOK
    <3>3. QED
      BY <3>1, <3>2, <1>3, <1>4
  <2>2. CASE m = p /\ i = Len(q) + 1
    <3>1. r.waiting[m] = Append(q, t) /\ r.waiting[m][i] = t
      BY <2>2, <1>3, <1>5
    <3>2. \A j \in 1..Len(q) : Append(q, t)[j] # t
      BY <1>1, <1>3, <1>8
    <3>3. QED
      BY <2>2, <3>1, <3>2, <1>3, <1>4, <1>7
  <2>3. CASE m # p
    <3>1. r.waiting[m] = s.waiting[m]
      BY <2>3, <1>5
    <3>2. QED
      BY <3>1, <1>4, <1>6 DEF QueuesOK
  <2>4. QED
    BY <2>1, <2>2, <2>3, <1>3, <1>5
<1>10. Queued(r) = Queued(s) \cup {t}
  <2>1. ASSUME NEW u \in Queued(s) PROVE u \in Queued(r)
    <3>1. PICK m \in Priorities : \E i \in 1..Len(s.waiting[m]) : s.waiting[m][i] = u
      BY DEF Queued
    <3>2. PICK i \in 1..Len(s.waiting[m]) : s.waiting[m][i] = u
      BY <3>1
    <3>3. i \in 1..Len(r.waiting[m]) /\ r.waiting[m][i] = u
      BY <3>2, <1>3, <1>5
    <3>4. QED
      BY <3>3 DEF Queued
  <2>2. t \in Queued(r)
    BY <1>1, <1>3, <1>5 DEF Queued
  <2>3. ASSUME NEW u \in Queued(r), u # t PROVE u \in Queued(s)
    <3>1. PICK m \in Priorities : \E i \in 1..Len(r.waiting[m]) : r.waiting[m][i] = u
      BY DEF Queued
    <3>2. PICK i \in 1..Len(r.waiting[m]) : r.waiting[m][i] = u
      BY <3>1
    <3>3. i \in 1..Len(s.waiting[m]) /\ s.waiting[m][i] = u
      BY <3>2, <2>3, <1>3, <1>5
    <3>4. QED
      BY <3>3 DEF Queued
  <2>4. QED
    BY <2>1, <2>2, <2>3
<1>11. r.numWaiting = Cardinality(Queued(r))
  <2>1. \A x : x \notin Queued(s) => Cardinality(Queued(s) \cup {x}) = Cardinality(Queued(s)) + 1
    BY QueuedFinite, FS_AddElement
  <2>2. QED
    BY <2>1, <1>4, <1>7, <1>10 DEF Consistent
<1>12. Consistent(r, jb)
  BY <1>4, <1>9, <1>11 DEF Consistent, FinishOK
<1>13. QED
  BY <1>4, <1>10, <1>12 DEF Busy

\* joinQueue, a core free: the task holds it.
LEMMA JoinEnters ==
  ASSUME NEW s, NEW jb \in [Tasks -> JobType], Consistent(s, jb),
         NEW t \in Tasks, t \notin Active(s), ~ (Cores <= Busy(s))
  PROVE  LET r == JoinQueue(s, jb, t)
         IN  /\ Consistent(r, jb)
             /\ Queued(r) = Queued(s)
             /\ Busy(r) = Busy(s) + 1
             /\ r.inBckgrnd = s.inBckgrnd
             /\ r.slicing = s.slicing \cup {t}
             /\ Finish(jb, t) => r.completing = s.completing \cup {t}
             /\ ~ Finish(jb, t) => r.completing = s.completing
             /\ \A u \in Tasks : u # t => r.due[u] = s.due[u]
             /\ Finish(jb, t) => r.due[t] = jb[t].req
             /\ ~ Finish(jb, t) => r.due[t] = jb[t].timeslice
<1> DEFINE r == JoinQueue(s, jb, t)
           d == IF Finish(jb, t) THEN jb[t].req ELSE jb[t].timeslice
           c == IF Finish(jb, t) THEN s.completing \cup {t} ELSE s.completing
<1>1. s \in SchedType /\ d \in Nat
  BY DEF Consistent, JobType
<1>2. /\ r \in SchedType
      /\ r.waiting = s.waiting /\ r.numWaiting = s.numWaiting
      /\ r.inservice = s.inservice + 1 /\ r.inBckgrnd = s.inBckgrnd
      /\ r.slicing = s.slicing \cup {t} /\ r.completing = c
      /\ r.due = [s.due EXCEPT ![t] = d]
  <2>1. r = [s EXCEPT !.inservice = s.inservice + 1,
                      !.slicing = s.slicing \cup {t},
                      !.completing = c,
                      !.due = [s.due EXCEPT ![t] = d]]
    BY DEF JoinQueue
  <2>2. /\ [s.due EXCEPT ![t] = d] \in [Tasks -> Nat]
        /\ s.slicing \cup {t} \in SUBSET Tasks
        /\ c \in SUBSET Tasks
        /\ s.inservice + 1 \in Int
    BY <1>1 DEF SchedType
  <2> HIDE DEF d, c, r
  <2>3. QED
    BY <1>1, <2>1, <2>2 DEF SchedType
<1>3. t \notin Queued(s) /\ t \notin s.slicing \cup s.completing
  BY DEF Active
<1>4. Queued(r) = Queued(s)
  BY <1>2 DEF Queued
<1>5. QueuesOK(r, jb)
  <2>1. \A m \in Priorities : \A i \in 1..Len(s.waiting[m]) : s.waiting[m][i] # t
    BY <1>3 DEF Queued
  <2>2. c \subseteq s.completing \cup {t}
    OBVIOUS
  <2> HIDE DEF r, c
  <2>3. QED
    BY <1>2, <2>1, <2>2 DEF Consistent, QueuesOK
<1>6. r.inservice = Cardinality(r.slicing)
  <2>1. IsFiniteSet(s.slicing)
    BY <1>1, SchedulerAssumption, FS_Subset DEF SchedType
  <2>2. Cardinality(s.slicing \cup {t}) = Cardinality(s.slicing) + 1
    BY <2>1, <1>3, FS_AddElement
  <2>3. QED
    BY <2>2, <1>2 DEF Consistent
<1>7. r.inservice <= Cores
  BY <1>1, <1>2, SchedulerAssumption DEF Consistent, Busy, SchedType
<1>8. FinishOK(r, jb)
  <2>1. \A u \in s.slicing : u # t
    BY <1>3
  <2> HIDE DEF r
  <2>2. QED
    BY <1>2, <1>3, <2>1 DEF Consistent, FinishOK
<1>9. Consistent(r, jb)
  BY <1>2, <1>4, <1>5, <1>6, <1>7, <1>8 DEF Consistent
<1>10. Busy(r) = Busy(s) + 1
  BY <1>1, <1>2 DEF Busy, SchedType
<1>11. /\ \A u \in Tasks : u # t => r.due[u] = s.due[u]
       /\ r.due[t] = d
  BY <1>1, <1>2 DEF SchedType
<1>12. QED
  BY <1>2, <1>4, <1>9, <1>10, <1>11

\* Either way joinQueue keeps the structure consistent and no core idle.
LEMMA JoinQueueFacts ==
  ASSUME NEW s, NEW jb \in [Tasks -> JobType], Consistent(s, jb),
         NEW t \in Tasks, t \notin Active(s)
  PROVE  LET r == JoinQueue(s, jb, t)
         IN  /\ Consistent(r, jb)
             /\ Conserving(s) => Conserving(r)
             /\ r.inBckgrnd = s.inBckgrnd
             /\ Active(r) \subseteq Active(s) \cup {t}
             /\ Busy(r) <= Busy(s) \/ Busy(r) <= Cores
<1> DEFINE r == JoinQueue(s, jb, t)
<1>1. Busy(s) \in Int
  BY DEF Consistent, SchedType, Busy
<1>2. CASE Cores <= Busy(s)
  <2>1. /\ Consistent(r, jb) /\ Queued(r) = Queued(s) \cup {t}
        /\ Busy(r) = Busy(s) /\ r.inBckgrnd = s.inBckgrnd
        /\ r.slicing = s.slicing /\ r.completing = s.completing
    BY <1>2, JoinWaits
  <2> HIDE DEF r
  <2>2. Active(r) \subseteq Active(s) \cup {t}
    BY <2>1 DEF Active
  <2>3. QED
    BY <1>1, <1>2, <2>1, <2>2 DEF Conserving, r
<1>3. CASE ~ (Cores <= Busy(s))
  <2>1. /\ Consistent(r, jb) /\ Queued(r) = Queued(s)
        /\ Busy(r) = Busy(s) + 1 /\ r.inBckgrnd = s.inBckgrnd
        /\ r.slicing = s.slicing \cup {t}
        /\ Finish(jb, t) => r.completing = s.completing \cup {t}
        /\ ~ Finish(jb, t) => r.completing = s.completing
    BY <1>3, JoinEnters
  <2> HIDE DEF r
  <2>2. Active(r) \subseteq Active(s) \cup {t}
    BY <2>1 DEF Active
  <2>3. Conserving(s) => Conserving(r)
    BY <1>3, <2>1 DEF Conserving
  <2>4. Busy(r) <= Cores
    BY <1>1, <1>3, <2>1, SchedulerAssumption
  <2>5. QED
    BY <2>1, <2>2, <2>3, <2>4 DEF r
<1>4. QED
  BY <1>2, <1>3

\* scheduleNxtTask makes up for one core that came free: the hypothesis of
\* its second conjunct is what its callers leave behind.
LEMMA ScheduleNxtTaskFacts ==
  ASSUME NEW s, NEW jb \in [Tasks -> JobType], Consistent(s, jb)
  PROVE  LET r == ScheduleNxtTask(s, jb)
         IN  /\ Consistent(r, jb)
             /\ (Queued(s) # {} => Cores <= Busy(s) + 1) => Conserving(r)
             /\ r.inBckgrnd = s.inBckgrnd
             /\ Active(r) \subseteq Active(s)
             /\ Busy(r) <= Busy(s) \/ Busy(r) <= Cores
<1> DEFINE r == ScheduleNxtTask(s, jb)
           h == Head(s.waiting[TopLevel(s)])
           q == PopTask(s, TopLevel(s))
<1>1. Busy(s) \in Int /\ s \in SchedType
  BY DEF Consistent, SchedType, Busy
<1>2. CASE Levels(s) = {}
  <2>1. r = s
    BY <1>2 DEF ScheduleNxtTask
  <2>2. Queued(s) = {}
    BY <1>1, <1>2, QueuedLevels
  <2> HIDE DEF r
  <2>3. QED
    BY <1>1, <2>1, <2>2 DEF Conserving, r
<1>3. CASE Levels(s) # {}
  <2>1. r = JoinQueue(q, jb, h)
    BY <1>3 DEF ScheduleNxtTask
  <2>2. /\ Consistent(q, jb) /\ h \in Tasks /\ h \in Queued(s)
        /\ h \notin Active(q) /\ Queued(q) = Queued(s) \ {h}
        /\ Busy(q) = Busy(s) /\ q.inBckgrnd = s.inBckgrnd
        /\ q.slicing = s.slicing /\ q.completing = s.completing
    BY <1>3, PopTaskFacts
  <2> HIDE DEF r, q, h
  <2>3. /\ Consistent(r, jb) /\ r.inBckgrnd = s.inBckgrnd
        /\ Active(r) \subseteq Active(q) \cup {h}
        /\ Busy(r) <= Busy(s) \/ Busy(r) <= Cores
    BY <2>1, <2>2, JoinQueueFacts
  <2>4. Active(r) \subseteq Active(s)
    BY <2>2, <2>3 DEF Active
  <2>5. ASSUME Queued(s) # {} => Cores <= Busy(s) + 1
        PROVE  Conserving(r)
    <3>1. Cores <= Busy(s) + 1
      BY <2>2, <2>5
    <3>2. CASE Cores <= Busy(q)
      <4>1. Busy(r) = Busy(q)
        BY <2>1, <2>2, <3>2, JoinWaits
      <4>2. QED
        BY <3>2, <4>1 DEF Conserving
    <3>3. CASE ~ (Cores <= Busy(q))
      <4>1. Busy(r) = Busy(q) + 1
        BY <2>1, <2>2, <3>3, JoinEnters
      <4>2. QED
        BY <2>2, <3>1, <4>1 DEF Conserving
    <3>4. QED
      BY <3>2, <3>3
  <2>6. QED
    BY <2>3, <2>4, <2>5 DEF r
<1>4. QED
  BY <1>2, <1>3

\* Consistency looks at the Task structs of active tasks only.
LEMMA JobsAgree ==
  ASSUME NEW s, NEW jb, NEW jc, Consistent(s, jb),
         \A u \in Active(s) : /\ jc[u].pri = jb[u].pri
                              /\ jc[u].req = jb[u].req
                              /\ jc[u].timeslice = jb[u].timeslice
  PROVE  Consistent(s, jc)
<1>1. QueuesOK(s, jc)
  <2>1. \A p \in Priorities : \A i \in 1..Len(s.waiting[p]) : s.waiting[p][i] \in Active(s)
    <3>1. \A p \in Priorities : s.waiting[p] \in Seq(Tasks)
      BY DEF Consistent, SchedType
    <3>2. \A p \in Priorities : \A i \in 1..Len(s.waiting[p]) : s.waiting[p][i] \in Queued(s)
      BY <3>1 DEF Queued
    <3>3. QED
      BY <3>2 DEF Active
  <2>2. QED
    BY <2>1 DEF Consistent, QueuesOK
<1>2. FinishOK(s, jc)
  <2>1. \A u \in s.slicing : u \in Active(s)
    BY DEF Active
  <2>2. QED
    BY <2>1 DEF Consistent, FinishOK, Finish
<1>3. QED
  BY <1>1, <1>2 DEF Consistent

\* The end of a slice frees one core.
LEMMA LeaveCoreFacts ==
  ASSUME NEW s, NEW jb, Consistent(s, jb), NEW t \in s.slicing
  PROVE  LET r == LeaveCore(s, t)
         IN  /\ Consistent(r, jb)
             /\ Queued(r) = Queued(s)
             /\ Busy(r) = Busy(s) - 1
             /\ r.inBckgrnd = s.inBckgrnd
             /\ r.completing = s.completing /\ r.slicing = s.slicing \ {t}
             /\ r.due = s.due
             /\ Active(r) \subseteq Active(s)
             /\ t \notin s.completing => t \notin Active(r)
<1> DEFINE r == LeaveCore(s, t)
<1>1. s \in SchedType
  BY DEF Consistent
<1>2. /\ r \in SchedType
      /\ r.waiting = s.waiting /\ r.numWaiting = s.numWaiting
      /\ r.inservice = s.inservice - 1 /\ r.inBckgrnd = s.inBckgrnd
      /\ r.slicing = s.slicing \ {t} /\ r.completing = s.completing
      /\ r.due = s.due
  <2>1. r = [s EXCEPT !.inservice = s.inservice - 1, !.slicing = s.slicing \ {t}]
    BY DEF LeaveCore
  <2>2. s.inservice - 1 \in Int /\ s.slicing \ {t} \in SUBSET Tasks
    BY <1>1 DEF SchedType
  <2> HIDE DEF r
  <2>3. QED
    BY <1>1, <2>1, <2>2 DEF SchedType
<1>3. Queued(r) = Queued(s)
  BY <1>2 DEF Queued
<1>4. r.inservice = Cardinality(r.slicing)
  <2>1. IsFiniteSet(s.slicing)
    BY <1>1, SchedulerAssumption, FS_Subset DEF SchedType
  <2>2. Cardinality(s.slicing \ {t}) = Cardinality(s.slicing) - 1
    BY <2>1, FS_RemoveElement
  <2>3. QED
    BY <2>2, <1>2 DEF Consistent
<1>5. t \notin Queued(s)
  BY DEF Consistent, QueuesOK, Queued
<1> HIDE DEF r
<1>6. QueuesOK(r, jb) /\ FinishOK(r, jb)
  BY <1>2 DEF Consistent, QueuesOK, FinishOK
<1>7. r.inservice <= Cores
  BY <1>1, <1>2, SchedulerAssumption DEF Consistent, SchedType
<1>8. Consistent(r, jb)
  BY <1>2, <1>3, <1>4, <1>6, <1>7 DEF Consistent
<1>9. Busy(r) = Busy(s) - 1
  BY <1>1, <1>2 DEF Busy, SchedType
<1>10. Active(r) \subseteq Active(s) /\ (t \notin s.completing => t \notin Active(r))
  BY <1>2, <1>3, <1>5 DEF Active
<1>11. QED
  BY <1>2, <1>3, <1>8, <1>9, <1>10 DEF r

\* Moving the count of background cores leaves the rest consistent.
LEMMA BckgrndFacts ==
  ASSUME NEW s, NEW jb, Consistent(s, jb), NEW k \in Nat
  PROVE  LET r == [s EXCEPT !.inBckgrnd = k]
         IN  /\ Consistent(r, jb)
             /\ Queued(r) = Queued(s)
             /\ Active(r) = Active(s)
             /\ Busy(r) = s.inservice + k
             /\ r.inBckgrnd = k
<1> DEFINE r == [s EXCEPT !.inBckgrnd = k]
<1>1. s \in SchedType
  BY DEF Consistent
<1>2. /\ r \in SchedType
      /\ r.waiting = s.waiting /\ r.numWaiting = s.numWaiting
      /\ r.inservice = s.inservice /\ r.inBckgrnd = k
      /\ r.slicing = s.slicing /\ r.completing = s.completing
      /\ r.due = s.due
  <2>1. r = [s EXCEPT !.inBckgrnd = k]
    OBVIOUS
  <2>2. k \in Int
    OBVIOUS
  <2> HIDE DEF r
  <2>3. QED
    BY <1>1, <2>1, <2>2 DEF SchedType
<1> HIDE DEF r
<1>3. Queued(r) = Queued(s) /\ Active(r) = Active(s)
  BY <1>2 DEF Queued, Active
<1>4. QueuesOK(r, jb) /\ FinishOK(r, jb)
  BY <1>2 DEF Consistent, QueuesOK, FinishOK
<1>5. QED
  BY <1>2, <1>3, <1>4 DEF Consistent, Busy, r

LEMMA InitIInv == Init => IInv
<1> SUFFICES ASSUME Init PROVE IInv
  OBVIOUS
<1>1. TypeOK
  <2>1. NoJob \in JobType
    BY PrioritiesFacts DEF NoJob, JobType
  <2>2. [p \in Priorities |-> << >>] \in [Priorities -> Seq(Tasks)]
    OBVIOUS
  <2>3. sched \in SchedType
    BY <2>2 DEF Init, SchedType
  <2>4. job \in [Tasks -> JobType]
    BY <2>1 DEF Init
  <2>5. QED
    BY <2>3, <2>4 DEF Init, TypeOK
<1>2. /\ sched.waiting = [p \in Priorities |-> << >>] /\ sched.numWaiting = 0
      /\ sched.inservice = 0 /\ sched.inBckgrnd = 0
      /\ sched.slicing = {} /\ sched.completing = {} /\ rmPending = {}
      /\ addDue = None
  BY DEF Init
<1>3. Queued(sched) = {}
  BY <1>2 DEF Queued
<1>4. QueuesOK(sched, job) /\ FinishOK(sched, job)
  BY <1>2 DEF QueuesOK, FinishOK
<1>5. QED
  BY <1>1, <1>2, <1>3, <1>4, FS_EmptySet, SchedulerAssumption
     DEF IInv, TypeOK, Consistent, WorkConserving

\* A handler that leaves background alone keeps the invariant if it leaves
\* the scheduler consistent and no core idle.
LEMMA ForegroundStep ==
  ASSUME IInv, Consistent(sched', job'), Conserving(sched'),
         job' \in [Tasks -> JobType],
         sched'.inBckgrnd = sched.inBckgrnd, UNCHANGED bckgrndVars
  PROVE  IInv'
BY DEF IInv, TypeOK, Consistent, Conserving, WorkConserving, bckgrndVars,
       Queued, Busy

LEMMA ScheduleIInv ==
  ASSUME IInv, NEW t \in Tasks, NEW p \in PriArgs, NEW r \in Reqs, NEW ts \in Slices,
         Schedule(t, p, r, ts)
  PROVE  IInv'
<1>1. job' \in [Tasks -> JobType]
  BY PrioritiesFacts, SchedulerAssumption DEF IInv, TypeOK, Schedule, JobType
<1>2. Consistent(sched, job')
  <2>1. \A u \in Active(sched) : job'[u] = job[u]
    BY DEF Schedule, Active, IInv, TypeOK, SchedType, Queued
  <2>2. QED
    BY <2>1, JobsAgree DEF IInv
<1>3. /\ Consistent(sched', job') /\ Conserving(sched')
      /\ sched'.inBckgrnd = sched.inBckgrnd
  <2>1. t \notin Active(sched) /\ sched' = JoinQueue(sched, job', t)
    BY DEF Schedule
  <2>2. Conserving(sched)
    BY DEF IInv, WorkConserving, Conserving
  <2>3. QED
    BY <1>1, <1>2, <2>1, <2>2, JoinQueueFacts
<1>4. QED
  BY <1>1, <1>3, ForegroundStep DEF Schedule

\* What both halves of timeSliceComplete have after scheduleNxtTask.
LEMMA CalledNext ==
  ASSUME IInv, NEW t \in sched.slicing
  PROVE  LET s == ScheduleNxtTask(LeaveCore(sched, t), job)
         IN  /\ Consistent(s, job) /\ Conserving(s)
             /\ s.inBckgrnd = sched.inBckgrnd
             /\ Active(s) \subseteq Active(sched)
             /\ t \notin sched.completing => t \notin Active(s)
<1> DEFINE l == LeaveCore(sched, t)
           s == ScheduleNxtTask(l, job)
<1>1. Consistent(sched, job) /\ job \in [Tasks -> JobType]
  BY DEF IInv, TypeOK
<1>2. /\ Consistent(l, job) /\ Queued(l) = Queued(sched)
      /\ Busy(l) = Busy(sched) - 1 /\ l.inBckgrnd = sched.inBckgrnd
      /\ Active(l) \subseteq Active(sched)
      /\ t \notin sched.completing => t \notin Active(l)
  BY <1>1, LeaveCoreFacts
<1>3. Queued(l) # {} => Cores <= Busy(l) + 1
  BY <1>1, <1>2 DEF IInv, WorkConserving, Consistent, SchedType, Busy
<1> HIDE DEF l
<1>4. /\ Consistent(s, job) /\ Conserving(s) /\ s.inBckgrnd = l.inBckgrnd
      /\ Active(s) \subseteq Active(l)
  BY <1>1, <1>2, <1>3, ScheduleNxtTaskFacts
<1>5. QED
  BY <1>2, <1>4 DEF l

LEMMA ResumeLaterIInv ==
  ASSUME IInv, NEW t \in Tasks, ResumeLater(t)
  PROVE  IInv'
<1> DEFINE s == ScheduleNxtTask(LeaveCore(sched, t), job)
<1>1. job \in [Tasks -> JobType] /\ t \in sched.slicing /\ t \notin sched.completing
  BY DEF IInv, TypeOK, ResumeLater, Consistent, FinishOK
<1>2. job' = [job EXCEPT ![t].req = job[t].req - job[t].timeslice]
  BY DEF ResumeLater
<1>3. job[t].req - job[t].timeslice \in Nat
  BY <1>1 DEF ResumeLater, Finish, JobType
<1>4. job' \in [Tasks -> JobType]
  BY <1>1, <1>2, <1>3 DEF JobType
<1>5. /\ Consistent(s, job) /\ Conserving(s) /\ s.inBckgrnd = sched.inBckgrnd
      /\ t \notin Active(s)
  BY <1>1, CalledNext
<1>6. sched' = JoinQueue(s, job', t)
  BY DEF ResumeLater
<1> HIDE DEF s
<1>7. Consistent(s, job')
  <2>1. Active(s) \subseteq Tasks
    BY <1>5 DEF Active, Queued, Consistent, SchedType
  <2>2. \A u \in Active(s) : job'[u] = job[u]
    BY <1>1, <1>2, <1>5, <2>1
  <2>3. QED
    BY <1>5, <2>2, JobsAgree
<1>8. /\ Consistent(sched', job') /\ Conserving(sched')
      /\ sched'.inBckgrnd = sched.inBckgrnd
  BY <1>4, <1>5, <1>6, <1>7, JoinQueueFacts
<1>9. QED
  BY <1>4, <1>8, ForegroundStep DEF ResumeLater

LEMMA LastSliceIInv ==
  ASSUME IInv, NEW t \in Tasks, LastSliceComplete(t)
  PROVE  IInv'
<1>1. job \in [Tasks -> JobType] /\ t \in sched.slicing
  BY DEF IInv, TypeOK, LastSliceComplete
<1>2. /\ Consistent(sched', job) /\ Conserving(sched')
      /\ sched'.inBckgrnd = sched.inBckgrnd
      /\ t \notin sched.completing => t \notin Active(sched')
  BY <1>1, CalledNext DEF LastSliceComplete
<1>3. NoJob \in JobType
  BY PrioritiesFacts DEF NoJob, JobType
<1>4. job' \in [Tasks -> JobType] /\ \A u \in Tasks \ {t} : job'[u] = job[u]
  BY <1>1, <1>3 DEF LastSliceComplete
<1>5. t \in sched.completing => job' = job
  BY DEF LastSliceComplete
<1>6. Active(sched') \subseteq Tasks
  BY <1>2 DEF Active, Queued, Consistent, SchedType
<1>7. \A u \in Active(sched') : job'[u] = job[u]
  BY <1>2, <1>4, <1>5, <1>6
<1>8. Consistent(sched', job')
  BY <1>2, <1>7, JobsAgree
<1>9. QED
  BY <1>2, <1>4, <1>8, ForegroundStep DEF LastSliceComplete

LEMMA CompleteFuncIInv ==
  ASSUME IInv, NEW t \in Tasks, CompleteFunc(t)
  PROVE  IInv'
<1>1. job \in [Tasks -> JobType] /\ sched \in SchedType /\ t \in sched.completing
  BY DEF IInv, TypeOK, CompleteFunc
<1>2. /\ sched' \in SchedType
      /\ sched'.waiting = sched.waiting /\ sched'.numWaiting = sched.numWaiting
      /\ sched'.inservice = sched.inservice /\ sched'.inBckgrnd = sched.inBckgrnd
      /\ sched'.slicing = sched.slicing /\ sched'.completing = sched.completing \ {t}
  <2>1. sched' = [sched EXCEPT !.completing = sched.completing \ {t}]
    BY DEF CompleteFunc
  <2>2. QED
    BY <1>1, <2>1 DEF SchedType
<1>3. Queued(sched') = Queued(sched) /\ Busy(sched') = Busy(sched)
  BY <1>2 DEF Queued, Busy
<1>4. Consistent(sched', job)
  BY <1>2, <1>3 DEF IInv, Consistent, QueuesOK, FinishOK
<1>5. NoJob \in JobType
  BY PrioritiesFacts DEF NoJob, JobType
<1>6. /\ job' \in [Tasks -> JobType]
      /\ \A u \in Tasks \ {t} : job'[u] = job[u]
      /\ t \in sched.slicing => job' = job
  BY <1>1, <1>5 DEF CompleteFunc
<1>7. t \notin Queued(sched)
  BY <1>1 DEF IInv, Consistent, QueuesOK, Queued
<1>8. Active(sched') \subseteq Tasks /\ (t \in Active(sched') => t \in sched.slicing)
  BY <1>2, <1>3, <1>7 DEF Active, Queued, SchedType
<1>9. Consistent(sched', job')
  BY <1>4, <1>6, <1>8, JobsAgree
<1>10. Conserving(sched')
  BY <1>3 DEF IInv, WorkConserving, Conserving
<1>11. QED
  BY <1>2, <1>6, <1>9, <1>10, ForegroundStep DEF CompleteFunc

LEMMA BurstsFinite ==
  ASSUME NEW B \in SUBSET Bursts
  PROVE  IsFiniteSet(B) /\ Cardinality(B) \in Nat
BY SchedulerAssumption, FS_Subset, FS_CardinalityType

LEMMA InitializeIInv ==
  ASSUME IInv, InitializeBckgrndEndpt
  PROVE  IInv'
<1> DEFINE k == sched.inBckgrnd + InitBusy
<1>1. sched.inBckgrnd = 0
  BY FS_EmptySet DEF IInv, InitializeBckgrndEndpt
<1>2. k \in Nat /\ k = InitBusy
  BY <1>1, SchedulerAssumption
<1>3. sched' = [sched EXCEPT !.inBckgrnd = k] /\ job' = job
  BY DEF InitializeBckgrndEndpt
<1> HIDE DEF k
<1>4. /\ Consistent(sched', job) /\ Queued(sched') = Queued(sched)
      /\ Busy(sched') = sched.inservice + k /\ sched'.inBckgrnd = k
  BY <1>2, <1>3, BckgrndFacts DEF IInv
<1>5. PICK B \in SUBSET Bursts :
         /\ Cardinality(B) = InitBusy /\ rmPending' = B
         /\ \E d \in [B -> BurstLens] :
              rmDue' = [b \in Bursts |-> IF b \in B THEN d[b] ELSE 0]
  BY DEF InitializeBckgrndEndpt
<1>6. rmDue' \in [Bursts -> Nat]
  <2>1. PICK d \in [B -> BurstLens] :
               rmDue' = [b \in Bursts |-> IF b \in B THEN d[b] ELSE 0]
    BY <1>5
  <2>2. \A b \in B : d[b] \in Nat
    BY SchedulerAssumption
  <2>3. QED
    BY <2>1, <2>2
<1>7. TypeOK'
  BY <1>3, <1>4, <1>5, <1>6, SchedulerAssumption
     DEF IInv, TypeOK, Consistent, InitializeBckgrndEndpt
<1>8. WorkConserving'
  BY <1>1, <1>2, <1>4, SchedulerAssumption
     DEF IInv, WorkConserving, Busy, Consistent, SchedType
<1>9. QED
  BY <1>2, <1>3, <1>4, <1>5, <1>7, <1>8 DEF IInv, InitializeBckgrndEndpt

LEMMA AddBckgrndIInv ==
  ASSUME IInv, AddBckgrnd
  PROVE  IInv'
<1>1. job' = job /\ bckgrndOn' = bckgrndOn /\ bckgrndOn /\ addDue' \in Nat
  BY SchedulerAssumption DEF AddBckgrnd
<1>2. CASE UNCHANGED <<sched, rmPending, rmDue>>
  <2>1. TypeOK'
    BY <1>1, <1>2 DEF IInv, TypeOK
  <2>2. QED
    BY <1>1, <1>2, <2>1 DEF IInv, WorkConserving
<1>3. CASE /\ Busy(sched) < Cores
           /\ \E b \in Bursts \ rmPending, d \in BurstLens :
                /\ rmPending' = rmPending \cup {b}
                /\ rmDue' = [rmDue EXCEPT ![b] = d]
           /\ sched' = [sched EXCEPT !.inBckgrnd = @ + 1]
  <2> DEFINE k == sched.inBckgrnd + 1
  <2>1. k \in Nat /\ sched' = [sched EXCEPT !.inBckgrnd = k]
    BY <1>3 DEF IInv, Consistent
  <2> HIDE DEF k
  <2>2. /\ Consistent(sched', job) /\ Queued(sched') = Queued(sched)
        /\ sched'.inBckgrnd = k
    BY <2>1, BckgrndFacts DEF IInv
  <2>3. PICK b \in Bursts \ rmPending, d \in BurstLens :
               /\ rmPending' = rmPending \cup {b}
               /\ rmDue' = [rmDue EXCEPT ![b] = d]
    BY <1>3
  <2>4. Cardinality(rmPending') = Cardinality(rmPending) + 1
    <3>1. IsFiniteSet(rmPending)
      BY BurstsFinite DEF IInv, TypeOK
    <3>2. QED
      BY <2>3, <3>1, FS_AddElement
  <2>5. rmDue' \in [Bursts -> Nat] /\ rmPending' \in SUBSET Bursts
    BY <2>3, SchedulerAssumption DEF IInv, TypeOK
  <2>6. TypeOK'
    BY <1>1, <2>2, <2>5 DEF IInv, TypeOK, Consistent
  <2>7. Queued(sched) = {}
    BY <1>3, SchedulerAssumption DEF IInv, WorkConserving, Busy, Consistent, SchedType
  <2>8. sched'.inBckgrnd = Cardinality(rmPending')
    BY <2>2, <2>4 DEF IInv, k
  <2>9. QED
    BY <1>1, <2>2, <2>6, <2>7, <2>8 DEF IInv, WorkConserving
<1>4. QED
  BY <1>2, <1>3 DEF AddBckgrnd

LEMMA RmBckgrndIInv ==
  ASSUME IInv, NEW b \in Bursts, RmBckgrnd(b)
  PROVE  IInv'
<1> DEFINE k == sched.inBckgrnd - 1
           s == [sched EXCEPT !.inBckgrnd = k]
<1>1. /\ bckgrndOn /\ b \in rmPending /\ rmPending' = rmPending \ {b}
      /\ UNCHANGED <<job, bckgrndOn, rmDue, addDue>>
  BY DEF RmBckgrnd
<1>2. /\ IsFiniteSet(rmPending) /\ Cardinality(rmPending) \in Nat
      /\ rmPending # {}
  BY <1>1, BurstsFinite DEF IInv, TypeOK
<1>3. Cardinality(rmPending) # 0 /\ Cardinality(rmPending') = Cardinality(rmPending) - 1
  BY <1>1, <1>2, FS_EmptySet, FS_RemoveElement
<1>4. k \in Nat /\ EndBurst(sched) = s
  BY <1>2, <1>3 DEF IInv, EndBurst
<1>5. sched' = ScheduleNxtTask(s, job)
  BY <1>4 DEF RmBckgrnd
<1>6. /\ Consistent(s, job) /\ Queued(s) = Queued(sched)
      /\ Busy(s) = sched.inservice + k /\ s.inBckgrnd = k
  <2> HIDE DEF k
  <2>1. QED
    BY <1>4, BckgrndFacts DEF IInv
<1>7. Queued(s) # {} => Cores <= Busy(s) + 1
  <2>1. Busy(sched) = sched.inservice + sched.inBckgrnd /\ sched.inservice \in Int
        /\ sched.inBckgrnd \in Nat
    BY DEF IInv, Busy, Consistent, SchedType
  <2>2. Queued(sched) # {} => Cores <= Busy(sched)
    BY DEF IInv, WorkConserving
  <2> HIDE DEF s
  <2>3. QED
    BY <1>6, <2>1, <2>2, SchedulerAssumption
<1>8. job \in [Tasks -> JobType]
  BY DEF IInv, TypeOK
<1> HIDE DEF s
<1>9. /\ Consistent(sched', job) /\ Conserving(sched')
      /\ sched'.inBckgrnd = s.inBckgrnd
  BY <1>5, <1>6, <1>7, <1>8, ScheduleNxtTaskFacts
<1>10. TypeOK'
  BY <1>1, <1>9 DEF IInv, TypeOK, Consistent
<1>11. QED
  BY <1>1, <1>3, <1>6, <1>9, <1>10 DEF IInv, WorkConserving, Conserving

LEMMA TickIInv ==
  ASSUME IInv, Tick
  PROVE  IInv'
<1>1. /\ sched \in SchedType /\ job \in [Tasks -> JobType]
      /\ rmDue \in [Bursts -> Nat] /\ addDue \in Nat \cup {None}
  BY DEF IInv, TypeOK
<1> DEFINE d == [t \in Tasks |-> IF t \in sched.slicing \cup sched.completing
                                THEN sched.due[t] - 1 ELSE sched.due[t]]
<1>2. d \in [Tasks -> Nat]
  BY <1>1 DEF Tick, NothingDue, SchedType
<1>3. sched' = [sched EXCEPT !.due = d]
  BY DEF Tick
<1> HIDE DEF d
<1>4. /\ sched' \in SchedType
      /\ sched'.waiting = sched.waiting /\ sched'.numWaiting = sched.numWaiting
      /\ sched'.inservice = sched.inservice /\ sched'.inBckgrnd = sched.inBckgrnd
      /\ sched'.slicing = sched.slicing /\ sched'.completing = sched.completing
  BY <1>1, <1>2, <1>3 DEF SchedType
<1>5. Queued(sched') = Queued(sched) /\ Busy(sched') = Busy(sched)
  BY <1>4 DEF Queued, Busy
<1>6. /\ job' \in [Tasks -> JobType]
      /\ \A u \in Tasks : /\ job'[u].pri = job[u].pri
                          /\ job'[u].req = job[u].req
                          /\ job'[u].timeslice = job[u].timeslice
  BY <1>1 DEF Tick, JobType
<1>7. Consistent(sched', job)
  BY <1>4, <1>5 DEF IInv, Consistent, QueuesOK, FinishOK
<1>8. Active(sched') \subseteq Tasks
  BY <1>4 DEF Active, Queued, SchedType
<1>9. Consistent(sched', job')
  BY <1>6, <1>7, <1>8, JobsAgree
<1>10. rmDue' \in [Bursts -> Nat] /\ addDue' \in Nat \cup {None}
  BY <1>1 DEF Tick, NothingDue, None
<1>11. rmPending' = rmPending /\ bckgrndOn' = bckgrndOn
  BY DEF Tick
<1>12. TypeOK'
  BY <1>4, <1>6, <1>10, <1>11 DEF IInv, TypeOK
<1>13. QED
  BY <1>4, <1>5, <1>9, <1>11, <1>12 DEF IInv, WorkConserving, Tick

LEMMA StepIInv == IInv /\ [Next]_vars => IInv'
<1> SUFFICES ASSUME IInv, [Next]_vars PROVE IInv'
  OBVIOUS
<1>1. ASSUME NEW t \in Tasks, NEW p \in PriArgs, NEW r \in Reqs, NEW ts \in Slices,
             Schedule(t, p, r, ts)
      PROVE  IInv'
  BY <1>1, ScheduleIInv
<1>2. ASSUME NEW t \in Tasks, TimeSliceComplete(t) PROVE IInv'
  BY <1>2, ResumeLaterIInv, LastSliceIInv DEF TimeSliceComplete
<1>3. ASSUME NEW t \in Tasks, CompleteFunc(t) PROVE IInv'
  BY <1>3, CompleteFuncIInv
<1>4. CASE InitializeBckgrndEndpt
  BY <1>4, InitializeIInv
<1>5. CASE AddBckgrnd
  BY <1>5, AddBckgrndIInv
<1>6. ASSUME NEW b \in Bursts, RmBckgrnd(b) PROVE IInv'
  BY <1>6, RmBckgrndIInv
<1>7. CASE Tick
  BY <1>7, TickIInv
<1>8. CASE UNCHANGED vars
  BY <1>8 DEF vars, IInv, TypeOK, Consistent, WorkConserving, QueuesOK,
              FinishOK, Finish, Queued, Busy
<1>9. QED
  BY <1>1, <1>2, <1>3, <1>4, <1>5, <1>6, <1>7, <1>8 DEF Next, Arrival, EventStep

----------------------------------------------------------------------------
(* The theorems.                                                           *)

\* IInv holds in every reachable state.
THEOREM Invariance == Spec => []IInv
BY InitIInv, StepIInv, PTL DEF Spec

\* Every field of the scheduler stays in its type: no counter, delay or
\* remaining requirement ever goes below zero.
THEOREM TypeCorrect == Spec => []TypeOK
<1>1. IInv => TypeOK
  BY DEF IInv
<1>2. QED
  BY <1>1, Invariance, PTL

\* inservice and inBckgrnd are the numbers of cores held, and tasks never
\* hold more cores than there are.
THEOREM CoresAccounted == Spec => []CoreAccounting
<1>1. IInv => CoreAccounting
  BY DEF IInv, Consistent, CoreAccounting
<1>2. QED
  BY <1>1, Invariance, PTL

\* numWaiting counts the waiting tasks, each waiting once, at its own level,
\* and holding no core.
THEOREM QueuesAccounted == Spec => []QueueAccounting
<1>1. IInv => QueueAccounting
  BY DEF IInv, Consistent, QueuesOK, QueueAccounting
<1>2. QED
  BY <1>1, Invariance, PTL

\* No core is idle while a task waits, whatever background does.
THEOREM NoIdleCore == Spec => []WorkConserving
<1>1. IInv => WorkConserving
  BY DEF IInv
<1>2. QED
  BY <1>1, Invariance, PTL

----------------------------------------------------------------------------
(* What a task has been served.                                            *)

\* A task that waits, or is about to: nothing is lost of what it asked for, and
\* something is left if it has been served.
Owed(j) == j.served + j.req = j.asked /\ (j.served > 0 => j.req > 0)

\* ServiceAccounted in the middle of a handler.
ServiceOK(s, jb) ==
  /\ \A t \in Queued(s) : Owed(jb[t])
  /\ \A t \in s.slicing :
       jb[t].served + s.due[t]
         + (IF Finish(jb, t) THEN 0 ELSE jb[t].req - jb[t].timeslice) = jb[t].asked
  /\ \A t \in s.completing \ s.slicing : jb[t].served = jb[t].asked

\* Whether it waits or enters, a task that joins keeps what it is owed.
LEMMA JoinService ==
  ASSUME NEW s, NEW jb \in [Tasks -> JobType], Consistent(s, jb), ServiceOK(s, jb),
         NEW t \in Tasks, t \notin Active(s), Owed(jb[t])
  PROVE  ServiceOK(JoinQueue(s, jb, t), jb)
<1> DEFINE r == JoinQueue(s, jb, t)
<1>1. t \notin s.slicing /\ t \notin s.completing
  BY DEF Active
<1>2. CASE Cores <= Busy(s)
  <2>1. /\ Queued(r) = Queued(s) \cup {t}
        /\ r.slicing = s.slicing /\ r.completing = s.completing /\ r.due = s.due
    BY <1>2, JoinWaits
  <2> HIDE DEF r
  <2>2. QED
    BY <2>1 DEF ServiceOK, r
<1>3. CASE ~ (Cores <= Busy(s))
  <2>1. /\ Queued(r) = Queued(s) /\ r.slicing = s.slicing \cup {t}
        /\ r.completing = s.completing \/ r.completing = s.completing \cup {t}
        /\ \A u \in Tasks : u # t => r.due[u] = s.due[u]
        /\ Finish(jb, t) => r.due[t] = jb[t].req
        /\ ~ Finish(jb, t) => r.due[t] = jb[t].timeslice
    BY <1>3, JoinEnters
  <2>2. /\ jb[t].served \in Nat /\ jb[t].req \in Nat /\ jb[t].timeslice \in Nat
        /\ s.slicing \subseteq Tasks
    BY DEF JobType, Consistent, SchedType
  <2> HIDE DEF r
  <2>3. \A u \in r.slicing :
          jb[u].served + r.due[u]
            + (IF Finish(jb, u) THEN 0 ELSE jb[u].req - jb[u].timeslice) = jb[u].asked
    <3>1. ASSUME NEW u \in s.slicing
          PROVE  jb[u].served + r.due[u]
                   + (IF Finish(jb, u) THEN 0 ELSE jb[u].req - jb[u].timeslice) = jb[u].asked
      <4>1. r.due[u] = s.due[u]
        BY <1>1, <2>1, <2>2
      <4>2. QED
        BY <4>1 DEF ServiceOK
    <3>2. jb[t].served + r.due[t]
            + (IF Finish(jb, t) THEN 0 ELSE jb[t].req - jb[t].timeslice) = jb[t].asked
      BY <2>1, <2>2 DEF Owed
    <3>3. QED
      BY <2>1, <3>1, <3>2
  <2>4. /\ \A u \in Queued(r) : Owed(jb[u])
        /\ \A u \in r.completing \ r.slicing : jb[u].served = jb[u].asked
    BY <2>1 DEF ServiceOK
  <2>5. QED
    BY <2>3, <2>4 DEF ServiceOK, r
<1>4. QED
  BY <1>2, <1>3

LEMMA NextService ==
  ASSUME NEW s, NEW jb \in [Tasks -> JobType], Consistent(s, jb), ServiceOK(s, jb)
  PROVE  ServiceOK(ScheduleNxtTask(s, jb), jb)
<1> DEFINE h == Head(s.waiting[TopLevel(s)])
           q == PopTask(s, TopLevel(s))
<1>1. CASE Levels(s) = {}
  BY <1>1 DEF ScheduleNxtTask
<1>2. CASE Levels(s) # {}
  <2>1. ScheduleNxtTask(s, jb) = JoinQueue(q, jb, h)
    BY <1>2 DEF ScheduleNxtTask
  <2>2. /\ Consistent(q, jb) /\ h \in Tasks /\ h \in Queued(s) /\ h \notin Active(q)
        /\ Queued(q) = Queued(s) \ {h}
        /\ q.slicing = s.slicing /\ q.completing = s.completing /\ q.due = s.due
    BY <1>2, PopTaskFacts
  <2> HIDE DEF h, q
  <2>3. ServiceOK(q, jb) /\ Owed(jb[h])
    BY <2>2 DEF ServiceOK
  <2>4. QED
    BY <2>1, <2>2, <2>3, JoinService
<1>3. QED
  BY <1>1, <1>2

\* Only the Task structs of active tasks matter.
LEMMA ServiceAgrees ==
  ASSUME NEW s, NEW jb, NEW jc, ServiceOK(s, jb), \A u \in Active(s) : jc[u] = jb[u]
  PROVE  ServiceOK(s, jc)
<1>1. Queued(s) \subseteq Active(s) /\ s.slicing \subseteq Active(s) /\ s.completing \subseteq Active(s)
  BY DEF Active
<1>2. QED
  BY <1>1 DEF ServiceOK, Finish

\* A slice that is over has been served in full.
LEMMA LeaveService ==
  ASSUME NEW s, NEW jb \in [Tasks -> JobType], Consistent(s, jb), ServiceOK(s, jb),
         NEW t \in s.slicing, s.due[t] = 0
  PROVE  /\ ServiceOK(LeaveCore(s, t), jb)
         /\ ~ Finish(jb, t) => /\ jb[t].served + (jb[t].req - jb[t].timeslice) = jb[t].asked
                              /\ jb[t].req - jb[t].timeslice > 0
         /\ Finish(jb, t) => jb[t].served = jb[t].asked
<1> DEFINE r == LeaveCore(s, t)
<1>1. /\ Queued(r) = Queued(s) /\ r.due = s.due
      /\ r.completing = s.completing /\ r.slicing = s.slicing \ {t}
  BY LeaveCoreFacts
<1>2. /\ jb[t].served \in Nat /\ jb[t].req \in Nat /\ jb[t].timeslice \in Nat
      /\ t \in Tasks
  BY DEF JobType, Consistent, SchedType
<1> HIDE DEF r
<1>3. jb[t].served + 0
        + (IF Finish(jb, t) THEN 0 ELSE jb[t].req - jb[t].timeslice) = jb[t].asked
  BY DEF ServiceOK
<1>4. /\ ~ Finish(jb, t) => /\ jb[t].served + (jb[t].req - jb[t].timeslice) = jb[t].asked
                           /\ jb[t].req - jb[t].timeslice > 0
      /\ Finish(jb, t) => jb[t].served = jb[t].asked
  BY <1>2, <1>3 DEF Finish
<1>5. t \in s.completing => Finish(jb, t)
  BY DEF Consistent, FinishOK
<1>6. ServiceOK(r, jb)
  BY <1>1, <1>4, <1>5 DEF ServiceOK
<1>7. QED
  BY <1>4, <1>6 DEF r

\* What both halves of timeSliceComplete have after scheduleNxtTask.
LEMMA CalledNextService ==
  ASSUME IInv, ServiceOK(sched, job), NEW t \in sched.slicing, sched.due[t] = 0
  PROVE  ServiceOK(ScheduleNxtTask(LeaveCore(sched, t), job), job)
<1>1. Consistent(sched, job) /\ job \in [Tasks -> JobType]
  BY DEF IInv, TypeOK
<1>2. Consistent(LeaveCore(sched, t), job)
  BY <1>1, LeaveCoreFacts
<1>3. ServiceOK(LeaveCore(sched, t), job)
  BY <1>1, LeaveService
<1>4. QED
  BY <1>1, <1>2, <1>3, NextService

LEMMA ScheduleService ==
  ASSUME IInv, ServiceOK(sched, job), NEW t \in Tasks, NEW p \in PriArgs, NEW r \in Reqs,
         NEW ts \in Slices, Schedule(t, p, r, ts)
  PROVE  ServiceOK(sched', job')
<1>1. job' \in [Tasks -> JobType]
  BY PrioritiesFacts, SchedulerAssumption DEF IInv, TypeOK, Schedule, JobType
<1>2. \A u \in Active(sched) : job'[u] = job[u]
  BY DEF Schedule, Active, IInv, TypeOK, SchedType, Queued
<1>3. Consistent(sched, job')
  BY <1>2, JobsAgree DEF IInv
<1>4. ServiceOK(sched, job')
  BY <1>2, ServiceAgrees
<1>5. Owed(job'[t])
  <2>1. job'[t].served = 0 /\ job'[t].req = r /\ job'[t].asked = r /\ r \in Nat
    BY SchedulerAssumption DEF Schedule, IInv, TypeOK
  <2>2. QED
    BY <2>1 DEF Owed
<1>6. t \notin Active(sched) /\ sched' = JoinQueue(sched, job', t)
  BY DEF Schedule
<1>7. QED
  BY <1>1, <1>3, <1>4, <1>5, <1>6, JoinService

LEMMA ResumeLaterService ==
  ASSUME IInv, ServiceOK(sched, job), NEW t \in Tasks, ResumeLater(t)
  PROVE  ServiceOK(sched', job')
<1> DEFINE s == ScheduleNxtTask(LeaveCore(sched, t), job)
<1>1. /\ job \in [Tasks -> JobType] /\ Consistent(sched, job)
      /\ t \in sched.slicing /\ t \notin sched.completing
      /\ sched.due[t] = 0 /\ ~ Finish(job, t)
  BY DEF IInv, TypeOK, ResumeLater, Consistent, FinishOK
<1>2. /\ job' = [job EXCEPT ![t].req = job[t].req - job[t].timeslice]
      /\ sched' = JoinQueue(s, job', t)
  BY DEF ResumeLater
<1>3. job[t].req - job[t].timeslice \in Nat
  BY <1>1 DEF Finish, JobType
<1>4. job' \in [Tasks -> JobType]
  BY <1>1, <1>2, <1>3 DEF JobType
<1>5. Consistent(s, job) /\ t \notin Active(s)
  BY <1>1, CalledNext
<1>6. ServiceOK(s, job)
  BY <1>1, CalledNextService
<1>7. /\ job[t].served + (job[t].req - job[t].timeslice) = job[t].asked
      /\ job[t].req - job[t].timeslice > 0
  BY <1>1, LeaveService
<1> HIDE DEF s
<1>8. \A u \in Active(s) : job'[u] = job[u]
  <2>1. Active(s) \subseteq Tasks
    BY <1>5 DEF Active, Queued, Consistent, SchedType
  <2>2. QED
    BY <1>1, <1>2, <1>5, <2>1
<1>9. Consistent(s, job') /\ ServiceOK(s, job')
  BY <1>5, <1>6, <1>8, JobsAgree, ServiceAgrees
<1>10. Owed(job'[t])
  <2>1. /\ job'[t].served = job[t].served /\ job'[t].asked = job[t].asked
        /\ job'[t].req = job[t].req - job[t].timeslice
    BY <1>1, <1>2 DEF JobType
  <2>2. QED
    BY <1>7, <2>1 DEF Owed
<1>11. QED
  BY <1>2, <1>4, <1>5, <1>9, <1>10, JoinService

LEMMA LastSliceService ==
  ASSUME IInv, ServiceOK(sched, job), NEW t \in Tasks, LastSliceComplete(t)
  PROVE  ServiceOK(sched', job')
<1>1. /\ job \in [Tasks -> JobType] /\ t \in sched.slicing /\ sched.due[t] = 0
      /\ sched' = ScheduleNxtTask(LeaveCore(sched, t), job)
  BY DEF IInv, TypeOK, LastSliceComplete
<1>2. ServiceOK(sched', job)
  BY <1>1, CalledNextService
<1>3. t \notin sched.completing => t \notin Active(sched')
  BY <1>1, CalledNext
<1>4. Active(sched') \subseteq Tasks
  <2>1. Consistent(sched', job)
    BY <1>1, CalledNext
  <2>2. QED
    BY <2>1 DEF Active, Queued, Consistent, SchedType
<1>5. \A u \in Active(sched') : job'[u] = job[u]
  BY <1>1, <1>3, <1>4 DEF LastSliceComplete
<1>6. QED
  BY <1>2, <1>5, ServiceAgrees

LEMMA CompleteFuncService ==
  ASSUME IInv, ServiceOK(sched, job), NEW t \in Tasks, CompleteFunc(t)
  PROVE  ServiceOK(sched', job')
<1>1. job \in [Tasks -> JobType] /\ sched \in SchedType /\ t \in sched.completing
  BY DEF IInv, TypeOK, CompleteFunc
<1>2. /\ sched'.waiting = sched.waiting /\ sched'.slicing = sched.slicing
      /\ sched'.completing = sched.completing \ {t} /\ sched'.due = sched.due
  BY <1>1 DEF CompleteFunc, SchedType
<1>3. Queued(sched') = Queued(sched)
  BY <1>2 DEF Queued
<1>4. ServiceOK(sched', job)
  BY <1>2, <1>3 DEF ServiceOK
<1>5. t \notin Queued(sched)
  BY <1>1 DEF IInv, Consistent, QueuesOK, Queued
<1>6. \A u \in Active(sched') : job'[u] = job[u]
  <2>1. Active(sched') \subseteq Tasks /\ (t \in Active(sched') => t \in sched.slicing)
    BY <1>1, <1>2, <1>3, <1>5 DEF Active, Queued, SchedType
  <2>2. QED
    BY <1>1, <2>1 DEF CompleteFunc
<1>7. QED
  BY <1>4, <1>6, ServiceAgrees

\* Background only moves the count of its cores, which no task looks at.
LEMMA BckgrndService ==
  ASSUME NEW s, NEW jb, Consistent(s, jb), ServiceOK(s, jb), NEW k \in Nat
  PROVE  ServiceOK([s EXCEPT !.inBckgrnd = k], jb)
<1> DEFINE r == [s EXCEPT !.inBckgrnd = k]
<1>1. /\ r.waiting = s.waiting /\ r.slicing = s.slicing
      /\ r.completing = s.completing /\ r.due = s.due
  BY DEF Consistent, SchedType
<1> HIDE DEF r
<1>2. Queued(r) = Queued(s)
  BY <1>1 DEF Queued
<1>3. ServiceOK(r, jb)
  BY <1>1, <1>2 DEF ServiceOK
<1>4. QED
  BY <1>3 DEF r

\* After a burst, the core goes to the next task.
LEMMA BurstEnds ==
  ASSUME IInv, NEW b \in Bursts, RmBckgrnd(b)
  PROVE  LET s == [sched EXCEPT !.inBckgrnd = sched.inBckgrnd - 1]
         IN  /\ sched.inBckgrnd - 1 \in Nat
             /\ Consistent(s, job) /\ Queued(s) = Queued(sched)
             /\ Busy(s) = Busy(sched) - 1
             /\ sched' = ScheduleNxtTask(s, job) /\ job' = job
<1> DEFINE k == sched.inBckgrnd - 1
           s == [sched EXCEPT !.inBckgrnd = k]
<1>1. b \in rmPending /\ job' = job
  BY DEF RmBckgrnd
<1>2. IsFiniteSet(rmPending) /\ Cardinality(rmPending) \in Nat /\ Cardinality(rmPending) # 0
  BY <1>1, BurstsFinite, FS_EmptySet DEF IInv, TypeOK
<1>3. k \in Nat /\ sched.inBckgrnd > 0
  BY <1>2 DEF IInv
<1>4. EndBurst(sched) = s
  BY <1>3 DEF EndBurst
<1>5. sched' = ScheduleNxtTask(s, job)
  BY <1>4 DEF RmBckgrnd
<1>6. Consistent(s, job) /\ Queued(s) = Queued(sched) /\ Busy(s) = sched.inservice + k
  <2> HIDE DEF k
  <2>1. QED
    BY <1>3, BckgrndFacts DEF IInv
<1>7. Busy(s) = Busy(sched) - 1
  <2>1. sched.inservice \in Int /\ sched.inBckgrnd \in Int
    BY DEF IInv, Consistent, SchedType
  <2> HIDE DEF s
  <2>2. QED
    BY <1>6, <2>1 DEF Busy
<1>8. QED
  BY <1>1, <1>3, <1>5, <1>6, <1>7

LEMMA TickService ==
  ASSUME IInv, ServiceOK(sched, job), Tick
  PROVE  ServiceOK(sched', job')
<1>1. sched \in SchedType /\ job \in [Tasks -> JobType]
  BY DEF IInv, TypeOK
<1>2. /\ sched'.waiting = sched.waiting /\ sched'.slicing = sched.slicing
      /\ sched'.completing = sched.completing
      /\ \A t \in Tasks : t \in sched.slicing => sched'.due[t] = sched.due[t] - 1
  BY <1>1 DEF Tick, SchedType
<1>3. Queued(sched') = Queued(sched) /\ sched.slicing \subseteq Tasks
      /\ Queued(sched) \subseteq Tasks /\ sched.completing \subseteq Tasks
  BY <1>1, <1>2 DEF Queued, SchedType
<1>4. \A t \in Tasks \ sched.slicing : job'[t] = job[t]
  BY DEF Tick
<1>5. ASSUME NEW t \in sched.slicing
      PROVE  /\ job'[t].served = job[t].served + 1 /\ job'[t].req = job[t].req
             /\ job'[t].timeslice = job[t].timeslice /\ job'[t].asked = job[t].asked
             /\ job[t].served \in Nat /\ job[t].req \in Nat /\ job[t].timeslice \in Nat
             /\ sched.due[t] \in Nat
  BY <1>1, <1>3 DEF Tick, JobType, SchedType
<1>6. ASSUME NEW t \in sched.slicing
      PROVE  job'[t].served + sched'.due[t]
               + (IF Finish(job', t) THEN 0 ELSE job'[t].req - job'[t].timeslice) = job'[t].asked
  <2>1. job[t].served + sched.due[t]
          + (IF Finish(job, t) THEN 0 ELSE job[t].req - job[t].timeslice) = job[t].asked
    BY DEF ServiceOK
  <2>2. sched'.due[t] = sched.due[t] - 1
    BY <1>2, <1>3
  <2>3. Finish(job', t) <=> Finish(job, t)
    BY <1>5 DEF Finish
  <2>4. QED
    BY <1>5, <2>1, <2>2, <2>3
<1>7. \A t \in Queued(sched) : t \notin sched.slicing
  BY DEF IInv, Consistent, QueuesOK, Queued
<1>8. /\ \A t \in Queued(sched) : Owed(job'[t])
      /\ \A t \in sched.completing \ sched.slicing : job'[t].served = job'[t].asked
  BY <1>3, <1>4, <1>7 DEF ServiceOK
<1>9. QED
  BY <1>2, <1>3, <1>6, <1>8 DEF ServiceOK

LEMMA StepService ==
  ASSUME IInv, ServiceOK(sched, job), [Next]_vars
  PROVE  ServiceOK(sched', job')
<1>1. Consistent(sched, job) /\ job \in [Tasks -> JobType]
  BY DEF IInv, TypeOK
<1>2. ASSUME NEW t \in Tasks, TimeSliceComplete(t)
      PROVE  ServiceOK(sched', job')
  BY <1>2, ResumeLaterService, LastSliceService DEF TimeSliceComplete
<1>3. CASE InitializeBckgrndEndpt \/ AddBckgrnd
  <2>1. job' = job /\ (sched' = sched \/ \E k \in Nat : sched' = [sched EXCEPT !.inBckgrnd = k])
    <3>1. sched.inBckgrnd + InitBusy \in Nat /\ sched.inBckgrnd + 1 \in Nat
      BY <1>1, SchedulerAssumption DEF Consistent
    <3>2. QED
      BY <1>3, <3>1 DEF InitializeBckgrndEndpt, AddBckgrnd
  <2>2. QED
    BY <1>1, <2>1, BckgrndService
<1>4. ASSUME NEW b \in Bursts, RmBckgrnd(b)
      PROVE  ServiceOK(sched', job')
  <2> DEFINE s == [sched EXCEPT !.inBckgrnd = sched.inBckgrnd - 1]
  <2>1. /\ sched.inBckgrnd - 1 \in Nat /\ Consistent(s, job)
        /\ sched' = ScheduleNxtTask(s, job) /\ job' = job
    BY <1>4, BurstEnds
  <2>2. ServiceOK(s, job)
    BY <1>1, <2>1, BckgrndService
  <2> HIDE DEF s
  <2>3. QED
    BY <1>1, <2>1, <2>2, NextService
<1>5. CASE UNCHANGED vars
  BY <1>5 DEF vars
<1>6. QED
  BY <1>2, <1>3, <1>4, <1>5, ScheduleService, CompleteFuncService, TickService
     DEF Next, Arrival, EventStep

\* The slices given to a task add up to what it asked for, however it was moved
\* between its level and the cores.
THEOREM ServedInFull == Spec => []ServiceAccounted
<1>1. Init => ServiceOK(sched, job)
  <2> SUFFICES ASSUME Init PROVE ServiceOK(sched, job)
    OBVIOUS
  <2>1. sched.waiting = [p \in Priorities |-> << >>] /\ sched.slicing = {} /\ sched.completing = {}
    BY DEF Init
  <2>2. Queued(sched) = {}
    BY <2>1 DEF Queued
  <2>3. QED
    BY <2>1, <2>2 DEF ServiceOK
<1>2. ServiceOK(sched, job) /\ IInv /\ [Next]_vars => ServiceOK(sched, job)'
  BY StepService
<1>3. ServiceOK(sched, job) => ServiceAccounted
  BY DEF ServiceOK, ServiceAccounted, Owed
<1>4. QED
  BY <1>1, <1>2, <1>3, Invariance, PTL DEF Spec

----------------------------------------------------------------------------
(* Which task moves.                                                       *)

\* joinQueue: to the back of its level, or to a core.
JoinMoves(s, r, jb, t) ==
  \/ /\ r.waiting = [s.waiting EXCEPT ![jb[t].pri] = Append(s.waiting[jb[t].pri], t)]
     /\ r.slicing = s.slicing
  \/ /\ r.waiting = s.waiting
     /\ r.slicing = s.slicing \cup {t}

LEMMA JoinQueueMoves ==
  ASSUME NEW s, NEW jb \in [Tasks -> JobType], Consistent(s, jb), NEW t \in Tasks
  PROVE  /\ JoinMoves(s, JoinQueue(s, jb, t), jb, t)
         /\ Busy(s) < Cores => /\ JoinQueue(s, jb, t).waiting = s.waiting
                               /\ t \in JoinQueue(s, jb, t).slicing
<1>1. s \in SchedType
  BY DEF Consistent
<1>2. CASE Cores <= Busy(s)
  <2>1. Busy(s) \in Int
    BY <1>1 DEF Busy, SchedType
  <2>2. /\ JoinQueue(s, jb, t).waiting
             = [s.waiting EXCEPT ![jb[t].pri] = Append(s.waiting[jb[t].pri], t)]
        /\ JoinQueue(s, jb, t).slicing = s.slicing
    BY <1>1, <1>2 DEF JoinQueue, SchedType
  <2>3. QED
    BY <1>2, <2>1, <2>2, SchedulerAssumption DEF JoinMoves
<1>3. CASE ~ (Cores <= Busy(s))
  <2>1. /\ JoinQueue(s, jb, t).waiting = s.waiting
        /\ JoinQueue(s, jb, t).slicing = s.slicing \cup {t}
    BY <1>1, <1>3 DEF JoinQueue, SchedType
  <2>2. QED
    BY <2>1 DEF JoinMoves
<1>4. QED
  BY <1>2, <1>3

\* scheduleNxtTask with a core free: the head of a level gets it, and of no
\* lower priority than any task that waits.
NextMoves(s, r, jb) ==
  \/ r.waiting = s.waiting /\ r.slicing = s.slicing
  \/ \E p \in Priorities :
       /\ s.waiting[p] # << >>
       /\ r.waiting = [s.waiting EXCEPT ![p] = Tail(s.waiting[p])]
       /\ r.slicing = s.slicing \cup {Head(s.waiting[p])}

\* The head of the highest level that waits.
Foremost(s, t) ==
  \E p \in Priorities :
    /\ s.waiting[p] # << >> /\ t = Head(s.waiting[p])
    /\ \A q \in Priorities : q > p => s.waiting[q] = << >>

LEMMA ScheduleNxtTaskMoves ==
  ASSUME NEW s, NEW jb \in [Tasks -> JobType], Consistent(s, jb)
  PROVE  LET r == ScheduleNxtTask(s, jb)
         IN  /\ \A t \in r.slicing \ s.slicing : Foremost(s, t)
             /\ Busy(s) < Cores => NextMoves(s, r, jb)
             /\ Queued(s) # {} /\ Cores <= Busy(s) + 1 => Cores <= Busy(r)
<1> DEFINE p == TopLevel(s)
           h == Head(s.waiting[p])
           q == PopTask(s, p)
           r == ScheduleNxtTask(s, jb)
<1>1. s \in SchedType
  BY DEF Consistent
<1>2. CASE Levels(s) = {}
  <2>1. r = s /\ Queued(s) = {}
    BY <1>1, <1>2, QueuedLevels DEF ScheduleNxtTask
  <2> HIDE DEF r
  <2>2. QED
    BY <2>1 DEF NextMoves, r
<1>3. CASE Levels(s) # {}
  <2>1. r = JoinQueue(q, jb, h)
    BY <1>3 DEF ScheduleNxtTask
  <2>2. /\ Consistent(q, jb) /\ h \in Tasks /\ h \in Queued(s) /\ jb[h].pri = p
        /\ Busy(q) = Busy(s) /\ q.slicing = s.slicing /\ h \notin Active(q)
    BY <1>3, PopTaskFacts
  <2>3. p \in Priorities /\ s.waiting[p] # << >> /\ \A l \in Levels(s) : l <= p
    BY <1>3, TopLevelFacts
  <2>4. q.waiting = [s.waiting EXCEPT ![p] = Tail(s.waiting[p])]
    BY <1>1, <2>3 DEF PopTask, SchedType
  <2>5. Foremost(s, h)
    <3>1. \A l \in Priorities : l > p => l \notin Levels(s)
      <4>1. Priorities \subseteq Int
        BY PrioritiesFacts
      <4> HIDE DEF p
      <4>2. p \in Int
        BY <2>3, <4>1
      <4>3. ASSUME NEW l \in Priorities, l > p, l \in Levels(s) PROVE FALSE
        <5>1. l \in Int /\ l <= p
          BY <2>3, <4>1, <4>3
        <5>2. QED
          BY <4>2, <4>3, <5>1
      <4>4. QED
        BY <4>3
    <3>2. QED
      BY <2>3, <3>1 DEF Levels, Foremost
  <2> HIDE DEF h, q, r
  <2>6. /\ JoinMoves(q, r, jb, h)
        /\ Busy(q) < Cores => r.waiting = q.waiting /\ h \in r.slicing
    BY <2>1, <2>2, JoinQueueMoves
  <2>7. r.slicing \subseteq s.slicing \cup {h}
    BY <2>2, <2>6 DEF JoinMoves
  <2>8. \A t \in r.slicing \ s.slicing : Foremost(s, t)
    BY <2>5, <2>7
  <2>9. Busy(s) < Cores => NextMoves(s, r, jb)
    <3>1. SUFFICES ASSUME Busy(s) < Cores PROVE NextMoves(s, r, jb)
      OBVIOUS
    <3>2. /\ r.waiting = [s.waiting EXCEPT ![p] = Tail(s.waiting[p])]
          /\ r.slicing = s.slicing \cup {h}
      BY <2>2, <2>4, <2>6, <3>1 DEF JoinMoves
    <3>3. QED
      BY <2>3, <3>2 DEF NextMoves, h
  <2>10. ASSUME Cores <= Busy(s) + 1
         PROVE  Cores <= Busy(r)
    <3>1. Busy(s) \in Int
      BY <1>1 DEF Busy, SchedType
    <3>2. CASE Cores <= Busy(q)
      BY <2>1, <2>2, <3>1, <3>2, JoinWaits
    <3>3. CASE ~ (Cores <= Busy(q))
      BY <2>1, <2>2, <2>10, <3>1, <3>3, JoinEnters
    <3>4. QED
      BY <3>2, <3>3
  <2>11. QED
    BY <2>8, <2>9, <2>10 DEF r
<1>4. QED
  BY <1>2, <1>3

\* What a queue may become.
LEMMA HeadLeavesFacts ==
  ASSUME NEW q \in Seq(Tasks), NEW t \in Tasks
  PROVE  /\ HeadLeaves(q, q)
         /\ HeadLeaves(q, Append(q, t))
         /\ q # << >> /\ Head(q) \in sched'.slicing =>
              HeadLeaves(q, Tail(q)) /\ HeadLeaves(q, Append(Tail(q), t))
<1>1. ASSUME NEW v \in Seq(Tasks)
      PROVE  /\ Len(v) <= Len(v) /\ SubSeq(v, 1, Len(v)) = v
             /\ Len(v) <= Len(Append(v, t)) /\ SubSeq(Append(v, t), 1, Len(v)) = v
  <2>1. SubSeq(v, 1, Len(v)) = v /\ Len(v) \in Nat
    BY SubSeqFull
  <2>2. /\ Append(v, t) \in Seq(Tasks) /\ Len(Append(v, t)) = Len(v) + 1
        /\ \A i \in 1..Len(v) : Append(v, t)[i] = v[i]
    BY AppendProperties
  <2> DEFINE w == SubSeq(Append(v, t), 1, Len(v))
  <2>3. w \in Seq(Tasks) /\ Len(w) = Len(v) /\ \A i \in 1..Len(v) : w[i] = v[i]
    BY <2>1, <2>2
  <2> HIDE DEF w
  <2>4. w = v
    BY <2>3, SeqEqual
  <2>5. QED
    BY <2>1, <2>2, <2>4 DEF w
<1>2. HeadLeaves(q, q) /\ HeadLeaves(q, Append(q, t))
  BY <1>1 DEF HeadLeaves
<1>3. ASSUME q # << >>, Head(q) \in sched'.slicing
      PROVE  HeadLeaves(q, Tail(q)) /\ HeadLeaves(q, Append(Tail(q), t))
  <2>1. Tail(q) \in Seq(Tasks) /\ Len(Tail(q)) = Len(q) - 1 /\ Len(q) \in Nat
    BY <1>3, HeadTailProperties
  <2>2. Len(Append(Tail(q), t)) = Len(q)
    BY <2>1, AppendProperties
  <2>3. SubSeq(Tail(q), 1, Len(q) - 1) = Tail(q) /\ SubSeq(Append(Tail(q), t), 1, Len(q) - 1) = Tail(q)
    BY <1>1, <2>1
  <2>4. Len(q) <= Len(Tail(q)) + 1 /\ Len(q) <= Len(Append(Tail(q), t)) + 1
    BY <2>1, <2>2
  <2>5. HeadLeaves(q, Tail(q))
    BY <1>3, <2>3, <2>4 DEF HeadLeaves
  <2>6. HeadLeaves(q, Append(Tail(q), t))
    BY <1>3, <2>3, <2>4 DEF HeadLeaves
  <2>7. QED
    BY <2>5, <2>6
<1>4. QED
  BY <1>2, <1>3

----------------------------------------------------------------------------
(* The action properties.                                                  *)

\* timeSliceComplete: the state left when the next task is called, and after.
SliceEnds(t, l, s) ==
  /\ Consistent(l, job) /\ Queued(l) = Queued(sched) /\ l.waiting = sched.waiting
  /\ Busy(l) = Busy(sched) - 1 /\ l.slicing = sched.slicing \ {t}
  /\ Consistent(s, job) /\ s = ScheduleNxtTask(l, job)
  /\ t \notin sched.completing => t \notin Active(s)

LEMMA SliceEndsFacts ==
  ASSUME IInv, NEW t \in sched.slicing
  PROVE  SliceEnds(t, LeaveCore(sched, t), ScheduleNxtTask(LeaveCore(sched, t), job))
<1>1. Consistent(sched, job) /\ sched \in SchedType
  BY DEF IInv, Consistent
<1>2. LeaveCore(sched, t).waiting = sched.waiting
  BY <1>1 DEF LeaveCore, SchedType
<1>3. /\ Consistent(LeaveCore(sched, t), job) /\ Queued(LeaveCore(sched, t)) = Queued(sched)
      /\ Busy(LeaveCore(sched, t)) = Busy(sched) - 1
      /\ LeaveCore(sched, t).slicing = sched.slicing \ {t}
  BY <1>1, LeaveCoreFacts
<1>4. /\ Consistent(ScheduleNxtTask(LeaveCore(sched, t), job), job)
      /\ t \notin sched.completing => t \notin Active(ScheduleNxtTask(LeaveCore(sched, t), job))
  BY CalledNext
<1>5. QED
  BY <1>2, <1>3, <1>4 DEF SliceEnds

\* What remains of a task joins under a Task struct of which only req has changed.
LEMMA ResidueJoins ==
  ASSUME IInv, NEW t \in Tasks, ResumeLater(t), NEW s, Consistent(s, job), t \notin Active(s)
  PROVE  /\ job' \in [Tasks -> JobType] /\ Consistent(s, job')
         /\ \A u \in Tasks : job'[u].pri = job[u].pri
<1>1. /\ job \in [Tasks -> JobType] /\ job' = [job EXCEPT ![t].req = job[t].req - job[t].timeslice]
  BY DEF IInv, TypeOK, ResumeLater
<1>2. job[t].req - job[t].timeslice \in Nat
  BY <1>1 DEF ResumeLater, Finish, JobType
<1>3. job' \in [Tasks -> JobType] /\ \A u \in Tasks : job'[u].pri = job[u].pri
  BY <1>1, <1>2 DEF JobType
<1>4. Active(s) \subseteq Tasks
  BY DEF Active, Queued, Consistent, SchedType
<1>5. \A u \in Active(s) : job'[u] = job[u]
  BY <1>1, <1>4
<1>6. Consistent(s, job')
  BY <1>5, JobsAgree
<1>7. QED
  BY <1>3, <1>6

LEMMA BusyStep ==
  ASSUME IInv, Next, bckgrndOn
  PROVE  Busy(sched') <= Busy(sched) \/ Busy(sched') <= Cores
<1>1. /\ Consistent(sched, job) /\ sched \in SchedType /\ job \in [Tasks -> JobType]
      /\ Busy(sched) \in Int
  BY DEF IInv, TypeOK, Consistent, SchedType, Busy
<1>2. ASSUME NEW t \in Tasks, NEW p \in PriArgs, NEW r \in Reqs, NEW ts \in Slices,
             Schedule(t, p, r, ts)
      PROVE  Busy(sched') <= Busy(sched) \/ Busy(sched') <= Cores
  <2>1. job' \in [Tasks -> JobType]
    BY <1>2, PrioritiesFacts, SchedulerAssumption DEF IInv, TypeOK, Schedule, JobType
  <2>2. \A u \in Active(sched) : job'[u] = job[u]
    BY <1>2 DEF Schedule, Active, IInv, TypeOK, SchedType, Queued
  <2>3. Consistent(sched, job')
    BY <1>1, <2>2, JobsAgree
  <2>4. t \notin Active(sched) /\ sched' = JoinQueue(sched, job', t)
    BY <1>2 DEF Schedule
  <2>5. QED
    BY <2>1, <2>3, <2>4, JoinQueueFacts
<1>3. ASSUME NEW t \in sched.slicing, NEW l, NEW s, SliceEnds(t, l, s)
      PROVE  Busy(s) <= Busy(sched) \/ Busy(s) <= Cores
  <2>1. Busy(s) <= Busy(l) \/ Busy(s) <= Cores
    BY <1>1, <1>3, ScheduleNxtTaskFacts DEF SliceEnds
  <2>2. Busy(l) = Busy(sched) - 1 /\ Busy(s) \in Int
    BY <1>3 DEF SliceEnds, Consistent, SchedType, Busy
  <2>3. QED
    BY <1>1, <2>1, <2>2
<1>4. ASSUME NEW t \in Tasks, TimeSliceComplete(t)
      PROVE  Busy(sched') <= Busy(sched) \/ Busy(sched') <= Cores
  <2> DEFINE s == ScheduleNxtTask(LeaveCore(sched, t), job)
  <2>1. t \in sched.slicing
    BY <1>4 DEF TimeSliceComplete, ResumeLater, LastSliceComplete
  <2>2. SliceEnds(t, LeaveCore(sched, t), s)
    BY <2>1, SliceEndsFacts
  <2>3. Busy(s) <= Busy(sched) \/ Busy(s) <= Cores
    BY <1>3, <2>1, <2>2
  <2>4. CASE LastSliceComplete(t)
    BY <2>3, <2>4 DEF LastSliceComplete
  <2>5. CASE ResumeLater(t)
    <3>1. t \notin sched.completing /\ sched' = JoinQueue(s, job', t)
      BY <1>1, <2>5 DEF ResumeLater, Consistent, FinishOK
    <3>2. Consistent(s, job) /\ t \notin Active(s)
      BY <2>2, <3>1 DEF SliceEnds
    <3> HIDE DEF s
    <3>3. job' \in [Tasks -> JobType] /\ Consistent(s, job')
      BY <2>5, <3>2, ResidueJoins
    <3>4. Busy(sched') <= Busy(s) \/ Busy(sched') <= Cores
      BY <3>1, <3>2, <3>3, JoinQueueFacts
    <3>5. Busy(s) \in Int /\ Cores \in Int
      BY <3>2, SchedulerAssumption DEF Consistent, SchedType, Busy
    <3>6. Busy(sched') \in Int
      <4>1. Consistent(sched', job')
        BY <3>1, <3>2, <3>3, JoinQueueFacts
      <4>2. QED
        BY <4>1 DEF Consistent, SchedType, Busy
    <3>7. QED
      BY <1>1, <2>3, <3>4, <3>5, <3>6
  <2>6. QED
    BY <1>4, <2>4, <2>5 DEF TimeSliceComplete
<1>5. ASSUME NEW t \in Tasks, CompleteFunc(t)
      PROVE  Busy(sched') <= Busy(sched) \/ Busy(sched') <= Cores
  <2>1. Busy(sched') = Busy(sched)
    BY <1>1, <1>5 DEF CompleteFunc, SchedType, Busy
  <2>2. QED
    BY <1>1, <2>1
<1>6. CASE AddBckgrnd
  <2>1. sched' = sched \/ (Busy(sched) < Cores /\ sched' = [sched EXCEPT !.inBckgrnd = @ + 1])
    BY <1>6 DEF AddBckgrnd
  <2>2. sched' = sched \/ (Busy(sched) < Cores /\ Busy(sched') = Busy(sched) + 1)
    <3>1. ASSUME sched' = [sched EXCEPT !.inBckgrnd = @ + 1]
          PROVE  Busy(sched') = Busy(sched) + 1
      <4>1. sched'.inBckgrnd = sched.inBckgrnd + 1 /\ sched'.inservice = sched.inservice
        BY <1>1, <3>1 DEF SchedType
      <4>2. sched.inBckgrnd \in Int /\ sched.inservice \in Int
        BY <1>1 DEF SchedType
      <4>3. QED
        BY <4>1, <4>2 DEF Busy
    <3>2. QED
      BY <2>1, <3>1
  <2>3. QED
    BY <1>1, <2>2, SchedulerAssumption
<1>7. ASSUME NEW b \in Bursts, RmBckgrnd(b)
      PROVE  Busy(sched') <= Busy(sched) \/ Busy(sched') <= Cores
  <2> DEFINE s == [sched EXCEPT !.inBckgrnd = sched.inBckgrnd - 1]
  <2>1. /\ Consistent(s, job) /\ Busy(s) = Busy(sched) - 1
        /\ sched' = ScheduleNxtTask(s, job)
    BY <1>7, BurstEnds
  <2> HIDE DEF s
  <2>2. Busy(sched') <= Busy(s) \/ Busy(sched') <= Cores
    BY <1>1, <2>1, ScheduleNxtTaskFacts
  <2>3. Busy(sched') \in Int
    <3>1. Consistent(sched', job)
      BY <1>1, <2>1, ScheduleNxtTaskFacts
    <3>2. QED
      BY <3>1 DEF Consistent, SchedType, Busy
  <2>4. QED
    BY <1>1, <2>1, <2>2, <2>3
<1>8. CASE Tick
  <2>1. Busy(sched') = Busy(sched)
    BY <1>1, <1>8 DEF Tick, SchedType, Busy
  <2>2. QED
    BY <1>1, <2>1
<1>9. ~ InitializeBckgrndEndpt
  BY DEF InitializeBckgrndEndpt
<1>10. QED
  BY <1>2, <1>4, <1>5, <1>6, <1>7, <1>8, <1>9 DEF Next, Arrival, EventStep

\* Only the initialisation of background makes more cores busy than there are.
THEOREM ExcessStays == Spec => ExcessNeverGrows
<1> DEFINE Step == (Cores < Busy(sched') /\ bckgrndOn) => Busy(sched') <= Busy(sched)
<1>1. IInv /\ IInv' /\ [Next]_vars => [Step]_vars
  <2> SUFFICES ASSUME IInv, IInv', Next, Cores < Busy(sched'), bckgrndOn
               PROVE  Busy(sched') <= Busy(sched)
    OBVIOUS
  <2>1. Busy(sched') \in Int
    BY DEF IInv, Consistent, SchedType, Busy
  <2>2. QED
    BY <2>1, BusyStep, SchedulerAssumption
<1>2. QED
  BY <1>1, Invariance, PTL DEF Spec, ExcessNeverGrows

\* The residue of a task does not keep the core while others wait.
LEMMA ResidueWaits ==
  ASSUME IInv, Queued(sched) # {}, NEW t \in Tasks, ResumeLater(t)
  PROVE  LET s == ScheduleNxtTask(LeaveCore(sched, t), job)
         IN  sched'.slicing = s.slicing /\ t \notin s.slicing
<1> DEFINE l == LeaveCore(sched, t)
           s == ScheduleNxtTask(l, job)
<1>1. /\ t \in sched.slicing /\ t \notin sched.completing /\ sched' = JoinQueue(s, job', t)
      /\ job \in [Tasks -> JobType] /\ Busy(sched) \in Int
  BY DEF IInv, TypeOK, ResumeLater, Consistent, FinishOK, SchedType, Busy
<1>2. SliceEnds(t, l, s)
  BY <1>1, SliceEndsFacts
<1>3. Cores <= Busy(l) + 1 /\ Queued(l) # {}
  BY <1>1, <1>2 DEF SliceEnds, IInv, WorkConserving
<1> HIDE DEF l
<1>4. Cores <= Busy(s) /\ Consistent(s, job) /\ t \notin Active(s)
  BY <1>1, <1>2, <1>3, ScheduleNxtTaskMoves DEF SliceEnds
<1> HIDE DEF s
<1>5. job' \in [Tasks -> JobType] /\ Consistent(s, job')
  BY <1>4, ResidueJoins
<1>6. sched'.slicing = s.slicing
  BY <1>1, <1>4, <1>5, JoinWaits
<1>7. t \notin s.slicing
  BY <1>4 DEF Active
<1>8. QED
  BY <1>6, <1>7 DEF s, l

\* Who starts a slice while others wait is the foremost of them.
LEMMA ForemostStep ==
  ASSUME IInv, Next, NEW t \in Tasks, StartsSlice(t), Queued(sched) # {}
  PROVE  Foremost(sched, t)
<1>1. /\ Consistent(sched, job) /\ sched \in SchedType /\ job \in [Tasks -> JobType]
      /\ Queued(sched) \subseteq Tasks /\ Busy(sched) \in Int
  BY DEF IInv, TypeOK, Consistent, Queued, SchedType, Busy
<1>2. ASSUME NEW w \in Tasks, NEW p \in PriArgs, NEW r \in Reqs, NEW ts \in Slices,
             Schedule(w, p, r, ts)
      PROVE  FALSE
  <2>1. job' \in [Tasks -> JobType]
    BY <1>2, PrioritiesFacts, SchedulerAssumption DEF IInv, TypeOK, Schedule, JobType
  <2>2. \A v \in Active(sched) : job'[v] = job[v]
    BY <1>2 DEF Schedule, Active, IInv, TypeOK, SchedType, Queued
  <2>3. Consistent(sched, job')
    BY <1>1, <2>2, JobsAgree
  <2>4. w \notin Active(sched) /\ sched' = JoinQueue(sched, job', w)
    BY <1>2 DEF Schedule
  <2>5. Cores <= Busy(sched)
    BY DEF IInv, WorkConserving
  <2>6. sched'.slicing = sched.slicing
    BY <2>1, <2>3, <2>4, <2>5, JoinWaits
  <2>7. QED
    BY <2>2, <2>6 DEF StartsSlice, Active
<1>3. ASSUME NEW w \in Tasks, TimeSliceComplete(w)
      PROVE  Foremost(sched, t)
  <2> DEFINE l == LeaveCore(sched, w)
             s == ScheduleNxtTask(l, job)
  <2>1. w \in sched.slicing
    BY <1>3 DEF TimeSliceComplete, ResumeLater, LastSliceComplete
  <2>2. SliceEnds(w, l, s)
    BY <2>1, SliceEndsFacts
  <2>3. \A v \in Tasks \ {w} : job'[v] = job[v]
    BY <1>1, <1>3 DEF TimeSliceComplete, ResumeLater, LastSliceComplete
  <2>4. /\ sched'.slicing = s.slicing
        /\ t # w \/ t \notin l.slicing
    <3>1. CASE ResumeLater(w)
      BY <2>2, <3>1, ResidueWaits DEF SliceEnds
    <3>2. CASE LastSliceComplete(w)
      BY <2>2, <3>2 DEF LastSliceComplete, SliceEnds
    <3>3. QED
      BY <1>3, <3>1, <3>2 DEF TimeSliceComplete
  <2>5. t \in s.slicing \ l.slicing
    BY <2>2, <2>3, <2>4 DEF StartsSlice, SliceEnds
  <2> HIDE DEF l
  <2>6. Foremost(l, t)
    BY <1>1, <2>2, <2>5, ScheduleNxtTaskMoves DEF SliceEnds
  <2>7. QED
    BY <2>2, <2>6 DEF SliceEnds, Foremost
<1>4. ASSUME NEW b \in Bursts, RmBckgrnd(b)
      PROVE  Foremost(sched, t)
  <2> DEFINE s == [sched EXCEPT !.inBckgrnd = sched.inBckgrnd - 1]
  <2>1. /\ Consistent(s, job) /\ sched' = ScheduleNxtTask(s, job) /\ job' = job
    BY <1>4, BurstEnds
  <2>2. s.slicing = sched.slicing /\ s.waiting = sched.waiting
    BY <1>1 DEF SchedType
  <2> HIDE DEF s
  <2>3. t \in sched'.slicing \ s.slicing
    BY <2>1, <2>2 DEF StartsSlice
  <2>4. Foremost(s, t)
    BY <1>1, <2>1, <2>3, ScheduleNxtTaskMoves
  <2>5. QED
    BY <2>2, <2>4 DEF Foremost
<1>5. ASSUME NEW w \in Tasks, CompleteFunc(w)
      PROVE  FALSE
  <2>1. sched'.slicing = sched.slicing /\ \A v \in sched.slicing : job'[v] = job[v]
    BY <1>1, <1>5 DEF CompleteFunc, SchedType
  <2>2. QED
    BY <2>1 DEF StartsSlice
<1>6. ~ Tick
  <2> SUFFICES ASSUME Tick PROVE FALSE
    OBVIOUS
  <2>1. sched'.slicing = sched.slicing
    BY <1>1 DEF Tick, SchedType
  <2>2. job'[t].req = job[t].req
    BY <1>1 DEF Tick, JobType
  <2>3. QED
    BY <2>1, <2>2 DEF StartsSlice
<1>7. ~ InitializeBckgrndEndpt /\ ~ AddBckgrnd
  BY <1>1 DEF InitializeBckgrndEndpt, AddBckgrnd, SchedType, StartsSlice
<1>8. QED
  BY <1>2, <1>3, <1>4, <1>5, <1>6, <1>7 DEF Next, Arrival, EventStep

\* Priority first, then order of arrival: while tasks wait, nobody but the head of
\* the highest waiting level starts a slice, a task whose slice ended included.
THEOREM NobodyOvertakes == Spec => NoOvertaking
<1> DEFINE Step == \A t \in Tasks : StartsSlice(t) /\ Queued(sched) # {} =>
                     \E p \in Priorities :
                       /\ sched.waiting[p] # << >> /\ t = Head(sched.waiting[p])
                       /\ \A q \in Priorities : q > p => sched.waiting[q] = << >>
<1>1. IInv /\ [Next]_vars => [Step]_vars
  BY ForemostStep DEF Foremost
<1>2. QED
  BY <1>1, Invariance, PTL DEF Spec, NoOvertaking

\* A level gives up its head only, and to a core, when the cores that come free
\* are there to be had.
LEMMA HeadsStep ==
  ASSUME IInv, Next, Busy(sched) <= Cores, NEW p \in Priorities
  PROVE  HeadLeaves(sched.waiting[p], sched'.waiting[p])
<1> DEFINE q == sched.waiting[p]
<1>1. /\ Consistent(sched, job) /\ sched \in SchedType /\ job \in [Tasks -> JobType]
      /\ Busy(sched) \in Int /\ Cores \in Int /\ q \in Seq(Tasks)
      /\ sched.waiting \in [Priorities -> Seq(Tasks)]
  BY SchedulerAssumption DEF IInv, TypeOK, Consistent, SchedType, Busy
<1>2. HeadLeaves(q, q)
  <2>1. SubSeq(q, 1, Len(q)) = q /\ Len(q) \in Nat
    BY <1>1, SubSeqFull
  <2>2. QED
    BY <2>1 DEF HeadLeaves
<1>3. ASSUME NEW s, Busy(s) < Cores, Consistent(s, job), s.waiting = sched.waiting,
             NEW r, r = ScheduleNxtTask(s, job)
      PROVE  /\ r.waiting \in [Priorities -> Seq(Tasks)]
             /\ \/ r.waiting[p] = q
                \/ q # << >> /\ r.waiting[p] = Tail(q) /\ Head(q) \in r.slicing
  <2>1. NextMoves(s, r, job)
    BY <1>1, <1>3, ScheduleNxtTaskMoves
  <2>2. Consistent(r, job)
    BY <1>1, <1>3, ScheduleNxtTaskFacts
  <2>3. r.waiting \in [Priorities -> Seq(Tasks)]
    BY <2>2 DEF Consistent, SchedType
  <2>4. QED
    BY <1>1, <1>3, <2>1, <2>3 DEF NextMoves
<1>4. ASSUME NEW t \in Tasks, NEW pri \in PriArgs, NEW r \in Reqs, NEW ts \in Slices,
             Schedule(t, pri, r, ts)
      PROVE  HeadLeaves(q, sched'.waiting[p])
  <2>1. job' \in [Tasks -> JobType]
    BY <1>4, PrioritiesFacts, SchedulerAssumption DEF IInv, TypeOK, Schedule, JobType
  <2>2. \A v \in Active(sched) : job'[v] = job[v]
    BY <1>4 DEF Schedule, Active, IInv, TypeOK, SchedType, Queued
  <2>3. Consistent(sched, job')
    BY <1>1, <2>2, JobsAgree
  <2>4. sched' = JoinQueue(sched, job', t)
    BY <1>4 DEF Schedule
  <2>5. JoinMoves(sched, sched', job', t)
    BY <2>1, <2>3, <2>4, JoinQueueMoves
  <2>6. sched'.waiting[p] = q \/ sched'.waiting[p] = Append(q, t)
    BY <1>1, <2>5 DEF JoinMoves
  <2>7. QED
    BY <1>1, <2>6, HeadLeavesFacts
<1>5. ASSUME NEW t \in Tasks, TimeSliceComplete(t)
      PROVE  HeadLeaves(q, sched'.waiting[p])
  <2> DEFINE l == LeaveCore(sched, t)
             s == ScheduleNxtTask(l, job)
  <2>1. t \in sched.slicing
    BY <1>5 DEF TimeSliceComplete, ResumeLater, LastSliceComplete
  <2>2. SliceEnds(t, l, s)
    BY <2>1, SliceEndsFacts
  <2>3. /\ s.waiting \in [Priorities -> Seq(Tasks)]
        /\ \/ s.waiting[p] = q
           \/ q # << >> /\ s.waiting[p] = Tail(q) /\ Head(q) \in s.slicing
    <3> HIDE DEF l
    <3>1. Busy(l) < Cores /\ Consistent(l, job) /\ l.waiting = sched.waiting
      BY <1>1, <2>2 DEF SliceEnds
    <3>2. QED
      BY <1>3, <3>1
  <2>4. CASE LastSliceComplete(t)
    <3>1. sched' = s
      BY <2>4 DEF LastSliceComplete
    <3> HIDE DEF s
    <3>2. QED
      BY <1>1, <1>2, <2>1, <2>3, <3>1, HeadLeavesFacts
  <2>5. CASE ResumeLater(t)
    <3>1. t \notin sched.completing /\ sched' = JoinQueue(s, job', t)
      BY <1>1, <2>5 DEF ResumeLater, Consistent, FinishOK
    <3>2. Consistent(s, job) /\ t \notin Active(s)
      BY <2>2, <3>1 DEF SliceEnds
    <3> HIDE DEF s
    <3>3. job' \in [Tasks -> JobType] /\ Consistent(s, job')
      BY <2>5, <3>2, ResidueJoins
    <3>4. JoinMoves(s, sched', job', t)
      BY <3>1, <3>3, JoinQueueMoves
    <3>5. /\ sched'.waiting[p] \in {s.waiting[p], Append(s.waiting[p], t)}
          /\ s.slicing \subseteq sched'.slicing
      BY <2>3, <3>4 DEF JoinMoves
    <3>6. CASE s.waiting[p] = q
      BY <1>1, <3>5, <3>6, HeadLeavesFacts
    <3>7. CASE q # << >> /\ s.waiting[p] = Tail(q) /\ Head(q) \in s.slicing
      BY <1>1, <3>5, <3>7, HeadLeavesFacts
    <3>8. QED
      BY <2>3, <3>6, <3>7
  <2>6. QED
    BY <1>5, <2>4, <2>5 DEF TimeSliceComplete
<1>6. ASSUME NEW b \in Bursts, RmBckgrnd(b)
      PROVE  HeadLeaves(q, sched'.waiting[p])
  <2> DEFINE s == [sched EXCEPT !.inBckgrnd = sched.inBckgrnd - 1]
  <2>1. /\ Consistent(s, job) /\ Busy(s) = Busy(sched) - 1 /\ sched' = ScheduleNxtTask(s, job)
    BY <1>6, BurstEnds
  <2>2. s.waiting = sched.waiting
    BY <1>1 DEF SchedType
  <2> HIDE DEF s
  <2>3. \/ sched'.waiting[p] = q
        \/ q # << >> /\ sched'.waiting[p] = Tail(q) /\ Head(q) \in sched'.slicing
    BY <1>1, <1>3, <2>1, <2>2
  <2>4. CASE sched'.waiting[p] = q
    BY <1>2, <2>4
  <2>5. CASE q # << >> /\ sched'.waiting[p] = Tail(q) /\ Head(q) \in sched'.slicing
    <3>1. Head(q) \in Tasks
      BY <1>1, <2>5, HeadTailProperties
    <3>2. QED
      BY <1>1, <2>5, <3>1, HeadLeavesFacts
  <2>6. QED
    BY <2>3, <2>4, <2>5
<1>7. CASE (\E w \in Tasks : CompleteFunc(w)) \/ Tick \/ InitializeBckgrndEndpt \/ AddBckgrnd
  <2>1. sched'.waiting = sched.waiting
    BY <1>1, <1>7 DEF CompleteFunc, Tick, InitializeBckgrndEndpt, AddBckgrnd, SchedType
  <2>2. QED
    BY <1>2, <2>1
<1>8. QED
  BY <1>4, <1>5, <1>6, <1>7 DEF Next, Arrival, EventStep

\* While no more cores are busy than there are, tasks keep their places behind
\* the head of their level.
THEOREM HeadsLeave == Spec => HeadsLeaveInOrder
<1> DEFINE Step == Busy(sched) <= Cores =>
                     \A p \in Priorities : HeadLeaves(sched.waiting[p], sched'.waiting[p])
<1>1. IInv /\ [Next]_vars => [Step]_vars
  BY HeadsStep
<1>2. QED
  BY <1>1, Invariance, PTL DEF Spec, HeadsLeaveInOrder
============================================================================
