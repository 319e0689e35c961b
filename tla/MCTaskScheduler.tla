-------------------------- MODULE MCTaskScheduler --------------------------
(***************************************************************************)
(* Instances of TaskScheduler for TLC.                                     *)
(***************************************************************************)
EXTENDS TaskScheduler

\* 0 stands for the priorities that createTask raises to 1.
TwoPriorities == {0, 2}

\* TopPriorityCompletes for every task: no definition tells the tasks apart, so
\* that what holds of one of them holds of each.
Task1Completes == TopPriorityCompletes(1)
============================================================================
