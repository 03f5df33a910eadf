---------------------------- MODULE MCTaskScheduler ----------------------------
(* TLC instance of TaskScheduler: names that Windows tells apart or not, calls  *)
(* from one or two executables.                                                *)
EXTENDS TaskScheduler, TLC

CONSTANTS c1, c2, task, Task2, exe1, exe2

MCNames == {task, Task2}
DistinctKeys == [n \in MCNames |-> n]
CaseInsensitiveKeys == [n \in MCNames |-> task]
TwoExes == (c1 :> exe1) @@ (c2 :> exe2)
Alike == Permutations(MCNames) \cup Permutations(Schedules)
OneExe == c1 :> exe1
=============================================================================
