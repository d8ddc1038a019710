--------------------------- MODULE MCTaskScheduler ---------------------------
(* TaskScheduler on a small instance: one repeating and one one-shot task    *)
(* share a name, another one-shot task has its own.                          *)
EXTENDS TaskScheduler

MCJobs == {"snapshot", "snapshot_once", "detect"}
MCNames == {"snapshot_task", "detect_task"}
MCNameOf == [j \in MCJobs |-> IF j = "detect" THEN "detect_task" ELSE "snapshot_task"]
MCRepeating == {"snapshot"}

\* The run that looks for a task swept out unseen does without the shared name.
MCTwoJobs == {"snapshot", "detect"}
MCTwoNameOf == [j \in MCTwoJobs |-> MCNameOf[j]]
==============================================================================
