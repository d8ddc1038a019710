--------------------------- MODULE MCEngineIngest ---------------------------
(* EngineIngest with more events than the queue takes and two configurations. *)
EXTENDS EngineIngest

MCEvents == {"e1", "e2", "e3"}
MCJobs == MCEvents \cup {"snapshot1", "snapshot2"}
MCNames == {"process_async_task", "snapshot_task"}
MCNameOf == [j \in MCJobs |->
                IF j \in MCEvents THEN "process_async_task" ELSE "snapshot_task"]
MCRepeating == MCJobs \ MCEvents
=============================================================================
