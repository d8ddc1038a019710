-------------------------- MODULE MCEngineLifecycle --------------------------
(* EngineLifecycle with more events than the queue takes, two snapshot tasks *)
(* and three configurations: all detectors and a type that is not known, a   *)
(* parameter that cannot be parsed, and no persistence.                      *)
EXTENDS EngineLifecycle

MCEvents == {"e1", "e2"}
MCJobs == MCEvents \cup {"snapshot1", "snapshot2"}
MCNames == {"process_async_task", "snapshot_task"}
MCNameOf == [j \in MCJobs |->
                IF j \in MCEvents THEN "process_async_task" ELSE "snapshot_task"]
MCRepeating == MCJobs \ MCEvents

MCKinds == {"bloom", "cms", "kdtree"}
Good(kind) == [kind |-> kind, valid |-> TRUE]
Bad(kind) == [kind |-> kind, valid |-> FALSE]
MCConfigs == {[persistent |-> TRUE, detectors |-> <<Good("bloom"), Good("unknown"), Good("kdtree")>>],
              [persistent |-> TRUE, detectors |-> <<Good("cms"), Bad("kdtree")>>],
              [persistent |-> FALSE, detectors |-> <<Good("cms")>>]}
MCSamples == {"s1"}
MCParts == [kind : MCKinds, seen : SUBSET MCSamples]
MCValues == {<<>>} \cup {<<p>> : p \in MCParts} \cup {<<p, q>> : p, q \in MCParts}
==============================================================================
