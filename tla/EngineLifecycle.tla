--------------------------- MODULE EngineLifecycle ---------------------------
(***************************************************************************)
(* speculor::SpeculorEngine (src/core/engine.cpp) from configure to crash: *)
(* configure that may throw half way, process() updating the pipeline,     *)
(* snapshot and restore through the store, and the death of the process,   *)
(* together with the asynchronous side of EngineIngest.                    *)
(*                                                                         *)
(* One thread calls configure, snapshot and restore, another one process().*)
(* A detector is its kind and the events it knows.  CompositeDetector's    *)
(* update holds the composite's mutex; so does clear_detectors, but        *)
(* neither serialize nor add_detector nor deserialize: all three overlap   *)
(* updates.  The last two change the vector that an update is walking,     *)
(* which is undefined.  The update goes on here in the buffer where it     *)
(* began, and finds the detectors it has not come to as they were, or moved*)
(* out to a larger buffer or destroyed, which it passes over; or the       *)
(* process dies, as it may at any time.  That it writes to memory of others*)
(* instead is not modelled.                                                *)
(***************************************************************************)
EXTENDS EngineIngest, PersistentStore

CONSTANTS
    Samples,     \* the events given to process()
    Kinds,       \* the detector types that configure knows
    Configs,     \* [persistent, detectors]; each detector is a type and
                 \*   whether its parameters can be parsed
    NoConfig, NoSample

ASSUME ConfigsAssumption ==
    \A c \in Configs :
        /\ c.persistent \in BOOLEAN
        /\ c.detectors \in Seq([kind : {c.detectors[i].kind : i \in DOMAIN c.detectors}, valid : BOOLEAN])
ASSUME NoSampleAssumption == NoSample \notin Samples /\ NoConfig \notin Configs

VARIABLES
    config,      \* config_
    pipeline,    \* pipeline_.detectors_: [kind, seen]
    update,      \* process() in CompositeDetector::update, which holds the
                 \*   composite's mutex: its event, the places of the detectors
                 \*   it has left, and whether its list is still the pipeline's
    phase, place,\* the other thread: its step, and its loop's next detector
    blob,        \*   what its snapshot has serialized
    outcome,     \* history: how the last configure ended
    builtFrom,   \* history: the configuration the pipeline was cleared for
    handled,     \* history: events whose update met the list as it is now,
                 \*   from beginning to end
    torn,        \* history: events under whose update the list has changed
                 \*   since it was last cleared
    floor, quiet \* history of a snapshot: what the detectors knew when it
                 \*   began, and whether no update has overlapped it

adminVars == <<phase, place, blob, outcome, builtFrom, floor, quiet>>
pipelineVars == <<pipeline, update, handled, torn>>
lifecycleVars == <<engineVars, storeVars, config, pipelineVars, adminVars>>

NoUpdate == [event |-> NoSample, left |-> {}, whole |-> TRUE]

\* The events of the updates that are under way.
Updating == {update.event} \ {NoSample}

LifecycleInit ==
    /\ EngineInit /\ StoreInit
    /\ config = NoConfig
    /\ pipeline = <<>> /\ update = NoUpdate /\ handled = {} /\ torn = {}
    /\ phase = "idle" /\ place = 0 /\ blob = <<>>
    /\ outcome = "none" /\ builtFrom = NoConfig
    /\ floor = <<>> /\ quiet = TRUE

-----------------------------------------------------------------------------
(* configure *)

SnapshotTaskLeft == \E j \in Jobs \ Events : j \notin added

\* Configuration, pool, queue and store are replaced; the old store is closed.
ConfigureBegin(c) ==
    /\ phase = "idle" /\ ingesting = NoJob
    /\ SnapshotTaskLeft
    /\ config' = c
    /\ ReplaceQueue
    /\ StoreDrop
    /\ phase' = IF c.persistent THEN "open" ELSE "clear"
    /\ outcome' = "pending"
    /\ UNCHANGED <<vars, pipelineVars, place, blob, builtFrom, floor, quiet>>

\* configure throws when the new store does not open.
ConfigureOpen ==
    /\ phase = "open"
    /\ StoreOpen
    /\ IF store' = "open" THEN phase' = "clear" /\ UNCHANGED outcome
                          ELSE phase' = "idle" /\ outcome' = "threw"
    /\ UNCHANGED <<engineVars, config, pipelineVars, place, blob, builtFrom, floor, quiet>>

\* Mutant: the detectors of the last configuration stay.
ConfigureKeeps ==
    /\ phase = "clear" /\ update = NoUpdate
    /\ builtFrom' = config
    /\ phase' = "build" /\ place' = 1
    /\ UNCHANGED <<engineVars, storeVars, config, pipelineVars, blob, outcome, floor, quiet>>

\* clear_detectors waits for the composite's mutex.
ConfigureClear ==
    /\ phase = "clear" /\ update = NoUpdate
    /\ pipeline' = <<>> /\ handled' = {} /\ torn' = {}
    /\ builtFrom' = config
    /\ phase' = "build" /\ place' = 1
    /\ UNCHANGED <<engineVars, storeVars, config, update, blob, outcome, floor, quiet>>

\* add_detector takes no mutex; if push_back moves the list to a larger buffer, an
\* update may find any of the detectors it has left gone from the old one.
ListGrows(kind) ==
    /\ pipeline' = Append(pipeline, [kind |-> kind, seen |-> {}])
    /\ \E left \in SUBSET update.left :
          update' = IF update = NoUpdate THEN NoUpdate
                    ELSE [update EXCEPT !.left = left, !.whole = FALSE]
    /\ handled' = {} /\ torn' = torn \cup Updating

\* A detector's parameters are parsed, which may throw, and it is added; an unknown
\* type is passed over.
ConfigureAdd ==
    /\ phase = "build"
    /\ place <= Len(config.detectors)
    /\ LET detector == config.detectors[place]
       IN  \/ /\ detector.kind \in Kinds /\ detector.valid
              /\ ListGrows(detector.kind)
              /\ place' = place + 1
              /\ UNCHANGED <<phase, outcome>>
           \/ /\ detector.kind \in Kinds /\ ~detector.valid
              /\ phase' = "idle" /\ place' = 0 /\ outcome' = "threw"
              /\ UNCHANGED pipelineVars
           \/ /\ detector.kind \notin Kinds
              /\ place' = place + 1
              /\ UNCHANGED <<pipelineVars, phase, outcome>>
    /\ UNCHANGED <<engineVars, storeVars, config, blob, builtFrom, floor, quiet>>

ConfigureEnd ==
    /\ phase = "build"
    /\ place > Len(config.detectors)
    /\ IF config.persistent
       THEN (\E j \in Jobs : AddSnapshotTask(j)) /\ UNCHANGED ingestVars
       ELSE UNCHANGED engineVars
    /\ phase' = "idle" /\ place' = 0 /\ outcome' = "done"
    /\ UNCHANGED <<storeVars, config, pipelineVars, blob, builtFrom, floor, quiet>>

-----------------------------------------------------------------------------
(* process(), as far as the pipeline is concerned: CompositeDetector::update *)

\* The loop's range is the list of this moment.
UpdateBegin(e) ==
    /\ update = NoUpdate
    /\ update' = [event |-> e, left |-> DOMAIN pipeline, whole |-> TRUE]
    /\ quiet' = (quiet /\ phase # "serialize")
    /\ UNCHANGED <<engineVars, storeVars, config, pipeline, handled, torn, phase, place, blob,
                   outcome, builtFrom, floor>>

\* The detector that the update is in.
IsIn(i) == i \in update.left /\ \A k \in update.left : i <= k

\* It has taken the event.
UpdateDetector ==
    /\ \E i \in update.left :
          /\ IsIn(i)
          /\ pipeline' = [pipeline EXCEPT ![i].seen = @ \cup {update.event}]
          /\ update' = [update EXCEPT !.left = @ \ {i}]
    /\ UNCHANGED <<engineVars, storeVars, config, handled, torn, adminVars>>

UpdateReturns ==
    /\ update # NoUpdate
    /\ update' = NoUpdate
    /\ handled' = IF update.whole THEN handled \cup {update.event} ELSE handled
    /\ UNCHANGED <<engineVars, storeVars, config, pipeline, torn, adminVars>>

\* Mutant: the mutex is released one detector too early.
UpdateEndEarly == Cardinality(update.left) <= 1 /\ UpdateReturns

UpdateEnd == update.left = {} /\ UpdateReturns

-----------------------------------------------------------------------------
(* snapshot and restore; without a store they do nothing.                  *)

SnapshotBegin ==
    /\ phase = "idle" /\ store # "none"
    /\ phase' = "serialize" /\ place' = 1
    /\ floor' = [i \in DOMAIN pipeline |-> pipeline[i].seen]
    /\ quiet' = (update = NoUpdate)
    /\ UNCHANGED <<engineVars, storeVars, config, pipelineVars, blob, outcome, builtFrom>>

\* Mutant: a copy that overlaps an update may lose any event.
CopiesLossy(i) ==
    IF IsIn(i) THEN SUBSET pipeline[i].seen ELSE {pipeline[i].seen}

\* What serialize may find of detector i.  Counters are copied with or without
\* the event that is just being added.  While KDTree::insert is on its way down
\* the pointers it has passed, root_ the first of them, are moved out: the tree
\* may lack any part, all of it too.
Copies(i) ==
    LET seen == pipeline[i].seen
    IN  IF ~IsIn(i) THEN {seen}
        ELSE IF pipeline[i].kind = "kdtree" THEN SUBSET (seen \cup {update.event})
        ELSE {seen, seen \cup {update.event}}

SnapshotSerialize ==
    /\ phase = "serialize"
    /\ place <= Len(pipeline)
    /\ \E copy \in Copies(place) : blob' = Append(blob, [kind |-> pipeline[place].kind, seen |-> copy])
    /\ place' = place + 1
    /\ UNCHANGED <<engineVars, storeVars, config, pipelineVars, phase, outcome, builtFrom, floor, quiet>>

SnapshotPut ==
    /\ phase = "serialize"
    /\ place > Len(pipeline)
    /\ StorePut(blob)
    /\ phase' = "idle" /\ place' = 0
    /\ blob' = <<>> /\ floor' = <<>> /\ quiet' = TRUE
    /\ UNCHANGED <<engineVars, config, pipelineVars, outcome, builtFrom>>

\* deserialize clears the detectors, whatever it is given, and without the mutex: a
\* running update goes on over what is gone.
ListGoes ==
    /\ pipeline' = <<>>
    /\ update' = IF update = NoUpdate THEN NoUpdate
                 ELSE [update EXCEPT !.left = {}, !.whole = FALSE]
    /\ handled' = {} /\ torn' = Updating

Restore ==
    /\ phase = "idle" /\ store # "none"
    /\ \/ /\ \E data \in StoreGet : data # NoValue
          /\ ListGoes
          /\ outcome' = "emptied"
       \/ /\ NoValue \in StoreGet
          /\ UNCHANGED <<pipelineVars, outcome>>
    /\ UNCHANGED <<engineVars, storeVars, config, phase, place, blob, builtFrom, floor, quiet>>

-----------------------------------------------------------------------------
\* The process dies and is started again, with the directory that is left.
Crash ==
    /\ StoreCrash
    /\ tasks' = <<>> /\ running' = FALSE /\ cpc' = "idle"
    /\ queue' = <<>> /\ ingesting' = NoJob
    /\ UNCHANGED <<clock, nextRun, added, prompt, removed, mutex, threadVars, runs, received, offered>>
    /\ config' = NoConfig
    /\ pipeline' = <<>> /\ update' = NoUpdate /\ handled' = {} /\ torn' = {}
    /\ phase' = "idle" /\ place' = 0 /\ blob' = <<>>
    /\ outcome' = "none" /\ builtFrom' = NoConfig
    /\ floor' = <<>> /\ quiet' = TRUE

\* The calls that leave pipeline and store alone.
Ingest ==
    /\ (\E e \in Events : ProcessAsync(e)) \/ AddDetection \/ (phase = "idle" /\ EngineStop)
    /\ UNCHANGED <<storeVars, config, pipelineVars, adminVars>>

LifecycleNext ==
    \/ \E c \in Configs : ConfigureBegin(c)
    \/ ConfigureOpen \/ ConfigureClear \/ ConfigureAdd \/ ConfigureEnd
    \/ \E e \in Samples : UpdateBegin(e)
    \/ UpdateDetector \/ UpdateEnd
    \/ SnapshotBegin \/ SnapshotSerialize \/ SnapshotPut
    \/ Restore
    \/ Ingest
    \/ Crash

LifecycleSpec == LifecycleInit /\ [][LifecycleNext]_lifecycleVars

-----------------------------------------------------------------------------
(* Properties *)

\* The directory is locked exactly while the engine has it open: configuring it
\* once more, after a failure too, is never refused because of the engine's own
\* earlier store.
LockIsOwned == locked <=> store = "open"

KindsOf(detectors) == [i \in DOMAIN detectors |-> detectors[i].kind]
Wanted(c) == IF c = NoConfig THEN <<>> ELSE Chosen(KindsOf(c.detectors), Kinds)

\* The detectors are those of one configuration, in order and from the first on,
\* wherever configure threw: never some of the old and some of the new one.
\* When it returned they are all there.
PipelineOfOneConfiguration ==
    /\ IsPrefix(KindsOf(pipeline), Wanted(builtFrom))
    /\ outcome = "done" => KindsOf(pipeline) = Wanted(config)

\* The detectors agree on what was processed, also when it overlaps configure and
\* restore: an event whose update met the present list from beginning to end is
\* known to all of them, and of the other events an earlier detector knows what a
\* later one does, except those whose update the list has changed under: nothing
\* is promised of who knows these.
DetectorsAgree ==
    /\ \A i, j \in DOMAIN pipeline :
          i <= j => pipeline[j].seen \subseteq pipeline[i].seen \cup torn
    /\ \A i \in DOMAIN pipeline : handled \subseteq pipeline[i].seen

\* What a snapshot is about to put has a part for each detector, which knows
\* nothing that the detector did not see, and, for counters always but for the
\* tree only if no update overlapped the snapshot, all that was known when the
\* snapshot began.
SnapshotWindow ==
    phase = "serialize" /\ place > Len(pipeline) =>
        /\ KindsOf(blob) = KindsOf(pipeline)
        /\ \A i \in DOMAIN pipeline :
            /\ blob[i].seen \subseteq pipeline[i].seen \cup Updating
            /\ blob[i].kind # "kdtree" \/ quiet => floor[i] \subseteq blob[i].seen
==============================================================================
