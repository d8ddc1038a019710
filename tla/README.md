# Speculor: TLA+ specifications

Speculor is a streaming anomaly detection engine in C++.  This directory holds
TLA+ modules of its components, TLC configurations that check them on small
instances, and theorems checked by TLAPS.  Every definition follows the code
(`include/speculor`, `src`); file names below are relative to the repository.

## 1. Inventory

| Component | Code | State | Operations | Used by |
| --- | --- | --- | --- | --- |
| Ring buffer | `concurrency/ring_buffer.hpp` | `buffer_[i].data`, `.ready`, `head_`, `tail_` (atomics) | `try_push`, `try_pop`, `size`, `empty`, `full`, `clear` | engine (`input_queue_`) |
| Thread pool | `concurrency/thread_pool.*` | `tasks_`, `stop_` under `queue_mutex_`; `active_tasks_`; workers | `enqueue`, `stop`, `size`, `active_tasks` | engine (created, stopped, given nothing to run) |
| Task scheduler | `concurrency/scheduler.*` | `tasks_` under `tasks_mutex_`, `running_`, threads | `start`, `stop`, `add_task`, `remove_task` | engine (`add_task`, `stop` only) |
| Adaptive threshold | `adaptive/threshold_engine.*` | `current_threshold_`, EMA and its deviation, optimizer window, alert queue; `mutex_` | `update`, `exceeds_threshold`, `recalculate_threshold`, `add_labelled_sample`, `push_alert`, `reset` | engine (`update`, `exceeds_threshold`, `current_threshold`) |
| Engine | `core/engine.*` | the components above, `store_`, `recent_alerts_` under `alerts_mutex_` | `configure`, `process`, `process_async`, `get_alerts`, `snapshot`, `restore`, `stop` | CLI, REST server |
| Composite detector | `detectors/composite_detector.*` | list of (detector, weight, name), aggregation method; `mutex_` | `update`, `score`, `reset`, `add_detector`, `clear_detectors`, `serialize`, `deserialize` | engine (`pipeline_`) |
| Bloom, Count-Min, KD-tree detectors | `detectors/*_detector.*` | counters, table and average, tree and recent points | `update`, `score`, `reset`, `serialize`, `deserialize` | composite |
| Persistent store | `storage/persistent_store.*` | a RocksDB handle; RocksDB's lock on the directory, and what is in it | `open`, `close`, `put`, `get`, `remove`, `exists`, `keys`, `flush` | engine (`open`, `put`, `get`, the destructor) |
| Compressor, serializer | `storage/compressor.*`, `serializer.*` | none | stubs and calls of zstd and LZ4 | nobody |
| Plugin loader | `plugin/*` | map of name to instance and library handle; `mutex_`; the shared pointers handed out | `load_plugin`, `unload_plugin`, `unload_all`, `get_plugin`, `get_plugins`, the deleter | nobody in the repository |
| Configuration | `core/config.*` | plain data | `from_yaml`, `from_json` | engine |
| CLI, REST server | `cli/main.cpp`, `rest/rest_server.cpp` | an engine | read events, call `process` or `process_async`, `get_alerts` | users |

How they interact.  `process` runs in the caller's thread: the pipeline is
updated with the event, scores it, the threshold is moved by the score, the
score is compared with the moved threshold, and an alert is appended to
`recent_alerts_`.  The REST server calls it from several threads.
`process_async` pushes the event into the ring buffer and adds a one-shot task,
which holds its own copy of the event, to the scheduler.  `configure` replaces
pool, queue, store and pipeline and adds a repeating snapshot task; it throws
when the store does not open or a detector's parameter is not a number.
`snapshot` serializes the pipeline, without the mutex that `update` holds, and
puts it into the store; `restore` gets it and hands it to the pipeline.  A
plugin belongs to whoever holds a shared pointer to it: the loader's map, a call
of `load_plugin`, callers; the last one to go runs the deleter, which calls
`shutdown`, deletes the object and closes the library.

What is hard here: the interleavings of the ring buffer's atomic accesses; lost
wake-ups and draining in the pool; two clock readings and a mutex held across
callbacks in the scheduler; reads of the threshold outside of its mutex; the
order "update, then compare"; a scheduler that nothing starts; configuration
that fails half way; a snapshot that is torn or cannot be restored; counters of
8 bits; plugins that are unloaded while they are used, and deleters that run
under the loader's mutex.  `PROJECT.json` lists the hazards by line.

The code as committed does not compile in places, for example
`data.insert(end, ptr, sizeof ...)` in `cms_detector.cpp` and `kdtree_detector.cpp`, and
`asString` in `config.cpp`.  Two definitions model such places, by their evident
intention, which is to append the bytes of the value: `CmsSerialized`
(`cms_detector.cpp:46-60`) and `KdSerialized` (`kdtree_detector.cpp:200-226`).

## 2. Modules

| Module | Models | Checked by |
| --- | --- | --- |
| `FifoQueue` | abstract: a bounded first-in first-out queue | (specification) |
| `RingBuffer` | `RingBuffer<T>`, one action per atomic access | `RingBuffer.cfg` with `MCRingBuffer` |
| `RingBufferProofs` | theorems about it, with the refinement of `FifoQueue` | TLAPS |
| `TaskLifecycle` | abstract: tasks start in order, at most once, then finish | (specification) |
| `ThreadPool` | `ThreadPool`, one action per critical section | `ThreadPool.cfg` |
| `ThreadPoolProofs` | theorems about it | TLAPS |
| `TaskScheduler` | `TaskScheduler`, one action per step of the loop | `TaskScheduler.cfg`, `TaskSchedulerSweep.cfg` with `MCTaskScheduler` |
| `AdaptiveThreshold` | `EMACalculator` and the threshold of `ThresholdEngine` | `ThresholdEngine.cfg`, `SpeculorEngine.cfg` |
| `ThresholdOptimizer`, `AlertPriorityQueue` | the classes of these names, as operators | `ThresholdEngine.cfg` |
| `ThresholdEngine` | every operation of `ThresholdEngine`; extends the three modules above | `ThresholdEngine.cfg`, `ThresholdEngineEvict.cfg` |
| `ThresholdEngineProofs` | theorems about the threshold, the optimizer, the alert queue and the engine of the three | TLAPS |
| `DetectorEvents` | the events that the detectors share | (constants) |
| `BloomDetector`, `CMSDetector`, `KDTreeDetector` | the three detectors, each with its variables and actions | `CompositeDetector.cfg` |
| `CompositeDetector` | `CompositeDetector` over the three; extends them | the same and `CompositeDetectorRarity.cfg`, with `MCCompositeDetector` |
| `DetectorProofs` | theorems about the filter, the sketch, the tree and the composite of them | TLAPS |
| `SpeculorEngine` | `process` by several threads, over `AdaptiveThreshold` | `SpeculorEngine.cfg` |
| `SpeculorEngineProofs` | theorems about it | TLAPS |
| `EngineIngest` | `process_async`, `configure` and `stop` over the queue and `TaskScheduler`, which it extends | `EngineIngestAsync.cfg` with `MCEngineIngest` |
| `PersistentStore` | `RocksDbStore` over an external RocksDB: the handle, the lock, what is on disk | `EngineLifecycle.cfg` |
| `EngineLifecycle` | `configure` step by step, updates, `snapshot`, `restore`, crashes; extends `EngineIngest` and `PersistentStore` | `EngineLifecycle.cfg` with `MCEngineLifecycle` |
| `EngineProofs` | theorems about `TaskScheduler`, `EngineIngest` and `EngineLifecycle` | TLAPS |
| `PluginLoader` | `PluginLoader`, its plugins, its clients and the deleters | `PluginLoader.cfg` with `MCPluginLoader` |
| `PluginLoaderProofs` | theorems about it | TLAPS |
| `Induction` | lemmas about recursive definitions and sums, used by the other proofs | TLAPS |

How state and actions correspond to the code.  A variable is a member of the
class, or the program counter and the locals of a thread in one of its functions
(`pc`, `tpc`, `phase` and the like); a comment beside it names the member.  An action is what
happens between two points at which another thread can act: one atomic access in
the ring buffer, one critical section in the pool, one step of a pass in the
scheduler (it keeps the mutex, but the clock goes on and callers wait), one
detector in a loop that another thread's loop can overlap.  `push_back` on a vector
takes two steps in `SpeculorEngine`, finding the end and storing there, which only
`alerts_mutex_` keeps together.  A task of the scheduler returns or throws (`TaskThrows`), and is
caught by `execute_task`.  `Rebuild` in `CompositeDetector` is a caller who does what the stub
`CompositeDetector::deserialize` leaves to the user, and reads each detector back from its blob.  A definition that a
comment calls a mutant is no part of a specification: it is the form that the
definition above or below it must not take.  Variables called history are
of the model only, and say what happened earlier.

Numbers.  Scores are integers from 0 to `One`, the multiples of a unit that may be as fine
as one likes.  The thresholds that `optimize` tries are a set of such numbers
(`Candidates`), in the code the sums of steps of 0.01 up to about 0.99; scores lie between
them and above them.  The averages of
`AdaptiveThreshold` are exact: each update multiplies their common denominator
(`scale`) by 10, as the weights are 0.3 and 0.7.  `MaxScale` and `MaxCalls`,
`MaxUpdates`, `MaxTime` and `Delays` bound runs and nothing else.  The counters of
the Bloom filter are of `CounterMod` values in place of 256.

## 3. Runs

The type invariants, the inductive invariants and `FirstStays` (a listed plugin is
never replaced by another one of its name) are proved (section 5) and not run again.

| Run | Instance | Shows |
| --- | --- | --- |
| `RingBuffer` | 1 producer, 2 consumers, an observer of `size()`, 2 slots, more than two laps | no slot is shared, both calls give up only with reason, `size()` stays in range, the ring is a FIFO queue |
| `ThreadPool` | 2 workers, 2 clients, 3 tasks that enqueue each other, `stop()` anywhere | the pool implements `TaskLifecycle`, no wake-up is lost, `stop()` drains and returns |
| `TaskScheduler` | 2 threads, 3 tasks of which two share a name, 1 tick of the clock, fair threads | nothing runs twice, is lost (`KeptUntilDone`), or runs after `remove_task` or `stop()` returned; `stop()` returns and prompt tasks run, whichever tasks throw |
| `TaskSchedulerSweep` | same | expected violation: a task is swept out that never ran |
| `ThresholdEngine` | 5 calls of any kind, scores in eighths, thresholds 0, 3/8 and 6/8 to try, a window of 2, an alert queue of 3 | the closed form of the decision, a repeated anomaly is silent, the optimizer finds a threshold that separates the samples if there is one among those it tries, the queue is a heap of pushed alerts and as full as it may be |
| `ThresholdEngineEvict` | one score, 3 severities, an alert queue of 3 | expected violation: the most severe alert is evicted |
| `CompositeDetector` | 4 events, 4 updates, three detectors, counters modulo 8, a tree of up to 4 points | no false negative before a wrap, the sketch's bounds, the exact search, and what is rebuilt from a blob scores alike |
| `CompositeDetectorRarity` | same | expected violation: of two events the rarer one scores lower |
| `SpeculorEngine` | 2 threads, 4 calls of `process`, scores in quarters | the threshold moves as for the scores in some order, no alert is lost or overwritten, a call alone decides by the closed rule, the highest score passes unnoticed only while another call holds an unclamped threshold |
| `EngineLifecycle` | 3 configurations (one with an unknown type, one with a bad parameter, one without a store), 2 configurations with persistence per life, 2 asynchronous events and a queue of 1, 1 synchronous event processed again and again | queue and tasks stay in step, the lock is the open store's, detectors are of one configuration and nested in what they know, although updates overlap `configure` and `restore`, a snapshot lies between its beginning and its end |
| `EngineIngestAsync` | 3 events, queue of 2, 2 configurations, fair scheduler threads | expected violation: an accepted event is never processed |
| `PluginLoader` | 4 loads: two of one name, one of another, one nameless; 1 client | pointers are usable, code outlives objects, no handle leaks, deleted is deleted, unused libraries are closed, unloading returns |

Why the bounds are enough.  Two slots and more than two laps let the producer
meet a slot that a slow consumer of the lap before still holds, and two
consumers compete for one position; the theorems lift the result to any
capacity and number of consumers.  In the pool two workers and three tasks give
a sleeping worker, a busy one and a task in flight; two scheduler threads and
one tick give every order of scan, sweep and second scan.  For the threshold
three updates suffice to have a mean, a deviation and a score compared with
both; the theorems cover all lengths.  A window of two and a queue of three
overflow within five calls; scores of the samples lie on, between and above the three thresholds, and three levels of severity in a heap of up to four
elements distinguish a sift that looks at one child from one that looks at both.
Four updates wrap a counter modulo 8 (an event may have both hashes on one
counter), fill a tree of three levels whose splits alternate, and let each pair
of events collide in one row of the sketch and not in the other.
In the lifecycle one event is enough to tell detectors apart that know it from
those that do not; it is processed again after each reconfiguration, and a
third asynchronous event would only be dropped like the second.  An update that is under
way meets every step of `configure`, and `restore`.  Each life has
at most two snapshot tasks, that is two completed configurations with a store;
the run without this bound does not end.  Three loads of two names
give a plugin that is listed, one that lost against it and one that is
unrelated, the fourth load fails after `dlopen`; a client is another holder like the local variable of a load, and the
theorems cover any number of each.

Fairness.  Workers and scheduler threads are weakly fair: the operating system
runs a thread that can run.  No fairness is assumed for callers, for the clock,
or for spurious wake-ups.  In `PluginLoader` deleters and the loop of `unload_all` go on
once they have begun (`shutdown` returns, `delete` and `dlclose` do); nobody is made
to call the loader or to release what it holds.  `stop()`'s joins return when the threads ended.  The
runs with liveness properties say so in their specification (`FairSpec`,
`EngineFairSpec`); the mutexes are never contended in a way that would need
strong fairness, since a thread keeps them for finitely many steps and the
properties need only some thread to make progress.

## 4. Findings

1. `TaskSchedulerSweep`: the sweep reads the clock again (`scheduler.cpp:32`),
   contrary to its comment at line 29.
2. `ThresholdEngineEvict`: a full alert queue pops its root, the most severe alert
   (`threshold_engine.cpp:115`), under a comment at line 113 that says "Remove the lowest
   severity element"; the comment at line 114 says what is done.
3. `CompositeDetectorRarity`: the sketch's score grows with the count
   (`cms_detector.cpp:130`), under a comment at line 128 that says "lower count means
   more anomalous".
4. `EngineIngestAsync`: nothing starts the scheduler and nothing pops the queue;
   `engine.hpp:30` promises background processing.
The theorems `EvictsHighestHolds` and `RepetitionRaisesScoreHolds` say the opposite of
these two comments for every instance.  The second covers the KD-tree too, whose score
grows with nearness.

Observed while reading, without a run of their own: the first score becomes the mean with
deviation 0, equals the threshold that it sets (`engine.cpp:145`, `AlertRule`) and alerts,
contrary to `tests/unit/test_engine.cpp:19`; `restore` clears the detectors and loads nothing
(`composite_detector.cpp:99`, `Restore`), contrary to `engine.hpp:39` ("Load state from
disk") and `README.md:20`; an overlapping call of `process` can move the threshold between
the comparison and the description, so that an alert says it exceeds a number above its
score; `exceeds_threshold` may meet the unclamped value of another thread's update
(`HighestScoreAlerts` says when); a score of at most 0.6 gets severity Medium while one
of 0.7 gets Low (`engine.cpp:148-151`); the REST server never configures its
engine, so that every event scores 0 and alerts; `default_threshold`,
`ema_alpha` and `threshold_window_size` of the configuration are never used;
`recent_alerts_` grows without a bound (`engine.cpp:109`).  `enqueue` does not look at
`stop_`, so that a task enqueued after `stop()` never runs and its future never
becomes ready.  The Bloom filter's counters wrap: the 256th occurrence of an event
makes it new again (`bloom_detector.cpp:19`), contrary to the comment at line 118;
`KnownUnlessWrapped` holds up to there.  A snapshot that an insertion into the
KD-tree overlaps may have lost the whole tree (`SnapshotWindow` exempts it).
`snapshot` ignores the result of `put`, and after a `restore` the next snapshot
overwrites the good copy with an empty one.  `stop()` keeps the store open, so a
second engine on the same directory throws.  Each `configure` with persistence adds
another snapshot task, and none is ever removed.  `CountMinSketch::deserialize`
sizes the table by the blob but keeps `width_` and `depth_`
(`cms_detector.cpp:72`), which is safe only with the same configuration.
`BloomDetector::reset` clears outside of its mutex.  `load_plugin` returns true when
the plugin was dropped because its name is taken.  `RocksDbStore::exists` is true
on any error but "not found".  `full()` of the ring buffer reads its two counters in
an unspecified order, and reading `tail_` first can make an almost empty ring
report full; `try_pop` gives up on a position another consumer took, so `clear()`
may stop early.

## 5. Proofs

`RingBufferProofs` proves `IndInv` inductive for every capacity (0 included), set
of items and set of consumers.  Its parts: `CountersInv` (at most `Capacity`
positions between the counters), `ProducerInv` (past its checks the producer
has room and a clear flag, which stays clear), `ConsumerInv` (a held position was
claimed less than a lap ago, by one consumer, and its flag is set) and `FlagsInv`
(the set flags are those of waiting items, held slots and the one about to be
published).  None of the properties is inductive alone: that the producer does
not overwrite a slot being read needs the flag of each held slot, and that in
turn needs the distance of less than a lap between held positions and `tail_`.
The arithmetic of "different positions less than a lap apart are different
slots" is a lemma of its own.  From the invariant follow `TypeOK`, `NoSlotShared`,
`UnreadyMeansOvertaken`, `RefusalMeansHeld` and `SizeWithinCapacity`.

It also proves that every step of the ring is a step of
`FifoQueue` or leaves its state alone (`RingImplementsFifo`): a push takes effect
with the store of `tail_`, a pop with the exchange of `head_`.

`ThresholdEngineProofs` proves the range of the averages (`TypeCorrect`), the
closed form of the decision (`AlertRuleHolds`) and `EchoIsQuietHolds` for any
resolution of the scores and any number of updates.  The last needs an invariant
that relates the mean to the last score and the deviation (`StrayInv`).  Every step of
`ThresholdEngine` is one of `AdaptiveThreshold` or leaves the threshold alone
(`EngineImplementsAdaptiveThreshold`), which carries both results over to the engine, labelled
samples, alerts and recalculations included (`EngineAlertRule`, `EngineEchoIsQuiet`).

The alert queue is proved for any capacity and any number of alerts
(`AlertHeapHolds`, `EvictsHighestHolds`).  The lemmas follow the code: `HeapifyUpSifts` and
`HeapifyDownSifts` unfold the two recursions, `HeapifyUpRestores` and
`HeapifyDownRestores` say that from a heap everywhere but at one place (`UpHole`,
`DownHole`) they end with a heap of the same alerts; so `pop` takes the most severe one (`PoppedLosesRoot`).  Both are inductive in `QueueInv`, which adds that
nothing is lost before the queue overflows.  For the
optimizer, `OptimumScans` says that the loop over the candidates keeps the best F1 score
so far, and `PerfectIsBest` that a threshold which separates the labelled samples
has the best one there is; `OptimumSeparatesHolds` needs besides that the window
holds scores in every place (`WindowInv`).  It holds for any set of thresholds to try that
has 0, and says nothing of samples that only other thresholds would separate.

`ThreadPoolProofs` covers any finite numbers of workers and clients and any set of
tasks.  `StopDrains` needs two facts at once (`OwedInv`): an owed task is queued,
held by a worker, or done; and while one is queued some worker has not ended,
because the last worker ends only at an empty queue and whoever enqueues an owed
task later is itself a worker.  `NoLostWakeup` is inductive with the types: each
step that takes a task, a notification or an awake worker away is weighed against
the others.  `PlacesInv` (a task is in one place only) gives the refinement of
`TaskLifecycle`, and `CountInv` (`active` counts the workers between increment and
decrement) the bound on `active_tasks_`.

`EngineProofs` covers in its first part, the scheduler, any threads, tasks, names, delays and intervals,
and tasks that throw.
`OneShotOnce` holds only because the pass that runs a one-shot task also sweeps
it out before it gives the mutex back.  `RanInv` says this of a state: a
one-shot task that was run and is still listed is due, and some pass has dealt with its place
(`Dealt`: the scan is past it, or the sweep has not come to it yet).  `PromptInv` is its counterpart for
`KeptUntilDone`: the passes that have dealt with the place of a prompt task have run it, because
the clock reading of each is no older than the task.  `ListInv` (a task is listed
once) and `ThreadInv` (who holds the mutex, and what the index points at) carry
both through the shifts of `erase`; for the same reason `remove_task`'s
`remove_if` is written as the increasing enumeration of the places that stay.

Its second part is about the queue and the tasks of `process_async`, for any events
and any capacity, both for the engine whose `configure` never fails
(`EngineQueueMatchesTasks`) and for the lifecycle with failures and crashes
(`QueueMatchesTasksHolds`).  The property and the types are inductive together (`IngestInv`):
the queue is a suffix of the events that have a task, with the one whose task is about to
be added.  The work is in how `Chosen`, the loop that picks the events out of the tasks,
commutes with adding a task, of an event or a snapshot task.

The third part of `EngineProofs`, the lifecycle, covers any configurations, detector types and events, and any
number of reconfigurations, snapshots and crashes.  `UpdateInv` (the detectors that
an update has passed know its event, as long as its list is the pipeline's) makes
`DetectorsAgree` inductive.  No guard keeps `add_detector` or `restore` from a running update:
`torn` names the events for which the list has changed under an update, and the proof shows
that the damage stays with these.
`SnapshotInv` says of each detector that a snapshot has serialized what
`SnapshotWindow` says when all are.  `ClosedInv` (`configure` opens a store when the old one
is closed) gives `LockIsOwned`.  `PipelineInv` says, of every point inside `configure`, which of the configuration's detectors are
in the list already, and makes `PipelineOfOneConfiguration` inductive: wherever `configure`
throws, the list is a prefix of the wanted one.

`SpeculorEngineProofs` covers any number of callers and calls and any scores.
`LockInv` says who is between the store and the clamp, `AloneInv` which calls have company, and `DecisionInv` relates the comparison
that is still to come to the rule of `AdaptiveThreshold`: with the threshold clamped
while the mutex is held, with the threshold itself afterwards.  From it follows
`SequentialDecision`.  `AppendInv` says that whoever has found the end of `recent_alerts_` holds
`alerts_mutex_` and that the end is still there, `NumberInv` that no two calls have the same
alert; they make `AlertsKept` inductive.  `HighestScoreAlerts` follows from the range of the
threshold while nobody holds its mutex, which the types state.  The refinement
(`EngineImplementsThreshold`) maps an update to the store that precedes the clamp.

`PluginLoaderProofs` holds for any calls, names and clients.  `ReferencedIsUsable` is
not inductive: that nobody gets a pointer to an object whose deleter runs needs
that such an object has no pointer left (`DyingInv`), and that a new object is not
referenced before `load_plugin` has created it (`BeginInv`).  With
`CodeOutlivesObject`, `OpenIsOwned` and the types the conjunction `IInv` is inductive;
`DeletedForGood` and `FirstStays` follow from it step by step.

`DetectorProofs` holds for any hash functions, sizes and points, and any finite set of
events; the distances between the points are whole numbers below `Far`, as in the model.

- The Bloom filter has no false negative before a counter wraps (`BloomInv`: all counters
  of an event that was seen are positive).
- `EstimateBoundsHolds`: no counter of the sketch is below the number of occurrences of an
  event that falls on it (`CmsInv`), none is above the number of all updates
  (`SumInv`), and where an event is alone in its column the counter is right
  (`AloneInv`).
- `SearchIsExactHolds`: the search that leaves out subtrees finds what a linear search would.
  `TreeInv` says that the places linked by `left` and `right` form a search tree (`IsTree`: every
  node has the set of the places below it, and those on its left are smaller on its
  axis), that it has as many nodes of any points as there were events of these points
  (`Counted`), and that `recent_points_` is as long as it may be (`Recalled`).  It is inductive:
  `insert` ends at the null pointer where the point belongs (`DescentEnds`,
  `DescentPasses`, `InsertedIsTree`), and what `deserialize` makes of the preorder is a copy with
  other numbers (`TreeReadCopies`, `CopyIsTree`).  From the tree alone follows what the search finds, by
  induction on the size of a subtree (`VisitAdds`): within any distance there are
  as many results as there were before and points in the subtree, up to K.  That a
  subtree may be left out is `FarSide`: beyond the plane every point is at least as
  far as the plane, and so no closer than the last of the K results.
- `RebuiltScoresAlikeHolds`: counters and rows are read back from the blob for any sizes
  (`CmsRoundTrip`); the average, which is not in it, is always 1 (`AverageInv`); and
  the tree's search finds the same list, because two ordered lists with as many distances
  within any bound are equal (`SameWithin`).
- `RepetitionRaisesScoreHolds`: by the same argument one more point at the place of the event
  shifts a 0 into the list of distances, whose last one makes room (`KdRepeats`).  The sum of the
  remaining distances does not grow and their number does not fall
  (`MeanShifted`), so neither does the score fall; the sketch's estimate does not fall, the filter
  knows the event before and after; and average, sum and maximum grow with each
  score (`CombinedGrows`).

`Induction` has what these proofs need of recursion.  The library's induction theorems take
an operator as a parameter, so it derives statements about sets instead, from
well-foundedness: a set of numbers has a least one (`LeastNatural`), a set
that contains 0 and successors has all numbers (`SetInduction`, `StrongInduction`), and the same
over anything with a size, and over finite sets (`SizeInduction`,
`SubsetInduction`).  `Recursion` and `Loop` say that a recursive definition has a
solution when it looks only at smaller arguments; with it the functions of the model
(`HeapifyDown`, `Inserted`, `Nearest`, `Preorder`, `TreeRead`, `Mean` and others) are unfolded.  The
sums of the community module `Functions` follow in the same way (`SumRecursion`,
`SumOneMore`, `SumMonotone`).

Assumptions are the ones named in the modules; TLC evaluates them in each run.

Every invariant and action property that a passing run checks, and every refinement, is
stated by a theorem.  Only model-checked are the liveness properties (`OwedTasksRun`, both
`StopReturns`, `PromptTaskRuns`, `UnusedIsClosed`, `UnloadReturns`): fairness and `ENABLED` are
out of the prover's reach.

## 6. Plan

The detectors' scores in `SpeculorEngine`, with reconfiguration: `process` over
`CompositeDetector` in place of arbitrary scores.

## 7. Not modelled

- Weak memory orders of the ring buffer; `empty()` and `full()`, which change
  nothing.
- Data races, in part.  `add_detector` and the composite's `deserialize` change the list of
  detectors without a mutex, which an update may be walking.  `EngineLifecycle` has the update
  go on in the buffer where it began and find any of the detectors it has left gone, or the
  process die; that it writes to memory of others is not modelled.  `configure` also replaces
  pool, queue and store without a mutex: calls of `process_async` and `snapshot` come before or
  after that, not during it.
- The description of an alert, its severity in `process`, and the second read of the threshold
  that the description makes (`engine.cpp:160`).
- `remove` and `decay` of the filter and the sketch, and `remove`, `exists`, `keys` and
  `flush` of the store: nothing in the repository calls them.
- Detectors that plugins create, which may outlive their library: the interface
  has the method, nothing calls it.
- Compressor and serializer: calls of zstd and LZ4 and unused stubs, without state.
- Configuration parsing: a pure translation of YAML and JSON into a record, which
  does not compile as written.
- The two programs: their calls are the callers of the engine modules.
