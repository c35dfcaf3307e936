# RefereeLink backend: a TLA+ verification project

RefereeLink is a FastAPI server that takes live video from a phone on the pitch, runs
vision inference on it and shows the result on a dashboard. This directory holds TLA+
specifications of the parts of `src/app` in which several threads, processes and network
peers meet, the TLC configurations that model-check them, and TLAPS proofs about eight
of them. `PROJECT.json` is the index: it maps every definition to the lines it models, and
lists the runs, the theorems, the hazards, the disagreements found, and one mutant per
property (an operator marked "Mutant" in a module, swapped in for the definition after
it, that makes the property fail).

- To check a run: `tlc -config FieldEpochFaults.cfg MCFieldEpoch.tla`
- To check proofs: `tlapm FieldEpochProofs.tla`, and likewise `LiveBridgeProofs`,
  `IngestServiceProofs`, `LiveSliceProofs`, `PipelineControlProofs`,
  `TeamCalibrationProofs`, `MultiviewReviewProofs`, `TrackingProofs`

## 1. Inventory

| Part | State it keeps | Operations | Modules here |
|---|---|---|---|
| Session store, `field_ingest/store.py` | SQLite tables `sessions`, `live_epochs`; log files | register, complete, `next_epoch`, `has_active_epoch`, `create_epoch`, `release_epoch` | `FieldEpoch` |
| Ingest service, `field_ingest/service.py` | `_epochs` (runtimes), one lock | allocate, bind a consumer, release, ingest a batch, status | `FieldEpoch`, `TelemetryAck`, `LiveBridge`, `ReceiverLocks` |
| SRT receiver, `field_ingest/receiver.py` | an FFmpeg process, two reader threads, PTS queue, one lock | start, stop, snapshot, the readers' callbacks | `FieldEpoch`, `ReceiverLocks` |
| Joiner and queue, `field_ingest/frames.py` | metadata by PTS, pending frames, tombstones; a bounded queue | `ingest_item`, `ingest_decoded`, `flush`; `put`, `get`, `close` | `FrameJoiner`, `FrameQueue`, `LiveBridge` |
| Live source, `FieldIngestSource` in `pipeline/source.py` | `_released` | `read_packet`, `is_opened`, `release` | `LiveBridge`, `FieldEpoch` |
| Pipeline control, `pipeline/engine.py`, `server/main.py`, `server/api/pipeline.py` | the slot `_pipeline`, `_running`, `pipeline_running`, `source_status`, a thread per start | start, resume, replace, stop, the loop and its `finally` | `PipelineControl`, `FieldEpoch` |
| File and RTSP sources, recorder | a capture, a lock, reconnection attempts; a writer | read, reconnect, release; write, stop | `PipelineControl`, `RtspSource` |
| State store, publisher, frame encoder | latest state under locks; a set of WebSockets | socket commands; broadcast, push loop | `PipelineControl` (commands) |
| Live multi-view capture, `multiview/live_ingest` | segment index with reference counts, camera health, cases | worker: index, prune, restart; server: trigger, freeze, remux, save, release | `LiveSlice` |
| Multi-view review, `multiview` | analyses and review revisions in SQLite | analyse, append a review at an expected revision | `MultiviewReview` |
| Foul rules, `multiview/rules.py`, `multiview/geometry.py` | | assess the confirmed facts | `FoulRules` |
| Team calibration, `classification/team_calibration` | phase, labels, feature bank, bundle; a clip job and its worker | preview, clip, process, label, observe, validate, gate | `TeamCalibration` |
| Entity memory and life cycle, `vision/entities.py`, `core.py`, `display.py` | tracker ids to entities, missing counts, overlay | one frame | `PlayerTracking` |
| Track semantics, `vision/semantics.py` | an evidence window and labels per tracker id, the last results | rebind, update, prune | `TrackSemantics` |
| Referee alerts, `referee_alerts` | published ids, alerts, acknowledgements, clients | publish, connect, acknowledge | planned |
| Event engine, `events/engine.py` | debounce counters | update per frame | not modelled (section 7) |
| Detection, geometry, foul detector, annotators, legacy desktop modes, dashboard, tools, experiments, notebooks, CAD | | numerical code, drawing, display | not modelled |

How they interact. The HTTP and WebSocket handlers of the ingest service, the pipeline
and the calibration are `async def` functions that call blocking code, so they run one
after the other on the event loop; those of the review are plain functions, which
FastAPI runs in threads. The ingest handlers call the service, which takes its lock. A
receiver's two reader threads call back into the service (`on_frame`,
`on_decoded_frame`, `on_end`). The inference thread reads frames from the queue through
`FieldIngestSource` and, when its loop ends, calls back into the service to release the
epoch. The same thread feeds the tracker, the semantic manager and, during a
calibration, the session's feature bank; a clip worker thread reports to that session
too. The database outlives the process, and so may FFmpeg, which runs in a session of
its own. The multi-view worker is a second process: it and the server share the segment
files and a SQLite database, and no lock but the database's.

What is hard here:

- **Concurrency.** The event loop, any number of lagging inference threads and two
  reader threads per receiver share an epoch. `release_live` gives the lock up in the
  middle so as not to join a thread that waits for it, and `FieldIngestSource.release`
  tests its flag under no lock. `stop()` does not join the thread it stops. Referees
  review one case at once.
- **Failure.** `receiver.start()` may raise, the disk may fail after the row was
  committed, FFmpeg may die or refuse to die, the server may crash with an active row on
  disk. A frame may raise in the inference loop. In the multi-view capture, a remux, a
  save, a release or an unlink may fail, a camera may stall, and either process may die
  between any two commits.
- **Ordering.** Frames and their metadata arrive over two transports; batches are lost,
  repeated, and read late from a socket the phone has left.
- **State that must move together.** Three components count for how many frames a player
  has been missing, and a new tracker id must take over entity, life cycle and labels; a
  calibration's labels, samples and bundle are changed by four actors.
- **Timeouts.** A metadata deadline of 50 ms, a queue wait of half a second, a PTS wait,
  joins with a timeout.

What makes each part correct: one live epoch at most and no receiver without it, one
consumer per epoch, an epoch number never used twice, stale releases that hurt nobody
(epoch life cycle); no frame lost or given twice, the right metadata or none, the newest
frame first, a loop that ends (bridge); exact gap reports and acknowledgements
(telemetry); no cycle of waits (locks); a frozen window that stays whole, exact pins,
one window for all cameras and a ring that stays bounded (multi-view capture); no
orphaned capture, one reader, one recording, a stop that holds and ends (pipeline
control); samples under their label and a bundle that is what was validated
(calibration); ids and entities paired, counters and life cycle in step, labels that
follow the player (tracking); no fact lost but by its own referee's change, warnings
about the right analysis, conclusions that are final (review).

## 2. Modules

| Module | Models | Extends or instantiates |
|---|---|---|
| `LiveLease` | abstract: what the service promises about its single live slot | |
| `FieldEpoch` | the life of a live epoch: store, service, FFmpeg, pipeline slot and threads | `LiveLease` under a refinement mapping |
| `MCFieldEpoch` | symmetry sets for TLC | `FieldEpoch` |
| `FieldEpochProofs` | theorems about `FieldEpoch` | `FieldEpoch`, TLAPS |
| `FrameQueue` | `LatestFrameQueue` as operators on a record | |
| `FrameJoiner` | the join of decoded frames and metadata | |
| `FrameMailbox` | abstract: what the bridge promises the inference loop | |
| `LiveBridge`, `LiveBridgeProofs` | joiner, queue, the receiver's end and the reading loop | `FrameJoiner`, `FrameQueue`; `FrameMailbox` under a refinement mapping |
| `TelemetryAck`, `IngestServiceProofs` | batches, sequence accounting, acknowledgements over two sockets | |
| `ReceiverLocks`, `IngestServiceProofs` | the lock order of every thread of the live epochs | |
| `LiveSlice`, `LiveSliceProofs` | the segment ring, its worker process and the capture of a window | |
| `PipelineControl`, `PipelineControlProofs` | handlers, pipeline threads, file source, recorder | |
| `RtspSource` | an RTSP source between the pipeline thread and a stop | |
| `TeamCalibration`, `TeamCalibrationProofs` | the calibration session, its clip workers and its pipeline | |
| `PlayerTracking` | entities, life cycle and overlay, frame by frame | |
| `TrackSemantics`, `MCTrackSemantics` | the semantic windows over the tracking | `PlayerTracking` |
| `TrackingProofs` | theorems about the tracking and the semantics | `TrackSemantics`, TLAPS |
| `FoulRules` | the rules of an assessment as operators | |
| `MultiviewReview`, `MCMultiviewReview`, `MultiviewReviewProofs` | several referees, the review store and the rules | `FoulRules` |

Each `...Proofs` module extends the one it is about and TLAPS.

### FieldEpoch

`session` and `row` are the two tables; `runtimes`, `attached` and `closed` are
`_epochs`, `consumer_attached` and the queue's `_closed`; `ffmpeg` is each receiver's
process; `slot`, `running` and `released` are `main._pipeline`,
`InferencePipeline._running` and `FieldIngestSource._released`. `pc`, `target`, `op` and
`next` are where the event loop and each inference thread are in their calls.

Granularity: one critical section of the service lock is one step. `allocate_live` is
the exception: it holds the lock for long and a crash, a failed start or a disk error
can come in the middle, so it is `AllocateBegin` (up to the commit of `create_epoch`)
followed by `AllocateStart`, `AllocateStartFails` or `AllocateDiskFails`, with
`LockFree` false meanwhile. A release is `ReleaseCheck` and `ReleaseSet` (the flag),
`ReleaseRead` (first critical section), `ReleaseStop` or `ReleaseStopFails`
(`receiver.stop()` with no lock) and `ReleaseFinish` (second critical section). All
three callers go through the same steps: a `DELETE`, a handler that stops or replaces a
pipeline, and a loop that ends, whether its stream has ended, it was stopped
(`LoopEnds`) or a frame raised in it (`LoopFails`, a fault). The lock is otherwise not a
variable: no process blocks with it except in `allocate_live`, and its order against
other locks is the subject of `ReceiverLocks`.

`LiveLease` says the same in three variables: a holder, the keys ever granted, the keys
served. The mapping is `holder <-` the active row, `granted <-` the keys with a row,
`serving <-` the keys with a running FFmpeg the server owns.

### FrameJoiner, FrameQueue, FrameMailbox, LiveBridge

Calls of the joiner are made under the service lock and are one step each. A PTS is
counted in frame intervals (`max_pts_delta90k` is 4500, 50 ms, which at 30 frames per
second reaches one frame back: `MaxDelta = 1`); the 50 ms deadline is counted in ticks
that each pending frame has left. What `_flush_expired`, `_remember_expired` and
`_take_metadata` do is part of each action that calls them. `early` is history: the
frames whose metadata had come, once, before they were decoded and was still among the
last `max_samples` that came. What the cache evicted before the decode is outside
`EarlyMetadataJoined`, as no join could find it.

A queue is a record of items, `closed` and `dropped`. `LiveBridge` composes the two:
what a joiner call returned is `putting`, put one frame per step as `_enqueue_captured`
does, and `closing` says that the receiver has ended, so that a close follows the
flushed frames (`_record_receiver_end`). No other joiner call comes in between (the
service lock), but the consumer does. The consumer's `get`, its one wait, its return
with nothing and the `is_opened` that follows are separate steps, because each takes the
queue's condition by itself.

`FrameMailbox` is what all of this amounts to for the loop: the frames sent, how many of
them were put before the close, and the frames taken, each of which was the last one put
when it was taken. The mapping: `Sent` is what the joiner emitted, `Accepted` is that
less what is still to be put and what was refused; a drop or a refusal is no step of it.

### TelemetryAck

The phone (`Connect`, `Send`, `Break`, external) numbers its batches, may send one
again, and goes on over a second socket when the first one breaks while the server still
has batches of the first to read. `Receive` is `handle_message` with `ingest_batch`.
`received`, `advanced` and `reported` are history kept for the properties.

### ReceiverLocks

Each call is a sequence of takes and gives; `allocate_live` also starts the readers of
its epoch, under the service lock and its receiver's. Every epoch has a receiver and a
queue of its own. A thread that has finished a call may begin any of its calls about any
epoch that was started, so a reader or an inference thread of an epoch that was released
lingers for as long as it likes. Waits with a timeout appear as the release and
re-acquisition they make, since they give up by themselves.

### LiveSlice

`files` is the ring on disk; `rows`, `refs`, `online` and `latestAt` are the tables of
`SegmentIndex`; `ffmpeg`, `seen`, `worker`, `camera` and `now` are the worker's
processes, `_seen_paths` and place in `run_forever`; `capture`, `case`, `end` and
`snapshot` are the locals of `LiveSliceCoordinator.trigger`; `cases` and `published` are
the case table and the case directories. `leaked` is history: the pins left behind by
captures that died with the server or whose release failed.

Time is counted in ticks, a fraction of a segment of any size; a segment is a record of
its camera, its start and its end and may begin and end at any tick, so the cameras need
not cut theirs at the same times. `Write` cuts a segment once it is `SegmentTime` long
and by `MaxLength` at the latest, `FfmpegExits` and `WorkerStops` cut what has been
written so far, and a stall moves a segment, which is dated back from its last write.
The tolerance `MaxGap` is the code's one and a half segments.

A transaction (`freeze_window`, `prune`, `save`) is one step. `release_window` is not
one: its `executemany` runs on a connection in autocommit mode, so that each row is a
step (`Release`), between which the worker or another failure may come, and
`ReleaseFails` is the exception that the trigger's `finally` meets half-way: the pins
left then stay. The unlinks after `prune` are a step of their own, between which and the
next the server may do anything. `WindowSegments` states declaratively what the loop of
`_window_segments` selects: its cursor is at the end, or at the start of a segment
further up, and a segment adjoins if it ends within the tolerance of it. TLC compared it
with a literal fold of that loop, with a tolerance of three ticks, for every set of up
to five segments of one or two ticks and of up to four segments of at most four ticks,
of one camera within eight ticks, for every end and for windows of one, three, five and
six ticks. A trigger that is refused changes nothing and needs no step, except a refusal
by `freeze_window`, which comes after the queries the trigger began with.

### PipelineControl, RtspSource

`slot`, `config`, `flag` and `status` are `main._pipeline`, `video_source`,
`pipeline_running` and `source_status`; `running`, `source` and `recorder` belong to
each pipeline; `owner` and `at` are the threads, `handler`, `then`, `next` and `asked`
the handler's place and locals. A request is what `pipeline_start` branches on: a video
source or none, a change of the configuration or not, a device or not. `Build` opens the
source before anything is stopped, `Attach` to `StopRecord` are the steps of stopping
what is in the slot, `Launch` and `LaunchFails` the start of the new pipeline, `Cleared`
the tail of a stop or of a failed start. A thread is the `while` of `_run_loop`
(`Check`, `ReadFrame` or `ReadNothing`, `Infer`, `Publish`) and its `finally` in four
steps. `stopped`, `late`, `files` and `command` are history.

`RtspSource` has the lock as a variable: a method is the step that takes it and the
steps it takes while holding it.

### TeamCalibration

`state`, `labels`, `bank`, `bundle` and `clip` are the session's; `bank` holds of each
track the label its samples were stored under and how many they are, and `bundle` the
bank the prototypes were built from. `job`, `worker`, `at` and `metadata` are the clip
service, its worker threads and the files they write; `observer` is the pipeline of a
live calibration, which may deliver one more frame after its stop (`"late"`). A method
of the session is one critical section and one step. Whether features separate the teams
is numerical, so `ValidateFails` is always possible and `ValidatePasses` asks for the
counts the code asks for. Nothing in the program calls `request_recalibration`, so its
state is left out.

### PlayerTracking, TrackSemantics

One step is one processed frame, the only interface there is: `Process(current)` for any
set of tracker ids. `UpdateEntities` is `TrackEntityManager.update` with its purge,
`UpdateLifecycle` the counters and the log of `VisionCore.process`, `Overlay` the
smoother. Distances and descriptors decide only *which* eligible entity a new id is
given, so any eligible one may be (`Matchings`). Two new ids of one frame are numbered
in any order, as the detector's order is free. `absent` and `missing` are the frames
since an entity, respectively a tracker id, was last seen; `unsettled` is interruptions
less recoveries and forgotten tracks, so that it stays bounded.

`TrackSemantics` adds the windows: `age` of a window by tracker id, which ids have a
known label, and the cached results. `Moved` is `rebind_track` on the frame's
rebindings, `Refresh` an update with `remove_stale`, `KeepLabels` a frame between
updates or one whose update raises. The vote may have any outcome for an id with new
evidence and none without. `heard` is history: by entity, how long ago the window of the
player was fed.

### FoulRules, MultiviewReview

`Assess` is `IFABRuleEngine.assess` over a record of facts each of which may be unknown;
a location is abstracted to the penalty area it lies in. `Derive` is
`_derive_missing_facts`. In `MultiviewReview` a request is three steps (the form sent,
the facts assessed against an analysis read before, the row appended in one
transaction), since each runs in a thread of its own and only the append is serialised.
Rows are only inserted, so the newest is enough.

`Send` is the dashboard's `saveReview`: the form that was loaded, edited in any number
of facts (a button that is pressed again takes its fact back), with the analysis on
display, that of the review, or none. `Ids` adds what another client may name: an
analysis of another case, which is refused, or an identifier of none. The code stores
such an identifier as it is: `get_analysis` returns nothing, `update_review` goes on
without warnings, and `review_revisions` has no foreign key. An answer may be lost and
the form sent again by the referee.

## 3. Runs

| Run | Question | Bounds |
|---|---|---|
| `epoch_faults` | Under crashes, disk faults, unkillable receivers and frames that raise, is the slot held once and consumed once, is a late release harmless, and does the service implement the lease? | one session, three epochs, two threads |
| `epoch_liveness` | Does an ended epoch that is bound free the slot, and is the slot never held by nobody? | two sessions of one epoch, two threads, no crash or disk fault, frames that raise |
| `bridge` | Which metadata may a frame get, how far may it overtake, is every decoded frame counted once end to end, does the loop always take the newest frame, does it end? | three frames, one pending, deadline of one tick, a metadata cache and tombstones of two, queue of two |
| `telemetry` | Are gaps, missing lists and acknowledgements right across loss, repetition and late reading? | five sequences, two repeats, two sockets, a report capacity of two |
| `locks` | Does any interleaving close a cycle of waits? | one epoch, its two readers, two inference threads, the event loop; every call but `status` |
| `slice` | Does a frozen window stay whole, are pins, cases and windows right, does pruning spare what could be triggered, is the ring bounded, is `trigger_ready` true? | two cameras, a tick of half a segment, a window of two segments, eleven ticks, one capture, one fault |
| `pipeline` | Is a capture orphaned, a source read twice, a recording reopened; does a stop hold and come to rest? | one file, two pipelines, two threads alive |
| `tracking` | Do ids, entities, overlay, counters, log and semantic windows stay in step? | three tracker ids, four entities, gap 1, window 2, buffer 2, windows stale after 3, labels every 2 frames |
| `calibration` | Are samples under their label, is the bundle what was validated, does processing end? | three tracks, two clip jobs, one track and two samples per team required |
| `review` | Is a fact lost, a warning about the wrong analysis, a final conclusion changed, a card softened? | two referees, one analysis, one form that changes a fact, takes one back or adds none, one revision behind at most |
| `rtsp_first_read`, `locks_status` | what a comment says and the code does not keep (section 6) | one reconnection; the calls of `status` |

Why the bounds are enough to be of use. Three epochs of one session let a stale release
of the first run while the second is released and the third is allocated; two threads
let an old inference thread linger while a new one reads; with one more thread the third
is interchangeable with a finished one. Sessions matter only as the first half of a key
and for `sessions.status`; the liveness run has two of them. The queue's real size is 2
(`maxsize`), which is the size checked. A joiner with one place is empty or full, three
frames let one be lost between two others, a cache of two evicts metadata and pushes
tombstones out, and all of it meets a queue that overflows; each frame's metadata comes
once or never, since with repeated batches the first late copy takes the tombstone away
and a second may be joined to a later frame (the properties exempt such frames; the
theorems hold for any number of copies). The capacity of a missing report is 128 in the
code; with 2, gaps both below and above it occur. What
the bounds cut off for `FieldEpoch`, `LiveBridge` and `TelemetryAck` is covered by the
proofs, which have none.

For `slice`, a segment is two ticks long, so that the cameras may be half a segment
apart; the first window can be complete after four ticks, be captured, and age out of
its retention of eight before the clock ends at eleven. The tolerance is three ticks,
the code's one and a half segments, and `MaxLength` is that of a camera whose keyframes
come in time; the stall, the restart and the segment cut short by an exit make holes.
`MinAge` (a tenth of a segment in the code) is a tick, the freshness two segments, the
delays before a restart two and five segments, as they are with segments of a second.
`MaxRound = 1` and `MaxWait = 0` say that a round of the worker takes a tick at most and
is followed by the next without delay (the code polls every quarter of a second); with a
slower worker the ring is indexed later, and `PruneKeepsReady` still judges by the
round's own clock. The one fault may be a stall, an exit, a failed start, a rejected
segment, a failed unlink, freeze, remux, save or release, or a restart of either side,
and falls anywhere, a release that fails half-way among them. Two captures at once
cannot be (the coordinator's lock). All the safety properties of this run are proved
without bounds (`StatusPromise` under a condition that section 5 states): for any even
number of ticks to a segment, any offsets between the cameras, any lengths up to any
`MaxLength`, any captures and faults.

For `pipeline`, two pipelines are the one replaced and the one that replaces it, and two
threads let the old one linger, or a resume spawn a second one of the same pipeline; a
single file source is enough to tell "the same source again" from "a changed
configuration". For `tracking`, a gap of 1, a window of 2 and a buffer of 2 make every
comparison of frame counts come out either way, three ids allow a purge, a rebinding and
a bystander in one frame, and the fourth entity lets an entity number be new while all
three ids have had one. For `calibration`, the third track lets leave-one-out be
possible, a threshold of two samples lets a track be below, at and full, and the second
job lets a worker report to a later session. For `review`, the chief decides most facts,
or begins with what the model suggests, and the fourth referee whether the offender
tried to play the ball, which is the fact the tactical branches hang on; one
form of a run may change a fact or take it back (`MaxChanges`), and the fourth may save a
form that he has not changed and name an analysis that does not exist or is of another
case. A request in flight may be overtaken by one revision (`MaxLag`), and one more
would be refused by the same comparison. The proofs about these modules have no bounds,
and allow any number of facts to be entered in one form.

Liveness is checked without symmetry: `epoch_faults` and `tracking`, the two runs that
declare symmetry, check no liveness property.

Deadlock is checked for `FieldEpoch`, `ReceiverLocks` in `locks` and `locks_status`, and
`LiveSlice`. The other modules stop by their nature, when the stream has ended, the
bounds are reached or everything has been confirmed, so there it is not.

## 4. Fairness

- `FieldEpoch`: weak fairness of a handler that has begun, of each inference thread, of
  each process inside a release and of the stderr reader that sees its process end.
  These are threads the operating system schedules and code with no unbounded wait
  (`stop()` waits with timeouts). Requests, the exit of FFmpeg and faults, a frame that
  raises among them, are never required to happen.
- `LiveBridge`: weak fairness of the consumer thread and of a critical section that has
  begun to put its frames. Frames, ends of stream and releases need not come.
- `PipelineControl`: weak fairness of a handler that has begun and of each thread.
  Requests need not come; a file that never ends is allowed, and a stopped thread ends
  all the same.
- `TeamCalibration`: weak fairness of each worker thread, and nothing else. No handler
  needs to act for processing to end.
- `RtspSource`: weak fairness of the thread and of a release that has begun: the thread
  is scheduled and still never gets through.
- `ReceiverLocks`: none. That a thread gets a lock it waits for would need strong
  fairness of taking it, and Python's locks promise no order; what is claimed is that no
  set of threads waits for itself, so that somebody can always go on (`SomeoneGoesOn`).
- `LiveSlice`: weak fairness of the worker's round, the loop of `run_forever`, and
  nothing else: captures, ticks and faults need not come. A worker that has stopped is
  part of it: `ExpiredGone` assumes that somebody starts it again, which is for those who
  run it to see to: no code of the repository does.

## 5. Proofs

### The live epoch

For every set of sessions, every number of epochs and threads and every choice of
faults, under `ConstantsAssumption` alone (the event loop is not a thread, `NoKey` is
not a key, `MaxEpoch` is a natural number, the faults are those named):

- `Invariance`: `Spec => []IInv`. The properties are not inductive by themselves. That a
  running receiver has its active row can only be kept by a release that knows its
  receiver has stopped (`Stopped`) and by an allocation whose key is fresh (`Fresh`);
  freshness needs that a row that does not exist was never started (`Started`); and all
  of it needs that a process works on a key, and a thread on one that was started
  (`Targets`). `IInv` is these four, with `TypeOK` and the three state properties. One
  lemma per action.
- `TypeCorrect`, `OneActiveEpoch`, `RunningReceiverBacked`, `LiveSessionActive` follow
  from it.
- `EpochsNeverReused` and `StaleReleasesHarmless` are action properties, proved from
  `IInv` and a lemma on what each action does to the rows and on what a releasing
  process does to other keys.
- `LeaseImplemented`: `Spec => ImplementsLease`. `HolderIsActive` says what the `CHOOSE`
  of the mapping is when one row is active; then every action is a `Grant`, `Serve`,
  `Cease`, `Release` or a stutter of the lease.
- `SlotHeldByRuntime`: `Spec => []ActiveHasRuntime`. Given `IInv` it is kept by every
  step: only `AllocateBegin` makes a row active, `AllocateStart` puts its runtime there
  before the handler leaves, and the one step that drops a runtime, `ReleaseFinish`,
  releases the row with it.
- `OneConsumer`: `Spec => []SingleConsumer`, from `IInv` and
  `CInv`, which follows an epoch from `open_frame_source` through the slot to the
  thread: whoever reads it, holds it in the slot or is about to has claimed it
  (`Claimed`); a thread reads the slot's epoch only while that pipeline runs or until
  the handler that stopped it has replaced it (`SlotRuns`); and no pipeline is
  half-built between handlers (`NoNext`).

`IInv` and `CInv` of the epoch were checked by TLC before they were proved.

### The multi-view capture

For any number of cameras, any even number of ticks to a segment, any window, freshness
and delays, segments of any length up to any bound, and any number of captures and
faults, under `SliceAssumption` (natural numbers; at least one camera, a window of at
least a tick, a tolerance of one and a half segments):

- `IInv` is `TypeOK`, `Pins`, `Phases`, `ReadyComplete` and `SharedWindow`. `FrozenKept`
  is not inductive: that a frozen segment keeps its row rests on its reference count
  being positive, hence on `Pins` (what is left of the snapshot are rows, and every
  count is the leaked pins plus that of the capture under way), and that a row keeps its
  file on `rows \subseteq files` in `TypeOK`, which holds because the sweep takes only
  files without a row. A release takes one segment after another out of the snapshot;
  one that fails turns what is left of it into leaked pins. `Phases` says that nothing
  is pinned before the freeze and that a save comes after the publication.
- `WindowCovers` is the lemma about the algorithm: whatever the index and the disk hold,
  a selection of `_window_segments` that is not empty reaches back a window and leaves
  no hole, wherever its segments begin and end and however they overlap. Suppose it
  missed a whole tolerance of time; take the latest segment selected before the hole
  (`GreatestExists`, from the well-foundedness of `<`): everything above it lies beyond
  the hole, so it does not adjoin them and would not have been selected.
- `SharedEndBounded`: the end of a capture is a time that has come.
- `TypeCorrect`, `FrozenWindowKept`, `PinsExact`, `ReadyCasesComplete`, `WindowsShared`
  follow.
- `StatusKeepsPromise`, under `MaxAge <= Retention`: `HealthRows` says that a camera's
  health, if it is no older than the retention, is that of a row still in the index, so
  what `status()` calls fresh `_capture_end` calls fresh too. The hypothesis is needed:
  if a segment counts as fresh for longer than it is kept, an old pinned row can stand
  in for the pruned one, and TLC finds it (`Window = 2`, `MaxAge = 9`). The settings
  allow it; the defaults, 5 seconds against 30 and two segments, are far from it.
- `PruneSparesWindows` is the action property `PruneKeepsReady`, for the code's own
  tolerance. A selected segment ends no further below the window's begin than the
  longest hole of the selection (`HolesWithin`), since the loop stops at the segment
  that completes the window. The ring keeps two segments more than a window; less the
  longest hole, that is how old the shared end may be for the window to be spared. A
  window with a hole of one segment has one segment of margin left, and one with the
  largest hole the tolerance allows has half a one.

### The bridge

For any stream, any number of copies of metadata, any size of the cache, the tombstones,
the waiting line and the queue, any deadline and reach (`JoinerAssumption`,
`MaxSizeAssumption`; the sizes are positive).

`JoinerInv`, inductive under `[Next]_vars`, is `TypeOK` and these parts:

- `FramesKept`: a decoded frame is waiting, in order, or emitted, once; never both.
- `FewOvertaken`: the decoded frames below an emitted one that were not emitted before
  it are at most `MaxPending`. When a frame leaves out of its turn they all wait.
- `LostRemembered`, `LostPassed`: the frames emitted without metadata, all below those
  that wait, are the tombstones or older than all of them, and the list of tombstones
  grows; a tombstone leaves the set early only for metadata that has come.
- `StoredKept`: what is stored has come and is within reach of no waiting frame, and
  what came once stays until its frame is decoded, if it is not evicted.
- `UsedOnce`: metadata that was given is of its frame or an earlier one, is not stored
  any more and is not that of a waiting frame, unless it came twice.
- `EarlyJoined`: `EarlyMetadataJoined`, and no frame that waits is `early`.

Every step satisfies one description, `Call`: `k` frames leave the head of the line
without metadata (`Leave`), what is stored changes to at most `kept` (`Keep`), and
`extra` frames are given metadata from it (`Give`). `FrameCall`, `DecodedCall`,
`PlainCall` and `StillCall` show it for each action and `CallUses`, `CallLost` and
`CallReuse` show that a `Call` keeps the invariant. `Tombstones` and `MatchAll` are
folds, written as recursive functions: `TombstonesChain` and `MatchAllChain` unfold them
to a sequence of single steps, and `UpTo` (the least exception has a predecessor) is the
induction over that sequence which the library's induction theorems cannot give here.

`JoinerTyped`, `EarlyMetadataIsJoined` and `ReorderingIsBounded` follow; the last one by
an injection of the later emitted frames into those that were overtaken.
`MetadataIsUsedOnce` assumes `MaxDelta <= MaxSamples`: to be given the metadata of a lost
frame whose tombstone has been pushed out, a frame must be within `MaxDelta` of it, yet
the `MaxSamples` tombstones that pushed it out lie between. The code's 512 for a reach
of one frame meets it by far; without it the property is false (TLC: one tombstone, a
reach of two).

`FramesAreConserved` adds `Delivered`: what was emitted is about to be put, queued,
taken, dropped or refused, the counts add up, and the first three places have no frame
in common. The frames of a call are new to all of them, since they waited or were
decoded in that call; `PutKeeps` says what a put does to a queue.

`MailboxImplemented`: `BridgeSpec => ImplementsMailbox`. Counts are not enough for it;
`Placed` says where each frame is among those emitted: about to be put are the last
ones, before them lie those refused, which there are only after the close, and of the
first `Accepted` the queue holds the last, with all that was taken before them.
`CallPlaces`, `PutPlaces` and `TakePlaces` keep it, and `MailboxStep` names the step of
the mailbox that each step of the bridge is: a call sends (or stutters, when it returns
nothing), a put accepts or, after the close, stutters, and `get` takes frame number
`Accepted`, which was not taken since no frame is emitted twice.

`LoopGoesBackLittle` puts the joiner and the queue together: `BoundedReordering` speaks
of what the joiner emits, `SeenNearlyInOrder` of what `_run_loop` gets. The loop does go
back to older frames (TLC: `max_pending` one is enough), but never to more of them than
`max_pending`, whatever the queue drops. The invariant it adds is `TakenInTurn`, the loop
takes frames in the order they were emitted: what it has seen lies, by `Placed`, before
everything the queue holds. The older frames it sees after one are then mapped one to one
to frames that were emitted after it (`SeenBound`), which are few. It has no run of its
own; TLC checked both invariants on the instance of `bridge` before they were proved.

### Telemetry

For any sockets, sequences, repeats, flights and capacity of a report
(`TelemetryAssumption`). `IInv` adds to `TypeOK` and `GapsReported` that the last
sequence is the highest of those that moved it (`LastIsHighest`) and that a live epoch's
acknowledgement is the last sequence (`LiveAcked`). `GapsExact` then is a count: a batch
that jumps from `lastSeq` to `n` adds the `n - lastSeq - 1` sequences between, none of
which was counted before, and of these the report takes the lowest it has room for.
`AcksNeverGoBack` is the action property: a late batch is acknowledged with the last
sequence, which only grows.

### Locks

For any number of epochs, of inference threads and of calls, as long as no call is
`status` (with it the statement is false, as `locks_status` shows). The locks have an
order, `Rank`: a receiver's, then the service's, then a queue's or the store's. One call
breaks it: `allocate_live` takes the lock of the receiver it has just made while it
holds the service lock. `LocksInv` therefore says of every thread that what is left of
its call can be carried out, operation by operation, so that each lock taken comes after
all that are held, or is the lock of a receiver that this thread has made and not yet
started (`fresh`), and so that nothing is held at the end (`Leads`). The lemmas compose
such programs (`LeadsConcat`, `WithinLeads`), derive them for every call
(`ProgramsClosed`, `AllocationLeads`) and show that each operation leaves the rest of
the program as it should be (`LeadsTail`). Only the event loop makes receivers, and
nobody holds the lock of one that has not started but the thread that made it.

- `NoCycleOfWaits`: in a group of threads that wait for one another the lock waited for
  would rise from each to the next, in an order of three ranks (`OrderedWaits`). The lock
  of a fresh receiver is no exception: its holder would be the thread that waits for it.
- `LocksTyped`, with `HeldIsGiven`: who holds a lock still has it to give back.
- `SomeoneGoesOn`: among the threads inside a call one waits for none of them, and the
  owner of a lock is inside a call, so that one can go on.

### Pipeline control

For any sources, pipelines and threads (`BoundsAssumption`). Where threads and the
handler stand decides everything, so the invariant of `Invariance` says what each place
implies: `Places` (a thread is somewhere exactly when it has an owner, and a pipeline
that is not built has nothing), `Handling` (what the handler has built, stops or has
stopped at each of its steps), `Loops` (a pipeline with a thread in its loop has
`_running` set or is being stopped, and never has two such threads: `start()` spawns one
only when `_running` is false, which an ending loop clears first), `Released` (a capture
is released before the recorder is stopped, and a stopped pipeline's stays so),
`Recordings` (a file that was opened is being written or its source is released, so that
no frame is left that could reopen it), `Lateness` (a stopped pipeline publishes only
the frame in hand) and `Owned` (an open source is in the slot or in the handler's
hands). `NoSourceOrphaned`, `ReaderUnique`, `RecordingsKept` and `StopHolds` follow.

### Team calibration

For any tracks, thresholds and jobs (`BoundsAssumption`). `SamplesUnderLabel` is
inductive given the types, since each step that changes a label replaces the track's
samples in the same critical section. `Validated` is the part that is missing from
`CertifiedBundle`: in `ready` and `running` the bundle is the bank and the bank is
sufficient. It holds because sampling and labelling are refused in these states and no
step enters `ready` but a validation; a worker's late failure leaves `ready` and then
`CanRun` is false, whatever the bundle.

### Tracking

For any finite set of tracker ids, any gap and window with `Gap <= Window`, any buffer
(`GapAssumption`). `Pairing` is types, numbering (entities beyond `created` are unused)
and `Paired`; it is kept because an entity is taken over only from an id that is not in
the frame, whose entry `Entry` removes. `OverlayMatches` needs `Pairing` and that both
count from the same frame. `InterruptionsSettled` is an equation of cardinalities over
the three sets a frame moves tracks between, proved from the union and difference
theorems of the library. `LegalLifecycle` needs `SeenHasEntity` (an id seen in the last
frame has an entity) and `Settled`: the last state of an id says how long it has been
missing.

`EvidenceFollows` is about the windows, under any refresh interval and limit as well
(`IntervalAssumption`). `SemanticsInv` adds to the above the types of the windows
(`Windows`, by which an entity no longer kept has heard `Never`) and `HistoryFollows`
itself. The argument is in two cases: after a frame a kept player either has an id of
that frame (`Seen`) or keeps the id it had, which is not of the frame (`Unseen`), and in
both the window that `rebind_track` leaves under that id is the player's
(`InheritedKept`); feeding and pruning then change the window and what the player has
heard alike. The run checks all five under `SemanticsSpec`; `SemanticsIsTracking`
carries the four that are proved of `Spec` over to it.

### Review

For any referees, whatever they enter in a form, any analyses and lag
(`ReviewAssumption`). `LatestInv` says that the newest row is what `Row` makes of some
request: its assessment and warnings are those of its facts. `RequestInv` says of a
request in flight that it was made from an existing revision and, when none is newer,
keeps every fact of it but the edited ones (`Pending`), and that an assessed one carries
the assessment of its facts (`Ready`). `NothingLost` and `WarningsMatch` follow; the
latter says also that a row which names an identifier of no analysis carries no warnings.
`CompleteStands` rests on a lemma about the rules alone: if facts `g` keep all that facts
`f` confirm and `f` is complete, then `g` has the same restart and card. It splits on the
offence and the action, and shows for the restart, then for the card, that every fact
they read is known in `f`, since it would be in `MissingOf(f)` otherwise. That no fact
is changed or taken back is its premise, not a guarantee of the dashboard, whose buttons
do both. `FloorKept` splits the tactical rules in the same way.

### What stays with TLC

Only model-checked:

- All liveness: `EndedEpochReleased`, `ConsumerEnds`,
  `ExpiredGone`, `StoppedEnds`, `ProcessingEnds`. Liveness under fairness is out of the
  prover's reach.
- `RtspSource`, whose run is there to show a violation.

No module declares a RECURSIVE operator; where the code folds over a sequence the
modules use recursive functions, which the proofs above unfold.

## 6. Where the code and its words disagree

Shown by a run:

1. **A status request can deadlock the server** (`locks_status`). `status()` takes the
   receiver's lock inside the service's; `_read_output` takes them the other way round.
   Without `status`, `locks` finds no cycle.
2. **An RTSP source never opens** (`rtsp_first_read`). `read()` holds `_lock`, a plain
   `threading.Lock`, when it calls `_open_capture`, which takes it again; the comment in
   the constructor (source.py:152) says that the first read will trigger the opening. A
   stop then waits for the same lock on the event loop.

Visible in a model, with no run of their own:

3. **Tail frames can be left behind** (`LiveBridge`, `AskOpened`). The comment at
   source.py:305-307 says that tail frames are readable after the listener has stopped.
   If the flush and the close fall between a read that timed out and the `is_opened`
   after it, the loop ends with frames queued.
4. **A frame can get its predecessor's metadata** (`FrameJoiner`, `Match`), when the
   predecessor was lost and its metadata is still stored; the shift then persists.
   docs/FIELD_INGEST_INFERENCE_BRIDGE.md:100-101 promises the correct source frame.
5. **The acknowledgement is not contiguous** (`TelemetryAck`, `Account`): it is the
   maximum received, where docs/FIELD_INGEST_TRANSPORT_DESIGN.md:78 says the highest
   contiguous.
6. **A release is not idempotent**, though docs/FIELD_INGEST_TRANSPORT_DESIGN.md says
   that DELETE is: releasing an old epoch again sets its session back to "registered"
   though a later epoch is live or the session is complete (`ReleaseEpoch` in
   `FieldEpoch`).
7. **A known label can be lost without a margin**: the docstring at semantics.py:116-118
   says that a new label must clear a threshold and a margin before it replaces a known
   one, but `_resolve` makes the current label unknown as soon as its own share falls
   below the threshold, and from unknown the next label needs no margin.
   `TrackSemantics` leaves the outcome of the vote open.

What the models show beside their properties: a crash of the server in a capture, or a
`release_window` that raises (a busy database, a full disk), leaves its pins in the
database for ever (`leaked`), since nothing calls the release again and nothing resets
`ref_count` at start-up. The two segments of margin of the ring are shared by a
window's longest hole (up to one and a half segments) and the lag of the slowest camera
(`max_segment_age_seconds`, 5 by default), so that a window that could be triggered may
lose its oldest segment to the worker, and a trigger the freshness test lets through may
be refused for want of a window. A review may name an analysis that does not exist, and
then has no warnings, though the case has an analysis it conflicts with (`UnknownId`). A
resume that races an old loop's `finally` runs with
the flag down (`FinallyLower`), and one whose `start()` raises reports a pipeline that
does not run. A clip worker that fails late throws a later session back to clip
selection (`WorkerFails`), and a bundle that cannot be saved leaves the session in
`validating` (`ValidateRaises`). The lifespan of `server/main.py` stops the pipeline but
never closes the ingest service, as the stand-alone `field_ingest/server.py` does: an
epoch no pipeline is bound to is left to a `DELETE`.

## 7. Not modelled, and why

- The event engine: the pipeline hands it an empty ball state on every frame
  (engine.py:536), so the events it debounces cannot occur in this program.
- `FrameBuffer`: the engine constructs and closes one and never puts a frame into it.
- The publisher's push loops and the frame encoder: planned, next section.
- Localization, inference and explanation of the multi-view review, features, prototypes
  and quality scores of the calibration, the vote of the semantics: numerical code; the
  models leave its outcome open where state depends on it.
- Segments still being written, the reconnect counter and the media parameters of the
  live capture: a segment in `LiveSlice` is there when its last write is made. In the
  code one whose stream stalls for longer than the minimum age is indexed as it stands,
  with what it has so far, and a burst after a stall may make a segment longer than the
  time in which it was written.
- FFmpegs that outlive a worker killed outright (`SIGKILL`): `WorkerStops` ends them with
  it, as `stop()` does. In the code they go on writing to their old directories, which
  the next worker indexes beside those of its own.
- Camera motion samples in the joiner: data attached to a frame that never decides which
  metadata it gets.
- The parsing of FFmpeg's output, log files and manifests: pure I/O around state that is
  modelled.
- A PTS wraps at 2^33 ticks (26 hours); frames here are numbered without it.
- Detection, geometry and drawing: numerical code over real numbers and external
  libraries.
- The dashboard: requests and display, but for the form of a review.

## 8. Plan

1. `RefereeAlerts`: publication and acknowledgement of alerts over the publisher's
   clients; an alert is marked as published before it is sent.
2. `Publisher`: push loops, the client lock held across sends.
3. `PipelineControl` with a live source in place of a file, which would join it to
   `FieldEpoch`.

A project has room for some dozen runs: as modules are added, runs on the same module
are merged.
