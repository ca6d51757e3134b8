# IBVAP in TLA+

TLA+ models, TLC runs and TLAPS proofs of the backend of IBVAP (`src/ibvap` of
this repository), a video-analytics server: cameras are added over HTTP,
streamed and analysed by threads, and produce a timeline of events.

Paths below are relative to the repository root; the file names in
`PROJECT.json` carry the prefix `src/`.

## 1. The system

### Components and their state

| component | code | state | operations |
|---|---|---|---|
| camera state machine | `core/camera_state.py` | state, stream epoch, history, retry count, stable interval | `transition`, `disable`, `compute_retry_delay` |
| camera routes | `api/routes/cameras.py` | `_CAMERAS`, `_STATE_MACHINES`, `_HEALTH`, `_FRAMES`, `_PLAYBACK` | create, enable, disable, reconnect, delete, fence, playback, previews |
| stream worker | `services/stream_worker.py` | `_WORKERS`, `_STOPPING_WORKERS`, `_ACTIVE_PIPELINES`; per worker a capture thread, a stop event, an analysis thread, a one-frame slot, OCR futures | `_start_camera_worker`, `_stop_worker`, `_camera_worker`, `analyze` |
| pipeline | `core/pipeline.py` | alerted tracks, outside, unseen and miss counts, alert times, tracker, rule engine | `process_frame`, `reset_epoch`, `prune_track` |
| tracker | `core/tracker.py` | tracks with age, hits, identity | `update`, `reset_epoch` |
| outbox | `events/outbox.py` | `_EVENTS`, `_OUTBOX`, three indexes | `transactional_write`, `mark_delivered`, `clear_events` |
| persistence | `services/persistence.py` | the tables `cameras`, `outbox`, `sites` | save and delete a camera, save events, restore on start |
| detector handle | `core/model_manager.py` | detector, active readers, writing flag | `acquire`, `hot_swap` |
| model files | `core/model_manager.py`, `api/routes/models.py` | weights on disk, a temporary name per model, `_progress` | download, upload, delete, activate |
| watchlist | `core/watchlist.py` | entries, `_dirty`, a debounce timer, the JSON file | add, remove, record a sighting, match, flush |
| evidence | `core/evidence.py` | a one-worker executor, a bounded deque of futures, files | submit, evict, shut down |
| plates | `core/anpr.py`, `core/ocr_worker.py` | votes by epoch and track, the sightings list and its index | OCR jobs, consensus, sightings |
| rules | `core/rules.py` | dwell and arming by track id, emitted keys | `check_zones`, `check_tripwire`, `prune_track`, `reset` |
| assignment | `core/association.py` | none | faces to tracks, a Hungarian method |
| handover | `core/handover.py` | dossiers and three lookups | `update_observations` |
| uploads | `api/routes/uploads.py` | `_UPLOADS`, two directories | receive, finalize, delete, sweep, analyse |
| dispatcher | `core/dispatcher.py`, `api/routes/settings.py` | settings and their file | update, dispatch |
| database | `db.py` | engines and sessionmakers by URL, the current URL | `init_db`, `dispose_engine`, `get_sessionmaker` |

### How they interact

- A request handler is a coroutine on one event loop. It changes the camera's
  dict and state machine, joins threads (blocking the loop), and hands the
  database work to a task it does not wait for.
- A capture thread reads the camera's dict and machine without a lock, writes
  `observed_state` and, after a refused address, the machine.
- An analysis thread takes frames from its slot, compares the camera's epoch
  with its pipeline's, infers through the shared detector handle, and writes
  events through `transactional_write`.
- The fence routes reach into the running pipeline through `_ACTIVE_PIPELINES`.
- Requests that activate a model run in a thread pool and swap the detector
  under the inferences of all cameras.
- OCR jobs, evidence saves, watchlist timers and uploads run on threads of their
  own and come back through futures, callbacks and shared tables.
- The watchlist, the sightings and the dossiers are shared by all cameras.
- After a restart everything in memory is rebuilt from the tables and files.

### What is hard

Joins that time out and leave threads behind; two threads and a handler that
write one dict; three copies of the stream epoch; indexes that must follow two
deques evicted and cleared at different times; presences kept by five counters;
tasks whose commits come in any order; a restart between any two steps; a
readers/writer protocol on one condition variable; session hooks that fire once
and for savepoints too; futures cancelled while they run; results of an earlier
epoch or frame that arrive in a later one; files renamed and removed by several
requests. `PROJECT.json` lists each of
these at its line under `hazards`, with the property that covers it or the
reason why none does yet.

## 2. Modules

| module | models | stands on |
|---|---|---|
| `CameraStateTable` | the transition table and the epoch rule | |
| `CameraLifecycle` | handlers, worker protocol, capture and analysis threads of one camera | `CameraStateTable` |
| `FilePlayback` | the worker of a footage file against the playback requests | |
| `Viewers` | the MJPEG viewers of a camera and the thread that wakes them | |
| `Plates` | OCR jobs, votes and labels of one camera over epochs | |
| `Sightings` | the store of plate sightings | |
| `DetectorHandle` | `acquire` and `hot_swap` | |
| `ModelFiles` | downloads, uploads, deletes and activations of weights | |
| `Presence` | tracker ageing and intrusion presence of one track | |
| `TrackAssociation` | which detection is which track | |
| `TrackIdentity` | which watchlist entry a track is taken for | |
| `FaceAssignment` | which face belongs to which track: the Hungarian method | |
| `VideoAnalysis` | which frames of a clip are analysed and which faces they use | |
| `Rules` | loitering, tripwires and their cooldowns | |
| `Handover` | dossiers of subjects over cameras | |
| `WatchlistStore` | the watchlist, its file, its matches | |
| `Outbox` | the in-memory timeline and outbox with their indexes | |
| `Timeline` | abstract: what the outbox promises, without indexes | implemented by `Outbox` |
| `DurableOutbox` | events written in a database session, their mirrors, restarts | |
| `Dispatch` | settings and the relay of events to the webhook | |
| `CameraDurability` | the camera's dict, its row, save and delete tasks, restarts | |
| `DatabaseEngine` | engines, sessionmakers, the fallback database | |
| `Evidence`, `Uploads` | the evidence executor; the upload quarantine | |
| `Subsequences` | the selection of a sequence by a filter, without recursion | used by `Plates`, `Handover`, `Evidence` |
| `CameraLifecycleProofs`, `OutboxProofs`, `StreamProofs`, `StoreProofs`, `PersistenceProofs`, `SubjectProofs`, `FaceProofs`, `SubsequenceProofs` | theorems, section 4 | the modules each extends |
| `MCStores`, `MCStreams`, `MCSubjects` | sums of components for one run each | their components |
| `MCCameraLifecycle`, other `MC...` | instances of one component | |

A sum module takes several components that share no state and lets a behaviour
be one of them: `part` says which, its variables move by the component's own
next-state relation, and the others stay. The state space is the sum of the
components' (not their product), and every property is checked of its component
as if it were alone. `Parts` is the set of components to check, so that one can
be run by itself. That a sum adds nothing to its components is proved:
`StreamsImplement`, `StoresImplement` and `SubjectsImplement` say that its
specification implies the specification of each of them.

### CameraLifecycle

A worker is named by the order of its creation. `workers`, `stopping` and
`activePipe` are `_WORKERS`, `_STOPPING_WORKERS` and `_ACTIVE_PIPELINES` at this
camera; `smState`/`smEpoch`, `camEpoch` and `epochOf` are the three copies of
the epoch. A handler is a program counter `hpc`: the check and the assignment of
`transition` are separate steps (`CheckTransition`, `WriteTransition`), and so
are the assignments to the dict, the pop under `_WORKERS_LOCK`, and the end of a
join, because threads run between them. Handlers do not interleave with each
other: none of them awaits while it changes this state. A join ends at any
time: either the thread ended or the timeout ran out. The capture thread has
one action per stretch between two reads or writes of shared state. The
network is a choice: a stream opens, is refused by the address policy, or fails.

Left out: file playback and MJPEG clients (modules of their own), synthetic
cameras, the contents of frames and the health samples. `analysed` is a history variable: has the worker's
pipeline processed a frame under the epoch it has now.

### Outbox and Timeline

Both deques append right and pop left, so each is an interval of write numbers;
object identity becomes equality of numbers. One action per function, since each
holds `_LOCK` throughout. `ForgetKeys` is the eviction with its `is` test,
`ForgetIds` the one without. `clear_all`, which only tests call, is left out.
A pipeline's write (`WriteEvent`) gets a new entry id. The mirror of a database
session (`MirrorEvent`) pins the id of its key's row, the same each time; the row
has a uuid of its own or the id of an entry that is in memory already (`MakeRow`).
Once the timeline is cleared, a second mirror of a key queues its id again, and the
index leads to the newer entry until the older is evicted and takes the id along.
`UnreachableHaveTwins` says what the index keeps in spite of that.

### Presence

`ProcessFrame` composes the parts of `process_frame` in the code's order:
tripwire hysteresis, alert or outside count (`CheckZone`), visibility expiry
(`ExpireUnseen`), termination with `prune_track` (`Terminate`). The parts are
functions on a record of the track's latches, the actions choose what the
tracker does with the track: a match, a miss (possibly hidden under another
track), a drop. `shown` holds the dedup keys of the zone events, with their time
bucket, standing for `transactional_write`. One track is enough: no latch of one
track is read for another. The track's class is one of `intrusion_classes` and
it has no watchlist identity; whether its footpoint is in the zone is an input.
Field-of-view events, which touch no latch of a presence, and the dedup across
restarts of a pipeline are left out; loitering is in `Rules`.

### CameraDurability

One permanent camera. Each request is a step. A task has a step per stretch
between two awaits: `BeginSave` (the fence is copied into `meta`), `SelectRow`,
`AssignColumns` (the rest of the dict is read), `CommitSave`. An UPDATE contains
only columns that differ from what was selected, an INSERT of an existing key
and an UPDATE of a missing row fail, and the exception ends the task. `FailSave`
and `DropRow` let the database fail for other reasons. `RestartServer` kills the
pending tasks and restores. A restart whose `init_persistence` itself fails is
not modelled. `overlapped` and `lost` are history variables.

### DetectorHandle

Each `with self._cond` block up to a wait is a step. `asleep` is in
`Condition.wait`; `notify_all` makes a thread `awake`, and its next step
re-tests the condition. Between `Enter` and `TakeDetector` the lock is free.

### DurableOutbox, Dispatch

An event is its number. `SaveRow` is `save_event_with_outbox` up to its flush,
`FlushRow` the savepoint and its release, `LoseRace` the flush that meets a key
another session committed. The hooks of a session are a set, `doHook`, of those
that have not run. SQLAlchemy keeps a listener under its target, event and function
also when it was to run once and did, so a session gets each hook once in its life
(`doGiven`) and the code's attempts to listen again do nothing; the flag in `info`,
which only decides whether to try, is left out. `doMuted` is a history: rows that
were flushed in a session which had its hooks already. `EndSession` closes a session,
and the next is a new object with no hooks. `Commit` and `AfterCommit` are apart: a
crash comes between them. What SQLAlchemy does is stated in the module's comment; it
is external and modelled as version 2 behaves.

`Dispatch` has the settings in memory and in their file, which a failed write can
tear, and a dispatch per event: asked for only by a writer on the event loop
(`WriteOnLoop`), not by a pipeline (`WriteOnThread`).

### Evidence, Uploads, ModelFiles, WatchlistStore, Sightings, DatabaseEngine

Each is split where its code gives up a lock or awaits. `Evidence` has one call
per save in four steps, the worker in three. In `Uploads` requests are atomic
between awaits, and the retention sweep, a thread, moves entry by entry and file
by file; data on disk is a set of pairs of upload and directory. In `ModelFiles`
a file is named by its creator and holds, for each half, the writer of the bytes,
so that a shared temporary file, a rename under a writer and a mixture can be
told. `WatchlistStore` counts sightings up to `MaxSeen` and matches plates by
the code's rules (exact, confused characters, one difference for long plates).
`Sightings` stamps before the lock, so stamps arrive out of order within `Skew`.
`DatabaseEngine` steps from await to await; a local URL or the fallback is a
choice of the environment.

### FilePlayback, Viewers, Plates, VideoAnalysis

`FilePlayback` splits the worker where it takes the playback lock and where a
request may change what it has read. `Viewers` splits the capture thread between
storing a frame, counting it, finding the viewers and setting their events, and
a generator between its wait, the clearing of its event and its read. In
`Plates` a frame is two steps of the analysis thread and a job two of the OCR
thread; a reconnect bumps the epoch between any of them. A vote carries the epoch
its crop was taken in and a label the epochs of the votes for its text (`from`),
apart from the epoch of the job that returned it (`epoch`): histories, which tell a
late read from a late vote. `VideoAnalysis` runs `process_video_file` over clips of
four frames that show a person, a face alone, nobody, or cannot be decoded. An
analysed frame is four steps, which hand on `last_faces` (`vaFaces`),
`_last_face_frame` (`vaCrop`) and the flag `new_faces_detected` (`vaNew`). The flag
is reset as a frame begins and set last in the search, which can fail before any of
its three assignments; the steps that use faces look at the flag, and
histories record of which frame the faces were that they used.

### TrackAssociation, TrackIdentity, FaceAssignment, Rules, Handover

Numbers are abstracted to what their comparisons tell apart: a box is an interval
of one dimension in thousandths, a score is RED or AMBER, a cost is in
hundredths, time is in seconds of small bounds. What is compared, in which order,
and what wins is the code's. `TrackIdentity` follows a frame through its three
passes (plates, tracker, faces), because exclusivity is restored in the last.
`TrackAssociation` has a step per round of the loops of `update`: which detection
is kept or dropped, which candidate pair is taken, which detection starts a track.
A loop over sorted candidates takes the first of what is left, in the order the
sort gives (`ByOverlap`, `ByDistance`, ties as they were put in); taking a pair
removes the pairs that share its detection or its track, which the code skips.
Nothing else runs between the rounds, since the call is one. Persons of an
impossible height for their width are dropped in the code and no input here.
`FaceAssignment` runs the Hungarian method row by row with its potentials.
`Rules` keeps, as history, the frames each track was checked in, so that
`LoiterMeansDwell` can say what the dwell is from the frames alone. `Handover`
has a step per track and plate of an update, since observations change between
them.

## 3. Runs

| run | question | components and bounds | distinct states |
|---|---|---|---|
| `lifecycle` | threads, registration, epochs; disable and delete end the capture | 2 workers, 1 reconnect, under fairness | 790 000 |
| `stores` | what is kept stays true and bounded | ten components, below | 894 000 |
| `streams` | no lost wakeups, no reads of another epoch, no faces of another frame | five components | 314 000 |
| `subjects` | presences, dwell, identities and matches are what the frames say | six components | 880 000 |

Why the bounds are enough:

- **lifecycle**: two workers are what a stuck thread and its successor need; a
  third would need a third start while two threads live, which `OneCaptureThread`
  excludes (for any number, by proof). One reconnect lets an epoch rise under an
  old pipeline.
- **outbox**: deques of 2, equal as the code's are; a clear empties one and not the
  other, so that a key leaves one index and stays in the other; four writes evict
  from both twice, and a key is written, cleared and mirrored again.
- **durability**: two save tasks are the shortest race. **durable**: two sessions,
  four events of one key or none, two rows restored: a savepoint between two saves,
  a race for the key, and a row older than the restored ones.
- **evidence**: three saves, a deque of two: one is evicted while it is queued,
  running or done. **uploads**: two uploads, one finalize, the sweep. **models**:
  two writers and two models, of which one is the base, a delete and an
  activation. **watchlist**: two plates and a face, three timers: one cancelled,
  one waiting, one armed. **sightings**: two plates, a list of two, four records.
  **database**: four engines, one restart.
- **detector**: three readers (one in the inference, one asleep, one arriving), two
  writers. **viewers**: two viewers, three frames: one before, while and after a
  subscription. **plates**: two jobs over two epochs, two track ids used again; the vote of
  two old reads against a new one needs three jobs and a window of three, which
  `plates_votes` has.
  **playback**: two frames, three requests. **video**: clips of four frames, one or
  two analysed, so that a search may follow a search, a stride or a failure.
- **presence** keeps the order relations of the real constants: the debounce and
  the cooldown are shorter than the bucket, the outside limit is reachable within
  the clock, a drop limit beyond the visibility expiry. Frames are 0 or 1 s apart.
  `presence_returnee` uses the real thresholds (15, 3, 5, 4 s, 3 s, 10 s); only
  `MaxAge` is lower, which its behaviour does not reach.
- **rules**: six frames hold a stay that is long enough, one that is interrupted
  for fewer and for enough frames, and a second stay. **association**: up to three
  detections per frame, two frames, boxes that overlap, leave the picture, are
  turned round or too small. **faces**: up to three tracks and three faces with
  every choice of two or three costs, so both orientations of the matrix.
  **identity**: two tracks, a critical face and a plate. **handover**: two cameras,
  two tracks, three dossiers against a limit of one.

`CHECK_DEADLOCK FALSE` is set where the model may stop: after a shutdown, a
delete, or at the bound of a clock, of workers, of events or requests.

### Fairness

`lifecycle` assumes that a handler which has begun continues (its joins have
timeouts) and that every thread is scheduled; opening a stream ends
(`pin_stream_url` and the open options have timeouts) and so does a backoff. No
request is assumed to come, no stream to work. `streams` assumes that a thread
which holds or waits for the detector is scheduled and that an inference ends,
that the playback worker, the capture thread and the event loop go on with what
is ready, and that a stop request which has begun ends; nobody has to begin an
inference, send a request, capture a frame or leave. `relay` assumes that a
dispatch that was started runs and that a post ends.

### Where code and documentation disagree

Eight runs expect a violation. Each checks one sentence of the repository; the
findings in `PROJECT.json` quote it and tell the counterexample.

| run | the sentence | what happens |
|---|---|---|
| `lifecycle_epochs` | track ids are "local per camera+epoch" | enable starts a new pipeline under the old epoch |
| `lifecycle_reconnect` | a reconnect "starts cleanly" | a refused spawn leaves no worker, for good |
| `presence_returnee` | "a returnee re-alerts instead of staying muted" | not within the ten-second dedup bucket |
| `durability_disabled` | "Disabled never auto-restarts" | a disable that races the save of the create is lost |
| `detector_starved` | a swap waits "for all in-flight inferences" | the second of two swaps can wait for ever |
| `relay` | events are "optionally relayed" to webhooks | not what a camera's thread writes: it has no event loop |
| `plates_votes` | "a dead vehicle's votes can never decide a new vehicle's plate" | jobs that start after the bump vote for the old vehicle under the new key |
| `weights_mixed` | "Atomically persist uploaded or downloaded weights" | two writers share one temporary file |

Seven more findings have no run of their own: what the models do at these places
was translated from the code and contradicts a comment. They are:

- a mirror after a clear queues its row's id a second time, and only one of the two
  entries is found by it (`UnreachableHaveTwins` says which entries are);
- the second save of a session is committed and never mirrored, since a hook that
  has run cannot be given to the session again (`doMuted`; `FirstMirrorsAreShown` is
  about every other row);
- a delete that overtakes a save finds no row, and the late INSERT brings the
  camera back (`SerialSavesAgree` is about requests that do not overlap);
- a lone face that is not searched for;
- a mirror drained by a savepoint before a rollback;
- a lost key race that ends the caller's transaction;
- plates that stay shown.

## 4. Theorems

Each theorem holds for every value of the constants that satisfies the named
assumptions of its module, and so for any number of threads, tasks, tracks,
entries, frames or restarts; the bounds of section 3 are values of TLC only. Every
safety property of a passing run is a theorem, of the specification of its
component and, by `StreamsSafe`, `StoresSafe` and `SubjectsSafe`, of the very
specification the run checks. TLC checks them on the small instances as well.

The assumptions say what the code's own constants satisfy. Beyond "this is a
natural number" and "this value is none of those" they are: the timeline is not
longer than the outbox (10 000 both); readers and evidence saves are finitely
many; there is at least one camera for `Handover`; a glitch track is dropped no
later than an identified one (`GlitchAge <= MaxIdentityAge`, 3 and 30 in
`core/tracker.py`); `Loiter >= RuleCooldown` (10 s both at `core/pipeline.py:104`,
10 and 5 by default); a rule key is kept for two cooldowns. TLC evaluates all of
them in every run that extends the module.

A theorem named `...Invariant` gives the inductive invariant, from which the
others follow. Per module:

- **CameraLifecycleProofs.** `OneCaptureThread` alone is not inductive: to start a
  thread safely one must know where the others are. `IInv` adds `NoLostThread`
  (a live thread is registered, being joined, or in `_STOPPING_WORKERS`) and
  `HandlerInv` (what the handler's position says: in `stopjoin` exactly, a thread
  is being joined; in `startjoin` no live thread is registered; workers above
  `spawned` do not exist). `FinishStart` then starts a thread only when none is
  registered, none is joined and none of the stopping ones lives. The epoch
  chain and its growth follow by their own induction, `ActivePipelineRuns` from
  `IInv` and the registration of pipelines. *Coming to rest* is the safety that
  `StoppedCameraQuiesces` needs: a thread of a disabled or deleted camera was told
  to stop, is about to be, or will read the flag before it opens a stream
  (`HaltedThreadsAreTold`: the stop event is per worker, so a thread in
  `_STOPPING_WORKERS` has its own still set); such a thread has at most four steps
  left and each of its steps takes one away, whatever fails or reconnects
  (`ToldThreadsLeave`); and a deleted camera gets no thread again
  (`DeletedStaysDeleted`). What is left to fairness is that the threads run.
- **OutboxProofs.** The event index is exactly the keyed part of the timeline, the
  outbox index agrees with it and points at nothing evicted, and the outbox reaches
  back at least as far as the timeline; this is why `MaxEvents <= MaxOutbox` is
  needed: with a shorter outbox a key would be forgotten while its event is shown.
  The refinement of `Timeline` follows step by step: `~Duplicate` implies that
  the key is not in the timeline. `MissedEntriesHaveTwins`: an entry that its id does
  not lead to was superseded by a newer entry of that id or lost it with an evicted
  one, since only those two steps touch an id. `Timeline` does not oblige anyone to write; that
  a write is dropped only when the timeline shows its key is
  `DuplicateFindsItsEvent`.
- **PersistenceProofs.** *Engines*: up to the fallback only the configured URL has
  an engine, after it both URLs share the one made since; no cached engine is
  disposed of, or about to be. *Save tasks*: while nothing overlapped there is one
  task, and what it has read is still so, because dict and row change by requests
  and tasks only (`ReadIsFresh`); its columns then make the row the camera whatever
  the row was. *Outbox rows*: an open row was shown by a savepoint, or was
  deferred after the session had been given its hooks (`doMuted`), or is awaited:
  among the deferred of a session whose commit hook has not run (`OpenIsDeferred`,
  `Awaited`), so that the commit that makes it a row drains it too.
  `FirstMirrorsAreShown` is not inductive without this. *Idempotency*: no dedup key ever has two rows, committed
  or flushed, nor two events in the timeline (`DurableRecordsOnce`). A session that
  is about to add a row has none of that key itself (`AddingIsNew`), the flush
  waits for every session that has one and fails on a committed one, and a mirror
  is put in only if its key is not shown: so a race, a savepoint, a lost flush or a
  restart never shows an event twice, although it can show one that was rolled
  back. The invariant was checked by TLC before it was proved. *Dispatcher*: its
  types; what is in force is settings, whatever its file holds. The sum `MCStores`
  ends this module.
- **StreamProofs.** *Detector*: `_active_readers` is the number of threads between
  acquire and release, so a swap meets no reader, and the last reader's
  notification is never missed. *Viewers*: a viewer whose count is the present one
  has been sent the stored frame, unless that was stored after the count, and then
  the count and the events are still to come; `NoViewerForgotten` is the safety
  core of `ViewersCatchUp`. *Playback*: `SeekSurvives` by cases over the worker's
  steps; `PlaybackHeedsStop`: once a stop or a disable is out, no seek, resume or
  restart takes it back and the worker leaves within six of its own steps, the
  safety core of `RequestsTakeEffect` for stops. *Plates*: every pending future is of the pipeline's epoch and, on its way
  to a result, has its track, and what is queued is pending: a frame that drops a
  future cancels it while it waits. So no crop of an epoch the pipeline has left is
  still to be read; that votes cast before decide nothing is not proved, because it is
  false (`plates_votes`). *Clips*: from the reset on, a set flag means that the faces
  and the frame they are cut from are those at hand (`FlagIsOfThisFrame`), whichever
  of the search's assignments an exception left out.
- **SubjectProofs.** *Presence*: the parts of `process_frame` are lemmas on the
  latches of a track; an alerted track's age is covered by its hidden frames and
  its unseen streak, which bounds it. *Identities*: `Exclusive` leaves an entry to
  one holder whatever the order of claims; a lock names a suspect and each vote is
  of the history. *Dossiers*: an id leaves the lookups in the step that prunes it,
  and pruning takes exactly what is too much because "seen longer ago, or inserted
  before" is a total order. *Loitering*: what the engine keeps of a track is what
  the frames since its last reset say; no report is withheld by the cooldown,
  because the last one was before the stay, which is as long by now: here
  `Loiter >= RuleCooldown` is used. *Association*: a round takes what is ahead of
  all it removes, so a candidate that is gone has met a pair it does not overlap
  more than (`Candidates`), and what a stage has before it meets no pair yet
  (`OutOfReach`); the second is why no detection and no track is matched twice in
  any of the four stages. Boxes are any integers, turned round or outside.
- **StoreProofs.** *Watchlist*: that some timer is alive is not inductive, since
  that one could be a stray which a cancel missed; that the *current* timer of a
  dirty store is alive is. *Uploads*: a file is in one place, which `data["path"]`
  names, and the sweep keeps what it has still to visit; so what is past its
  retention when the sweep ends belongs to no request that could still rename it.
  *Weights*: the owner of a progress is a download between its begin and its end,
  and reports when it ends; an upload need not.
  *Sightings*: the list is in the order of the records, and the one
  that leaves takes the index entry of its plate with it. *Evidence*: a save that
  waits has a place in the deque, or a call that has yet to give it one, or a call
  that took it away and will cancel it, and each call answers for one save: that
  is what bounds the executor's queue. The deque holds no future twice, and
  whoever finishes or cancels one takes it out.
- **FaceProofs.** The duality argument of the Hungarian method, for the loop as it is
  written, with its deltas, marks and links. *Invariant*: `u[i] + v[j]` is at most
  the cost of a pair and is the cost of a matched pair; `v` is nowhere positive
  and 0 for a free column; `mins` are the least distances from the rows of the
  search to the columns outside it, and `links` say from where, so a turn of the
  loop lowers nothing below 0. `Augment` walks `links` against a rank that grows
  along the search, so it never comes to a column twice and ends at the added row,
  and each row it passes keeps a column. *Sums*: `SumFunctionOnSet` takes elements
  in the order of `CHOOSE`; `SumIs` shows that its order does not matter, by least
  counterexamples, since induction theorems cannot be cited. Then any matching
  costs at least the sum of `u` and of the `v` of its columns, at least the sum of
  all `u` and `v`, and that is what the pairs given cost. A delta can be negative
  in the first turn, when the bonus of a known track makes a cost negative; that
  first distances lie below `Infinity` (infinite in the code) is needed there. The
  sum `MCSubjects` ends this module, which builds on `SubjectProofs`.
- **SubsequenceProofs.** Lemmas about `Where`, the selection of a sequence by a
  filter: its elements, its order, its length. The prover cannot do the induction
  that the library's recursive `SelectSeq` needs, so `Subsequences` defines the
  selection by its positions, and `MCStreams` has TLC compare the two on all short
  sequences (`WhereSelects`).

Only model-checked:

- liveness (`StoppedCameraQuiesces`, `WaitersGetThrough`, `RequestsTakeEffect`,
  `ViewersCatchUp`): it needs fairness and ENABLED, which the prover does not
  treat. The safety each rests on is proved, as said above: threads that are told
  to leave have few steps left, no notification or frame is forgotten;
- the eight runs that expect a violation, where there is nothing to prove.

## 5. Mutants

Every property of a passing run has a mutant: an operator whose name ends in
what it breaks, such as `RefuseSpawn_never`, defined before the definition it
can replace. With the replacement TLC finds the property violated.

## 6. Plan

1. `DurableOutbox` composed with `Outbox`: the sessions' mirrors as the pinned writes,
   with eviction; that the composition still implements `Timeline`.
2. `Fence`: the window between reading the saved fence and registering the
   pipeline, composed with `CameraLifecycle`.
3. Epochs that repeat over restarts, in `CameraDurability`.
4. The retry counter and stable interval of the state machine.

## 7. Not modelled

Detection, face embedding, night analysis and geometry are numeric; their results
are inputs of the models. Address policy, probing, credentials and
authentication validate single values; their verdict is a choice in `OpenStream`
and `Dispatch`. Routes that only read, the test ping, configuration, logging,
migrations, scripts and the frontend keep no state of interest. `BoundedQueue` and
the alert workflow have state, but the server never uses them: the pipeline
constructs two queues and puts nothing in, and only a test creates an alert.
`PROJECT.json` lists every component with its status and what is left out of it.
