-------------------------- MODULE CameraLifecycle --------------------------
(***************************************************************************)
(* One camera of the backend: the request handlers of                      *)
(* api/routes/cameras.py, the worker start/stop protocol of                *)
(* services/stream_worker.py, and the capture and analysis threads each    *)
(* worker runs.                                                            *)
(*                                                                         *)
(* The handlers are coroutines that do not await while they change this    *)
(* state, and _stop_worker / _start_camera_worker join threads on the      *)
(* event loop, so at most one handler is inside the protocol at a time     *)
(* (hpc); the threads interleave with every step of it.  A worker is       *)
(* named by the order of its creation, 1..MaxWorkers.  Sources are live    *)
(* streams; the file-playback loop is not in this module.                  *)
(***************************************************************************)
EXTENDS Naturals, Sequences, FiniteSets, CameraStateTable

CONSTANTS MaxWorkers,   \* bound on worker threads created
          MaxEpoch      \* bound on reconnect requests

ASSUME MaxWorkersAssumption == MaxWorkers \in Nat
ASSUME MaxEpochAssumption == MaxEpoch \in Nat

Worker == 1 .. MaxWorkers
NoWorker == 0
Op == {"none", "create", "enable", "disable", "reconnect", "delete", "shutdown"}
HandlerPc == {"idle", "transition", "write", "fields", "stop", "stopjoin",
              "start", "startjoin", "cleanup", "down"}
CapturePc == {"none", "spawned", "building", "check", "opening", "admit", "live",
              "blocked", "failing", "caught", "backoff", "leaving", "dead"}
AnalysisPc == {"none", "idle", "waiting", "busy", "dead"}

VARIABLES
  phase,        \* is the camera in _CAMERAS: "absent", "present" or "deleted"
  smPresent,    \* is its state machine in _STATE_MACHINES
  smState,      \* CameraStateMachine.state
  smEpoch,      \* CameraStateMachine.stream_epoch
  desired,      \* cam["desired_state"]
  observed,     \* cam["observed_state"]
  camEpoch,     \* cam["stream_epoch"]
  op,           \* the request being handled
  hpc,          \* where its handler is
  script,       \* the transitions the handler has still to make
  joining,      \* the thread _stop_worker is joining
  workers,      \* the thread registered in _WORKERS
  stopping,     \* the threads in _STOPPING_WORKERS
  spawned,      \* how many workers were created
  pc,           \* the capture thread of each worker
  stop,         \* its stop event
  apc,          \* its analysis thread
  slot,         \* is a frame in its single-slot analysis handoff
  epochOf,      \* its pipeline's stream_epoch
  analysed,     \* has its pipeline processed a frame under that epoch
  activePipe    \* the worker whose pipeline is in _ACTIVE_PIPELINES

camera == <<phase, smPresent, smState, smEpoch, desired, observed, camEpoch>>
handler == <<op, hpc, script, joining, workers, stopping, spawned>>
threads == <<pc, stop, apc, slot, epochOf, analysed>>
vars == <<camera, handler, threads, activePipe>>

TypeOK ==
  /\ phase \in {"absent", "present", "deleted"}
  /\ smPresent \in BOOLEAN
  /\ smState \in CameraState
  /\ smEpoch \in Nat
  /\ desired \in {"STREAMING", "DISABLED"}
  /\ observed \in CameraState
  /\ camEpoch \in Nat
  /\ op \in Op
  /\ hpc \in HandlerPc
  /\ script \in Seq(CameraState)
  /\ joining \in Worker \cup {NoWorker}
  /\ workers \in Worker \cup {NoWorker}
  /\ stopping \in SUBSET Worker
  /\ spawned \in 0 .. MaxWorkers
  /\ pc \in [Worker -> CapturePc]
  /\ stop \in [Worker -> BOOLEAN]
  /\ apc \in [Worker -> AnalysisPc]
  /\ slot \in [Worker -> BOOLEAN]
  /\ epochOf \in [Worker -> Nat]
  /\ analysed \in [Worker -> BOOLEAN]
  /\ activePipe \in Worker \cup {NoWorker}

Init ==
  /\ phase = "absent" /\ smPresent = FALSE /\ smState = "DRAFT" /\ smEpoch = 0
  /\ desired = "STREAMING" /\ observed = "DRAFT" /\ camEpoch = 0
  /\ op = "none" /\ hpc = "idle" /\ script = <<>>
  /\ joining = NoWorker /\ workers = NoWorker /\ stopping = {} /\ spawned = 0
  /\ pc = [w \in Worker |-> "none"]
  /\ stop = [w \in Worker |-> FALSE]
  /\ apc = [w \in Worker |-> "none"]
  /\ slot = [w \in Worker |-> FALSE]
  /\ epochOf = [w \in Worker |-> 0]
  /\ analysed = [w \in Worker |-> FALSE]
  /\ activePipe = NoWorker

Alive(w) == pc[w] \notin {"none", "dead"}
AliveIn(S) == {w \in S : Alive(w)}
RegisteredAlive == workers # NoWorker /\ Alive(workers)

(* (sm and sm.is_disabled()) or cam["desired_state"] == "DISABLED" *)
Disabled == (smPresent /\ smState = "DISABLED") \/ desired = "DISABLED"

(* Mutations: the loops stop looking at the flags, or at the stop event. *)
ToldToLeave_never(w) == FALSE
ToldToLeave_disabledOnly(w) == Disabled

(* A capture thread that reads its stop event or the disabled flag leaves. *)
ToldToLeave(w) == stop[w] \/ Disabled

(* Mutation: a new pipeline takes its epoch from the state machine. *)
PipelineEpoch_machine == smEpoch

(* MiniPipeline(stream_epoch=cam["stream_epoch"]) *)
PipelineEpoch == camEpoch
-----------------------------------------------------------------------------
(***************************************************************************)
(* Requests.  Each runs on the event loop when no other handler is inside. *)
(***************************************************************************)
Begin(o, next) == op' = o /\ hpc' = next

CreateCamera ==
  /\ hpc = "idle" /\ phase = "absent" /\ spawned < MaxWorkers
  /\ phase' = "present" /\ smPresent' = TRUE
  /\ smState' = "STREAMING" /\ observed' = "STREAMING" /\ desired' = "STREAMING"
  /\ Begin("create", "start")
  /\ UNCHANGED <<smEpoch, camEpoch, script, joining, workers, stopping, spawned,
                 threads, activePipe>>

EnableCamera ==
  /\ hpc = "idle" /\ phase = "present" /\ spawned < MaxWorkers
  /\ IF smState = "DISABLED"
       THEN Begin("enable", "transition") /\ script' = EnablePath
       ELSE Begin("enable", "start") /\ script' = <<>>
  /\ UNCHANGED <<camera, joining, workers, stopping, spawned, threads,
                 activePipe>>

DisableCamera ==
  /\ hpc = "idle" /\ phase = "present"
  /\ Begin("disable", "transition") /\ script' = DisablePath
  /\ UNCHANGED <<camera, joining, workers, stopping, spawned, threads,
                 activePipe>>

(* A disabled camera is refused with 400 before anything changes. *)
ReconnectCamera ==
  /\ hpc = "idle" /\ phase = "present" /\ spawned < MaxWorkers /\ smEpoch < MaxEpoch
  /\ smState # "DISABLED"
  /\ Begin("reconnect", "transition") /\ script' = ReconnectPath
  /\ UNCHANGED <<camera, joining, workers, stopping, spawned, threads,
                 activePipe>>

DeleteCamera ==
  /\ hpc = "idle" /\ phase = "present"
  /\ phase' = "deleted"
  /\ Begin("delete", "stop")
  /\ UNCHANGED <<smPresent, smState, smEpoch, desired, observed, camEpoch, script,
                 joining, workers, stopping, spawned, threads, activePipe>>

(* The shutdown half of the application's lifespan. *)
Shutdown ==
  /\ hpc = "idle" /\ phase = "present"
  /\ Begin("shutdown", "stop")
  /\ UNCHANGED <<camera, script, joining, workers, stopping, spawned, threads,
                 activePipe>>
-----------------------------------------------------------------------------
(***************************************************************************)
(* CameraStateMachine.transition, called from a handler.  Nothing locks    *)
(* the machine: the check and the assignment are separate steps.           *)
(***************************************************************************)
CheckTransition ==
  /\ hpc = "transition"
  /\ IF CanTransition(smState, Head(script))
       THEN hpc' = "write" /\ UNCHANGED <<op, script>>
       ELSE Begin("none", "idle") /\ script' = <<>>     \* ValueError: an error response
  /\ UNCHANGED <<camera, joining, workers, stopping, spawned, threads,
                 activePipe>>

WriteTransition ==
  /\ hpc = "write"
  /\ smState' = Head(script)
  /\ smEpoch' = NextEpoch(smEpoch, Head(script))
  /\ script' = Tail(script)
  /\ hpc' = IF Tail(script) = <<>> THEN "fields" ELSE "transition"
  /\ UNCHANGED <<phase, smPresent, desired, observed, camEpoch, op, joining,
                 workers, stopping, spawned, threads, activePipe>>

(* The handler copies the machine's state into the camera's dict. *)
AssignFields ==
  /\ hpc = "fields"
  /\ observed' = smState
  /\ desired' = CASE op = "disable" -> "DISABLED"
                  [] op = "enable" -> "STREAMING"
                  [] OTHER -> desired
  /\ camEpoch' = IF op = "reconnect" THEN smEpoch ELSE camEpoch
  /\ hpc' = IF op = "enable" THEN "start" ELSE "stop"
  /\ UNCHANGED <<phase, smPresent, smState, smEpoch, op, script, joining, workers,
                 stopping, spawned, threads, activePipe>>
-----------------------------------------------------------------------------
(***************************************************************************)
(* _stop_worker and _start_camera_worker.  Each access to _WORKERS and     *)
(* _STOPPING_WORKERS is one critical section of _WORKERS_LOCK; a join ends *)
(* when the thread does or when its timeout runs out, whichever it is.     *)
(***************************************************************************)
AfterStop ==
  CASE op = "reconnect" -> Begin(op, "start")
    [] op = "delete"    -> Begin(op, "cleanup")
    [] op = "shutdown"  -> Begin(op, "down")
    [] OTHER            -> Begin("none", "idle")

StopWorker ==
  /\ hpc = "stop"
  /\ IF workers = NoWorker
       THEN AfterStop /\ UNCHANGED <<joining, workers, stop>>
       ELSE /\ stop' = [stop EXCEPT ![workers] = TRUE]
            /\ joining' = workers /\ workers' = NoWorker
            /\ Begin(op, "stopjoin")
  /\ UNCHANGED <<camera, script, stopping, spawned, pc, apc, slot, epochOf,
                 analysed, activePipe>>

(* Mutations: the thread is looked up after _WORKERS was popped, or dropped. *)
StillStopping_afterPop(w) == IF Alive(w) THEN {workers} ELSE {}
StillStopping_dropped(w) == {}

(* What _stop_worker adds to _STOPPING_WORKERS when a join has ended. *)
StillStopping(w) == AliveIn({w})

FinishStop ==
  /\ hpc = "stopjoin"
  /\ stopping' = stopping \cup StillStopping(joining)
  /\ joining' = NoWorker
  /\ AfterStop
  /\ UNCHANGED <<camera, script, workers, spawned, threads, activePipe>>

StartCheck ==
  /\ hpc = "start"
  /\ IF RegisteredAlive THEN Begin("none", "idle") ELSE Begin(op, "startjoin")
  /\ UNCHANGED <<camera, script, joining, workers, stopping, spawned, threads,
                 activePipe>>

(* Mutation: the threads still stopping are not looked at again. *)
RefuseSpawn_never == FALSE

(* "refusing_double_spawn_stopping_thread_still_alive" *)
RefuseSpawn == AliveIn(stopping) # {}

FinishStart ==
  /\ hpc = "startjoin"
  /\ IF RegisteredAlive \/ RefuseSpawn
       THEN /\ stopping' = IF RegisteredAlive THEN stopping ELSE AliveIn(stopping)
            /\ UNCHANGED <<workers, spawned, pc>>
       ELSE /\ spawned' = spawned + 1
            /\ workers' = spawned + 1
            /\ stopping' = {}
            /\ pc' = [pc EXCEPT ![spawned + 1] = "spawned"]
  /\ Begin("none", "idle")
  /\ UNCHANGED <<camera, script, joining, stop, apc, slot, epochOf, analysed,
                 activePipe>>

(* The rest of the delete handler, after its _stop_worker returned. *)
CleanupDeleted ==
  /\ hpc = "cleanup"
  /\ smPresent' = FALSE /\ activePipe' = NoWorker
  /\ Begin("none", "idle")
  /\ UNCHANGED <<phase, smState, smEpoch, desired, observed, camEpoch, script,
                 joining, workers, stopping, spawned, threads>>

HandlerStep ==
  \/ CheckTransition \/ WriteTransition \/ AssignFields
  \/ StopWorker \/ FinishStop \/ StartCheck \/ FinishStart \/ CleanupDeleted

Request ==
  \/ CreateCamera \/ EnableCamera \/ DisableCamera \/ ReconnectCamera
  \/ DeleteCamera \/ Shutdown
-----------------------------------------------------------------------------
(***************************************************************************)
(* The capture thread: _camera_worker on a live source.                    *)
(***************************************************************************)
GoTo(w, next) == pc' = [pc EXCEPT ![w] = next]

(* cam = _CAMERAS[camera_id] (KeyError once deleted), then cam["stream_epoch"]. *)
LookupCamera(w) ==
  /\ pc[w] = "spawned"
  /\ IF phase = "present"
       THEN GoTo(w, "building") /\ epochOf' = [epochOf EXCEPT ![w] = PipelineEpoch]
       ELSE GoTo(w, "dead") /\ UNCHANGED epochOf
  /\ UNCHANGED <<camera, handler, stop, apc, slot, analysed, activePipe>>

(* The pipeline is registered and the analysis thread started. *)
BuildPipeline(w) ==
  /\ pc[w] = "building"
  /\ GoTo(w, "check")
  /\ activePipe' = w
  /\ apc' = [apc EXCEPT ![w] = "idle"]
  /\ UNCHANGED <<camera, handler, stop, slot, epochOf, analysed>>

LoopHead(w) ==
  /\ pc[w] = "check"
  /\ GoTo(w, IF ToldToLeave(w) THEN "leaving" ELSE "opening")
  /\ UNCHANGED <<camera, handler, stop, apc, slot, epochOf, analysed, activePipe>>

(* pin_stream_url and av.open: opened, refused by the SSRF policy, or failed. *)
OpenStream(w) ==
  /\ pc[w] = "opening"
  /\ \/ GoTo(w, IF ToldToLeave(w) THEN "leaving" ELSE "admit")
     \/ GoTo(w, "blocked")
     \/ GoTo(w, IF stop[w] THEN "leaving" ELSE "caught")
  /\ UNCHANGED <<camera, handler, stop, apc, slot, epochOf, analysed, activePipe>>

MarkStreaming(w) ==
  /\ pc[w] = "admit"
  /\ GoTo(w, "live")
  /\ observed' = "STREAMING"
  /\ UNCHANGED <<phase, smPresent, smState, smEpoch, desired, camEpoch, handler,
                 stop, apc, slot, epochOf, analysed, activePipe>>

(* One decoded frame goes to the analysis slot, over any frame still there. *)
ReceiveFrame(w) ==
  /\ pc[w] = "live"
  /\ IF stop[w] THEN GoTo(w, "check") /\ UNCHANGED slot
                ELSE slot' = [slot EXCEPT ![w] = TRUE] /\ UNCHANGED pc
  /\ UNCHANGED <<camera, handler, stop, apc, epochOf, analysed, activePipe>>

(* The stream ends (the loop opens it again) or fails. *)
LoseStream(w) ==
  /\ pc[w] = "live"
  /\ \/ GoTo(w, "check")
     \/ GoTo(w, IF stop[w] THEN "leaving" ELSE "caught")
  /\ UNCHANGED <<camera, handler, stop, apc, slot, epochOf, analysed, activePipe>>

MarkReconnecting(w) ==
  /\ pc[w] = "caught"
  /\ GoTo(w, "backoff")
  /\ observed' = "RECONNECTING"
  /\ UNCHANGED <<phase, smPresent, smState, smEpoch, desired, camEpoch, handler,
                 stop, apc, slot, epochOf, analysed, activePipe>>

EndBackoff(w) ==
  /\ pc[w] = "backoff"
  /\ GoTo(w, IF stop[w] THEN "leaving" ELSE "check")
  /\ UNCHANGED <<camera, handler, stop, apc, slot, epochOf, analysed, activePipe>>

(* except SSRFError: the check of sm.transition(FAILED); its ValueError is caught. *)
CheckBlocked(w) ==
  /\ pc[w] = "blocked"
  /\ IF smPresent /\ CanTransition(smState, "FAILED")
       THEN GoTo(w, "failing") /\ UNCHANGED observed
       ELSE GoTo(w, "leaving") /\ observed' = "FAILED"
  /\ UNCHANGED <<phase, smPresent, smState, smEpoch, desired, camEpoch, handler,
                 stop, apc, slot, epochOf, analysed, activePipe>>

WriteFailed(w) ==
  /\ pc[w] = "failing"
  /\ GoTo(w, "leaving")
  /\ smState' = "FAILED" /\ observed' = "FAILED"
  /\ UNCHANGED <<phase, smPresent, smEpoch, desired, camEpoch, handler, stop, apc,
                 slot, epochOf, analysed, activePipe>>

(* Mutation: an ending worker leaves its pipeline registered. *)
Released_never(w) == activePipe

(* _release_pipeline: only the worker's own registration is removed. *)
Released(w) == IF activePipe = w THEN NoWorker ELSE activePipe

(* analysis_thread.join(timeout=1.0), whether it ended or not, and the end. *)
Leave(w) ==
  /\ pc[w] = "leaving"
  /\ GoTo(w, "dead")
  /\ activePipe' = Released(w)
  /\ UNCHANGED <<camera, handler, stop, apc, slot, epochOf, analysed>>

CaptureStep(w) ==
  \/ LookupCamera(w) \/ BuildPipeline(w) \/ LoopHead(w) \/ OpenStream(w)
  \/ MarkStreaming(w) \/ ReceiveFrame(w) \/ LoseStream(w) \/ MarkReconnecting(w)
  \/ EndBackoff(w) \/ CheckBlocked(w) \/ WriteFailed(w) \/ Leave(w)
-----------------------------------------------------------------------------
(***************************************************************************)
(* The analysis thread: analyze().                                         *)
(***************************************************************************)
AnalysisLoop(w) ==
  /\ apc[w] = "idle"
  /\ apc' = [apc EXCEPT ![w] = IF stop[w] THEN "dead" ELSE "waiting"]
  /\ UNCHANGED <<camera, handler, pc, stop, slot, epochOf, analysed, activePipe>>

(* A frame is taken and the pipeline resynced to the camera's epoch, or the  *)
(* wait of half a second ends without one.                                   *)
TakeFrame(w) ==
  /\ apc[w] = "waiting"
  /\ IF slot[w]
       THEN /\ apc' = [apc EXCEPT ![w] = "busy"]
            /\ slot' = [slot EXCEPT ![w] = FALSE]
            /\ epochOf' = [epochOf EXCEPT ![w] = camEpoch]
            /\ analysed' = [analysed EXCEPT ![w] = @ /\ epochOf[w] = camEpoch]
       ELSE /\ apc' = [apc EXCEPT ![w] = "idle"]
            /\ UNCHANGED <<slot, epochOf, analysed>>
  /\ UNCHANGED <<camera, handler, pc, stop, activePipe>>

(* process_frame has written the frame's events under the pipeline's epoch. *)
AnalyseFrame(w) ==
  /\ apc[w] = "busy"
  /\ apc' = [apc EXCEPT ![w] = "idle"]
  /\ analysed' = [analysed EXCEPT ![w] = TRUE]
  /\ UNCHANGED <<camera, handler, pc, stop, slot, epochOf, activePipe>>

AnalysisStep(w) == AnalysisLoop(w) \/ TakeFrame(w) \/ AnalyseFrame(w)

Next ==
  \/ Request \/ HandlerStep
  \/ \E w \in Worker : CaptureStep(w) \/ AnalysisStep(w)

Spec == Init /\ [][Next]_vars

(* A request already begun runs to its end: its joins have timeouts.  The   *)
(* threads are scheduled, and the network calls of a capture thread have    *)
(* timeouts.  No request is assumed to arrive.                              *)
FairSpec ==
  /\ Spec
  /\ WF_vars(HandlerStep)
  /\ \A w \in Worker : WF_vars(CaptureStep(w)) /\ WF_vars(AnalysisStep(w))
-----------------------------------------------------------------------------
(***************************************************************************)
(* Properties.                                                             *)
(***************************************************************************)

(* Two capture threads of a camera never coexist, even when a reconnect or  *)
(* an enable finds the previous thread stuck in the network: the spawn is   *)
(* refused (_start_camera_worker).                                          *)
OneCaptureThread ==
  \A v, w \in Worker : Alive(v) /\ Alive(w) => v = w

(* A capture thread that _WORKERS no longer names was told to stop and is   *)
(* either being joined or remembered in _STOPPING_WORKERS: none is lost.    *)
NoLostThread ==
  \A w \in Worker : Alive(w) /\ w # workers =>
    stop[w] /\ (w = joining \/ w \in stopping)

Registered(w) == Alive(w) /\ pc[w] \notin {"spawned", "building"}

(* The pipeline the fence routes reach through _ACTIVE_PIPELINES is that of *)
(* the running capture thread, as long as the camera exists, and never that *)
(* of a thread that has ended.                                              *)
ActivePipelineRuns ==
  /\ activePipe # NoWorker => Registered(activePipe)
  /\ \A w \in Worker : Registered(w) /\ phase = "present" => activePipe = w

(* A pipeline never runs ahead of the camera's epoch, nor the camera ahead  *)
(* of its state machine, although the three are updated by two threads.     *)
EpochChain ==
  /\ camEpoch <= smEpoch
  /\ \A w \in Worker : epochOf[w] <= camEpoch

(* Stream epochs only grow, whatever the interleaving of a reconnect with   *)
(* the threads ("Monotonic stream_epoch increment", docs/deployment.md).    *)
EpochsMonotone ==
  [][ /\ smEpoch' >= smEpoch /\ camEpoch' >= camEpoch
      /\ \A w \in Worker : epochOf'[w] >= epochOf[w] ]_vars

(* Disabling a camera ends its capture: unless it is enabled again, every   *)
(* capture thread is gone eventually, also one that was opening a stream or *)
(* waiting to reconnect when the request came.                              *)
DisableQuiesces ==
  (desired = "DISABLED") ~> (AliveIn(Worker) = {} \/ desired # "DISABLED")

(* Deleting a camera ends its capture for good and leaves no pipeline       *)
(* registered, even if a thread registers one after the handler's cleanup.  *)
DeleteQuiesces ==
  (phase = "deleted") ~> [](AliveIn(Worker) = {} /\ activePipe = NoWorker)

(* No thread outlives its camera's last order, be it to pause or to go.     *)
StoppedCameraQuiesces == DisableQuiesces /\ DeleteQuiesces

(* Track ids are "local per camera+epoch" (docs/traceability.md:22): two    *)
(* pipelines, each numbering its tracks from 1, never analyse frames under  *)
(* one epoch.                                                               *)
EpochNamesOnePipeline ==
  \A v, w \in Worker : analysed[v] /\ analysed[w] /\ v # w => epochOf[v] # epochOf[w]

(* "Reconnect camera: starts cleanly" (tests/test_remediation_boost.py:757):*)
(* a reconnect that restarts the worker ends with one running, unless the   *)
(* source is refused or the camera is disabled, deleted or shut down.       *)
ReconnectStarts ==
  (hpc = "start" /\ op = "reconnect") ~>
     \/ \E w \in Worker : Registered(w) /\ ~stop[w]
     \/ smState # "STREAMING" \/ phase # "present" \/ hpc = "down"
=============================================================================
