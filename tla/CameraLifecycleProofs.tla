----------------------- MODULE CameraLifecycleProofs -----------------------
(***************************************************************************)
(* Proofs about CameraLifecycle for every number of workers and epochs:    *)
(* where the threads are, how the copies of the epoch relate, and that a   *)
(* camera that was disabled or deleted comes to rest once its threads run. *)
(***************************************************************************)
EXTENDS CameraLifecycle, TLAPS

(* What the handler's position says about the rest of its state. *)
HandlerInv ==
  /\ hpc \in {"transition", "write"} => script # <<>>
  /\ (hpc = "stopjoin") = (joining # NoWorker)
  /\ hpc = "startjoin" => ~RegisteredAlive
  /\ op \in {"create", "enable", "reconnect"} \/ hpc \in {"start", "startjoin"} =>
       spawned < MaxWorkers
  /\ phase = "absent" => hpc = "idle" /\ spawned = 0
  /\ op = "delete" \/ hpc = "cleanup" => phase = "deleted"
  /\ \A w \in Worker : pc[w] # "none" => w <= spawned

(* A thread is alive only where the start and stop protocol looks for it. *)
ThreadInv == NoLostThread /\ OneCaptureThread

IInv == TypeOK /\ HandlerInv /\ ThreadInv

(* The invariant holds at the start. *)
LEMMA InitInv == Init => IInv
  <1> SUFFICES ASSUME Init PROVE IInv
    OBVIOUS
  <1>1. <<>> \in Seq(CameraState)
    OBVIOUS
  <1>2. TypeOK
    <2>1. /\ phase \in {"absent", "present", "deleted"} /\ smPresent \in BOOLEAN
          /\ smState \in CameraState /\ smEpoch \in Nat
          /\ desired \in {"STREAMING", "DISABLED"}
          /\ observed \in CameraState /\ camEpoch \in Nat
      BY DEF Init, CameraState
    <2>2. /\ op \in Op /\ hpc \in HandlerPc /\ script \in Seq(CameraState)
          /\ spawned \in 0 .. MaxWorkers
      BY <1>1, MaxWorkersAssumption DEF Init, Op, HandlerPc
    <2>3. /\ pc \in [Worker -> CapturePc] /\ apc \in [Worker -> AnalysisPc]
          /\ epochOf \in [Worker -> Nat]
      BY DEF Init, CapturePc, AnalysisPc
    <2>4. QED BY <2>1, <2>2, <2>3 DEF Init, TypeOK
  <1>3. HandlerInv
    BY DEF Init, HandlerInv, RegisteredAlive
  <1>4. ThreadInv
    BY DEF Init, ThreadInv, NoLostThread, OneCaptureThread, Alive
  <1>5. QED BY <1>2, <1>3, <1>4 DEF IInv

(* Requests and transitions change no thread and no registration. *)
LEMMA RequestInv == IInv /\ Request => IInv'
  <1> SUFFICES ASSUME IInv, Request PROVE IInv'
    OBVIOUS
  <1> USE DEF IInv, TypeOK, HandlerInv, ThreadInv, NoLostThread, OneCaptureThread,
      Alive, RegisteredAlive, NoWorker, Op, HandlerPc, Begin, threads, camera
  <1>1. CASE CreateCamera
    BY <1>1 DEF CreateCamera, CameraState
  <1>2. CASE EnableCamera
    <2>1. EnablePath \in Seq(CameraState) /\ EnablePath # <<>> /\ <<>> \in Seq(CameraState)
      BY DEF EnablePath, CameraState
    <2>2. QED BY <1>2, <2>1 DEF EnableCamera
  <1>3. CASE DisableCamera
    <2>1. DisablePath \in Seq(CameraState) /\ DisablePath # <<>>
      BY DEF DisablePath, CameraState
    <2>2. QED BY <1>3, <2>1 DEF DisableCamera
  <1>4. CASE ReconnectCamera
    <2>1. ReconnectPath \in Seq(CameraState) /\ ReconnectPath # <<>>
      BY DEF ReconnectPath, CameraState
    <2>2. QED BY <1>4, <2>1 DEF ReconnectCamera
  <1>5. CASE DeleteCamera
    BY <1>5 DEF DeleteCamera
  <1>6. CASE Shutdown
    BY <1>6 DEF Shutdown
  <1>7. QED BY <1>1, <1>2, <1>3, <1>4, <1>5, <1>6 DEF Request

(* A step of a request handler preserves the invariant. *)
LEMMA HandlerStepInv == IInv /\ HandlerStep => IInv'
  <1> SUFFICES ASSUME IInv, HandlerStep PROVE IInv'
    OBVIOUS
  <1> USE MaxWorkersAssumption
      DEF IInv, TypeOK, HandlerInv, ThreadInv, NoLostThread, OneCaptureThread,
      Alive, RegisteredAlive, NoWorker, Op, HandlerPc, Begin, threads, camera
  <1>1. CASE CheckTransition
    <2>1. <<>> \in Seq(CameraState)
      OBVIOUS
    <2>2. /\ hpc' \in {"write", "idle"} /\ op' \in {op, "none"}
          /\ script' = script \/ (script' = <<>> /\ hpc' = "idle")
          /\ UNCHANGED <<camera, joining, workers, stopping, spawned, threads, activePipe>>
      BY <1>1 DEF CheckTransition
    <2>3. TypeOK'
      BY <2>1, <2>2
    <2>4. HandlerInv'
      BY <1>1, <2>2 DEF CheckTransition
    <2>5. ThreadInv'
      BY <2>2
    <2>6. QED BY <2>3, <2>4, <2>5
  <1>2. CASE WriteTransition
    <2>1. script # <<>> /\ Head(script) \in CameraState /\ Tail(script) \in Seq(CameraState)
      BY <1>2 DEF WriteTransition
    <2>2. NextEpoch(smEpoch, Head(script)) \in Nat
      BY DEF NextEpoch
    <2>3. QED BY <1>2, <2>1, <2>2 DEF WriteTransition
  <1>3. CASE AssignFields
    BY <1>3 DEF AssignFields
  <1>4. CASE StopWorker
    BY <1>4 DEF StopWorker, AfterStop
  <1>5. CASE FinishStop
    BY <1>5 DEF FinishStop, AfterStop, StillStopping, AliveIn
  <1>6. CASE StartCheck
    BY <1>6 DEF StartCheck
  <1>7. CASE FinishStart
    <2>1. CASE RegisteredAlive \/ RefuseSpawn
      BY <1>7, <2>1 DEF FinishStart, AliveIn
    <2>2. CASE ~(RegisteredAlive \/ RefuseSpawn)
      <3>1. \A w \in Worker : ~Alive(w)
        <4>1. hpc = "startjoin" /\ joining = NoWorker /\ ~RegisteredAlive
          BY <1>7 DEF FinishStart
        <4>2. \A w \in stopping : ~Alive(w)
          BY <2>2 DEF RefuseSpawn, AliveIn
        <4>3. \A w \in Worker : w # NoWorker
          BY DEF Worker
        <4>4. QED BY <4>1, <4>2, <4>3
      <3>2. /\ spawned' = spawned + 1 /\ workers' = spawned + 1 /\ stopping' = {}
            /\ pc' = [pc EXCEPT ![spawned + 1] = "spawned"]
            /\ spawned + 1 \in Worker
        BY <1>7, <2>2 DEF FinishStart, Worker
      <3>3. /\ hpc' = "idle" /\ op' = "none" /\ joining' = joining
            /\ UNCHANGED <<camera, script, stop, apc, slot, epochOf, analysed, activePipe>>
        BY <1>7, <2>2 DEF FinishStart
      <3>4. TypeOK'
        BY <3>2, <3>3 DEF Worker, CapturePc
      <3>5. \A w \in Worker : Alive(w)' => w = spawned + 1
        BY <3>1, <3>2
      <3>6. ThreadInv'
        BY <3>2, <3>5
      <3>7. \A w \in Worker : pc'[w] # "none" => w <= spawned'
        BY <3>2 DEF Worker
      <3>8. HandlerInv'
        BY <1>7, <3>3, <3>7 DEF FinishStart
      <3>9. QED BY <3>4, <3>6, <3>8
    <2>3. QED BY <2>1, <2>2
  <1>8. CASE CleanupDeleted
    BY <1>8 DEF CleanupDeleted
  <1>9. QED
    BY <1>1, <1>2, <1>3, <1>4, <1>5, <1>6, <1>7, <1>8 DEF HandlerStep

(* What a step of a capture thread may do to the rest of the state. *)
LEMMA CaptureStepFrame ==
  ASSUME IInv, NEW w \in Worker, CaptureStep(w)
  PROVE  /\ UNCHANGED <<handler, stop, phase, smPresent, smEpoch, desired, camEpoch>>
         /\ smState' \in CameraState /\ observed' \in CameraState
         /\ pc[w] \notin {"none", "dead"}
         /\ \E next \in CapturePc \ {"none"} : pc' = [pc EXCEPT ![w] = next]
         /\ epochOf' \in {epochOf, [epochOf EXCEPT ![w] = camEpoch]}
         /\ apc' \in {apc, [apc EXCEPT ![w] = "idle"]}
         /\ slot' \in {slot, [slot EXCEPT ![w] = TRUE]}
         /\ activePipe' \in {activePipe, w, NoWorker}
         /\ analysed' = analysed
  <1> USE DEF GoTo, camera, CapturePc
  <1>0. pc \in [Worker -> CapturePc] /\ smState \in CameraState /\ observed \in CameraState
    BY DEF IInv, TypeOK
  <1>0a. "FAILED" \in CameraState /\ "STREAMING" \in CameraState /\ "RECONNECTING" \in CameraState
    BY DEF CameraState
  <1>1. CASE LookupCamera(w)   BY <1>0, <1>1 DEF LookupCamera, PipelineEpoch
  <1>2. CASE BuildPipeline(w)  BY <1>0, <1>2 DEF BuildPipeline
  <1>3. CASE LoopHead(w)       BY <1>0, <1>3 DEF LoopHead
  <1>4. CASE OpenStream(w)     BY <1>0, <1>4 DEF OpenStream
  <1>5. CASE MarkStreaming(w)  BY <1>0, <1>0a, <1>5 DEF MarkStreaming
  <1>6. CASE ReceiveFrame(w)
    <2>1. pc' \in {pc, [pc EXCEPT ![w] = "check"]} /\ pc = [pc EXCEPT ![w] = "live"]
      BY <1>0, <1>6 DEF ReceiveFrame
    <2>2. QED BY <1>0, <1>6, <2>1 DEF ReceiveFrame
  <1>7. CASE LoseStream(w)     BY <1>0, <1>7 DEF LoseStream
  <1>8. CASE MarkReconnecting(w) BY <1>0, <1>0a, <1>8 DEF MarkReconnecting
  <1>9. CASE EndBackoff(w)     BY <1>0, <1>9 DEF EndBackoff
  <1>10. CASE CheckBlocked(w)  BY <1>0, <1>0a, <1>10 DEF CheckBlocked
  <1>11. CASE WriteFailed(w)   BY <1>0, <1>0a, <1>11 DEF WriteFailed
  <1>12. CASE Leave(w)         BY <1>0, <1>12 DEF Leave, Released
  <1>13. QED
    BY <1>1, <1>2, <1>3, <1>4, <1>5, <1>6, <1>7, <1>8, <1>9, <1>10, <1>11, <1>12
    DEF CaptureStep

(* A step of a capture thread preserves the invariant. *)
LEMMA CaptureStepInv == ASSUME IInv, NEW w \in Worker, CaptureStep(w) PROVE IInv'
  <1>1. PICK next \in CapturePc \ {"none"} : pc' = [pc EXCEPT ![w] = next]
    BY CaptureStepFrame
  <1>2. TypeOK'
    <2>1. pc' \in [Worker -> CapturePc]
      BY <1>1 DEF IInv, TypeOK
    <2>2. epochOf' \in [Worker -> Nat]
      <3>1. epochOf \in [Worker -> Nat] /\ camEpoch \in Nat
        BY DEF IInv, TypeOK
      <3>2. QED BY CaptureStepFrame, <3>1
    <2>6. apc' \in [Worker -> AnalysisPc]
      <3>1. apc \in [Worker -> AnalysisPc] /\ "idle" \in AnalysisPc
        BY DEF IInv, TypeOK, AnalysisPc
      <3>2. QED BY CaptureStepFrame, <3>1
    <2>3. slot' \in [Worker -> BOOLEAN] /\ analysed' \in [Worker -> BOOLEAN]
      BY CaptureStepFrame DEF IInv, TypeOK
    <2>4. activePipe' \in Worker \cup {NoWorker}
      BY CaptureStepFrame DEF IInv, TypeOK
    <2>5. QED
      BY CaptureStepFrame, <2>1, <2>2, <2>3, <2>4, <2>6 DEF IInv, TypeOK, handler
  <1>3. \A v \in Worker : Alive(v)' => Alive(v)
    BY CaptureStepFrame, <1>1 DEF IInv, TypeOK, Alive
  <1>4. HandlerInv'
    BY CaptureStepFrame, <1>1, <1>3
    DEF IInv, TypeOK, HandlerInv, RegisteredAlive, Alive, handler, NoWorker
  <1>5. ThreadInv'
    BY CaptureStepFrame, <1>3
    DEF IInv, ThreadInv, NoLostThread, OneCaptureThread, handler
  <1>6. QED BY <1>2, <1>4, <1>5 DEF IInv

(* A step of an analysis thread preserves the invariant. *)
LEMMA AnalysisStepInv == ASSUME IInv, NEW w \in Worker, AnalysisStep(w) PROVE IInv'
  <1> USE DEF IInv, TypeOK, AnalysisPc
  <1>1. UNCHANGED <<camera, handler, pc, stop, activePipe>>
    BY DEF AnalysisStep, AnalysisLoop, TakeFrame, AnalyseFrame
  <1>2. TypeOK'
    <2>1. CASE AnalysisLoop(w)  BY <2>1, <1>1 DEF AnalysisLoop, camera, handler
    <2>2. CASE TakeFrame(w)     BY <2>2, <1>1 DEF TakeFrame, camera, handler
    <2>3. CASE AnalyseFrame(w)  BY <2>3, <1>1 DEF AnalyseFrame, camera, handler
    <2>4. QED BY <2>1, <2>2, <2>3 DEF AnalysisStep
  <1>3. HandlerInv' /\ ThreadInv'
    BY <1>1 DEF HandlerInv, ThreadInv, NoLostThread, OneCaptureThread, Alive,
       RegisteredAlive, handler, camera
  <1>4. QED BY <1>2, <1>3

(* Every step, and every stutter, preserves the invariant. *)
LEMMA NextInv == IInv /\ [Next]_vars => IInv'
  <1> SUFFICES ASSUME IInv, [Next]_vars PROVE IInv'
    OBVIOUS
  <1>1. CASE Request      BY <1>1, RequestInv
  <1>2. CASE HandlerStep  BY <1>2, HandlerStepInv
  <1>3. CASE \E w \in Worker : CaptureStep(w)   BY <1>3, CaptureStepInv
  <1>4. CASE \E w \in Worker : AnalysisStep(w)  BY <1>4, AnalysisStepInv
  <1>5. CASE UNCHANGED vars
    BY <1>5 DEF vars, camera, handler, threads, IInv, TypeOK, HandlerInv, ThreadInv,
       NoLostThread, OneCaptureThread, Alive, RegisteredAlive
  <1>6. QED BY <1>1, <1>2, <1>3, <1>4, <1>5 DEF Next

(* The invariant behind the theorems below: types, the position of the      *)
(* handler, and where a living capture thread can be found.                 *)
THEOREM InductiveInvariant == Spec => []IInv
  BY InitInv, NextInv, PTL DEF Spec

(* Every variable keeps its type, for every bound.                          *)
THEOREM TypeCorrect == Spec => []TypeOK
  <1>1. IInv => TypeOK
    BY DEF IInv
  <1>2. QED BY InductiveInvariant, <1>1, PTL

(* The spawn protocol of _start_camera_worker: two capture threads never    *)
(* coexist, however many workers are created and whichever joins time out.  *)
THEOREM AtMostOneCapture == Spec => []OneCaptureThread
  <1>1. IInv => OneCaptureThread
    BY DEF IInv, ThreadInv
  <1>2. QED BY InductiveInvariant, <1>1, PTL

(* A living thread that _WORKERS forgot was told to stop and is remembered. *)
THEOREM NoThreadLost == Spec => []NoLostThread
  <1>1. IInv => NoLostThread
    BY DEF IInv, ThreadInv
  <1>2. QED BY InductiveInvariant, <1>1, PTL
-----------------------------------------------------------------------------
(* The epoch of a pipeline, the camera and the state machine: who may       *)
(* change each, and to what.                                                *)
LEMMA EpochStep ==
  ASSUME IInv, EpochChain, [Next]_vars
  PROVE  /\ smEpoch' \in {smEpoch, smEpoch + 1}
         /\ camEpoch' \in {camEpoch, smEpoch}
         /\ camEpoch' # camEpoch => smEpoch' = smEpoch /\ epochOf' = epochOf
         /\ smEpoch' # smEpoch => camEpoch' = camEpoch /\ epochOf' = epochOf
         /\ \/ epochOf' = epochOf
            \/ \E w \in Worker : epochOf' = [epochOf EXCEPT ![w] = camEpoch]
  <1>1. CASE Request
    BY <1>1 DEF Request, CreateCamera, EnableCamera, DisableCamera, ReconnectCamera,
       DeleteCamera, Shutdown, camera, threads
  <1>2. CASE WriteTransition
    BY <1>2 DEF WriteTransition, NextEpoch, threads
  <1>3. CASE AssignFields
    BY <1>3 DEF AssignFields, threads
  <1>4. CASE HandlerStep /\ ~WriteTransition /\ ~AssignFields
    BY <1>4 DEF HandlerStep, CheckTransition, StopWorker, FinishStop, StartCheck,
       FinishStart, CleanupDeleted, camera, threads
  <1>5. ASSUME NEW w \in Worker, CaptureStep(w)
        PROVE  /\ UNCHANGED <<smEpoch, camEpoch>>
               /\ epochOf' \in {epochOf, [epochOf EXCEPT ![w] = camEpoch]}
    BY <1>5, CaptureStepFrame
  <1>6. ASSUME NEW w \in Worker, AnalysisStep(w)
        PROVE  /\ UNCHANGED <<smEpoch, camEpoch>>
               /\ epochOf' \in {epochOf, [epochOf EXCEPT ![w] = camEpoch]}
    BY <1>6 DEF AnalysisStep, AnalysisLoop, TakeFrame, AnalyseFrame, camera
  <1>7. CASE UNCHANGED vars
    BY <1>7 DEF vars, camera, threads
  <1>8. QED
    BY <1>1, <1>2, <1>3, <1>4, <1>5, <1>6, <1>7 DEF Next

(* Every step keeps the epochs of the workers in their order. *)
LEMMA EpochChainStep == IInv /\ EpochChain /\ [Next]_vars => EpochChain'
  <1> SUFFICES ASSUME IInv, EpochChain, [Next]_vars PROVE EpochChain'
    OBVIOUS
  <1>1. /\ smEpoch \in Nat /\ camEpoch \in Nat
        /\ epochOf \in [Worker -> Nat]
    BY DEF IInv, TypeOK
  <1>2. camEpoch' <= smEpoch' /\ camEpoch' >= camEpoch
    BY <1>1, EpochStep DEF EpochChain
  <1>3. \A w \in Worker : epochOf'[w] <= camEpoch
    BY <1>1, EpochStep DEF EpochChain
  <1>4. camEpoch' \in Nat /\ \A w \in Worker : epochOf'[w] \in Nat
    BY <1>1, EpochStep
  <1>5. QED BY <1>1, <1>2, <1>3, <1>4 DEF EpochChain

(* No pipeline ever runs ahead of its camera, nor the camera ahead of its   *)
(* state machine.                                                           *)
THEOREM EpochsChained == Spec => []EpochChain
  <1>1. Init => EpochChain
    BY DEF Init, EpochChain
  <1>2. QED BY InductiveInvariant, <1>1, EpochChainStep, PTL DEF Spec

(* Reconnects, whatever they race with, never lower an epoch.               *)
THEOREM EpochsGrow == Spec => EpochsMonotone
  <1>1. IInv /\ EpochChain /\ [Next]_vars =>
          [ /\ smEpoch' >= smEpoch /\ camEpoch' >= camEpoch
            /\ \A w \in Worker : epochOf'[w] >= epochOf[w] ]_vars
    <2> SUFFICES ASSUME IInv, EpochChain, [Next]_vars
                 PROVE  /\ smEpoch' >= smEpoch /\ camEpoch' >= camEpoch
                        /\ \A w \in Worker : epochOf'[w] >= epochOf[w]
      OBVIOUS
    <2>1. /\ smEpoch \in Nat /\ camEpoch \in Nat
          /\ epochOf \in [Worker -> Nat]
      BY DEF IInv, TypeOK
    <2>2. smEpoch' >= smEpoch /\ camEpoch' >= camEpoch
      BY <2>1, EpochStep DEF EpochChain
    <2>3. \A w \in Worker : epochOf'[w] >= epochOf[w]
      BY <2>1, EpochStep DEF EpochChain
    <2>4. QED BY <2>2, <2>3
  <1>2. QED
    BY InductiveInvariant, EpochsChained, <1>1, PTL DEF Spec, EpochsMonotone
-----------------------------------------------------------------------------
(* A registered thread stays so until it is the one that ends.              *)
LEMMA HandlerStepPipe ==
  IInv /\ ActivePipelineRuns /\ (Request \/ HandlerStep) => ActivePipelineRuns'
  <1> SUFFICES ASSUME IInv, ActivePipelineRuns, Request \/ HandlerStep
               PROVE  ActivePipelineRuns'
    OBVIOUS
  <1> USE DEF ActivePipelineRuns, Registered, Alive
  <1>1. CASE Request
    <2>1. phase = "absent" => \A w \in Worker : ~Alive(w)
      BY DEF IInv, HandlerInv, Worker
    <2>2. UNCHANGED <<pc, activePipe>> /\ (phase' = "present" => phase # "deleted")
      BY <1>1 DEF Request, CreateCamera, EnableCamera, DisableCamera,
         ReconnectCamera, DeleteCamera, Shutdown, camera, threads
    <2>3. phase \in {"absent", "present", "deleted"}
      BY DEF IInv, TypeOK
    <2>4. QED BY <2>1, <2>2, <2>3
  <1>2. CASE CleanupDeleted
    BY <1>2 DEF CleanupDeleted, threads, IInv, HandlerInv
  <1>3. CASE FinishStart
    <2>1. CASE pc' = pc
      BY <1>3, <2>1 DEF FinishStart, camera
    <2>2. CASE pc' = [pc EXCEPT ![spawned + 1] = "spawned"]
      <3>1. pc \in [Worker -> CapturePc] /\ activePipe \in Worker \cup {NoWorker}
        BY DEF IInv, TypeOK
      <3>2. spawned \in Nat /\ \A w \in Worker : pc[w] # "none" => w <= spawned
        BY MaxWorkersAssumption DEF IInv, TypeOK, HandlerInv
      <3>3. \A w \in Worker : Registered(w) => w # spawned + 1
        BY <3>2 DEF Worker
      <3>4. \A w \in Worker : Registered(w)' = Registered(w)
        BY <2>2, <3>1, <3>3
      <3>5. UNCHANGED <<camera, activePipe>>
        BY <1>3 DEF FinishStart
      <3>6. QED BY <3>1, <3>4, <3>5 DEF camera
    <2>3. QED BY <1>3, <2>1, <2>2 DEF FinishStart
  <1>4. CASE HandlerStep /\ ~CleanupDeleted /\ ~FinishStart
    BY <1>4 DEF HandlerStep, CheckTransition, WriteTransition, AssignFields,
       StopWorker, FinishStop, StartCheck, camera, threads
  <1>5. QED BY <1>1, <1>2, <1>3, <1>4

(* The active pipeline runs after a step of a capture thread. *)
LEMMA CaptureStepPipe ==
  ASSUME IInv, ActivePipelineRuns, NEW w \in Worker, CaptureStep(w)
  PROVE  ActivePipelineRuns'
  <1>1. /\ pc \in [Worker -> CapturePc] /\ Alive(w) /\ phase' = phase
        /\ activePipe \in Worker \cup {NoWorker}
    BY CaptureStepFrame DEF IInv, TypeOK, Alive
  <1>2. \A v \in Worker : v # w => ~Alive(v) /\ ~Registered(v)
    BY <1>1 DEF IInv, ThreadInv, OneCaptureThread, Registered
  <1>3. \A v \in Worker : v # w => ~Registered(v)'
    BY <1>1, <1>2, CaptureStepFrame DEF Registered, Alive
  <1>4. CASE LookupCamera(w)
    BY <1>1, <1>2, <1>3, <1>4
    DEF LookupCamera, GoTo, ActivePipelineRuns, Registered, Alive
  <1>5. CASE BuildPipeline(w)
    BY <1>1, <1>2, <1>3, <1>5
    DEF BuildPipeline, GoTo, ActivePipelineRuns, Registered, Alive
  <1>6. CASE Leave(w)
    BY <1>1, <1>2, <1>3, <1>6
    DEF Leave, Released, GoTo, ActivePipelineRuns, Registered, Alive
  <1>7. CASE CaptureStep(w) /\ ~LookupCamera(w) /\ ~BuildPipeline(w) /\ ~Leave(w)
    <2>1. Registered(w) /\ Registered(w)' /\ activePipe' = activePipe
      BY <1>1, <1>7 DEF CaptureStep, LoopHead, OpenStream, MarkStreaming,
         ReceiveFrame, LoseStream, MarkReconnecting, EndBackoff, CheckBlocked,
         WriteFailed, GoTo, Registered, Alive
    <2>2. QED BY <1>1, <1>2, <1>3, <2>1 DEF ActivePipelineRuns
  <1>8. QED BY <1>4, <1>5, <1>6, <1>7

(* Fence changes reach the pipeline of the thread that is running: the      *)
(* registration of _release_pipeline and the delete handler agree.          *)
THEOREM RegisteredPipelineRuns == Spec => []ActivePipelineRuns
  <1>1. Init => ActivePipelineRuns
    BY DEF Init, ActivePipelineRuns, Registered, Alive
  <1>2. IInv /\ ActivePipelineRuns /\ [Next]_vars => ActivePipelineRuns'
    <2> SUFFICES ASSUME IInv, ActivePipelineRuns, [Next]_vars
                 PROVE  ActivePipelineRuns'
      OBVIOUS
    <2>1. CASE Request \/ HandlerStep
      BY <2>1, HandlerStepPipe
    <2>2. CASE \E w \in Worker : CaptureStep(w)
      BY <2>2, CaptureStepPipe
    <2>3. CASE \E w \in Worker : AnalysisStep(w)
      BY <2>3 DEF AnalysisStep, AnalysisLoop, TakeFrame, AnalyseFrame, camera,
         ActivePipelineRuns, Registered, Alive
    <2>4. CASE UNCHANGED vars
      BY <2>4 DEF vars, camera, threads, ActivePipelineRuns, Registered, Alive
    <2>5. QED BY <2>1, <2>2, <2>3, <2>4 DEF Next
  <1>3. QED BY InductiveInvariant, <1>1, <1>2, PTL DEF Spec
-----------------------------------------------------------------------------
(***************************************************************************)
(* The safety that StoppedCameraQuiesces rests on: every thread of a       *)
(* camera that was disabled or deleted is on its way out, and a thread on  *)
(* its way out has few steps left.  What remains for liveness is that the  *)
(* threads are scheduled.                                                  *)
(***************************************************************************)

(* It was told to stop, or it reads the flag before it opens a stream.      *)
Leaving(w) ==
  stop[w] \/ (desired = "DISABLED" /\ pc[w] \in {"spawned", "building", "check", "leaving"})

(* Every thread of a camera that was disabled or deleted leaves, or is the  *)
(* one that the handler is about to tell.                                   *)
HaltedAreTold ==
  desired = "DISABLED" \/ phase = "deleted" =>
    \A w \in AliveIn(Worker) : Leaving(w) \/ (hpc = "stop" /\ w = workers)

(* After a camera was popped from _CAMERAS only its delete handler runs.    *)
DeletedHandler ==
  phase = "deleted" => \/ op = "delete" /\ hpc \in {"stop", "stopjoin", "cleanup"}
                       \/ op = "none" /\ hpc = "idle"

(* How many of its own steps a thread that leaves has left at most.         *)
StepsLeft(w) ==
  CASE pc[w] \in {"none", "dead"} -> 0
    [] pc[w] = "leaving" -> 1
    [] pc[w] \in {"check", "backoff", "failing"} -> 2
    [] pc[w] \in {"live", "blocked", "caught", "building"} -> 3
    [] pc[w] \in {"admit", "opening", "spawned"} -> 4

(* An order to stop is not taken back, and every step that a leaving thread *)
(* makes brings it nearer to its end: no failure, reconnect or frame takes  *)
(* it round the loop again.                                                 *)
ToldThreadsEnd ==
  [][\A w \in Worker : /\ stop[w] => stop'[w]
                       /\ Alive(w) /\ Leaving(w) =>
                            /\ StepsLeft(w)' <= StepsLeft(w)
                            /\ CaptureStep(w) => StepsLeft(w)' < StepsLeft(w)]_vars

LEMMA DeletedHandlerStep == DeletedHandler /\ IInv /\ [Next]_vars => DeletedHandler'
  <1> SUFFICES ASSUME DeletedHandler, IInv, [Next]_vars PROVE DeletedHandler'
    OBVIOUS
  <1> USE DEF DeletedHandler
  <1>1. CASE Request
    BY <1>1 DEF Request, CreateCamera, EnableCamera, DisableCamera, ReconnectCamera,
       DeleteCamera, Shutdown, Begin, camera
  <1>2. CASE HandlerStep
    BY <1>2 DEF HandlerStep, CheckTransition, WriteTransition, AssignFields, StopWorker,
       FinishStop, StartCheck, FinishStart, CleanupDeleted, AfterStop, Begin, camera
  <1>3. CASE \E w \in Worker : CaptureStep(w)
    BY <1>3, CaptureStepFrame DEF handler
  <1>4. CASE \E w \in Worker : AnalysisStep(w)
    BY <1>4 DEF AnalysisStep, AnalysisLoop, TakeFrame, AnalyseFrame, camera, handler
  <1>5. CASE UNCHANGED vars
    BY <1>5 DEF vars, camera, handler
  <1>6. QED BY <1>1, <1>2, <1>3, <1>4, <1>5 DEF Next

(* A step of a capture thread that leaves is one towards its end.           *)
LEMMA LeavingStep ==
  ASSUME IInv, NEW w \in Worker, Leaving(w), CaptureStep(w)
  PROVE  /\ StepsLeft(w)' < StepsLeft(w)
         /\ pc[w] \in {"spawned", "building", "check", "leaving"} /\ desired = "DISABLED"
              => pc'[w] \in {"building", "check", "leaving", "dead"}
  <1> USE DEF GoTo, Leaving
  <1>0. pc \in [Worker -> CapturePc]
    BY DEF IInv, TypeOK
  <1>1. CASE LookupCamera(w)     BY <1>0, <1>1 DEF LookupCamera, StepsLeft
  <1>2. CASE BuildPipeline(w)    BY <1>0, <1>2 DEF BuildPipeline, StepsLeft
  <1>3. CASE LoopHead(w)         BY <1>0, <1>3 DEF LoopHead, ToldToLeave, Disabled, StepsLeft
  <1>4. CASE OpenStream(w)       BY <1>0, <1>4 DEF OpenStream, ToldToLeave, StepsLeft
  <1>5. CASE MarkStreaming(w)    BY <1>0, <1>5 DEF MarkStreaming, StepsLeft
  <1>6. CASE ReceiveFrame(w)     BY <1>0, <1>6 DEF ReceiveFrame, StepsLeft
  <1>7. CASE LoseStream(w)       BY <1>0, <1>7 DEF LoseStream, StepsLeft
  <1>8. CASE MarkReconnecting(w) BY <1>0, <1>8 DEF MarkReconnecting, StepsLeft
  <1>9. CASE EndBackoff(w)       BY <1>0, <1>9 DEF EndBackoff, StepsLeft
  <1>10. CASE CheckBlocked(w)    BY <1>0, <1>10 DEF CheckBlocked, StepsLeft
  <1>11. CASE WriteFailed(w)     BY <1>0, <1>11 DEF WriteFailed, StepsLeft
  <1>12. CASE Leave(w)           BY <1>0, <1>12 DEF Leave, StepsLeft
  <1>13. QED
    BY <1>1, <1>2, <1>3, <1>4, <1>5, <1>6, <1>7, <1>8, <1>9, <1>10, <1>11, <1>12
    DEF CaptureStep

(* A step of another process takes no thread's order back and moves none.   *)
LEMMA HaltedStep == HaltedAreTold /\ DeletedHandler /\ IInv /\ [Next]_vars => HaltedAreTold'
  <1> SUFFICES ASSUME HaltedAreTold, DeletedHandler, IInv, [Next]_vars,
                      (desired = "DISABLED" \/ phase = "deleted")',
                      NEW w \in Worker, Alive(w)'
               PROVE  Leaving(w)' \/ (hpc = "stop" /\ w = workers)'
    BY DEF HaltedAreTold, AliveIn
  <1>0. pc \in [Worker -> CapturePc] /\ stop \in [Worker -> BOOLEAN] /\ workers \in Worker \cup {NoWorker}
    BY DEF IInv, TypeOK
  <1>a. Alive(w) => stop[w] \/ w = workers
    BY DEF IInv, ThreadInv, NoLostThread
  <1>b. desired = "DISABLED" \/ phase = "deleted" =>
          (Alive(w) => Leaving(w) \/ (hpc = "stop" /\ w = workers))
    BY DEF HaltedAreTold, AliveIn
  <1> USE DEF Alive, Leaving
  <1>1. CASE Request
    <2>1. UNCHANGED <<pc, stop, workers>>
      BY <1>1 DEF Request, CreateCamera, EnableCamera, DisableCamera, ReconnectCamera,
         DeleteCamera, Shutdown, camera, threads
    <2>2. CASE DeleteCamera
      BY <1>a, <2>1, <2>2 DEF DeleteCamera, Begin
    <2>3. CASE ~DeleteCamera
      <3>1. hpc = "idle" /\ desired' \in {desired, "STREAMING"} /\ (phase' = "deleted" => phase = "deleted")
        BY <1>1, <2>3 DEF Request, CreateCamera, EnableCamera, DisableCamera,
           ReconnectCamera, Shutdown, camera
      <3>2. CASE desired' = desired
        BY <1>b, <2>1, <3>1, <3>2
      <3>3. CASE desired' # desired
        <4>1. phase = "absent"
          BY <1>1, <2>3, <3>3 DEF Request, CreateCamera, EnableCamera, DisableCamera,
             ReconnectCamera, Shutdown, camera
        <4>2. ~Alive(w)
          BY <4>1 DEF IInv, HandlerInv, Worker
        <4>3. QED BY <2>1, <4>2
      <3>4. QED BY <3>2, <3>3
    <2>4. QED BY <2>2, <2>3
  <1>2. CASE AssignFields
    BY <1>2, <1>a, <1>b DEF AssignFields, DeletedHandler, threads
  <1>3. CASE StopWorker
    <2>1. w # NoWorker /\ UNCHANGED <<pc, desired, phase>>
      BY <1>3 DEF StopWorker, camera, Worker, NoWorker
    <2>2. Alive(w) BY <2>1
    <2>3. CASE w = workers
      <3>1. stop' = [stop EXCEPT ![workers] = TRUE] BY <1>3, <2>1, <2>3 DEF StopWorker
      <3>2. stop'[w] BY <1>0, <2>3, <3>1
      <3>3. QED BY <3>2
    <2>4. CASE w # workers
      <3>1. stop[w] BY <1>a, <2>2, <2>4
      <3>2. stop' \in {stop, [stop EXCEPT ![workers] = TRUE]} BY <1>3 DEF StopWorker
      <3>3. stop'[w] BY <1>0, <2>4, <3>1, <3>2
      <3>4. QED BY <3>3
    <2>5. QED BY <2>3, <2>4
  <1>4. CASE FinishStart
    <2>1. CASE pc' = pc
      BY <1>4, <1>b, <2>1 DEF FinishStart, camera
    <2>2. CASE pc' = [pc EXCEPT ![spawned + 1] = "spawned"]
      <3>1. phase # "deleted" /\ UNCHANGED <<camera, stop>> /\ hpc = "startjoin"
        BY <1>4 DEF FinishStart, DeletedHandler
      <3>2. desired = "DISABLED" /\ desired' = "DISABLED"
        BY <3>1 DEF camera
      <3>3. CASE w = spawned + 1 BY <1>0, <2>2, <3>2, <3>3
      <3>4. CASE w # spawned + 1 BY <1>0, <1>b, <2>2, <3>1, <3>2, <3>4
      <3>5. QED BY <3>3, <3>4
    <2>3. QED BY <1>4, <2>1, <2>2 DEF FinishStart
  <1>5. CASE HandlerStep /\ ~AssignFields /\ ~StopWorker /\ ~FinishStart
    <2>1. /\ hpc # "stop" /\ UNCHANGED <<pc, stop, desired, phase>>
      BY <1>5 DEF HandlerStep, CheckTransition, WriteTransition, FinishStop, StartCheck,
         CleanupDeleted, camera, threads
    <2>2. QED BY <1>b, <2>1
  <1>6. ASSUME NEW v \in Worker, CaptureStep(v) PROVE Leaving(w)' \/ (hpc = "stop" /\ w = workers)'
    <2>1. UNCHANGED <<stop, desired, phase, hpc, workers>> /\ pc[v] \notin {"none", "dead"}
          /\ \A u \in Worker : u # v => pc'[u] = pc[u]
      BY <1>0, <1>6, CaptureStepFrame DEF handler
    <2>2. CASE w # v BY <1>b, <2>1, <2>2
    <2>3. CASE w = v /\ Leaving(w)
      BY <1>6, <2>1, <2>3, LeavingStep
    <2>4. CASE w = v /\ ~Leaving(w) BY <1>b, <2>1, <2>4
    <2>5. QED BY <2>2, <2>3, <2>4
  <1>7. CASE \E v \in Worker : AnalysisStep(v)
    BY <1>7, <1>b DEF AnalysisStep, AnalysisLoop, TakeFrame, AnalyseFrame, camera, handler
  <1>8. CASE UNCHANGED vars
    BY <1>8, <1>b DEF vars, camera, handler, threads
  <1>9. QED BY <1>1, <1>2, <1>3, <1>4, <1>5, <1>6, <1>7, <1>8 DEF Next

(* Disabling or deleting a camera reaches every capture thread it has,      *)
(* whatever the thread is doing and however many it has had: the handler    *)
(* tells it, or the flag does before it opens a stream.                     *)
THEOREM HaltedThreadsAreTold == Spec => []HaltedAreTold
  <1>1. Init => HaltedAreTold /\ DeletedHandler
    BY DEF Init, HaltedAreTold, DeletedHandler
  <1>2. QED
    BY InductiveInvariant, <1>1, HaltedStep, DeletedHandlerStep, PTL DEF Spec

(* A capture thread that was told to stop, or finds its camera disabled     *)
(* before it opens a stream, ends within four steps of its own.             *)
THEOREM ToldThreadsLeave == Spec => ToldThreadsEnd
  <1> DEFINE Ends(w) == /\ stop[w] => stop'[w]
                        /\ Alive(w) /\ Leaving(w) =>
                             /\ StepsLeft(w)' <= StepsLeft(w)
                             /\ CaptureStep(w) => StepsLeft(w)' < StepsLeft(w)
  <1>1. IInv /\ [Next]_vars => \A w \in Worker : Ends(w)
    <2> SUFFICES ASSUME IInv, [Next]_vars, NEW w \in Worker PROVE Ends(w)
      OBVIOUS
    <2>0. pc \in [Worker -> CapturePc] /\ stop \in [Worker -> BOOLEAN] /\ StepsLeft(w) \in 0..4
      BY DEF IInv, TypeOK, StepsLeft, CapturePc
    <2>1. CASE CaptureStep(w)
      <3>1. stop' = stop BY <2>1, CaptureStepFrame
      <3>2. Leaving(w) => StepsLeft(w)' < StepsLeft(w) BY <2>1, LeavingStep
      <3>3. StepsLeft(w)' \in Nat
        <4>1. PICK next \in CapturePc \ {"none"} : pc' = [pc EXCEPT ![w] = next]
          BY <2>1, CaptureStepFrame
        <4>2. pc'[w] \in CapturePc BY <2>0, <4>1
        <4>3. QED BY <4>2 DEF StepsLeft, CapturePc
      <3>4. QED BY <2>0, <3>1, <3>2, <3>3
    <2>2. CASE ~CaptureStep(w)
      <3>1. (stop[w] => stop'[w]) /\ (Alive(w) => pc'[w] = pc[w])
        <4>1. CASE Request
          BY <4>1 DEF Request, CreateCamera, EnableCamera, DisableCamera, ReconnectCamera,
             DeleteCamera, Shutdown, threads
        <4>2. CASE FinishStart
          <5>1. Alive(w) => w # spawned + 1
            BY MaxWorkersAssumption DEF IInv, TypeOK, HandlerInv, Alive, Worker
          <5>2. QED BY <2>0, <4>2, <5>1 DEF FinishStart
        <4>3. CASE StopWorker BY <2>0, <4>3 DEF StopWorker
        <4>4. CASE HandlerStep /\ ~FinishStart /\ ~StopWorker
          BY <4>4 DEF HandlerStep, CheckTransition, WriteTransition, AssignFields, FinishStop,
             StartCheck, CleanupDeleted, threads
        <4>5. ASSUME NEW v \in Worker, v # w, CaptureStep(v) PROVE stop' = stop /\ pc'[w] = pc[w]
          BY <2>0, <4>5, CaptureStepFrame
        <4>6. CASE \E v \in Worker : AnalysisStep(v)
          BY <4>6 DEF AnalysisStep, AnalysisLoop, TakeFrame, AnalyseFrame
        <4>7. CASE UNCHANGED vars BY <4>7 DEF vars, threads
        <4>8. QED BY <2>2, <4>1, <4>2, <4>3, <4>4, <4>5, <4>6, <4>7 DEF Next
      <3>2. Alive(w) => StepsLeft(w)' = StepsLeft(w) BY <3>1 DEF StepsLeft
      <3>3. QED BY <2>0, <2>2, <3>1, <3>2
    <2>3. QED BY <2>1, <2>2
  <1>2. QED BY InductiveInvariant, <1>1, PTL DEF Spec, ToldThreadsEnd

(* A deleted camera stays deleted, gets no thread again, and has a pipeline *)
(* registered only as long as a thread of it lives: with the two theorems   *)
(* above all that StoppedCameraQuiesces needs but the scheduling.           *)
DeletedForGood ==
  [][phase = "deleted" => /\ phase' = "deleted"
                          /\ AliveIn(Worker)' \subseteq AliveIn(Worker)
                          /\ AliveIn(Worker)' = {} => activePipe' = NoWorker]_vars

(* What is left of a camera after its delete only shrinks, also when its    *)
(* last thread registers a pipeline after the handler's cleanup.            *)
THEOREM DeletedStaysDeleted == Spec => DeletedForGood
  <1> DEFINE Good == phase = "deleted" =>
                       /\ phase' = "deleted" /\ AliveIn(Worker)' \subseteq AliveIn(Worker)
                       /\ AliveIn(Worker)' = {} => activePipe' = NoWorker
  <1>1. IInv /\ IInv' /\ DeletedHandler /\ ActivePipelineRuns' /\ [Next]_vars => Good
    <2> SUFFICES ASSUME IInv, IInv', DeletedHandler, ActivePipelineRuns', [Next]_vars,
                        phase = "deleted"
                 PROVE  /\ phase' = "deleted" /\ AliveIn(Worker)' \subseteq AliveIn(Worker)
                        /\ AliveIn(Worker)' = {} => activePipe' = NoWorker
      OBVIOUS
    <2>1. AliveIn(Worker)' = {} => activePipe' = NoWorker
      BY DEF IInv, TypeOK, ActivePipelineRuns, Registered, AliveIn
    <2>2. phase' = "deleted" /\ \A w \in Worker : Alive(w)' => Alive(w)
      <3>1. CASE Request
        BY <3>1 DEF Request, CreateCamera, EnableCamera, DisableCamera, ReconnectCamera,
           DeleteCamera, Shutdown
      <3>2. CASE HandlerStep
        <4>1. hpc # "startjoin" BY DEF DeletedHandler
        <4>2. UNCHANGED <<phase, pc>>
          BY <3>2, <4>1 DEF HandlerStep, CheckTransition, WriteTransition, AssignFields, StopWorker,
             FinishStop, StartCheck, FinishStart, CleanupDeleted, camera, threads
        <4>3. QED BY <4>2 DEF Alive
      <3>3. ASSUME NEW v \in Worker, CaptureStep(v)
            PROVE  phase' = "deleted" /\ \A w \in Worker : Alive(w)' => Alive(w)
        BY <3>3, CaptureStepFrame DEF IInv, TypeOK, Alive
      <3>4. CASE \E v \in Worker : AnalysisStep(v)
        BY <3>4 DEF AnalysisStep, AnalysisLoop, TakeFrame, AnalyseFrame, camera, Alive
      <3>5. CASE UNCHANGED vars
        BY <3>5 DEF vars, camera, threads, Alive
      <3>6. QED BY <3>1, <3>2, <3>3, <3>4, <3>5 DEF Next
    <2>3. QED BY <2>1, <2>2 DEF AliveIn
  <1>2. Init => DeletedHandler
    BY DEF Init, DeletedHandler
  <1>3. QED
    BY InductiveInvariant, RegisteredPipelineRuns, DeletedHandlerStep, <1>1, <1>2, PTL
    DEF Spec, DeletedForGood
=============================================================================
