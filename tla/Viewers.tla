------------------------------- MODULE Viewers -------------------------------
(***************************************************************************)
(* The MJPEG viewers of one camera: camera_stream of api/routes/cameras.py *)
(* and the capture thread that serves them (services/stream_worker.py).    *)
(* The thread encodes a frame only for somebody, stores it, counts it and  *)
(* sets the event of every viewer it finds; a viewer's generator waits for *)
(* its event and sends the stored frame if the count has moved.  Frames    *)
(* are numbered in the order of capture.  A live MJPEG packet is stored    *)
(* and counted in one step, which is a special case.                       *)
(***************************************************************************)
EXTENDS Integers, FiniteSets

CONSTANTS Viewer,     \* requests of /cameras/{id}/stream
          MaxCaptured \* frames captured (bound)

ASSUME ViewersAssumption == MaxCaptured \in Nat

VARIABLES
  vwCamera,   \* the camera is in _CAMERAS
  vwSubs,     \* _STREAM_SUBSCRIBERS
  vwCount,    \* _STREAM_CLIENT_COUNT
  vwEvent,    \* viewers whose event is set
  vwAt,       \* where each viewer's generator is
  vwSent,     \* the frame each viewer was sent last; 0 is none
  vwSeen,     \* last_version of each viewer
  vwFrame,    \* the frame in _FRAMES; 0 is none
  vwVersion,  \* _FRAME_VERSIONS
  cpAt,       \* where the capture thread is
  cpFrame,    \* the frame it has in hand
  cpSubs      \* the viewers it found

viewerVars == <<vwCamera, vwSubs, vwCount, vwEvent, vwAt, vwSent, vwSeen, vwFrame,
                vwVersion, cpAt, cpFrame, cpSubs>>

ViewersTypeOK ==
  /\ vwCamera \in BOOLEAN
  /\ vwSubs \subseteq Viewer /\ vwEvent \subseteq Viewer /\ cpSubs \subseteq Viewer
  /\ vwCount = Cardinality(vwSubs)
  /\ vwAt \in [Viewer -> {"new", "starting", "waiting", "woken", "gone"}]
  /\ {vwFrame, vwVersion, cpFrame} \subseteq 0..MaxCaptured
  /\ vwSent \in [Viewer -> 0..MaxCaptured] /\ vwSeen \in [Viewer -> -1..MaxCaptured]
  /\ cpAt \in {"idle", "captured", "encoding", "stored", "counted", "notifying"}

ViewersInit ==
  /\ vwCamera = TRUE /\ vwSubs = {} /\ vwCount = 0 /\ vwEvent = {}
  /\ vwAt = [v \in Viewer |-> "new"]
  /\ vwSent = [v \in Viewer |-> 0] /\ vwSeen = [v \in Viewer |-> -1]
  /\ vwFrame = 0 /\ vwVersion = 0
  /\ cpAt = "idle" /\ cpFrame = 0 /\ cpSubs = {}
-----------------------------------------------------------------------------
captureVars == <<cpAt, cpFrame, cpSubs>>

(* Mutation: a new viewer waits for the next frame. *)
FirstEvent_none(v) == vwEvent

(* A frame that is stored already is for a new viewer too. *)
FirstEvent(v) == IF vwFrame # 0 THEN vwEvent \cup {v} ELSE vwEvent

Subscribe(v) ==
  /\ vwCamera /\ vwAt[v] = "new"
  /\ vwSubs' = vwSubs \cup {v} /\ vwCount' = Cardinality(vwSubs')
  /\ vwEvent' = FirstEvent(v)
  /\ vwAt' = [vwAt EXCEPT ![v] = "starting"]
  /\ UNCHANGED <<vwCamera, vwSent, vwSeen, vwFrame, vwVersion, captureVars>>

(* The client is gone before the generator runs: its finally never does. *)
Abandon(v) ==
  /\ vwAt[v] = "starting"
  /\ vwAt' = [vwAt EXCEPT ![v] = "gone"]
  /\ UNCHANGED <<vwCamera, vwSubs, vwCount, vwEvent, vwSent, vwSeen, vwFrame, vwVersion,
                 captureVars>>

StartBody(v) ==
  /\ vwAt[v] = "starting"
  /\ vwAt' = [vwAt EXCEPT ![v] = "waiting"]
  /\ UNCHANGED <<vwCamera, vwSubs, vwCount, vwEvent, vwSent, vwSeen, vwFrame, vwVersion,
                 captureVars>>

Wake(v) ==
  /\ vwAt[v] = "waiting" /\ v \in vwEvent
  /\ vwEvent' = vwEvent \ {v}
  /\ vwAt' = [vwAt EXCEPT ![v] = "woken"]
  /\ IF vwVersion # vwSeen[v] /\ vwFrame # 0
     THEN /\ vwSeen' = [vwSeen EXCEPT ![v] = vwVersion]
          /\ vwSent' = [vwSent EXCEPT ![v] = vwFrame]
     ELSE UNCHANGED <<vwSeen, vwSent>>
  /\ UNCHANGED <<vwCamera, vwSubs, vwCount, vwFrame, vwVersion, captureVars>>

WaitAgain(v) ==
  /\ vwCamera /\ vwAt[v] = "woken"
  /\ vwAt' = [vwAt EXCEPT ![v] = "waiting"]
  /\ UNCHANGED <<vwEvent, vwCamera, vwSubs, vwCount, vwSent, vwSeen, vwFrame, vwVersion,
                 captureVars>>

(* The client left, or the camera did: the last viewer takes the frame. *)
LeaveBody(v) ==
  /\ vwAt[v] \in {"waiting", "woken"}
  /\ vwAt' = [vwAt EXCEPT ![v] = "gone"]
  /\ vwSubs' = vwSubs \ {v} /\ vwCount' = Cardinality(vwSubs')
  /\ vwFrame' = IF vwSubs = {v} THEN 0 ELSE vwFrame
  /\ UNCHANGED <<vwCamera, vwEvent, vwSent, vwSeen, vwVersion, captureVars>>

(* delete_camera and playback stop: the viewers are woken to leave. *)
RemoveCamera ==
  /\ vwCamera
  /\ vwCamera' = FALSE
  /\ vwSubs' = {} /\ vwCount' = 0 /\ vwFrame' = 0 /\ vwVersion' = 0
  /\ vwEvent' = vwEvent \cup vwSubs
  /\ UNCHANGED <<vwAt, vwSent, vwSeen, captureVars>>
-----------------------------------------------------------------------------
(* A frame arrives while the camera's worker runs. *)
Capture ==
  /\ cpAt = "idle" /\ vwCamera /\ cpFrame < MaxCaptured
  /\ cpFrame' = cpFrame + 1
  /\ cpAt' = IF vwCount > 0 THEN "encoding" ELSE "stored"
  /\ UNCHANGED <<vwCamera, vwSubs, vwCount, vwEvent, vwAt, vwSent, vwSeen, vwFrame,
                 vwVersion, cpSubs>>

(* Encoding takes its time: the viewers it was for may have left. *)
StoreFrame ==
  /\ cpAt = "encoding"
  /\ vwFrame' = cpFrame /\ cpAt' = "stored"
  /\ UNCHANGED <<vwCamera, vwSubs, vwCount, vwEvent, vwAt, vwSent, vwSeen, vwVersion,
                 cpFrame, cpSubs>>

CountFrame ==
  /\ cpAt = "stored"
  /\ vwVersion' = vwVersion + 1 /\ cpAt' = "counted"
  /\ UNCHANGED <<vwCamera, vwSubs, vwCount, vwEvent, vwAt, vwSent, vwSeen, vwFrame,
                 cpFrame, cpSubs>>

FindViewers ==
  /\ cpAt = "counted"
  /\ cpSubs' = vwSubs /\ cpAt' = "notifying"
  /\ UNCHANGED <<vwCamera, vwSubs, vwCount, vwEvent, vwAt, vwSent, vwSeen, vwFrame,
                 vwVersion, cpFrame>>

(* call_soon_threadsafe(event.set) for each of them. *)
NotifyViewers ==
  /\ cpAt = "notifying"
  /\ vwEvent' = vwEvent \cup cpSubs
  /\ cpSubs' = {} /\ cpAt' = "idle"
  /\ UNCHANGED <<vwCamera, vwSubs, vwCount, vwAt, vwSent, vwSeen, vwFrame, vwVersion, cpFrame>>

BodyStep(v) == StartBody(v) \/ Wake(v) \/ WaitAgain(v) \/ (~vwCamera /\ LeaveBody(v))
CaptureStep == StoreFrame \/ CountFrame \/ FindViewers \/ NotifyViewers

ViewersNext ==
  \/ \E v \in Viewer : Subscribe(v) \/ Abandon(v) \/ BodyStep(v) \/ LeaveBody(v)
  \/ Capture \/ CaptureStep \/ RemoveCamera

ViewersSpec == ViewersInit /\ [][ViewersNext]_viewerVars
-----------------------------------------------------------------------------
(* A viewer that was not sent the stored frame will be told of it: its      *)
(* event is set, or the thread that stored the frame has yet to find its    *)
(* viewers or to set their events.                                          *)
Watching(v) == vwCamera /\ vwAt[v] \in {"starting", "waiting", "woken"}

NoViewerForgotten ==
  \A v \in Viewer : Watching(v) /\ vwFrame \notin {0, vwSent[v]} =>
    v \in vwEvent \cup cpSubs \/ cpAt \in {"stored", "counted"}

(* No wakeup is lost: a viewer that stays is in the end sent the last frame *)
(* that was stored for it, whether it subscribed before, while or after the *)
(* frame was announced.                                                     *)
ViewersCatchUp ==
  \A v \in Viewer :
    <>[](vwCamera /\ vwAt[v] \in {"waiting", "woken"}) =>
      <>[](vwFrame \in {0, vwSent[v]})
=============================================================================
