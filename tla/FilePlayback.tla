----------------------------- MODULE FilePlayback -----------------------------
(***************************************************************************)
(* A camera that plays a footage file: the file branch of _camera_worker   *)
(* (services/stream_worker.py) against the playback requests of            *)
(* api/routes/cameras.py.  They share the playback record under a lock and *)
(* the camera's observed state without one.  The worker is split where it  *)
(* takes the lock and where a request may change what it has just read.    *)
(***************************************************************************)
EXTENDS Naturals

CONSTANTS Frames,       \* frames in the file, numbered from 0
          MaxRequests,  \* requests of one run of the worker (bound)
          NoSeek

ASSUME PlaybackAssumption ==
  Frames \in Nat \ {0} /\ MaxRequests \in Nat /\ NoSeek \notin Nat

VARIABLES
  pbState,     \* playback["state"]
  pbSeek,      \* playback["seek_to"]
  pbPosition,  \* playback["position_seconds"]
  pbObserved,  \* cam["observed_state"]
  pbDisabled,  \* cam["desired_state"] is DISABLED
  pbRemoved,   \* the camera was popped from _CAMERAS
  pbStop,      \* the worker's stop event
  pbTables,    \* the per-camera tables with an entry: _HEALTH, _FRAME_VERSIONS
  pbRequests,  \* requests so far
  fwAt,        \* where the worker is
  fwMode,      \* the state it read
  fwSeek,      \* the seek it took
  fwNext,      \* the frame the container decodes next
  fwFrame,     \* the frame in hand
  fwDecoded    \* frames_in_pass is not 0

playbackVars == <<pbState, pbSeek, pbPosition, pbObserved, pbDisabled, pbRemoved, pbStop,
                  pbTables, pbRequests, fwAt, fwMode, fwSeek, fwNext, fwFrame, fwDecoded>>
workerVars == <<fwAt, fwMode, fwSeek, fwNext, fwFrame, fwDecoded>>
requestVars == <<pbState, pbSeek, pbDisabled, pbRemoved, pbStop, pbRequests>>

Position == 0..Frames
Table == {"health", "versions"}

PlaybackTypeOK ==
  /\ pbState \in {"playing", "paused", "stopped"}
  /\ pbSeek \in Position \cup {NoSeek} /\ fwSeek \in Position \cup {NoSeek}
  /\ pbPosition \in Position /\ fwNext \in Position /\ fwFrame \in Position
  /\ pbObserved \in {"STREAMING", "PAUSED", "RECONNECTING", "DISABLED"}
  /\ {pbDisabled, pbRemoved, pbStop, fwDecoded} \subseteq BOOLEAN
  /\ pbTables \subseteq Table
  /\ pbRequests \in 0..MaxRequests
  /\ fwAt \in {"outer", "opened", "head", "decide", "decode", "publish", "position",
               "passEnd", "left"}
  /\ fwMode \in {"playing", "paused", "stopped"}

PlaybackInit ==
  /\ pbState = "playing" /\ pbSeek = NoSeek /\ pbPosition = 0
  /\ pbObserved = "STREAMING" /\ pbDisabled = FALSE /\ pbRemoved = FALSE /\ pbStop = FALSE
  /\ pbTables = {} /\ pbRequests = 0
  /\ fwAt = "outer" /\ fwMode = "playing" /\ fwSeek = NoSeek
  /\ fwNext = 0 /\ fwFrame = 0 /\ fwDecoded = FALSE
-----------------------------------------------------------------------------
(* A playback request finds the camera in _CAMERAS. *)
Request ==
  /\ ~pbRemoved /\ pbRequests < MaxRequests
  /\ pbRequests' = pbRequests + 1
  /\ UNCHANGED workerVars

(* Before the first open the duration is unknown and a seek is not clamped; *)
(* a position past the end is the end for the container.                    *)
Seek(p) ==
  /\ Request
  /\ pbPosition' = p /\ pbSeek' = p
  /\ UNCHANGED <<pbState, pbObserved, pbDisabled, pbRemoved, pbStop, pbTables>>

Pause ==
  /\ Request
  /\ pbState' = "paused" /\ pbObserved' = "PAUSED"
  /\ UNCHANGED <<pbSeek, pbPosition, pbDisabled, pbRemoved, pbStop, pbTables>>

Resume ==
  /\ Request
  /\ pbState' = "playing" /\ pbObserved' = "STREAMING"
  /\ UNCHANGED <<pbSeek, pbPosition, pbDisabled, pbRemoved, pbStop, pbTables>>

RestartPlayback ==
  /\ Request
  /\ pbState' = "playing" /\ pbPosition' = 0 /\ pbSeek' = 0 /\ pbObserved' = "STREAMING"
  /\ UNCHANGED <<pbDisabled, pbRemoved, pbStop, pbTables>>

(* Stop removes the camera and its tables under the lock ... *)
StopPlayback ==
  /\ Request
  /\ pbState' = "stopped" /\ pbObserved' = "DISABLED" /\ pbDisabled' = TRUE
  /\ pbRemoved' = TRUE /\ pbTables' = {}
  /\ UNCHANGED <<pbSeek, pbPosition, pbStop>>

(* ... and tells the worker afterwards; a disable of the camera tells it at *)
(* once and keeps the camera.                                               *)
TellWorker ==
  /\ pbRemoved /\ ~pbStop
  /\ pbStop' = TRUE
  /\ UNCHANGED <<pbState, pbSeek, pbPosition, pbObserved, pbDisabled, pbRemoved, pbTables,
                 pbRequests, workerVars>>

DisablePlaying ==
  /\ Request
  /\ ~pbStop
  /\ pbObserved' = "DISABLED" /\ pbDisabled' = TRUE /\ pbStop' = TRUE
  /\ UNCHANGED <<pbState, pbSeek, pbPosition, pbRemoved, pbTables>>
-----------------------------------------------------------------------------
MustLeave == pbStop \/ pbDisabled

(* The head of the outer loop: to leave, or to open the file, which may     *)
(* fail and is tried again.                                                 *)
OuterLoop ==
  /\ fwAt = "outer"
  /\ \/ /\ MustLeave \/ pbState = "stopped"
        /\ fwAt' = "left" /\ UNCHANGED <<pbObserved, fwNext>>
     \/ /\ ~MustLeave /\ pbState # "stopped"
        /\ \/ fwAt' = "opened" /\ fwNext' = 0 /\ UNCHANGED pbObserved
           \/ pbObserved' = "RECONNECTING" /\ UNCHANGED <<fwAt, fwNext>>
  /\ UNCHANGED <<pbPosition, pbTables, requestVars, fwMode, fwSeek, fwFrame, fwDecoded>>

(* The file is open: the flags are read again before the state is shown. *)
Opened ==
  /\ fwAt = "opened"
  /\ IF MustLeave THEN fwAt' = "left" /\ UNCHANGED pbObserved
                  ELSE fwAt' = "head" /\ pbObserved' = "STREAMING"
  /\ fwDecoded' = FALSE
  /\ UNCHANGED <<pbPosition, pbTables, requestVars, fwMode, fwSeek, fwNext, fwFrame>>

(* Mutation: the seek is taken whatever the state. *)
TakenSeek_always == pbSeek

(* The seek is taken only by a worker that plays, in the same lock. *)
TakenSeek == IF pbState = "playing" THEN pbSeek ELSE NoSeek

ReadPlayback ==
  /\ fwAt = "head"
  /\ IF pbStop
     THEN fwAt' = "passEnd" /\ UNCHANGED <<pbSeek, fwMode, fwSeek>>
     ELSE /\ fwAt' = "decide" /\ fwMode' = pbState
          /\ fwSeek' = TakenSeek
          /\ pbSeek' = IF TakenSeek = NoSeek THEN pbSeek ELSE NoSeek
  /\ UNCHANGED <<pbState, pbPosition, pbObserved, pbDisabled, pbRemoved, pbStop, pbTables,
                 pbRequests, fwNext, fwFrame, fwDecoded>>

(* Mutation: a worker that stays paused shows nothing. *)
StayPaused_silent ==
  /\ fwAt = "decide" /\ fwMode = "paused"
  /\ fwAt' = "head"
  /\ UNCHANGED <<pbObserved, pbPosition, pbTables, requestVars, fwMode, fwSeek, fwNext, fwFrame,
                 fwDecoded>>

StayPaused ==
  /\ fwAt = "decide" /\ fwMode = "paused"
  /\ pbObserved' = "PAUSED"
  /\ fwAt' = "head"
  /\ UNCHANGED <<pbPosition, pbTables, requestVars, fwMode, fwSeek, fwNext, fwFrame, fwDecoded>>

(* container.seek; an error is suppressed and the seek lost. *)
DoSeek ==
  /\ fwAt = "decide" /\ fwMode = "playing" /\ fwSeek # NoSeek
  /\ fwNext' \in {fwNext, fwSeek}
  /\ fwAt' = "head"
  /\ UNCHANGED <<pbPosition, pbObserved, pbTables, requestVars, fwMode, fwSeek, fwFrame,
                 fwDecoded>>

Play ==
  /\ fwAt = "decide"
  /\ \/ /\ fwMode = "stopped" \/ (fwMode = "playing" /\ fwSeek = NoSeek /\ MustLeave)
        /\ fwAt' = "passEnd" /\ UNCHANGED pbObserved
     \/ /\ fwMode = "playing" /\ fwSeek = NoSeek /\ ~MustLeave
        /\ fwAt' = "decode" /\ pbObserved' = "STREAMING"
  /\ UNCHANGED <<pbPosition, pbTables, requestVars, fwMode, fwSeek, fwNext, fwFrame, fwDecoded>>

(* The next frame, the end of the file, or an error that ends the pass. *)
Decode ==
  /\ fwAt = "decode"
  /\ \/ /\ fwNext < Frames
        /\ fwAt' = "publish" /\ fwFrame' = fwNext /\ fwNext' = fwNext + 1
     \/ fwAt' = "passEnd" /\ UNCHANGED <<fwFrame, fwNext>>
  /\ UNCHANGED <<pbPosition, pbObserved, pbTables, requestVars, fwMode, fwSeek, fwDecoded>>

(* The frame goes to the viewers and to the analysis. *)
Publish ==
  /\ fwAt = "publish"
  /\ pbTables' = pbTables \cup {"versions"}
  /\ fwAt' = "position" /\ fwDecoded' = TRUE
  /\ UNCHANGED <<pbPosition, pbObserved, requestVars, fwMode, fwSeek, fwNext, fwFrame>>

(* Its time becomes the position, whatever a seek wrote meanwhile. *)
ShowPosition ==
  /\ fwAt = "position"
  /\ pbPosition' = fwFrame
  /\ pbTables' = pbTables \cup {"health"}
  /\ fwAt' = "head"
  /\ UNCHANGED <<pbObserved, requestVars, fwMode, fwSeek, fwNext, fwFrame, fwDecoded>>

(* The loop over the file: rewound, or opened again after an empty pass or  *)
(* a failed rewind.                                                         *)
EndPass ==
  /\ fwAt = "passEnd"
  /\ \/ fwAt' = "outer" /\ UNCHANGED fwNext
     \/ /\ ~pbStop /\ pbState # "stopped" /\ fwDecoded
        /\ fwAt' = "head" /\ fwNext' = 0
  /\ fwDecoded' = FALSE
  /\ UNCHANGED <<pbPosition, pbObserved, pbTables, requestVars, fwMode, fwSeek, fwFrame>>

PlaybackWorker ==
  \/ OuterLoop \/ Opened \/ ReadPlayback \/ StayPaused \/ DoSeek \/ Play
  \/ Decode \/ Publish \/ ShowPosition \/ EndPass

PlaybackRequest ==
  \/ Pause \/ Resume \/ RestartPlayback \/ StopPlayback \/ TellWorker \/ DisablePlaying
  \/ \E p \in Position : Seek(p)

PlaybackNext == PlaybackWorker \/ PlaybackRequest

PlaybackSpec == PlaybackInit /\ [][PlaybackNext]_playbackVars
-----------------------------------------------------------------------------
(* "A seek issued while paused must survive until resume"                   *)
(* (tests/test_file_playback.py:279): only another request replaces it,     *)
(* although the worker may have read another state just before.             *)
SeekSurvives ==
  [][pbState = "paused" /\ pbSeek # NoSeek /\ pbRequests' = pbRequests
       => pbSeek' = pbSeek]_playbackVars

(* What was asked for last takes effect.  A paused camera is in the end     *)
(* shown PAUSED for good, although the worker may still write STREAMING for *)
(* the frame it had begun.  The worker of a stopped camera leaves.          *)
PausedIsShown ==
  <>[](pbState = "paused" /\ ~MustLeave /\ fwAt \in {"head", "decide"})
     => <>[](pbObserved = "PAUSED")

StopEndsWorker == pbStop ~> fwAt = "left"

RequestsTakeEffect == PausedIsShown /\ StopEndsWorker
=============================================================================
