------------------------------ MODULE MCStreams ------------------------------
(***************************************************************************)
(* The components that work beside or behind the capture threads, each on  *)
(* a small instance: the detector's lock, the playback of files, the       *)
(* viewers of a stream, the OCR of plates, the analysis of uploaded        *)
(* videos.  They share no state in these models, so a behaviour is one of  *)
(* the component that `part` names, and the states of the run are the sum  *)
(* of theirs.                                                              *)
(***************************************************************************)
EXTENDS DetectorHandle, FilePlayback, Viewers, Plates, VideoAnalysis

CONSTANT Parts  \* the components to check

VARIABLE part

(* Where, of module Subsequences, against the recursive SelectSeq.          *)
ASSUME WhereSelects ==
  \A s \in UNION {[1..n -> 1..3] : n \in 0..4}, keep \in SUBSET (1..3) :
    LET Kept(x) == x \in keep
    IN  Where(s, Kept) = SelectSeq(s, Kept)

(* A person with a face, a face alone, nobody, and a frame that cannot be   *)
(* decoded, in clips of four frames.                                        *)
View(ok, person, face) == [ok |-> ok, person |-> person, face |-> face]
Clips == [1..4 -> {View(TRUE, TRUE, "own"), View(TRUE, FALSE, "lone"),
                   View(TRUE, FALSE, "none"), View(FALSE, FALSE, "none")}]

(* The choices of the other components are made once. *)
StreamsInit ==
  /\ part \in Parts
  /\ IF part = "detector" THEN TRUE ELSE detector = CHOOSE m \in Model : TRUE
  /\ IF part = "video" THEN TRUE
     ELSE /\ vaClip = CHOOSE c \in Clip : TRUE
          /\ vaLimit = 1 /\ vaStride = 1 /\ vaFaceStride = 1 /\ vaSearch = TRUE
  /\ Init /\ PlaybackInit /\ ViewersInit /\ PlatesInit /\ VideoInit

Except(p, v) == IF part = p THEN TRUE ELSE UNCHANGED v

Rest ==
  /\ Except("detector", vars) /\ Except("playback", playbackVars)
  /\ Except("viewers", viewerVars) /\ Except("plates", plateVars)
  /\ Except("video", videoVars)
  /\ UNCHANGED part

StreamsNext ==
  \/ part = "detector" /\ Next /\ Rest
  \/ part = "playback" /\ PlaybackNext /\ Rest
  \/ part = "viewers" /\ ViewersNext /\ Rest
  \/ part = "plates" /\ PlatesNext /\ Rest
  \/ part = "video" /\ VideoNext /\ Rest

streamsVars == <<part, vars, playbackVars, viewerVars, plateVars, videoVars>>

(* Threads are scheduled and the event loop runs what is ready, including   *)
(* the second half of a stop request; nobody has to send a request, capture *)
(* a frame or leave.                                                        *)
StreamsSpec ==
  /\ StreamsInit /\ [][StreamsNext]_streamsVars
  /\ Fairness
  /\ WF_playbackVars(part = "playback" /\ PlaybackWorker)
  /\ WF_playbackVars(part = "playback" /\ TellWorker)
  /\ WF_viewerVars(CaptureStep) /\ \A v \in Viewer : WF_viewerVars(BodyStep(v))
-----------------------------------------------------------------------------
(* Every component keeps to the types of its module. *)
TypesOK == TypeOK /\ PlaybackTypeOK /\ ViewersTypeOK /\ PlatesTypeOK /\ VideoTypeOK
=============================================================================
