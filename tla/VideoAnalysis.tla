---------------------------- MODULE VideoAnalysis ----------------------------
(***************************************************************************)
(* The analysis of a recorded clip: the request that asks for it           *)
(* (uploads.py analyze_upload), the loop over the clip's frames            *)
(* (MiniPipeline.process_video_file) and, for each frame, which of the     *)
(* detector, the face detector, the projection of bodies from faces and    *)
(* the fusion of faces with tracks runs (process_frame, before the rules). *)
(* An analysed frame is four steps, DetectPersons, SearchFaces,            *)
(* TrackPersons and FuseFaces, which hand on last_faces, the frame that    *)
(* faces are cut from and the flag new_faces_detected; the analysis may    *)
(* end with an exception in any of them.                                   *)
(*                                                                         *)
(* A frame is what can be seen in it.  The decoders, the detectors and the *)
(* tracker are external: whether a track is visible is a choice that the   *)
(* boxes of the frame allow.                                               *)
(***************************************************************************)
EXTENDS Integers, Sequences, FiniteSets

CONSTANTS Clip,          \* clips: sequences of [ok, person, face]
          Limit,         \* the max_frames that requests name
          Stride,        \* the sample_stride and face_stride that requests name
          MostFrames,    \* 300
          MostStride,    \* 10
          SkipLoneFaces  \* skip_face_without_person, TRUE in both callers

FaceView == {"none", "poor", "own", "lone"}  \* "own": it touches a person box

ASSUME VideoAssumption ==
  /\ Clip \subseteq Seq([ok : BOOLEAN, person : BOOLEAN, face : FaceView])
  /\ Limit \cup Stride \subseteq Int /\ {MostFrames, MostStride} \subseteq Nat \ {0}
  /\ SkipLoneFaces \in BOOLEAN
  /\ \A c \in Clip : \A i \in DOMAIN c : c[i].face = "own" => c[i].person

VARIABLES
  vaClip,    \* the clip
  vaStep,    \* "ready", "reading", "done", "failed", or how far a frame has got
  vaReader,  \* use_av: "av" or "cv2"
  vaStride, vaFaceStride, vaLimit,
  vaSearch,  \* enable_face, and there is a face detector
  vaRead,    \* frames the loop is done with
  vaIndex,   \* frame_idx
  vaCount,   \* analysed, n
  vaFaces,   \* the frame last_faces is from and what it shows, or NoFaces
  vaCrop,    \* _last_face_frame, the frame that faces are cut from, 0: None
  vaNew,     \* new_faces_detected
  vaTracked, \* a person is in last_tracks
  vaBodies,  \* frames a body was projected in, with the frame of the face (history)
  vaFused    \* frames whose tracks were given faces, with the frame of the faces
             \* and that they were cut from (history)

videoVars == <<vaClip, vaStep, vaReader, vaStride, vaFaceStride, vaLimit, vaSearch, vaRead,
               vaIndex, vaCount, vaFaces, vaCrop, vaNew, vaTracked, vaBodies, vaFused>>
jobVars == <<vaClip, vaReader, vaStride, vaFaceStride, vaLimit, vaSearch>>
countVars == <<vaRead, vaIndex, vaCount>>
faceVars == <<vaFaces, vaCrop, vaNew>>
useVars == <<vaBodies, vaFused>>

NoFaces == [at |-> 0, face |-> "none"]
ClipFrames == 1..Len(vaClip)
InFrame == {"detected", "searched", "tracked"}

VideoTypeOK ==
  /\ vaClip \in Clip
  /\ vaStep \in {"ready", "reading", "done", "failed"} \cup InFrame
  /\ vaReader \in {"av", "cv2"} /\ vaSearch \in BOOLEAN
  /\ vaStride \in 1..MostStride /\ vaFaceStride \in 1..MostStride /\ vaLimit \in 1..MostFrames
  /\ {vaRead, vaIndex, vaCount} \subseteq 0..Len(vaClip)
  /\ vaFaces \in [at : {0} \cup ClipFrames, face : FaceView]
  /\ vaCrop \in {0} \cup ClipFrames /\ vaNew \in BOOLEAN /\ vaTracked \in BOOLEAN
  /\ vaBodies \subseteq ClipFrames \X ({0} \cup ClipFrames)
  /\ vaFused \subseteq ClipFrames \X ({0} \cup ClipFrames) \X ({0} \cup ClipFrames)

Clamped(n, most) == IF n < 1 THEN 1 ELSE IF n > most THEN most ELSE n

(* A new pipeline for the clip. *)
VideoInit ==
  /\ vaClip \in Clip /\ vaStep = "ready" /\ vaReader = "av"
  /\ \E n \in Limit : vaLimit = Clamped(n, MostFrames)
  /\ \E n \in Stride : vaStride = Clamped(n, MostStride)
  /\ \E n \in Stride : vaFaceStride = Clamped(n, MostStride)
  /\ vaSearch \in BOOLEAN
  /\ vaRead = 0 /\ vaIndex = 0 /\ vaCount = 0
  /\ vaFaces = NoFaces /\ vaCrop = 0 /\ vaNew = FALSE /\ vaTracked = FALSE
  /\ vaBodies = {} /\ vaFused = {}
-----------------------------------------------------------------------------
(* PyAV, or OpenCV when PyAV is missing, cannot open the file or finds no   *)
(* video in it; OpenCV may not open it either and then nothing is analysed. *)
Open ==
  /\ vaStep = "ready" /\ vaReader' \in {"av", "cv2"}
  /\ vaStep' \in IF vaReader' = "av" THEN {"reading"} ELSE {"reading", "done"}
  /\ UNCHANGED <<vaClip, vaStride, vaFaceStride, vaLimit, vaSearch, countVars, faceVars,
                 vaTracked, useVars>>

Now == vaClip[vaRead + 1]
Here == vaRead + 1

More == vaStep = "reading" /\ vaCount < vaLimit /\ vaRead < Len(vaClip)
Sampled == vaIndex % vaStride = 0
FacesDue == (vaIndex \div vaStride) % vaFaceStride = 0
NobodyToIdentify == SkipLoneFaces /\ ~Now.person /\ ~vaTracked

(* A frame between two samples is passed over. *)
SkipFrame ==
  /\ More /\ Now.ok /\ ~Sampled
  /\ vaRead' = vaRead + 1 /\ vaIndex' = vaIndex + 1
  /\ UNCHANGED <<jobVars, vaStep, vaCount, faceVars, vaTracked, useVars>>

(* Mutation: the flag is set where the pipeline is made and not again.      *)
ResetFlag_missing == UNCHANGED vaNew

ResetFlag == vaNew' = FALSE

(* A sampled frame: the persons and vehicles in it. *)
DetectPersons ==
  /\ More /\ Now.ok /\ Sampled
  /\ vaStep' = "detected" /\ ResetFlag
  /\ UNCHANGED <<jobVars, countVars, vaFaces, vaCrop, vaTracked, useVars>>

(* The face detector has run: the frame is kept to cut faces from, then the *)
(* faces are listed, and then the flag says whether there are any.  Listing *)
(* them may raise, which leaves the frame and neither faces nor flag.       *)
SearchFrame ==
  /\ vaCrop' = Here
  /\ \/ vaFaces' = [at |-> Here, face |-> Now.face] /\ vaNew' = (Now.face # "none")
     \/ UNCHANGED <<vaFaces, vaNew>>

(* Faces are searched on every face_stride-th sampled frame, not at all and *)
(* forgotten while nobody is in the scene; a detector that raises leaves    *)
(* everything as an earlier frame left it.                                  *)
SearchFaces ==
  /\ vaStep = "detected" /\ vaStep' = "searched"
  /\ \/ ~vaSearch /\ UNCHANGED faceVars
     \/ /\ vaSearch /\ NobodyToIdentify
        /\ vaFaces' = NoFaces /\ vaCrop' = 0 /\ UNCHANGED vaNew
     \/ vaSearch /\ ~NobodyToIdentify /\ ~FacesDue /\ UNCHANGED faceVars
     \/ vaSearch /\ ~NobodyToIdentify /\ FacesDue /\ (SearchFrame \/ UNCHANGED faceVars)
  /\ UNCHANGED <<jobVars, countVars, vaTracked, useVars>>

(* A good face that no person box touches stands for a body; then the       *)
(* tracker: a box may be tracked at once or after more of them, and a track *)
(* lives on without one for a while.                                        *)
Projects == vaNew /\ vaFaces.face = "lone"

TrackPersons ==
  /\ vaStep = "searched" /\ vaStep' = "tracked"
  /\ vaBodies' = IF Projects THEN vaBodies \cup {<<Here, vaFaces.at>>} ELSE vaBodies
  /\ vaTracked' \in IF Now.person \/ Projects THEN BOOLEAN ELSE {FALSE, vaTracked}
  /\ UNCHANGED <<jobVars, countVars, faceVars, vaFused>>

(* Tracks are given the faces in last_faces, which are cut from             *)
(* _last_face_frame.  The frame is done and counts towards the limit.       *)
FuseFaces ==
  /\ vaStep = "tracked" /\ vaStep' = "reading"
  /\ vaFused' = IF vaNew /\ vaFaces.face # "none"
                THEN vaFused \cup {<<Here, vaFaces.at, vaCrop>>} ELSE vaFused
  /\ vaRead' = vaRead + 1 /\ vaIndex' = vaIndex + 1 /\ vaCount' = vaCount + 1
  /\ UNCHANGED <<jobVars, faceVars, vaTracked, vaBodies>>

(* PyAV's loop passes over a frame it cannot convert; OpenCV's ends there.  *)
PassOver ==
  /\ More /\ ~Now.ok
  /\ IF vaReader = "av" THEN vaRead' = vaRead + 1 /\ UNCHANGED vaStep
     ELSE vaStep' = "done" /\ UNCHANGED vaRead
  /\ UNCHANGED <<jobVars, vaIndex, vaCount, faceVars, vaTracked, useVars>>

Finish ==
  /\ vaStep = "reading" /\ ~More /\ vaStep' = "done"
  /\ UNCHANGED <<jobVars, countVars, faceVars, vaTracked, useVars>>

(* The decoder, the detector or the tracker raises: the request answers 500. *)
Raise ==
  /\ vaStep \in {"reading"} \cup InFrame /\ vaStep' = "failed"
  /\ UNCHANGED <<jobVars, countVars, faceVars, vaTracked, useVars>>

VideoNext ==
  \/ Open \/ SkipFrame \/ DetectPersons \/ SearchFaces \/ TrackPersons \/ FuseFaces
  \/ PassOver \/ Finish \/ Raise

VideoSpec == VideoInit /\ [][VideoNext]_videoVars
-----------------------------------------------------------------------------
(* Tracks are given, and bodies are projected from, only faces found in the *)
(* very frame the tracks are from, and these are cut from that frame, while *)
(* last_faces and _last_face_frame are kept from frame to frame "to avoid   *)
(* flicker" (pipeline.py:319), through strides, failed searches and lists   *)
(* that were never finished.                                                *)
FacesOfThisFrame ==
  /\ \A b \in vaBodies : b[1] = b[2]
  /\ \A f \in vaFused : f[1] = f[2] /\ f[1] = f[3]
=============================================================================
