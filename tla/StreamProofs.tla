----------------------------- MODULE StreamProofs -----------------------------
(***************************************************************************)
(* What works beside the capture threads, for any number of readers and    *)
(* writers, clips and strides, jobs, tracks and epochs, viewers and        *)
(* frames: the detector handle, the analysis of uploaded videos, the OCR   *)
(* of plates, the MJPEG viewers and the playback of a file.                *)
(*                                                                         *)
(* Detector.  A swap happens when _active_readers is 0, so what has to be  *)
(* known is that the counter counts: it is the number of readers between   *)
(* their acquire and their release.  With it a swap finds no reader        *)
(* inside, and a writer sleeps only while some reader is.                  *)
(*                                                                         *)
(* The module ends with the sum of the five, as the run streams checks it. *)
(***************************************************************************)
EXTENDS MCStreams, SubsequenceProofs, SequenceTheorems

Inside == {r \in Reader : pc[r] \in {"entered", "using"}}

IInv ==
  /\ TypeOK
  /\ readers = Cardinality(Inside)
  /\ InferencesKeepDetector
  /\ NoSleeperForgotten

(* The readers inside are finitely many; there are none when the counter is *)
(* 0.                                                                       *)
LEMMA InsideFinite ==
  /\ IsFiniteSet(Inside)
  /\ Cardinality(Inside) = 0 => Inside = {}
<1>1. IsFiniteSet(Inside)
  BY ReaderAssumption, FS_Subset, Inside \subseteq Reader DEF Inside
<1>2. QED BY <1>1, FS_EmptySet

(* The handle starts with nobody inside. *)
LEMMA InitInv == Init => IInv
<1> SUFFICES ASSUME Init PROVE IInv OBVIOUS
<1>1. TypeOK BY ThreadAssumption DEF Init, TypeOK, Thread
<1>2. Inside = {} BY DEF Init, Inside, Thread
<1>3. readers = Cardinality(Inside) BY <1>2, FS_EmptySet DEF Init
<1>4. InferencesKeepDetector /\ NoSleeperForgotten
  BY DEF Init, InferencesKeepDetector, NoSleeperForgotten, Thread
<1>5. QED BY <1>1, <1>3, <1>4 DEF IInv

(* An acquire counts the reader, or puts it to sleep while a swap waits.    *)
LEMMA EnterInv ==
  ASSUME IInv, NEW r \in Reader, Enter(r) PROVE IInv'
<1> USE ThreadAssumption DEF IInv
<1>1. TypeOK' BY DEF TypeOK, Enter, GoTo, Thread, MayEnter
<1>2. readers' = Cardinality(Inside)'
  <2>1. CASE MayEnter
    <3>1. Inside' = Inside \cup {r} /\ r \notin Inside
      BY <2>1 DEF Enter, GoTo, Inside, TypeOK, Thread
    <3>2. Cardinality(Inside') = Cardinality(Inside) + 1
      BY <3>1, InsideFinite, FS_AddElement
    <3>3. QED BY <2>1, <3>2 DEF Enter
  <2>2. CASE ~MayEnter
    <3>1. Inside' = Inside BY <2>2 DEF Enter, GoTo, Inside, TypeOK, Thread
    <3>2. QED BY <2>2, <3>1 DEF Enter
  <2>3. QED BY <2>1, <2>2
<1>3. InferencesKeepDetector'
  BY DEF InferencesKeepDetector, Enter, GoTo, TypeOK, Thread
<1>4. NoSleeperForgotten'
  BY DEF NoSleeperForgotten, Enter, GoTo, MayEnter, TypeOK, Thread
<1>5. QED BY <1>1, <1>2, <1>3, <1>4

(* The detector is read by a reader that is already counted. *)
LEMMA TakeInv ==
  ASSUME IInv, NEW r \in Reader, TakeDetector(r) PROVE IInv'
<1> USE ThreadAssumption DEF IInv
<1>1. TypeOK' BY DEF TypeOK, TakeDetector, GoTo, Thread
<1>2. Inside' = Inside
  BY DEF TakeDetector, GoTo, Inside, TypeOK, Thread
<1>3. readers' = Cardinality(Inside)' BY <1>2 DEF TakeDetector
<1>4. InferencesKeepDetector'
  BY DEF InferencesKeepDetector, TakeDetector, GoTo, TypeOK, Thread
<1>5. NoSleeperForgotten'
  BY DEF NoSleeperForgotten, TakeDetector, GoTo, TypeOK, Thread
<1>6. QED BY <1>1, <1>3, <1>4, <1>5

(* The last release wakes the writers; before it, some reader is inside.    *)
LEMMA ReleaseInv ==
  ASSUME IInv, NEW r \in Reader, Release(r) PROVE IInv'
<1> USE ThreadAssumption DEF IInv
<1>1. Inside' = Inside \ {r} /\ r \in Inside
  BY DEF Release, WakeWriters, NotifyAll, GoTo, Inside, TypeOK, Thread
<1>2. Cardinality(Inside') = Cardinality(Inside) - 1 /\ Cardinality(Inside) > 0
  <2>1. Cardinality(Inside) \in Nat /\ Cardinality(Inside) # 0
    BY <1>1, InsideFinite, FS_CardinalityType
  <2>2. Cardinality(Inside \ {r}) = Cardinality(Inside) - 1
    BY <1>1, InsideFinite, FS_RemoveElement
  <2>3. QED BY <1>1, <2>1, <2>2
<1>3. readers' = Cardinality(Inside)' BY <1>2 DEF Release
<1>4. TypeOK'
  <2>1. readers' \in Nat BY <1>2 DEF Release, TypeOK
  <2>2. QED BY <2>1 DEF TypeOK, Release, WakeWriters, NotifyAll, GoTo, Thread
<1>5. InferencesKeepDetector'
  BY DEF InferencesKeepDetector, Release, WakeWriters, NotifyAll, GoTo, TypeOK, Thread
<1>6. NoSleeperForgotten'
  <2>1. CASE readers = 1
    BY <2>1 DEF NoSleeperForgotten, Release, WakeWriters, NotifyAll, TypeOK, Thread
  <2>2. CASE readers # 1
    <3>1. readers' > 0 BY <1>2, <2>2 DEF Release, TypeOK
    <3>2. QED BY <2>2, <3>1 DEF NoSleeperForgotten, Release, WakeWriters, GoTo, TypeOK, Thread
  <2>3. QED BY <2>1, <2>2
<1>7. QED BY <1>3, <1>4, <1>5, <1>6

(* A request that begins touches its own thread only. *)
LEMMA ActivateInv ==
  ASSUME IInv, NEW w \in Writer, NEW m \in Model, Activate(w, m) PROVE IInv'
<1> USE ThreadAssumption DEF IInv
<1>1. TypeOK' BY DEF TypeOK, Activate, GoTo, Thread
<1>2. Inside' = Inside BY DEF Activate, GoTo, Inside, TypeOK, Thread
<1>3. readers' = Cardinality(Inside)' BY <1>2 DEF Activate
<1>4. InferencesKeepDetector'
  BY DEF InferencesKeepDetector, Activate, GoTo, TypeOK, Thread
<1>5. NoSleeperForgotten'
  BY DEF NoSleeperForgotten, Activate, GoTo, TypeOK, Thread
<1>6. QED BY <1>1, <1>3, <1>4, <1>5

(* A swap finds no reader inside, and wakes everyone. *)
LEMMA SwapInv ==
  ASSUME IInv, NEW w \in Writer, pc[w] # "idle", Swap(w) PROVE IInv'
<1> USE ThreadAssumption DEF IInv
<1>1. TypeOK' BY DEF TypeOK, Swap, NotifyAll, Thread
<1>2. Inside = {} BY InsideFinite DEF Swap, MaySwap
<1>3. Inside' = Inside BY DEF Swap, NotifyAll, Inside, TypeOK, Thread
<1>4. readers' = Cardinality(Inside)' BY <1>3 DEF Swap
<1>5. InferencesKeepDetector'
  BY <1>2, <1>3 DEF InferencesKeepDetector, Inside
<1>6. NoSleeperForgotten'
  BY DEF NoSleeperForgotten, Swap, NotifyAll, TypeOK, Thread
<1>7. QED BY <1>1, <1>4, <1>5, <1>6

(* A writer goes to sleep with a reader inside. *)
LEMMA SleepInv ==
  ASSUME IInv, NEW w \in Writer, pc[w] \in {"ready", "awake"}, ~MaySwap,
         GoTo(w, "asleep"), UNCHANGED <<detector, readers, held>>,
         writing' = writing \/ writing' = TRUE
  PROVE  IInv'
<1> USE ThreadAssumption DEF IInv, GoTo
<1>1. readers > 0 BY DEF MaySwap, TypeOK
<1>2. writing' \in BOOLEAN /\ (writing => writing') BY DEF TypeOK
<1>3. TypeOK' BY <1>2 DEF TypeOK, Thread
<1>4. Inside' = Inside BY DEF Inside, TypeOK, Thread
<1>5. readers' = Cardinality(Inside)' BY <1>4
<1>6. InferencesKeepDetector' BY DEF InferencesKeepDetector, TypeOK, Thread
<1>7. NoSleeperForgotten' BY <1>1, <1>2 DEF NoSleeperForgotten, TypeOK, Thread
<1>8. QED BY <1>3, <1>5, <1>6, <1>7

(* Either way, a writer's step keeps the invariant. *)
LEMMA SwapStepInv ==
  ASSUME IInv, NEW w \in Writer, SwapStep(w) PROVE IInv'
<1>1. CASE BeginSwap(w)
  <2>1. pc[w] = "ready" BY <1>1 DEF BeginSwap
  <2>2. CASE Swap(w) BY <2>1, <2>2, SwapInv
  <2>3. CASE /\ ~MaySwap /\ writing' = TRUE /\ GoTo(w, "asleep")
             /\ UNCHANGED <<detector, readers, held>>
    BY <2>1, <2>3, SleepInv
  <2>4. QED BY <1>1, <2>2, <2>3 DEF BeginSwap
<1>2. CASE ResumeSwap(w)
  <2>1. pc[w] = "awake" BY <1>2 DEF ResumeSwap
  <2>2. CASE Swap(w) BY <2>1, <2>2, SwapInv
  <2>3. CASE /\ ~MaySwap /\ GoTo(w, "asleep")
             /\ UNCHANGED <<detector, readers, writing, held>>
    <3>1. UNCHANGED <<detector, readers, held>> /\ writing' = writing BY <2>3
    <3>2. QED BY <2>1, <2>3, <3>1, SleepInv
  <2>4. QED BY <1>2, <2>2, <2>3 DEF ResumeSwap
<1>3. QED BY <1>1, <1>2 DEF SwapStep

(* Every step keeps the invariant. *)
LEMMA NextInv == IInv /\ [Next]_vars => IInv'
<1> SUFFICES ASSUME IInv, [Next]_vars PROVE IInv' OBVIOUS
<1>1. ASSUME NEW r \in Reader, ReaderStep(r) PROVE IInv'
  BY <1>1, EnterInv, TakeInv, ReleaseInv DEF ReaderStep
<1>2. ASSUME NEW w \in Writer, SwapStep(w) PROVE IInv'
  BY <1>2, SwapStepInv
<1>3. ASSUME NEW w \in Writer, NEW m \in Model, Activate(w, m) PROVE IInv'
  BY <1>3, ActivateInv
<1>4. CASE UNCHANGED vars
  BY <1>4 DEF vars, IInv, TypeOK, Inside, InferencesKeepDetector, NoSleeperForgotten
<1>5. QED BY <1>1, <1>2, <1>3, <1>4 DEF Next

(* The counter is exact, and the two properties hold with it. *)
THEOREM InductiveInvariant == Spec => []IInv
BY InitInv, NextInv, PTL DEF Spec

(* The variables of the handle have their types: the count of readers is    *)
(* never negative.                                                          *)
THEOREM TypeCorrect == Spec => []TypeOK
<1>1. IInv => TypeOK BY DEF IInv
<1>2. QED BY <1>1, InductiveInvariant, PTL

(* No inference ever has its detector swapped away, for any number of       *)
(* analysis threads and concurrent activations.                             *)
THEOREM NoSwapDuringInference == Spec => []InferencesKeepDetector
<1>1. IInv => InferencesKeepDetector BY DEF IInv
<1>2. QED BY <1>1, InductiveInvariant, PTL

(* The condition variable of the handle loses no wakeup. *)
THEOREM NoLostWakeup == Spec => []NoSleeperForgotten
<1>1. IInv => NoSleeperForgotten BY DEF IInv
<1>2. QED BY <1>1, InductiveInvariant, PTL
-----------------------------------------------------------------------------
(* Video.  Indices and counts of frames stay behind the frames read; a      *)
(* frame is worked on before it is counted; and once the flag is reset for  *)
(* a frame, it is set only with faces of that frame, cut from it.           *)
FlagIsOfThisFrame ==
  /\ vaStep = "detected" => ~vaNew
  /\ vaStep \in InFrame /\ vaNew => vaFaces.at = Here /\ vaCrop = Here

VideoInv ==
  /\ VideoTypeOK /\ vaIndex <= vaRead /\ vaCount <= vaRead
  /\ vaStep \in InFrame => vaRead < Len(vaClip)
  /\ FlagIsOfThisFrame /\ FacesOfThisFrame

Faces == [at : {0} \cup ClipFrames, face : FaceView]

(* A clamped number is within its limits. *)
LEMMA ClampedIs ==
  ASSUME NEW n \in Int, NEW most \in Nat \ {0}
  PROVE  Clamped(n, most) \in 1..most
  BY DEF Clamped

(* The invariant holds at the start. *)
LEMMA VideoInitInv == VideoInit => VideoInv
<1> SUFFICES ASSUME VideoInit PROVE VideoInv OBVIOUS
<1>1. vaClip \in Clip /\ Len(vaClip) \in Nat BY VideoAssumption DEF VideoInit
<1>2. /\ vaLimit \in 1..MostFrames /\ vaStride \in 1..MostStride
      /\ vaFaceStride \in 1..MostStride
  BY VideoAssumption, ClampedIs DEF VideoInit
<1>3. NoFaces \in Faces BY DEF NoFaces, FaceView, Faces
<1>4. /\ vaStep = "ready" /\ vaReader = "av" /\ vaRead = 0 /\ vaIndex = 0 /\ vaCount = 0
      /\ vaFaces = NoFaces /\ vaCrop = 0 /\ vaNew = FALSE /\ vaTracked = FALSE
      /\ vaBodies = {} /\ vaFused = {} /\ vaSearch \in BOOLEAN
  BY DEF VideoInit
<1>5. VideoTypeOK
  <2>1. {vaRead, vaIndex, vaCount} \subseteq 0..Len(vaClip) BY <1>1, <1>4
  <2>2. vaFaces \in [at : {0} \cup ClipFrames, face : FaceView] BY <1>3, <1>4 DEF Faces
  <2>3. QED BY <1>1, <1>2, <1>4, <2>1, <2>2 DEF VideoTypeOK
<1>6. vaStep \notin InFrame BY <1>4 DEF InFrame
<1>7. QED BY <1>4, <1>5, <1>6 DEF VideoInv, FlagIsOfThisFrame, FacesOfThisFrame

(* The numbers of an analysis, and the frame it is at while it is at one. *)
LEMMA VideoNumbers ==
  ASSUME VideoInv
  PROVE  /\ vaClip \in Clip /\ Len(vaClip) \in Nat
         /\ vaRead \in Nat /\ vaIndex \in Nat /\ vaCount \in Nat
         /\ vaRead <= Len(vaClip) /\ vaIndex <= vaRead /\ vaCount <= vaRead
         /\ More \/ vaStep \in InFrame
              => vaRead < Len(vaClip) /\ Here \in ClipFrames /\ Now.face \in FaceView
<1>1. /\ vaClip \in Clip
      /\ vaClip \in Seq([ok : BOOLEAN, person : BOOLEAN, face : FaceView])
  BY VideoAssumption DEF VideoInv, VideoTypeOK
<1>2. /\ Len(vaClip) \in Nat /\ vaRead \in Nat /\ vaIndex \in Nat /\ vaCount \in Nat
      /\ vaRead <= Len(vaClip) /\ vaIndex <= vaRead /\ vaCount <= vaRead
  BY <1>1 DEF VideoInv, VideoTypeOK
<1>3. ASSUME More \/ vaStep \in InFrame
      PROVE  vaRead < Len(vaClip) /\ Here \in ClipFrames /\ Now.face \in FaceView
  <2>1. vaRead < Len(vaClip) BY <1>3 DEF VideoInv, More
  <2>2. Here \in ClipFrames BY <1>2, <2>1 DEF Here, ClipFrames
  <2>3. vaClip[Here] \in [ok : BOOLEAN, person : BOOLEAN, face : FaceView]
    BY <1>1, <2>2, ElementOfSeq DEF ClipFrames
  <2>4. Now = vaClip[Here] BY DEF Now, Here
  <2>5. QED BY <2>1, <2>2, <2>3, <2>4
<1>4. QED BY <1>1, <1>2, <1>3

(* A step that leaves the numbers, the faces and their uses alone and       *)
(* starts no frame.                                                         *)
LEMMA VideoAside ==
  ASSUME VideoInv, UNCHANGED <<jobVars, countVars, faceVars, vaTracked, useVars>>,
         vaStep' \in {"reading", "done", "failed"}
  PROVE  VideoInv'
<1>1. vaStep' \notin InFrame' BY DEF InFrame
<1>2. QED
  BY <1>1
  DEF VideoInv, VideoTypeOK, FlagIsOfThisFrame, FacesOfThisFrame, jobVars, countVars, faceVars,
      useVars, ClipFrames

(* A frame between two samples is passed over. *)
LEMMA SkipFrameKeeps == ASSUME VideoInv, SkipFrame PROVE VideoInv'
<1>1. /\ More /\ vaRead' = vaRead + 1 /\ vaIndex' = vaIndex + 1
      /\ UNCHANGED <<jobVars, vaStep, vaCount, faceVars, vaTracked, useVars>>
  BY DEF SkipFrame
<1>2. /\ {vaRead', vaIndex', vaCount'} \subseteq 0..Len(vaClip)
      /\ vaIndex' <= vaRead' /\ vaCount' <= vaRead'
  BY <1>1, VideoNumbers
<1>3. vaStep' \notin InFrame' BY <1>1 DEF More, InFrame
<1>4. QED
  BY <1>1, <1>2, <1>3
  DEF VideoInv, VideoTypeOK, FlagIsOfThisFrame, FacesOfThisFrame, jobVars, faceVars, useVars,
      ClipFrames

(* A frame begins without new faces. *)
LEMMA DetectPersonsKeeps == ASSUME VideoInv, DetectPersons PROVE VideoInv'
<1>1. /\ More /\ vaStep' = "detected" /\ vaNew' = FALSE
      /\ UNCHANGED <<jobVars, countVars, vaFaces, vaCrop, vaTracked, useVars>>
  BY DEF DetectPersons, ResetFlag
<1>2. vaRead < Len(vaClip) BY <1>1, VideoNumbers
<1>3. QED
  BY <1>1, <1>2
  DEF VideoInv, VideoTypeOK, FlagIsOfThisFrame, FacesOfThisFrame, jobVars, countVars, useVars,
      ClipFrames, InFrame

(* Whatever the search leaves, the flag is set only together with faces of  *)
(* this frame that are cut from it; unset it stays otherwise.               *)
LEMMA SearchFacesKeeps ==
  ASSUME VideoInv, SearchFaces PROVE VideoInv'
<1>1. /\ vaStep = "detected" /\ vaStep' = "searched"
      /\ UNCHANGED <<jobVars, countVars, vaTracked, useVars>>
  BY DEF SearchFaces
<1>2. vaStep \in InFrame /\ vaStep' \in InFrame BY <1>1 DEF InFrame
<1>3. vaRead < Len(vaClip) /\ Here \in ClipFrames /\ Now.face \in FaceView
  BY <1>2, VideoNumbers
<1>4. NoFaces \in Faces /\ [at |-> Here, face |-> Now.face] \in Faces
  BY <1>3 DEF NoFaces, FaceView, Faces
<1>5. vaFaces \in Faces /\ vaCrop \in {0} \cup ClipFrames /\ vaNew \in BOOLEAN
  BY DEF VideoInv, VideoTypeOK, Faces
<1>6. ~vaNew BY <1>1 DEF VideoInv, FlagIsOfThisFrame
<1>7. /\ vaFaces' \in Faces /\ vaCrop' \in {0} \cup ClipFrames /\ vaNew' \in BOOLEAN
      /\ vaNew' => vaFaces'.at = Here /\ vaCrop' = Here
  <2>1. CASE UNCHANGED faceVars BY <1>5, <1>6, <2>1 DEF faceVars
  <2>2. CASE NobodyToIdentify /\ vaFaces' = NoFaces /\ vaCrop' = 0 /\ UNCHANGED vaNew
    BY <1>4, <1>5, <1>6, <2>2
  <2>3. CASE SearchFrame
    <3>1. CASE vaFaces' = [at |-> Here, face |-> Now.face] /\ vaNew' = (Now.face # "none")
      BY <1>3, <1>4, <2>3, <3>1 DEF SearchFrame
    <3>2. CASE UNCHANGED <<vaFaces, vaNew>>
      BY <1>3, <1>5, <1>6, <2>3, <3>2 DEF SearchFrame
    <3>3. QED BY <2>3, <3>1, <3>2 DEF SearchFrame
  <2>4. QED BY <2>1, <2>2, <2>3 DEF SearchFaces
<1>8. Here' = Here BY <1>1 DEF Here, countVars
<1>9. QED
  BY <1>1, <1>2, <1>3, <1>7, <1>8
  DEF VideoInv, VideoTypeOK, FlagIsOfThisFrame, FacesOfThisFrame, Faces, jobVars, countVars,
      useVars, ClipFrames

(* A body is projected from a face of this frame. *)
LEMMA TrackPersonsKeeps == ASSUME VideoInv, TrackPersons PROVE VideoInv'
<1>1. /\ vaStep = "searched" /\ vaStep' = "tracked"
      /\ vaBodies' = (IF Projects THEN vaBodies \cup {<<Here, vaFaces.at>>} ELSE vaBodies)
      /\ UNCHANGED <<jobVars, countVars, faceVars, vaFused>>
  BY DEF TrackPersons
<1>2. vaStep \in InFrame /\ vaStep' \in InFrame BY <1>1 DEF InFrame
<1>3. vaRead < Len(vaClip) /\ Here \in ClipFrames BY <1>2, VideoNumbers
<1>4. vaTracked' \in BOOLEAN BY DEF TrackPersons, VideoInv, VideoTypeOK
<1>5. vaBodies' \subseteq vaBodies \cup {<<Here, Here>>}
  BY <1>1, <1>2 DEF Projects, VideoInv, FlagIsOfThisFrame
<1>6. /\ vaBodies' \subseteq ClipFrames \X ({0} \cup ClipFrames)
      /\ \A b \in vaBodies' : b[1] = b[2]
  BY <1>3, <1>5 DEF VideoInv, VideoTypeOK, FacesOfThisFrame
<1>7. Here' = Here BY <1>1 DEF Here, countVars
<1>8. QED
  BY <1>1, <1>2, <1>3, <1>4, <1>6, <1>7
  DEF VideoInv, VideoTypeOK, FlagIsOfThisFrame, FacesOfThisFrame, jobVars, countVars, faceVars,
      ClipFrames

(* Tracks are given faces of this frame, and the frame is counted. *)
LEMMA FuseFacesKeeps == ASSUME VideoInv, FuseFaces PROVE VideoInv'
<1>1. /\ vaStep = "tracked" /\ vaStep' = "reading"
      /\ vaFused' = (IF vaNew /\ vaFaces.face # "none"
                     THEN vaFused \cup {<<Here, vaFaces.at, vaCrop>>} ELSE vaFused)
      /\ vaRead' = vaRead + 1 /\ vaIndex' = vaIndex + 1 /\ vaCount' = vaCount + 1
      /\ UNCHANGED <<jobVars, faceVars, vaTracked, vaBodies>>
  BY DEF FuseFaces
<1>2. vaStep \in InFrame /\ vaStep' \notin InFrame' BY <1>1 DEF InFrame
<1>3. Here \in ClipFrames BY <1>2, VideoNumbers
<1>4. vaFused' \subseteq vaFused \cup {<<Here, Here, Here>>}
  BY <1>1, <1>2 DEF VideoInv, FlagIsOfThisFrame
<1>5. /\ vaFused' \subseteq ClipFrames \X ({0} \cup ClipFrames) \X ({0} \cup ClipFrames)
      /\ \A f \in vaFused' : f[1] = f[2] /\ f[1] = f[3]
  BY <1>3, <1>4 DEF VideoInv, VideoTypeOK, FacesOfThisFrame
<1>6. /\ {vaRead', vaIndex', vaCount'} \subseteq 0..Len(vaClip)
      /\ vaIndex' <= vaRead' /\ vaCount' <= vaRead'
  BY <1>1, <1>2, VideoNumbers
<1>7. QED
  BY <1>1, <1>2, <1>5, <1>6
  DEF VideoInv, VideoTypeOK, FlagIsOfThisFrame, FacesOfThisFrame, jobVars, faceVars, ClipFrames

(* A frame that cannot be converted is passed over, or ends the reading. *)
LEMMA PassOverKeeps == ASSUME VideoInv, PassOver PROVE VideoInv'
<1>1. /\ UNCHANGED <<jobVars, vaIndex, vaCount, faceVars, vaTracked, useVars>>
      /\ vaRead' \in {vaRead, vaRead + 1} /\ vaStep' \in {vaStep, "done"}
      /\ More
  BY DEF PassOver
<1>2. /\ {vaRead', vaIndex', vaCount'} \subseteq 0..Len(vaClip)
      /\ vaIndex' <= vaRead' /\ vaCount' <= vaRead'
  BY <1>1, VideoNumbers
<1>3. vaStep' \in {"reading", "done"} /\ vaStep' \notin InFrame' BY <1>1 DEF More, InFrame
<1>4. QED
  BY <1>1, <1>2, <1>3
  DEF VideoInv, VideoTypeOK, FlagIsOfThisFrame, FacesOfThisFrame, jobVars, faceVars, useVars,
      ClipFrames

(* In every step of a frame a set flag stands for faces of this frame, for  *)
(* every clip, stride and limit, whichever searches fail.                   *)
THEOREM VideoInvariant == VideoSpec => []VideoInv
<1>1. VideoInv /\ [VideoNext]_videoVars => VideoInv'
  <2> SUFFICES ASSUME VideoInv, [VideoNext]_videoVars PROVE VideoInv' OBVIOUS
  <2>1. CASE Open
    <3>1. vaStep' \in {"reading", "done"} /\ vaReader' \in {"av", "cv2"}
      BY <2>1 DEF Open
    <3>2. UNCHANGED <<vaClip, vaStride, vaFaceStride, vaLimit, vaSearch, countVars, faceVars,
                      vaTracked, useVars>>
      BY <2>1 DEF Open
    <3>3. vaStep' \notin InFrame' BY <3>1 DEF InFrame
    <3>4. QED
      BY <3>1, <3>2, <3>3
      DEF VideoInv, VideoTypeOK, FlagIsOfThisFrame, FacesOfThisFrame, countVars, faceVars,
          useVars, ClipFrames
  <2>2. CASE SkipFrame BY <2>2, SkipFrameKeeps
  <2>3. CASE DetectPersons BY <2>3, DetectPersonsKeeps
  <2>4. CASE SearchFaces BY <2>4, SearchFacesKeeps
  <2>5. CASE TrackPersons BY <2>5, TrackPersonsKeeps
  <2>6. CASE FuseFaces BY <2>6, FuseFacesKeeps
  <2>7. CASE PassOver BY <2>7, PassOverKeeps
  <2>8. CASE Finish \/ Raise BY <2>8, VideoAside DEF Finish, Raise
  <2>9. CASE UNCHANGED videoVars
    BY <2>9 DEF videoVars, VideoInv, VideoTypeOK, FlagIsOfThisFrame, FacesOfThisFrame,
       ClipFrames, InFrame, Here
  <2>10. QED
    BY <2>1, <2>2, <2>3, <2>4, <2>5, <2>6, <2>7, <2>8, <2>9 DEF VideoNext
<1>2. QED BY <1>1, VideoInitInv, PTL DEF VideoSpec

(* The state of an analysis always has its type. *)
THEOREM VideoTypeCorrect == VideoSpec => []VideoTypeOK
<1>1. VideoInv => VideoTypeOK BY DEF VideoInv
<1>2. QED BY <1>1, VideoInvariant, PTL

(* No track is given a face, and no body is projected from one, that was    *)
(* found in, or is cut from, another frame (MiniPipeline.process_frame).    *)
THEOREM VideoFacesAreFresh == VideoSpec => []FacesOfThisFrame
<1>1. VideoInv => FacesOfThisFrame BY DEF VideoInv
<1>2. QED BY <1>1, VideoInvariant, PTL
-----------------------------------------------------------------------------
(* Plates.  What the OCR remembers of a vehicle is one vote at least and    *)
(* Window at most; what the frames wait for was submitted in their epoch,   *)
(* and the frames wait for everything that is queued.                       *)
VoteType == [epoch : 0..MaxEpoch, text : Text]
LabelType == [epoch : 0..MaxEpoch, text : Text \cup {NoText}, from : SUBSET (0..MaxEpoch)]
Votes == {v \in Seq(VoteType) : Len(v) \in 1..Window}
History == [key : (0..MaxEpoch) \X Track, votes : Votes]
JobType ==
  [at : {"new", "queued", "running", "done", "cancelled"}, track : Track \cup {0},
   epoch : 0..MaxEpoch, key : 0..MaxEpoch, text : Text \cup {NoText},
   from : SUBSET (0..MaxEpoch)]

PendingOfThisEpoch == \A j \in ToSet(plPending) : plJob[j].epoch = plPipe
JobsHaveTracks == \A j \in Job : j \in ToSet(plPending) \/ At(j) \in {"queued", "running", "done"}
                                   => plJob[j].track \in Track

QueuedArePending == \A j \in Job : At(j) = "queued" => j \in ToSet(plPending)
LabelsReadThisEpoch == \A t \in Track : plText[t].text # NoText => plText[t].epoch = plPipe

PlatesInv ==
  /\ PlatesTypeOK /\ plHist \in Seq(History)
  /\ PendingOfThisEpoch /\ JobsHaveTracks /\ QueuedArePending /\ LabelsReadThisEpoch

(* The parts of the state that the frames do not share with the OCR. *)
LEMMA PlatesTypes ==
  ASSUME PlatesInv
  PROVE  /\ plCam \in 0..MaxEpoch /\ plPipe \in 0..plCam /\ MaxEpoch \in Nat
         /\ plJob \in [Job -> JobType] /\ plQueue \in Seq(Job) /\ plPending \in Seq(Job)
         /\ ToSet(plPending) \in SUBSET Job
         /\ plText \in [Track -> LabelType]
  BY PlatesAssumption, SetOfSeq DEF PlatesInv, PlatesTypeOK, JobType, VoteType, LabelType

(* A text that is read most often, and of those the first, can be chosen.   *)
LEMMA MostCommonIs ==
  ASSUME NEW v \in Votes
  PROVE  MostCommon(v) \in Text /\ VotesFor(v, MostCommon(v)) \subseteq DOMAIN v
<1> DEFINE C(i) == Count(v, v[i].text)
           D == DOMAIN v
<1>1. /\ v \in Seq(VoteType) /\ Len(v) \in 1..Window /\ D = 1..Len(v) /\ 1 \in D /\ D \subseteq Nat
      /\ Window \in Nat
  BY PlatesAssumption DEF Votes
<1>2. ASSUME NEW p PROVE Count(v, p) \in 0..Len(v)
  <2>1. {i \in D : v[i].text = p} \in SUBSET (1..Len(v)) BY <1>1
  <2>2. Cardinality({i \in D : v[i].text = p}) \in 0..Len(v) BY <1>1, <2>1, PositionsFinite
  <2>3. QED BY <2>2 DEF Count, VotesFor
<1>3. \A i \in D : C(i) \in 0..Len(v) BY <1>2
<1> HIDE DEF D, C
<1>4. PICK i \in D : \A k \in D : C(k) <= C(i)
  <2> DEFINE Behind == {Len(v) - C(k) : k \in D}
  <2>1. Behind \in SUBSET Nat /\ Behind # {} BY <1>1, <1>3
  <2>2. PICK n \in Behind : \A m \in Behind : n <= m BY <2>1, LeastNumber
  <2>3. PICK i \in D : n = Len(v) - C(i) OBVIOUS
  <2>4. \A k \in D : Len(v) - C(i) <= Len(v) - C(k) BY <2>2, <2>3
  <2>5. \A k \in D : C(k) <= C(i) BY <1>1, <1>3, <2>4
  <2>6. QED BY <2>5
<1>5. PICK f \in {k \in D : C(k) = C(i)} : \A k \in {k \in D : C(k) = C(i)} : f <= k
  <2>1. {k \in D : C(k) = C(i)} \in SUBSET Nat /\ {k \in D : C(k) = C(i)} # {} BY <1>1
  <2>2. QED BY <2>1, LeastNumber
<1>6. /\ f \in D /\ \A k \in D : C(k) <= C(f)
      /\ \A k \in 1..f - 1 : C(k) < C(f)
  <2>1. f \in D /\ C(f) = C(i) OBVIOUS
  <2>2. ASSUME NEW k \in 1..f - 1 PROVE C(k) < C(f)
    <3>1. k \in D /\ ~(f <= k) BY <1>1, <2>1
    <3>2. C(k) # C(i) /\ C(k) <= C(i) BY <1>4, <1>5, <3>1
    <3>3. QED BY <1>3, <1>1, <2>1, <3>1, <3>2
  <2>3. QED BY <1>4, <2>1, <2>2
<1>7. MostCommon(v) \in {v[k].text : k \in D} BY <1>6 DEF MostCommon, C, D
<1>8. \A k \in D : v[k].text \in Text
  <2>1. \A k \in D : v[k] \in VoteType BY <1>1
  <2>2. QED BY <2>1 DEF VoteType
<1>9. QED BY <1>7, <1>8 DEF VotesFor

(* The outcome of a vote is a plate and the epochs of the votes for it. *)
LEMMA OutcomeIs ==
  ASSUME NEW v \in Votes, NEW own \in VoteType
  PROVE  Outcome(v, own).text \in Text /\ Outcome(v, own).from \subseteq 0..MaxEpoch
<1> DEFINE from == {v[i].epoch : i \in VotesFor(v, MostCommon(v))}
<1>1. MostCommon(v) \in Text /\ VotesFor(v, MostCommon(v)) \subseteq DOMAIN v BY MostCommonIs
<1>2. \A i \in DOMAIN v : v[i].epoch \in 0..MaxEpoch
  <2>1. \A i \in DOMAIN v : v[i] \in VoteType BY DEF Votes
  <2>2. QED BY <2>1 DEF VoteType
<1>3. from \subseteq 0..MaxEpoch BY <1>1, <1>2
<1>4. own.text \in Text /\ {own.epoch} \subseteq 0..MaxEpoch BY DEF VoteType
<1>5. Outcome(v, own) \in {[text |-> MostCommon(v), from |-> from],
                          [text |-> own.text, from |-> {own.epoch}]}
  BY DEF Outcome
<1>6. QED BY <1>1, <1>3, <1>4, <1>5

(* The votes found for a key are those of an entry. *)
LEMMA VotesOfIs ==
  ASSUME NEW hist \in Seq(History), NEW key
  PROVE  /\ VotesOf(hist, key) \in Votes \cup {<<>>}
         /\ (\E i \in DOMAIN hist : hist[i].key = key) => VotesOf(hist, key) \in Votes
<1> DEFINE D == {i \in DOMAIN hist : hist[i].key = key}
           own == Picked(hist, D)
<1>1. VotesOf(hist, key) = IF own = <<>> THEN <<>> ELSE own[1].votes BY DEF VotesOf, Where
<1>2. D \in SUBSET (1..Len(hist)) OBVIOUS
<1>3. own \in Seq(History) /\ ToSet(own) = {hist[i] : i \in D} BY <1>2, PickedIs
<1>4. D # {} => own # <<>>
  <2>1. own = <<>> => ToSet(own) = {} BY DEF ToSet
  <2>2. QED BY <1>3, <2>1
<1> HIDE DEF own
<1>5. own # <<>> => own[1].votes \in Votes
  <2>1. own # <<>> => own[1] \in History BY <1>3
  <2>2. QED BY <2>1 DEF History
<1>6. QED BY <1>1, <1>4, <1>5

(* An entry of the history has a key and its votes. *)
LEMMA HistoryTyped ==
  ASSUME NEW hist \in Seq(History), NEW i \in DOMAIN hist
  PROVE  hist[i].key \in (0..MaxEpoch) \X Track /\ hist[i].votes \in Seq(VoteType)
<1>1. hist[i] \in History OBVIOUS
<1>2. QED BY <1>1 DEF History, Votes

(* A vote leaves a history in which its key has votes. *)
LEMMA VotedIs ==
  ASSUME NEW hist \in Seq(History), NEW key \in (0..MaxEpoch) \X Track, NEW p \in VoteType
  PROVE  Voted(hist, key, p) \in Seq(History) /\ VotesOf(Voted(hist, key, p), key) \in Votes
<1> DEFINE D == {i \in DOMAIN hist : hist[i].key[1] = key[1]}
           kept == Picked(hist, D)
           read == Append(VotesOf(kept, key), p)
           votes == LastVotes(read)
           entry == [key |-> key, votes |-> votes]
           known == \E i \in DOMAIN kept : kept[i].key = key
           changed == [i \in DOMAIN kept |-> IF kept[i].key = key THEN entry ELSE kept[i]]
           added == IF known THEN changed ELSE Append(kept, entry)
<1>1. kept \in Seq(History)
  <2>1. D \in SUBSET (1..Len(hist)) OBVIOUS
  <2>2. QED BY <2>1, PickedIs
<1>2. Voted(hist, key, p)
        = IF Len(added) > MaxTracks /\ added[1].key # key THEN Tail(added) ELSE added
  BY DEF Voted, Where
<1> HIDE DEF kept
<1>3. votes \in Votes
  <2>1. VotesOf(kept, key) \in Votes \cup {<<>>} BY <1>1, VotesOfIs
  <2>2. /\ VotesOf(kept, key) \in Seq(VoteType) /\ Len(VotesOf(kept, key)) \in 0..Window
        /\ Window \in Nat \ {0}
    <3>1. Window \in Nat \ {0} BY PlatesAssumption
    <3>2. CASE VotesOf(kept, key) = <<>> BY <3>1, <3>2
    <3>3. CASE VotesOf(kept, key) \in Votes BY <3>1, <3>3 DEF Votes
    <3>4. QED BY <2>1, <3>1, <3>2, <3>3
  <2>3. read \in Seq(VoteType) /\ Len(read) \in 1..Window + 1 BY <2>2
  <2> HIDE DEF read
  <2>4. CASE Len(read) > Window
    <3>1. votes = SubSeq(read, 2, Len(read)) BY <2>4 DEF LastVotes
    <3>2. Len(read) = Window + 1 /\ \A i \in 2..Len(read) : read[i] \in VoteType
      BY <2>2, <2>3, <2>4
    <3>3. votes \in Seq(VoteType) /\ Len(votes) = Window BY <2>2, <3>1, <3>2, SubSeqProperties
    <3>4. QED BY <2>2, <3>3 DEF Votes
  <2>5. CASE ~(Len(read) > Window)
    <3>1. votes = SubSeq(read, 1, Len(read)) BY <2>5 DEF LastVotes
    <3>2. \A i \in 1..Len(read) : read[i] \in VoteType BY <2>3
    <3>3. Len(read) \in 1..Window BY <2>2, <2>3, <2>5
    <3>4. votes \in Seq(VoteType) /\ Len(votes) = Len(read) BY <3>1, <3>2, <3>3, SubSeqProperties
    <3>5. QED BY <3>3, <3>4 DEF Votes
  <2>6. QED BY <2>4, <2>5
<1> HIDE DEF votes
<1>4. entry \in History /\ entry.key = key BY <1>3 DEF History
<1> HIDE DEF entry
<1>5. added \in Seq(History) /\ \E i \in DOMAIN added : added[i].key = key
  <2>1. CASE known
    <3>1. /\ kept \in [1..Len(kept) -> History] /\ Len(kept) \in Nat
          /\ DOMAIN kept = 1..Len(kept)
      BY <1>1
    <3>2. changed \in [1..Len(kept) -> History] BY <1>4, <3>1
    <3>3. changed \in Seq(History) BY <3>1, <3>2
    <3>4. PICK i \in DOMAIN kept : kept[i].key = key BY <2>1
    <3>5. i \in DOMAIN changed /\ changed[i].key = key BY <1>4, <3>4
    <3> HIDE DEF changed
    <3>6. QED BY <2>1, <3>3, <3>5
  <2>2. CASE ~known
    <3>1. added = Append(kept, entry) BY <2>2
    <3>2. /\ Append(kept, entry) \in Seq(History)
          /\ Len(kept) + 1 \in DOMAIN Append(kept, entry)
          /\ Append(kept, entry)[Len(kept) + 1] = entry
      BY <1>1, <1>4
    <3>3. QED BY <1>4, <3>1, <3>2
  <2>3. QED BY <2>1, <2>2
<1> HIDE DEF added
<1> DEFINE after == Voted(hist, key, p)
<1>6. after \in Seq(History) /\ \E i \in DOMAIN after : after[i].key = key
  <2>1. CASE Len(added) > MaxTracks /\ added[1].key # key
    <3>1. after = Tail(added) BY <1>2, <2>1
    <3>2. PICK i \in DOMAIN added : added[i].key = key BY <1>5
    <3>3. i \in 1..Len(added) /\ i # 1 /\ added # <<>> /\ Len(added) \in Nat BY <1>5, <2>1, <3>2
    <3>4. /\ Tail(added) \in Seq(History) /\ i - 1 \in DOMAIN Tail(added)
          /\ Tail(added)[i - 1] = added[i]
      BY <1>5, <3>3
    <3>5. QED BY <3>1, <3>2, <3>4
  <2>2. CASE ~(Len(added) > MaxTracks /\ added[1].key # key) BY <1>2, <1>5, <2>2
  <2>3. QED BY <2>1, <2>2
<1> HIDE DEF after
<1>7. VotesOf(after, key) \in Votes BY <1>6, VotesOfIs
<1>8. QED BY <1>6, <1>7 DEF after

(* A reconnect starts an epoch. *)
LEMMA BumpEpochKeeps == ASSUME PlatesInv, BumpEpoch PROVE PlatesInv'
<1>1. /\ plCam' = plCam + 1 /\ plCam' \in 0..MaxEpoch
      /\ UNCHANGED <<plPipe, plFrame, plTracks, plJob, plQueue, plPending, plHist, plText,
                     plLocked, plCache, plShown>>
  BY PlatesTypes DEF BumpEpoch
<1>2. plPipe' \in 0..plCam' BY <1>1, PlatesTypes
<1>3. QED
  BY <1>1, <1>2
  DEF PlatesInv, PlatesTypeOK, PendingOfThisEpoch, JobsHaveTracks, QueuedArePending,
      LabelsReadThisEpoch, At

(* A change of one job leaves the others, and epoch and track of all. *)
LEMMA JobChange ==
  ASSUME PlatesInv, NEW j \in Job, NEW r \in JobType, plJob' = [plJob EXCEPT ![j] = r],
         r.epoch = plJob[j].epoch, r.track = plJob[j].track, At(j) \in {"queued", "running"},
         r.at # "queued", UNCHANGED <<plPending, plPipe>>
  PROVE  /\ plJob' \in [Job -> JobType]
         /\ \A k \in Job : /\ plJob'[k].epoch = plJob[k].epoch
                           /\ plJob'[k].track = plJob[k].track
         /\ PendingOfThisEpoch' /\ JobsHaveTracks' /\ QueuedArePending'
<1>1. plJob \in [Job -> JobType] /\ ToSet(plPending) \in SUBSET Job BY PlatesTypes
<1>2. /\ plJob' \in [Job -> JobType]
      /\ \A k \in Job : /\ plJob'[k].epoch = plJob[k].epoch
                        /\ plJob'[k].track = plJob[k].track
                        /\ k # j => plJob'[k] = plJob[k]
  BY <1>1
<1>3. QED
  BY <1>1, <1>2 DEF PlatesInv, PendingOfThisEpoch, JobsHaveTracks, QueuedArePending, At

(* A reader takes a job. *)
LEMMA StartJobKeeps == ASSUME PlatesInv, StartJob PROVE PlatesInv'
<1> DEFINE j == Head(plQueue)
<1>1. j \in Job /\ Tail(plQueue) \in Seq(Job) /\ plQueue' = Tail(plQueue)
  BY PlatesTypes, TailSet DEF StartJob
<1>2. UNCHANGED <<plCam, plPipe, plFrame, plTracks, plPending, plHist, plText, plLocked,
                 plCache, plShown>>
  BY DEF StartJob
<1>3. /\ plJob' \in [Job -> JobType] /\ PendingOfThisEpoch' /\ JobsHaveTracks' /\ QueuedArePending'
  <2>1. CASE At(j) = "queued"
    <3> DEFINE r == [plJob[j] EXCEPT !.at = "running", !.key = plCam]
    <3>1. plJob' = [plJob EXCEPT ![j] = r] BY <2>1 DEF StartJob
    <3>2. r \in JobType /\ r.epoch = plJob[j].epoch /\ r.track = plJob[j].track /\ r.at # "queued"
      BY <1>1, PlatesTypes DEF JobType
    <3> HIDE DEF r, j
    <3>3. QED BY <1>1, <1>2, <2>1, <3>1, <3>2, JobChange
  <2>2. CASE At(j) # "queued"
    <3>1. plJob' = plJob BY <2>2 DEF StartJob
    <3>2. QED
      BY <1>2, <3>1, PlatesTypes DEF PlatesInv, PendingOfThisEpoch, JobsHaveTracks, QueuedArePending, At
  <2>3. QED BY <2>1, <2>2
<1>4. PlatesTypeOK' /\ plHist' \in Seq(History)
  BY <1>1, <1>2, <1>3 DEF PlatesInv, PlatesTypeOK, JobType, VoteType, LabelType
<1>5. LabelsReadThisEpoch' BY <1>2 DEF PlatesInv, LabelsReadThisEpoch
<1>6. QED BY <1>3, <1>4, <1>5 DEF PlatesInv

(* A reader is done with a job. *)
LEMMA FinishJobKeeps == ASSUME PlatesInv, NEW j \in Job, FinishJob(j) PROVE PlatesInv'
<1>1. /\ At(j) = "running"
      /\ UNCHANGED <<plCam, plPipe, plFrame, plTracks, plQueue, plPending, plText, plLocked,
                     plCache, plShown>>
  BY DEF FinishJob
<1>2. plJob[j] \in JobType /\ plJob[j].track \in Track
  <2>1. plJob[j] \in JobType BY PlatesTypes
  <2>2. QED BY <1>1, <2>1 DEF PlatesInv, JobsHaveTracks, At
<1>3. /\ plHist' \in Seq(History)
      /\ \E r \in JobType : /\ plJob' = [plJob EXCEPT ![j] = r]
                            /\ r.epoch = plJob[j].epoch /\ r.track = plJob[j].track
                            /\ r.at # "queued"
  <2>1. CASE plJob' = [plJob EXCEPT ![j].at = "done"] /\ plHist' = plHist
    <3> DEFINE r == [plJob[j] EXCEPT !.at = "done"]
    <3>1. plJob' = [plJob EXCEPT ![j] = r] BY <2>1
    <3>2. r \in JobType /\ r.epoch = plJob[j].epoch /\ r.track = plJob[j].track /\ r.at # "queued"
      BY <1>2 DEF JobType
    <3> HIDE DEF r
    <3>3. plHist' \in Seq(History) BY <2>1 DEF PlatesInv
    <3>4. QED BY <3>1, <3>2, <3>3
  <2>2. ASSUME NEW p \in Text, NEW confident \in BOOLEAN,
               LET key == <<plJob[j].key, plJob[j].track>>
                   v == Vote(plJob[j].epoch, p)
                   out == Outcome(VotesOf(Voted(plHist, key, v), key), v)
               IN  /\ plHist' = Voted(plHist, key, v)
                   /\ plJob' = [plJob EXCEPT ![j].at = "done",
                                  ![j].text = IF confident THEN out.text ELSE NoText,
                                  ![j].from = IF confident THEN out.from ELSE {}]
        PROVE  /\ plHist' \in Seq(History)
               /\ \E r \in JobType : /\ plJob' = [plJob EXCEPT ![j] = r]
                                     /\ r.epoch = plJob[j].epoch /\ r.track = plJob[j].track
                                     /\ r.at # "queued"
    <3> DEFINE key == <<plJob[j].key, plJob[j].track>>
               v == Vote(plJob[j].epoch, p)
               hist == Voted(plHist, key, v)
               out == Outcome(VotesOf(hist, key), v)
               text == IF confident THEN out.text ELSE NoText
               from == IF confident THEN out.from ELSE {}
               r == [plJob[j] EXCEPT !.at = "done", !.text = text, !.from = from]
    <3>1. key \in (0..MaxEpoch) \X Track /\ plHist \in Seq(History) /\ v \in VoteType
      BY <1>2 DEF JobType, PlatesInv, Vote, VoteType
    <3>2. plHist' = hist /\ plJob' = [plJob EXCEPT ![j] = r] BY <2>2
    <3> HIDE DEF key, v
    <3>3. hist \in Seq(History) /\ VotesOf(hist, key) \in Votes BY <3>1, VotedIs
    <3> HIDE DEF hist
    <3>4. out.text \in Text /\ out.from \subseteq 0..MaxEpoch BY <3>1, <3>3, OutcomeIs
    <3> HIDE DEF out
    <3>5. text \in Text \cup {NoText} /\ from \in SUBSET (0..MaxEpoch)
      BY <3>4, PlatesAssumption
    <3> HIDE DEF text, from
    <3>6. r \in JobType /\ r.epoch = plJob[j].epoch /\ r.track = plJob[j].track /\ r.at # "queued"
      BY <1>2, <3>5 DEF JobType
    <3> HIDE DEF r
    <3>7. QED BY <3>2, <3>3, <3>6
  <2>3. QED BY <2>1, <2>2 DEF FinishJob
<1>4. /\ plJob' \in [Job -> JobType] /\ PendingOfThisEpoch' /\ JobsHaveTracks' /\ QueuedArePending'
  BY <1>1, <1>3, JobChange
<1>5. PlatesTypeOK'
  <2>1. \A i \in DOMAIN plHist' : plHist'[i].key \in (0..MaxEpoch) \X Track
                                  /\ plHist'[i].votes \in Seq(VoteType)
    BY <1>3, HistoryTyped
  <2>2. QED BY <1>1, <1>4, <2>1 DEF PlatesInv, PlatesTypeOK, JobType, VoteType, LabelType
<1>6. LabelsReadThisEpoch' BY <1>1 DEF PlatesInv, LabelsReadThisEpoch
<1>7. QED BY <1>3, <1>4, <1>5, <1>6 DEF PlatesInv

(* The last text read for a track is that of a result, or none. *)
LEMMA LastOfIs ==
  ASSUME NEW results \in Seq(Job), NEW t, NEW texts
  PROVE  LET r == LastOf(results, t, texts)
         IN  r = NoText \/ (r \in ToSet(results) /\ plJob[r].text \in texts)
<1> DEFINE D == {i \in DOMAIN results :
                   plJob[results[i]].track = t /\ plJob[results[i]].text \in texts}
           own == Picked(results, D)
<1>1. LastOf(results, t, texts) = IF own = <<>> THEN NoText ELSE own[Len(own)]
  BY DEF LastOf, Where, Last
<1>2. own \in Seq(Job) /\ ToSet(own) = {results[i] : i \in D}
  <2>1. D \in SUBSET (1..Len(results)) OBVIOUS
  <2> HIDE DEF D
  <2>2. QED BY <2>1, PickedIs
<1>3. \A x \in {results[i] : i \in D} : x \in ToSet(results) /\ plJob[x].text \in texts
  BY DEF ToSet
<1> HIDE DEF own, D
<1>4. own # <<>> => own[Len(own)] \in ToSet(own) BY <1>2 DEF ToSet
<1>5. QED BY <1>1, <1>2, <1>3, <1>4

(* The state a frame begins from: of an old epoch nothing is left. *)
LEMMA ResyncedIs ==
  ASSUME PlatesInv
  PROVE  /\ Resynced.pending \in Seq(Job) /\ Len(Resynced.pending) <= MaxPending
         /\ ToSet(Resynced.pending) \subseteq ToSet(plPending)
         /\ \A j \in ToSet(Resynced.pending) : plJob[j].epoch = plCam
         /\ Resynced.text \in [Track -> LabelType]
         /\ \A t \in Track : Resynced.text[t].text # NoText => Resynced.text[t].epoch = plCam
         /\ Resynced.cache \subseteq Track \X Text
<1>1. CASE plCam = plPipe
  BY <1>1, PlatesTypes
  DEF Resynced, PlatesInv, PlatesTypeOK, PendingOfThisEpoch, LabelsReadThisEpoch
<1>2. CASE plCam # plPipe
  <2>1. /\ Resynced.pending = <<>> /\ Resynced.text = Clear /\ Resynced.cache = {}
    BY <1>2 DEF Resynced
  <2>2. ToSet(<<>>) = {} /\ Len(<<>>) <= MaxPending BY PlatesAssumption DEF ToSet
  <2>3. \A t \in Track : Clear[t] = NoPlate BY DEF Clear
  <2>4. NoPlate.text = NoText /\ NoPlate \in LabelType
    BY PlatesAssumption DEF NoPlate, Plate, LabelType
  <2>5. Clear \in [Track -> LabelType]
    BY <2>4 DEF Clear
  <2>6. QED BY <2>1, <2>2, <2>3, <2>4, <2>5
<1>3. QED BY <1>1, <1>2

(* Cancelling jobs stops only those that wait. *)
LEMMA CancelledIs ==
  ASSUME PlatesInv, NEW jobs
  PROVE  /\ Cancelled(jobs) \in [Job -> JobType]
         /\ \A j \in Job : /\ Cancelled(jobs)[j].epoch = plJob[j].epoch
                           /\ Cancelled(jobs)[j].track = plJob[j].track
                           /\ Cancelled(jobs)[j].at \in {"queued", "running", "done"}
                                => Cancelled(jobs)[j].at = plJob[j].at
                           /\ j \in jobs => Cancelled(jobs)[j].at # "queued"
<1>1. ASSUME NEW j \in Job
      PROVE  LET r == IF j \in jobs /\ At(j) = "queued" THEN [plJob[j] EXCEPT !.at = "cancelled"]
                                                        ELSE plJob[j]
             IN  /\ r \in JobType /\ r.epoch = plJob[j].epoch /\ r.track = plJob[j].track
                 /\ r.at \in {"queued", "running", "done"} => r.at = plJob[j].at
                 /\ j \in jobs => r.at # "queued"
  <2>1. plJob[j] \in JobType BY PlatesTypes
  <2>2. QED BY <2>1 DEF JobType, At
<1>2. QED BY <1>1 DEF Cancelled

(* A frame collects the results of its epoch. *)
LEMMA BeginFrameKeeps == ASSUME PlatesInv, BeginFrame PROVE PlatesInv'
<1> DEFINE pending == Resynced.pending
           living == IF plCam = plPipe THEN plTracks ELSE {}
           done == Where(pending, LAMBDA j : At(j) = "done")
           open == {j \in ToSet(pending) : At(j) # "done"}
           read == [t \in Track |-> LastOf(done, t, Text)]
           hit == [t \in Track |-> LastOf(done, t, Listed)]
<1>1. PICK timedOut \in SUBSET open :
        /\ plPending' = Where(pending, LAMBDA j : j \in open \ timedOut)
        /\ plJob' = Cancelled(timedOut \cup (ToSet(plPending) \ ToSet(pending)))
  BY DEF BeginFrame
<1>2. /\ plText' = [t \in Track |-> IF read[t] = NoText THEN Resynced.text[t]
                      ELSE Plate(plJob[read[t]].epoch, plJob[read[t]].text,
                                 plJob[read[t]].from)]
      /\ plCache' = (IF done = <<>> THEN Resynced.cache ELSE UniquePlates(done))
      /\ plLocked' = [t \in Track |->
           IF t \notin living THEN NoText ELSE IF hit[t] # NoText THEN hit[t] ELSE plLocked[t]]
      /\ plTracks' = living /\ plPipe' = plCam /\ plFrame' = TRUE
      /\ UNCHANGED <<plCam, plQueue, plHist, plShown>>
  BY DEF BeginFrame
<1>3. /\ pending \in Seq(Job) /\ Len(pending) <= MaxPending
      /\ ToSet(pending) \subseteq ToSet(plPending)
      /\ \A j \in ToSet(pending) : plJob[j].epoch = plCam
  BY ResyncedIs
<1> HIDE DEF pending
<1>4. done \in Seq(Job) /\ ToSet(done) \subseteq ToSet(pending)
  <2> DEFINE D == {i \in DOMAIN pending : At(pending[i]) = "done"}
  <2>1. D \in SUBSET (1..Len(pending)) BY <1>3
  <2>2. done = Picked(pending, D) BY DEF Where
  <2> HIDE DEF D, done
  <2>3. /\ done \in Seq(Job) /\ ToSet(done) = {pending[i] : i \in D}
    BY <1>3, <2>1, <2>2, PickedIs
  <2>4. \A i \in D : pending[i] \in ToSet(pending) BY <1>3, <2>1 DEF ToSet
  <2>5. QED BY <2>3, <2>4
<1> HIDE DEF done
<1>5. /\ plPending' \in Seq(Job) /\ Len(plPending') <= MaxPending
      /\ ToSet(plPending') \subseteq ToSet(pending) /\ open \ timedOut \subseteq ToSet(plPending')
  <2> DEFINE D == {i \in DOMAIN pending : pending[i] \in open \ timedOut}
  <2>1. D \in SUBSET (1..Len(pending)) BY <1>3
  <2>2. plPending' = Picked(pending, D) BY <1>1 DEF Where
  <2> HIDE DEF D
  <2>3. /\ plPending' \in Seq(Job) /\ ToSet(plPending') = {pending[i] : i \in D}
        /\ Len(plPending') <= Len(pending) /\ Len(plPending') \in Nat
    BY <1>3, <2>1, <2>2, PickedIs
  <2>4. \A i \in D : pending[i] \in ToSet(pending) BY <1>3, <2>1 DEF ToSet
  <2>5. \A j \in open \ timedOut : \E i \in D : j = pending[i] BY DEF ToSet, D
  <2>6. MaxPending \in Nat /\ Len(pending) \in Nat BY <1>3, PlatesAssumption
  <2>7. QED BY <1>3, <2>3, <2>4, <2>5, <2>6
<1>6. /\ plJob' \in [Job -> JobType]
      /\ \A j \in Job : /\ plJob'[j].epoch = plJob[j].epoch /\ plJob'[j].track = plJob[j].track
                        /\ plJob'[j].at \in {"queued", "running", "done"}
                             => plJob'[j].at = plJob[j].at
                        /\ j \in timedOut \cup (ToSet(plPending) \ ToSet(pending))
                             => plJob'[j].at # "queued"
  BY <1>1, CancelledIs
<1>7. \A j \in ToSet(done) :
        /\ j \in Job /\ plJob[j] \in JobType /\ plJob[j].epoch = plCam /\ plJob[j].track \in Track
  BY <1>3, <1>4, PlatesTypes DEF PlatesInv, JobsHaveTracks
<1>8. PendingOfThisEpoch' /\ JobsHaveTracks' /\ QueuedArePending'
  <2>1. ToSet(plPending') \in SUBSET Job /\ ToSet(plPending') \subseteq ToSet(plPending)
    BY <1>3, <1>5, PlatesTypes
  <2>2. PendingOfThisEpoch' BY <1>2, <1>3, <1>5, <1>6, <2>1 DEF PendingOfThisEpoch
  <2>3. JobsHaveTracks' BY <1>6, <2>1 DEF PlatesInv, JobsHaveTracks, At
  <2>4. ASSUME NEW j \in Job, plJob'[j].at = "queued" PROVE j \in ToSet(plPending')
    <3>1. At(j) = "queued" /\ j \notin timedOut /\ j \notin ToSet(plPending) \ ToSet(pending)
      BY <1>6, <2>4 DEF At
    <3>2. j \in ToSet(plPending) BY <3>1 DEF PlatesInv, QueuedArePending
    <3>3. j \in open \ timedOut BY <3>1, <3>2
    <3>4. QED BY <1>5, <3>3
  <2>5. QueuedArePending' BY <2>4 DEF QueuedArePending, At
  <2>6. QED BY <2>2, <2>3, <2>5
<1>9. ASSUME NEW t \in Track
      PROVE  LET r == LastOf(done, t, Text)
                 l == IF r = NoText THEN Resynced.text[t]
                      ELSE Plate(plJob[r].epoch, plJob[r].text, plJob[r].from)
             IN  /\ l \in LabelType
                 /\ l.text # NoText => l.epoch = plCam
  <2> DEFINE r == LastOf(done, t, Text)
  <2>1. r = NoText \/ (r \in ToSet(done) /\ plJob[r].text \in Text) BY <1>4, LastOfIs
  <2>2. plCam \in 0..MaxEpoch BY PlatesTypes
  <2> HIDE DEF r
  <2>3. CASE r = NoText BY <2>3, ResyncedIs DEF r
  <2>4. CASE r # NoText BY <1>7, <2>1, <2>2, <2>4 DEF Plate, LabelType, JobType, r
  <2>5. QED BY <2>3, <2>4
<1>10. /\ plText' \in [Track -> LabelType]
       /\ LabelsReadThisEpoch'
  <2>1. \A t \in Track : read[t] = LastOf(done, t, Text) OBVIOUS
  <2> HIDE DEF read
  <2>2. QED BY <1>2, <1>9, <2>1 DEF LabelsReadThisEpoch
<1>11. plCache' \subseteq Track \X Text
  <2>1. CASE done = <<>> BY <1>2, <2>1, ResyncedIs
  <2>2. CASE done # <<>>
    <3>1. \A i \in DOMAIN done : done[i] \in ToSet(done) BY DEF ToSet
    <3>2. UniquePlates(done) \subseteq Track \X Text BY <1>7, <3>1 DEF UniquePlates, JobType
    <3>3. QED BY <1>2, <2>2, <3>2
  <2>3. QED BY <2>1, <2>2
<1>12. plLocked' \in [Track -> Job \cup {NoText}]
  <2>1. \A t \in Track : hit[t] \in Job \cup {NoText}
    <3>1. \A t \in Track : hit[t] = LastOf(done, t, Listed) OBVIOUS
    <3> HIDE DEF hit
    <3>2. QED BY <1>4, <1>7, <3>1, LastOfIs
  <2> HIDE DEF hit
  <2>2. plLocked \in [Track -> Job \cup {NoText}] BY DEF PlatesInv, PlatesTypeOK
  <2>3. QED BY <1>2, <2>1, <2>2
<1>13. living \subseteq Track BY DEF PlatesInv, PlatesTypeOK
<1>14. PlatesTypeOK'
  <2>1. plPipe' \in 0..plCam' BY <1>2, PlatesTypes
  <2>2. QED BY <1>2, <1>5, <1>6, <1>10, <1>11, <1>12, <1>13, <2>1
         DEF PlatesInv, PlatesTypeOK, JobType, VoteType, LabelType
<1>15. QED BY <1>2, <1>8, <1>10, <1>14 DEF PlatesInv

(* Evicting tracks leaves a history. *)
LEMMA EvictedIs ==
  ASSUME PlatesInv, NEW dead PROVE Evicted(dead) \in Seq(History)
<1> DEFINE D == {i \in DOMAIN plHist : plHist[i].key[1] = plCam /\ plHist[i].key[2] \notin dead}
<1>1. plHist \in Seq(History) /\ D \in SUBSET (1..Len(plHist)) BY DEF PlatesInv
<1>2. Evicted(dead) = Picked(plHist, D) BY DEF Evicted, Where
<1> HIDE DEF D
<1>3. Picked(plHist, D) \in Seq(History) BY <1>1, PickedIs
<1>4. QED BY <1>2, <1>3

(* A frame ends with the tracks that live; one of them may get a job. *)
LEMMA FinishFrameKeeps == ASSUME PlatesInv, FinishFrame PROVE PlatesInv'
<1>1. PICK live \in SUBSET Track :
        /\ plTracks' = live
        /\ \/ UNCHANGED <<plJob, plPending, plQueue>>
           \/ \E t \in live, j \in Job : SubmitJob(t, j)
        /\ \E dead \in SUBSET (Track \ live) : plHist' = Evicted(dead)
        /\ LET labels == [t \in Track |-> IF t \in live THEN plText[t] ELSE NoPlate]
           IN  plText' = labels /\ plShown' = ShownPlates(labels, live)
        /\ plLocked' = [t \in Track |-> IF t \in live THEN plLocked[t] ELSE NoText]
  BY DEF FinishFrame
<1>2. plFrame' = FALSE /\ UNCHANGED <<plCam, plPipe, plCache>> BY DEF FinishFrame
<1>3. plHist' \in Seq(History) BY <1>1, EvictedIs
<1>4. /\ plJob' \in [Job -> JobType] /\ plQueue' \in Seq(Job) /\ plPending' \in Seq(Job)
      /\ Len(plPending') <= MaxPending
      /\ PendingOfThisEpoch' /\ JobsHaveTracks' /\ QueuedArePending'
  <2>1. CASE UNCHANGED <<plJob, plPending, plQueue>>
    BY <1>2, <2>1, PlatesTypes
    DEF PlatesInv, PlatesTypeOK, PendingOfThisEpoch, JobsHaveTracks, QueuedArePending, At
  <2>2. ASSUME NEW t \in live, NEW j \in Job, SubmitJob(t, j)
        PROVE  /\ plJob' \in [Job -> JobType] /\ plQueue' \in Seq(Job) /\ plPending' \in Seq(Job)
               /\ Len(plPending') <= MaxPending
               /\ PendingOfThisEpoch' /\ JobsHaveTracks' /\ QueuedArePending'
    <3>1. /\ Len(plPending) < MaxPending /\ MaxPending \in Nat
          /\ plPending' = Append(plPending, j) /\ plQueue' = Append(plQueue, j)
      BY <2>2, PlatesAssumption DEF SubmitJob
    <3>2. /\ plPending' \in Seq(Job) /\ ToSet(plPending') = ToSet(plPending) \cup {j}
          /\ Len(plPending') <= MaxPending /\ plQueue' \in Seq(Job)
      BY <3>1, PlatesTypes, AppendSet
    <3> DEFINE r == [plJob[j] EXCEPT !.at = "queued", !.track = t, !.epoch = plPipe]
    <3>3. plJob' = [plJob EXCEPT ![j] = r] BY <2>2 DEF SubmitJob
    <3>4. r \in JobType /\ r.epoch = plPipe /\ r.track = t
      <4>1. plJob[j] \in JobType /\ plPipe \in 0..MaxEpoch /\ t \in Track BY PlatesTypes
      <4>2. QED BY <4>1 DEF JobType
    <3> HIDE DEF r
    <3>5. /\ plJob' \in [Job -> JobType]
          /\ \A k \in Job : plJob'[k] = IF k = j THEN r ELSE plJob[k]
      BY <3>3, <3>4, PlatesTypes
    <3>6. PendingOfThisEpoch'
      BY <1>2, <3>2, <3>4, <3>5, PlatesTypes DEF PlatesInv, PendingOfThisEpoch
    <3>7. JobsHaveTracks'
      BY <3>2, <3>4, <3>5 DEF PlatesInv, JobsHaveTracks, At
    <3>8. QueuedArePending' BY <3>2, <3>5 DEF PlatesInv, QueuedArePending, At
    <3>9. QED BY <3>2, <3>5, <3>6, <3>7, <3>8
  <2>3. QED BY <1>1, <2>1, <2>2
<1>5. /\ plText' \in [Track -> LabelType]
      /\ LabelsReadThisEpoch'
  <2>1. NoPlate.text = NoText /\ NoPlate \in LabelType
    BY PlatesAssumption DEF NoPlate, Plate, LabelType
  <2>2. plText' = [t \in Track |-> IF t \in live THEN plText[t] ELSE NoPlate] BY <1>1
  <2>3. plText' \in [Track -> LabelType]
    BY <2>1, <2>2, PlatesTypes
  <2>4. QED BY <1>2, <2>1, <2>2, <2>3 DEF PlatesInv, LabelsReadThisEpoch
<1>6. plShown' \subseteq Track \X Text
  <2>1. plShown' = ShownPlates(plText', live) BY <1>1
  <2>2. plCache \subseteq Track \X Text BY DEF PlatesInv, PlatesTypeOK
  <2>3. \A t \in live : t \in Track /\ plText'[t].text \in Text \cup {NoText}
    BY <1>5 DEF LabelType
  <2>4. QED BY <2>1, <2>2, <2>3 DEF ShownPlates
<1>7. plLocked' \in [Track -> Job \cup {NoText}]
  BY <1>1 DEF PlatesInv, PlatesTypeOK
<1>8. PlatesTypeOK'
  <2>1. \A i \in DOMAIN plHist' : plHist'[i].key \in (0..MaxEpoch) \X Track
                                  /\ plHist'[i].votes \in Seq(VoteType)
    BY <1>3, HistoryTyped
  <2>2. QED BY <1>1, <1>2, <1>4, <1>5, <1>6, <1>7, <2>1 DEF PlatesInv, PlatesTypeOK, JobType, VoteType, LabelType
<1>9. QED BY <1>3, <1>4, <1>5, <1>8 DEF PlatesInv

(* The invariant holds at the start. *)
LEMMA PlatesInitInv == PlatesInit => PlatesInv
<1> SUFFICES ASSUME PlatesInit PROVE PlatesInv OBVIOUS
<1>1. ToSet(<<>>) = {} /\ <<>> \in Seq(History) /\ <<>> \in Seq(Job) /\ DOMAIN <<>> = {}
  BY DEF ToSet
<1>2. plJob \in [Job -> JobType] /\ \A j \in Job : plJob[j].at = "new"
  <2>1. NewJob \in JobType /\ NewJob.at = "new" BY PlatesAssumption DEF NewJob, JobType
  <2>2. QED BY <2>1 DEF PlatesInit
<1>3. /\ plText \in [Track -> LabelType]
      /\ \A t \in Track : plText[t].text = NoText
  BY PlatesAssumption DEF PlatesInit, Clear, NoPlate, Plate, LabelType
<1>4. PlatesTypeOK
  <2>1. 0 \in 0..MaxEpoch /\ 0 \in 0..0 /\ Len(<<>>) <= MaxPending BY PlatesAssumption
  <2>2. QED BY <1>1, <1>2, <1>3, <2>1 DEF PlatesInit, PlatesTypeOK, JobType, VoteType, LabelType
<1>5. QED
  BY <1>1, <1>2, <1>3, <1>4
  DEF PlatesInit, PlatesInv, PendingOfThisEpoch, JobsHaveTracks, QueuedArePending,
      LabelsReadThisEpoch, At

(* What a frame waits for was submitted in its epoch, nothing else is       *)
(* queued, and what the OCR remembers has its type, for every number of     *)
(* jobs, tracks and reads.                                                  *)
THEOREM PlatesInvariant == PlatesSpec => []PlatesInv
<1>1. PlatesInv /\ [PlatesNext]_plateVars => PlatesInv'
  <2> SUFFICES ASSUME PlatesInv, [PlatesNext]_plateVars PROVE PlatesInv' OBVIOUS
  <2>1. CASE BumpEpoch BY <2>1, BumpEpochKeeps
  <2>2. CASE StartJob BY <2>2, StartJobKeeps
  <2>3. CASE BeginFrame BY <2>3, BeginFrameKeeps
  <2>4. CASE FinishFrame BY <2>4, FinishFrameKeeps
  <2>5. ASSUME NEW j \in Job, FinishJob(j) PROVE PlatesInv' BY <2>5, FinishJobKeeps
  <2>6. CASE UNCHANGED plateVars
    BY <2>6 DEF plateVars, PlatesInv, PlatesTypeOK, PendingOfThisEpoch, JobsHaveTracks,
       QueuedArePending, LabelsReadThisEpoch, At
  <2>7. QED BY <2>1, <2>2, <2>3, <2>4, <2>5, <2>6 DEF PlatesNext
<1>2. QED BY <1>1, PlatesInitInv, PTL DEF PlatesSpec

(* Votes, jobs and labels always have their types. *)
THEOREM PlatesTypeCorrect == PlatesSpec => []PlatesTypeOK
<1>1. PlatesInv => PlatesTypeOK BY DEF PlatesInv
<1>2. QED BY <1>1, PlatesInvariant, PTL

(* Once the pipeline is in an epoch no crop of another is waiting to be     *)
(* read, and no result of one labels a track, in whatever order reconnects, *)
(* reads and frames come (_resync_epoch_if_bumped).                         *)
THEOREM PlatesOldReadsEnd == PlatesSpec => []OldReadsEndWithTheEpoch
<1>1. PlatesInv => OldReadsEndWithTheEpoch
  BY DEF PlatesInv, PendingOfThisEpoch, QueuedArePending, LabelsReadThisEpoch,
     OldReadsEndWithTheEpoch
<1>2. QED BY <1>1, PlatesInvariant, PTL
-----------------------------------------------------------------------------
(***************************************************************************)
(* Viewers.  A viewer whose count is the present one has been sent the     *)
(* stored frame, unless that was stored after the count; then the count    *)
(* and the events are still to come.  So a viewer that wakes either sends  *)
(* the frame or will be woken again.                                       *)
(***************************************************************************)
SeenCounts ==
  /\ \A v \in Viewer : vwAt[v] = "new" => vwSeen[v] = -1 /\ vwSent[v] = 0
  /\ vwCamera => \A v \in Viewer : vwSeen[v] <= vwVersion
  /\ \A v \in Viewer : Watching(v) /\ vwFrame \notin {0, vwSent[v]} /\ vwSeen[v] = vwVersion
       => cpAt = "stored"

CountFollows == vwVersion + (IF cpAt \in {"encoding", "stored"} THEN 1 ELSE 0) <= cpFrame

ViewersInv ==
  /\ ViewersTypeOK /\ NoViewerForgotten /\ SeenCounts /\ CountFollows
  /\ \A v \in Viewer : Watching(v) => v \in vwSubs

(* What the types say of the numbers. *)
LEMMA ViewersTypes ==
  ASSUME ViewersInv
  PROVE  /\ MaxCaptured \in Nat /\ vwFrame \in 0..MaxCaptured /\ vwVersion \in 0..MaxCaptured
         /\ cpFrame \in 0..MaxCaptured /\ vwSent \in [Viewer -> 0..MaxCaptured]
         /\ vwSeen \in [Viewer -> -1..MaxCaptured]
         /\ vwAt \in [Viewer -> {"new", "starting", "waiting", "woken", "gone"}]
BY ViewersAssumption DEF ViewersInv, ViewersTypeOK

(* The invariant holds at the start. *)
LEMMA ViewersInitInv == ViewersInit => ViewersInv
<1> SUFFICES ASSUME ViewersInit PROVE ViewersInv OBVIOUS
<1>1. ViewersTypeOK
  <2>1. Cardinality(vwSubs) = 0 BY FS_EmptySet DEF ViewersInit
  <2>2. MaxCaptured \in Nat BY ViewersAssumption
  <2>3. 0 \in 0..MaxCaptured /\ -1 \in -1..MaxCaptured BY <2>2
  <2>4. QED BY <2>1, <2>3 DEF ViewersInit, ViewersTypeOK
<1>2. \A v \in Viewer : ~Watching(v) BY DEF ViewersInit, Watching
<1>3. NoViewerForgotten BY <1>2 DEF NoViewerForgotten
<1>4. SeenCounts
  <2>1. \A v \in Viewer : vwSeen[v] = -1 /\ vwSent[v] = 0 BY DEF ViewersInit
  <2>2. vwVersion = 0 /\ -1 <= 0 BY DEF ViewersInit
  <2>3. QED BY <1>2, <2>1, <2>2 DEF SeenCounts
<1>5. CountFollows BY DEF ViewersInit, CountFollows
<1>6. QED BY <1>1, <1>2, <1>3, <1>4, <1>5 DEF ViewersInv

(* A viewer enters; a stored frame is for it too. *)
LEMMA SubscribeKeeps ==
  ASSUME ViewersInv, NEW v \in Viewer, Subscribe(v)
  PROVE  ViewersInv'
<1>1. /\ vwCamera /\ vwAt[v] = "new" /\ vwSubs' = vwSubs \cup {v}
      /\ vwEvent' = (IF vwFrame # 0 THEN vwEvent \cup {v} ELSE vwEvent)
      /\ vwAt' = [vwAt EXCEPT ![v] = "starting"] /\ vwCount' = Cardinality(vwSubs')
      /\ UNCHANGED <<vwCamera, vwSent, vwSeen, vwFrame, vwVersion, cpAt, cpFrame, cpSubs>>
  BY DEF Subscribe, FirstEvent, captureVars
<1>2. vwAt'[v] = "starting" /\ \A w \in Viewer : w # v => vwAt'[w] = vwAt[w]
  BY <1>1, ViewersTypes
<1>3. \A w \in Viewer : w # v => (Watching(w)' <=> Watching(w)) BY <1>1, <1>2 DEF Watching
<1>4. ViewersTypeOK' BY <1>1 DEF ViewersInv, ViewersTypeOK
<1>5. NoViewerForgotten' BY <1>1, <1>3 DEF ViewersInv, NoViewerForgotten
<1>6. SeenCounts'
  <2>1. vwSeen[v] = -1 /\ vwVersion \in Nat
    BY <1>1, ViewersTypes DEF ViewersInv, SeenCounts
  <2>2. vwSeen[v] # vwVersion BY <2>1
  <2>3. QED BY <1>1, <1>2, <1>3, <2>2 DEF ViewersInv, SeenCounts
<1>7. CountFollows' BY <1>1 DEF ViewersInv, CountFollows
<1>8. \A w \in Viewer : Watching(w)' => w \in vwSubs' BY <1>1, <1>3 DEF ViewersInv
<1>9. QED BY <1>4, <1>5, <1>6, <1>7, <1>8 DEF ViewersInv

(* A generator that starts, waits again or leaves. *)
LEMMA BodyKeeps ==
  ASSUME ViewersInv, NEW v \in Viewer, Abandon(v) \/ StartBody(v) \/ WaitAgain(v) \/ LeaveBody(v)
  PROVE  ViewersInv'
<1>1. /\ vwAt'[v] # "new" /\ \A w \in Viewer : w # v => vwAt'[w] = vwAt[w]
      /\ vwAt' \in [Viewer -> {"new", "starting", "waiting", "woken", "gone"}]
      /\ Watching(v)' => Watching(v) /\ ~LeaveBody(v)
  BY ViewersTypes DEF Abandon, StartBody, WaitAgain, LeaveBody, Watching
<1>2. /\ UNCHANGED <<vwCamera, vwEvent, vwSent, vwSeen, vwVersion, cpAt, cpFrame, cpSubs>>
      /\ vwFrame' \in {0, vwFrame}
  BY DEF Abandon, StartBody, WaitAgain, LeaveBody, captureVars
<1>3. /\ vwSubs' \subseteq vwSubs /\ vwCount' = Cardinality(vwSubs')
      /\ \A w \in vwSubs : w \in vwSubs' \/ (w = v /\ LeaveBody(v))
  BY DEF Abandon, StartBody, WaitAgain, LeaveBody, ViewersInv, ViewersTypeOK
<1>4. \A w \in Viewer : Watching(w)' => Watching(w)
  BY <1>1, <1>2 DEF Watching
<1>5. ViewersTypeOK'
  <2>1. vwFrame' \in 0..MaxCaptured BY <1>2, ViewersTypes
  <2>2. QED BY <1>1, <1>2, <1>3, <2>1 DEF ViewersInv, ViewersTypeOK
<1>6. \A w \in Viewer : vwFrame' \notin {0, vwSent'[w]} => vwFrame \notin {0, vwSent[w]}
  BY <1>2
<1>7. NoViewerForgotten' BY <1>2, <1>4, <1>6 DEF ViewersInv, NoViewerForgotten
<1>8. SeenCounts'
  <2>1. \A w \in Viewer : vwAt'[w] = "new" => vwAt[w] = "new" BY <1>1
  <2>2. QED BY <1>2, <1>4, <1>6, <2>1 DEF ViewersInv, SeenCounts
<1>9. CountFollows' BY <1>2 DEF ViewersInv, CountFollows
<1>10. \A w \in Viewer : Watching(w)' => w \in vwSubs'
  BY <1>1, <1>3, <1>4 DEF ViewersInv
<1>11. QED BY <1>5, <1>7, <1>8, <1>9, <1>10 DEF ViewersInv

(* A viewer wakes, and sends the stored frame if the count has moved. *)
LEMMA WakeKeeps ==
  ASSUME ViewersInv, NEW v \in Viewer, Wake(v)
  PROVE  ViewersInv'
<1> DEFINE sends == vwVersion # vwSeen[v] /\ vwFrame # 0
<1>1. /\ vwAt[v] = "waiting" /\ vwEvent' = vwEvent \ {v}
      /\ vwAt' = [vwAt EXCEPT ![v] = "woken"]
      /\ vwSeen' = (IF sends THEN [vwSeen EXCEPT ![v] = vwVersion] ELSE vwSeen)
      /\ vwSent' = (IF sends THEN [vwSent EXCEPT ![v] = vwFrame] ELSE vwSent)
      /\ UNCHANGED <<vwCamera, vwSubs, vwCount, vwFrame, vwVersion, cpAt, cpFrame, cpSubs>>
  BY DEF Wake, captureVars
<1>2. /\ vwAt'[v] = "woken" /\ vwAt' \in [Viewer -> {"new", "starting", "waiting", "woken", "gone"}]
      /\ \A w \in Viewer : w # v => vwAt'[w] = vwAt[w]
  BY <1>1, ViewersTypes
<1>3. /\ sends => vwSeen'[v] = vwVersion /\ vwSent'[v] = vwFrame
      /\ \A w \in Viewer : w # v \/ ~sends => vwSeen'[w] = vwSeen[w] /\ vwSent'[w] = vwSent[w]
  BY <1>1, ViewersTypes
<1>4. \A w \in Viewer : Watching(w)' <=> Watching(w) BY <1>1, <1>2 DEF Watching
<1>5. ViewersTypeOK'
  <2>1. vwSeen' \in [Viewer -> -1..MaxCaptured] /\ vwSent' \in [Viewer -> 0..MaxCaptured]
    <3>1. vwVersion \in -1..MaxCaptured BY ViewersTypes
    <3>2. QED BY <1>1, <3>1, ViewersTypes
  <2>2. QED BY <1>1, <1>2, <2>1 DEF ViewersInv, ViewersTypeOK
<1> HIDE DEF sends
<1>6. NoViewerForgotten'
  <2>1. SUFFICES ASSUME NEW w \in Viewer, Watching(w)', vwFrame' \notin {0, vwSent'[w]}
                 PROVE  w \in vwEvent' \cup cpSubs' \/ cpAt' \in {"stored", "counted"}
    BY DEF NoViewerForgotten
  <2>2. CASE w = v
    <3>1. ~sends BY <1>1, <1>3, <2>1, <2>2
    <3>2. vwFrame \notin {0, vwSent[v]} /\ Watching(v) /\ vwSeen[v] = vwVersion
      BY <1>1, <1>3, <1>4, <2>1, <2>2, <3>1 DEF sends
    <3>3. cpAt = "stored" BY <3>2 DEF ViewersInv, SeenCounts
    <3>4. QED BY <1>1, <3>3
  <2>3. CASE w # v BY <1>1, <1>3, <1>4, <2>1, <2>3 DEF ViewersInv, NoViewerForgotten
  <2>4. QED BY <2>2, <2>3
<1>7. SeenCounts'
  <2>1. \A w \in Viewer : vwAt'[w] = "new" => vwSeen'[w] = -1 /\ vwSent'[w] = 0
    BY <1>2, <1>3 DEF ViewersInv, SeenCounts
  <2>2. vwCamera' => \A w \in Viewer : vwSeen'[w] <= vwVersion'
    <3>1. vwVersion <= vwVersion BY ViewersTypes
    <3>2. QED BY <1>1, <1>3, <3>1 DEF ViewersInv, SeenCounts
  <2>3. ASSUME NEW w \in Viewer, Watching(w)', vwFrame' \notin {0, vwSent'[w]},
               vwSeen'[w] = vwVersion'
        PROVE  cpAt' = "stored"
    <3>1. w # v \/ ~sends BY <1>1, <1>3, <2>3
    <3>2. QED BY <1>1, <1>3, <1>4, <2>3, <3>1 DEF ViewersInv, SeenCounts
  <2>4. QED BY <2>1, <2>2, <2>3 DEF SeenCounts
<1>8. CountFollows' BY <1>1 DEF ViewersInv, CountFollows
<1>9. \A w \in Viewer : Watching(w)' => w \in vwSubs' BY <1>1, <1>4 DEF ViewersInv
<1>10. QED BY <1>5, <1>6, <1>7, <1>8, <1>9 DEF ViewersInv

(* The camera goes, and nobody watches it. *)
LEMMA RemoveCameraKeeps == ASSUME ViewersInv, RemoveCamera PROVE ViewersInv'
<1>1. /\ ~vwCamera' /\ vwSubs' = {} /\ vwCount' = 0 /\ vwFrame' = 0 /\ vwVersion' = 0
      /\ vwEvent' = vwEvent \cup vwSubs
      /\ UNCHANGED <<vwAt, vwSent, vwSeen, cpAt, cpFrame, cpSubs>>
  BY DEF RemoveCamera, captureVars, ViewersInv, ViewersTypeOK
<1>2. ViewersTypeOK'
  <2>1. Cardinality(vwSubs') = 0 BY <1>1, FS_EmptySet
  <2>2. 0 \in 0..MaxCaptured BY ViewersTypes
  <2>3. vwCamera' \in BOOLEAN BY Zenon DEF RemoveCamera
  <2>4. QED BY <1>1, <2>1, <2>2, <2>3 DEF ViewersInv, ViewersTypeOK
<1>3. \A v \in Viewer : ~Watching(v)' BY <1>1 DEF Watching
<1>4. NoViewerForgotten' BY <1>3 DEF NoViewerForgotten
<1>5. SeenCounts' BY <1>1, <1>3 DEF ViewersInv, SeenCounts
<1>6. CountFollows' BY <1>1, ViewersTypes DEF ViewersInv, CountFollows
<1>7. QED BY <1>2, <1>3, <1>4, <1>5, <1>6 DEF ViewersInv

(* The viewers and what they have are left alone. *)
LEMMA CaptureKeeps == ASSUME ViewersInv, Capture \/ CaptureStep PROVE ViewersInv'
<1>1. UNCHANGED <<vwAt, vwCamera, vwSubs, vwCount, vwSent, vwSeen>>
  BY DEF Capture, CaptureStep, StoreFrame, CountFrame, FindViewers, NotifyViewers
<1>2. /\ \A v \in Viewer : Watching(v)' <=> Watching(v)
      /\ \A v \in Viewer : Watching(v)' => v \in vwSubs'
  BY <1>1 DEF ViewersInv, Watching
<1>3. MaxCaptured \in Nat /\ cpFrame \in Nat /\ vwVersion \in Nat /\ vwFrame \in Nat
      /\ cpFrame <= MaxCaptured
  BY ViewersTypes
<1>4. CASE Capture
  <2>1. /\ cpAt = "idle" /\ cpAt' \in {"encoding", "stored"} /\ cpFrame' = cpFrame + 1
        /\ cpFrame < MaxCaptured /\ UNCHANGED <<vwEvent, vwFrame, vwVersion, cpSubs>>
    BY <1>4 DEF Capture
  <2>2. cpFrame' \in 0..MaxCaptured BY <1>3, <2>1
  <2>3. ViewersTypeOK' BY <1>1, <2>1, <2>2 DEF ViewersInv, ViewersTypeOK
  <2>4. NoViewerForgotten' BY <1>1, <1>2, <2>1 DEF ViewersInv, NoViewerForgotten
  <2>5. SeenCounts' BY <1>1, <1>2, <2>1 DEF ViewersInv, SeenCounts
  <2>6. CountFollows' BY <1>3, <2>1 DEF ViewersInv, CountFollows
  <2>7. QED BY <1>2, <2>3, <2>4, <2>5, <2>6 DEF ViewersInv
<1>5. CASE StoreFrame
  <2>1. /\ cpAt = "encoding" /\ cpAt' = "stored" /\ vwFrame' = cpFrame
        /\ UNCHANGED <<vwEvent, vwVersion, cpFrame, cpSubs>>
    BY <1>5 DEF StoreFrame
  <2>2. ViewersTypeOK' BY <1>1, <2>1 DEF ViewersInv, ViewersTypeOK
  <2>3. NoViewerForgotten' BY <2>1 DEF NoViewerForgotten
  <2>4. SeenCounts' BY <1>1, <2>1 DEF ViewersInv, SeenCounts
  <2>5. CountFollows' BY <2>1 DEF ViewersInv, CountFollows
  <2>6. QED BY <1>2, <2>2, <2>3, <2>4, <2>5 DEF ViewersInv
<1>6. CASE CountFrame
  <2>1. /\ cpAt = "stored" /\ cpAt' = "counted" /\ vwVersion' = vwVersion + 1
        /\ UNCHANGED <<vwEvent, vwFrame, cpFrame, cpSubs>>
    BY <1>6 DEF CountFrame
  <2>2. vwVersion' <= cpFrame BY <1>3, <2>1 DEF ViewersInv, CountFollows
  <2>3. vwVersion' \in 0..MaxCaptured BY <1>3, <2>1, <2>2
  <2>4. ViewersTypeOK' BY <1>1, <2>1, <2>3 DEF ViewersInv, ViewersTypeOK
  <2>5. NoViewerForgotten' BY <2>1 DEF NoViewerForgotten
  <2>6. vwCamera => \A v \in Viewer : vwSeen[v] < vwVersion'
    <3>1. SUFFICES ASSUME vwCamera, NEW v \in Viewer PROVE vwSeen[v] < vwVersion' OBVIOUS
    <3>2. vwSeen[v] <= vwVersion /\ vwSeen[v] \in Int
      BY <3>1, ViewersTypes DEF ViewersInv, SeenCounts
    <3>3. QED BY <1>3, <2>1, <3>2
  <2>7. \A v \in Viewer : vwSeen[v] \in Int BY ViewersTypes
  <2>8. SeenCounts'
    <3>1. vwCamera' => \A v \in Viewer : vwSeen'[v] <= vwVersion' /\ vwSeen'[v] # vwVersion'
      BY <1>1, <1>3, <2>1, <2>6, <2>7
    <3>2. QED BY <1>1, <3>1 DEF ViewersInv, SeenCounts, Watching
  <2>9. CountFollows' BY <1>3, <2>1, <2>2 DEF CountFollows
  <2>10. QED BY <1>2, <2>4, <2>5, <2>8, <2>9 DEF ViewersInv
<1>7. CASE FindViewers
  <2>1. /\ cpAt = "counted" /\ cpAt' = "notifying" /\ cpSubs' = vwSubs
        /\ UNCHANGED <<vwEvent, vwFrame, vwVersion, cpFrame>>
    BY <1>7 DEF FindViewers
  <2>2. ViewersTypeOK' BY <1>1, <2>1 DEF ViewersInv, ViewersTypeOK
  <2>3. NoViewerForgotten' BY <1>1, <1>2, <2>1 DEF ViewersInv, NoViewerForgotten
  <2>4. SeenCounts' BY <1>1, <1>2, <2>1 DEF ViewersInv, SeenCounts
  <2>5. CountFollows' BY <2>1 DEF ViewersInv, CountFollows
  <2>6. QED BY <1>2, <2>2, <2>3, <2>4, <2>5 DEF ViewersInv
<1>8. CASE NotifyViewers
  <2>1. /\ cpAt = "notifying" /\ cpAt' = "idle" /\ vwEvent' = vwEvent \cup cpSubs /\ cpSubs' = {}
        /\ UNCHANGED <<vwFrame, vwVersion, cpFrame>>
    BY <1>8 DEF NotifyViewers
  <2>2. ViewersTypeOK' BY <1>1, <2>1 DEF ViewersInv, ViewersTypeOK
  <2>3. NoViewerForgotten' BY <1>1, <1>2, <2>1 DEF ViewersInv, NoViewerForgotten
  <2>4. SeenCounts' BY <1>1, <1>2, <2>1 DEF ViewersInv, SeenCounts
  <2>5. CountFollows' BY <2>1 DEF ViewersInv, CountFollows
  <2>6. QED BY <1>2, <2>2, <2>3, <2>4, <2>5 DEF ViewersInv
<1>9. QED BY <1>4, <1>5, <1>6, <1>7, <1>8 DEF CaptureStep

(* Every step, and every stutter, preserves the invariant. *)
LEMMA ViewersStep == ViewersInv /\ [ViewersNext]_viewerVars => ViewersInv'
<1> SUFFICES ASSUME ViewersInv, [ViewersNext]_viewerVars PROVE ViewersInv' OBVIOUS
<1>1. ASSUME NEW v \in Viewer, Subscribe(v) \/ Abandon(v) \/ BodyStep(v) \/ LeaveBody(v)
      PROVE  ViewersInv'
  BY <1>1, SubscribeKeeps, BodyKeeps, WakeKeeps DEF BodyStep
<1>2. CASE Capture \/ CaptureStep BY <1>2, CaptureKeeps
<1>3. CASE RemoveCamera BY <1>3, RemoveCameraKeeps
<1>4. CASE UNCHANGED viewerVars
  BY <1>4 DEF viewerVars, ViewersInv, ViewersTypeOK, NoViewerForgotten, SeenCounts, CountFollows,
              Watching
<1>5. QED BY <1>1, <1>2, <1>3, <1>4 DEF ViewersNext

(* What viewers have seen agrees with what was stored and counted.          *)
THEOREM ViewersInvariant == ViewersSpec => []ViewersInv
<1>1. QED BY ViewersInitInv, ViewersStep, PTL DEF ViewersSpec

(* The state of the MJPEG viewers of a camera has its type; no frame is     *)
(* counted that was not captured.                                           *)
THEOREM ViewersTypeCorrect == ViewersSpec => []ViewersTypeOK
<1>1. ViewersInv => ViewersTypeOK BY DEF ViewersInv
<1>2. QED BY <1>1, ViewersInvariant, PTL

(* A viewer that was not sent the stored frame will be told of it           *)
(* (camera_stream of api/routes/cameras.py, stream_worker.py), for any      *)
(* viewers that come and go and any frames.                                 *)
THEOREM ViewersNotForgotten == ViewersSpec => []NoViewerForgotten
<1>1. ViewersInv => NoViewerForgotten BY DEF ViewersInv
<1>2. QED BY <1>1, ViewersInvariant, PTL
-----------------------------------------------------------------------------
(* The request counter is a number: a request changes it. *)
LEMMA PlaybackTypes ==
  ASSUME PlaybackTypeOK
  PROVE  /\ Frames \in Nat /\ pbRequests \in Nat /\ 0 \in Position
         /\ pbSeek \in Position \cup {NoSeek} /\ fwNext \in Nat /\ fwNext <= Frames
  BY PlaybackAssumption DEF PlaybackTypeOK, Position

(* A request keeps the types. *)
LEMMA PlaybackRequestTypes ==
  ASSUME PlaybackTypeOK, PlaybackRequest PROVE PlaybackTypeOK'
<1>1. pbRequests' \in 0..MaxRequests
  BY PlaybackTypes, PlaybackAssumption
  DEF PlaybackTypeOK, PlaybackRequest, Pause, Resume, RestartPlayback, StopPlayback,
      TellWorker, DisablePlaying, Seek, Request
<1>2. pbState' \in {"playing", "paused", "stopped"}
  BY DEF PlaybackTypeOK, PlaybackRequest, Pause, Resume, RestartPlayback, StopPlayback,
         TellWorker, DisablePlaying, Seek
<1>3. pbSeek' \in Position \cup {NoSeek} /\ pbPosition' \in Position
  BY PlaybackTypes
  DEF PlaybackTypeOK, PlaybackRequest, Pause, Resume, RestartPlayback, StopPlayback,
      TellWorker, DisablePlaying, Seek
<1>4. pbObserved' \in {"STREAMING", "PAUSED", "RECONNECTING", "DISABLED"} /\ pbTables' \subseteq Table
  BY DEF PlaybackTypeOK, PlaybackRequest, Pause, Resume, RestartPlayback, StopPlayback,
         TellWorker, DisablePlaying, Seek
<1>5. {pbDisabled', pbRemoved', pbStop'} \subseteq BOOLEAN
  BY Zenon DEF PlaybackTypeOK, PlaybackRequest, Pause, Resume, RestartPlayback, StopPlayback,
         TellWorker, DisablePlaying, Seek
<1>6. UNCHANGED workerVars
  BY DEF PlaybackRequest, Pause, Resume, RestartPlayback, StopPlayback,
         TellWorker, DisablePlaying, Seek, Request, workerVars
<1>7. QED BY <1>1, <1>2, <1>3, <1>4, <1>5, <1>6 DEF PlaybackTypeOK, workerVars

(* A step of the worker keeps the types. *)
LEMMA PlaybackWorkerTypes ==
  ASSUME PlaybackTypeOK, PlaybackWorker PROVE PlaybackTypeOK'
<1> USE PlaybackTypes DEF PlaybackTypeOK, requestVars
<1>1. CASE OuterLoop BY <1>1 DEF OuterLoop
<1>2. CASE Opened BY <1>2 DEF Opened
<1>3. CASE ReadPlayback BY <1>3 DEF ReadPlayback, TakenSeek
<1>4. CASE StayPaused BY <1>4 DEF StayPaused
<1>5. CASE DoSeek BY <1>5 DEF DoSeek
<1>6. CASE Play BY <1>6 DEF Play
<1>7. CASE Decode BY <1>7 DEF Decode, Position
<1>8. CASE Publish BY <1>8 DEF Publish, Table
<1>9. CASE ShowPosition BY <1>9 DEF ShowPosition, Table
<1>10. CASE EndPass BY <1>10 DEF EndPass
<1>11. QED
  BY <1>1, <1>2, <1>3, <1>4, <1>5, <1>6, <1>7, <1>8, <1>9, <1>10 DEF PlaybackWorker

(* Every reachable state of the playback of a file is well typed. *)
THEOREM PlaybackTypeCorrect == PlaybackSpec => []PlaybackTypeOK
<1>1. ASSUME PlaybackInit PROVE PlaybackTypeOK
  <2>1. 0 \in Position /\ 0 \in 0..MaxRequests BY PlaybackAssumption DEF Position
  <2>2. {pbDisabled, pbRemoved, pbStop, fwDecoded} \subseteq BOOLEAN
    BY <1>1, Zenon DEF PlaybackInit
  <2>3. QED BY <1>1, <2>1, <2>2 DEF PlaybackInit, PlaybackTypeOK
<1>2. PlaybackTypeOK /\ [PlaybackNext]_playbackVars => PlaybackTypeOK'
  <2>1. CASE PlaybackNext
    BY <2>1, PlaybackRequestTypes, PlaybackWorkerTypes DEF PlaybackNext
  <2>2. CASE UNCHANGED playbackVars BY <2>2 DEF playbackVars, PlaybackTypeOK
  <2>3. QED BY <2>1, <2>2
<1>3. QED BY <1>1, <1>2, PTL DEF PlaybackSpec

(* A seek of a paused camera survives every step of the worker: it takes    *)
(* one only while the camera plays (stream_worker.py, the lock of the       *)
(* file branch), and any other step that changes it counts as a request.    *)
THEOREM PlaybackSeekSurvives == PlaybackSpec => SeekSurvives
<1> DEFINE Survives == pbState = "paused" /\ pbSeek # NoSeek /\ pbRequests' = pbRequests
                         => pbSeek' = pbSeek
<1>1. PlaybackTypeOK /\ [PlaybackNext]_playbackVars => Survives
  <2> SUFFICES ASSUME PlaybackTypeOK, [PlaybackNext]_playbackVars, pbState = "paused",
                      pbSeek # NoSeek, pbRequests' = pbRequests
               PROVE  pbSeek' = pbSeek
    OBVIOUS
  <2>1. CASE PlaybackWorker
    <3>1. CASE ReadPlayback BY <3>1 DEF ReadPlayback, TakenSeek
    <3>2. CASE ~ReadPlayback
      BY <2>1, <3>2 DEF PlaybackWorker, OuterLoop, Opened, StayPaused, DoSeek, Play, Decode,
                        Publish, ShowPosition, EndPass, requestVars
    <3>3. QED BY <3>1, <3>2
  <2>2. CASE PlaybackRequest
    <3>1. pbRequests + 1 # pbRequests BY PlaybackTypes
    <3>2. ~Request BY <3>1 DEF Request
    <3>3. TellWorker
      BY <2>2, <3>2 DEF PlaybackRequest, Pause, Resume, RestartPlayback, StopPlayback,
                        DisablePlaying, Seek
    <3>4. QED BY <3>3 DEF TellWorker
  <2>3. CASE UNCHANGED playbackVars BY <2>3 DEF playbackVars
  <2>4. QED BY <2>1, <2>2, <2>3 DEF PlaybackNext
<1>2. QED BY <1>1, PlaybackTypeCorrect, PTL DEF PlaybackSpec, SeekSurvives

(* How many of its own steps the worker has left at most, once it is told.  *)
WorkerStepsLeft ==
  CASE fwAt = "left" -> 0
    [] fwAt \in {"outer", "opened"} -> 1
    [] fwAt = "passEnd" -> 2
    [] fwAt = "head" -> 3
    [] fwAt \in {"decide", "position"} -> 4
    [] fwAt = "publish" -> 5
    [] fwAt = "decode" -> 6

(* The safety that StopEndsWorker rests on: an order to stop is not taken   *)
(* back, each step of the worker brings it nearer to its end, and no        *)
(* request takes it back, neither a seek nor a resume nor a restart.        *)
StopIsHeeded ==
  [][pbStop => /\ pbStop'
               /\ WorkerStepsLeft' <= WorkerStepsLeft
               /\ PlaybackWorker => WorkerStepsLeft' < WorkerStepsLeft]_playbackVars

(* The worker of a stopped or disabled footage camera leaves within six of  *)
(* its own steps, whatever is asked for meanwhile (the loop of the file     *)
(* branch of _camera_worker).                                               *)
THEOREM PlaybackHeedsStop == PlaybackSpec => StopIsHeeded
<1> DEFINE Heeded == pbStop => /\ pbStop' /\ WorkerStepsLeft' <= WorkerStepsLeft
                               /\ PlaybackWorker => WorkerStepsLeft' < WorkerStepsLeft
<1>1. PlaybackTypeOK /\ [PlaybackNext]_playbackVars => Heeded
  <2> SUFFICES ASSUME PlaybackTypeOK, [PlaybackNext]_playbackVars, pbStop
               PROVE  /\ pbStop' /\ WorkerStepsLeft' <= WorkerStepsLeft
                      /\ PlaybackWorker => WorkerStepsLeft' < WorkerStepsLeft
    OBVIOUS
  <2>1. WorkerStepsLeft \in 0..6 BY DEF PlaybackTypeOK, WorkerStepsLeft
  <2>2. ASSUME PlaybackWorker
        PROVE  pbStop' = pbStop /\ WorkerStepsLeft' < WorkerStepsLeft /\ WorkerStepsLeft' \in 0..6
    <3> USE DEF WorkerStepsLeft, MustLeave, requestVars
    <3>1. CASE OuterLoop BY <3>1 DEF OuterLoop
    <3>2. CASE Opened BY <3>2 DEF Opened
    <3>3. CASE ReadPlayback BY <3>3 DEF ReadPlayback
    <3>4. CASE StayPaused BY <3>4 DEF StayPaused
    <3>5. CASE DoSeek BY <3>5 DEF DoSeek
    <3>6. CASE Play BY <3>6 DEF Play
    <3>7. CASE Decode BY <3>7 DEF Decode
    <3>8. CASE Publish BY <3>8 DEF Publish
    <3>9. CASE ShowPosition BY <3>9 DEF ShowPosition
    <3>10. CASE EndPass BY <3>10 DEF EndPass
    <3>11. QED
      BY <2>2, <3>1, <3>2, <3>3, <3>4, <3>5, <3>6, <3>7, <3>8, <3>9, <3>10 DEF PlaybackWorker
  <2>3. CASE PlaybackRequest
    <3>1. fwAt' = fwAt /\ (pbStop' = pbStop \/ pbStop' = TRUE)
      BY <2>3, Zenon DEF PlaybackRequest, Pause, Resume, RestartPlayback, StopPlayback, TellWorker,
         DisablePlaying, Seek, Request, workerVars
    <3>2. pbStop' BY <3>1, Zenon
    <3>3. ~PlaybackWorker \/ WorkerStepsLeft' < WorkerStepsLeft BY <2>2
    <3>4. WorkerStepsLeft' = WorkerStepsLeft BY <3>1 DEF WorkerStepsLeft
    <3>5. QED BY <2>1, <3>2, <3>3, <3>4
  <2>4. CASE UNCHANGED playbackVars
    <3>1. pbStop' = pbStop /\ WorkerStepsLeft' = WorkerStepsLeft
      BY <2>4 DEF playbackVars, WorkerStepsLeft
    <3>2. QED BY <2>1, <2>2, <3>1
  <2>5. CASE PlaybackWorker
    <3>1. pbStop' BY <2>2, <2>5, Zenon
    <3>2. WorkerStepsLeft' < WorkerStepsLeft /\ WorkerStepsLeft' <= WorkerStepsLeft
      BY <2>1, <2>2, <2>5
    <3>3. QED BY <3>1, <3>2
  <2>6. QED BY <2>3, <2>4, <2>5 DEF PlaybackNext
<1>2. QED BY <1>1, PlaybackTypeCorrect, PTL DEF PlaybackSpec, StopIsHeeded
-----------------------------------------------------------------------------
(***************************************************************************)
(* The sum of the components, which the run streams checks.                *)
(***************************************************************************)

(* A step of the sum is a step of the component that moves and a stuttering *)
(* step of every other one.                                                 *)
LEMMA StreamsStep ==
  ASSUME [StreamsNext]_streamsVars
  PROVE  /\ [Next]_vars /\ [PlaybackNext]_playbackVars /\ [ViewersNext]_viewerVars
         /\ [PlatesNext]_plateVars /\ [VideoNext]_videoVars
<1>1. CASE UNCHANGED streamsVars BY <1>1 DEF streamsVars
<1>2. CASE part = "detector" /\ Next /\ Rest BY <1>2 DEF Rest, Except
<1>3. CASE part = "playback" /\ PlaybackNext /\ Rest BY <1>3 DEF Rest, Except
<1>4. CASE part = "viewers" /\ ViewersNext /\ Rest BY <1>4 DEF Rest, Except
<1>5. CASE part = "plates" /\ PlatesNext /\ Rest BY <1>5 DEF Rest, Except
<1>6. CASE part = "video" /\ VideoNext /\ Rest BY <1>6 DEF Rest, Except
<1>7. QED BY <1>1, <1>2, <1>3, <1>4, <1>5, <1>6 DEF StreamsNext

(* The sum implements each of its components: what is proved of the         *)
(* specification of a component holds of the sum, in which the others run   *)
(* beside it.                                                               *)
THEOREM StreamsImplement ==
  StreamsSpec => Spec /\ PlaybackSpec /\ ViewersSpec /\ PlatesSpec /\ VideoSpec
<1>1. StreamsInit => Init /\ PlaybackInit /\ ViewersInit /\ PlatesInit /\ VideoInit
  BY DEF StreamsInit
<1>2. QED BY <1>1, StreamsStep, PTL
          DEF StreamsSpec, Spec, PlaybackSpec, ViewersSpec, PlatesSpec, VideoSpec

(* Whatever the others do, the detector handle, the playback of files, the  *)
(* viewers of a stream, the OCR jobs and the analysis of videos keep to     *)
(* their types.                                                             *)
THEOREM StreamsTypeCorrect == StreamsSpec => []TypesOK
<1>1. TypeOK /\ PlaybackTypeOK /\ ViewersTypeOK /\ PlatesTypeOK /\ VideoTypeOK => TypesOK
  BY DEF TypesOK
<1>2. QED BY <1>1, StreamsImplement, TypeCorrect, PlaybackTypeCorrect, ViewersTypeCorrect,
             PlatesTypeCorrect, VideoTypeCorrect, PTL

(* The safety of the sum, as the run streams checks it: each component's    *)
(* properties hold while the others run beside it.                          *)
THEOREM StreamsSafe ==
  StreamsSpec => /\ [](InferencesKeepDetector /\ NoSleeperForgotten /\ OldReadsEndWithTheEpoch)
                 /\ [](FacesOfThisFrame /\ NoViewerForgotten)
                 /\ SeekSurvives
BY StreamsImplement, NoSwapDuringInference, NoLostWakeup, PlatesOldReadsEnd,
   VideoFacesAreFresh, ViewersNotForgotten, PlaybackSeekSurvives, PTL
=============================================================================
