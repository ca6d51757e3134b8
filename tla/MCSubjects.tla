------------------------------ MODULE MCSubjects ------------------------------
(***************************************************************************)
(* The components that follow subjects, each on a small instance: presence *)
(* in a zone, identities of tracks, their association with detections and  *)
(* with faces, dossiers over cameras, loitering and tripwires.  They share *)
(* no state in these models, so a behaviour is one of the component that   *)
(* `part` names, and the states of the run are the sum of theirs.          *)
(***************************************************************************)
EXTENDS Presence, TrackIdentity, TrackAssociation, Handover, Rules, FaceAssignment

CONSTANT Parts  \* the components to check

VARIABLE part

(* Persons that overlap, and cars whose boxes are turned round, leave the   *)
(* picture or are too small; a box is an interval of columns.               *)
Det(lo, hi, class, conf) == [box |-> <<lo, hi>>, class |-> class, conf |-> conf]
Detections == {Det(0, 400, "person", 60), Det(150, 550, "person", 55), Det(200, 500, "person", 45),
               Det(400, 0, "car", 70), Det(300, 1200, "car", 45), Det(520, 523, "car", 60)}

(* Two cameras, in the order of the store. *)
CameraOrder == <<"c1", "c2">>

(* Up to three tracks and three faces, with every choice of these costs. *)
FramesOf(t, f, costs) == [tracks : {t}, faces : {f}, cost : [(1..t) \X (1..f) -> costs]]
Pictures == FramesOf(3, 3, {20, 60}) \cup FramesOf(2, 3, {20, 60, FarCost})
              \cup FramesOf(3, 2, {20, FarCost}) \cup FramesOf(1, 1, {20, FarCost})

(* The choices of the other components are made once. *)
SubjectsInit ==
  /\ part \in Parts
  /\ IF part = "presence" THEN TRUE ELSE fence = "default"
  /\ IF part = "faces" THEN TRUE
     ELSE /\ faFrame = CHOOSE f \in Frame : f.tracks = 1
          /\ faLock = [t \in 1..1 |-> "none"]
  /\ Init /\ IdentityInit /\ AssociationInit /\ HandoverInit /\ RulesInit /\ FaceInit

Except(p, v) == IF part = p THEN TRUE ELSE UNCHANGED v

Rest ==
  /\ Except("presence", vars) /\ Except("identity", identityVars)
  /\ Except("association", associationVars) /\ Except("handover", handoverVars)
  /\ Except("rules", rulesVars) /\ Except("faces", faceVars)
  /\ UNCHANGED part

SubjectsNext ==
  \/ part = "presence" /\ Next /\ Rest
  \/ part = "identity" /\ IdentityNext /\ Rest
  \/ part = "association" /\ AssociationNext /\ Rest
  \/ part = "handover" /\ HandoverNext /\ Rest
  \/ part = "rules" /\ RulesNext /\ Rest
  \/ part = "faces" /\ FaceNext /\ Rest

subjectsVars == <<part, vars, identityVars, associationVars, handoverVars, rulesVars, faceVars>>

SubjectsSpec == SubjectsInit /\ [][SubjectsNext]_subjectsVars
-----------------------------------------------------------------------------
(* Every component keeps to the types of its module. *)
TypesOK ==
  /\ TypeOK /\ IdentityTypeOK /\ AssociationTypeOK /\ HandoverTypeOK /\ RulesTypeOK /\ FaceTypeOK
=============================================================================
