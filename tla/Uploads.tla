------------------------------- MODULE Uploads -------------------------------
(***************************************************************************)
(* The upload quarantine of api/routes/uploads.py: files received into the *)
(* quarantine, probed and promoted by finalize, removed by a delete, by    *)
(* the retention sweep or by the camera that played them.  Metadata is in  *)
(* memory, files are on disk: a restart keeps only the files.              *)
(*                                                                         *)
(* Requests run on the event loop and are atomic between two awaits; the   *)
(* sweep runs in a thread of its own and interleaves with all of them.     *)
(***************************************************************************)
EXTENDS Naturals, FiniteSets

CONSTANTS Upload,     \* upload ids
          Finalizer   \* concurrent finalize requests

VARIABLES
  upEntry,    \* uploads with an entry in _UPLOADS
  upPath,     \* data["path"]: the directory the entry points to
  upIds,      \* the ids handed out so far
  upReceiving,\* uploads whose bytes are still coming in
  upVideo,    \* uploads that decode as video within bounds
  upDisk,     \* <<upload, directory>> of the files on disk
  upOld,      \* uploads past the retention time
  upLost,     \* uploads whose metadata a restart lost
  upFinal,    \* the finalize requests
  upSweep     \* the retention sweep

uploadVars == <<upIds, upEntry, upPath, upReceiving, upVideo, upDisk, upOld, upLost,
                upFinal, upSweep>>

Directory == {"quarantine", "promoted"}

NoFinal == [stage |-> "idle"]
Hashing(u, dir) == [stage |-> "hashing", upload |-> u, path |-> dir]
NoSweep == [stage |-> "idle"]

Finalizing == [stage : {"hashing", "probing", "promoting"}, upload : Upload, path : Directory]
OverEntries == [stage : {"entries", "roots"}, todo : SUBSET Upload, cutoff : SUBSET Upload,
                dirs : SUBSET Directory]
OverOneEntry == [stage : {"looking", "unlinking"}, upload : Upload, path : Directory,
                 todo : SUBSET Upload, cutoff : SUBSET Upload]

UploadsTypeOK ==
  /\ upIds \subseteq Upload /\ upEntry \subseteq upIds /\ upReceiving \subseteq Upload
  /\ upVideo \subseteq Upload /\ upOld \subseteq Upload /\ upLost \subseteq Upload
  /\ upPath \in [Upload -> Directory]
  /\ upDisk \subseteq Upload \X Directory
  /\ upFinal \in [Finalizer -> {NoFinal} \cup Finalizing]
  /\ upSweep \in {NoSweep} \cup OverEntries \cup OverOneEntry

UploadsInit ==
  /\ upIds = {} /\ upEntry = {} /\ upReceiving = {} /\ upVideo = {} /\ upDisk = {}
  /\ upOld = {} /\ upLost = {}
  /\ upPath = [u \in Upload |-> "quarantine"]
  /\ upFinal = [f \in Finalizer |-> NoFinal]
  /\ upSweep = NoSweep

-----------------------------------------------------------------------------
(* The bytes go to a file in the quarantine, under a fresh id; what they    *)
(* are shows later.                                                         *)
Receive(u) ==
  /\ u \notin upIds
  /\ upIds' = upIds \cup {u}
  /\ upReceiving' = upReceiving \cup {u}
  /\ upDisk' = upDisk \cup {<<u, "quarantine">>}
  /\ upVideo' \in {upVideo, upVideo \cup {u}}
  /\ UNCHANGED <<upEntry, upPath, upOld, upLost, upFinal, upSweep>>

(* Too large, no media, or the client is gone: nothing is left behind. *)
AbortReceive(u) ==
  /\ u \in upReceiving
  /\ upReceiving' = upReceiving \ {u}
  /\ upDisk' = upDisk \ {<<u, "quarantine">>}
  /\ UNCHANGED <<upIds, upEntry, upPath, upVideo, upOld, upLost, upFinal, upSweep>>

CompleteReceive(u) ==
  /\ u \in upReceiving
  /\ upReceiving' = upReceiving \ {u}
  /\ upEntry' = upEntry \cup {u}
  /\ UNCHANGED <<upIds, upPath, upVideo, upDisk, upOld, upLost, upFinal, upSweep>>

DeleteUpload(u) ==
  /\ u \in upEntry
  /\ upEntry' = upEntry \ {u}
  /\ upDisk' = upDisk \ {<<u, upPath[u]>>}
  /\ UNCHANGED <<upIds, upPath, upReceiving, upVideo, upOld, upLost, upFinal, upSweep>>

(* A temporary file camera is stopped: its footage goes, the entry stays. *)
CameraUnlinks(u, dir) ==
  /\ <<u, dir>> \in upDisk /\ u \notin upReceiving
  /\ upDisk' = upDisk \ {<<u, dir>>}
  /\ UNCHANGED <<upIds, upEntry, upPath, upReceiving, upVideo, upOld, upLost, upFinal, upSweep>>
-----------------------------------------------------------------------------
BeginFinalize(f, u) ==
  /\ upFinal[f] = NoFinal /\ u \in upEntry
  /\ <<u, upPath[u]>> \in upDisk
  /\ upFinal' = [upFinal EXCEPT ![f] = Hashing(u, upPath[u])]
  /\ UNCHANGED <<upIds, upEntry, upPath, upReceiving, upVideo, upDisk, upOld, upLost, upSweep>>

EndFinalize(f) == upFinal' = [upFinal EXCEPT ![f] = NoFinal]

(* The hash of an unchanged file agrees; a missing file ends the request. *)
HashFile(f) ==
  /\ upFinal[f].stage = "hashing"
  /\ IF <<upFinal[f].upload, upFinal[f].path>> \in upDisk
     THEN upFinal' = [upFinal EXCEPT ![f].stage = "probing"]
     ELSE EndFinalize(f)
  /\ UNCHANGED <<upIds, upEntry, upPath, upReceiving, upVideo, upDisk, upOld, upLost, upSweep>>

ProbeAccepts(u, dir) == <<u, dir>> \in upDisk /\ u \in upVideo

ProbeVideo(f) ==
  /\ upFinal[f].stage = "probing"
  /\ IF ProbeAccepts(upFinal[f].upload, upFinal[f].path)
     THEN upFinal' = [upFinal EXCEPT ![f].stage = "promoting"]
     ELSE EndFinalize(f)
  /\ UNCHANGED <<upIds, upEntry, upPath, upReceiving, upVideo, upDisk, upOld, upLost, upSweep>>

(* Mutation: the entry keeps the path of the quarantine. *)
Promote_path(f) ==
  /\ upFinal[f].stage = "promoting"
  /\ LET u == upFinal[f].upload
         q == <<u, upFinal[f].path>>
     IN  IF q \in upDisk THEN upDisk' = (upDisk \ {q}) \cup {<<u, "promoted">>}
                         ELSE UNCHANGED upDisk
  /\ EndFinalize(f)
  /\ UNCHANGED <<upIds, upPath, upEntry, upReceiving, upVideo, upOld, upLost, upSweep>>

(* rename fails when another request, a delete or the sweep was faster; the *)
(* entry is the one read before the awaits and may be out of _UPLOADS.      *)
Promote(f) ==
  /\ upFinal[f].stage = "promoting"
  /\ LET u == upFinal[f].upload
         q == <<u, upFinal[f].path>>
     IN  IF q \in upDisk
         THEN /\ upDisk' = (upDisk \ {q}) \cup {<<u, "promoted">>}
              /\ upPath' = [upPath EXCEPT ![u] = "promoted"]
         ELSE UNCHANGED <<upDisk, upPath>>
  /\ EndFinalize(f)
  /\ UNCHANGED <<upIds, upEntry, upReceiving, upVideo, upOld, upLost, upSweep>>
-----------------------------------------------------------------------------
(* cleanup_expired_uploads: a copy of the entries, then the directories. *)
BeginSweep ==
  /\ upSweep = NoSweep
  /\ upSweep' = [stage |-> "entries", todo |-> upEntry \cap upOld, cutoff |-> upOld,
                 dirs |-> Directory]
  /\ UNCHANGED <<upIds, upEntry, upPath, upReceiving, upVideo, upDisk, upOld, upLost, upFinal>>

(* _remove_path reads the path of the entry first ... *)
SweepEntry(u) ==
  /\ upSweep.stage = "entries" /\ u \in upSweep.todo
  /\ upSweep' = [stage |-> "looking", upload |-> u, path |-> upPath[u],
                 todo |-> upSweep.todo \ {u}, cutoff |-> upSweep.cutoff]
  /\ UNCHANGED <<upIds, upEntry, upPath, upReceiving, upVideo, upDisk, upOld, upLost, upFinal>>

BackToEntries ==
  upSweep' = [stage |-> "entries", todo |-> upSweep.todo, cutoff |-> upSweep.cutoff,
              dirs |-> Directory]

(* ... then whether the file is there; without one only the entry goes ... *)
SweepLook ==
  /\ upSweep.stage = "looking"
  /\ IF <<upSweep.upload, upSweep.path>> \in upDisk
     THEN upSweep' = [upSweep EXCEPT !.stage = "unlinking"] /\ UNCHANGED upEntry
     ELSE upEntry' = upEntry \ {upSweep.upload} /\ BackToEntries
  /\ UNCHANGED <<upIds, upPath, upReceiving, upVideo, upDisk, upOld, upLost, upFinal>>

(* ... and unlink raises, ending the whole sweep, if it is gone by now. *)
SweepUnlink ==
  /\ upSweep.stage = "unlinking"
  /\ IF <<upSweep.upload, upSweep.path>> \in upDisk
     THEN /\ upDisk' = upDisk \ {<<upSweep.upload, upSweep.path>>}
          /\ upEntry' = upEntry \ {upSweep.upload}
          /\ BackToEntries
     ELSE UNCHANGED <<upDisk, upEntry>> /\ upSweep' = NoSweep
  /\ UNCHANGED <<upIds, upPath, upReceiving, upVideo, upOld, upLost, upFinal>>

SweepRoot(dir) ==
  /\ \/ upSweep.stage = "entries" /\ upSweep.todo = {} /\ dir = "promoted"
     \/ upSweep.stage = "roots" /\ dir \in upSweep.dirs
  /\ upDisk' = upDisk \ (upSweep.cutoff \X {dir})
  /\ upSweep' = [upSweep EXCEPT !.stage = "roots", !.dirs = @ \ {dir}]
  /\ UNCHANGED <<upIds, upEntry, upPath, upReceiving, upVideo, upOld, upLost, upFinal>>

EndSweep ==
  /\ upSweep.stage = "roots" /\ upSweep.dirs = {}
  /\ upSweep' = NoSweep
  /\ UNCHANGED <<upIds, upEntry, upPath, upReceiving, upVideo, upDisk, upOld, upLost, upFinal>>

SweepStep ==
  \/ BeginSweep \/ SweepLook \/ SweepUnlink \/ EndSweep
  \/ \E u \in Upload : SweepEntry(u)
  \/ \E dir \in Directory : SweepRoot(dir)
-----------------------------------------------------------------------------
(* A day passes over an upload that is complete. *)
GrowOld(u) ==
  /\ \E dir \in Directory : <<u, dir>> \in upDisk
  /\ u \notin upReceiving \cup upOld
  /\ upOld' = upOld \cup {u}
  /\ UNCHANGED <<upIds, upEntry, upPath, upReceiving, upVideo, upDisk, upLost, upFinal, upSweep>>

(* The process dies: metadata, requests and the sweep are gone. *)
RestartUploads ==
  /\ upEntry' = {} /\ upReceiving' = {}
  /\ upLost' = upLost \cup {u \in Upload : \E dir \in Directory : <<u, dir>> \in upDisk}
  /\ upFinal' = [f \in Finalizer |-> NoFinal]
  /\ upSweep' = NoSweep
  /\ UNCHANGED <<upIds, upPath, upVideo, upDisk, upOld>>

FinalizeStep(f) ==
  HashFile(f) \/ ProbeVideo(f) \/ Promote(f) \/ \E u \in Upload : BeginFinalize(f, u)

UploadStep(u) ==
  \/ Receive(u) \/ AbortReceive(u) \/ CompleteReceive(u) \/ DeleteUpload(u) \/ GrowOld(u)
  \/ \E dir \in Directory : CameraUnlinks(u, dir)

UploadsNext ==
  \/ \E u \in Upload : UploadStep(u)
  \/ \E f \in Finalizer : FinalizeStep(f)
  \/ SweepStep \/ RestartUploads

UploadsSpec == UploadsInit /\ [][UploadsNext]_uploadVars
-----------------------------------------------------------------------------
(* No file is forgotten while the process lives: each one on disk is being  *)
(* received, or is where its entry says; a finalize that renames a file     *)
(* while a delete or the sweep looks for it under its old name can leave    *)
(* one without an entry only if it is past its retention.  And a sweep that *)
(* runs to its end leaves nothing that was past its retention when it       *)
(* began, entries lost in a restart and files renamed under it included.    *)
FilesAccounted ==
  /\ \A u \in Upload \ upLost, dir \in Directory :
       <<u, dir>> \in upDisk =>
         u \in upReceiving \/ (u \in upEntry /\ upPath[u] = dir) \/ u \in upOld
  /\ upSweep.stage = "roots" /\ upSweep.dirs = {} =>
       \A u \in upSweep.cutoff, dir \in Directory : <<u, dir>> \notin upDisk
=============================================================================
