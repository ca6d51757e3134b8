------------------------------ MODULE ModelFiles ------------------------------
(***************************************************************************)
(* The weight files of core/model_manager.py and api/routes/models.py:     *)
(* downloads (tasks of the event loop), uploads, deletes and activations   *)
(* (threads of the pool) of the same few models.  All writers of a model   *)
(* use one temporary name, which is renamed over the target at the end.    *)
(*                                                                         *)
(* A file is named by the writer that created it; what it holds is, for    *)
(* each half, the writer whose bytes are there.  A writer keeps writing to *)
(* the file it opened, wherever a rename has put it since.                 *)
(***************************************************************************)
EXTENDS Naturals

CONSTANTS Model,      \* YOLO_MODELS_MANIFEST
          BaseModel,  \* "yolo26n"
          Writer,     \* downloads and uploads of weights
          Deleter,    \* delete requests
          Activator,  \* activate requests
          NoModelFile, \* no such file, or nothing written there
          Shipped      \* a file that came with the installation

ASSUME ModelFilesAssumption ==
  /\ BaseModel \in Model
  /\ NoModelFile \notin Writer /\ Shipped \notin Writer /\ NoModelFile # Shipped

VARIABLES
  mfTarget,   \* the installed file of each model
  mfTmp,      \* the file under each model's temporary name
  mfBytes,    \* what each file holds
  mfWriter,   \* how far each writer has got, with what model and file
  mfStatus,   \* the status in _progress
  mfOwner,    \* downloads whose progress object is the one in _progress
  mfDelete,   \* the delete requests
  mfActivate, \* the activate requests
  mfActive,   \* active_model_name
  mfEngine    \* what really infers

modelVars == <<mfTarget, mfTmp, mfBytes, mfWriter, mfStatus, mfOwner,
               mfDelete, mfActivate, mfActive, mfEngine>>

Blank == [half \in {1, 2} |-> NoModelFile]
Whole(file) == file = Shipped \/ \E w \in Writer : \A half \in {1, 2} : mfBytes[file][half] = w

At(w) == mfWriter[w].at
Of(w) == mfWriter[w].model
IsUpload(w) == mfWriter[w].kind = "upload"

ModelFilesTypeOK ==
  /\ mfTarget \in [Model -> Writer \cup {NoModelFile, Shipped}]
  /\ mfTmp \in [Model -> Writer \cup {NoModelFile}]
  /\ mfBytes \in [Writer -> [{1, 2} -> Writer \cup {NoModelFile}]]
  /\ mfWriter \in [Writer -> [at : {"new", "requested", "opening", "first", "second",
                                    "installing", "ended"},
                              kind : {"download", "upload"},
                              model : Model, file : Writer \cup {NoModelFile}]]
  /\ mfStatus \in [Model -> {"none", "idle", "downloading", "ready", "failed"}]
  /\ mfOwner \subseteq Writer
  /\ mfDelete \in [Deleter -> Model \cup {NoModelFile}]
  /\ mfActivate \in [Activator -> [model : Model, engine : {"none", "checked", "onnx", "mock"}]]
  /\ mfActive \in Model /\ mfEngine \in {"onnx", "mock"}

ModelFilesInit ==
  /\ mfTarget = [m \in Model |-> IF m = BaseModel THEN Shipped ELSE NoModelFile]
  /\ mfTmp = [m \in Model |-> NoModelFile]
  /\ mfBytes = [w \in Writer |-> Blank]
  /\ mfWriter = [w \in Writer |-> [at |-> "new", kind |-> "download",
                                     model |-> BaseModel, file |-> NoModelFile]]
  /\ mfStatus = [m \in Model |-> "none"]
  /\ mfOwner = {}
  /\ mfDelete = [d \in Deleter |-> NoModelFile]
  /\ mfActivate = [a \in Activator |-> [model |-> BaseModel, engine |-> "none"]]
  /\ mfActive = BaseModel /\ mfEngine = "onnx"
-----------------------------------------------------------------------------
(* get_or_create_progress: whoever asks for a progress makes one. *)
Created(m) == mfStatus' = [mfStatus EXCEPT ![m] = IF @ = "none" THEN "idle" ELSE @]

(* The progress route; after a delete it brings the entry back. *)
GetProgress(m) ==
  /\ Created(m)
  /\ UNCHANGED <<mfTarget, mfTmp, mfBytes, mfWriter, mfOwner, mfDelete, mfActivate,
                 mfActive, mfEngine>>

(* The route refuses a second download only while the first one's task has  *)
(* begun; the task begins later.                                            *)
RequestDownload(w, m) ==
  /\ At(w) = "new"
  /\ mfStatus[m] # "downloading"
  /\ mfWriter' = [mfWriter EXCEPT ![w].at = "requested", ![w].model = m]
  /\ Created(m)
  /\ UNCHANGED <<mfTarget, mfTmp, mfBytes, mfOwner, mfDelete, mfActivate, mfActive,
                 mfEngine>>

BeginDownload(w) ==
  /\ At(w) = "requested"
  /\ mfWriter' = [mfWriter EXCEPT ![w].at = "opening"]
  /\ mfStatus' = [mfStatus EXCEPT ![Of(w)] = "downloading"]
  /\ mfOwner' = mfOwner \cup {w}
  /\ UNCHANGED <<mfTarget, mfTmp, mfBytes, mfDelete, mfActivate, mfActive, mfEngine>>

(* The whole body is in memory when save_model_file starts. *)
RequestUpload(w, m) ==
  /\ At(w) = "new"
  /\ mfWriter' = [mfWriter EXCEPT ![w].at = "opening", ![w].kind = "upload",
                                ![w].model = m]
  /\ UNCHANGED <<mfTarget, mfTmp, mfBytes, mfStatus, mfOwner, mfDelete, mfActivate,
                 mfActive, mfEngine>>

(* open(tmp, "wb") truncates the file that is there, or makes a new one. *)
OpenTmp(w) ==
  /\ At(w) = "opening"
  /\ LET m == Of(w)
         file == IF mfTmp[m] = NoModelFile THEN w ELSE mfTmp[m]
     IN  /\ mfTmp' = [mfTmp EXCEPT ![m] = file]
         /\ mfBytes' = [mfBytes EXCEPT ![file] = Blank]
         /\ mfWriter' = [mfWriter EXCEPT ![w].at = "first", ![w].file = file]
  /\ UNCHANGED <<mfTarget, mfStatus, mfOwner, mfDelete, mfActivate, mfActive, mfEngine>>

WriteChunk(w) ==
  /\ At(w) \in {"first", "second"}
  /\ LET half == IF At(w) = "first" THEN 1 ELSE 2
     IN  mfBytes' = [mfBytes EXCEPT ![mfWriter[w].file][half] = w]
  /\ mfWriter' = [mfWriter EXCEPT ![w].at = IF @ = "first" THEN "second" ELSE "installing"]
  /\ UNCHANGED <<mfTarget, mfTmp, mfStatus, mfOwner, mfDelete, mfActivate, mfActive,
                 mfEngine>>

(* A download reports to its own progress object, current or not; an upload *)
(* to the current one.                                                      *)
Report(w, status) ==
  mfStatus' = IF w \in mfOwner \/ IsUpload(w) THEN [mfStatus EXCEPT ![Of(w)] = status]
                                              ELSE mfStatus
End(w) == mfWriter' = [mfWriter EXCEPT ![w].at = "ended"]

(* Mutation: a failed download leaves its progress as it was. *)
FailDownload_silent(w) ==
  /\ ~IsUpload(w)
  /\ mfTmp' = [mfTmp EXCEPT ![Of(w)] = NoModelFile]
  /\ End(w)
  /\ UNCHANGED <<mfStatus, mfTarget, mfBytes, mfOwner, mfDelete, mfActivate, mfActive,
                 mfEngine>>

(* except Exception: whatever is under the temporary name is removed. *)
FailDownload(w) ==
  /\ ~IsUpload(w)
  /\ mfTmp' = [mfTmp EXCEPT ![Of(w)] = NoModelFile]
  /\ Report(w, "failed")
  /\ End(w)
  /\ UNCHANGED <<mfTarget, mfBytes, mfOwner, mfDelete, mfActivate, mfActive, mfEngine>>

(* The server refuses, or the connection breaks. *)
BreakDownload(w) == At(w) \in {"opening", "first", "second"} /\ FailDownload(w)

Installable(w) ==
  LET file == mfTmp[Of(w)]
  IN  file # NoModelFile /\ (~IsUpload(w) => mfBytes[file] # Blank)

Install(w) ==
  /\ At(w) = "installing" /\ Installable(w)
  /\ mfTarget' = [mfTarget EXCEPT ![Of(w)] = mfTmp[Of(w)]]
  /\ mfTmp' = [mfTmp EXCEPT ![Of(w)] = NoModelFile]
  /\ Report(w, "ready")
  /\ End(w)
  /\ UNCHANGED <<mfBytes, mfOwner, mfDelete, mfActivate, mfActive, mfEngine>>

(* The temporary file is gone or empty: another writer has been here. *)
FailInstall(w) ==
  /\ At(w) = "installing" /\ ~Installable(w)
  /\ \/ FailDownload(w)
     \/ /\ IsUpload(w) /\ End(w)
        /\ UNCHANGED <<mfTarget, mfTmp, mfBytes, mfStatus, mfOwner, mfDelete, mfActivate,
                       mfActive, mfEngine>>
-----------------------------------------------------------------------------
(* The route refuses the base model and the active one ... *)
CheckDelete(d, m) ==
  /\ mfDelete[d] = NoModelFile
  /\ m # BaseModel /\ m # mfActive
  /\ mfDelete' = [mfDelete EXCEPT ![d] = m]
  /\ UNCHANGED <<mfTarget, mfTmp, mfBytes, mfWriter, mfStatus, mfOwner, mfActivate,
                 mfActive, mfEngine>>

(* ... and then forgets its progress and unlinks its file. *)
Unlink(d) ==
  /\ mfDelete[d] # NoModelFile
  /\ LET m == mfDelete[d]
     IN  /\ mfStatus' = [mfStatus EXCEPT ![m] = "none"]
         /\ mfOwner' = {w \in mfOwner : Of(w) # m}
         /\ mfTarget' = [mfTarget EXCEPT ![m] = NoModelFile]
  /\ mfDelete' = [mfDelete EXCEPT ![d] = NoModelFile]
  /\ UNCHANGED <<mfTmp, mfBytes, mfWriter, mfActivate, mfActive, mfEngine>>

(* What list_models shows as installed, and activate accepts: a file that is *)
(* not empty.                                                               *)
Installed(m) ==
  mfTarget[m] # NoModelFile /\ (mfTarget[m] \in Writer => mfBytes[mfTarget[m]] # Blank)

CheckActivate(a, m) ==
  /\ mfActivate[a].engine = "none"
  /\ Installed(m)
  /\ mfActivate' = [mfActivate EXCEPT ![a] = [model |-> m, engine |-> "checked"]]
  /\ UNCHANGED <<mfTarget, mfTmp, mfBytes, mfWriter, mfStatus, mfOwner, mfDelete,
                 mfActive, mfEngine>>

(* A file that does not load is replaced by the mock detector. *)
Loads(m) == mfTarget[m] # NoModelFile /\ Whole(mfTarget[m])

LoadEngine(a) ==
  /\ mfActivate[a].engine = "checked"
  /\ mfActivate' = [mfActivate EXCEPT ![a].engine =
                      IF Loads(mfActivate[a].model) THEN "onnx" ELSE "mock"]
  /\ UNCHANGED <<mfTarget, mfTmp, mfBytes, mfWriter, mfStatus, mfOwner, mfDelete,
                 mfActive, mfEngine>>

(* hot_swap, which DetectorHandle has in full. *)
HotSwap(a) ==
  /\ mfActivate[a].engine \in {"onnx", "mock"}
  /\ mfActive' = mfActivate[a].model /\ mfEngine' = mfActivate[a].engine
  /\ mfActivate' = [mfActivate EXCEPT ![a] = [model |-> BaseModel, engine |-> "none"]]
  /\ UNCHANGED <<mfTarget, mfTmp, mfBytes, mfWriter, mfStatus, mfOwner, mfDelete>>

WriterStep(w) ==
  \/ BeginDownload(w) \/ OpenTmp(w) \/ WriteChunk(w) \/ BreakDownload(w)
  \/ Install(w) \/ FailInstall(w)
  \/ \E m \in Model : RequestDownload(w, m) \/ RequestUpload(w, m)

ModelFilesNext ==
  \/ \E m \in Model : GetProgress(m)
  \/ \E w \in Writer : WriterStep(w)
  \/ \E d \in Deleter : Unlink(d) \/ \E m \in Model : CheckDelete(d, m)
  \/ \E a \in Activator : LoadEngine(a) \/ HotSwap(a) \/ \E m \in Model : CheckActivate(a, m)

ModelFilesSpec == ModelFilesInit /\ [][ModelFilesNext]_modelVars
-----------------------------------------------------------------------------
(* A download that the progress route shows is really under way: one that   *)
(* ended, also one of two of the same model, never leaves "downloading"     *)
(* behind, which would refuse every later download.                         *)
DownloadingIsReal ==
  \A m \in Model : mfStatus[m] = "downloading" =>
    \E w \in mfOwner : Of(w) = m /\ At(w) \in {"opening", "first", "second", "installing"}

(* "Atomically persist uploaded or downloaded weights"                      *)
(* (core/model_manager.py:203): an installed file is never a mixture.       *)
InstalledIsWhole ==
  \A m \in Model : mfTarget[m] # NoModelFile => Whole(mfTarget[m])
=============================================================================
