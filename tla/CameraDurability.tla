--------------------------- MODULE CameraDurability ---------------------------
(***************************************************************************)
(* What survives a restart of one (permanent) camera: the dict in _CAMERAS,*)
(* its row in the cameras table, the fire-and-forget tasks with which the  *)
(* request handlers of api/routes/cameras.py save and delete the row, and  *)
(* the restoration of services/persistence.py init_persistence.            *)
(*                                                                         *)
(* A task runs on the event loop up to each await; the database executes   *)
(* its statements in some order.  The camera's worker threads, and the     *)
(* machine's states other than DISABLED, are in CameraLifecycle.           *)
(***************************************************************************)
EXTENDS Naturals, FiniteSets

CONSTANTS Save,       \* the slots for pending save tasks
          Fence,      \* the fences a user draws
          NoFence,    \* fence None
          NoRow,      \* no row in the cameras table
          MaxEpoch    \* bound on reconnect requests per run of the process

ASSUME NoFenceAssumption == NoFence \notin Fence

Desired == {"STREAMING", "DISABLED"}
Image == [desired : Desired, fence : Fence \cup {NoFence}, epoch : Nat]

ASSUME NoRowAssumption == NoRow \notin Image

VARIABLES
  phase,       \* the camera is "absent", "present" in _CAMERAS, or "gone"
  cam,         \* its dict; a task keeps it after the camera is deleted
  smDisabled,  \* sm.is_disabled()
  smEpoch,     \* sm.stream_epoch
  row,         \* its committed row
  saves,       \* the tasks save_camera_to_db(cam)
  drop,        \* is a task delete_camera_from_db pending
  overlapped,  \* history: a request came while a task was pending
  lost         \* history: the database failed a task

durabilityVars == <<phase, cam, smDisabled, smEpoch, row, saves, drop, overlapped, lost>>

Task == [pc : {"none", "queued", "select", "selected", "commit"},
         fence : Fence \cup {NoFence}, seen : Image \cup {NoRow}, new : Image]

DurabilityTypeOK ==
  /\ phase \in {"absent", "present", "gone"}
  /\ cam \in Image /\ smDisabled \in BOOLEAN /\ smEpoch \in Nat
  /\ row \in Image \cup {NoRow}
  /\ saves \in [Save -> Task]
  /\ drop \in BOOLEAN /\ overlapped \in BOOLEAN /\ lost \in BOOLEAN

NewCamera == [desired |-> "STREAMING", fence |-> NoFence, epoch |-> 0]
NoTask == [pc |-> "none", fence |-> NoFence, seen |-> NoRow, new |-> NewCamera]

DurabilityInit ==
  /\ phase = "absent" /\ cam = NewCamera /\ smDisabled = FALSE /\ smEpoch = 0
  /\ row = NoRow
  /\ saves = [t \in Save |-> NoTask] /\ drop = FALSE
  /\ overlapped = FALSE /\ lost = FALSE

Quiet == ~drop /\ \A t \in Save : saves[t].pc = "none"
-----------------------------------------------------------------------------
(***************************************************************************)
(* Requests: each is one step of the event loop.                           *)
(***************************************************************************)
Served == overlapped' = (overlapped \/ ~Quiet) /\ UNCHANGED <<row, drop, lost>>

(* asyncio.create_task(save_camera_to_db(cam)) *)
QueueSave ==
  \E t \in Save : /\ saves[t].pc = "none"
                  /\ saves' = [saves EXCEPT ![t].pc = "queued"]

CreateCamera ==
  /\ phase = "absent" /\ phase' = "present"
  /\ Served /\ QueueSave
  /\ UNCHANGED <<cam, smDisabled, smEpoch>>

(* Leaving DISABLED goes through DRAFT to STREAMING; otherwise only saved. *)
EnableCamera ==
  /\ phase = "present"
  /\ cam' = IF smDisabled THEN [cam EXCEPT !.desired = "STREAMING"] ELSE cam
  /\ smDisabled' = FALSE
  /\ Served /\ QueueSave
  /\ UNCHANGED <<phase, smEpoch>>

(* Disabling a disabled camera raises before anything changes. *)
DisableCamera ==
  /\ phase = "present" /\ ~smDisabled
  /\ smDisabled' = TRUE /\ cam' = [cam EXCEPT !.desired = "DISABLED"]
  /\ Served /\ QueueSave
  /\ UNCHANGED <<phase, smEpoch>>

(* Nothing is saved. *)
ReconnectCamera ==
  /\ phase = "present" /\ ~smDisabled /\ smEpoch < MaxEpoch
  /\ smEpoch' = smEpoch + 1 /\ cam' = [cam EXCEPT !.epoch = smEpoch + 1]
  /\ Served
  /\ UNCHANGED <<phase, smDisabled, saves>>

(* PUT of a fence, and DELETE (f = NoFence). *)
SetFence(f) ==
  /\ phase = "present"
  /\ cam' = [cam EXCEPT !.fence = f]
  /\ Served /\ QueueSave
  /\ UNCHANGED <<phase, smDisabled, smEpoch>>

(* PUT of an empty polygon returns before the save. *)
PutEmptyFence ==
  /\ phase = "present"
  /\ cam' = [cam EXCEPT !.fence = NoFence]
  /\ Served
  /\ UNCHANGED <<phase, smDisabled, smEpoch, saves>>

DeleteCamera ==
  /\ phase = "present" /\ phase' = "gone"
  /\ drop' = TRUE /\ overlapped' = (overlapped \/ ~Quiet)
  /\ UNCHANGED <<cam, smDisabled, smEpoch, row, saves, lost>>
-----------------------------------------------------------------------------
(***************************************************************************)
(* save_camera_to_db and delete_camera_from_db.                            *)
(***************************************************************************)
TaskStep(t, from, changed) ==
  /\ saves[t].pc = from
  /\ saves' = [saves EXCEPT ![t] = changed]
  /\ UNCHANGED <<phase, cam, smDisabled, smEpoch, drop, overlapped>>

(* The body up to its first await: meta holds the fence. *)
BeginSave(t) ==
  /\ TaskStep(t, "queued", [saves[t] EXCEPT !.pc = "select", !.fence = cam.fence])
  /\ UNCHANGED <<row, lost>>

(* The database answers the select. *)
SelectRow(t) ==
  /\ TaskStep(t, "select", [saves[t] EXCEPT !.pc = "selected", !.seen = row])
  /\ UNCHANGED <<row, lost>>

(* Mutations: the state is not among the columns, or goes in the wrong one. *)
Columns_noState(c, s) ==
  [desired |-> IF s.seen = NoRow THEN c.desired ELSE s.seen.desired,
   fence |-> s.fence,
   epoch |-> IF s.seen = NoRow THEN c.epoch ELSE s.seen.epoch]
Columns_swapped(c, s) ==
  [desired |-> s.fence, fence |-> c.desired,
   epoch |-> IF s.seen = NoRow THEN c.epoch ELSE s.seen.epoch]

(* The columns given to the row; the epoch only to a new one. *)
Columns(c, s) ==
  [desired |-> c.desired, fence |-> s.fence,
   epoch |-> IF s.seen = NoRow THEN c.epoch ELSE s.seen.epoch]

(* The task resumes and reads the rest of the camera's dict. *)
AssignColumns(t) ==
  /\ TaskStep(t, "selected",
              [saves[t] EXCEPT !.pc = "commit", !.new = Columns(cam, saves[t])])
  /\ UNCHANGED <<row, lost>>

(* Only columns that differ from what was selected are in the UPDATE. *)
Update(r, seen, new) ==
  [r EXCEPT !.desired = IF new.desired # seen.desired THEN new.desired ELSE @,
            !.fence = IF new.fence # seen.fence THEN new.fence ELSE @]

(* The INSERT fails if there is a row by now, the UPDATE if there is none. *)
CommitSave(t) ==
  /\ TaskStep(t, "commit", NoTask)
  /\ row' = LET s == saves[t]
            IN  IF s.seen = NoRow
                  THEN IF row = NoRow THEN s.new ELSE row
                  ELSE IF row = NoRow THEN NoRow ELSE Update(row, s.seen, s.new)
  /\ UNCHANGED lost

(* The database fails the session: the exception is logged, not retried. *)
FailSave(t) ==
  /\ TaskStep(t, "commit", NoTask)
  /\ lost' = TRUE
  /\ UNCHANGED row

DropRow ==
  /\ drop /\ drop' = FALSE
  /\ \/ row' = NoRow /\ UNCHANGED lost
     \/ lost' = TRUE /\ UNCHANGED row
  /\ UNCHANGED <<phase, cam, smDisabled, smEpoch, saves, overlapped>>

SaveStep(t) ==
  BeginSave(t) \/ SelectRow(t) \/ AssignColumns(t) \/ CommitSave(t) \/ FailSave(t)
-----------------------------------------------------------------------------
(* The process ends, however it does (the shutdown waits for no task), and  *)
(* starts again: init_persistence restores the camera from its row.         *)
RestartServer ==
  /\ IF row = NoRow
       THEN /\ phase' = IF phase = "absent" THEN phase ELSE "gone"
            /\ UNCHANGED <<cam, smDisabled>>
       ELSE phase' = "present" /\ cam' = row /\ smDisabled' = (row.desired = "DISABLED")
  /\ smEpoch' = 0
  /\ saves' = [t \in Save |-> NoTask] /\ drop' = FALSE
  /\ overlapped' = FALSE
  /\ lost' = FALSE
  /\ UNCHANGED row

DurabilityNext ==
  \/ CreateCamera \/ EnableCamera \/ DisableCamera \/ ReconnectCamera
  \/ \E f \in Fence \cup {NoFence} : SetFence(f)
  \/ PutEmptyFence \/ DeleteCamera
  \/ \E t \in Save : SaveStep(t)
  \/ DropRow \/ RestartServer

DurabilitySpec == DurabilityInit /\ [][DurabilityNext]_durabilityVars
-----------------------------------------------------------------------------
(***************************************************************************)
(* Properties.                                                             *)
(***************************************************************************)

(* If no request came while a task of an earlier one was pending, and no    *)
(* task failed, the row is what the camera is: a restart gives the state    *)
(* and the fence back (up to a fence cleared by an empty PUT), and a        *)
(* deleted camera has no row, over any number of restarts.                  *)
SerialSavesAgree ==
  Quiet /\ ~overlapped /\ ~lost =>
    /\ phase = "present" =>
         /\ row # NoRow /\ row.desired = cam.desired
         /\ row.fence = cam.fence \/ cam.fence = NoFence
    /\ phase # "present" => row = NoRow

(* "Disabled never auto-restarts" (core/camera_state.py:14): a disabled      *)
(* camera is not started by a restart, with every task done and none failed.*)
DisabledStaysDown ==
  [][ RestartServer /\ phase = "present" /\ smDisabled /\ Quiet /\ ~lost =>
        phase' # "present" \/ smDisabled' ]_durabilityVars
=============================================================================
