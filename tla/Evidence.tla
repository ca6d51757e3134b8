------------------------------- MODULE Evidence -------------------------------
(***************************************************************************)
(* The evidence offload of core/evidence.py.  Analysis threads submit      *)
(* saves to an executor with one worker and remember their futures in a    *)
(* bounded deque; a full deque gives up its oldest future, which is        *)
(* cancelled outside the lock.  The worker writes the files, evicting the  *)
(* oldest every few saves, and each finished future takes itself out of    *)
(* the deque by its callback, which runs in whatever thread gets there.    *)
(*                                                                         *)
(* The steps are those of the code between two acquisitions of a lock: of  *)
(* _EVIDENCE_QUEUE_LOCK, of the future, of the executor.                   *)
(***************************************************************************)
EXTENDS Naturals, FiniteSets, SequencesExt, Subsequences

CONSTANTS EvidenceSave, \* calls of submit_frame_evidence
          MaxPending,   \* _EVIDENCE_MAX_PENDING
          EvictEvery,   \* _EVIDENCE_EVICT_EVERY_N
          MaxFiles,     \* MAX_EVIDENCE_FILES
          NoSave

ASSUME EvidenceAssumption ==
  /\ NoSave \notin EvidenceSave /\ IsFiniteSet(EvidenceSave)
  /\ {MaxPending, EvictEvery, MaxFiles} \subseteq Nat \ {0}

VARIABLES
  evCall,      \* how far each call has got
  evVictim,    \* the future a call has yet to cancel
  evJob,       \* state of each save's future
  evQueue,     \* the executor's work queue, cancelled items included
  evPending,   \* _EVIDENCE_PENDING
  evCallback,  \* the finished future whose callbacks the worker is about to run
  evFiles,     \* the saves whose file is on disk, oldest first
  evSaves,     \* _evidence_saves_since_evict
  evShut       \* the executor was shut down

evidenceVars == <<evCall, evVictim, evJob, evQueue, evPending, evCallback,
                  evFiles, evSaves, evShut>>

EvidenceTypeOK ==
  /\ evCall \in [EvidenceSave -> {"new", "submitted", "cancelling", "registering", "returned"}]
  /\ evVictim \in [EvidenceSave -> EvidenceSave \cup {NoSave}]
  /\ evJob \in [EvidenceSave -> {"none", "queued", "running", "done", "cancelled"}]
  /\ evQueue \in Seq(EvidenceSave) /\ evPending \in Seq(EvidenceSave)
  /\ evFiles \in Seq(EvidenceSave)
  /\ evCallback \in EvidenceSave \cup {NoSave}
  /\ evSaves \in 0..EvictEvery - 1
  /\ evShut \in BOOLEAN

EvidenceInit ==
  /\ evCall = [s \in EvidenceSave |-> "new"]
  /\ evVictim = [s \in EvidenceSave |-> NoSave]
  /\ evJob = [s \in EvidenceSave |-> "none"]
  /\ evQueue = <<>> /\ evPending = <<>> /\ evFiles = <<>>
  /\ evCallback = NoSave /\ evSaves = 0 /\ evShut = FALSE

Pending == ToSet(evPending)
Finished(s) == evJob[s] \in {"done", "cancelled"}
-----------------------------------------------------------------------------
(* The snapshot, and with it the crop, is written, or the write fails and   *)
(* that is suppressed.                                                      *)
Written(s) == {evFiles, Append(evFiles, s)}

(* The frame is copied and handed to the executor; after its shutdown the   *)
(* caller writes the files itself, and evicts nothing.                      *)
Submit(s) ==
  /\ evCall[s] = "new"
  /\ IF evShut
     THEN /\ evCall' = [evCall EXCEPT ![s] = "returned"]
          /\ evFiles' \in Written(s)
          /\ UNCHANGED <<evJob, evQueue>>
     ELSE /\ evCall' = [evCall EXCEPT ![s] = "submitted"]
          /\ evJob' = [evJob EXCEPT ![s] = "queued"]
          /\ evQueue' = Append(evQueue, s)
          /\ UNCHANGED evFiles
  /\ UNCHANGED <<evVictim, evPending, evCallback, evSaves, evShut>>

(* Under the queue lock: the oldest future makes room. *)
Remember(s) ==
  /\ evCall[s] = "submitted"
  /\ LET full == Len(evPending) >= MaxPending
     IN  /\ evVictim' = [evVictim EXCEPT ![s] = IF full THEN Head(evPending) ELSE NoSave]
         /\ evPending' = Append(IF full THEN Tail(evPending) ELSE evPending, s)
         /\ evCall' = [evCall EXCEPT ![s] = IF full THEN "cancelling" ELSE "registering"]
  /\ UNCHANGED <<evJob, evQueue, evCallback, evFiles, evSaves, evShut>>

(* A running job cannot be cancelled and is saved all the same; a cancelled *)
(* one stays in the executor's queue until the worker meets it.             *)
CancelVictim(s) ==
  /\ evCall[s] = "cancelling"
  /\ LET v == evVictim[s]
     IN  evJob' = IF evJob[v] = "queued" THEN [evJob EXCEPT ![v] = "cancelled"] ELSE evJob
  /\ evVictim' = [evVictim EXCEPT ![s] = NoSave]
  /\ evCall' = [evCall EXCEPT ![s] = "registering"]
  /\ UNCHANGED <<evQueue, evPending, evCallback, evFiles, evSaves, evShut>>

(* _evidence_done: the future leaves the deque, if it is still in it. *)
Forget(s) == Where(evPending, LAMBDA t : t # s)

(* Mutation: a future that is already done is left in the deque. *)
Register_late(s) ==
  /\ evCall[s] = "registering"
  /\ evCall' = [evCall EXCEPT ![s] = "returned"]
  /\ UNCHANGED <<evVictim, evJob, evQueue, evPending, evCallback, evFiles, evSaves, evShut>>

(* add_done_callback, which runs _evidence_done at once if the future is    *)
(* already done.                                                            *)
Register(s) ==
  /\ evCall[s] = "registering"
  /\ evCall' = [evCall EXCEPT ![s] = "returned"]
  /\ evPending' = IF Finished(s) THEN Forget(s) ELSE evPending
  /\ UNCHANGED <<evVictim, evJob, evQueue, evCallback, evFiles, evSaves, evShut>>
-----------------------------------------------------------------------------
Idle == evCallback = NoSave /\ \A s \in EvidenceSave : evJob[s] # "running"

(* The worker takes the next item; one that was cancelled is thrown away. *)
TakeJob ==
  /\ Idle /\ evQueue # <<>>
  /\ evQueue' = Tail(evQueue)
  /\ LET s == Head(evQueue)
     IN  evJob' = IF evJob[s] = "queued" THEN [evJob EXCEPT ![s] = "running"] ELSE evJob
  /\ UNCHANGED <<evCall, evVictim, evPending, evCallback, evFiles, evSaves, evShut>>

(* FIFO eviction of the oldest files beyond the limit. *)
Evicted(files) == SubSeq(files, Len(files) - MaxFiles + 1, Len(files))

Evicting(files) == IF Len(files) > MaxFiles THEN Evicted(files) ELSE files

(* Every EvictEvery saves the directory is trimmed.  Then the future is done. *)
FinishJob(s) ==
  /\ evJob[s] = "running"
  /\ \E files \in Written(s) :
        IF evSaves + 1 >= EvictEvery
        THEN evFiles' = Evicting(files) /\ evSaves' = 0
        ELSE evFiles' = files /\ evSaves' = evSaves + 1
  /\ evJob' = [evJob EXCEPT ![s] = "done"]
  /\ evCallback' = IF evCall[s] = "returned" THEN s ELSE NoSave
  /\ UNCHANGED <<evCall, evVictim, evQueue, evPending, evShut>>

(* _evidence_done in the worker: the future may have been popped before. *)
RunCallback ==
  /\ evCallback # NoSave
  /\ evPending' = Forget(evCallback)
  /\ evCallback' = NoSave
  /\ UNCHANGED <<evCall, evVictim, evJob, evQueue, evFiles, evSaves, evShut>>

(* shutdown(wait=True, cancel_futures=True): what waits is cancelled, with  *)
(* the callbacks of the futures that have one.                              *)
ShutDown ==
  /\ ~evShut
  /\ evShut' = TRUE
  /\ evQueue' = <<>>
  /\ evJob' = [s \in EvidenceSave |-> IF evJob[s] = "queued" THEN "cancelled" ELSE evJob[s]]
  /\ evPending' = Where(evPending, LAMBDA s : ~(evJob[s] = "queued" /\ evCall[s] = "returned"))
  /\ UNCHANGED <<evCall, evVictim, evCallback, evFiles, evSaves>>

CallStep(s) == Submit(s) \/ Remember(s) \/ CancelVictim(s) \/ Register(s)
WorkerStep == TakeJob \/ RunCallback \/ \E s \in EvidenceSave : FinishJob(s)

EvidenceNext == WorkerStep \/ ShutDown \/ \E s \in EvidenceSave : CallStep(s)

EvidenceSpec == EvidenceInit /\ [][EvidenceNext]_evidenceVars
-----------------------------------------------------------------------------
Calling(s) == evCall[s] \notin {"new", "returned"}

(* "The pending queue is bounded" (core/evidence.py:199).  The deque is,    *)
(* and of the saves the worker will still make there are at most            *)
(* MaxPending besides those whose call is not yet over.  No finished future *)
(* keeps a place in the deque, however its completion, its cancellation,    *)
(* the registration of its callback and the shutdown interleave: a leaked   *)
(* one would cost a later alert its evidence.                               *)
EvidenceBounded ==
  /\ Len(evPending) <= MaxPending
  /\ Cardinality({s \in EvidenceSave : evJob[s] = "queued"})
       <= MaxPending + Cardinality({s \in EvidenceSave : Calling(s)})
  /\ \A s \in Pending : Finished(s) => Calling(s) \/ evCallback = s
=============================================================================
