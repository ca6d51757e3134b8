---------------------------- MODULE DetectorHandle ----------------------------
(***************************************************************************)
(* The shared detector of core/model_manager.py: the analysis threads of   *)
(* all cameras run inferences inside ThreadSafeDetectorHandle.acquire,     *)
(* while requests that activate a model replace the detector in hot_swap.  *)
(*                                                                         *)
(* Each `with self._cond` block up to a wait is one step, so a thread that *)
(* waits on the condition is asleep until a notify_all, then awake until   *)
(* it gets the lock back and tests its condition again.                    *)
(***************************************************************************)
EXTENDS Naturals, FiniteSets

CONSTANTS Reader,    \* analysis threads
          Writer,    \* threads of the pool that serve /models/activate
          Model,     \* detectors
          NoModel    \* not holding one

ASSUME ReaderAssumption == IsFiniteSet(Reader)
ASSUME ThreadAssumption == Reader \cap Writer = {}
ASSUME ModelAssumption == NoModel \notin Model

VARIABLES
  detector,   \* _detector, and _active_model_name with it
  readers,    \* _active_readers
  writing,    \* _is_writing
  pc,         \* where each thread is
  held        \* the detector a thread infers with, or is about to install

vars == <<detector, readers, writing, pc, held>>

Thread == Reader \cup Writer

TypeOK ==
  /\ detector \in Model
  /\ readers \in Nat
  /\ writing \in BOOLEAN
  /\ pc \in [Thread -> {"idle", "entered", "using", "ready", "asleep", "awake"}]
  /\ \A r \in Reader : pc[r] # "ready"
  /\ \A w \in Writer : pc[w] \notin {"entered", "using"}
  /\ held \in [Thread -> Model \cup {NoModel}]
  /\ \A w \in Writer : pc[w] # "idle" => held[w] \in Model

Init ==
  /\ detector \in Model
  /\ readers = 0 /\ writing = FALSE
  /\ pc = [t \in Thread |-> "idle"]
  /\ held = [t \in Thread |-> NoModel]

(* Mutation: notify() wakes one of the threads. *)
NotifyAll_one(t, next) ==
  LET sleepers == {u \in Thread : pc[u] = "asleep"}
  IN  pc' = [u \in Thread |->
               IF u = t THEN next
               ELSE IF u \in sleepers /\ u = (CHOOSE s \in sleepers : TRUE) THEN "awake"
               ELSE pc[u]]

(* self._cond.notify_all(), by a thread that goes to `next`. *)
NotifyAll(t, next) ==
  pc' = [u \in Thread |-> IF u = t THEN next
                          ELSE IF pc[u] = "asleep" THEN "awake" ELSE pc[u]]

GoTo(t, next) == pc' = [pc EXCEPT ![t] = next]
-----------------------------------------------------------------------------
(* Mutation: readers do not wait for a writer. *)
MayEnter_always == TRUE

(* The reader's side of the condition: while self._is_writing: wait. *)
MayEnter == ~writing

Enter(r) ==
  /\ pc[r] \in {"idle", "awake"}
  /\ IF MayEnter THEN readers' = readers + 1 /\ GoTo(r, "entered")
                 ELSE GoTo(r, "asleep") /\ UNCHANGED readers
  /\ UNCHANGED <<detector, writing, held>>

(* yield self._detector, after the lock was released *)
TakeDetector(r) ==
  /\ pc[r] = "entered"
  /\ held' = [held EXCEPT ![r] = detector]
  /\ GoTo(r, "using")
  /\ UNCHANGED <<detector, readers, writing>>

(* Mutation: the last reader but one notifies. *)
WakeWriters_early(r) ==
  IF readers = 2 THEN NotifyAll(r, "idle") ELSE GoTo(r, "idle")

(* The last reader wakes the threads that wait. *)
WakeWriters(r) == IF readers = 1 THEN NotifyAll(r, "idle") ELSE GoTo(r, "idle")

(* Mutation: the count goes down twice. *)
Release_twice(r) ==
  /\ pc[r] = "using"
  /\ readers' = readers - 2
  /\ WakeWriters(r)
  /\ held' = [held EXCEPT ![r] = NoModel]
  /\ UNCHANGED <<detector, writing>>

(* The inference ended, or raised. *)
Release(r) ==
  /\ pc[r] = "using"
  /\ readers' = readers - 1
  /\ WakeWriters(r)
  /\ held' = [held EXCEPT ![r] = NoModel]
  /\ UNCHANGED <<detector, writing>>
-----------------------------------------------------------------------------
(* A request whose new detector is loaded and has run its dummy inference. *)
Activate(w, m) ==
  /\ pc[w] = "idle"
  /\ GoTo(w, "ready")
  /\ held' = [held EXCEPT ![w] = m]
  /\ UNCHANGED <<detector, readers, writing>>

(* Mutation: the writer does not wait for the readers. *)
MaySwap_always == TRUE

(* The writer's side: while self._active_readers > 0: wait. *)
MaySwap == readers = 0

Swap(w) ==
  /\ MaySwap
  /\ detector' = held[w]
  /\ writing' = FALSE
  /\ NotifyAll(w, "idle")
  /\ held' = [held EXCEPT ![w] = NoModel]
  /\ UNCHANGED readers

(* The flag goes up before the readers are gone, and keeps new ones out. *)
BeginSwap(w) ==
  /\ pc[w] = "ready"
  /\ \/ Swap(w)
     \/ /\ ~MaySwap
        /\ writing' = TRUE
        /\ GoTo(w, "asleep")
        /\ UNCHANGED <<detector, readers, held>>

(* Awake again: another writer may have cleared the flag meanwhile. *)
ResumeSwap(w) ==
  /\ pc[w] = "awake"
  /\ \/ Swap(w)
     \/ /\ ~MaySwap
        /\ GoTo(w, "asleep")
        /\ UNCHANGED <<detector, readers, writing, held>>

ReaderStep(r) == Enter(r) \/ TakeDetector(r) \/ Release(r)
SwapStep(w) == BeginSwap(w) \/ ResumeSwap(w)

Next ==
  \/ \E r \in Reader : ReaderStep(r)
  \/ \E w \in Writer : SwapStep(w) \/ \E m \in Model : Activate(w, m)

Spec == Init /\ [][Next]_vars

(* A thread that holds or waits for the detector is scheduled; inferences   *)
(* end.  No inference and no request is assumed to begin.                   *)
Fairness ==
  /\ \A r \in Reader : /\ WF_vars(TakeDetector(r) \/ Release(r))
                       /\ WF_vars(pc[r] = "awake" /\ Enter(r))
  /\ \A w \in Writer : WF_vars(SwapStep(w))

FairSpec == Spec /\ Fairness
-----------------------------------------------------------------------------
(* "Guarantees no race conditions between active frame inferences and       *)
(* session updates": from its acquire to its release a thread infers with   *)
(* the detector that is installed, although it reads it after it let go of  *)
(* the lock.                                                                *)
InferencesKeepDetector ==
  \A r \in Reader : pc[r] = "using" => held[r] = detector

(* No wakeup is lost: a thread sleeps only while what it waits for is still *)
(* to come, also when several swaps overlap and clear each other's flag.    *)
NoSleeperForgotten ==
  /\ \A r \in Reader : pc[r] = "asleep" => writing
  /\ \A w \in Writer : pc[w] = "asleep" => readers > 0

Swapping(w) == pc[w] \in {"ready", "asleep", "awake"}

(* A swap waits for the inferences in flight and no others: unless another  *)
(* swap joins in, it completes, however many inferences keep arriving.      *)
LoneSwapCompletes ==
  \A w \in Writer :
    (pc[w] = "ready" /\ \A v \in Writer \ {w} : ~Swapping(v)) ~>
       (~Swapping(w) \/ \E v \in Writer \ {w} : Swapping(v))

(* A frame that waits for a swap is analysed after it: unless swaps never   *)
(* stop, a waiting reader gets in.                                          *)
WaitingReaderEnters ==
  \A r \in Reader : pc[r] \in {"asleep", "awake"} ~>
                      pc[r] = "entered" \/ \E w \in Writer : Swapping(w)

(* Neither side of the handle waits for ever on the other.                  *)
WaitersGetThrough == LoneSwapCompletes /\ WaitingReaderEnters

(* "wait for all in-flight inferences to drain" (core/model_manager.py:125):*)
(* every swap completes, since new inferences wait for it.                  *)
SwapCompletes ==
  \A w \in Writer : Swapping(w) ~> ~Swapping(w)
=============================================================================
