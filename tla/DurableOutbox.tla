---------------------------- MODULE DurableOutbox ----------------------------
(***************************************************************************)
(* Events written with an outbox row in the caller's database session      *)
(* (save_event_with_outbox of services/persistence.py).  The in-memory     *)
(* timeline gets a mirror of the event after the commit, through hooks on  *)
(* the session that run once each; a restart restores the timeline from    *)
(* the rows.                                                               *)
(*                                                                         *)
(* The database is external: keys are unique, and a flush waits for other  *)
(* sessions that hold its key.  So is the session of SQLAlchemy 2:         *)
(* begin_nested flushes what was added before it makes the savepoint, a    *)
(* flush that fails outside a savepoint leaves only a rollback to the      *)
(* caller, and after_commit also runs when a savepoint is released.  A     *)
(* listener is known by its session, event and function, also when it was  *)
(* to run once and did: to listen again does nothing.  So a session has    *)
(* each hook once, and the flag in session.info by which _defer_mirror     *)
(* tells whether they listen decides nothing; it is left out.              *)
(*                                                                         *)
(* An event is its id, a number given in the order of the calls.  The      *)
(* evictions of the timeline are in Outbox and left out here.              *)
(***************************************************************************)
EXTENDS Naturals, FiniteSets, SequencesExt

CONSTANTS Session,
          RowKey,       \* dedup keys
          NoRowKey,     \* no dedup key
          MaxSaves,  \* events (bound)
          Limit      \* rows a restart restores, 500

ASSUME DurableAssumption == NoRowKey \notin RowKey /\ MaxSaves \in Nat /\ Limit \in Nat \ {0}

RowId == 1..MaxSaves

VARIABLES
  doNext,     \* the next id
  doKey,      \* the key of each event
  doRows,     \* committed rows
  doOpen,     \* rows each session flushed in its open transaction
  doAt,       \* where each session is
  doNew,      \* the event whose row a session has added and not flushed
  doPending,  \* the mirrors in session.info
  doGiven,    \* whether the session was given its hooks
  doHook,     \* those that have not run: "commit", "rollback"
  doTimeline, \* events in _EVENTS, with their entries
  doMuted     \* history: rows flushed in a session that had been given its hooks

durableVars == <<doNext, doKey, doRows, doOpen, doAt, doNew, doPending, doGiven, doHook,
                 doTimeline, doMuted>>

DurableTypeOK ==
  /\ doNext \in 1..MaxSaves + 1
  /\ doKey \in [RowId -> RowKey \cup {NoRowKey}]
  /\ doRows \subseteq RowId /\ doTimeline \subseteq RowId /\ doMuted \subseteq RowId
  /\ doOpen \in [Session -> SUBSET RowId]
  /\ doAt \in [Session -> {"open", "adding", "committed", "doomed"}]
  /\ doNew \in [Session -> RowId \cup {0}]
  /\ doPending \in [Session -> Seq(RowId)]
  /\ doGiven \in [Session -> BOOLEAN]
  /\ doHook \in [Session -> SUBSET {"commit", "rollback"}]

NoSession == /\ doOpen = [s \in Session |-> {}] /\ doAt = [s \in Session |-> "open"]
             /\ doNew = [s \in Session |-> 0] /\ doPending = [s \in Session |-> <<>>]
             /\ doGiven = [s \in Session |-> FALSE] /\ doHook = [s \in Session |-> {}]

DurableInit ==
  /\ doNext = 1 /\ doKey = [i \in RowId |-> NoRowKey]
  /\ doRows = {} /\ doTimeline = {} /\ doMuted = {}
  /\ NoSession

WithKey(ids, k) == {i \in ids : doKey[i] = k /\ k # NoRowKey}
-----------------------------------------------------------------------------
(* Mutation: an event without a key counts as a duplicate of any other. *)
Mirrored_noneIsAKey(shown, mirrors) ==
  shown \cup {mirrors[j] : j \in {j \in DOMAIN mirrors :
     {i \in shown \cup {mirrors[i] : i \in 1..j - 1} : doKey[i] = doKey[mirrors[j]]} = {}}}

(* transactional_write of the mirrors, in their order: a key that is shown   *)
(* is not shown again.                                                      *)
Mirrored(shown, mirrors) ==
  shown \cup {mirrors[j] : j \in {j \in DOMAIN mirrors :
     WithKey(shown \cup {mirrors[i] : i \in 1..j - 1}, doKey[mirrors[j]]) = {}}}

Left(s) == [pending |-> doPending[s], hook |-> doHook[s]]

(* _drain_pending_mirrors, if the session's commit hook has not run. *)
Drain(s) ==
  IF "commit" \in doHook[s]
  THEN [shown |-> Mirrored(doTimeline, doPending[s]), pending |-> <<>>,
        hook |-> doHook[s] \ {"commit"}]
  ELSE [shown |-> doTimeline, pending |-> doPending[s], hook |-> doHook[s]]

(* _defer_mirror of the row i, on top of what the drain left. *)
Defer(s, i, left) ==
  /\ doPending' = [doPending EXCEPT ![s] = Append(left.pending, i)]
  /\ doGiven' = [doGiven EXCEPT ![s] = TRUE]
  /\ doHook' = [doHook EXCEPT ![s] = IF doGiven[s] THEN left.hook ELSE {"commit", "rollback"}]

(* save_event_with_outbox up to its flush: a key the session sees, in a     *)
(* committed row or one of its own, defers a mirror with that row's id.     *)
SaveRow(s, k) ==
  /\ doAt[s] = "open" /\ doNext <= MaxSaves
  /\ doNext' = doNext + 1
  /\ doKey' = [doKey EXCEPT ![doNext] = k]
  /\ LET same == WithKey(doRows \cup doOpen[s], k)
     IN  IF same # {}
         THEN /\ \E i \in same : Defer(s, i, Left(s))
              /\ UNCHANGED <<doAt, doNew>>
         ELSE /\ doAt' = [doAt EXCEPT ![s] = "adding"]
              /\ doNew' = [doNew EXCEPT ![s] = doNext]
              /\ UNCHANGED <<doPending, doGiven, doHook>>
  /\ UNCHANGED <<doRows, doOpen, doTimeline, doMuted>>

(* The flush waits while another session holds the key, then the savepoint  *)
(* is released and the commit hook runs for what earlier saves deferred.    *)
FlushRow(s) ==
  /\ doAt[s] = "adding"
  /\ LET i == doNew[s]
         left == Drain(s)
     IN  /\ WithKey(doRows, doKey[i]) = {}
         /\ \A r \in Session \ {s} : WithKey(doOpen[r], doKey[i]) = {}
         /\ doOpen' = [doOpen EXCEPT ![s] = @ \cup {i}]
         /\ doTimeline' = left.shown
         /\ Defer(s, i, left)
         /\ doMuted' = IF doGiven[s] THEN doMuted \cup {i} ELSE doMuted
  /\ doAt' = [doAt EXCEPT ![s] = "open"]
  /\ doNew' = [doNew EXCEPT ![s] = 0]
  /\ UNCHANGED <<doNext, doKey, doRows>>

(* Another session committed the key: the flush of begin_nested fails, and  *)
(* with it the transaction; the select of the winner's row raises.  The     *)
(* rollback hook runs for the flush, which has a parent, and forgets        *)
(* nothing.                                                                 *)
LoseRace(s) ==
  /\ doAt[s] = "adding" /\ WithKey(doRows, doKey[doNew[s]]) # {}
  /\ doAt' = [doAt EXCEPT ![s] = "doomed"]
  /\ doOpen' = [doOpen EXCEPT ![s] = {}]
  /\ doNew' = [doNew EXCEPT ![s] = 0]
  /\ doHook' = [doHook EXCEPT ![s] = @ \ {"rollback"}]
  /\ UNCHANGED <<doNext, doKey, doRows, doPending, doGiven, doTimeline, doMuted>>

Commit(s) ==
  /\ doAt[s] = "open" /\ doOpen[s] \cup ToSet(doPending[s]) # {}
  /\ doRows' = doRows \cup doOpen[s]
  /\ doOpen' = [doOpen EXCEPT ![s] = {}]
  /\ doAt' = [doAt EXCEPT ![s] = "committed"]
  /\ UNCHANGED <<doNext, doKey, doNew, doPending, doGiven, doHook, doTimeline, doMuted>>

AfterCommit(s) ==
  /\ doAt[s] = "committed"
  /\ LET left == Drain(s)
     IN  /\ doTimeline' = left.shown
         /\ doPending' = [doPending EXCEPT ![s] = left.pending]
         /\ doHook' = [doHook EXCEPT ![s] = left.hook]
  /\ doAt' = [doAt EXCEPT ![s] = "open"]
  /\ UNCHANGED <<doNext, doKey, doRows, doOpen, doNew, doGiven, doMuted>>

(* The caller rolls back, or has to; _discard_pending_mirrors of the        *)
(* outermost transaction forgets the mirrors, if the hook has not run.      *)
Rollback(s) ==
  /\ doAt[s] \in {"open", "doomed"}
  /\ doAt[s] = "open" => doOpen[s] \cup ToSet(doPending[s]) # {}
  /\ doOpen' = [doOpen EXCEPT ![s] = {}]
  /\ doAt' = [doAt EXCEPT ![s] = "open"]
  /\ IF "rollback" \in doHook[s]
     THEN /\ doPending' = [doPending EXCEPT ![s] = <<>>]
          /\ doHook' = [doHook EXCEPT ![s] = @ \ {"rollback"}]
     ELSE UNCHANGED <<doPending, doHook>>
  /\ UNCHANGED <<doNext, doKey, doRows, doNew, doGiven, doTimeline, doMuted>>

(* The caller is done with the session: what it did not commit is gone, no  *)
(* hook runs, and the next session is a new object.                         *)
EndSession(s) ==
  /\ doAt[s] # "committed"
  /\ doOpen' = [doOpen EXCEPT ![s] = {}]
  /\ doAt' = [doAt EXCEPT ![s] = "open"]
  /\ doNew' = [doNew EXCEPT ![s] = 0]
  /\ doPending' = [doPending EXCEPT ![s] = <<>>]
  /\ doGiven' = [doGiven EXCEPT ![s] = FALSE]
  /\ doHook' = [doHook EXCEPT ![s] = {}]
  /\ UNCHANGED <<doNext, doKey, doRows, doTimeline, doMuted>>

(* A pipeline's event is only in memory ... *)
WriteMemory(k) ==
  /\ doNext <= MaxSaves
  /\ doNext' = doNext + 1
  /\ doKey' = [doKey EXCEPT ![doNext] = k]
  /\ doTimeline' = IF WithKey(doTimeline, k) = {} THEN doTimeline \cup {doNext} ELSE doTimeline
  /\ UNCHANGED <<doRows, doOpen, doAt, doNew, doPending, doGiven, doHook, doMuted>>

(* ... until save_outbox_event_to_db writes its row in a session of its     *)
(* own; a failure is only logged.                                           *)
SaveEntry(i) ==
  /\ i \in doTimeline \ doRows
  /\ WithKey(doRows, doKey[i]) = {}
  /\ \A s \in Session : i \notin doOpen[s] /\ WithKey(doOpen[s], doKey[i]) = {}
  /\ doRows' = doRows \cup {i}
  /\ UNCHANGED <<doNext, doKey, doOpen, doAt, doNew, doPending, doGiven, doHook, doTimeline,
                 doMuted>>

(* init_persistence after a crash: the newest rows make the new timeline. *)
Newer(i) == {j \in doRows : j > i}
RestartOutbox ==
  /\ doOpen' = [s \in Session |-> {}] /\ doAt' = [s \in Session |-> "open"]
  /\ doNew' = [s \in Session |-> 0] /\ doPending' = [s \in Session |-> <<>>]
  /\ doGiven' = [s \in Session |-> FALSE] /\ doHook' = [s \in Session |-> {}]
  /\ doMuted' = {}
  /\ doTimeline' = {i \in doRows : Cardinality(Newer(i)) < Limit}
  /\ UNCHANGED <<doNext, doKey, doRows>>

SessionStep(s) ==
  \/ FlushRow(s) \/ LoseRace(s) \/ Commit(s) \/ AfterCommit(s) \/ Rollback(s)
  \/ EndSession(s)
  \/ \E k \in RowKey \cup {NoRowKey} : SaveRow(s, k)

DurableNext ==
  \/ \E s \in Session : SessionStep(s)
  \/ \E k \in RowKey \cup {NoRowKey} : WriteMemory(k)
  \/ \E i \in RowId : SaveEntry(i)
  \/ RestartOutbox

DurableSpec == DurableInit /\ [][DurableNext]_durableVars
-----------------------------------------------------------------------------
(* The event of the row i, or one with its key, is in the timeline, or a     *)
(* commit is about to put it there, or it is older than a restart restores.  *)
Reaches(i) ==
  \/ i \in doTimeline \/ WithKey(doTimeline, doKey[i]) # {}
  \/ \E s \in Session :
       doAt[s] = "committed" /\ i \in ToSet(doPending[s]) /\ "commit" \in doHook[s]
  \/ Cardinality(Newer(i)) >= Limit

(* "Queue the in-mem mirror until the caller's transaction commits"         *)
(* (persistence.py:211), which not every committed event's mirror survives. *)
(* What is true: the event that a session flushes before it was given its   *)
(* hooks reaches the timeline if it is committed, whatever savepoints,      *)
(* rollbacks, lost races and ends of sessions come before, and is there     *)
(* again after a crash between the commit and its mirror.                   *)
FirstMirrorsAreShown == \A i \in doRows \ doMuted : Reaches(i)
=============================================================================
