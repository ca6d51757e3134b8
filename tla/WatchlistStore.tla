---------------------------- MODULE WatchlistStore ----------------------------
(***************************************************************************)
(* The watchlist of core/watchlist.py and its file.  Enrolments and        *)
(* removals are written to the file at once, sightings by a timer that     *)
(* gathers those of half a second; every method holds the store's lock, so *)
(* each is one step, and a timer may already wait for the lock when a      *)
(* request cancels it.  Plates and faces are matched against a snapshot.   *)
(*                                                                         *)
(* An entry is its id, and one enrolled again keeps its place; of its      *)
(* fields only the sightings change.  A plate is a sequence of characters  *)
(* that were normalised; Canon maps those OCR confuses to one.  A face is  *)
(* matched by its score with each entry.                                   *)
(***************************************************************************)
EXTENDS Integers, FiniteSets, SequencesExt, TLC

CONSTANTS Suspect,      \* ids of entries, numbers: the order of enrolment
          Timer,        \* debounce timers
          PlateOf,      \* the plates of those that have one, the others have faces
          Critical,     \* those with threat level CRITICAL
          PlateRead,    \* texts the OCR delivers
          MinFuzzy,     \* plates are compared place by place from this length, 8
          MaxSeen,      \* (bound)
          NoTimer

ASSUME WatchlistAssumption ==
  /\ Suspect \subseteq Nat \ {0} /\ DOMAIN PlateOf \subseteq Suspect /\ Critical \subseteq Suspect
  /\ NoTimer \notin Timer /\ {MinFuzzy, MaxSeen} \subseteq Nat

VARIABLES
  wlEntries,  \* _entries: the sightings of each entry, -1 if it is not there
  wlDirty,    \* _dirty
  wlCurrent,  \* _save_timer
  wlTimer,    \* the timer threads: "new", "armed", "firing", "ended"
  wlFile,     \* what watchlist.json holds
  wlFailed,   \* the last write or the last load failed
  wlMatched   \* the entry the analysis thread matched and has yet to credit

watchlistVars == <<wlEntries, wlDirty, wlCurrent, wlTimer, wlFile, wlFailed, wlMatched>>

Store == [Suspect -> -1..MaxSeen]
Nothing == [e \in Suspect |-> -1]

WatchlistTypeOK ==
  /\ wlEntries \in Store /\ wlFile \in Store
  /\ wlDirty \in BOOLEAN /\ wlFailed \in BOOLEAN
  /\ wlCurrent \in Timer \cup {NoTimer}
  /\ wlTimer \in [Timer -> {"new", "armed", "firing", "ended"}]
  /\ wlMatched \in Suspect \cup {0}

WatchlistInit ==
  /\ wlEntries = Nothing /\ wlFile = Nothing
  /\ wlDirty = FALSE /\ wlFailed = FALSE
  /\ wlCurrent = NoTimer /\ wlTimer = [t \in Timer |-> "new"]
  /\ wlMatched = 0

Alive(t) == t # NoTimer /\ wlTimer[t] \in {"armed", "firing"}
-----------------------------------------------------------------------------
(* _save replaces the file, or fails and only logs: either way the caller   *)
(* takes the store for saved.                                               *)
SaveStore(entries) ==
  \/ wlFile' = entries /\ wlFailed' = FALSE
  \/ wlFile' = wlFile /\ wlFailed' = TRUE

(* A timer that is already firing cannot be cancelled. *)
CancelDebounce ==
  /\ wlCurrent' = NoTimer
  /\ wlTimer' = IF wlCurrent # NoTimer /\ wlTimer[wlCurrent] = "armed"
                THEN [wlTimer EXCEPT ![wlCurrent] = "ended"] ELSE wlTimer

(* add_entry and remove_entry. *)
Edit(entries) ==
  /\ wlEntries' = entries
  /\ CancelDebounce /\ SaveStore(entries)
  /\ wlDirty' = FALSE
  /\ UNCHANGED wlMatched

AddEntry(e) == wlEntries[e] = -1 /\ Edit([wlEntries EXCEPT ![e] = 0])
RemoveEntry(e) == wlEntries[e] # -1 /\ Edit([wlEntries EXCEPT ![e] = -1])

(* match_plate: an exact match first, then one up to OCR's confusions, then *)
(* of longer plates one that differs in a single place; of each the first   *)
(* entry.  The tier of a confusion depends on the threat.                   *)
First(es) == CHOOSE e \in es : \A f \in es : e <= f

Confused == ("O" :> "0") @@ ("I" :> "1") @@ ("B" :> "8") @@ ("Z" :> "2") @@ ("S" :> "5")
Canon(s) == [i \in DOMAIN s |-> IF s[i] \in DOMAIN Confused THEN Confused[s[i]] ELSE s[i]]

Differing(s, q) == Cardinality({i \in DOMAIN s : s[i] # q[i]})

NoMatch == [entry |-> 0, tier |-> "NEUTRAL"]

MatchPlate(plates, critical, q, minFuzzy) ==
  LET exact == {e \in DOMAIN plates : plates[e] = q}
      confused == {e \in DOMAIN plates : Canon(plates[e]) = Canon(q)}
      close == {e \in DOMAIN plates :
                  Len(plates[e]) = Len(q) /\ Differing(plates[e], q) = 1}
  IN  CASE Len(q) < 3 -> NoMatch
        [] Len(q) >= 3 /\ exact # {} -> [entry |-> First(exact), tier |-> "RED"]
        [] Len(q) >= 3 /\ exact = {} /\ confused # {} ->
             [entry |-> First(confused),
              tier |-> IF First(confused) \in critical THEN "RED" ELSE "AMBER"]
        [] Len(q) >= minFuzzy /\ exact \cup confused = {} /\ close # {} ->
             [entry |-> First(close), tier |-> "AMBER"]
        [] OTHER -> NoMatch

(* identify: the first of the entries with the best score, if it is good    *)
(* enough.                                                                  *)
Identify(score, red, amber) ==
  LET best == {e \in DOMAIN score : \A f \in DOMAIN score : score[f] <= score[e]}
  IN  IF best = {} \/ score[First(best)] < amber THEN NoMatch
      ELSE [entry |-> First(best),
            tier |-> IF score[First(best)] >= red THEN "RED" ELSE "AMBER"]

Present == {e \in Suspect : wlEntries[e] # -1}

(* The analysis thread matches a plate or a face against the entries of     *)
(* this moment; a face is credited when its track is locked, or never.      *)
ReadPlate(q) ==
  /\ wlMatched = 0
  /\ wlMatched' = MatchPlate([e \in DOMAIN PlateOf \cap Present |-> PlateOf[e]],
                            Critical, q, MinFuzzy).entry
  /\ UNCHANGED <<wlEntries, wlDirty, wlCurrent, wlTimer, wlFile, wlFailed>>

SeeFace(score) ==
  /\ wlMatched = 0
  /\ wlMatched' \in {0, Identify([e \in Present \ DOMAIN PlateOf |-> score[e]], 2, 1).entry}
  /\ UNCHANGED <<wlEntries, wlDirty, wlCurrent, wlTimer, wlFile, wlFailed>>

(* One timer at a time, unless the current one is about to end. *)
ScheduleDebounce ==
  IF Alive(wlCurrent) THEN UNCHANGED <<wlCurrent, wlTimer>>
  ELSE \E t \in Timer : /\ wlTimer[t] = "new"
                        /\ wlTimer' = [wlTimer EXCEPT ![t] = "armed"] /\ wlCurrent' = t

(* The sighting of an entry that was removed meanwhile is dropped. *)
SeeSuspect(e) ==
  /\ wlMatched = e /\ e # 0 /\ wlMatched' = 0
  /\ IF wlEntries[e] = -1
     THEN UNCHANGED <<wlEntries, wlDirty, wlCurrent, wlTimer>>
     ELSE /\ wlEntries[e] < MaxSeen
          /\ wlEntries' = [wlEntries EXCEPT ![e] = @ + 1]
          /\ wlDirty' = TRUE
          /\ ScheduleDebounce
  /\ UNCHANGED <<wlFile, wlFailed>>

(* The half second is over; the thread asks for the lock. *)
Fire(t) ==
  /\ wlTimer[t] = "armed"
  /\ wlTimer' = [wlTimer EXCEPT ![t] = "firing"]
  /\ UNCHANGED <<wlEntries, wlDirty, wlCurrent, wlFile, wlFailed, wlMatched>>

(* Mutation: only the current timer saves. *)
DebouncedSave_unlessCurrent(t) ==
  /\ wlTimer[t] = "firing"
  /\ wlTimer' = [wlTimer EXCEPT ![t] = "ended"]
  /\ wlCurrent' = NoTimer
  /\ wlDirty' = FALSE
  /\ IF wlDirty /\ wlCurrent = t THEN SaveStore(wlEntries) ELSE UNCHANGED <<wlFile, wlFailed>>
  /\ UNCHANGED <<wlEntries, wlMatched>>

(* It forgets the current timer, whichever that is. *)
DebouncedSave(t) ==
  /\ wlTimer[t] = "firing"
  /\ wlTimer' = [wlTimer EXCEPT ![t] = "ended"]
  /\ wlCurrent' = NoTimer
  /\ wlDirty' = FALSE
  /\ IF wlDirty THEN SaveStore(wlEntries) ELSE UNCHANGED <<wlFile, wlFailed>>
  /\ UNCHANGED <<wlEntries, wlMatched>>

FlushStore ==
  /\ CancelDebounce
  /\ wlDirty' = FALSE
  /\ IF wlDirty THEN SaveStore(wlEntries) ELSE UNCHANGED <<wlFile, wlFailed>>
  /\ UNCHANGED <<wlEntries, wlMatched>>

(* The process ends, its daemon timers with it and nobody flushes; the next *)
(* one loads the file, or cannot and starts empty.                          *)
RestartStore ==
  /\ wlDirty' = FALSE /\ wlCurrent' = NoTimer
  /\ wlTimer' = [t \in Timer |-> "new"] /\ wlMatched' = 0
  /\ \/ wlEntries' = wlFile /\ wlFailed' = FALSE
     \/ wlEntries' = Nothing /\ wlFailed' = TRUE
  /\ UNCHANGED wlFile

WatchlistNext ==
  \/ \E e \in Suspect : AddEntry(e) \/ RemoveEntry(e) \/ SeeSuspect(e)
  \/ \E t \in Timer : Fire(t) \/ DebouncedSave(t)
  \/ \E q \in PlateRead : ReadPlate(q)
  \/ \E score \in [Suspect \ DOMAIN PlateOf -> 0..2] : SeeFace(score)
  \/ FlushStore \/ RestartStore

WatchlistSpec == WatchlistInit /\ [][WatchlistNext]_watchlistVars
-----------------------------------------------------------------------------
(* Whatever the store holds is in the file, or a timer is on its way to put *)
(* it there, unless the last write or load failed: no sighting, enrolment   *)
(* or removal is forgotten between a timer that fires, one that is          *)
(* cancelled and a request (tests/test_epoch_contention.py:35).             *)
StoreReachesFile ==
  \/ wlFile = wlEntries
  \/ wlDirty /\ \E t \in Timer : Alive(t)
  \/ wlFailed
=============================================================================
