------------------------------ MODULE StoreProofs ------------------------------
(***************************************************************************)
(* The stores, for any entries, timers, uploads, requests, writers,        *)
(* plates, saves and bounds: those that keep files (the watchlist, the     *)
(* upload quarantine, the weight files), the plate sightings and the       *)
(* evidence.  Each is proved from its own specification.                   *)
(***************************************************************************)
EXTENDS WatchlistStore, Uploads, ModelFiles, Sightings, Evidence, SubsequenceProofs

(***************************************************************************)
(* Watchlist.  That some timer will save is not inductive: the one that is *)
(* alive could be a stray one, which a cancel missed.  What is inductive   *)
(* is that a dirty store has its current timer alive.                      *)
(***************************************************************************)
WatchlistInv ==
  /\ WatchlistTypeOK
  /\ wlFile = wlEntries \/ wlDirty \/ wlFailed
  /\ wlDirty => Alive(wlCurrent)

(* The first entry of some is one of them. *)
LEMMA FirstIsThere ==
  ASSUME NEW es \in SUBSET Suspect, es # {} PROVE First(es) \in es
<1>1. es \subseteq Nat BY WatchlistAssumption
<1>2. \E e \in es : \A f \in es : e <= f BY <1>1, LeastNumber
<1>3. QED BY <1>2 DEF First

(* What is matched is an entry that is there, or none. *)
LEMMA MatchPlateType ==
  ASSUME NEW plates, DOMAIN plates \subseteq Suspect, NEW critical, NEW q, NEW n
  PROVE  MatchPlate(plates, critical, q, n).entry \in Suspect \cup {0}
<1> DEFINE exact == {e \in DOMAIN plates : plates[e] = q}
           confused == {e \in DOMAIN plates : Canon(plates[e]) = Canon(q)}
           close == {e \in DOMAIN plates :
                       Len(plates[e]) = Len(q) /\ Differing(plates[e], q) = 1}
<1>1. /\ exact # {} => First(exact) \in Suspect
      /\ confused # {} => First(confused) \in Suspect
      /\ close # {} => First(close) \in Suspect
  BY FirstIsThere
<1>2. NoMatch.entry = 0 BY DEF NoMatch
<1> HIDE DEF exact, confused, close
<1>3. QED BY <1>1, <1>2 DEF MatchPlate, exact, confused, close

(* Who is identified is one of those scored, or nobody. *)
LEMMA IdentifyType ==
  ASSUME NEW score, DOMAIN score \subseteq Suspect, NEW red, NEW amber
  PROVE  Identify(score, red, amber).entry \in Suspect \cup {0}
<1> DEFINE best == {e \in DOMAIN score : \A f \in DOMAIN score : score[f] <= score[e]}
<1>1. best # {} => First(best) \in Suspect BY FirstIsThere
<1>2. NoMatch.entry = 0 BY DEF NoMatch
<1> HIDE DEF best
<1>3. QED BY <1>1, <1>2 DEF Identify, best

(* The store starts as one. *)
LEMMA NothingIsStore == Nothing \in Store
<1>1. MaxSeen \in Nat BY WatchlistAssumption
<1>2. -1 \in -1..MaxSeen BY <1>1
<1>3. QED BY <1>2 DEF Nothing, Store

(* The store starts empty, as its file. *)
LEMMA WatchlistInitInv == WatchlistInit => WatchlistInv
  BY NothingIsStore
  DEF WatchlistInit, WatchlistInv, WatchlistTypeOK, Alive

(* An enrolment or a removal cancels the timer and saves, or fails to. *)
LEMMA EditInv ==
  ASSUME WatchlistInv, NEW e \in Suspect, AddEntry(e) \/ RemoveEntry(e)
  PROVE  WatchlistInv'
<1> USE WatchlistAssumption DEF WatchlistInv, WatchlistTypeOK, Store
<1>1. PICK n \in {-1, 0} : Edit([wlEntries EXCEPT ![e] = n])
  BY DEF AddEntry, RemoveEntry
<1>2. wlEntries' \in Store BY <1>1 DEF Edit
<1>3. wlCurrent' = NoTimer /\ wlTimer' \in [Timer -> {"new", "armed", "firing", "ended"}]
  BY <1>1 DEF Edit, CancelDebounce
<1>4. wlFile' \in Store /\ wlFailed' \in BOOLEAN /\ (wlFile' = wlEntries' \/ wlFailed')
  BY <1>1, <1>2 DEF Edit, SaveStore
<1>5. wlDirty' = FALSE /\ wlMatched' = wlMatched BY <1>1 DEF Edit
<1>6. QED BY <1>2, <1>3, <1>4, <1>5

(* A sighting makes the store dirty and arms a timer, unless one is alive. *)
LEMMA SeeSuspectInv ==
  ASSUME WatchlistInv, NEW e \in Suspect, SeeSuspect(e) PROVE WatchlistInv'
<1> USE WatchlistAssumption DEF WatchlistInv, WatchlistTypeOK, Store
<1>1. CASE wlEntries[e] = -1 BY <1>1 DEF SeeSuspect, Alive
<1>2. CASE wlEntries[e] # -1
  <2>1. wlEntries' \in Store /\ wlMatched' = 0 BY <1>2 DEF SeeSuspect
  <2>2. ScheduleDebounce /\ wlDirty' = TRUE /\ UNCHANGED <<wlFile, wlFailed>>
    BY <1>2 DEF SeeSuspect
  <2>3. Alive(wlCurrent)' /\ wlCurrent' \in Timer
          /\ wlTimer' \in [Timer -> {"new", "armed", "firing", "ended"}]
    BY <2>2 DEF ScheduleDebounce, Alive
  <2>4. QED BY <2>1, <2>2, <2>3
<1>3. QED BY <1>1, <1>2

(* A timer that gets the lock leaves the store clean. *)
LEMMA TimerInv ==
  ASSUME WatchlistInv, NEW t \in Timer, Fire(t) \/ DebouncedSave(t)
  PROVE  WatchlistInv'
<1> USE WatchlistAssumption DEF WatchlistInv, WatchlistTypeOK, Store
<1>1. CASE Fire(t) BY <1>1 DEF Fire, Alive
<1>2. CASE DebouncedSave(t) BY <1>2 DEF DebouncedSave, SaveStore
<1>3. QED BY <1>1, <1>2

(* Matching changes nothing but what is matched. *)
LEMMA MatchInv ==
  ASSUME WatchlistInv,
         \/ \E q \in PlateRead : ReadPlate(q)
         \/ \E score \in [Suspect \ DOMAIN PlateOf -> 0..2] : SeeFace(score)
  PROVE  WatchlistInv'
<1>1. wlMatched' \in Suspect \cup {0}
  <2>1. ASSUME NEW q \in PlateRead, ReadPlate(q) PROVE wlMatched' \in Suspect \cup {0}
    <3> DEFINE plates == [e \in DOMAIN PlateOf \cap Present |-> PlateOf[e]]
    <3>1. DOMAIN plates \subseteq Suspect BY WatchlistAssumption
    <3> HIDE DEF plates
    <3>2. MatchPlate(plates, Critical, q, MinFuzzy).entry \in Suspect \cup {0}
      BY <3>1, MatchPlateType
    <3>3. QED BY <2>1, <3>2 DEF ReadPlate, plates
  <2>2. ASSUME NEW score \in [Suspect \ DOMAIN PlateOf -> 0..2], SeeFace(score)
        PROVE  wlMatched' \in Suspect \cup {0}
    <3> DEFINE seen == [e \in Present \ DOMAIN PlateOf |-> score[e]]
    <3>1. DOMAIN seen \subseteq Suspect BY DEF Present
    <3> HIDE DEF seen
    <3>2. Identify(seen, 2, 1).entry \in Suspect \cup {0} BY <3>1, IdentifyType
    <3>3. QED BY <2>2, <3>2 DEF SeeFace, seen
  <2>3. QED BY <2>1, <2>2
<1>2. UNCHANGED <<wlEntries, wlDirty, wlCurrent, wlTimer, wlFile, wlFailed>>
  BY DEF ReadPlate, SeeFace
<1>3. QED BY <1>1, <1>2 DEF WatchlistInv, WatchlistTypeOK, Alive

(* A flush leaves the store clean; a restart takes it from the file. *)
LEMMA FlushRestartInv ==
  ASSUME WatchlistInv, FlushStore \/ RestartStore PROVE WatchlistInv'
<1> USE DEF WatchlistInv, WatchlistTypeOK
<1>1. CASE FlushStore BY <1>1 DEF FlushStore, CancelDebounce, SaveStore
<1>2. CASE RestartStore
  BY <1>2, NothingIsStore, WatchlistAssumption DEF RestartStore
<1>3. QED BY <1>1, <1>2

(* WatchlistInv holds in every reachable state: what the file of the        *)
(* watchlist lacks is dirty, with a timer to save it, or a save failed.     *)
THEOREM WatchlistInvariant == WatchlistSpec => []WatchlistInv
<1>1. ASSUME WatchlistInv, [WatchlistNext]_watchlistVars PROVE WatchlistInv'
  <2>1. CASE WatchlistNext
    BY <2>1, <1>1, EditInv, SeeSuspectInv, TimerInv, MatchInv, FlushRestartInv
    DEF WatchlistNext
  <2>2. CASE UNCHANGED watchlistVars
    BY <2>2, <1>1 DEF watchlistVars, WatchlistInv, WatchlistTypeOK, Alive
  <2>3. QED BY <1>1, <2>1, <2>2
<1>2. QED BY <1>1, WatchlistInitInv, PTL DEF WatchlistSpec

(* The store, its file and its timers keep to their types. *)
THEOREM WatchlistTypeCorrect == WatchlistSpec => []WatchlistTypeOK
<1>1. WatchlistInv => WatchlistTypeOK BY DEF WatchlistInv
<1>2. QED BY <1>1, WatchlistInvariant, PTL

(* Whatever the store holds is in the file, or a timer is on its way to put *)
(* it there, unless the last write or load failed.                          *)
THEOREM WatchlistReachesFile == WatchlistSpec => []StoreReachesFile
<1>1. WatchlistInv => StoreReachesFile
  BY DEF WatchlistInv, StoreReachesFile, WatchlistTypeOK, Alive
<1>2. QED BY <1>1, WatchlistInvariant, PTL
-----------------------------------------------------------------------------
(***************************************************************************)
(* Uploads.  A file is in one place, the one data["path"] names, and only  *)
(* a file in promoted/ can be without an entry that was not lost: the      *)
(* sweep then forgot one it had seen in quarantine/.  So a file that is    *)
(* past its retention when the sweep has done with the entries belongs to  *)
(* no request that could still rename it.                                  *)
(***************************************************************************)
OnePlace ==
  /\ \A u \in Upload, dir \in Directory :
       <<u, dir>> \in upDisk => dir = upPath[u] /\ u \in upIds
  /\ \A u \in Upload \ upIds : upPath[u] = "quarantine"

(* Who knows a file: the request that receives it, an entry, or nobody      *)
(* since a restart.                                                         *)
Known ==
  /\ \A u \in upReceiving : /\ u \in upIds /\ u \notin upEntry \cup upOld \cup upLost
                             /\ upPath[u] = "quarantine"
  /\ upEntry \cap upLost = {} /\ upOld \cup upLost \subseteq upIds
  /\ \A u \in Upload :
       /\ <<u, "quarantine">> \in upDisk => u \in upReceiving \cup upEntry \cup upLost
       /\ <<u, "promoted">> \in upDisk => u \in upEntry \cup upLost \cup upOld

FinalsKnown ==
  \A f \in Finalizer : upFinal[f] # NoFinal =>
    upFinal[f].upload \in upIds \ (upReceiving \cup upLost)

(* How far the sweep has got. *)
SweepKept ==
  /\ upSweep # NoSweep => upSweep.cutoff \subseteq upOld
  /\ upSweep.stage = "entries" =>
       /\ upEntry \cap upSweep.cutoff \subseteq upSweep.todo
       /\ upSweep.todo \subseteq upOld /\ upSweep.dirs = Directory
  /\ upSweep.stage \in {"looking", "unlinking"} =>
       /\ upEntry \cap upSweep.cutoff \subseteq upSweep.todo \cup {upSweep.upload}
       /\ upSweep.todo \cup {upSweep.upload} \subseteq upOld
       /\ upSweep.path = "promoted" => upPath[upSweep.upload] = "promoted"
  /\ upSweep.stage = "roots" =>
       /\ upEntry \cap upSweep.cutoff = {} /\ "promoted" \notin upSweep.dirs
       /\ \A u \in upSweep.cutoff, dir \in Directory \ upSweep.dirs : <<u, dir>> \notin upDisk

UploadsInv == UploadsTypeOK /\ OnePlace /\ Known /\ FinalsKnown /\ SweepKept

(* The invariant holds at the start. *)
LEMMA UploadsInitInv == UploadsInit => UploadsInv
<1> SUFFICES ASSUME UploadsInit PROVE UploadsInv OBVIOUS
<1> USE DEF UploadsInit
<1>1. UploadsTypeOK BY DEF UploadsTypeOK, Directory
<1>2. OnePlace /\ Known BY DEF OnePlace, Known
<1>3. FinalsKnown /\ SweepKept BY DEF FinalsKnown, SweepKept, NoSweep
<1>4. QED BY <1>1, <1>2, <1>3 DEF UploadsInv

(* A fresh id has no file, no entry and no request. *)
LEMMA ReceiveInv ==
  ASSUME UploadsInv, NEW u \in Upload, Receive(u)
  PROVE  UploadsInv'
<1> USE DEF UploadsInv, Receive
<1>1. UploadsTypeOK'
  <2>1. upDisk' \subseteq Upload \X Directory BY DEF UploadsTypeOK, Directory
  <2>2. /\ upIds' \subseteq Upload /\ upEntry' \subseteq upIds'
        /\ upReceiving' \subseteq Upload /\ upVideo' \subseteq Upload
    BY DEF UploadsTypeOK
  <2>3. UNCHANGED <<upPath, upOld, upLost, upFinal, upSweep>> OBVIOUS
  <2>4. QED BY <2>1, <2>2, <2>3, Zenon DEF UploadsTypeOK
<1>2. OnePlace' BY DEF OnePlace, UploadsTypeOK, Directory
<1>3. Known' BY DEF Known, UploadsTypeOK, OnePlace
<1>4. FinalsKnown' BY DEF FinalsKnown, UploadsTypeOK, Known
<1>5. SweepKept' BY DEF SweepKept, UploadsTypeOK, Known, OnePlace, NoSweep, Directory
<1>6. QED BY <1>1, <1>2, <1>3, <1>4, <1>5

(* A file that was received only in part is in the quarantine. *)
LEMMA AbortReceiveInv ==
  ASSUME UploadsInv, NEW u \in Upload, AbortReceive(u)
  PROVE  UploadsInv'
<1> USE DEF UploadsInv, AbortReceive
<1>1. UploadsTypeOK' BY DEF UploadsTypeOK
<1>2. OnePlace' BY DEF OnePlace, UploadsTypeOK, Directory
<1>3. Known' BY DEF Known, UploadsTypeOK, OnePlace
<1>4. FinalsKnown' BY DEF FinalsKnown, UploadsTypeOK, Known
<1>5. SweepKept' BY DEF SweepKept, UploadsTypeOK, Known, OnePlace, NoSweep, Directory
<1>6. QED BY <1>1, <1>2, <1>3, <1>4, <1>5

(* The entry takes the file over from the request. *)
LEMMA CompleteReceiveInv ==
  ASSUME UploadsInv, NEW u \in Upload, CompleteReceive(u)
  PROVE  UploadsInv'
<1> USE DEF UploadsInv, CompleteReceive
<1>1. UploadsTypeOK' BY DEF UploadsTypeOK, Known
<1>2. OnePlace' BY DEF OnePlace, UploadsTypeOK, Directory
<1>3. Known' BY DEF Known, UploadsTypeOK, OnePlace
<1>4. FinalsKnown' BY DEF FinalsKnown, UploadsTypeOK, Known
<1>5. SweepKept' BY DEF SweepKept, UploadsTypeOK, Known, OnePlace, NoSweep, Directory
<1>6. QED BY <1>1, <1>2, <1>3, <1>4, <1>5

(* A delete takes the file with the entry: it is where the entry says. *)
LEMMA DeleteUploadInv ==
  ASSUME UploadsInv, NEW u \in Upload, DeleteUpload(u)
  PROVE  UploadsInv'
<1> USE DEF UploadsInv, DeleteUpload
<1>1. UploadsTypeOK' BY DEF UploadsTypeOK
<1>2. OnePlace' BY DEF OnePlace, UploadsTypeOK, Directory
<1>3. Known' BY DEF Known, UploadsTypeOK, OnePlace
<1>4. FinalsKnown' BY DEF FinalsKnown, UploadsTypeOK, Known
<1>5. SweepKept' BY DEF SweepKept, UploadsTypeOK, Known, OnePlace, NoSweep, Directory
<1>6. QED BY <1>1, <1>2, <1>3, <1>4, <1>5

(* A camera takes the file only. *)
LEMMA CameraUnlinksInv ==
  ASSUME UploadsInv, NEW u \in Upload, NEW dir \in Directory, CameraUnlinks(u, dir)
  PROVE  UploadsInv'
<1> USE DEF UploadsInv, CameraUnlinks
<1>1. UploadsTypeOK' BY DEF UploadsTypeOK
<1>2. OnePlace' BY DEF OnePlace, UploadsTypeOK, Directory
<1>3. Known' BY DEF Known, UploadsTypeOK, OnePlace
<1>4. FinalsKnown' BY DEF FinalsKnown, UploadsTypeOK, Known
<1>5. SweepKept' BY DEF SweepKept, UploadsTypeOK, Known, OnePlace, NoSweep, Directory
<1>6. QED BY <1>1, <1>2, <1>3, <1>4, <1>5

(* A file grows old with the sweep at any point. *)
LEMMA GrowOldInv ==
  ASSUME UploadsInv, NEW u \in Upload, GrowOld(u)
  PROVE  UploadsInv'
<1> USE DEF UploadsInv, GrowOld
<1>1. UploadsTypeOK' BY DEF UploadsTypeOK
<1>2. OnePlace' BY DEF OnePlace, UploadsTypeOK, Directory
<1>3. Known' BY DEF Known, UploadsTypeOK, OnePlace
<1>4. FinalsKnown' BY DEF FinalsKnown, UploadsTypeOK, Known
<1>5. SweepKept' BY DEF SweepKept, UploadsTypeOK, Known, OnePlace, NoSweep, Directory
<1>6. QED BY <1>1, <1>2, <1>3, <1>4, <1>5

(* A step that changes one finalize request only, to nothing or to a        *)
(* request of the same upload, keeps the invariant.                         *)
LEMMA OneFinalInv ==
  ASSUME UploadsInv, NEW f \in Finalizer, NEW r,
         upFinal' = [upFinal EXCEPT ![f] = r],
         \/ r = NoFinal
         \/ r \in Finalizing /\ r.upload \in upIds \ (upReceiving \cup upLost),
         UNCHANGED <<upIds, upEntry, upPath, upReceiving, upVideo, upDisk, upOld, upLost, upSweep>>
  PROVE  UploadsInv'
<1> USE DEF UploadsInv
<1>1. UploadsTypeOK' BY DEF UploadsTypeOK
<1>2. OnePlace' /\ Known' BY DEF OnePlace, Known
<1>3. FinalsKnown' BY DEF FinalsKnown, UploadsTypeOK
<1>4. SweepKept' BY DEF SweepKept
<1>5. QED BY <1>1, <1>2, <1>3, <1>4

(* A request stays with the upload it began with, which has an entry then:  *)
(* up to the rename nothing but the request changes.                        *)
LEMMA FinalizeReadsInv ==
  ASSUME UploadsInv, NEW f \in Finalizer,
         HashFile(f) \/ ProbeVideo(f) \/ \E u \in Upload : BeginFinalize(f, u)
  PROVE  UploadsInv'
<1> USE DEF UploadsInv
<1>1. ASSUME NEW u \in Upload, BeginFinalize(f, u) PROVE UploadsInv'
  <2>1. Hashing(u, upPath[u]) \in Finalizing
    BY DEF Hashing, Finalizing, UploadsTypeOK
  <2>2. Hashing(u, upPath[u]).upload = u BY DEF Hashing
  <2>3. u \in upIds \ (upReceiving \cup upLost)
    BY <1>1 DEF BeginFinalize, Known, UploadsTypeOK
  <2>4. QED BY <1>1, <2>1, <2>2, <2>3, OneFinalInv DEF BeginFinalize
<1>2. ASSUME NEW stage \in {"probing", "promoting"}, upFinal[f] # NoFinal,
             upFinal' = [upFinal EXCEPT ![f].stage = stage],
             UNCHANGED <<upIds, upEntry, upPath, upReceiving, upVideo, upDisk, upOld, upLost,
                         upSweep>>
      PROVE  UploadsInv'
  <2> DEFINE r == [upFinal[f] EXCEPT !.stage = stage]
  <2>1. upFinal[f] \in Finalizing BY <1>2 DEF UploadsTypeOK
  <2>2. r \in Finalizing /\ r.upload = upFinal[f].upload BY <2>1 DEF Finalizing
  <2>3. r.upload \in upIds \ (upReceiving \cup upLost) BY <1>2, <2>2 DEF FinalsKnown
  <2>4. upFinal' = [upFinal EXCEPT ![f] = r] BY <1>2
  <2>5. QED BY <1>2, <2>2, <2>3, <2>4, OneFinalInv
<1>3. ASSUME EndFinalize(f),
             UNCHANGED <<upIds, upEntry, upPath, upReceiving, upVideo, upDisk, upOld, upLost,
                         upSweep>>
      PROVE  UploadsInv'
  BY <1>3, OneFinalInv DEF EndFinalize
<1>4. CASE HashFile(f) BY <1>2, <1>3, <1>4 DEF HashFile, NoFinal
<1>5. CASE ProbeVideo(f) BY <1>2, <1>3, <1>5 DEF ProbeVideo, NoFinal
<1>6. QED BY <1>1, <1>4, <1>5

(* The rename moves a file that an entry still points to, or one past its   *)
(* retention; the sweep is not yet, or no longer, over it.                  *)
LEMMA PromoteInv ==
  ASSUME UploadsInv, NEW f \in Finalizer, Promote(f) PROVE UploadsInv'
<1> DEFINE u == upFinal[f].upload
           q == <<u, upFinal[f].path>>
<1> USE DEF UploadsInv
<1>1. upFinal[f] \in Finalizing /\ upFinal[f] # NoFinal
  BY DEF Promote, UploadsTypeOK, NoFinal
<1>2. u \in Upload /\ upFinal[f].path \in Directory BY <1>1 DEF Finalizing
<1>3. u \in upIds /\ u \notin upReceiving \cup upLost BY <1>1 DEF FinalsKnown
<1>4. upFinal' = [upFinal EXCEPT ![f] = NoFinal] BY DEF Promote, EndFinalize
<1>5. UNCHANGED <<upIds, upEntry, upReceiving, upVideo, upOld, upLost, upSweep>>
  BY DEF Promote
<1>6. CASE q \notin upDisk
  BY <1>4, <1>5, <1>6, OneFinalInv DEF Promote
<1>7. CASE q \in upDisk
  <2>1. /\ upDisk' = (upDisk \ {q}) \cup {<<u, "promoted">>}
        /\ upPath' = [upPath EXCEPT ![u] = "promoted"]
    BY <1>7 DEF Promote
  <2>2. upFinal[f].path = upPath[u] BY <1>2, <1>7 DEF OnePlace
  <2>3. upDisk' \subseteq Upload \X Directory
    BY <1>2, <2>1 DEF UploadsTypeOK, Directory
  <2> HIDE DEF u, q
  <2>4. UploadsTypeOK'
    BY <1>2, <1>4, <1>5, <2>1, <2>3 DEF UploadsTypeOK, Directory
  <2>5. OnePlace' BY <1>2, <1>3, <1>5, <2>1, <2>2 DEF OnePlace, UploadsTypeOK, q, Directory
  <2>6. u \in upEntry \cup upOld /\ (upPath[u] = "quarantine" => u \in upEntry)
    BY <1>2, <1>3, <1>7, <2>2 DEF Known, Directory, q
  <2>7. Known' BY <1>2, <1>3, <1>5, <2>1, <2>6 DEF Known, UploadsTypeOK
  <2>8. FinalsKnown' BY <1>4, <1>5 DEF FinalsKnown, UploadsTypeOK
  <2>9. SweepKept'
    BY <1>2, <1>5, <1>7, <2>1, <2>2, <2>6 DEF SweepKept, UploadsTypeOK, Directory, q
  <2>10. QED BY <2>4, <2>5, <2>7, <2>8, <2>9
<1>8. QED BY <1>6, <1>7

(* The sweep begins with the entries past their retention. *)
LEMMA BeginSweepInv ==
  ASSUME UploadsInv, BeginSweep PROVE UploadsInv'
<1> USE DEF UploadsInv
<1>1. UploadsTypeOK' BY DEF BeginSweep, UploadsTypeOK, OverEntries
<1>2. OnePlace' /\ Known' BY DEF OnePlace, Known, BeginSweep
<1>3. FinalsKnown' BY DEF FinalsKnown, BeginSweep
<1>4. SweepKept' BY DEF SweepKept, BeginSweep
<1>5. QED BY <1>1, <1>2, <1>3, <1>4

(* The sweep takes an old entry. *)
LEMMA SweepEntryInv ==
  ASSUME UploadsInv, NEW u \in Upload, SweepEntry(u) PROVE UploadsInv'
<1> USE DEF UploadsInv
<1>1. upSweep \in OverEntries
  BY DEF SweepEntry, UploadsTypeOK, NoSweep, OverOneEntry
<1>2. UploadsTypeOK'
  BY <1>1 DEF SweepEntry, UploadsTypeOK, OverEntries, OverOneEntry
<1>3. OnePlace' /\ Known' BY DEF OnePlace, Known, SweepEntry
<1>4. FinalsKnown' BY DEF FinalsKnown, SweepEntry
<1>5. SweepKept' BY <1>1 DEF SweepKept, SweepEntry, OverEntries, NoSweep, Known
<1>6. QED BY <1>2, <1>3, <1>4, <1>5

(* An entry without its file is forgotten, and the next one is next. *)
LEMMA SweepOneInv ==
  ASSUME UploadsInv, SweepLook \/ SweepUnlink PROVE UploadsInv'
<1> DEFINE u == upSweep.upload
           q == <<u, upSweep.path>>
<1> USE DEF UploadsInv
<1>1. upSweep \in OverOneEntry
  BY DEF SweepLook, SweepUnlink, UploadsTypeOK, NoSweep, OverEntries
<1>2. u \in Upload /\ upSweep.path \in Directory BY <1>1 DEF OverOneEntry
<1>3. UNCHANGED <<upIds, upPath, upReceiving, upVideo, upOld, upLost, upFinal>>
  BY DEF SweepLook, SweepUnlink
<1>4. CASE upEntry' = upEntry \ {u} /\ upDisk' = upDisk \ {q} /\ BackToEntries
  <2>1. upSweep' \in OverEntries /\ upSweep'.stage = "entries"
    BY <1>1, <1>4 DEF BackToEntries, OverOneEntry, OverEntries
  <2>2. UploadsTypeOK' BY <1>3, <1>4, <2>1 DEF UploadsTypeOK
  <2>3. OnePlace' BY <1>3, <1>4 DEF OnePlace
  <2>4. u \in upOld
    BY <1>1 DEF SweepKept, OverOneEntry
  <2> HIDE DEF u, q
  <2>5. \A v \in Upload : <<v, "quarantine">> \in upDisk' =>
          v \in upReceiving \cup upEntry' \cup upLost
    <3> SUFFICES ASSUME NEW v \in Upload, <<v, "quarantine">> \in upDisk', v = u
                 PROVE  FALSE
      BY <1>4 DEF Known
    <3>1. upPath[u] = "quarantine" BY <1>4 DEF OnePlace, Directory
    <3>2. upSweep.path = "quarantine"
      BY <1>1, <1>2, <3>1 DEF SweepKept, OverOneEntry, Directory, u
    <3>3. QED BY <1>4, <3>2 DEF q
  <2>6. Known' BY <1>2, <1>3, <1>4, <2>4, <2>5 DEF Known
  <2>7. FinalsKnown' BY <1>3 DEF FinalsKnown
  <2>8. SweepKept'
    <3>1. /\ upSweep'.stage = "entries" /\ upSweep'.todo = upSweep.todo
          /\ upSweep'.cutoff = upSweep.cutoff /\ upSweep'.dirs = Directory
          /\ upSweep.stage \in {"looking", "unlinking"} /\ upSweep # NoSweep
      BY <1>1, <1>4 DEF BackToEntries, OverOneEntry, NoSweep
    <3>2. QED BY <1>3, <1>4, <3>1 DEF SweepKept, u
  <2>9. QED BY <2>2, <2>3, <2>6, <2>7, <2>8
<1>5. ASSUME upSweep' \in {NoSweep, [upSweep EXCEPT !.stage = "unlinking"]},
             UNCHANGED <<upEntry, upDisk>>
      PROVE  UploadsInv'
  <2>1. UploadsTypeOK' BY <1>1, <1>3, <1>5 DEF UploadsTypeOK, OverOneEntry
  <2>2. OnePlace' /\ Known' /\ FinalsKnown' BY <1>3, <1>5 DEF OnePlace, Known, FinalsKnown
  <2>3. CASE upSweep' = NoSweep BY <2>1, <2>2, <2>3 DEF SweepKept, NoSweep
  <2>4. CASE upSweep' = [upSweep EXCEPT !.stage = "unlinking"]
    <3>1. /\ upSweep'.stage = "unlinking" /\ upSweep'.upload = u
          /\ upSweep'.path = upSweep.path /\ upSweep'.todo = upSweep.todo
          /\ upSweep'.cutoff = upSweep.cutoff
          /\ upSweep.stage \in {"looking", "unlinking"} /\ upSweep # NoSweep
      BY <1>1, <2>4 DEF OverOneEntry, NoSweep
    <3>2. SweepKept' BY <1>3, <1>5, <3>1 DEF SweepKept
    <3>3. QED BY <2>1, <2>2, <3>2
  <2>5. QED BY <1>5, <2>3, <2>4
<1>6. CASE SweepLook
  <2>1. CASE q \in upDisk BY <1>5, <1>6, <2>1 DEF SweepLook
  <2>2. CASE q \notin upDisk BY <1>4, <1>6, <2>2 DEF SweepLook
  <2>3. QED BY <2>1, <2>2
<1>7. CASE SweepUnlink BY <1>4, <1>5, <1>7 DEF SweepUnlink
<1>8. QED BY <1>6, <1>7

(* Of the files past their retention none is left in a directory that was   *)
(* gone through, promoted/ first.                                           *)
LEMMA SweepRootInv ==
  ASSUME UploadsInv, NEW dir \in Directory, SweepRoot(dir) PROVE UploadsInv'
<1> USE DEF UploadsInv
<1>1. upSweep \in OverEntries
  BY DEF SweepRoot, UploadsTypeOK, NoSweep, OverOneEntry
<1>2. /\ upDisk' = upDisk \ (upSweep.cutoff \X {dir})
      /\ upSweep' = [upSweep EXCEPT !.stage = "roots", !.dirs = @ \ {dir}]
      /\ UNCHANGED <<upIds, upEntry, upPath, upReceiving, upVideo, upOld, upLost, upFinal>>
  BY DEF SweepRoot
<1>3. UploadsTypeOK' BY <1>1, <1>2 DEF UploadsTypeOK, OverEntries
<1>4. OnePlace' /\ Known' /\ FinalsKnown' BY <1>2 DEF OnePlace, Known, FinalsKnown
<1>5. /\ upSweep'.stage = "roots" /\ upSweep'.cutoff = upSweep.cutoff
      /\ upSweep'.dirs = upSweep.dirs \ {dir} /\ upSweep # NoSweep
  BY <1>1, <1>2 DEF OverEntries, NoSweep
<1>6. \/ upSweep.stage = "roots"
      \/ upSweep.stage = "entries" /\ upSweep.todo = {} /\ dir = "promoted"
  BY DEF SweepRoot
<1>7. upEntry \cap upSweep.cutoff = {} /\ "promoted" \notin upSweep'.dirs
  BY <1>5, <1>6 DEF SweepKept
<1>8. \A u \in upSweep.cutoff, d \in Directory \ upSweep'.dirs : <<u, d>> \notin upDisk'
  <2>1. \A u \in upSweep.cutoff : <<u, dir>> \notin upDisk' BY <1>2
  <2>2. \A u \in upSweep.cutoff, d \in Directory \ upSweep.dirs :
          <<u, d>> \notin upDisk
    BY <1>6 DEF SweepKept
  <2>3. QED BY <1>2, <1>5, <2>1, <2>2
<1>9. SweepKept' BY <1>2, <1>5, <1>7, <1>8 DEF SweepKept, NoSweep
<1>10. QED BY <1>3, <1>4, <1>9

(* The sweep is over and forgets what it saw. *)
LEMMA EndSweepInv ==
  ASSUME UploadsInv, EndSweep PROVE UploadsInv'
<1> USE DEF UploadsInv, EndSweep
<1>1. UploadsTypeOK' /\ FinalsKnown' BY DEF UploadsTypeOK, FinalsKnown
<1>2. OnePlace' /\ Known' BY DEF OnePlace, Known
<1>3. SweepKept' BY DEF SweepKept, NoSweep
<1>4. QED BY <1>1, <1>2, <1>3

(* After a restart every file on disk is a lost one. *)
LEMMA RestartUploadsInv ==
  ASSUME UploadsInv, RestartUploads PROVE UploadsInv'
<1> USE DEF UploadsInv, RestartUploads
<1>1. UploadsTypeOK' BY DEF UploadsTypeOK
<1>2. OnePlace' BY DEF OnePlace
<1>3. Known' BY DEF Known, OnePlace, Directory
<1>4. FinalsKnown' /\ SweepKept' BY DEF FinalsKnown, SweepKept, NoSweep
<1>5. QED BY <1>1, <1>2, <1>3, <1>4

(* UploadsInv holds in every reachable state, in the midst of an upload, a  *)
(* sweep or a cleanup too: a file is in one place, and who still needs it   *)
(* knows it.                                                                *)
THEOREM UploadsInvariant == UploadsSpec => []UploadsInv
<1>1. ASSUME UploadsInv, [UploadsNext]_uploadVars PROVE UploadsInv'
  <2>1. ASSUME NEW u \in Upload, UploadStep(u) PROVE UploadsInv'
    BY <1>1, <2>1, ReceiveInv, AbortReceiveInv, CompleteReceiveInv, DeleteUploadInv, GrowOldInv,
       CameraUnlinksInv DEF UploadStep
  <2>2. ASSUME NEW f \in Finalizer, FinalizeStep(f) PROVE UploadsInv'
    BY <1>1, <2>2, FinalizeReadsInv, PromoteInv DEF FinalizeStep
  <2>3. CASE SweepStep
    BY <1>1, <2>3, BeginSweepInv, SweepEntryInv, SweepOneInv, SweepRootInv, EndSweepInv
    DEF SweepStep
  <2>4. CASE RestartUploads BY <1>1, <2>4, RestartUploadsInv
  <2>5. CASE UNCHANGED uploadVars
    BY <1>1, <2>5
    DEF uploadVars, UploadsInv, UploadsTypeOK, OnePlace, Known, FinalsKnown, SweepKept
  <2>6. QED BY <1>1, <2>1, <2>2, <2>3, <2>4, <2>5 DEF UploadsNext
<1>2. QED BY <1>1, UploadsInitInv, PTL DEF UploadsSpec

(* The quarantine keeps to its types. *)
THEOREM UploadsTypeCorrect == UploadsSpec => []UploadsTypeOK
<1>1. UploadsInv => UploadsTypeOK BY DEF UploadsInv
<1>2. QED BY <1>1, UploadsInvariant, PTL

(* No file is forgotten while the process lives, and a sweep that runs to   *)
(* its end leaves nothing that was past its retention when it began: for    *)
(* any number of uploads and of finalize requests at the same time.         *)
THEOREM UploadsAccounted == UploadsSpec => []FilesAccounted
<1>1. UploadsInv => FilesAccounted
  <2> SUFFICES ASSUME UploadsInv PROVE FilesAccounted OBVIOUS
  <2>1. \A u \in Upload \ upLost, dir \in Directory : <<u, dir>> \in upDisk =>
          u \in upReceiving \/ (u \in upEntry /\ upPath[u] = dir) \/ u \in upOld
    BY DEF UploadsInv, OnePlace, Known, Directory
  <2>2. upSweep.stage = "roots" /\ upSweep.dirs = {} =>
          \A u \in upSweep.cutoff, dir \in Directory : <<u, dir>> \notin upDisk
    BY DEF UploadsInv, SweepKept
  <2>3. QED BY <2>1, <2>2 DEF FilesAccounted
<1>2. QED BY <1>1, UploadsInvariant, PTL
-----------------------------------------------------------------------------
(***************************************************************************)
(* Weight files.  A progress that says "downloading" has an owner between  *)
(* its begin and its end.  The owner reports when it ends, because it is a *)
(* download: an upload may end without a word.                             *)
(***************************************************************************)
OwnersDownload ==
  \A w \in Writer :
    /\ At(w) \in {"new", "requested"} => ~IsUpload(w) /\ w \notin mfOwner
    /\ w \in mfOwner => ~IsUpload(w)

ModelFilesInv == ModelFilesTypeOK /\ OwnersDownload /\ DownloadingIsReal

WriterPlace == {"new", "requested", "opening", "first", "second", "installing", "ended"}
WriterType == [at : WriterPlace, kind : {"download", "upload"}, model : Model,
               file : Writer \cup {NoModelFile}]

(* The invariant holds at the start. *)
LEMMA ModelFilesInitInv == ModelFilesInit => ModelFilesInv
<1> SUFFICES ASSUME ModelFilesInit PROVE ModelFilesInv OBVIOUS
<1> USE ModelFilesAssumption DEF ModelFilesInit
<1>1. ModelFilesTypeOK BY DEF ModelFilesTypeOK, Blank
<1>2. OwnersDownload BY DEF OwnersDownload, IsUpload
<1>3. DownloadingIsReal BY DEF DownloadingIsReal
<1>4. QED BY <1>1, <1>2, <1>3 DEF ModelFilesInv

(* A writer that begins is not an owner before its task runs. *)
LEMMA RequestInv ==
  ASSUME ModelFilesInv, NEW w \in Writer, NEW m \in Model,
         RequestDownload(w, m) \/ RequestUpload(w, m)
  PROVE  ModelFilesInv'
<1> USE DEF ModelFilesInv, ModelFilesTypeOK
<1>1. ModelFilesTypeOK' BY DEF RequestDownload, RequestUpload, Created
<1>2. OwnersDownload'
  BY DEF OwnersDownload, RequestDownload, RequestUpload, At, IsUpload
<1>3. \A v \in Writer \ {w} : UNCHANGED mfWriter[v]
  BY DEF RequestDownload, RequestUpload
<1>4. At(w) = "new" /\ mfOwner' = mfOwner BY DEF RequestDownload, RequestUpload
<1>5. \A n \in Model : mfStatus'[n] = "downloading" => mfStatus[n] = "downloading"
  BY DEF RequestDownload, RequestUpload, Created
<1>6. DownloadingIsReal' BY <1>3, <1>4, <1>5 DEF DownloadingIsReal, At, Of
<1>7. QED BY <1>1, <1>2, <1>6

(* A download begins, unless one of the model has begun. *)
LEMMA BeginDownloadInv ==
  ASSUME ModelFilesInv, NEW w \in Writer, BeginDownload(w) PROVE ModelFilesInv'
<1> USE DEF ModelFilesInv, ModelFilesTypeOK, BeginDownload, At, Of, IsUpload
<1>1. ModelFilesTypeOK' OBVIOUS
<1>2. OwnersDownload' BY DEF OwnersDownload
<1>3. DownloadingIsReal' BY DEF DownloadingIsReal
<1>4. QED BY <1>1, <1>2, <1>3

(* A writer at work stays at work. *)
LEMMA WriteInv ==
  ASSUME ModelFilesInv, NEW w \in Writer, OpenTmp(w) \/ WriteChunk(w) PROVE ModelFilesInv'
<1> USE DEF ModelFilesInv, ModelFilesTypeOK
<1>1. ModelFilesTypeOK'
  <2>1. CASE OpenTmp(w)
    <3> DEFINE file == IF mfTmp[Of(w)] = NoModelFile THEN w ELSE mfTmp[Of(w)]
    <3>1. Of(w) \in Model BY DEF Of
    <3>2. file \in Writer BY <3>1
    <3>3. /\ mfTmp' = [mfTmp EXCEPT ![Of(w)] = file]
          /\ mfBytes' = [mfBytes EXCEPT ![file] = Blank]
          /\ mfWriter' = [mfWriter EXCEPT ![w].at = "first", ![w].file = file]
      BY <2>1 DEF OpenTmp
    <3> HIDE DEF file
    <3>4. mfBytes' \in [Writer -> [{1, 2} -> Writer \cup {NoModelFile}]]
      BY <3>3 DEF Blank
    <3>5. mfTmp' \in [Model -> Writer \cup {NoModelFile}] BY <3>2, <3>3
    <3>6. mfWriter' \in [Writer -> WriterType]
      <4> DEFINE r == [mfWriter[w] EXCEPT !.at = "first", !.file = file]
      <4>1. r \in WriterType
        <5>1. mfWriter[w] \in WriterType BY DEF WriterType, WriterPlace
        <5>2. "first" \in WriterPlace BY DEF WriterPlace
        <5>3. file \in Writer \cup {NoModelFile} BY <3>2
        <5> HIDE DEF ModelFilesInv, ModelFilesTypeOK
        <5>4. QED BY <5>1, <5>2, <5>3 DEF WriterType
      <4>2. mfWriter' = [mfWriter EXCEPT ![w] = r] BY <3>3
      <4> HIDE DEF r
      <4>3. QED BY <4>1, <4>2 DEF WriterType, WriterPlace
    <3>7. QED BY <2>1, <3>4, <3>5, <3>6 DEF OpenTmp, WriterType, WriterPlace
  <2>2. CASE WriteChunk(w)
    <3>1. mfBytes' \in [Writer -> [{1, 2} -> Writer \cup {NoModelFile}]]
      BY <2>2 DEF WriteChunk
    <3>2. mfWriter' \in [Writer -> WriterType]
      BY <2>2 DEF WriteChunk, WriterType, WriterPlace
    <3>3. QED BY <2>2, <3>1, <3>2 DEF WriteChunk, WriterType, WriterPlace
  <2>3. QED BY <2>1, <2>2
<1>2. /\ At(w) \in {"opening", "first", "second"}
      /\ At(w)' \in {"first", "second", "installing"}
      /\ Of(w)' = Of(w) /\ IsUpload(w)' = IsUpload(w)
      /\ \A v \in Writer \ {w} : UNCHANGED mfWriter[v]
      /\ UNCHANGED <<mfStatus, mfOwner>>
  BY DEF OpenTmp, WriteChunk, At, Of, IsUpload
<1>3. OwnersDownload' BY <1>2 DEF OwnersDownload, At, IsUpload
<1>4. DownloadingIsReal' BY <1>2 DEF DownloadingIsReal, At, Of
<1>5. QED BY <1>1, <1>3, <1>4

(* A writer that ends has reported, unless its progress is nobody's. *)
LEMMA EndInv ==
  ASSUME ModelFilesInv, NEW w \in Writer, BreakDownload(w) \/ Install(w) \/ FailInstall(w)
  PROVE  ModelFilesInv'
<1> USE DEF ModelFilesInv, ModelFilesTypeOK
<1>1. /\ mfWriter' = [mfWriter EXCEPT ![w].at = "ended"]
      /\ At(w) \in {"opening", "first", "second", "installing"}
      /\ UNCHANGED <<mfBytes, mfOwner, mfDelete, mfActivate, mfActive, mfEngine>>
      /\ mfTmp' \in {mfTmp, [mfTmp EXCEPT ![Of(w)] = NoModelFile]}
      /\ mfTarget' \in {mfTarget, [mfTarget EXCEPT ![Of(w)] = mfTmp[Of(w)]]}
  BY DEF BreakDownload, Install, FailInstall, FailDownload, End
<1>2. \/ \E status \in {"ready", "failed"} : Report(w, status)
      \/ IsUpload(w) /\ mfStatus' = mfStatus
  BY DEF BreakDownload, Install, FailInstall, FailDownload
<1>3. Of(w) \in Model BY DEF Of
<1>4. ModelFilesTypeOK'
  <2>1. mfTmp' \in [Model -> Writer \cup {NoModelFile}] BY <1>1
  <2>2. mfTarget' \in [Model -> Writer \cup {NoModelFile, Shipped}] BY <1>1, <1>3
  <2>3. mfWriter' \in [Writer -> WriterType]
    BY <1>1 DEF WriterType, WriterPlace
  <2>4. mfStatus' \in [Model -> {"none", "idle", "downloading", "ready", "failed"}]
    BY <1>2 DEF Report
  <2>5. QED BY <1>1, <2>1, <2>2, <2>3, <2>4 DEF WriterType, WriterPlace
<1>5. OwnersDownload' BY <1>1 DEF OwnersDownload, At, IsUpload
<1>6. \A v \in Writer \ {w} : UNCHANGED mfWriter[v] BY <1>1
<1>7. ASSUME NEW m \in Model, mfStatus'[m] = "downloading"
      PROVE  \E v \in mfOwner' :
               Of(v)' = m /\ At(v)' \in {"opening", "first", "second", "installing"}
  <2>1. mfStatus[m] = "downloading" BY <1>2, <1>7 DEF Report
  <2>2. PICK v \in mfOwner :
               Of(v) = m /\ At(v) \in {"opening", "first", "second", "installing"}
    BY <2>1 DEF DownloadingIsReal
  <2>3. v # w
    <3>1. SUFFICES ASSUME v = w PROVE FALSE OBVIOUS
    <3>2. w \in mfOwner /\ ~IsUpload(w) BY <2>2, <3>1 DEF OwnersDownload
    <3>3. mfStatus'[m] \in {"ready", "failed"} BY <1>2, <2>2, <3>1, <3>2 DEF Report
    <3>4. QED BY <1>7, <3>3
  <2>4. QED BY <1>1, <1>6, <2>2, <2>3 DEF At, Of
<1>8. DownloadingIsReal' BY <1>7 DEF DownloadingIsReal
<1>9. QED BY <1>4, <1>5, <1>8

(* A delete forgets the progress together with its owners. *)
LEMMA DeleteInv ==
  ASSUME ModelFilesInv, NEW d \in Deleter, Unlink(d) \/ \E m \in Model : CheckDelete(d, m)
  PROVE  ModelFilesInv'
<1> USE DEF ModelFilesInv, ModelFilesTypeOK, Unlink, CheckDelete
<1>1. ModelFilesTypeOK' OBVIOUS
<1>2. OwnersDownload' BY DEF OwnersDownload, At, IsUpload
<1>3. DownloadingIsReal' BY DEF DownloadingIsReal, At, Of
<1>4. QED BY <1>1, <1>2, <1>3

(* Activations and the progress route touch no download. *)
LEMMA ActivateInv ==
  ASSUME ModelFilesInv,
         \/ \E m \in Model : GetProgress(m)
         \/ \E a \in Activator : \/ LoadEngine(a) \/ HotSwap(a)
                                 \/ \E m \in Model : CheckActivate(a, m)
  PROVE  ModelFilesInv'
<1> USE DEF ModelFilesInv, ModelFilesTypeOK
<1>1. ModelFilesTypeOK'
  <2>1. ASSUME NEW m \in Model, GetProgress(m) PROVE ModelFilesTypeOK'
    BY <2>1 DEF GetProgress, Created
  <2>2. ASSUME NEW a \in Activator, LoadEngine(a) PROVE ModelFilesTypeOK'
    BY <2>2 DEF LoadEngine
  <2>3. ASSUME NEW a \in Activator, HotSwap(a) PROVE ModelFilesTypeOK'
    BY <2>3, ModelFilesAssumption DEF HotSwap
  <2>4. ASSUME NEW a \in Activator, NEW m \in Model, CheckActivate(a, m)
        PROVE  ModelFilesTypeOK'
    BY <2>4 DEF CheckActivate
  <2>5. QED BY <2>1, <2>2, <2>3, <2>4
<1>2. /\ UNCHANGED <<mfWriter, mfOwner>>
      /\ \A n \in Model : mfStatus'[n] = "downloading" => mfStatus[n] = "downloading"
  BY DEF GetProgress, Created, LoadEngine, HotSwap, CheckActivate
<1>3. OwnersDownload' BY <1>2 DEF OwnersDownload, At, IsUpload
<1>4. DownloadingIsReal' BY <1>2 DEF DownloadingIsReal, At, Of
<1>5. QED BY <1>1, <1>3, <1>4

(* ModelFilesInv holds in every reachable state: only downloads own a       *)
(* progress, and one that says downloading has its owner.                   *)
THEOREM ModelFilesInvariant == ModelFilesSpec => []ModelFilesInv
<1>1. ASSUME ModelFilesInv, [ModelFilesNext]_modelVars PROVE ModelFilesInv'
  <2>1. ASSUME NEW w \in Writer, WriterStep(w) PROVE ModelFilesInv'
    BY <1>1, <2>1, RequestInv, BeginDownloadInv, WriteInv, EndInv DEF WriterStep
  <2>2. CASE UNCHANGED modelVars
    BY <1>1, <2>2 DEF modelVars, ModelFilesInv, ModelFilesTypeOK, OwnersDownload,
                      DownloadingIsReal, At, Of, IsUpload
  <2>3. QED BY <1>1, <2>1, <2>2, DeleteInv, ActivateInv DEF ModelFilesNext
<1>2. QED BY <1>1, ModelFilesInitInv, PTL DEF ModelFilesSpec

(* The weight files and the requests about them keep to their types. *)
THEOREM ModelFilesTypeCorrect == ModelFilesSpec => []ModelFilesTypeOK
<1>1. ModelFilesInv => ModelFilesTypeOK BY DEF ModelFilesInv
<1>2. QED BY <1>1, ModelFilesInvariant, PTL

(* A download that the progress route shows is really under way. *)
THEOREM ModelFilesDownloadsAreReal == ModelFilesSpec => []DownloadingIsReal
<1>1. ModelFilesInv => DownloadingIsReal BY DEF ModelFilesInv
<1>2. QED BY <1>1, ModelFilesInvariant, PTL

(***************************************************************************)
(* Sightings.  The index leads to listed sightings of its own plate.  The  *)
(* sighting that leaves takes the index entry of its plate with it, so     *)
(* that no other entry can lead to it; a new one is numbered after all.    *)
(***************************************************************************)
SightingsInv ==
  /\ SightingsTypeOK /\ IndexedAreListed
  /\ \A s \in ToSet(siList) : s <= siCalls
  /\ \A s \in Sighting : siCount[s] <= siCalls

(* The bounds are numbers, and no record's number is the missing one. *)
LEMMA SightingNumbers ==
  /\ {MaxRecords, MaxTime, MaxSightings, Window, Skew} \subseteq Nat /\ MaxSightings >= 1
  /\ NoSighting \notin Sighting /\ Plate # {}
BY SightingsAssumption DEF Sighting

(* The invariant holds at the start. *)
LEMMA SightingsInitInv == SightingsInit => SightingsInv
<1> SUFFICES ASSUME SightingsInit PROVE SightingsInv OBVIOUS
<1>1. SightingsTypeOK
  <2>1. (CHOOSE p \in Plate : TRUE) \in Plate BY SightingNumbers
  <2>2. QED BY <2>1, SightingNumbers DEF SightingsInit, SightingsTypeOK
<1>2. ToSet(siList) = {} /\ Len(siList) = 0 BY DEF SightingsInit, ToSet
<1>3. \A p \in Plate : siIndex[p] = NoSighting BY DEF SightingsInit
<1>4. IndexedAreListed BY <1>2, <1>3, SightingNumbers DEF IndexedAreListed
<1>5. \A s \in Sighting : siCount[s] <= siCalls BY DEF SightingsInit
<1>6. QED BY <1>1, <1>2, <1>4, <1>5 DEF SightingsInv

(* A vehicle that is read again within the window counts once more. *)
LEMMA CountAgainKeeps ==
  ASSUME SightingsInv, NEW p \in Plate, NEW at \in 0..MaxTime, UNCHANGED siNow,
         siCalls < MaxRecords, siCalls' = siCalls + 1, Recent(p, at), CountAgain(siIndex[p], at)
  PROVE  SightingsInv'
<1> DEFINE s == siIndex[p]
<1>1. s \in Sighting BY SightingNumbers DEF SightingsInv, SightingsTypeOK, Recent
<1>2. siCalls \in 0..MaxRecords /\ siCalls' \in 0..MaxRecords /\ MaxRecords \in Nat
  BY SightingNumbers DEF SightingsInv, SightingsTypeOK
<1> HIDE DEF s
<1>3. /\ siStamp' = [siStamp EXCEPT ![s] = at]
      /\ siCount' = [siCount EXCEPT ![s] = siCount[s] + 1]
      /\ UNCHANGED <<siList, siPlate, siIndex>>
  BY DEF CountAgain, s
<1>4. siCount \in [Sighting -> 0..MaxRecords] /\ \A r \in Sighting : siCount[r] <= siCalls
  BY DEF SightingsInv, SightingsTypeOK
<1>5. siCount[s] + 1 \in 0..MaxRecords /\ siCount[s] + 1 <= siCalls'
  <2>1. siCount[s] \in 0..MaxRecords /\ siCount[s] <= siCalls BY <1>1, <1>4
  <2>2. QED BY <1>2, <2>1
<1>6. SightingsTypeOK'
  BY <1>1, <1>2, <1>3, <1>5 DEF SightingsInv, SightingsTypeOK
<1>7. \A r \in Sighting : siCount'[r] <= siCalls'
  <2>1. SUFFICES ASSUME NEW r \in Sighting PROVE siCount'[r] <= siCalls' OBVIOUS
  <2>2. siCount[r] \in 0..MaxRecords /\ siCount[r] <= siCalls BY <1>4
  <2>3. QED BY <1>1, <1>2, <1>3, <1>4, <1>5, <2>2
<1>8. \A r \in ToSet(siList') : r <= siCalls'
  <2>1. \A r \in ToSet(siList) : r <= siCalls /\ r \in Nat
    BY SightingNumbers, SetOfSeq DEF SightingsInv, SightingsTypeOK, Sighting
  <2>2. QED BY <1>2, <1>3, <2>1
<1>9. IndexedAreListed' BY <1>3 DEF SightingsInv, IndexedAreListed, Query
<1>10. QED BY <1>6, <1>7, <1>8, <1>9 DEF SightingsInv

(* A vehicle that was not read lately gets a record, and the oldest record  *)
(* goes when there are too many.                                            *)
LEMMA AppendKeeps ==
  ASSUME SightingsInv, NEW p \in Plate, NEW at \in 0..MaxTime, UNCHANGED siNow,
         siCalls < MaxRecords, siCalls' = siCalls + 1, Append1(siCalls', p, at)
  PROVE  SightingsInv'
<1> DEFINE s == siCalls'
           full == Len(siList) + 1 > MaxSightings
           list == Append(siList, s)
           old == Head(list)
           index == [siIndex EXCEPT ![p] = s]
<1>1. /\ siCalls \in 0..MaxRecords /\ siCalls \in Nat /\ s = siCalls + 1
      /\ s \in Sighting /\ s \in 0..MaxRecords /\ MaxRecords \in Nat
  BY SightingNumbers DEF SightingsInv, SightingsTypeOK, Sighting
<1>2. /\ siList \in Seq(Sighting) /\ siPlate \in [Sighting -> Plate]
      /\ siIndex \in [Plate -> Sighting \cup {NoSighting}]
      /\ siCount \in [Sighting -> 0..MaxRecords] /\ siStamp \in [Sighting -> 0..MaxTime]
  BY DEF SightingsInv, SightingsTypeOK
<1>3. /\ siPlate' = [siPlate EXCEPT ![s] = p] /\ siStamp' = [siStamp EXCEPT ![s] = at]
      /\ siCount' = [siCount EXCEPT ![s] = 1]
      /\ siList' = IF full THEN Tail(list) ELSE list
      /\ siIndex' = IF full THEN [index EXCEPT ![siPlate[old]] = NoSighting] ELSE index
  BY DEF Append1, Unindexed
<1>4. /\ Len(siList) \in Nat /\ Len(siList) <= MaxSightings /\ MaxSightings \in Nat \ {0}
      /\ \A r \in ToSet(siList) : r <= siCalls /\ r \in Sighting
      /\ \A q \in Plate : siIndex[q] # NoSighting =>
           siIndex[q] \in ToSet(siList) /\ siPlate[siIndex[q]] = q
  <2>1. ToSet(siList) \subseteq Sighting BY <1>2, SetOfSeq
  <2>2. QED BY <1>2, <2>1, SightingNumbers DEF SightingsInv, IndexedAreListed, Query
<1>5. s \notin ToSet(siList) /\ \A r \in ToSet(siList) : r # s
  <2>1. ~(siCalls + 1 <= siCalls) BY <1>1
  <2>2. QED BY <1>1, <1>4, <2>1
<1>6. /\ list \in Seq(Sighting) /\ ToSet(list) = ToSet(siList) \cup {s}
      /\ Len(list) = Len(siList) + 1 /\ list # <<>>
  BY <1>1, <1>2, AppendSet
<1>7. full => old \in ToSet(siList)
  <2>1. SUFFICES ASSUME full PROVE old \in ToSet(siList) OBVIOUS
  <2>2. Len(siList) >= 1 BY <1>4, <2>1
  <2>3. siList # <<>> /\ Head(list) = Head(siList) BY <1>2, <2>2
  <2>4. QED BY <1>2, <2>3, TailSet
<1>8. /\ old \in Sighting /\ Tail(list) \in Seq(Sighting) /\ Len(Tail(list)) = Len(list) - 1
      /\ ToSet(list) = {old} \cup ToSet(Tail(list))
  BY <1>6, TailSet
<1>9. index \in [Plate -> Sighting \cup {NoSighting}] BY <1>1, <1>2
<1>10. index[p] = s /\ \A q \in Plate : q # p => index[q] = siIndex[q] BY <1>2
<1> HIDE DEF s, index, list, old
<1>11. siList' \in Seq(Sighting) /\ Len(siList') <= MaxSightings
  <2>1. CASE full BY <1>3, <1>4, <1>6, <1>8, <2>1
  <2>2. CASE ~full BY <1>3, <1>4, <1>6, <2>2
  <2>3. QED BY <2>1, <2>2
<1>12. ToSet(siList') \subseteq ToSet(siList) \cup {s} BY <1>3, <1>6, <1>8
<1>13. siIndex' \in [Plate -> Sighting \cup {NoSighting}] BY <1>3, <1>9
<1>14. 1 \in 0..MaxRecords /\ 1 <= s BY <1>1
<1>15. SightingsTypeOK'
  BY <1>1, <1>2, <1>3, <1>11, <1>13, <1>14 DEF SightingsInv, SightingsTypeOK, s
<1>16. \A r \in ToSet(siList') : r <= siCalls'
  <2>1. SUFFICES ASSUME NEW r \in ToSet(siList') PROVE r <= s BY DEF s
  <2>2. CASE r = s BY <1>1, <2>2
  <2>3. CASE r # s
    <3>1. r <= siCalls /\ r \in Nat BY <1>4, <1>12, <2>3 DEF Sighting
    <3>2. QED BY <1>1, <3>1
  <2>4. QED BY <2>2, <2>3
<1>17. \A r \in Sighting : siCount'[r] <= siCalls'
  <2>1. SUFFICES ASSUME NEW r \in Sighting PROVE siCount'[r] <= s BY DEF s
  <2>2. CASE r = s BY <1>1, <1>2, <1>3, <1>14, <2>2
  <2>3. CASE r # s
    <3>1. siCount'[r] = siCount[r] /\ siCount[r] \in 0..MaxRecords BY <1>2, <1>3, <2>3
    <3>2. siCount[r] <= siCalls BY DEF SightingsInv
    <3>3. QED BY <1>1, <3>1, <3>2
  <2>4. QED BY <2>2, <2>3
<1>18. ASSUME NEW q \in Plate, siIndex'[q] # NoSighting
       PROVE  siIndex'[q] \in ToSet(siList') /\ siPlate'[siIndex'[q]] = q
  <2>1. siIndex'[q] = index[q] /\ (full => q # siPlate[old])
    BY <1>2, <1>3, <1>7, <1>8, <1>9, <1>18
  <2>2. CASE q = p
    <3>1. siIndex'[q] = s BY <1>10, <2>1, <2>2
    <3>2. siPlate'[s] = q BY <1>1, <1>2, <1>3, <2>2
    <3>3. full => s # old BY <1>5, <1>7
    <3>4. s \in ToSet(siList') BY <1>3, <1>6, <1>8, <3>3
    <3>5. QED BY <3>1, <3>2, <3>4
  <2>3. CASE q # p
    <3>1. siIndex'[q] = siIndex[q] BY <1>10, <2>1, <2>3
    <3>2. siIndex[q] \in ToSet(siList) /\ siPlate[siIndex[q]] = q BY <1>4, <1>18, <3>1
    <3>3. siPlate'[siIndex[q]] = q BY <1>2, <1>3, <1>4, <1>5, <3>2
    <3>4. full => siIndex[q] # old BY <2>1, <3>2
    <3>5. siIndex[q] \in ToSet(siList') BY <1>3, <1>6, <1>8, <3>2, <3>4
    <3>6. QED BY <3>1, <3>3, <3>5
  <2>4. QED BY <2>2, <2>3
<1>19. IndexedAreListed' BY <1>11, <1>18 DEF IndexedAreListed, Query
<1>20. QED BY <1>15, <1>16, <1>17, <1>19 DEF SightingsInv

(* Every step, and every stutter, preserves the invariant. *)
LEMMA SightingsStep == SightingsInv /\ [SightingsNext]_sightingsVars => SightingsInv'
<1> SUFFICES ASSUME SightingsInv, [SightingsNext]_sightingsVars PROVE SightingsInv' OBVIOUS
<1>1. CASE Tick
  <2>1. UNCHANGED <<siCalls, siList, siPlate, siStamp, siCount, siIndex>> BY <1>1 DEF Tick
  <2>2. siNow' \in 0..MaxTime
    BY <1>1, SightingNumbers DEF Tick, SightingsInv, SightingsTypeOK
  <2>3. QED BY <2>1, <2>2 DEF SightingsInv, SightingsTypeOK, IndexedAreListed, Query
<1>2. ASSUME NEW p \in Plate, NEW at \in 0..MaxTime, RecordSighting(p, at) PROVE SightingsInv'
  <2>1. siCalls < MaxRecords /\ siCalls' = siCalls + 1 /\ UNCHANGED siNow
    BY <1>2 DEF RecordSighting
  <2>2. CASE Recent(p, at) BY <1>2, <2>1, <2>2, CountAgainKeeps DEF RecordSighting
  <2>3. CASE ~Recent(p, at) BY <1>2, <2>1, <2>3, AppendKeeps DEF RecordSighting
  <2>4. QED BY <2>2, <2>3
<1>3. CASE UNCHANGED sightingsVars
  BY <1>3 DEF sightingsVars, SightingsInv, SightingsTypeOK, IndexedAreListed, Query
<1>4. QED BY <1>1, <1>2, <1>3 DEF SightingsNext

(* The store of sightings keeps its invariant: its list holds the numbers   *)
(* of earlier calls, none counted more often than there were calls.         *)
THEOREM SightingsInvariant == SightingsSpec => []SightingsInv
<1>1. QED BY SightingsInitInv, SightingsStep, PTL DEF SightingsSpec

(* The state of SightingsStore (core/anpr.py) has its type.                 *)
THEOREM SightingsTypeCorrect == SightingsSpec => []SightingsTypeOK
<1>1. SightingsInv => SightingsTypeOK BY DEF SightingsInv
<1>2. QED BY <1>1, SightingsInvariant, PTL

(* A read is counted with a sighting that queries still find, for any       *)
(* plates, window and capacity (core/anpr.py, record_sighting).             *)
THEOREM SightingsIndexedAreListed == SightingsSpec => []IndexedAreListed
<1>1. SightingsInv => IndexedAreListed BY DEF SightingsInv
<1>2. QED BY <1>1, SightingsInvariant, PTL
-----------------------------------------------------------------------------
(***************************************************************************)
(* Evidence.  A save that waits for the worker has a place in the deque,   *)
(* or a call that has not given it one, or a call that took it away and is *)
(* about to cancel it; each call answers for one save.  The deque holds no *)
(* future twice, so that one which was popped is not in it any more, and   *)
(* whoever finishes or cancels a future takes it out, unless the future's  *)
(* call is still to register that.                                         *)
(***************************************************************************)
Distinct(q) == \A i, j \in 1..Len(q) : q[i] = q[j] => i = j

(* The save that a call answers for. *)
AnswersFor(s) == IF evCall[s] = "cancelling" THEN evVictim[s] ELSE s

(* The worker, and the calls. *)
OneJob ==
  /\ \A s, r \in EvidenceSave : evJob[s] = "running" /\ evJob[r] = "running" => s = r
  /\ (\E s \in EvidenceSave : evJob[s] = "running") => evCallback = NoSave
  /\ evCallback # NoSave => evJob[evCallback] = "done"

CallsInOrder ==
  /\ \A s \in EvidenceSave : evCall[s] = "new" => evJob[s] = "none"
  /\ \A s \in Pending : evCall[s] \notin {"new", "submitted"}
  /\ \A s \in EvidenceSave : evCall[s] = "cancelling" =>
       evVictim[s] \in EvidenceSave \ Pending /\ evCall[evVictim[s]] \notin {"new", "submitted"}

Accounted ==
  \A s \in EvidenceSave : evJob[s] = "queued" =>
    s \in Pending \/ \E r \in EvidenceSave : evCall[r] \in {"submitted", "cancelling"}
                                             /\ AnswersFor(r) = s

NoneLeaked == \A s \in Pending : Finished(s) => Calling(s) \/ evCallback = s

EvidenceInv ==
  /\ EvidenceTypeOK /\ Distinct(evPending) /\ Len(evPending) <= MaxPending
  /\ OneJob /\ CallsInOrder /\ Accounted /\ NoneLeaked

(* What is queued is pending or answered for. *)
LEMMA QueuedAreFew ==
  ASSUME EvidenceTypeOK, Len(evPending) <= MaxPending, Accounted
  PROVE  Cardinality({s \in EvidenceSave : evJob[s] = "queued"})
           <= MaxPending + Cardinality({s \in EvidenceSave : Calling(s)})
<1> DEFINE queued == {s \in EvidenceSave : evJob[s] = "queued"}
           calling == {s \in EvidenceSave : Calling(s)}
           answered == {AnswersFor(s) : s \in calling}
           answer == [s \in calling |-> AnswersFor(s)]
<1>1. IsFiniteSet(EvidenceSave) /\ MaxPending \in Nat BY EvidenceAssumption
<1>2. IsFiniteSet(calling) /\ IsFiniteSet(queued) BY <1>1, FS_Subset
<1>3. IsFiniteSet(Pending) /\ Cardinality(Pending) \in 0..Len(evPending) /\ Len(evPending) \in Nat
  BY SetOfSeq DEF EvidenceTypeOK, Pending
<1>4. IsFiniteSet(answered) /\ Cardinality(answered) <= Cardinality(calling)
  <2>1. answer \in Surjection(calling, answered) BY DEF Surjection
  <2> HIDE DEF answer, answered, calling
  <2>2. QED BY <1>2, <2>1, FS_Surjection
<1>5. queued \subseteq Pending \cup answered
  <2>1. SUFFICES ASSUME NEW s \in queued, s \notin Pending PROVE s \in answered OBVIOUS
  <2>2. PICK r \in EvidenceSave : evCall[r] \in {"submitted", "cancelling"} /\ AnswersFor(r) = s
    BY <2>1 DEF Accounted
  <2>3. r \in calling BY <2>2 DEF Calling
  <2>4. QED BY <2>2, <2>3
<1> HIDE DEF queued, answered, calling, answer
<1>6. IsFiniteSet(Pending \cup answered)
      /\ Cardinality(Pending \cup answered) =
           Cardinality(Pending) + Cardinality(answered) - Cardinality(Pending \cap answered)
  BY <1>3, <1>4, FS_Union
<1>7. Cardinality(queued) <= Cardinality(Pending \cup answered) BY <1>5, <1>6, FS_Subset
<1>8. /\ Cardinality(queued) \in Nat /\ Cardinality(answered) \in Nat
      /\ Cardinality(calling) \in Nat /\ Cardinality(Pending \cap answered) \in Nat
      /\ Cardinality(Pending \cup answered) \in Nat
  <2>1. IsFiniteSet(Pending \cap answered) BY <1>3, FS_Subset
  <2>2. QED BY <1>2, <1>4, <1>6, <2>1, FS_CardinalityType
<1>9. Cardinality(queued) <= MaxPending + Cardinality(calling)
  BY <1>1, <1>3, <1>4, <1>6, <1>7, <1>8
<1>10. QED BY <1>9 DEF queued, calling

(* Without its head a sequence of distinct saves has none of it. *)
LEMMA DistinctTail ==
  ASSUME NEW q \in Seq(EvidenceSave), q # <<>>, Distinct(q)
  PROVE  Distinct(Tail(q)) /\ Head(q) \notin ToSet(Tail(q))
<1>1. /\ Len(Tail(q)) = Len(q) - 1 /\ \A k \in 1..Len(Tail(q)) : Tail(q)[k] = q[k + 1]
      /\ DOMAIN Tail(q) = 1..Len(Tail(q)) /\ Head(q) = q[1] /\ Len(q) \in Nat \ {0}
  OBVIOUS
<1>2. \A k \in 1..Len(Tail(q)) : k + 1 \in 1..Len(q) /\ k + 1 # 1 BY <1>1
<1>3. Distinct(Tail(q))
  <2>1. SUFFICES ASSUME NEW i \in 1..Len(Tail(q)), NEW j \in 1..Len(Tail(q)),
                        Tail(q)[i] = Tail(q)[j]
                 PROVE  i = j
    BY DEF Distinct
  <2>2. q[i + 1] = q[j + 1] BY <1>1, <2>1
  <2>3. i + 1 = j + 1 BY <1>2, <2>2 DEF Distinct
  <2>4. QED BY <2>3
<1>4. \A k \in 1..Len(Tail(q)) : Tail(q)[k] # Head(q)
  <2>1. 1 \in 1..Len(q) BY <1>1
  <2>2. QED BY <1>1, <1>2, <2>1 DEF Distinct
<1>5. QED BY <1>1, <1>3, <1>4 DEF ToSet

(* A save that was not in the sequence leaves it distinct. *)
LEMMA DistinctAppend ==
  ASSUME NEW q \in Seq(EvidenceSave), Distinct(q), NEW s \in EvidenceSave, s \notin ToSet(q)
  PROVE  Distinct(Append(q, s))
<1> DEFINE more == Append(q, s)
<1>1. /\ Len(q) \in Nat /\ Len(more) = Len(q) + 1 /\ more[Len(q) + 1] = s
      /\ \A k \in 1..Len(q) : more[k] = q[k]
  OBVIOUS
<1>2. \A k \in 1..Len(q) : q[k] # s BY DEF ToSet
<1> HIDE DEF more
<1>3. SUFFICES ASSUME NEW i \in 1..Len(q) + 1, NEW j \in 1..Len(q) + 1, more[i] = more[j]
               PROVE  i = j
  BY <1>1 DEF Distinct, more
<1>4. CASE i = Len(q) + 1 /\ j # Len(q) + 1 BY <1>1, <1>2, <1>3, <1>4
<1>5. CASE i # Len(q) + 1 /\ j = Len(q) + 1 BY <1>1, <1>2, <1>3, <1>5
<1>6. CASE i # Len(q) + 1 /\ j # Len(q) + 1
  <2>1. i \in 1..Len(q) /\ j \in 1..Len(q) BY <1>1, <1>6
  <2>2. q[i] = q[j] BY <1>1, <1>3, <2>1
  <2>3. QED BY <2>1, <2>2 DEF Distinct
<1>7. QED BY <1>4, <1>5, <1>6

(* What is picked of a sequence of distinct saves is one. *)
LEMMA DistinctPicked ==
  ASSUME NEW q \in Seq(EvidenceSave), Distinct(q), NEW D \in SUBSET (1..Len(q))
  PROVE  /\ Picked(q, D) \in Seq(EvidenceSave) /\ Distinct(Picked(q, D))
         /\ Len(Picked(q, D)) <= Len(q) /\ ToSet(Picked(q, D)) = {q[i] : i \in D}
<1> DEFINE few == Picked(q, D)
<1>1. /\ few \in Seq(EvidenceSave) /\ Len(few) <= Len(q) /\ ToSet(few) = {q[i] : i \in D}
      /\ \A k \in 1..Len(few) : Nth(D, k) \in D /\ few[k] = q[Nth(D, k)]
      /\ \A k, l \in 1..Len(few) : Nth(D, k) = Nth(D, l) => k = l
  BY PickedIs
<1> HIDE DEF few
<1>2. Distinct(few)
  <2>1. SUFFICES ASSUME NEW k \in 1..Len(few), NEW l \in 1..Len(few), few[k] = few[l]
                 PROVE  k = l
    BY DEF Distinct
  <2>2. q[Nth(D, k)] = q[Nth(D, l)] /\ Nth(D, k) \in 1..Len(q) /\ Nth(D, l) \in 1..Len(q)
    BY <1>1, <2>1
  <2>3. Nth(D, k) = Nth(D, l) BY <2>2 DEF Distinct
  <2>4. QED BY <1>1, <2>3
<1>3. QED BY <1>1, <1>2 DEF few

(* remove(future). *)
LEMMA ForgetIs ==
  ASSUME EvidenceInv, NEW s
  PROVE  /\ Forget(s) \in Seq(EvidenceSave) /\ Distinct(Forget(s))
         /\ Len(Forget(s)) <= MaxPending /\ ToSet(Forget(s)) = Pending \ {s}
<1> DEFINE D == {i \in DOMAIN evPending : evPending[i] # s}
<1>1. /\ evPending \in Seq(EvidenceSave) /\ DOMAIN evPending = 1..Len(evPending)
      /\ Len(evPending) \in Nat /\ Len(evPending) <= MaxPending /\ Distinct(evPending)
  BY DEF EvidenceInv, EvidenceTypeOK
<1>2. Forget(s) = Picked(evPending, D) BY DEF Forget, Where
<1>3. D \in SUBSET (1..Len(evPending)) BY <1>1
<1>4. {evPending[i] : i \in D} = Pending \ {s} BY DEF Pending, ToSet
<1> HIDE DEF D
<1>5. /\ Picked(evPending, D) \in Seq(EvidenceSave) /\ Distinct(Picked(evPending, D))
      /\ Len(Picked(evPending, D)) <= Len(evPending)
      /\ ToSet(Picked(evPending, D)) = {evPending[i] : i \in D}
  BY <1>1, <1>3, DistinctPicked
<1>6. MaxPending \in Nat /\ Len(Picked(evPending, D)) \in Nat BY <1>5, EvidenceAssumption
<1>7. QED BY <1>1, <1>2, <1>4, <1>5, <1>6

(* The invariant holds at the start. *)
LEMMA EvidenceInitInv == EvidenceInit => EvidenceInv
<1> SUFFICES ASSUME EvidenceInit PROVE EvidenceInv OBVIOUS
<1>1. MaxPending \in Nat /\ EvictEvery \in Nat \ {0} /\ NoSave \notin EvidenceSave
  BY EvidenceAssumption
<1>2. EvidenceTypeOK
  <2>1. 0 \in 0..EvictEvery - 1 /\ <<>> \in Seq(EvidenceSave) BY <1>1
  <2>2. QED BY <2>1 DEF EvidenceInit, EvidenceTypeOK
<1>3. Pending = {} /\ Len(evPending) = 0 BY DEF EvidenceInit, Pending, ToSet
<1>4. Distinct(evPending) BY <1>3 DEF Distinct
<1>5. /\ \A s \in EvidenceSave : evJob[s] = "none" /\ evCall[s] = "new"
      /\ evCallback = NoSave
  BY DEF EvidenceInit
<1>6. OneJob BY <1>5 DEF OneJob
<1>7. CallsInOrder BY <1>3, <1>5 DEF CallsInOrder
<1>8. Accounted BY <1>5 DEF Accounted
<1>9. NoneLeaked BY <1>3 DEF NoneLeaked
<1>10. QED BY <1>1, <1>2, <1>3, <1>4, <1>6, <1>7, <1>8, <1>9 DEF EvidenceInv

(* What a write leaves in the directory are files. *)
LEMMA WrittenIs ==
  ASSUME EvidenceTypeOK, NEW s \in EvidenceSave
  PROVE  \A files \in Written(s) : files \in Seq(EvidenceSave)
<1>1. evFiles \in Seq(EvidenceSave) BY DEF EvidenceTypeOK
<1>2. Append(evFiles, s) \in Seq(EvidenceSave) BY <1>1
<1>3. QED BY <1>1, <1>2, Zenon DEF Written

(* A save enters the queue. *)
LEMMA SubmitKeeps ==
  ASSUME EvidenceInv, NEW s \in EvidenceSave, Submit(s)
  PROVE  EvidenceInv'
<1>1. /\ UNCHANGED <<evVictim, evPending, evCallback, evSaves, evShut>>
      /\ evCall[s] = "new" /\ evJob[s] = "none" /\ Pending' = Pending
  BY DEF Submit, EvidenceInv, CallsInOrder, Pending
<1>2. s \notin Pending /\ \A r \in EvidenceSave : evCall[r] = "cancelling" => evVictim[r] # s
  BY <1>1 DEF EvidenceInv, CallsInOrder
<1>3. EvidenceTypeOK'
  <2>1. EvidenceTypeOK BY DEF EvidenceInv
  <2>2. CASE evShut
    <3>1. evFiles' \in Seq(EvidenceSave) BY <2>1, <2>2, WrittenIs DEF Submit
    <3>2. QED BY <1>1, <2>1, <2>2, <3>1 DEF Submit, EvidenceTypeOK
  <2>3. CASE ~evShut
    <3>1. evQueue \in Seq(EvidenceSave) BY <2>1 DEF EvidenceTypeOK
    <3>2. evQueue' = Append(evQueue, s) BY <2>3 DEF Submit
    <3>3. evQueue' \in Seq(EvidenceSave) BY <3>1, <3>2
    <3>4. QED BY <1>1, <2>1, <2>3, <3>3 DEF Submit, EvidenceTypeOK
  <2>4. QED BY <2>2, <2>3
<1>4. /\ evCall'[s] \in {"returned", "submitted"} /\ evJob'[s] \in {"none", "queued"}
      /\ evJob'[s] = "queued" => evCall'[s] = "submitted"
      /\ \A r \in EvidenceSave : r # s => evCall'[r] = evCall[r] /\ evJob'[r] = evJob[r]
  BY <1>1 DEF Submit, EvidenceInv, EvidenceTypeOK
<1>5. OneJob' BY <1>1, <1>3, <1>4 DEF EvidenceInv, OneJob, EvidenceTypeOK
<1>6. CallsInOrder'
  <2>1. \A r \in EvidenceSave : evCall'[r] = "new" => evJob'[r] = "none"
    BY <1>4 DEF EvidenceInv, CallsInOrder
  <2>2. Pending \subseteq EvidenceSave BY SetOfSeq DEF EvidenceInv, EvidenceTypeOK, Pending
  <2>3. \A r \in Pending' : evCall'[r] \notin {"new", "submitted"}
    BY <1>1, <1>2, <1>4, <2>2 DEF EvidenceInv, CallsInOrder
  <2>4. ASSUME NEW r \in EvidenceSave, evCall'[r] = "cancelling"
        PROVE  evVictim'[r] \in EvidenceSave \ Pending'
               /\ evCall'[evVictim'[r]] \notin {"new", "submitted"}
    <3>1. evCall[r] = "cancelling" BY <1>4, <2>4
    <3>2. evVictim[r] \in EvidenceSave \ Pending /\ evVictim[r] # s
          /\ evCall[evVictim[r]] \notin {"new", "submitted"}
      BY <1>2, <3>1 DEF EvidenceInv, CallsInOrder
    <3>3. QED BY <1>1, <1>4, <3>2
  <2>5. QED BY <2>1, <2>3, <2>4 DEF CallsInOrder
<1>7. Accounted'
  <2>1. ASSUME NEW r \in EvidenceSave, evJob'[r] = "queued", r \notin Pending
        PROVE  \E c \in EvidenceSave : evCall'[c] \in {"submitted", "cancelling"}
                                       /\ AnswersFor(c)' = r
    <3>1. CASE r = s BY <1>4, <2>1, <3>1 DEF AnswersFor
    <3>2. CASE r # s
      <4>1. PICK c \in EvidenceSave : evCall[c] \in {"submitted", "cancelling"}
                                      /\ AnswersFor(c) = r
        BY <1>4, <2>1, <3>2 DEF EvidenceInv, Accounted
      <4>2. c # s BY <1>1, <4>1
      <4>3. AnswersFor(c)' = AnswersFor(c) BY <1>1, <1>4, <4>2 DEF AnswersFor
      <4>4. QED BY <1>4, <4>1, <4>2, <4>3
    <3>3. QED BY <3>1, <3>2
  <2>2. QED BY <1>1, <2>1 DEF Accounted
<1>8. NoneLeaked'
  <2>1. \A r \in Pending : r \in EvidenceSave /\ r # s
    BY <1>2, SetOfSeq DEF EvidenceInv, EvidenceTypeOK, Pending
  <2>2. QED BY <1>1, <1>4, <2>1 DEF EvidenceInv, NoneLeaked, Finished, Calling
<1>9. QED BY <1>1, <1>3, <1>5, <1>6, <1>7, <1>8 DEF EvidenceInv

(* The future of a save is remembered. *)
LEMMA RememberKeeps ==
  ASSUME EvidenceInv, NEW s \in EvidenceSave, Remember(s)
  PROVE  EvidenceInv'
<1> DEFINE full == Len(evPending) >= MaxPending
           rest == IF full THEN Tail(evPending) ELSE evPending
           oldest == Head(evPending)
<1>1. /\ evVictim' = [evVictim EXCEPT ![s] = IF full THEN oldest ELSE NoSave]
      /\ evPending' = Append(rest, s)
      /\ evCall' = [evCall EXCEPT ![s] = IF full THEN "cancelling" ELSE "registering"]
      /\ UNCHANGED <<evJob, evQueue, evCallback, evFiles, evSaves, evShut>>
      /\ evCall[s] = "submitted"
  BY DEF Remember
<1>2. /\ evPending \in Seq(EvidenceSave) /\ Distinct(evPending) /\ Len(evPending) \in Nat
      /\ Len(evPending) <= MaxPending /\ MaxPending \in Nat \ {0}
      /\ Pending \subseteq EvidenceSave
  BY EvidenceAssumption, SetOfSeq DEF EvidenceInv, EvidenceTypeOK, Pending
<1>3. /\ rest \in Seq(EvidenceSave) /\ Distinct(rest) /\ Len(rest) + 1 <= MaxPending
      /\ Len(rest) \in Nat
      /\ full => /\ oldest \in Pending /\ oldest \notin ToSet(rest)
                 /\ Pending = {oldest} \cup ToSet(rest)
      /\ ~full => ToSet(rest) = Pending
  <2>1. CASE full
    <3>1. evPending # <<>> BY <1>2, <2>1
    <3>2. /\ Tail(evPending) \in Seq(EvidenceSave) /\ Len(Tail(evPending)) = Len(evPending) - 1
          /\ Distinct(Tail(evPending)) /\ oldest \notin ToSet(Tail(evPending))
          /\ oldest \in Pending /\ Pending = {oldest} \cup ToSet(Tail(evPending))
      BY <1>2, <3>1, DistinctTail, TailSet DEF Pending
    <3>3. rest = Tail(evPending) BY <2>1
    <3> HIDE DEF rest, oldest
    <3>4. Len(rest) \in Nat /\ Len(rest) + 1 <= MaxPending BY <1>2, <3>2, <3>3
    <3>5. QED BY <2>1, <3>2, <3>3, <3>4
  <2>2. CASE ~full BY <1>2, <2>2 DEF Pending
  <2>3. QED BY <2>1, <2>2
<1>4. s \notin Pending /\ \A r \in EvidenceSave : evCall[r] = "cancelling" => evVictim[r] # s
  BY <1>1 DEF EvidenceInv, CallsInOrder
<1> HIDE DEF rest, oldest, full
<1>5. ToSet(rest) \subseteq Pending /\ s \notin ToSet(rest) BY <1>3, <1>4
<1>6. /\ evPending' \in Seq(EvidenceSave) /\ Pending' = ToSet(rest) \cup {s}
      /\ Distinct(evPending') /\ Len(evPending') <= MaxPending
  <2>1. Len(evPending') = Len(rest) + 1 BY <1>1, <1>3
  <2>2. QED BY <1>1, <1>3, <1>5, <2>1, AppendSet, DistinctAppend DEF Pending
<1>7. /\ evCall'[s] = (IF full THEN "cancelling" ELSE "registering")
      /\ evVictim'[s] = (IF full THEN oldest ELSE NoSave)
      /\ \A r \in EvidenceSave : r # s => evCall'[r] = evCall[r] /\ evVictim'[r] = evVictim[r]
  BY <1>1 DEF EvidenceInv, EvidenceTypeOK
<1>8. oldest \in EvidenceSave \/ ~full BY <1>2, <1>3
<1>9. EvidenceTypeOK' BY <1>1, <1>6, <1>8 DEF EvidenceInv, EvidenceTypeOK
<1>10. OneJob' BY <1>1 DEF EvidenceInv, OneJob
<1>11. CallsInOrder'
  <2>1. \A r \in EvidenceSave : evCall'[r] = "new" => evJob'[r] = "none"
    BY <1>1, <1>7 DEF EvidenceInv, CallsInOrder
  <2>2. \A r \in EvidenceSave : evCall[r] \notin {"new", "submitted"}
                                => evCall'[r] \notin {"new", "submitted"}
    BY <1>7
  <2>3. \A r \in Pending' : evCall'[r] \notin {"new", "submitted"}
    BY <1>2, <1>5, <1>6, <1>7, <2>2 DEF EvidenceInv, CallsInOrder
  <2>4. ASSUME NEW r \in EvidenceSave, evCall'[r] = "cancelling"
        PROVE  evVictim'[r] \in EvidenceSave \ Pending'
               /\ evCall'[evVictim'[r]] \notin {"new", "submitted"}
    <3>1. CASE r = s
      <4>1. full /\ evVictim'[r] = oldest BY <1>7, <2>4, <3>1
      <4>2. oldest \in Pending /\ oldest \notin Pending' BY <1>3, <1>4, <1>6, <4>1
      <4>3. evCall[oldest] \notin {"new", "submitted"} /\ oldest \in EvidenceSave
        BY <1>2, <4>2 DEF EvidenceInv, CallsInOrder
      <4>4. QED BY <2>2, <4>1, <4>2, <4>3
    <3>2. CASE r # s
      <4>1. evCall[r] = "cancelling" /\ evVictim'[r] = evVictim[r] BY <1>7, <2>4, <3>2
      <4>2. evVictim[r] \in EvidenceSave \ Pending /\ evVictim[r] # s
            /\ evCall[evVictim[r]] \notin {"new", "submitted"}
        BY <1>4, <4>1 DEF EvidenceInv, CallsInOrder
      <4>3. QED BY <1>5, <1>6, <2>2, <4>1, <4>2
    <3>3. QED BY <3>1, <3>2
  <2>5. QED BY <2>1, <2>3, <2>4 DEF CallsInOrder
<1>12. Accounted'
  <2>1. ASSUME NEW r \in EvidenceSave, evJob'[r] = "queued", r \notin Pending'
        PROVE  \E c \in EvidenceSave : evCall'[c] \in {"submitted", "cancelling"}
                                       /\ AnswersFor(c)' = r
    <3>1. r # s BY <1>6, <2>1
    <3>2. CASE r \in Pending
      <4>1. full /\ r = oldest BY <1>3, <1>6, <2>1, <3>2
      <4>2. QED BY <1>7, <4>1 DEF AnswersFor
    <3>3. CASE r \notin Pending
      <4>1. PICK c \in EvidenceSave : evCall[c] \in {"submitted", "cancelling"}
                                      /\ AnswersFor(c) = r
        BY <1>1, <2>1, <3>3 DEF EvidenceInv, Accounted
      <4>2. c # s BY <1>1, <3>1, <4>1 DEF AnswersFor
      <4>3. AnswersFor(c)' = AnswersFor(c) BY <1>7, <4>2 DEF AnswersFor
      <4>4. QED BY <1>7, <4>1, <4>2, <4>3
    <3>4. QED BY <3>2, <3>3
  <2>2. QED BY <2>1 DEF Accounted
<1>13. NoneLeaked'
  <2>1. SUFFICES ASSUME NEW r \in Pending', Finished(r)' PROVE Calling(r)' \/ evCallback' = r
    BY DEF NoneLeaked
  <2>2. CASE r = s BY <1>7, <2>2 DEF Calling
  <2>3. CASE r # s
    <3>1. r \in Pending /\ r \in EvidenceSave BY <1>2, <1>5, <1>6, <2>3
    <3>2. Finished(r) BY <1>1, <2>1 DEF Finished
    <3>3. Calling(r) \/ evCallback = r BY <3>1, <3>2 DEF EvidenceInv, NoneLeaked
    <3>4. QED BY <1>1, <1>7, <2>3, <3>1, <3>3 DEF Calling
  <2>4. QED BY <2>2, <2>3
<1>14. QED BY <1>6, <1>9, <1>10, <1>11, <1>12, <1>13 DEF EvidenceInv

(* The oldest future is cancelled to make room. *)
LEMMA CancelKeeps ==
  ASSUME EvidenceInv, NEW s \in EvidenceSave, CancelVictim(s)
  PROVE  EvidenceInv'
<1> DEFINE v == evVictim[s]
<1>1. /\ evCall[s] = "cancelling" /\ Pending' = Pending
      /\ evJob' = IF evJob[v] = "queued" THEN [evJob EXCEPT ![v] = "cancelled"] ELSE evJob
      /\ evVictim' = [evVictim EXCEPT ![s] = NoSave]
      /\ evCall' = [evCall EXCEPT ![s] = "registering"]
      /\ UNCHANGED <<evQueue, evPending, evCallback, evFiles, evSaves, evShut>>
  BY DEF CancelVictim, Pending
<1>2. v \in EvidenceSave \ Pending /\ evCall[v] \notin {"new", "submitted"}
  BY <1>1 DEF EvidenceInv, CallsInOrder
<1> HIDE DEF v
<1>3. /\ evCall'[s] = "registering"
      /\ \A r \in EvidenceSave : r # s => evCall'[r] = evCall[r] /\ evVictim'[r] = evVictim[r]
  BY <1>1 DEF EvidenceInv, EvidenceTypeOK
<1>4. /\ evJob'[v] # "queued" /\ evJob'[v] \in {evJob[v], "cancelled"}
      /\ evJob[v] # "queued" => evJob'[v] = evJob[v]
      /\ \A r \in EvidenceSave : r # v => evJob'[r] = evJob[r]
  BY <1>1, <1>2 DEF EvidenceInv, EvidenceTypeOK
<1>5. EvidenceTypeOK' BY <1>1, <1>2 DEF EvidenceInv, EvidenceTypeOK
<1>6. OneJob'
  <2>1. \A r \in EvidenceSave : evJob'[r] = "running" => evJob[r] = "running" BY <1>4
  <2>2. \A r \in EvidenceSave : evJob[r] = "done" => evJob'[r] = "done" BY <1>4
  <2>3. evCallback \in EvidenceSave \cup {NoSave} BY DEF EvidenceInv, EvidenceTypeOK
  <2>4. QED BY <1>1, <2>1, <2>2, <2>3 DEF EvidenceInv, OneJob
<1>7. CallsInOrder'
  <2>1. \A r \in EvidenceSave : evCall'[r] = "new" => evJob'[r] = "none"
    BY <1>2, <1>3, <1>4 DEF EvidenceInv, CallsInOrder
  <2>2. \A r \in EvidenceSave : evCall[r] \notin {"new", "submitted"}
                                => evCall'[r] \notin {"new", "submitted"}
    BY <1>3
  <2>3. Pending \subseteq EvidenceSave BY SetOfSeq DEF EvidenceInv, EvidenceTypeOK, Pending
  <2>4. \A r \in Pending' : evCall'[r] \notin {"new", "submitted"}
    BY <1>1, <2>2, <2>3 DEF EvidenceInv, CallsInOrder
  <2>5. ASSUME NEW r \in EvidenceSave, evCall'[r] = "cancelling"
        PROVE  evVictim'[r] \in EvidenceSave \ Pending'
               /\ evCall'[evVictim'[r]] \notin {"new", "submitted"}
    <3>1. evCall[r] = "cancelling" /\ evVictim'[r] = evVictim[r] BY <1>3, <2>5
    <3>2. QED BY <1>1, <2>2, <3>1 DEF EvidenceInv, CallsInOrder
  <2>6. QED BY <2>1, <2>4, <2>5 DEF CallsInOrder
<1>8. Accounted'
  <2>1. ASSUME NEW r \in EvidenceSave, evJob'[r] = "queued", r \notin Pending'
        PROVE  \E c \in EvidenceSave : evCall'[c] \in {"submitted", "cancelling"}
                                       /\ AnswersFor(c)' = r
    <3>1. r # v /\ evJob[r] = "queued" BY <1>4, <2>1
    <3>2. PICK c \in EvidenceSave : evCall[c] \in {"submitted", "cancelling"}
                                    /\ AnswersFor(c) = r
      BY <1>1, <2>1, <3>1 DEF EvidenceInv, Accounted
    <3>3. c # s BY <1>1, <3>1, <3>2 DEF AnswersFor, v
    <3>4. AnswersFor(c)' = AnswersFor(c) BY <1>3, <3>3 DEF AnswersFor
    <3>5. QED BY <1>3, <3>2, <3>3, <3>4
  <2>2. QED BY <2>1 DEF Accounted
<1>9. NoneLeaked'
  <2>1. SUFFICES ASSUME NEW r \in Pending, Finished(r)' PROVE Calling(r)' \/ evCallback = r
    BY <1>1 DEF NoneLeaked
  <2>2. r \in EvidenceSave /\ r # v
    BY <1>2, SetOfSeq DEF EvidenceInv, EvidenceTypeOK, Pending
  <2>3. Finished(r) BY <1>4, <2>1, <2>2 DEF Finished
  <2>4. Calling(r) \/ evCallback = r BY <2>3 DEF EvidenceInv, NoneLeaked
  <2>5. QED BY <1>3, <2>2, <2>4 DEF Calling
<1>10. QED BY <1>1, <1>5, <1>6, <1>7, <1>8, <1>9 DEF EvidenceInv

(* The callback is attached to a future that may be done. *)
LEMMA RegisterKeeps ==
  ASSUME EvidenceInv, NEW s \in EvidenceSave, Register(s)
  PROVE  EvidenceInv'
<1>1. /\ evCall[s] = "registering" /\ evCall' = [evCall EXCEPT ![s] = "returned"]
      /\ evPending' = IF Finished(s) THEN Forget(s) ELSE evPending
      /\ UNCHANGED <<evVictim, evJob, evQueue, evCallback, evFiles, evSaves, evShut>>
  BY DEF Register
<1>2. /\ evPending' \in Seq(EvidenceSave) /\ Distinct(evPending') /\ Len(evPending') <= MaxPending
      /\ Pending' = IF Finished(s) THEN Pending \ {s} ELSE Pending
  BY <1>1, ForgetIs DEF EvidenceInv, EvidenceTypeOK, Pending
<1>3. /\ evCall'[s] = "returned"
      /\ \A r \in EvidenceSave : r # s => evCall'[r] = evCall[r]
      /\ Pending \subseteq EvidenceSave /\ Pending' \subseteq Pending
  BY <1>1, <1>2, SetOfSeq DEF EvidenceInv, EvidenceTypeOK, Pending
<1>4. EvidenceTypeOK' BY <1>1, <1>2 DEF EvidenceInv, EvidenceTypeOK
<1>5. OneJob' BY <1>1 DEF EvidenceInv, OneJob
<1>6. CallsInOrder'
  <2>1. \A r \in EvidenceSave : evCall'[r] = "new" => evJob'[r] = "none"
    BY <1>1, <1>3 DEF EvidenceInv, CallsInOrder
  <2>2. \A r \in EvidenceSave : evCall[r] \notin {"new", "submitted"}
                                => evCall'[r] \notin {"new", "submitted"}
    BY <1>3
  <2>3. \A r \in Pending' : evCall'[r] \notin {"new", "submitted"}
    BY <1>3, <2>2 DEF EvidenceInv, CallsInOrder
  <2>4. ASSUME NEW r \in EvidenceSave, evCall'[r] = "cancelling"
        PROVE  evVictim'[r] \in EvidenceSave \ Pending'
               /\ evCall'[evVictim'[r]] \notin {"new", "submitted"}
    <3>1. evCall[r] = "cancelling" /\ evVictim'[r] = evVictim[r] BY <1>1, <1>3, <2>4
    <3>2. QED BY <1>3, <2>2, <3>1 DEF EvidenceInv, CallsInOrder
  <2>5. QED BY <2>1, <2>3, <2>4 DEF CallsInOrder
<1>7. Accounted'
  <2>1. ASSUME NEW r \in EvidenceSave, evJob'[r] = "queued", r \notin Pending'
        PROVE  \E c \in EvidenceSave : evCall'[c] \in {"submitted", "cancelling"}
                                       /\ AnswersFor(c)' = r
    <3>1. r \notin Pending BY <1>1, <1>2, <2>1 DEF Finished
    <3>2. PICK c \in EvidenceSave : evCall[c] \in {"submitted", "cancelling"}
                                    /\ AnswersFor(c) = r
      BY <1>1, <2>1, <3>1 DEF EvidenceInv, Accounted
    <3>3. c # s BY <1>1, <3>2
    <3>4. AnswersFor(c)' = AnswersFor(c) BY <1>1, <1>3, <3>3 DEF AnswersFor
    <3>5. QED BY <1>3, <3>2, <3>3, <3>4
  <2>2. QED BY <2>1 DEF Accounted
<1>8. NoneLeaked'
  <2>1. SUFFICES ASSUME NEW r \in Pending', Finished(r)' PROVE Calling(r)' \/ evCallback' = r
    BY DEF NoneLeaked
  <2>2. r \in Pending /\ r \in EvidenceSave /\ Finished(r) BY <1>1, <1>3, <2>1 DEF Finished
  <2>3. r # s BY <1>2, <2>1, <2>2
  <2>4. Calling(r) \/ evCallback = r BY <2>2 DEF EvidenceInv, NoneLeaked
  <2>5. QED BY <1>1, <1>3, <2>2, <2>3, <2>4 DEF Calling
<1>9. QED BY <1>2, <1>4, <1>5, <1>6, <1>7, <1>8 DEF EvidenceInv

(* The executor takes the first job. *)
LEMMA TakeKeeps == ASSUME EvidenceInv, TakeJob PROVE EvidenceInv'
<1> DEFINE s == Head(evQueue)
<1>1. /\ Idle /\ evQueue # <<>> /\ evQueue' = Tail(evQueue) /\ Pending' = Pending
      /\ evJob' = IF evJob[s] = "queued" THEN [evJob EXCEPT ![s] = "running"] ELSE evJob
      /\ UNCHANGED <<evCall, evVictim, evPending, evCallback, evFiles, evSaves, evShut>>
  BY DEF TakeJob, Pending
<1>2. s \in EvidenceSave /\ evQueue' \in Seq(EvidenceSave)
  BY <1>1 DEF EvidenceInv, EvidenceTypeOK
<1> HIDE DEF s
<1>3. /\ evJob'[s] = (IF evJob[s] = "queued" THEN "running" ELSE evJob[s])
      /\ \A r \in EvidenceSave : r # s => evJob'[r] = evJob[r]
  BY <1>1, <1>2 DEF EvidenceInv, EvidenceTypeOK
<1>4. EvidenceTypeOK' BY <1>1, <1>2 DEF EvidenceInv, EvidenceTypeOK
<1>5. OneJob'
  <2>1. \A r \in EvidenceSave : evJob'[r] = "running" => r = s BY <1>1, <1>3 DEF Idle
  <2>2. QED BY <1>1, <2>1 DEF OneJob, Idle
<1>6. CallsInOrder' BY <1>1, <1>3 DEF EvidenceInv, CallsInOrder
<1>7. Accounted'
  <2>1. ASSUME NEW r \in EvidenceSave, evJob'[r] = "queued", r \notin Pending'
        PROVE  \E c \in EvidenceSave : evCall'[c] \in {"submitted", "cancelling"}
                                       /\ AnswersFor(c)' = r
    <3>1. evJob[r] = "queued" BY <1>3, <2>1
    <3>2. PICK c \in EvidenceSave : evCall[c] \in {"submitted", "cancelling"}
                                    /\ AnswersFor(c) = r
      BY <1>1, <2>1, <3>1 DEF EvidenceInv, Accounted
    <3>3. AnswersFor(c)' = AnswersFor(c) BY <1>1 DEF AnswersFor
    <3>4. QED BY <1>1, <3>2, <3>3
  <2>2. QED BY <2>1 DEF Accounted
<1>8. NoneLeaked'
  <2>1. \A r \in Pending : Finished(r)' => Finished(r)
    BY <1>3, SetOfSeq DEF EvidenceInv, EvidenceTypeOK, Pending, Finished
  <2>2. QED BY <1>1, <2>1 DEF EvidenceInv, NoneLeaked, Calling
<1>9. QED BY <1>1, <1>4, <1>5, <1>6, <1>7, <1>8 DEF EvidenceInv

(* The files the worker leaves are saves, in some order. *)
LEMMA EvictingIs ==
  ASSUME NEW files \in Seq(EvidenceSave)
  PROVE  Evicting(files) \in Seq(EvidenceSave)
<1>1. MaxFiles \in Nat /\ Len(files) \in Nat BY EvidenceAssumption
<1>2. ASSUME Len(files) > MaxFiles PROVE Evicted(files) \in Seq(EvidenceSave)
  <2> DEFINE first == Len(files) - MaxFiles + 1
  <2>1. first \in Int /\ Len(files) \in Int /\ first >= 1 BY <1>1, <1>2
  <2> HIDE DEF first
  <2>2. \A i \in first..Len(files) : i \in 1..Len(files) BY <2>1
  <2>3. \A i \in first..Len(files) : files[i] \in EvidenceSave BY <2>2
  <2>4. SubSeq(files, first, Len(files)) \in Seq(EvidenceSave)
    BY <2>1, <2>3
  <2>5. QED BY <2>4 DEF Evicted, first
<1>3. QED BY <1>2 DEF Evicting

(* A job ends, written or not. *)
LEMMA FinishKeeps ==
  ASSUME EvidenceInv, NEW s \in EvidenceSave, FinishJob(s)
  PROVE  EvidenceInv'
<1>1. /\ evJob[s] = "running" /\ evJob' = [evJob EXCEPT ![s] = "done"]
      /\ evCallback' = (IF evCall[s] = "returned" THEN s ELSE NoSave)
      /\ UNCHANGED <<evCall, evVictim, evQueue, evPending, evShut>> /\ Pending' = Pending
  BY DEF FinishJob, Pending
<1>2. /\ evCallback = NoSave /\ evCall[s] # "new"
      /\ \A r \in EvidenceSave : evJob[r] = "running" => r = s
  BY <1>1 DEF EvidenceInv, OneJob, CallsInOrder
<1>3. evJob'[s] = "done" /\ \A r \in EvidenceSave : r # s => evJob'[r] = evJob[r]
  BY <1>1 DEF EvidenceInv, EvidenceTypeOK
<1>4. evFiles' \in Seq(EvidenceSave) /\ evSaves' \in 0..EvictEvery - 1
  <2>1. PICK files \in Written(s) :
          IF evSaves + 1 >= EvictEvery
          THEN evFiles' = Evicting(files) /\ evSaves' = 0
          ELSE evFiles' = files /\ evSaves' = evSaves + 1
    BY DEF FinishJob
  <2>2. files \in Seq(EvidenceSave) BY WrittenIs DEF EvidenceInv
  <2>3. evSaves \in 0..EvictEvery - 1 /\ EvictEvery \in Nat \ {0}
    BY EvidenceAssumption DEF EvidenceInv, EvidenceTypeOK
  <2>4. CASE evSaves + 1 >= EvictEvery BY <2>1, <2>2, <2>3, <2>4, EvictingIs
  <2>5. CASE ~(evSaves + 1 >= EvictEvery) BY <2>1, <2>2, <2>3, <2>5
  <2>6. QED BY <2>4, <2>5
<1>5. EvidenceTypeOK' BY <1>1, <1>4 DEF EvidenceInv, EvidenceTypeOK
<1>6. OneJob' BY <1>1, <1>2, <1>3 DEF OneJob
<1>7. CallsInOrder' BY <1>1, <1>2, <1>3 DEF EvidenceInv, CallsInOrder
<1>8. Accounted'
  <2>1. ASSUME NEW r \in EvidenceSave, evJob'[r] = "queued", r \notin Pending'
        PROVE  \E c \in EvidenceSave : evCall'[c] \in {"submitted", "cancelling"}
                                       /\ AnswersFor(c)' = r
    <3>1. evJob[r] = "queued" BY <1>3, <2>1
    <3>2. PICK c \in EvidenceSave : evCall[c] \in {"submitted", "cancelling"}
                                    /\ AnswersFor(c) = r
      BY <1>1, <2>1, <3>1 DEF EvidenceInv, Accounted
    <3>3. AnswersFor(c)' = AnswersFor(c) BY <1>1 DEF AnswersFor
    <3>4. QED BY <1>1, <3>2, <3>3
  <2>2. QED BY <2>1 DEF Accounted
<1>9. NoneLeaked'
  <2>1. SUFFICES ASSUME NEW r \in Pending, Finished(r)' PROVE Calling(r) \/ evCallback' = r
    BY <1>1 DEF NoneLeaked, Calling
  <2>2. r \in EvidenceSave BY SetOfSeq DEF EvidenceInv, EvidenceTypeOK, Pending
  <2>3. CASE r = s BY <1>1, <1>2, <2>3 DEF Calling
  <2>4. CASE r # s
    <3>1. Finished(r) BY <1>3, <2>1, <2>2, <2>4 DEF Finished
    <3>2. Calling(r) \/ evCallback = r BY <3>1 DEF EvidenceInv, NoneLeaked
    <3>3. NoSave \notin EvidenceSave BY EvidenceAssumption
    <3>4. QED BY <1>2, <2>2, <3>2, <3>3
  <2>5. QED BY <2>3, <2>4
<1>10. QED BY <1>1, <1>5, <1>6, <1>7, <1>8, <1>9 DEF EvidenceInv

(* The callback of a job that ended runs. *)
LEMMA CallbackKeeps == ASSUME EvidenceInv, RunCallback PROVE EvidenceInv'
<1>1. /\ evCallback # NoSave /\ evCallback' = NoSave /\ evPending' = Forget(evCallback)
      /\ UNCHANGED <<evCall, evVictim, evJob, evQueue, evFiles, evSaves, evShut>>
  BY DEF RunCallback
<1>2. /\ evPending' \in Seq(EvidenceSave) /\ Distinct(evPending') /\ Len(evPending') <= MaxPending
      /\ Pending' = Pending \ {evCallback}
  BY <1>1, ForgetIs DEF Pending
<1>3. evJob[evCallback] = "done" BY <1>1 DEF EvidenceInv, OneJob
<1>4. EvidenceTypeOK' BY <1>1, <1>2 DEF EvidenceInv, EvidenceTypeOK
<1>5. OneJob' BY <1>1 DEF EvidenceInv, OneJob
<1>6. CallsInOrder' BY <1>1, <1>2 DEF EvidenceInv, CallsInOrder
<1>7. Accounted'
  <2>1. ASSUME NEW r \in EvidenceSave, evJob'[r] = "queued", r \notin Pending'
        PROVE  \E c \in EvidenceSave : evCall'[c] \in {"submitted", "cancelling"}
                                       /\ AnswersFor(c)' = r
    <3>1. r \notin Pending BY <1>1, <1>2, <1>3, <2>1
    <3>2. PICK c \in EvidenceSave : evCall[c] \in {"submitted", "cancelling"}
                                    /\ AnswersFor(c) = r
      BY <1>1, <2>1, <3>1 DEF EvidenceInv, Accounted
    <3>3. AnswersFor(c)' = AnswersFor(c) BY <1>1 DEF AnswersFor
    <3>4. QED BY <1>1, <3>2, <3>3
  <2>2. QED BY <2>1 DEF Accounted
<1>8. NoneLeaked'
  BY <1>1, <1>2 DEF EvidenceInv, NoneLeaked, Finished, Calling
<1>9. QED BY <1>2, <1>4, <1>5, <1>6, <1>7, <1>8 DEF EvidenceInv

(* A shutdown cancels what is queued. *)
LEMMA ShutDownKeeps == ASSUME EvidenceInv, ShutDown PROVE EvidenceInv'
<1> DEFINE D == {i \in DOMAIN evPending :
                   ~(evJob[evPending[i]] = "queued" /\ evCall[evPending[i]] = "returned")}
<1>1. /\ evShut' = TRUE /\ evQueue' = <<>> /\ evPending' = Picked(evPending, D)
      /\ evJob' = [s \in EvidenceSave |-> IF evJob[s] = "queued" THEN "cancelled" ELSE evJob[s]]
      /\ UNCHANGED <<evCall, evVictim, evCallback, evFiles, evSaves>>
  BY DEF ShutDown, Where
<1>2. /\ evPending \in Seq(EvidenceSave) /\ Distinct(evPending) /\ Len(evPending) <= MaxPending
      /\ Len(evPending) \in Nat /\ DOMAIN evPending = 1..Len(evPending) /\ MaxPending \in Nat
      /\ Pending \subseteq EvidenceSave
  BY EvidenceAssumption, SetOfSeq DEF EvidenceInv, EvidenceTypeOK, Pending
<1>3. D \in SUBSET (1..Len(evPending)) BY <1>2
<1>4. \A r \in {evPending[i] : i \in D} :
        r \in Pending /\ ~(evJob[r] = "queued" /\ evCall[r] = "returned")
  BY DEF Pending, ToSet
<1> HIDE DEF D
<1>5. /\ evPending' \in Seq(EvidenceSave) /\ Distinct(evPending')
      /\ Len(evPending') <= Len(evPending) /\ Pending' = {evPending[i] : i \in D}
  BY <1>1, <1>2, <1>3, DistinctPicked DEF Pending
<1>6. Len(evPending') <= MaxPending
  <2>1. Len(evPending') \in Nat BY <1>5
  <2>2. QED BY <1>2, <1>5, <2>1
<1>7. /\ \A r \in EvidenceSave : evJob'[r] = IF evJob[r] = "queued" THEN "cancelled" ELSE evJob[r]
      /\ Pending' \subseteq Pending
  BY <1>1, <1>4, <1>5
<1>8. EvidenceTypeOK' BY <1>1, <1>5, <1>7 DEF EvidenceInv, EvidenceTypeOK
<1>9. OneJob'
  <2>1. evCallback \in EvidenceSave \cup {NoSave} BY DEF EvidenceInv, EvidenceTypeOK
  <2>2. QED BY <1>1, <1>7, <2>1 DEF EvidenceInv, OneJob
<1>10. CallsInOrder' BY <1>1, <1>2, <1>7 DEF EvidenceInv, CallsInOrder
<1>11. Accounted' BY <1>7 DEF Accounted
<1>12. NoneLeaked'
  <2>1. SUFFICES ASSUME NEW r \in Pending', Finished(r)' PROVE Calling(r) \/ evCallback = r
    BY <1>1 DEF NoneLeaked, Calling
  <2>2. r \in Pending /\ r \in EvidenceSave /\ ~(evJob[r] = "queued" /\ evCall[r] = "returned")
    BY <1>2, <1>4, <1>5
  <2>3. CASE evJob[r] = "queued" BY <2>2, <2>3 DEF EvidenceInv, CallsInOrder, Calling
  <2>4. CASE evJob[r] # "queued"
    <3>1. Finished(r) BY <1>7, <2>1, <2>2, <2>4 DEF Finished
    <3>2. QED BY <2>2, <3>1 DEF EvidenceInv, NoneLeaked
  <2>5. QED BY <2>3, <2>4
<1>13. QED BY <1>5, <1>6, <1>8, <1>9, <1>10, <1>11, <1>12 DEF EvidenceInv

(* Every step, and every stutter, preserves the invariant. *)
LEMMA EvidenceStep == EvidenceInv /\ [EvidenceNext]_evidenceVars => EvidenceInv'
<1> SUFFICES ASSUME EvidenceInv, [EvidenceNext]_evidenceVars PROVE EvidenceInv' OBVIOUS
<1>1. CASE WorkerStep
  BY <1>1, TakeKeeps, CallbackKeeps, FinishKeeps DEF WorkerStep
<1>2. CASE ShutDown BY <1>2, ShutDownKeeps
<1>3. ASSUME NEW s \in EvidenceSave, CallStep(s) PROVE EvidenceInv'
  BY <1>3, SubmitKeeps, RememberKeeps, CancelKeeps, RegisterKeeps DEF CallStep
<1>4. CASE UNCHANGED evidenceVars
  <2>1. UNCHANGED <<evCall, evVictim, evJob, evQueue, evPending, evCallback, evFiles, evSaves, evShut>>
    BY <1>4 DEF evidenceVars
  <2>2. EvidenceTypeOK' BY <2>1 DEF EvidenceInv, EvidenceTypeOK
  <2>3. OneJob' /\ CallsInOrder' /\ Pending' = Pending
    BY <2>1 DEF EvidenceInv, OneJob, CallsInOrder, Pending
  <2>4. \A s \in EvidenceSave : AnswersFor(s)' = AnswersFor(s) BY <2>1 DEF AnswersFor
  <2>5. Accounted' BY <2>1, <2>3, <2>4 DEF EvidenceInv, Accounted
  <2>6. NoneLeaked' BY <2>1, <2>3 DEF EvidenceInv, NoneLeaked, Finished, Calling
  <2>7. QED BY <2>1, <2>2, <2>3, <2>5, <2>6 DEF EvidenceInv
<1>5. QED BY <1>1, <1>2, <1>3, <1>4 DEF EvidenceNext

(* The evidence offload keeps its invariant, however submissions,           *)
(* cancellations, the worker and the shutdown interleave.                   *)
THEOREM EvidenceInvariant == EvidenceSpec => []EvidenceInv
<1>1. QED BY EvidenceInitInv, EvidenceStep, PTL DEF EvidenceSpec

(* The state of the evidence offload (core/evidence.py) has its type.       *)
THEOREM EvidenceTypeCorrect == EvidenceSpec => []EvidenceTypeOK
<1>1. EvidenceInv => EvidenceTypeOK BY DEF EvidenceInv
<1>2. QED BY <1>1, EvidenceInvariant, PTL

(* The deque is bounded, what the worker will still save exceeds it by no   *)
(* more than the calls under way, and no finished future keeps a place      *)
(* (core/evidence.py, submit_frame_evidence), for any saves and bounds.     *)
THEOREM EvidenceStaysBounded == EvidenceSpec => []EvidenceBounded
<1>1. EvidenceInv => EvidenceBounded
  BY QueuedAreFew DEF EvidenceInv, EvidenceBounded, NoneLeaked
<1>2. QED BY <1>1, EvidenceInvariant, PTL
=============================================================================
