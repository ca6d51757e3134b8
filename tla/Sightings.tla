------------------------------- MODULE Sightings -------------------------------
(***************************************************************************)
(* The store of plate sightings of core/anpr.py: a list that gives up its  *)
(* first element when it is full, and an index from camera and plate to    *)
(* the latest sighting, so that reads within Window seconds count as one.  *)
(* Every method holds the store's lock.  The analysis threads stamp a      *)
(* sighting before they take the lock, so stamps may arrive out of order.  *)
(*                                                                         *)
(* A sighting is its number in the order of the calls that appended one.   *)
(***************************************************************************)
EXTENDS Naturals, FiniteSets, SequencesExt

CONSTANTS Plate,        \* <<camera, plate>> pairs
          MaxSightings, \* max_sightings, 5000
          Window,       \* 30 seconds
          MaxRecords,   \* calls (bound)
          MaxTime,      \* (bound)
          Skew,         \* how late a stamp may arrive (bound)
          NoSighting

ASSUME SightingsAssumption ==
  /\ MaxSightings \in Nat \ {0} /\ {Window, MaxRecords, MaxTime, Skew} \subseteq Nat
  /\ NoSighting \notin 1..MaxRecords /\ Plate # {}

VARIABLES
  siNow,    \* the time
  siCalls,  \* calls so far
  siList,   \* _sightings
  siPlate,  \* the plate of each sighting
  siStamp,  \* its timestamp
  siCount,  \* its sight_count
  siIndex   \* _recent_index

sightingsVars == <<siNow, siCalls, siList, siPlate, siStamp, siCount, siIndex>>

Sighting == 1..MaxRecords

SightingsTypeOK ==
  /\ siNow \in 0..MaxTime /\ siCalls \in 0..MaxRecords
  /\ siList \in Seq(Sighting)
  /\ siPlate \in [Sighting -> Plate]
  /\ siStamp \in [Sighting -> 0..MaxTime] /\ siCount \in [Sighting -> 0..MaxRecords]
  /\ siIndex \in [Plate -> Sighting \cup {NoSighting}]

SightingsInit ==
  /\ siNow = 0 /\ siCalls = 0 /\ siList = <<>>
  /\ siPlate = [s \in Sighting |-> CHOOSE p \in Plate : TRUE]
  /\ siStamp = [s \in Sighting |-> 0] /\ siCount = [s \in Sighting |-> 0]
  /\ siIndex = [p \in Plate |-> NoSighting]
-----------------------------------------------------------------------------
Tick ==
  /\ siNow < MaxTime /\ siNow' = siNow + 1
  /\ UNCHANGED <<siCalls, siList, siPlate, siStamp, siCount, siIndex>>

(* A read within the window of the sighting the index leads to, also one    *)
(* whose stamp is older, counts there and takes its stamp there.            *)
CountAgain(s, at) ==
  /\ siStamp' = [siStamp EXCEPT ![s] = at]
  /\ siCount' = [siCount EXCEPT ![s] = @ + 1]
  /\ UNCHANGED <<siList, siPlate, siIndex>>

(* Mutation: the index is only ever filled. *)
Unindexed_never(index, old) == index

(* The first sighting leaves, and with it whatever its plate's index entry  *)
(* leads to.                                                                *)
Unindexed(index, old) == [index EXCEPT ![siPlate[old]] = NoSighting]

Append1(s, p, at) ==
  LET full == Len(siList) + 1 > MaxSightings
      list == Append(siList, s)
      index == [siIndex EXCEPT ![p] = s]
  IN  /\ siPlate' = [siPlate EXCEPT ![s] = p]
      /\ siStamp' = [siStamp EXCEPT ![s] = at]
      /\ siCount' = [siCount EXCEPT ![s] = 1]
      /\ siList' = IF full THEN Tail(list) ELSE list
      /\ siIndex' = IF full THEN Unindexed(index, Head(list)) ELSE index

Recent(p, at) == siIndex[p] # NoSighting /\ at < siStamp[siIndex[p]] + Window

RecordSighting(p, at) ==
  /\ siCalls < MaxRecords /\ siCalls' = siCalls + 1
  /\ at <= siNow /\ siNow <= at + Skew
  /\ IF Recent(p, at) THEN CountAgain(siIndex[p], at) ELSE Append1(siCalls', p, at)
  /\ UNCHANGED siNow

(* query_sightings, without the order and the limit of its answer. *)
Query(plates) == {s \in ToSet(siList) : siPlate[s] \in plates}

SightingsNext ==
  \/ Tick
  \/ \E p \in Plate, at \in 0..MaxTime : RecordSighting(p, at)

SightingsSpec == SightingsInit /\ [][SightingsNext]_sightingsVars
-----------------------------------------------------------------------------
(* A read is counted with a sighting the store still has: the index, which  *)
(* queries do not use, never leads to one that was given up, whatever was   *)
(* recorded, counted again and evicted, also of the same plate, meanwhile.  *)
IndexedAreListed ==
  /\ Len(siList) <= MaxSightings
  /\ \A p \in Plate : siIndex[p] # NoSighting => siIndex[p] \in Query({p})
=============================================================================
