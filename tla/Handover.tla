------------------------------- MODULE Handover -------------------------------
(***************************************************************************)
(* The dossiers of core/handover.py: every request for them folds the      *)
(* latest observations of all cameras into one dossier per subject, found  *)
(* by name, by camera and track id, or as a recent dossier of the class    *)
(* that has not been at this camera.  The engine's lock is held from       *)
(* BeginUpdate to EndUpdate, but the observations are those of the moment  *)
(* a camera's turn comes, so the update is a step per track and plate.     *)
(*                                                                         *)
(* Camera names are distinct.  Of a sighting only the camera counts, and   *)
(* cameras_visited has it for ever; bounding boxes and the list of the     *)
(* last twenty sightings are left out, and so is the label "CLASS #id" of  *)
(* an unnamed subject.                                                     *)
(***************************************************************************)
EXTENDS Naturals, FiniteSets, SequencesExt, Subsequences

CONSTANTS Cameras,      \* the cameras in the order of the store, a sequence
          Track,        \* track ids
          Class,        \* class_name
          Name,         \* identities
          Threat,       \* threat levels: of LOW 0, HIGH 1 and CRITICAL 2
          PlateText,    \* plates
          Dossier,      \* dossier ids
          MaxDossiers,  \* max_dossiers
          HandoverWindow, \* handover_window_s
          ActiveFor,    \* the 30 s of is_active
          MaxTime,      \* (bound)
          Unknown       \* no name, no plate, no dossier

ASSUME HandoverAssumption ==
  /\ Cameras \in Seq(ToSet(Cameras)) \ {<<>>}
  /\ Unknown \notin Name \cup PlateText \cup Dossier
  /\ Threat \subseteq 0..2
  /\ {MaxDossiers, HandoverWindow, ActiveFor, MaxTime} \subseteq Nat

VARIABLES
  hoNow,       \* time.time()
  hoTurn,      \* which camera an update is at; 0 when none runs
  hoSeen,      \* the tracks already folded in this turn: their dossier and name
  hoDossiers,  \* dossiers, in the order of insertion
  hoTracks,    \* _track_map
  hoNames,     \* _identity_map
  hoPlates     \* _plate_map

handoverVars == <<hoNow, hoTurn, hoSeen, hoDossiers, hoTracks, hoNames, hoPlates>>

Key == ToSet(Cameras) \X Track
Ids == {hoDossiers[i].id : i \in DOMAIN hoDossiers}

DossierRecord ==
  [id : Dossier, class : Class, label : Name \cup {Unknown}, threat : Threat,
   last : 0..MaxTime, active : BOOLEAN, visited : SUBSET ToSet(Cameras),
   plate : PlateText \cup {Unknown}]

HandoverTypeOK ==
  /\ hoNow \in 0..MaxTime /\ hoTurn \in 0..Len(Cameras)
  /\ DOMAIN hoSeen \subseteq Track
  /\ \A t \in DOMAIN hoSeen : /\ hoSeen[t].dossier \in Dossier
                              /\ hoSeen[t].name \in Name \cup {Unknown}
  /\ hoDossiers \in Seq(DossierRecord)
  /\ hoTracks \in [Key -> Dossier \cup {Unknown}]
  /\ hoNames \in [Name -> Dossier \cup {Unknown}]
  /\ hoPlates \in [PlateText -> Dossier \cup {Unknown}]

HandoverInit ==
  /\ hoNow = 0 /\ hoTurn = 0 /\ hoSeen = <<>> /\ hoDossiers = <<>>
  /\ hoTracks = [k \in Key |-> Unknown]
  /\ hoNames = [n \in Name |-> Unknown]
  /\ hoPlates = [p \in PlateText |-> Unknown]
-----------------------------------------------------------------------------
HandoverTick ==
  /\ hoTurn = 0 /\ hoNow < MaxTime
  /\ hoNow' = hoNow + 1
  /\ UNCHANGED <<hoTurn, hoSeen, hoDossiers, hoTracks, hoNames, hoPlates>>

BeginUpdate ==
  /\ hoTurn = 0 /\ hoTurn' = 1 /\ hoSeen' = <<>>
  /\ UNCHANGED <<hoNow, hoDossiers, hoTracks, hoNames, hoPlates>>

(* An unassigned track may continue the first dossier of its class that was *)
(* seen lately and never at this camera.                                    *)
Continues(i, c, class) ==
  /\ hoDossiers[i].class = class
  /\ hoNow - hoDossiers[i].last <= HandoverWindow
  /\ c \notin hoDossiers[i].visited

Recent(c, class) ==
  LET fits == {i \in DOMAIN hoDossiers : Continues(i, c, class)}
  IN  IF fits = {} THEN Unknown
      ELSE hoDossiers[CHOOSE i \in fits : \A k \in fits : i <= k].id

(* The dossier a track belongs to, Unknown if it needs a new one. *)
Match(c, t, class, n) ==
  IF n # Unknown /\ hoNames[n] \in Ids THEN hoNames[n]
  ELSE IF hoTracks[<<c, t>>] \in Ids THEN hoTracks[<<c, t>>]
  ELSE Recent(c, class)

NewDossier(id, class, c, th) ==
  [id |-> id, class |-> class, label |-> Unknown, threat |-> th, last |-> hoNow,
   active |-> TRUE, visited |-> {c}, plate |-> Unknown]

(* The named subject labels the dossier, a threat only grows. *)
Updated(d, c, n, th) ==
  [d EXCEPT !.last = hoNow, !.active = TRUE, !.visited = @ \cup {c},
            !.label = IF n # Unknown THEN n ELSE @,
            !.threat = IF th > @ THEN th ELSE @]

JoinTrack(t, class, n, th) ==
  /\ hoTurn > 0 /\ t \notin DOMAIN hoSeen
  /\ LET c == Cameras[hoTurn]
         match == Match(c, t, class, n)
     IN  \E id \in IF match = Unknown THEN Dossier \ Ids ELSE {match} :
           LET all == IF match = Unknown
                      THEN Append(hoDossiers, NewDossier(id, class, c, th)) ELSE hoDossiers
           IN  /\ hoDossiers' = [i \in DOMAIN all |->
                     IF all[i].id = id THEN Updated(all[i], c, n, th) ELSE all[i]]
               /\ hoTracks' = [hoTracks EXCEPT ![<<c, t>>] = id]
               /\ hoNames' = IF n = Unknown THEN hoNames ELSE [hoNames EXCEPT ![n] = id]
               /\ hoSeen' = [u \in DOMAIN hoSeen \cup {t} |->
                     IF u = t THEN [dossier |-> id, name |-> n] ELSE hoSeen[u]]
  /\ UNCHANGED <<hoNow, hoTurn, hoPlates>>

(* A plate goes to the dossier of its track, or to the one that had it. *)
JoinPlate(p, t) ==
  /\ hoTurn > 0
  /\ LET own == IF t = Unknown THEN Unknown ELSE hoTracks[<<Cameras[hoTurn], t>>]
         id == IF own # Unknown THEN own ELSE hoPlates[p]
     IN  /\ id \in Ids
         /\ hoDossiers' = [i \in DOMAIN hoDossiers |->
               IF hoDossiers[i].id = id THEN [hoDossiers[i] EXCEPT !.plate = p]
               ELSE hoDossiers[i]]
         /\ hoPlates' = [hoPlates EXCEPT ![p] = id]
  /\ UNCHANGED <<hoNow, hoTurn, hoSeen, hoTracks, hoNames>>

NextCamera ==
  /\ hoTurn \in 1..Len(Cameras) - 1
  /\ hoTurn' = hoTurn + 1 /\ hoSeen' = <<>>
  /\ UNCHANGED <<hoNow, hoDossiers, hoTracks, hoNames, hoPlates>>

(* Those seen longest ago beyond the limit; sorted() is stable. *)
Pruned ==
  LET Older(i, k) == \/ hoDossiers[i].last < hoDossiers[k].last
                     \/ hoDossiers[i].last = hoDossiers[k].last /\ i < k
  IN  {hoDossiers[i].id : i \in {k \in DOMAIN hoDossiers :
         Cardinality({o \in DOMAIN hoDossiers : Older(o, k)}) < Len(hoDossiers) - MaxDossiers}}

(* Mutation: the map keeps what leads to a pruned dossier. *)
Kept_all(map, gone) == map

Kept(map, gone) == [k \in DOMAIN map |-> IF map[k] \in gone THEN Unknown ELSE map[k]]

EndUpdate ==
  /\ hoTurn = Len(Cameras)
  /\ LET aged == [i \in DOMAIN hoDossiers |->
                    [hoDossiers[i] EXCEPT !.active = @ /\ hoNow - hoDossiers[i].last <= ActiveFor]]
     IN  hoDossiers' = Where(aged, LAMBDA d : d.id \notin Pruned)
  /\ hoTracks' = Kept(hoTracks, Pruned)
  /\ hoNames' = Kept(hoNames, Pruned)
  /\ hoPlates' = Kept(hoPlates, Pruned)
  /\ hoTurn' = 0 /\ hoSeen' = <<>>
  /\ UNCHANGED hoNow

HandoverNext ==
  \/ HandoverTick \/ BeginUpdate \/ NextCamera \/ EndUpdate
  \/ \E t \in Track, class \in Class, n \in Name \cup {Unknown}, th \in Threat :
        JoinTrack(t, class, n, th)
  \/ \E p \in PlateText, t \in Track \cup {Unknown} : JoinPlate(p, t)

HandoverSpec == HandoverInit /\ [][HandoverNext]_handoverVars
-----------------------------------------------------------------------------
(* The three lookups lead to dossiers that exist, and to no more of them    *)
(* than the limit between updates: a name, a track or a plate is never      *)
(* matched against a subject that was pruned (tests/test_novelty_features   *)
(* .py:330).                                                                *)
LookupsLeadToDossiers ==
  /\ UNION {{hoTracks[k] : k \in Key}, {hoNames[n] : n \in Name},
            {hoPlates[p] : p \in PlateText}} \subseteq Ids \cup {Unknown}
  /\ hoTurn = 0 => Len(hoDossiers) <= MaxDossiers
=============================================================================
