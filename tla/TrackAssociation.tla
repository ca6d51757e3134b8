--------------------------- MODULE TrackAssociation ---------------------------
(***************************************************************************)
(* How the tracker of core/tracker.py tells which detection of a frame is  *)
(* which track: clean-up of the detections, the matching by overlap, by    *)
(* distance, and across classes, and the start of new tracks.              *)
(*                                                                         *)
(* A box is an interval <<lo, hi>> in thousandths of the frame: of the two *)
(* dimensions one is kept, so that an area is a width and the distance of  *)
(* two centres the difference of their middles.  Confidences are percents. *)
(* Ageing and identities are in TrackIdentity; here an unseen track may    *)
(* end after any frame, and any track may become identified.               *)
(*                                                                         *)
(* update is one call, made here of the rounds of its loops: nothing comes *)
(* between them.  A loop over what was sorted takes the first of what is   *)
(* left.                                                                   *)
(***************************************************************************)
EXTENDS Integers, SequencesExt

CONSTANTS Detection,  \* what the detector may report: [box, class, conf]
          Person,     \* class_name "person"
          MaxDetections, MaxFrames  \* (bounds)

Kind == {d.class : d \in Detection}
Column == 0..1000
Box == Column \X Column
CleanDetection == [box : Box, class : Kind, conf : 0..100]
BoxedTrack == [box : Box, class : Kind, conf : 0..100, known : BOOLEAN]

ASSUME AssociationAssumption ==
  /\ {MaxDetections, MaxFrames} \subseteq Nat
  /\ Detection \subseteq [box : Int \X Int, class : Kind, conf : 0..100]

VARIABLES
  taTracks,  \* tracks, by id
  taNext,    \* _next_id
  taFrames,  \* frames so far
  taStage,   \* where update is
  taInput,   \* its detections, their boxes clamped
  taLeft,    \* what the loop has before it: detections, or pairs <<detection, track>>
  taSeen,    \* the detections it keeps
  taRest,    \* surviving_unmatched
  taBefore,  \* track_items, as they were
  taPairs    \* which detection each track was updated by, or started from

associationVars == <<taTracks, taNext, taFrames, taStage, taInput, taLeft, taSeen, taRest,
                     taBefore, taPairs>>

NoTracks == [t \in {} |-> 0]

AssociationTypeOK ==
  /\ taNext \in Nat \ {0} /\ taFrames \in 0..MaxFrames
  /\ DOMAIN taBefore \subseteq DOMAIN taTracks /\ DOMAIN taTracks \subseteq 1..taNext - 1
  /\ \A t \in DOMAIN taTracks : taTracks[t] \in BoxedTrack
  /\ \A t \in DOMAIN taBefore : taBefore[t] \in BoxedTrack
  /\ taStage \in {"idle", "clean", "overlap", "near", "across", "start"}
  /\ taSeen \in Seq(CleanDetection) /\ taRest \subseteq DOMAIN taSeen
  /\ taPairs \subseteq (DOMAIN taSeen) \X (DOMAIN taTracks)
  /\ taStage = "idle" => taLeft = {}
  /\ taStage = "clean" => /\ taLeft \subseteq DOMAIN taInput
                          /\ \A i \in taLeft : taInput[i] \in CleanDetection
  /\ taStage \in {"overlap", "near"} => taLeft \subseteq (DOMAIN taSeen) \X (DOMAIN taBefore)
  /\ taStage \in {"across", "start"} => taLeft \subseteq DOMAIN taSeen

AssociationInit ==
  /\ taTracks = NoTracks /\ taNext = 1 /\ taFrames = 0
  /\ taStage = "idle" /\ taInput = <<>> /\ taLeft = {} /\ taSeen = <<>> /\ taRest = {}
  /\ taBefore = NoTracks /\ taPairs = {}
-----------------------------------------------------------------------------
Width(b) == b[2] - b[1]
Least(x, y) == IF x < y THEN x ELSE y
Most(x, y) == IF x < y THEN y ELSE x
Shared(a, b) == Most(0, Least(a[2], b[2]) - Most(a[1], b[1]))
Covered(a, b) == Most(1, Width(a) + Width(b) - Shared(a, b))
IouOver(a, b, percent) == Shared(a, b) * 100 > percent * Covered(a, b)

(* Of two pairs of boxes, the first has the greater overlap. *)
MoreIou(a, b, c, d) == Shared(a, b) * Covered(c, d) > Shared(c, d) * Covered(a, b)

(* _sanitize_bbox: turned round and clamped.                                *)
Clamped(x) == Most(0, Least(1000, x))
CleanBox(b) == <<Clamped(Least(b[1], b[2])), Clamped(Most(b[1], b[2]))>>

(* The call: what is left of a box must not be too thin.  A person of an    *)
(* impossible shape is dropped here as well, and is no input.               *)
Receive(raw) ==
  /\ taStage = "idle" /\ taFrames < MaxFrames
  /\ taStage' = "clean" /\ taFrames' = taFrames + 1
  /\ taInput' = [i \in DOMAIN raw |-> [raw[i] EXCEPT !.box = CleanBox(@)]]
  /\ taLeft' = {i \in DOMAIN raw : Width(CleanBox(raw[i].box)) >= 5}
  /\ taBefore' = taTracks
  /\ UNCHANGED <<taTracks, taNext, taSeen, taRest, taPairs>>

(* The widest first, then the most confident; equals keep their order. *)
Larger(i, k) ==
  LET a == taInput[i]  b == taInput[k]
  IN  \/ Width(a.box) > Width(b.box)
      \/ Width(a.box) = Width(b.box) /\ (a.conf > b.conf \/ (a.conf = b.conf /\ i < k))

(* A detection that lies in a kept one of its class, or nearly on it, only  *)
(* lends it its confidence.                                                 *)
SameObject(kept, d) ==
  /\ kept.class = d.class
  /\ \/ IouOver(kept.box, d.box, 85)
     \/ Shared(kept.box, d.box) * 100 > 90 * Width(d.box)

KeepOrDrop(i) ==
  LET d == taInput[i]
      same == {k \in DOMAIN taSeen : SameObject(taSeen[k], d)}
  IN  /\ taStage = "clean"
      /\ i \in taLeft /\ \A k \in taLeft : ~Larger(k, i)
      /\ taLeft' = taLeft \ {i}
      /\ \/ same = {} /\ taSeen' = Append(taSeen, d)
         \/ \E k \in same : /\ \A j \in same : k <= j
                            /\ taSeen' = [taSeen EXCEPT ![k].conf = Most(@, d.conf)]
      /\ UNCHANGED <<taTracks, taNext, taFrames, taStage, taInput, taRest, taBefore, taPairs>>
-----------------------------------------------------------------------------
(* The candidate pairs are sorted once, and equals come in the order of the *)
(* detections, then of the tracks.                                          *)
Earlier(p, q) == p[1] < q[1] \/ (p[1] = q[1] /\ p[2] < q[2])

MoreOverlap(p, q) ==
  MoreIou(taBefore[p[2]].box, taSeen[p[1]].box, taBefore[q[2]].box, taSeen[q[1]].box)

(* Mutation: the candidates are taken as they come, not by overlap. *)
ByOverlap_unsorted(p, q) == Earlier(p, q)

ByOverlap(p, q) == MoreOverlap(p, q) \/ (~MoreOverlap(q, p) /\ Earlier(p, q))

Distance(p) ==
  LET a == taBefore[p[2]].box  b == taSeen[p[1]].box
      twice == a[1] + a[2] - b[1] - b[2]
  IN  Most(twice, -twice)

ByDistance(p, q) == Distance(p) < Distance(q) \/ (Distance(p) = Distance(q) /\ Earlier(p, q))

SameKind == {p \in (DOMAIN taSeen) \X (DOMAIN taBefore) : taBefore[p[2]].class = taSeen[p[1]].class}
Overlapping == {p \in SameKind : IouOver(taBefore[p[2]].box, taSeen[p[1]].box, 20)}

(* Once matched, a detection and a track are out of reach. *)
Meets(p, q) == p[1] = q[1] \/ p[2] = q[2]

(* The box moves a third of the way. *)
Smoothed(a, b) == <<(65 * a[1] + 35 * b[1]) \div 100, (65 * a[2] + 35 * b[2]) \div 100>>

MatchPair(p) ==
  /\ taTracks' = [taTracks EXCEPT ![p[2]].box = Smoothed(@, taSeen[p[1]].box),
                                  ![p[2]].conf = taSeen[p[1]].conf]
  /\ taPairs' = taPairs \cup {p}
  /\ taLeft' = {q \in taLeft : ~Meets(p, q)}
  /\ UNCHANGED <<taNext, taFrames, taStage, taInput, taSeen, taRest, taBefore>>

(* Stage 1: same class and overlap above the threshold, most overlap first; *)
(* then what is near, the nearest first.                                    *)
MatchOverlap(p) ==
  taStage = "overlap" /\ p \in taLeft /\ (\A q \in taLeft : ~ByOverlap(q, p)) /\ MatchPair(p)

MatchNear(p) ==
  taStage = "near" /\ p \in taLeft /\ (\A q \in taLeft : ~ByDistance(q, p)) /\ MatchPair(p)
-----------------------------------------------------------------------------
(* Tracks of age 0. *)
Active == {p[2] : p \in taPairs}

(* An unmatched detection is the same thing as an active track. *)
Duplicate(track, d) ==
  IF track.class = d.class
  THEN \/ IouOver(track.box, d.box, 85)
       \/ Shared(track.box, d.box) * 100 > 90 * Least(Width(track.box), Width(d.box))
  ELSE IouOver(track.box, d.box, 60)

IsDuplicate(d) == \E t \in Active : Duplicate(taTracks[t], d)

First(i) == i \in taLeft /\ (\A k \in taLeft : i <= k) /\ taLeft' = taLeft \ {i}

(* Stage 2: across classes, a detection that covers an unmatched track      *)
(* updates it, and may change its class, but not that of an identified      *)
(* person.                                                                  *)
Reassociate(i, t) ==
  LET d == taSeen[i]
      old == taTracks[t]
      keeps == d.conf <= old.conf \/ (old.class = Person /\ old.known /\ d.class # Person)
  IN  /\ taTracks' = [taTracks EXCEPT ![t] = [old EXCEPT !.box = Smoothed(@, d.box),
                                                         !.conf = Most(@, d.conf),
                                                         !.class = IF keeps THEN @ ELSE d.class]]
      /\ taPairs' = taPairs \cup {<<i, t>>}
      /\ UNCHANGED taRest

LookAcross(i) ==
  LET d == taSeen[i]
      over == {t \in (DOMAIN taTracks) \ Active : IouOver(taTracks[t].box, d.box, 60)}
  IN  /\ taStage = "across" /\ First(i)
      /\ \/ IsDuplicate(d) /\ UNCHANGED <<taTracks, taPairs, taRest>>
         \/ /\ ~IsDuplicate(d) /\ over = {}
            /\ taRest' = taRest \cup {i} /\ UNCHANGED <<taTracks, taPairs>>
         \/ /\ ~IsDuplicate(d)
            /\ \E t \in over : (\A u \in over : ~ByOverlap(<<i, u>>, <<i, t>>)) /\ Reassociate(i, t)
      /\ UNCHANGED <<taNext, taFrames, taStage, taInput, taSeen, taBefore>>

(* Stage 3: a new track, if the detection is confident enough and neither a *)
(* track started in this frame nor any active one is the same thing.        *)
MinSpawn(d) == IF d.class = Person THEN 50 ELSE 40

Suppressed(d) ==
  \/ d.conf < MinSpawn(d)
  \/ \E t \in Active \ DOMAIN taBefore : IouOver(taTracks[t].box, d.box, 60)
  \/ IsDuplicate(d)

NewTrack(d) == [box |-> d.box, class |-> d.class, conf |-> d.conf, known |-> FALSE]

Spawn(i) ==
  LET d == taSeen[i]
  IN  /\ taStage = "start" /\ First(i)
      /\ \/ Suppressed(d) /\ UNCHANGED <<taTracks, taNext, taPairs>>
         \/ /\ ~Suppressed(d)
            /\ taTracks' = [t \in (DOMAIN taTracks) \cup {taNext} |->
                              IF t # taNext THEN taTracks[t] ELSE NewTrack(d)]
            /\ taPairs' = taPairs \cup {<<i, taNext>>}
            /\ taNext' = taNext + 1
      /\ UNCHANGED <<taFrames, taStage, taInput, taSeen, taRest, taBefore>>
-----------------------------------------------------------------------------
Unmatched == {i \in DOMAIN taSeen : \A p \in taPairs : p[1] # i}

(* A loop is through. *)
NextStage ==
  /\ taLeft = {}
  /\ \/ taStage = "clean" /\ taStage' = "overlap" /\ taLeft' = Overlapping
     \/ /\ taStage = "overlap" /\ taStage' = "near"
        /\ taLeft' = {p \in SameKind : Distance(p) < 280 /\ \A q \in taPairs : ~Meets(p, q)}
     \/ taStage = "near" /\ taStage' = "across" /\ taLeft' = Unmatched
     \/ taStage = "across" /\ taStage' = "start" /\ taLeft' = taRest
  /\ taInput' = <<>>
  /\ UNCHANGED <<taTracks, taNext, taFrames, taSeen, taRest, taBefore, taPairs>>

(* The call returns; a track that no detection updated may have aged out.   *)
Return ==
  /\ taStage = "start" /\ taLeft = {}
  /\ \E gone \in SUBSET ((DOMAIN taTracks) \ Active) :
       taTracks' = [t \in (DOMAIN taTracks) \ gone |-> taTracks[t]]
  /\ taStage' = "idle" /\ taSeen' = <<>> /\ taRest' = {} /\ taBefore' = NoTracks /\ taPairs' = {}
  /\ UNCHANGED <<taNext, taFrames, taInput, taLeft>>

(* A face or a plate names a track. *)
Recognise(t) ==
  /\ taStage = "idle" /\ t \in DOMAIN taTracks /\ ~taTracks[t].known
  /\ taTracks' = [taTracks EXCEPT ![t].known = TRUE]
  /\ UNCHANGED <<taNext, taFrames, taStage, taInput, taLeft, taSeen, taRest, taBefore, taPairs>>

(* reset_epoch: ids start again. *)
ResetAssociation ==
  /\ taStage = "idle"
  /\ taTracks' = NoTracks /\ taNext' = 1
  /\ UNCHANGED <<taFrames, taStage, taInput, taLeft, taSeen, taRest, taBefore, taPairs>>

UpdateStep ==
  \/ \E i \in taLeft : KeepOrDrop(i) \/ MatchOverlap(i) \/ MatchNear(i) \/ LookAcross(i) \/ Spawn(i)
  \/ NextStage \/ Return

AssociationNext ==
  \/ \E raw \in BoundedSeq(Detection, MaxDetections) : Receive(raw)
  \/ \E t \in DOMAIN taTracks : Recognise(t)
  \/ UpdateStep \/ ResetAssociation

AssociationSpec == AssociationInit /\ [][AssociationNext]_associationVars
-----------------------------------------------------------------------------
(* "detections with the highest spatial overlap claim their tracks first"   *)
(* (core/tracker.py:348): when the overlaps are through, no detection and   *)
(* track of a class overlap more than each of the two with what it was      *)
(* matched with instead.  And no detection updates two tracks, or the other *)
(* way round, in any stage.                                                 *)
StrongestOverlapFirst ==
  /\ \A p, q \in taPairs : Meets(p, q) => p = q
  /\ taStage \in {"near", "across", "start"} =>
       \A c \in Overlapping :
         \E p \in taPairs \cap Overlapping : Meets(p, c) /\ ~MoreOverlap(c, p)
=============================================================================
