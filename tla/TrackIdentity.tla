----------------------------- MODULE TrackIdentity -----------------------------
(***************************************************************************)
(* Which watchlist entry the tracks of one camera are taken for.  A frame  *)
(* of the analysis thread applies the plates read since the last one       *)
(* (services/stream_worker.py), updates the tracker, which leaves an entry *)
(* to one track (core/tracker.py), matches faces to tracks, leaves each    *)
(* entry to one track again and raises the alerts (core/pipeline.py).      *)
(*                                                                         *)
(* Boxes are abstracted: which tracks a frame sees, which ghosts an active *)
(* track hides, and which face or plate belongs to which track are inputs  *)
(* (a track may change its class between frames), and so are the scores,   *)
(* of which RedFrom and more are RED and fewer AMBER.  A track that ended  *)
(* gives its id back, for a fresh id of the code.                          *)
(***************************************************************************)
EXTENDS Naturals, FiniteSets, SequencesExt

CONSTANTS IdentityTrack,        \* track ids, numbers: dictionaries keep their order
          FaceEntry,    \* watchlist entries with faces
          PlateEntry,   \* watchlist entries with a plate
          Critical,     \* those with threat level CRITICAL
          MaxScore, RedFrom,
          HideAge,      \* a confirmed track is shown this long unseen, 2
          CriticalHideAge, \* a locked critical one this long, 12
          GlitchAge,    \* a track seen once is dropped after this, 3
          MaxIdentityAge,       \* max_age, 30
          MaxHits,      \* (bound) hits are counted this far
          NoEntry

Entry == FaceEntry \cup PlateEntry

ASSUME IdentityAssumption ==
  /\ IdentityTrack \subseteq Nat \ {0} /\ Critical \subseteq Entry /\ NoEntry \notin Entry
  /\ MaxScore \in Nat /\ RedFrom \in 1..MaxScore /\ MaxHits \in Nat \ {0, 1}
  /\ {HideAge, CriticalHideAge, GlitchAge, MaxIdentityAge} \subseteq Nat
  /\ GlitchAge <= MaxIdentityAge

VARIABLES
  tiTrack,    \* the tracker's tracks, and room for more
  tiAt,       \* how far the frame is: "plates", "faces", or "alerts"
  tiVisible,  \* the tracks update returned
  tiLooked,   \* the tracks whose face this frame has looked at
  tiAlerted   \* watchlist_alerted_tracks

identityVars == <<tiTrack, tiAt, tiVisible, tiLooked, tiAlerted>>

Nobody == [entry |-> NoEntry, score |-> 0]
NoTrack == [held |-> FALSE, age |-> 0, hits |-> 0, who |-> Nobody, locked |-> FALSE,
            matches |-> <<>>]

Suspicion == [entry : Entry, score : 1..MaxScore] \cup {Nobody}
TrackRecord == [held : BOOLEAN, age : 0..MaxIdentityAge, hits : 0..MaxHits, who : Suspicion,
                locked : BOOLEAN, matches : BoundedSeq(Entry \X BOOLEAN, 3)]

IdentityTypeOK ==
  /\ tiTrack \in [IdentityTrack -> TrackRecord]
  /\ \A t \in IdentityTrack : tiTrack[t].locked => tiTrack[t].who # Nobody
  /\ tiAt \in {"plates", "faces", "alerts"}
  /\ {tiVisible, tiLooked, tiAlerted} \subseteq SUBSET IdentityTrack

IdentityInit ==
  /\ tiTrack = [t \in IdentityTrack |-> NoTrack] /\ tiAt = "plates"
  /\ tiVisible = {} /\ tiLooked = {} /\ tiAlerted = {}

Held == {t \in IdentityTrack : tiTrack[t].held}
IsRed(s) == s >= RedFrom
CriticalId(r) == r.who.entry \in Critical
-----------------------------------------------------------------------------
(* A plate on the watchlist names and locks its track at once, whatever it  *)
(* was taken for.  A plate's score, 0.85 and more, is taken as the highest. *)
ApplyPlate(t, e) ==
  /\ tiAt = "plates" /\ t \in Held
  /\ tiTrack' = [tiTrack EXCEPT ![t].who = [entry |-> e, score |-> MaxScore],
                               ![t].locked = TRUE]
  /\ UNCHANGED <<tiAt, tiVisible, tiLooked, tiAlerted>>

(* Who keeps an entry: in the tracker the locked track, then the one seen   *)
(* in this frame, the higher score, the more hits; in the pipeline the      *)
(* locked one, then the higher score.  Tracks that claim one entry are      *)
(* equally critical.                                                        *)
TrackerPrefers(a, b) ==
  \/ a.locked /\ ~b.locked
  \/ /\ a.locked = b.locked
     /\ \/ a.age = 0 /\ b.age # 0
        \/ /\ (a.age = 0) = (b.age = 0)
           /\ \/ a.who.score > b.who.score
              \/ a.who.score = b.who.score /\ a.hits > b.hits

PipelinePrefers(a, b) ==
  \/ a.locked /\ ~b.locked
  \/ a.locked = b.locked /\ a.who.score > b.who.score

(* The tracks that claim an entry, in their order, each against the winner  *)
(* so far.                                                                  *)
Holder(by, tracks, e) ==
  LET claims == SetToSortSeq({t \in IdentityTrack : tracks[t].held /\ tracks[t].who.entry = e}, <)
      Prefers(a, b) == IF by = "tracker" THEN TrackerPrefers(a, b) ELSE PipelinePrefers(a, b)
  IN  FoldLeft(LAMBDA w, t : IF Prefers(tracks[t], tracks[w]) THEN t ELSE w,
               Head(claims), Tail(claims))

(* Mutation: the pipeline leaves the claims of faces to the next frame. *)
Exclusive_late(by, tracks) ==
  [t \in IdentityTrack |->
     LET e == tracks[t].who.entry
     IN  IF by = "tracker" /\ tracks[t].held /\ e # NoEntry /\ Holder(by, tracks, e) # t
         THEN [tracks[t] EXCEPT !.who = Nobody, !.locked = FALSE] ELSE tracks[t]]

Exclusive(by, tracks) ==
  [t \in IdentityTrack |->
     LET e == tracks[t].who.entry
     IN  IF tracks[t].held /\ e # NoEntry /\ Holder(by, tracks, e) # t
         THEN [tracks[t] EXCEPT !.who = Nobody, !.locked = FALSE] ELSE tracks[t]]

(* A frame sees some tracks, ages the others and drops the oldest; one new  *)
(* track at most is enough to meet every order of claims.                   *)
DropAge(r) == IF r.hits <= 1 THEN GlitchAge ELSE MaxIdentityAge
SeenOnce == [NoTrack EXCEPT !.held = TRUE, !.hits = 1]
Aged(r, seen) ==
  CASE ~r.held -> r
    [] r.held /\ seen -> [r EXCEPT !.age = 0,
                            !.hits = IF r.hits < MaxHits THEN r.hits + 1 ELSE r.hits]
    [] r.held /\ ~seen -> IF r.age + 1 > DropAge(r) THEN NoTrack
                          ELSE [r EXCEPT !.age = r.age + 1]

(* How long a track is shown unseen; a critical lock is never taken for a   *)
(* ghost, and of one entry only the first track is shown.                   *)
Shown(r) ==
  r.age <= IF r.locked /\ CriticalId(r) THEN CriticalHideAge
           ELSE IF r.hits >= 2 \/ r.locked THEN HideAge ELSE 1

UpdateTracks ==
  /\ tiAt = "plates"
  /\ \E seen \in SUBSET Held, ghosts \in SUBSET Held,
        new \in {{}} \cup {{t} : t \in IdentityTrack \ Held} :
       LET aged == [t \in IdentityTrack |-> IF t \in new THEN SeenOnce
                                    ELSE Aged(tiTrack[t], t \in seen)]
           after == Exclusive("tracker", aged)
           gone == {t \in Held : ~after[t].held}
       IN  /\ ghosts \subseteq {t \in Held : after[t].held /\ after[t].age > 0
                                  /\ ~(after[t].locked /\ CriticalId(after[t]))}
           /\ tiTrack' = after
           /\ tiVisible' = {t \in IdentityTrack : after[t].held /\ Shown(after[t])} \ ghosts
           /\ tiAlerted' = tiAlerted \ gone
  /\ tiAt' = "faces" /\ tiLooked' = {}
-----------------------------------------------------------------------------
Reds(matches, e) == Cardinality({i \in DOMAIN matches : matches[i] = <<e, TRUE>>})

(* record_biometric_match, with this match already among the last three.    *)
(* A locked track keeps its entry unless a critical one comes, or a RED one *)
(* that is no less critical, has two of three matches and a higher score;   *)
(* an unlocked one locks on a critical RED match or on two of three.        *)
Latched(r, e, s) ==
  LET new == [entry |-> e, score |-> s]
      same == r.who.entry = e
      best == IF same /\ r.who.score > s THEN r.who ELSE new
      crit == e \in Critical
      twice == Reds(r.matches, e) >= 2
      outranked == CriticalId(r) /\ ~crit
      taken == [r EXCEPT !.who = new]
      lock == [r EXCEPT !.who = new, !.locked = TRUE]
  IN  CASE r.locked /\ same /\ IsRed(s)  -> [r EXCEPT !.who = best]
        [] r.locked /\ ~same /\ IsRed(s) ->
             IF ~outranked /\ ((crit /\ ~CriticalId(r)) \/ (twice /\ s > r.who.score))
             THEN taken ELSE r
        [] ~r.locked /\ crit /\ IsRed(s)  -> lock
        [] ~r.locked /\ ~(crit /\ IsRed(s)) /\ twice -> [lock EXCEPT !.who = best]
        [] ~r.locked /\ ~crit /\ IsRed(s) /\ ~twice -> IF outranked THEN r ELSE taken
        [] OTHER -> IF ~r.locked /\ ~IsRed(s) /\ r.who = Nobody THEN taken ELSE r

(* A face of a shown person, or of a critical one just hidden. *)
FaceOf(t) ==
  \/ t \in tiVisible
  \/ tiTrack[t].locked /\ CriticalId(tiTrack[t]) /\ tiTrack[t].age <= 3

MatchFace(t, e, s) ==
  /\ tiAt = "faces" /\ t \in Held \ tiLooked /\ FaceOf(t)
  /\ LET all == Append(tiTrack[t].matches, <<e, IsRed(s)>>)
         last == SubSeq(all, IF Len(all) > 3 THEN 2 ELSE 1, Len(all))
     IN  tiTrack' = [tiTrack EXCEPT ![t] = Latched([@ EXCEPT !.matches = last], e, s)]
  /\ tiLooked' = tiLooked \cup {t}
  /\ UNCHANGED <<tiAt, tiVisible, tiAlerted>>

(* A track without identity may be alerted again. *)
ResolveClaims ==
  /\ tiAt = "faces" /\ tiAt' = "alerts"
  /\ LET after == Exclusive("pipeline", tiTrack)
     IN  /\ tiTrack' = after
         /\ tiAlerted' = {t \in tiAlerted : after[t].held /\ after[t].who # Nobody}
  /\ UNCHANGED <<tiVisible, tiLooked>>

(* A track that is locked, or critical by a RED match, is alerted once, also *)
(* when another suspect takes it over later.                                *)
MustAlert(r) == r.who # Nobody /\ (r.locked \/ (CriticalId(r) /\ IsRed(r.who.score)))

RaiseAlerts ==
  /\ tiAt = "alerts" /\ tiAt' = "plates"
  /\ tiAlerted' = tiAlerted \cup {t \in tiVisible : MustAlert(tiTrack[t])}
  /\ tiVisible' = {} /\ tiLooked' = {}
  /\ UNCHANGED tiTrack

IdentityNext ==
  \/ UpdateTracks \/ ResolveClaims \/ RaiseAlerts
  \/ \E t \in IdentityTrack, e \in PlateEntry : ApplyPlate(t, e)
  \/ \E t \in IdentityTrack, e \in FaceEntry, s \in 1..MaxScore : MatchFace(t, e, s)

IdentitySpec == IdentityInit /\ [][IdentityNext]_identityVars
-----------------------------------------------------------------------------
(* "Under NO circumstances can two tracks simultaneously hold the same      *)
(* entry_id" (core/tracker.py:553), when the frame is published: two passes *)
(* with different orders, matches between them, plates before both.         *)
OneTrackPerEntry ==
  tiAt = "alerts" =>
    \A a, b \in Held : tiTrack[a].who.entry = tiTrack[b].who.entry
                         => a = b \/ tiTrack[a].who = Nobody
=============================================================================
