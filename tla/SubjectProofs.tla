---------------------------- MODULE SubjectProofs ----------------------------
(***************************************************************************)
(* What follows subjects, for every number of tracks, watchlist entries,   *)
(* cameras and dossiers and every setting of the thresholds and times: the *)
(* presence of a track, who it is, its dossier, its stay in a zone, and    *)
(* the detections it is matched with.  Each component is proved from its   *)
(* own specification.                                                      *)
(***************************************************************************)
EXTENDS Presence, TrackIdentity, Handover, Rules, TrackAssociation, SubsequenceProofs

(***************************************************************************)
(* Presence.  process_frame is a composition of steps on the latches of a  *)
(* track.  Each keeps an alerted track short of OutsideFrames frames       *)
(* outside, with an intrusion in the timeline; of a track that was not     *)
(* seen in this frame the unseen streak grows with its age, and that       *)
(* bounds its age.                                                         *)
(***************************************************************************)
LatchType ==
  [alerted : BOOLEAN, outside : {Absent} \cup 0 .. OutsideFrames,
   unseen : {Absent} \cup 0 .. UnseenFrames, lineActive : BOOLEAN,
   misses : {Absent} \cup 0 .. MissFrames, lastAlert : [Zones -> Time \cup {Absent}],
   lastExit : [Zones -> Time \cup {Absent}], shown : SUBSET Events]

HasIntrusion(events) == \E i \in events : i[1] = "intrusion"
ExitsFollow(events) == \A e \in events : e[1] = "exit" => HasIntrusion(events)

(* What every step of process_frame keeps of the latches. *)
Sound(p) ==
  /\ p \in LatchType /\ ExitsFollow(p.shown)
  /\ p.alerted => Get(p.outside) < OutsideFrames /\ HasIntrusion(p.shown)

(* What the constants say of the numbers. *)
LEMMA Numbers ==
  /\ Absent = -1 /\ Start \in Nat /\ Start <= MaxClock /\ Time \subseteq Nat
  /\ 0 \in 0 .. OutsideFrames /\ 0 < OutsideFrames /\ 0 \in 0 .. MissFrames
  /\ \A f : ZoneId(f) \in Zones
  BY PresenceAssumption DEF Absent, Start, Time, ZoneId, Zones

(* The bucket of a time is one of the buckets of the dedup keys. *)
LEMMA BucketOfTime ==
  ASSUME NEW t \in Time PROVE t \div Bucket \in 0 .. MaxClock \div Bucket
<1>1. t \in Nat /\ t <= MaxClock /\ MaxClock \in Nat /\ Bucket \in Nat \ {0}
  BY Numbers, PresenceAssumption DEF Time
<1>2. QED BY <1>1

(* Showing an event adds its dedup key to what was shown. *)
LEMMA ShowKeeps ==
  ASSUME NEW p \in LatchType, NEW kind \in {"intrusion", "exit"}, NEW z \in Zones,
         NEW t \in Time
  PROVE  /\ Show(p, kind, z, t) \in LatchType
         /\ Show(p, kind, z, t) = [p EXCEPT !.shown = p.shown \cup {<<kind, z, t \div Bucket>>}]
<1>1. <<kind, z, t \div Bucket>> \in Events BY BucketOfTime DEF Events
<1>2. QED BY <1>1 DEF Show, LatchType

(* An exit changes nothing but the time of the last one and the timeline,   *)
(* and follows an intrusion.                                                *)
LEMMA ShowExitKeeps ==
  ASSUME NEW p \in LatchType, NEW z \in Zones, NEW t \in Time
  PROVE  LET q == ShowExit(p, z, t)
         IN  /\ q \in LatchType /\ p.shown \subseteq q.shown
             /\ \A e \in q.shown \ p.shown : e[1] = "exit"
             /\ q.alerted = p.alerted /\ q.outside = p.outside /\ q.unseen = p.unseen
             /\ q.lineActive = p.lineActive /\ q.misses = p.misses
             /\ q.lastAlert = p.lastAlert
<1>1. CASE t - Get(p.lastExit[z]) < ExitDebounce BY <1>1 DEF ShowExit
<1>2. CASE ~(t - Get(p.lastExit[z]) < ExitDebounce)
  <2> DEFINE r == [p EXCEPT !.lastExit[z] = t]
  <2>1. ShowExit(p, z, t) = Show(r, "exit", z, t) BY <1>2 DEF ShowExit
  <2>2. /\ r \in LatchType /\ r.shown = p.shown
        /\ r.alerted = p.alerted /\ r.outside = p.outside /\ r.unseen = p.unseen
        /\ r.lineActive = p.lineActive /\ r.misses = p.misses /\ r.lastAlert = p.lastAlert
    BY DEF LatchType
  <2> HIDE DEF r
  <2>3. /\ Show(r, "exit", z, t) \in LatchType
        /\ Show(r, "exit", z, t)
             = [r EXCEPT !.shown = r.shown \cup {<<"exit", z, t \div Bucket>>}]
    BY <2>2, ShowKeeps
  <2>4. QED BY <2>1, <2>2, <2>3 DEF LatchType
<1>3. QED BY <1>1, <1>2

(* More events in which no exit is new follow as before. *)
LEMMA ExitsStillFollow ==
  ASSUME NEW events, NEW more, events \subseteq more, ExitsFollow(events), HasIntrusion(events)
  PROVE  ExitsFollow(more) /\ HasIntrusion(more)
  BY DEF ExitsFollow, HasIntrusion

(* The latch of a line keeps the latches sound. *)
LEMMA LineLatchKeeps ==
  ASSUME NEW p \in LatchType, Sound(p), NEW f, NEW in \in BOOLEAN
  PROVE  Sound(LineLatch(p, f, in)) /\ LineLatch(p, f, in).unseen = p.unseen
<1> DEFINE q == LineLatch(p, f, in)
<1>1. PICK active \in BOOLEAN, n \in {Absent} \cup 0 .. MissFrames :
         q \in {p, [p EXCEPT !.lineActive = active, !.misses = n]}
  <2>1. Get(p.misses) \in Nat /\ MissFrames \in Nat
    BY PresenceAssumption, Numbers DEF LatchType, Get
  <2>2. CASE f # "line" \/ (~in /\ ~p.lineActive) BY <2>2 DEF LineLatch
  <2>3. CASE f = "line" /\ in
    <3>1. q = [p EXCEPT !.lineActive = TRUE, !.misses = 0] BY <2>3 DEF LineLatch
    <3>2. QED BY <3>1, Numbers
  <2>4. CASE f = "line" /\ ~in /\ p.lineActive /\ Get(p.misses) + 1 < MissFrames
    <3>1. q = [p EXCEPT !.misses = Get(p.misses) + 1] BY <2>4 DEF LineLatch
    <3>2. q = [p EXCEPT !.lineActive = TRUE, !.misses = Get(p.misses) + 1]
      BY <2>4, <3>1 DEF LatchType
    <3>3. Get(p.misses) + 1 \in 0 .. MissFrames BY <2>1, <2>4
    <3>4. QED BY <3>2, <3>3
  <2>5. CASE f = "line" /\ ~in /\ p.lineActive /\ ~(Get(p.misses) + 1 < MissFrames)
    <3>1. q = [p EXCEPT !.lineActive = FALSE, !.misses = Absent] BY <2>5 DEF LineLatch
    <3>2. QED BY <3>1
  <2>6. QED BY <2>2, <2>3, <2>4, <2>5
<1> HIDE DEF q
<1>2. /\ q \in LatchType /\ q.alerted = p.alerted /\ q.outside = p.outside
      /\ q.shown = p.shown /\ q.unseen = p.unseen
  BY <1>1 DEF LatchType
<1>3. QED BY <1>2 DEF Sound, q

(* An alert comes with its event, and starts with no frame outside. *)
LEMMA RaiseIntrusionKeeps ==
  ASSUME NEW p \in LatchType, Sound(p), NEW z \in Zones, NEW t \in Time
  PROVE  Sound(RaiseIntrusion(p, z, t))
<1> DEFINE q == RaiseIntrusion(p, z, t)
<1>1. CASE p.alerted \/ t - Get(p.lastAlert[z]) < Cooldown
  <2>1. q = [p EXCEPT !.outside = 0] BY <1>1 DEF RaiseIntrusion
  <2>2. QED BY <2>1, Numbers DEF Sound, LatchType, Get
<1>2. CASE ~(p.alerted \/ t - Get(p.lastAlert[z]) < Cooldown)
  <2> DEFINE r == [p EXCEPT !.alerted = TRUE, !.outside = 0, !.lastAlert[z] = t]
  <2>1. q = Show(r, "intrusion", z, t) BY <1>2 DEF RaiseIntrusion
  <2>2. r \in LatchType /\ r.outside = 0 /\ r.shown = p.shown /\ r.alerted
    BY Numbers DEF LatchType
  <2> HIDE DEF r
  <2>3. q \in LatchType /\ q = [r EXCEPT !.shown = r.shown \cup {<<"intrusion", z, t \div Bucket>>}]
    BY <2>1, <2>2, ShowKeeps
  <2> HIDE DEF q
  <2>4. q.outside = 0 /\ q.shown = p.shown \cup {<<"intrusion", z, t \div Bucket>>}
    BY <2>2, <2>3 DEF LatchType
  <2>5. HasIntrusion(q.shown)
    <3> DEFINE i == <<"intrusion", z, t \div Bucket>>
    <3>1. i[1] = "intrusion" OBVIOUS
    <3>2. i \in q.shown BY <2>4
    <3> HIDE DEF i
    <3>3. QED BY <3>1, <3>2 DEF HasIntrusion
  <2>6. ExitsFollow(q.shown) BY <2>5 DEF ExitsFollow
  <2>7. QED BY <2>3, <2>4, <2>5, <2>6, Numbers DEF Sound, Get, q
<1>3. QED BY <1>1, <1>2

(* The count outside stays short of its limit, or ends the presence. *)
LEMMA CountOutsideKeeps ==
  ASSUME NEW p \in LatchType, Sound(p), NEW z \in Zones, NEW t \in Time
  PROVE  /\ Sound(CountOutside(p, z, t))
         /\ CountOutside(p, z, t).alerted => p.alerted
<1> DEFINE q == CountOutside(p, z, t)
<1>1. Get(p.outside) \in Nat /\ OutsideFrames \in Nat
  BY PresenceAssumption, Numbers DEF LatchType, Get
<1>2. CASE ~p.alerted
  <2>1. q = [p EXCEPT !.outside = 0] BY <1>2 DEF CountOutside
  <2>2. QED BY <1>2, <2>1, Numbers DEF Sound, LatchType
<1>3. CASE p.alerted /\ Get(p.outside) + 1 < OutsideFrames
  <2>1. q = [p EXCEPT !.outside = Get(p.outside) + 1] BY <1>3 DEF CountOutside
  <2>2. Get(p.outside) + 1 \in 0 .. OutsideFrames BY <1>1, <1>3
  <2>3. /\ q \in LatchType /\ q.alerted = p.alerted /\ q.shown = p.shown
        /\ q.outside = Get(p.outside) + 1
    BY <2>1, <2>2 DEF LatchType
  <2> HIDE DEF q
  <2>4. Get(q.outside) < OutsideFrames BY <1>1, <1>3, <2>3, Numbers DEF Get
  <2>5. QED BY <1>3, <2>3, <2>4 DEF Sound, q
<1>4. CASE p.alerted /\ ~(Get(p.outside) + 1 < OutsideFrames)
  <2> DEFINE r == [p EXCEPT !.alerted = FALSE, !.outside = Get(p.outside) + 1,
                            !.lineActive = FALSE, !.misses = Absent]
  <2>1. q = ShowExit(r, z, t) BY <1>4 DEF CountOutside
  <2>2. Get(p.outside) + 1 \in 0 .. OutsideFrames BY <1>1, <1>4 DEF Sound
  <2>3. r \in LatchType /\ r.shown = p.shown /\ ~r.alerted BY <2>2 DEF LatchType
  <2> HIDE DEF r
  <2>4. q \in LatchType /\ p.shown \subseteq q.shown /\ ~q.alerted
    BY <2>1, <2>3, ShowExitKeeps
  <2>5. ExitsFollow(q.shown) BY <1>4, <2>4, ExitsStillFollow DEF Sound
  <2>6. QED BY <2>4, <2>5 DEF Sound
<1>5. QED BY <1>2, <1>3, <1>4

(* The check of a zone keeps the latches sound. *)
LEMMA CheckZoneKeeps ==
  ASSUME NEW p \in LatchType, Sound(p), NEW f, NEW in \in BOOLEAN, NEW t \in Time
  PROVE  Sound(CheckZone(p, f, in, t))
<1> DEFINE q == LineLatch(p, f, in)
<1>1. Sound(q) /\ q \in LatchType BY LineLatchKeeps DEF Sound
<1>2. ZoneId(f) \in Zones BY Numbers
<1>3. Sound(RaiseIntrusion(q, ZoneId(f), t)) BY <1>1, <1>2, RaiseIntrusionKeeps
<1>4. Sound(CountOutside(q, ZoneId(f), t)) BY <1>1, <1>2, CountOutsideKeeps
<1>5. QED BY <1>3, <1>4 DEF CheckZone

(* The unseen streak grows by one, starts over or ends the presence. *)
LEMMA ExpireUnseenKeeps ==
  ASSUME NEW p \in LatchType, Sound(p), NEW visible \in BOOLEAN, NEW dropped \in BOOLEAN,
         NEW z \in Zones, NEW t \in Time
  PROVE  LET q == ExpireUnseen(p, visible, dropped, z, t)
         IN  /\ Sound(q)
             /\ q.alerted => p.alerted
             /\ q.alerted /\ visible => q.unseen = Absent
             /\ q.alerted /\ ~visible => Get(q.unseen) = Get(p.unseen) + 1
<1> DEFINE q == ExpireUnseen(p, visible, dropped, z, t)
<1>1. Get(p.unseen) \in Nat /\ UnseenFrames \in Nat
  BY PresenceAssumption, Numbers DEF LatchType, Get
<1>2. CASE ~p.alerted BY <1>2 DEF ExpireUnseen
<1>3. CASE p.alerted /\ visible
  <2>1. q = [p EXCEPT !.unseen = Absent] BY <1>3 DEF ExpireUnseen
  <2>2. QED BY <1>3, <2>1 DEF Sound, LatchType
<1>4. CASE p.alerted /\ ~visible /\ Get(p.unseen) < UnseenFrames
  <2>1. q = [p EXCEPT !.unseen = Get(p.unseen) + 1] BY <1>4 DEF ExpireUnseen
  <2>2. Get(p.unseen) + 1 \in 0 .. UnseenFrames BY <1>1, <1>4
  <2>3. /\ q \in LatchType /\ q.alerted = p.alerted /\ q.shown = p.shown
        /\ q.outside = p.outside /\ q.unseen = Get(p.unseen) + 1
    BY <2>1, <2>2 DEF LatchType
  <2> HIDE DEF q
  <2>4. Get(q.unseen) = Get(p.unseen) + 1 BY <1>1, <2>3, Numbers DEF Get
  <2>5. QED BY <1>4, <2>3, <2>4 DEF Sound, q
<1>5. CASE p.alerted /\ ~visible /\ ~(Get(p.unseen) < UnseenFrames)
  <2> DEFINE r == [p EXCEPT !.alerted = FALSE, !.outside = Absent, !.lineActive = FALSE,
                            !.misses = Absent, !.unseen = Absent]
  <2>1. q = IF dropped THEN r ELSE ShowExit(r, z, t) BY <1>5 DEF ExpireUnseen
  <2>2. r \in LatchType /\ r.shown = p.shown /\ ~r.alerted BY DEF LatchType
  <2> HIDE DEF r
  <2>3. q \in LatchType /\ p.shown \subseteq q.shown /\ ~q.alerted
    BY <2>1, <2>2, ShowExitKeeps
  <2>4. ExitsFollow(q.shown) BY <1>5, <2>3, ExitsStillFollow DEF Sound
  <2>5. QED BY <2>3, <2>4 DEF Sound
<1>6. QED BY <1>2, <1>3, <1>4, <1>5

(* A dropped track leaves its events and nothing else. *)
LEMMA TerminateKeeps ==
  ASSUME NEW p \in LatchType, Sound(p), NEW z \in Zones, NEW t \in Time
  PROVE  LET q == Terminate(p, z, t)
         IN  /\ Sound(q)
             /\ q = [NoLatches EXCEPT !.shown = q.shown]
<1> DEFINE q == Terminate(p, z, t)
           events == (IF p.alerted THEN ShowExit(p, z, t) ELSE p).shown
<1>1. events \in SUBSET Events /\ ExitsFollow(events)
  <2>1. CASE p.alerted
    BY <2>1, ShowExitKeeps, ExitsStillFollow DEF Sound, LatchType
  <2>2. CASE ~p.alerted BY <2>2 DEF Sound, LatchType
  <2>3. QED BY <2>1, <2>2
<1>2. q = [NoLatches EXCEPT !.shown = events] BY DEF Terminate
<1> HIDE DEF events
<1>3. q \in LatchType /\ q.shown = events /\ ~q.alerted
  BY <1>1, <1>2 DEF NoLatches, LatchType, Never
<1>4. QED BY <1>1, <1>2, <1>3 DEF Sound, NoLatches
-----------------------------------------------------------------------------
(* What the latches say of the track, besides being sound: the age of an    *)
(* alerted track is accounted for by the frames it was shown though not     *)
(* matched, and by its unseen streak.                                       *)
AgeAccounted == alerted => age <= HideLimit + Get(unseen)

PresenceInv ==
  /\ TypeOK /\ PresenceIsFresh /\ NoResidue
  /\ Sound(Latches) /\ AgeAccounted

(* The latches of the state are a record of latches. *)
LEMMA LatchesAre ==
  ASSUME TypeOK PROVE Latches \in LatchType
  BY DEF TypeOK, Latches, LatchType

(* Adopting a record sets each latch. *)
LEMMA AdoptIs ==
  ASSUME NEW p \in LatchType, Adopt(p)
  PROVE  /\ Latches' = p
         /\ alerted' = p.alerted /\ outside' = p.outside /\ unseen' = p.unseen
         /\ lineActive' = p.lineActive /\ misses' = p.misses
         /\ lastAlert' = p.lastAlert /\ lastExit' = p.lastExit /\ shown' = p.shown
<1>1. /\ alerted' = p.alerted /\ outside' = p.outside /\ unseen' = p.unseen
      /\ lineActive' = p.lineActive /\ misses' = p.misses
      /\ lastAlert' = p.lastAlert /\ lastExit' = p.lastExit /\ shown' = p.shown
  BY DEF Adopt
<1>2. p = [alerted |-> p.alerted, outside |-> p.outside, unseen |-> p.unseen,
           lineActive |-> p.lineActive, misses |-> p.misses, lastAlert |-> p.lastAlert,
           lastExit |-> p.lastExit, shown |-> p.shown]
  BY DEF LatchType
<1>3. QED BY ONLY <1>1, <1>2 DEF Latches

(* A whole frame: one that saw the track starts its unseen streak over, one *)
(* that did not extends it, and one that dropped it forgets all but events. *)
LEMMA ProcessFrameKeeps ==
  ASSUME NEW p \in LatchType, Sound(p), NEW visible \in BOOLEAN, NEW dropped \in BOOLEAN,
         NEW in \in BOOLEAN, NEW t \in Time
  PROVE  LET q == ProcessFrame(p, visible, dropped, in, t)
         IN  /\ Sound(q)
             /\ dropped => q = [NoLatches EXCEPT !.shown = q.shown]
             /\ q.alerted /\ visible /\ ~dropped => q.unseen = Absent
             /\ q.alerted /\ ~visible /\ ~dropped =>
                  p.alerted /\ Get(q.unseen) = Get(p.unseen) + 1
<1> DEFINE z == ZoneId(fence)
           checked == IF visible THEN CheckZone(p, fence, in, t) ELSE p
           expired == ExpireUnseen(checked, visible, dropped, z, t)
           q == ProcessFrame(p, visible, dropped, in, t)
<1>1. Sound(checked) /\ checked \in LatchType /\ (~visible => checked = p)
  BY CheckZoneKeeps DEF Sound
<1>2. z \in Zones BY Numbers
<1>3. q = IF dropped THEN Terminate(expired, z, t) ELSE expired BY DEF ProcessFrame
<1> HIDE DEF checked, z, q
<1>4. /\ Sound(expired) /\ (expired.alerted => checked.alerted)
      /\ expired.alerted /\ visible => expired.unseen = Absent
      /\ expired.alerted /\ ~visible => Get(expired.unseen) = Get(checked.unseen) + 1
  BY <1>1, <1>2, ExpireUnseenKeeps
<1> HIDE DEF expired
<1>5. CASE dropped
  <2>1. expired \in LatchType BY <1>4 DEF Sound
  <2>2. /\ Sound(Terminate(expired, z, t))
        /\ Terminate(expired, z, t)
             = [NoLatches EXCEPT !.shown = Terminate(expired, z, t).shown]
    BY <1>2, <1>4, <2>1, TerminateKeeps
  <2>3. QED BY <1>3, <1>5, <2>2 DEF q
<1>6. CASE ~dropped BY <1>1, <1>3, <1>4, <1>6 DEF q
<1>7. QED BY <1>5, <1>6
-----------------------------------------------------------------------------
(* A frame leaves the latches typed and sound. *)
LEMMA FrameKeeps ==
  ASSUME PresenceInv, Tick, NEW visible \in BOOLEAN, NEW dropped \in BOOLEAN,
         NEW in \in BOOLEAN, Adopt(ProcessFrame(Latches, visible, dropped, in, clock'))
  PROVE  /\ clock' \in Time /\ Sound(Latches') /\ Latches' \in LatchType
         /\ dropped => Latches' = [NoLatches EXCEPT !.shown = shown']
         /\ alerted' /\ visible /\ ~dropped => unseen' = Absent
         /\ alerted' /\ ~visible /\ ~dropped =>
              alerted /\ Get(unseen') = Get(unseen) + 1
<1> DEFINE q == ProcessFrame(Latches, visible, dropped, in, clock')
<1>1. clock' \in Time
  <2>1. PICK g \in Gap : clock + g <= MaxClock /\ clock' = clock + g BY DEF Tick
  <2>2. /\ g \in Nat /\ MaxClock \in Nat /\ Start \in Nat /\ clock \in Start .. MaxClock
    BY PresenceAssumption, Numbers DEF PresenceInv, TypeOK, Time
  <2>3. QED BY <2>1, <2>2 DEF Time
<1>2. /\ Latches \in LatchType /\ Sound(Latches)
      /\ Latches.alerted = alerted /\ Latches.unseen = unseen
  BY LatchesAre DEF PresenceInv, Latches
<1> HIDE DEF q
<1>3. /\ Sound(q) /\ q \in LatchType
      /\ dropped => q = [NoLatches EXCEPT !.shown = q.shown]
      /\ q.alerted /\ visible /\ ~dropped => q.unseen = Absent
      /\ q.alerted /\ ~visible /\ ~dropped =>
           Latches.alerted /\ Get(q.unseen) = Get(Latches.unseen) + 1
  BY <1>1, <1>2, ProcessFrameKeeps DEF Sound, q
<1>4. Adopt(q) BY DEF q
<1>5. /\ Latches' = q /\ alerted' = q.alerted /\ unseen' = q.unseen /\ shown' = q.shown
  BY ONLY <1>3, <1>4, AdoptIs
<1>6. QED BY <1>1, <1>2, <1>3, <1>5

(* Sound latches and a track of the right shape are a typed state. *)
LEMMA TypedState ==
  ASSUME Latches' \in LatchType, clock' \in Time, fence' \in Fence,
         track' \in {"none", "live", "gone"}, age' \in 0 .. MaxAge,
         hits' \in 0 .. 3, inside' \in BOOLEAN
  PROVE  TypeOK'
  BY DEF TypeOK, Latches, LatchType

(* A frame that shows the track. *)
LEMMA SeenTrack ==
  ASSUME PresenceInv, NEW in \in BOOLEAN, Tick, fence' = fence,
         track' = "live", age' = 0, hits' \in 1 .. 3, inside' = in,
         Adopt(ProcessFrame(Latches, TRUE, FALSE, in, clock'))
  PROVE  PresenceInv'
<1>1. /\ clock' \in Time /\ Sound(Latches') /\ Latches' \in LatchType
      /\ alerted' => unseen' = Absent
  BY FrameKeeps
<1>2. TypeOK'
  <2>1. 0 \in 0 .. MaxAge BY PresenceAssumption
  <2>2. QED BY <1>1, <2>1, TypedState DEF PresenceInv, TypeOK
<1>3. 0 <= HideLimit' + UnseenFrames /\ 0 <= HideLimit' + 0
  <2>1. HideLimit' \in Nat BY DEF HideLimit
  <2>2. UnseenFrames \in Nat BY PresenceAssumption
  <2> DEFINE h == HideLimit'
  <2>3. h \in Nat BY <2>1
  <2> HIDE DEF h
  <2>4. 0 <= h + UnseenFrames /\ 0 <= h + 0 BY ONLY <2>2, <2>3
  <2>5. QED BY <2>4 DEF h
<1>4. alerted' => Get(outside)' < OutsideFrames BY <1>1 DEF Sound, Latches, Get
<1>5. PresenceIsFresh'
  <2>1. age' <= HideLimit' + UnseenFrames BY <1>3, Zenon
  <2>2. QED BY <1>1, <1>4, <2>1 DEF PresenceIsFresh
<1>6. NoResidue' BY DEF NoResidue
<1>7. AgeAccounted'
  <2>1. alerted' => Get(unseen)' = 0 BY <1>1 DEF Get
  <2>2. alerted' => age' <= HideLimit' + Get(unseen)' BY <1>3, <2>1, Zenon
  <2>3. QED BY <2>2 DEF AgeAccounted
<1>8. Sound(Latches)' BY <1>1 DEF Sound
<1>9. QED BY ONLY <1>2, <1>5, <1>6, <1>7, <1>8 DEF PresenceInv

(* A track appears. *)
LEMMA EnterTrackKeeps ==
  ASSUME PresenceInv, NEW in \in BOOLEAN, EnterTrack(in) PROVE PresenceInv'
<1>1. hits' \in 1 .. 3 BY DEF EnterTrack
<1>2. QED BY <1>1, SeenTrack DEF EnterTrack

(* The track is matched. *)
LEMMA MatchTrackKeeps ==
  ASSUME PresenceInv, NEW in \in BOOLEAN, MatchTrack(in) PROVE PresenceInv'
<1>1. hits' \in 1 .. 3 BY DEF MatchTrack, PresenceInv, TypeOK
<1>2. track' = "live" BY DEF MatchTrack
<1>3. QED BY <1>1, <1>2, SeenTrack DEF MatchTrack

(* The track is missed, and may be dropped. *)
LEMMA MissTrackKeeps ==
  ASSUME PresenceInv, NEW hidden \in BOOLEAN, MissTrack(hidden) PROVE PresenceInv'
<1> DEFINE dropped == age + 1 > DropLimit
           visible == ~dropped /\ ~hidden /\ age + 1 <= HideLimit
<1>1. /\ Tick /\ hits' = hits /\ inside' = inside /\ fence' = fence /\ track = "live"
      /\ track' = (IF dropped THEN "gone" ELSE "live")
      /\ age' = (IF dropped THEN 0 ELSE age + 1)
      /\ Adopt(ProcessFrame(Latches, visible, dropped, inside, clock'))
  BY DEF MissTrack
<1>2. /\ age \in Nat /\ DropLimit \in Nat /\ DropLimit <= MaxAge /\ MaxAge \in Nat
      /\ HideLimit \in {1, 2} /\ HideLimit' = HideLimit /\ UnseenFrames \in Nat
      /\ inside \in BOOLEAN
  BY <1>1, PresenceAssumption DEF PresenceInv, TypeOK, DropLimit, HideLimit
<1>3. dropped \in BOOLEAN /\ visible \in BOOLEAN /\ (visible => ~dropped) OBVIOUS
<1>4. /\ ~dropped => age + 1 <= MaxAge
      /\ visible => age + 1 <= HideLimit
  BY <1>2
<1>5. /\ TypeOK /\ AgeAccounted /\ Sound(Latches) BY DEF PresenceInv
<1> HIDE DEF dropped, visible
<1>6. /\ clock' \in Time /\ Sound(Latches') /\ Latches' \in LatchType
      /\ dropped => Latches' = [NoLatches EXCEPT !.shown = shown']
      /\ alerted' /\ visible /\ ~dropped => unseen' = Absent
      /\ alerted' /\ ~visible /\ ~dropped => alerted /\ Get(unseen') = Get(unseen) + 1
  BY <1>1, <1>2, <1>3, FrameKeeps
<1>7. /\ dropped => /\ ~alerted' /\ ~lineActive' /\ outside' = Absent /\ unseen' = Absent
                    /\ misses' = Absent /\ lastAlert' = Never /\ lastExit' = Never
      /\ unseen' \in {Absent} \cup 0 .. UnseenFrames
      /\ alerted' => Get(outside)' < OutsideFrames
  <2>1. unseen' \in {Absent} \cup 0 .. UnseenFrames BY <1>6 DEF LatchType, Latches
  <2>2. alerted' => Get(outside)' < OutsideFrames BY <1>6 DEF Sound, Latches, Get
  <2>3. ASSUME dropped
        PROVE /\ ~alerted' /\ ~lineActive' /\ outside' = Absent /\ unseen' = Absent
              /\ misses' = Absent /\ lastAlert' = Never /\ lastExit' = Never
    BY <1>6, <2>3 DEF NoLatches, Latches
  <2>4. QED BY <2>1, <2>2, <2>3
<1>8. TypeOK'
  <2>1. age' \in 0 .. MaxAge /\ track' \in {"none", "live", "gone"}
    BY <1>1, <1>2, <1>4
  <2>2. hits' \in 0 .. 3 /\ inside' \in BOOLEAN /\ fence' \in Fence
    BY <1>1, <1>5 DEF TypeOK
  <2>3. QED BY <1>6, <2>1, <2>2, TypedState
<1>9. Get(unseen') \in 0 .. UnseenFrames /\ (unseen' = Absent => Get(unseen') = 0)
  BY <1>2, <1>7, Numbers DEF Get
<1>10. alerted' => age' <= HideLimit + Get(unseen') /\ age' # 0 /\ ~dropped
  <2> SUFFICES ASSUME alerted' PROVE age' <= HideLimit + Get(unseen') /\ age' # 0 /\ ~dropped
    OBVIOUS
  <2>1. ~dropped BY <1>7
  <2>2. age' = age + 1 BY <1>1, <2>1
  <2>3. CASE visible BY <1>2, <1>4, <1>6, <1>9, <2>1, <2>2, <2>3
  <2>4. CASE ~visible
    <3>1. alerted /\ Get(unseen') = Get(unseen) + 1 BY <1>6, <2>1, <2>4
    <3>2. age <= HideLimit + Get(unseen) BY <1>5, <3>1 DEF AgeAccounted
    <3>3. Get(unseen) \in Int BY <1>5, PresenceAssumption, Numbers DEF TypeOK, Get
    <3>4. QED BY <1>2, <2>1, <2>2, <3>1, <3>2, <3>3
  <2>5. QED BY <2>3, <2>4
<1>11. AgeAccounted' BY <1>2, <1>10 DEF AgeAccounted, Get
<1>12. PresenceIsFresh'
  BY <1>1, <1>2, <1>7, <1>8, <1>9, <1>10 DEF PresenceIsFresh, TypeOK
<1>13. NoResidue' BY <1>1, <1>7 DEF NoResidue
<1>14. QED BY <1>6, <1>8, <1>11, <1>12, <1>13 DEF PresenceInv

(* The operator draws another fence. *)
LEMMA SetFenceKeeps ==
  ASSUME PresenceInv, NEW f \in Fence, NEW in \in BOOLEAN, SetFence(f, in)
  PROVE  PresenceInv'
<1>1. TypeOK' BY DEF PresenceInv, TypeOK, SetFence
<1>2. PresenceIsFresh' /\ NoResidue' /\ AgeAccounted'
  BY DEF PresenceInv, PresenceIsFresh, NoResidue, AgeAccounted, SetFence, HideLimit, Get
<1>3. Sound(Latches)'
  <2>1. Latches' \in LatchType BY <1>1 DEF TypeOK, Latches, LatchType
  <2>2. QED BY <2>1 DEF PresenceInv, Sound, Latches, SetFence
<1>4. QED BY <1>1, <1>2, <1>3 DEF PresenceInv

(* With nothing latched and nothing shown the invariant is plain. *)
LEMMA FreshStart ==
  /\ NoLatches \in LatchType /\ Sound(NoLatches)
  BY DEF NoLatches, LatchType, Never, Sound, ExitsFollow

(* The stream restarts and the tracks with it. *)
LEMMA ResetEpochKeeps ==
  ASSUME PresenceInv, ResetEpoch PROVE PresenceInv'
<1>1. Latches' = NoLatches /\ ~alerted' /\ track' = "none"
  BY FreshStart, AdoptIs DEF ResetEpoch, NoLatches
<1>2. TypeOK'
  <2>1. clock' \in Time /\ fence' \in Fence BY DEF ResetEpoch, PresenceInv, TypeOK
  <2>2. track' = "none" /\ age' = 0 /\ hits' = 0 /\ inside' = FALSE BY DEF ResetEpoch
  <2>3. 0 \in 0 .. MaxAge /\ 0 \in 0 .. 3 BY PresenceAssumption
  <2>4. Latches' \in LatchType BY <1>1, FreshStart
  <2>5. QED BY <2>1, <2>2, <2>3, <2>4, TypedState
<1>3. NoResidue' BY DEF NoResidue, ResetEpoch, Adopt, NoLatches
<1>4. PresenceIsFresh' /\ AgeAccounted' BY <1>1 DEF PresenceIsFresh, AgeAccounted
<1>5. QED BY <1>1, <1>2, <1>3, <1>4, FreshStart DEF PresenceInv

(* The presence of a track is sound, for every threshold and every pace of  *)
(* frames, fence changes and epoch resets (MiniPipeline.process_frame).     *)
THEOREM PresenceInvariant == Spec => []PresenceInv
<1>1. Init => PresenceInv
  <2> SUFFICES ASSUME Init PROVE PresenceInv OBVIOUS
  <2>1. Latches = NoLatches BY DEF Init, Latches, NoLatches
  <2>2. TypeOK
    <3>1. clock \in Time /\ fence \in Fence /\ 0 \in 0 .. MaxAge /\ 0 \in 0 .. 3
      BY PresenceAssumption, Numbers DEF Init, Time, Start
    <3>2. track = "none" /\ age = 0 /\ hits = 0 /\ inside = FALSE BY DEF Init
    <3>3. Latches \in LatchType BY <2>1, FreshStart
    <3>4. QED BY <3>1, <3>2, <3>3 DEF TypeOK, Latches, LatchType
  <2>3. QED BY <2>1, <2>2, FreshStart
       DEF Init, PresenceInv, PresenceIsFresh, NoResidue, AgeAccounted
<1>2. PresenceInv /\ [Next]_vars => PresenceInv'
  <2> SUFFICES ASSUME PresenceInv, [Next]_vars PROVE PresenceInv' OBVIOUS
  <2>1. ASSUME NEW in \in BOOLEAN, EnterTrack(in) PROVE PresenceInv'
    BY <2>1, EnterTrackKeeps
  <2>2. ASSUME NEW in \in BOOLEAN, MatchTrack(in) PROVE PresenceInv'
    BY <2>2, MatchTrackKeeps
  <2>3. ASSUME NEW in \in BOOLEAN, NEW f \in Fence, SetFence(f, in) PROVE PresenceInv'
    BY <2>3, SetFenceKeeps
  <2>4. ASSUME NEW hidden \in BOOLEAN, MissTrack(hidden) PROVE PresenceInv'
    BY <2>4, MissTrackKeeps
  <2>5. CASE ResetEpoch BY <2>5, ResetEpochKeeps
  <2>6. CASE UNCHANGED vars
    BY <2>6 DEF vars, trackVars, latches, PresenceInv, TypeOK, PresenceIsFresh, NoResidue,
       AgeAccounted, Sound, Latches, HideLimit, Get
  <2>7. QED BY <2>1, <2>2, <2>3, <2>4, <2>5, <2>6 DEF Next
<1>3. QED BY <1>1, <1>2, PTL DEF Spec

(* The latches of the track are always of their types. *)
THEOREM PresenceTypeCorrect == Spec => []TypeOK
<1>1. PresenceInv => TypeOK BY DEF PresenceInv
<1>2. QED BY <1>1, PresenceInvariant, PTL

(* No presence is kept alive by a track that is not there. *)
THEOREM PresenceStaysFresh == Spec => []PresenceIsFresh
<1>1. PresenceInv => PresenceIsFresh BY DEF PresenceInv
<1>2. QED BY <1>1, PresenceInvariant, PTL

(* prune_track forgets the whole of a dropped track. *)
THEOREM PresenceLeavesNothing == Spec => []NoResidue
<1>1. PresenceInv => NoResidue BY DEF PresenceInv
<1>2. QED BY <1>1, PresenceInvariant, PTL

(* No exit reaches the timeline before an intrusion did. *)
THEOREM PresenceExitsFollow == Spec => []ExitsFollowIntrusions
<1>1. PresenceInv => ExitsFollowIntrusions
  BY DEF PresenceInv, Sound, Latches, ExitsFollow, HasIntrusion, ExitsFollowIntrusions
<1>2. QED BY <1>1, PresenceInvariant, PTL
-----------------------------------------------------------------------------
(***************************************************************************)
(* Identities.  Exclusive leaves an entry to its Holder, which is one      *)
(* track, whatever the order in which claims are preferred.                *)
(***************************************************************************)
IdentityInv == IdentityTypeOK /\ OneTrackPerEntry

(* A suspicion names an entry with its score, or is of nobody. *)
LEMMA SuspicionIs ==
  /\ Nobody \in Suspicion /\ NoTrack \in TrackRecord /\ SeenOnce \in TrackRecord
  /\ \A w \in Suspicion : w # Nobody => w.entry \in Entry /\ w.score \in 1..MaxScore
  /\ \A w \in Suspicion : w.entry = NoEntry <=> w = Nobody
  /\ \A w \in Suspicion : w.entry = NoEntry \/ w.entry \in Entry
  /\ \A e \in Entry, n \in 1..MaxScore : /\ [entry |-> e, score |-> n] \in Suspicion
                                         /\ [entry |-> e, score |-> n] # Nobody
<1>1. <<>> \in BoundedSeq(Entry \X BOOLEAN, 3)
  <2>1. <<>> \in [1..0 -> Entry \X BOOLEAN] /\ 0 \in 0..3 OBVIOUS
  <2>2. QED BY <2>1 DEF BoundedSeq, SeqOf
<1> DEFINE B == BoundedSeq(Entry \X BOOLEAN, 3)
<1> HIDE DEF B
<1>2. Nobody \in Suspicion BY DEF Suspicion
<1>3. /\ \A w \in Suspicion : w # Nobody => w.entry \in Entry /\ w.score \in 1..MaxScore
      /\ Nobody.entry = NoEntry
  BY DEF Suspicion, Nobody
<1>4. NoTrack \in TrackRecord
  <2>1. 0 \in 0..MaxIdentityAge /\ 0 \in 0..MaxHits BY IdentityAssumption
  <2>2. QED BY <1>1, <1>2, <2>1 DEF NoTrack, TrackRecord
<1>5. SeenOnce \in TrackRecord
  <2>1. 1 \in 0..MaxHits BY IdentityAssumption
  <2>2. QED BY <1>4, <2>1 DEF SeenOnce, TrackRecord
<1>6. NoEntry \notin Entry BY IdentityAssumption
<1>7. ASSUME NEW e \in Entry, NEW n \in 1..MaxScore
      PROVE  /\ [entry |-> e, score |-> n] \in Suspicion
             /\ [entry |-> e, score |-> n] # Nobody
  <2>1. [entry |-> e, score |-> n].entry = e OBVIOUS
  <2>2. QED BY <1>3, <1>6, <2>1 DEF Suspicion
<1>8. QED BY <1>2, <1>3, <1>4, <1>5, <1>6, <1>7

(* Exclusive takes identities away and gives none.                         *)
LEMMA ExclusiveKeeps ==
  ASSUME NEW by \in {"tracker", "pipeline"}, NEW tracks \in [IdentityTrack -> TrackRecord],
         \A t \in IdentityTrack : tracks[t].locked => tracks[t].who # Nobody
  PROVE  LET after == Exclusive(by, tracks)
         IN  /\ after \in [IdentityTrack -> TrackRecord]
             /\ \A t \in IdentityTrack : after[t].locked => after[t].who # Nobody
             /\ \A a, b \in IdentityTrack :
                  after[a].held /\ after[b].held /\ after[a].who.entry = after[b].who.entry
                    => a = b \/ after[a].who = Nobody
<1> DEFINE after == Exclusive(by, tracks)
           Cleared(t) == [tracks[t] EXCEPT !.who = Nobody, !.locked = FALSE]
           Loses(t) == /\ tracks[t].held /\ tracks[t].who.entry # NoEntry
                       /\ Holder(by, tracks, tracks[t].who.entry) # t
<1>1. after = [t \in IdentityTrack |-> IF Loses(t) THEN Cleared(t) ELSE tracks[t]]
  BY Zenon DEF Exclusive
<1>2. \A t \in IdentityTrack :
        /\ Cleared(t) \in TrackRecord /\ Cleared(t).locked = FALSE /\ Cleared(t).who = Nobody
  BY SuspicionIs DEF TrackRecord
<1>3. ASSUME NEW a \in IdentityTrack, NEW b \in IdentityTrack, after[a].held, after[b].held,
             after[a].who.entry = after[b].who.entry, after[a].who # Nobody
      PROVE  a = b
  <2> DEFINE e == after[a].who.entry
  <2>1. ~Loses(a) /\ after[a] = tracks[a] BY <1>1, <1>2, <1>3
  <2>2. e # NoEntry BY <1>3, <2>1, SuspicionIs DEF TrackRecord
  <2>3. ~Loses(b) /\ after[b] = tracks[b]
    <3>1. Nobody.entry = NoEntry BY DEF Nobody
    <3>2. QED BY <1>1, <1>2, <1>3, <2>2, <3>1
  <2>4. Holder(by, tracks, e) = a BY <1>3, <2>1, <2>2
  <2>5. Holder(by, tracks, e) = b BY <1>3, <2>2, <2>3
  <2>6. QED BY <2>4, <2>5
<1> HIDE DEF Cleared, Loses
<1>4. after \in [IdentityTrack -> TrackRecord] BY <1>1, <1>2
<1>5. \A t \in IdentityTrack : after[t].locked => after[t].who # Nobody BY <1>1, <1>2
<1> HIDE DEF after
<1>6. QED BY <1>3, <1>4, <1>5 DEF after

(* A track that ages gives up its lock with its suspect. *)
LEMMA AgedKeeps ==
  ASSUME NEW r \in TrackRecord, r.locked => r.who # Nobody, NEW seen \in BOOLEAN
  PROVE  Aged(r, seen) \in TrackRecord /\ (Aged(r, seen).locked => Aged(r, seen).who # Nobody)
<1>1. CASE ~r.held BY <1>1 DEF Aged
<1>2. CASE r.held /\ seen
  <2> DEFINE h == IF r.hits < MaxHits THEN r.hits + 1 ELSE r.hits
  <2>1. h \in 0..MaxHits /\ 0 \in 0..MaxIdentityAge BY IdentityAssumption DEF TrackRecord
  <2>2. Aged(r, seen) = [r EXCEPT !.age = 0, !.hits = h] BY <1>2 DEF Aged
  <2> HIDE DEF h
  <2>3. QED BY <2>1, <2>2 DEF TrackRecord
<1>3. CASE r.held /\ ~seen
  <2>1. CASE r.age + 1 > DropAge(r)
    <3>1. Aged(r, seen) = NoTrack BY <1>3, <2>1 DEF Aged
    <3>2. QED BY <3>1, SuspicionIs DEF NoTrack
  <2>2. CASE ~(r.age + 1 > DropAge(r))
    <3>1. Aged(r, seen) = [r EXCEPT !.age = r.age + 1] BY <1>3, <2>2 DEF Aged
    <3>2. r.age + 1 \in 0..MaxIdentityAge
      BY <2>2, IdentityAssumption DEF DropAge, TrackRecord
    <3>3. QED BY <3>1, <3>2 DEF TrackRecord
  <2>3. QED BY <2>1, <2>2
<1>4. QED BY <1>1, <1>2, <1>3

(* A track that latches an entry has a suspect. *)
LEMMA LatchedKeeps ==
  ASSUME NEW r \in TrackRecord, r.locked => r.who # Nobody,
         NEW e \in Entry, NEW n \in 1..MaxScore
  PROVE  /\ Latched(r, e, n) \in TrackRecord
         /\ Latched(r, e, n).locked => Latched(r, e, n).who # Nobody
<1> DEFINE new == [entry |-> e, score |-> n]
           best == IF r.who.entry = e /\ r.who.score > n THEN r.who ELSE new
           Given(w) == [r EXCEPT !.who = w]
           Locked(w) == [r EXCEPT !.who = w, !.locked = TRUE]
<1>1. /\ new \in Suspicion /\ new # Nobody BY SuspicionIs
<1>2. r.who \in Suspicion BY DEF TrackRecord
<1>3. best \in Suspicion /\ best # Nobody
  <2>1. r.who.entry = e => r.who # Nobody BY <1>2, SuspicionIs, IdentityAssumption
  <2>2. QED BY <1>1, <1>2, <2>1
<1>4. ASSUME NEW w \in Suspicion, w # Nobody
      PROVE  /\ Given(w) \in TrackRecord /\ Given(w).who # Nobody
             /\ Locked(w) \in TrackRecord /\ Locked(w).who # Nobody
  BY <1>4 DEF TrackRecord
<1>5. Latched(r, e, n) \in {r, Given(new), Given(best), Locked(new), Locked(best)}
  <2>1. [Locked(new) EXCEPT !.who = best] = Locked(best) BY DEF TrackRecord
  <2>2. QED BY <2>1, Zenon DEF Latched
<1> HIDE DEF new, best, Given, Locked
<1>6. QED BY <1>1, <1>3, <1>4, <1>5

(* The invariant holds at the start. *)
LEMMA IdentityInitInv == IdentityInit => IdentityInv
<1> SUFFICES ASSUME IdentityInit PROVE IdentityInv OBVIOUS
<1>1. NoTrack \in TrackRecord /\ NoTrack.locked = FALSE BY SuspicionIs DEF NoTrack
<1>2. tiTrack \in [IdentityTrack -> TrackRecord] BY <1>1 DEF IdentityInit
<1>3. \A t \in IdentityTrack : tiTrack[t].locked => tiTrack[t].who # Nobody
  BY <1>1 DEF IdentityInit
<1>4. QED BY <1>2, <1>3 DEF IdentityInit, IdentityInv, IdentityTypeOK, OneTrackPerEntry

(* A plate names its track. *)
LEMMA PlateKeeps ==
  ASSUME IdentityInv, NEW t \in IdentityTrack, NEW e \in PlateEntry, ApplyPlate(t, e)
  PROVE  IdentityInv'
<1> DEFINE who == [entry |-> e, score |-> MaxScore]
<1>1. who \in Suspicion /\ who # Nobody
  <2>1. e \in Entry /\ MaxScore \in 1..MaxScore BY IdentityAssumption DEF Entry
  <2> HIDE DEF who
  <2>2. QED BY <2>1, SuspicionIs DEF who
<1> HIDE DEF who
<1>2. tiTrack' = [tiTrack EXCEPT ![t] = [@ EXCEPT !.who = who, !.locked = TRUE]]
  BY DEF ApplyPlate, who, IdentityInv, IdentityTypeOK
<1>3. [tiTrack[t] EXCEPT !.who = who, !.locked = TRUE] \in TrackRecord
  BY <1>1 DEF IdentityInv, IdentityTypeOK, TrackRecord
<1>4. [tiTrack[t] EXCEPT !.who = who, !.locked = TRUE].who = who
  BY DEF IdentityInv, IdentityTypeOK, TrackRecord
<1>5. tiTrack' \in [IdentityTrack -> TrackRecord]
  BY <1>2, <1>3 DEF IdentityInv, IdentityTypeOK
<1>6. \A u \in IdentityTrack : tiTrack'[u].locked => tiTrack'[u].who # Nobody
  BY <1>1, <1>2, <1>4 DEF IdentityInv, IdentityTypeOK
<1>7. QED BY <1>5, <1>6 DEF ApplyPlate, IdentityInv, IdentityTypeOK, OneTrackPerEntry

(* The tracks of a frame age, appear and go. *)
LEMMA UpdateKeeps == ASSUME IdentityInv, UpdateTracks PROVE IdentityInv'
<1>1. PICK seen \in SUBSET Held, new \in SUBSET IdentityTrack :
        LET aged == [t \in IdentityTrack |-> IF t \in new THEN SeenOnce
                                              ELSE Aged(tiTrack[t], t \in seen)]
        IN  tiTrack' = Exclusive("tracker", aged)
  BY DEF UpdateTracks
<1> DEFINE aged == [t \in IdentityTrack |-> IF t \in new THEN SeenOnce
                                             ELSE Aged(tiTrack[t], t \in seen)]
<1>2. ASSUME NEW t \in IdentityTrack
      PROVE  aged[t] \in TrackRecord /\ (aged[t].locked => aged[t].who # Nobody)
  <2>1. CASE t \in new
    <3>1. aged[t] = SeenOnce BY <2>1
    <3>2. SeenOnce.locked = FALSE BY DEF SeenOnce, NoTrack
    <3>3. QED BY <3>1, <3>2, SuspicionIs
  <2>2. CASE t \notin new
    <3>1. aged[t] = Aged(tiTrack[t], t \in seen) BY <2>2
    <3>2. /\ tiTrack[t] \in TrackRecord /\ (tiTrack[t].locked => tiTrack[t].who # Nobody)
          /\ (t \in seen) \in BOOLEAN
      BY DEF IdentityInv, IdentityTypeOK
    <3> HIDE DEF aged
    <3>3. QED BY <3>1, <3>2, AgedKeeps
  <2>3. QED BY <2>1, <2>2
<1>3. aged \in [IdentityTrack -> TrackRecord]
  <2>1. \A t \in IdentityTrack : aged[t] \in TrackRecord BY <1>2
  <2>2. QED BY <2>1
<1>4. tiTrack' = Exclusive("tracker", aged) BY <1>1
<1> HIDE DEF aged
<1>5. /\ tiTrack' \in [IdentityTrack -> TrackRecord]
      /\ \A t \in IdentityTrack : tiTrack'[t].locked => tiTrack'[t].who # Nobody
  BY <1>2, <1>3, <1>4, ExclusiveKeeps
<1>6. tiAt' = "faces" /\ {tiVisible', tiLooked', tiAlerted'} \subseteq SUBSET IdentityTrack
  BY DEF UpdateTracks, IdentityInv, IdentityTypeOK
<1>7. QED BY <1>5, <1>6 DEF IdentityInv, IdentityTypeOK, OneTrackPerEntry

(* The last three of a bounded sequence and one more. *)
LEMMA LastThree ==
  ASSUME NEW S, NEW q \in BoundedSeq(S, 3), NEW x \in S
  PROVE  LET all == Append(q, x)
         IN  SubSeq(all, IF Len(all) > 3 THEN 2 ELSE 1, Len(all)) \in BoundedSeq(S, 3)
<1> DEFINE all == Append(q, x)
           from == IF Len(all) > 3 THEN 2 ELSE 1
           last == SubSeq(all, from, Len(all))
<1>1. PICK m \in 0..3 : q \in [1..m -> S] BY DEF BoundedSeq, SeqOf
<1>2. q \in Seq(S) /\ Len(q) = m BY <1>1
<1>3. all \in Seq(S) /\ Len(all) = m + 1 BY <1>2
<1> HIDE DEF all
<1>4. from \in 1..2 /\ Len(all) - from + 1 \in 0..3 BY <1>3
<1> HIDE DEF from
<1>5. last \in [1..(Len(all) - from + 1) -> S]
  <2>1. last = [i \in 1..(Len(all) - from + 1) |-> all[i + from - 1]] BY <1>3, <1>4
  <2>2. \A i \in 1..(Len(all) - from + 1) : all[i + from - 1] \in S BY <1>3, <1>4
  <2>3. QED BY <2>1, <2>2
<1>6. QED BY <1>4, <1>5 DEF BoundedSeq, SeqOf, all, from

(* A face match votes, and may lock. *)
LEMMA FaceKeeps ==
  ASSUME IdentityInv, NEW t \in IdentityTrack, NEW e \in FaceEntry, NEW s \in 1..MaxScore,
         MatchFace(t, e, s)
  PROVE  IdentityInv'
<1> DEFINE all == Append(tiTrack[t].matches, <<e, IsRed(s)>>)
           last == SubSeq(all, IF Len(all) > 3 THEN 2 ELSE 1, Len(all))
           r == [tiTrack[t] EXCEPT !.matches = last]
<1>1. last \in BoundedSeq(Entry \X BOOLEAN, 3)
  <2>1. <<e, IsRed(s)>> \in Entry \X BOOLEAN
    <3>1. e \in Entry /\ (IsRed(s) = TRUE \/ IsRed(s) = FALSE) BY DEF Entry, IsRed
    <3>2. QED BY <3>1
  <2>2. tiTrack[t].matches \in BoundedSeq(Entry \X BOOLEAN, 3)
    BY DEF IdentityInv, IdentityTypeOK, TrackRecord
  <2>3. QED BY <2>1, <2>2, LastThree
<1>2. tiTrack' = [tiTrack EXCEPT ![t] = Latched(r, e, s)]
  BY DEF MatchFace, IdentityInv, IdentityTypeOK
<1> HIDE DEF last, all
<1>3. r \in TrackRecord /\ (r.locked => r.who # Nobody)
  BY <1>1 DEF IdentityInv, IdentityTypeOK, TrackRecord
<1> HIDE DEF r
<1>4. /\ Latched(r, e, s) \in TrackRecord
      /\ Latched(r, e, s).locked => Latched(r, e, s).who # Nobody
  BY <1>3, LatchedKeeps DEF Entry
<1>5. tiTrack' \in [IdentityTrack -> TrackRecord]
  BY <1>2, <1>4 DEF IdentityInv, IdentityTypeOK
<1>6. \A u \in IdentityTrack : tiTrack'[u].locked => tiTrack'[u].who # Nobody
  BY <1>2, <1>4 DEF IdentityInv, IdentityTypeOK
<1>7. QED BY <1>5, <1>6 DEF MatchFace, IdentityInv, IdentityTypeOK, OneTrackPerEntry

(* Of the tracks that claim one entry a single one keeps it. *)
LEMMA ResolveKeeps == ASSUME IdentityInv, ResolveClaims PROVE IdentityInv'
<1>1. /\ tiTrack' \in [IdentityTrack -> TrackRecord]
      /\ \A t \in IdentityTrack : tiTrack'[t].locked => tiTrack'[t].who # Nobody
      /\ \A a, b \in IdentityTrack :
           tiTrack'[a].held /\ tiTrack'[b].held /\ tiTrack'[a].who.entry = tiTrack'[b].who.entry
             => a = b \/ tiTrack'[a].who = Nobody
  BY ExclusiveKeeps DEF ResolveClaims, IdentityInv, IdentityTypeOK
<1>2. OneTrackPerEntry' BY <1>1 DEF OneTrackPerEntry, Held
<1>3. tiAlerted' \subseteq IdentityTrack
  BY DEF ResolveClaims, IdentityInv, IdentityTypeOK
<1>4. QED BY <1>1, <1>2, <1>3 DEF ResolveClaims, IdentityInv, IdentityTypeOK

(* Every step, and every stutter, preserves the invariant. *)
LEMMA IdentityStep == IdentityInv /\ [IdentityNext]_identityVars => IdentityInv'
<1> SUFFICES ASSUME IdentityInv, [IdentityNext]_identityVars PROVE IdentityInv' OBVIOUS
<1>1. CASE UpdateTracks BY <1>1, UpdateKeeps
<1>2. CASE ResolveClaims BY <1>2, ResolveKeeps
<1>3. CASE RaiseAlerts
  BY <1>3 DEF RaiseAlerts, IdentityInv, IdentityTypeOK, OneTrackPerEntry
<1>4. CASE \E t \in IdentityTrack, e \in PlateEntry : ApplyPlate(t, e) BY <1>4, PlateKeeps
<1>5. CASE \E t \in IdentityTrack, e \in FaceEntry, s \in 1..MaxScore : MatchFace(t, e, s)
  BY <1>5, FaceKeeps
<1>6. CASE UNCHANGED identityVars
  BY <1>6 DEF identityVars, IdentityInv, IdentityTypeOK, OneTrackPerEntry, Held
<1>7. QED BY <1>1, <1>2, <1>3, <1>4, <1>5, <1>6 DEF IdentityNext

(* IdentityInv holds in every reachable state, for any tracks, entries,     *)
(* scores and ages.                                                         *)
THEOREM IdentityInvariant == IdentitySpec => []IdentityInv
<1>1. QED BY IdentityInitInv, IdentityStep, PTL DEF IdentitySpec

(* TrackIdentity is type correct. *)
THEOREM IdentityTypeCorrect == IdentitySpec => []IdentityTypeOK
<1>1. IdentityInv => IdentityTypeOK BY DEF IdentityInv
<1>2. QED BY <1>1, IdentityInvariant, PTL

(* No published frame takes two tracks for one suspect, although plates,    *)
(* the tracker and the pipeline name tracks in different orders             *)
(* (core/tracker.py:553).                                                   *)
THEOREM IdentityHeldOnce == IdentitySpec => []OneTrackPerEntry
<1>1. IdentityInv => OneTrackPerEntry BY DEF IdentityInv
<1>2. QED BY <1>1, IdentityInvariant, PTL
-----------------------------------------------------------------------------
(***************************************************************************)
(* Dossiers.  What a lookup is given is a dossier's id, and an id leaves   *)
(* the three lookups in the step that prunes it.  Pruning takes as many    *)
(* dossiers as there are too many, because "seen longer ago, or inserted   *)
(* before" is a total order: were there fewer, the first of the others     *)
(* would have only pruned ones before it.                                  *)
(***************************************************************************)
HandoverInv == HandoverTypeOK /\ LookupsLeadToDossiers

Lookups == UNION {{hoTracks[k] : k \in Key}, {hoNames[n] : n \in Name},
                  {hoPlates[p] : p \in PlateText}}

(* What the types say of the dossiers and the lookups. *)
LEMMA HandoverTypes ==
  ASSUME HandoverInv
  PROVE  /\ hoDossiers \in Seq(DossierRecord) /\ DOMAIN hoDossiers = 1..Len(hoDossiers)
         /\ Len(hoDossiers) \in Nat
         /\ \A i \in DOMAIN hoDossiers : /\ hoDossiers[i] \in DossierRecord
                                         /\ hoDossiers[i].last \in Nat
                                         /\ hoDossiers[i].id \in Ids
         /\ Ids \subseteq Dossier /\ Unknown \notin Ids
         /\ hoTracks \in [Key -> Ids \cup {Unknown}] /\ hoNames \in [Name -> Ids \cup {Unknown}]
         /\ hoPlates \in [PlateText -> Ids \cup {Unknown}]
<1>1. /\ hoDossiers \in Seq(DossierRecord) /\ DOMAIN hoDossiers = 1..Len(hoDossiers)
      /\ Len(hoDossiers) \in Nat
      /\ \A i \in DOMAIN hoDossiers : hoDossiers[i] \in DossierRecord
  BY DEF HandoverInv, HandoverTypeOK
<1>2. \A i \in DOMAIN hoDossiers : hoDossiers[i].last \in Nat /\ hoDossiers[i].id \in Dossier
  BY <1>1, HandoverAssumption DEF DossierRecord
<1>3. /\ Ids \subseteq Dossier /\ Unknown \notin Ids
      /\ \A i \in DOMAIN hoDossiers : hoDossiers[i].id \in Ids
  BY <1>2, HandoverAssumption DEF Ids
<1>4. /\ hoTracks \in [Key -> Ids \cup {Unknown}] /\ hoNames \in [Name -> Ids \cup {Unknown}]
      /\ hoPlates \in [PlateText -> Ids \cup {Unknown}]
  BY DEF HandoverInv, HandoverTypeOK, LookupsLeadToDossiers
<1>5. QED BY <1>1, <1>2, <1>3, <1>4

(* The invariant, one lookup at a time. *)
LEMMA LookupsOf ==
  LookupsLeadToDossiers <=>
    /\ \A k \in Key : hoTracks[k] \in Ids \cup {Unknown}
    /\ \A n \in Name : hoNames[n] \in Ids \cup {Unknown}
    /\ \A p \in PlateText : hoPlates[p] \in Ids \cup {Unknown}
    /\ hoTurn = 0 => Len(hoDossiers) <= MaxDossiers
  BY DEF LookupsLeadToDossiers

(* Of dossiers that are too many, the ones with fewer than that many older  *)
(* ones are that many.                                                      *)
LEMMA OldestAreEnough ==
  ASSUME NEW n \in Nat, NEW last \in [1..n -> Nat], NEW m \in 0..n
  PROVE  LET Older(i, k) == last[i] < last[k] \/ (last[i] = last[k] /\ i < k)
             P == {k \in 1..n : Cardinality({o \in 1..n : Older(o, k)}) < m}
         IN  IsFiniteSet(P) /\ Cardinality(P) \in Nat /\ Cardinality(P) >= m
<1> DEFINE Older(i, k) == last[i] < last[k] \/ (last[i] = last[k] /\ i < k)
           Before(k) == {o \in 1..n : Older(o, k)}
           P == {k \in 1..n : Cardinality(Before(k)) < m}
<1>1. P \in SUBSET (1..n) OBVIOUS
<1>2. ASSUME Cardinality(P) < m PROVE FALSE
  <2> DEFINE Q == (1..n) \ P
             Times == {last[k] : k \in Q}
  <2>1. Q # {}
    <3> HIDE DEF P
    <3>1. SUFFICES ASSUME Q = {} PROVE FALSE OBVIOUS
    <3>2. P = 1..n BY <1>1, <3>1
    <3>3. Cardinality(1..n) = n BY FS_Interval
    <3>4. QED BY <1>2, <3>2, <3>3
  <2>2. PICK t \in Times : \A u \in Times : t <= u
    <3>1. Times \in SUBSET Nat /\ Times # {} BY <2>1
    <3> HIDE DEF Times
    <3>2. QED BY <3>1, LeastNumber
  <2> DEFINE R == {k \in Q : last[k] = t}
  <2>3. PICK k \in R : \A o \in R : k <= o
    <3>1. PICK o \in Q : last[o] = t BY <2>2
    <3>2. o \in R BY <3>1
    <3>3. R \in SUBSET Nat OBVIOUS
    <3> HIDE DEF R
    <3>4. QED BY <3>2, <3>3, LeastNumber
  <2>4. k \in 1..n /\ k \notin P /\ last[k] = t OBVIOUS
  <2>5. ASSUME NEW o \in 1..n, Older(o, k) PROVE o \in P
    <3>1. SUFFICES ASSUME o \in Q PROVE FALSE OBVIOUS
    <3>2. last[o] \in Nat /\ last[k] \in Nat /\ t <= last[o] BY <2>2, <2>4, <3>1
    <3>3. last[o] = t BY <2>4, <2>5, <3>2
    <3>4. k <= o BY <2>3, <3>1, <3>3
    <3>5. QED BY <2>4, <2>5, <3>3, <3>4
  <2>6. Before(k) \in SUBSET P BY <2>5
  <2>7. ~(Cardinality(Before(k)) < m) BY <2>4
  <2> HIDE DEF Before, P
  <2>8. Cardinality(Before(k)) <= Cardinality(P) /\ Cardinality(Before(k)) \in Nat
        /\ Cardinality(P) \in Nat
    BY <1>1, <2>6, PositionsFinite
  <2>9. QED BY <1>2, <2>7, <2>8
<1> HIDE DEF P
<1>3. IsFiniteSet(P) /\ Cardinality(P) \in Nat BY <1>1, PositionsFinite
<1>4. IsFiniteSet(P) /\ Cardinality(P) \in Nat /\ Cardinality(P) >= m BY <1>2, <1>3
<1>5. QED BY <1>4 DEF P

(* The recent dossier of a class is a live one, or unknown. *)
LEMMA RecentIs ==
  ASSUME HandoverInv, NEW c, NEW class
  PROVE  Recent(c, class) \in Ids \cup {Unknown}
<1> DEFINE fits == {i \in DOMAIN hoDossiers : Continues(i, c, class)}
<1>1. CASE fits = {} BY <1>1 DEF Recent
<1>2. CASE fits # {}
  <2>1. fits \in SUBSET Nat BY HandoverTypes
  <2>2. \E i \in fits : \A k \in fits : i <= k
    <3> HIDE DEF fits
    <3>1. QED BY <1>2, <2>1, LeastNumber
  <2>3. (CHOOSE i \in fits : \A k \in fits : i <= k) \in fits
    <3> HIDE DEF fits
    <3>1. QED BY <2>2
  <2>4. Recent(c, class) = hoDossiers[CHOOSE i \in fits : \A k \in fits : i <= k].id
    BY <1>2 DEF Recent
  <2> HIDE DEF fits
  <2>5. (CHOOSE i \in fits : \A k \in fits : i <= k) \in DOMAIN hoDossiers
    BY <2>3 DEF fits
  <2>6. QED BY <2>4, <2>5, HandoverTypes
<1>3. QED BY <1>1, <1>2

(* The invariant holds at the start. *)
LEMMA HandoverInitInv == HandoverInit => HandoverInv
<1> SUFFICES ASSUME HandoverInit PROVE HandoverInv OBVIOUS
<1>1. HandoverTypeOK
  <2>1. Cameras \in Seq(ToSet(Cameras)) BY HandoverAssumption
  <2>2. Len(Cameras) \in Nat BY <2>1
  <2>3. DOMAIN hoSeen = {} BY DEF HandoverInit
  <2>4. 0 \in 0..MaxTime BY HandoverAssumption
  <2>5. QED BY <2>2, <2>3, <2>4 DEF HandoverInit, HandoverTypeOK
<1>2. LookupsLeadToDossiers
  <2>1. Len(hoDossiers) = 0 BY DEF HandoverInit
  <2>2. QED BY <2>1, LookupsOf, HandoverAssumption DEF HandoverInit
<1>3. QED BY <1>1, <1>2 DEF HandoverInv

(* A track joins a dossier, or starts one. *)
LEMMA JoinTrackKeeps ==
  ASSUME HandoverInv, NEW t \in Track, NEW class \in Class, NEW n \in Name \cup {Unknown},
         NEW th \in Threat, JoinTrack(t, class, n, th)
  PROVE  HandoverInv'
<1> DEFINE c == Cameras[hoTurn]
           match == Match(c, t, class, n)
<1>0. hoTurn \in 1..Len(Cameras) /\ c \in ToSet(Cameras)
  <2>1. Cameras \in Seq(ToSet(Cameras)) BY HandoverAssumption
  <2>2. hoTurn \in 0..Len(Cameras) /\ hoTurn > 0
    BY DEF JoinTrack, HandoverInv, HandoverTypeOK
  <2>3. QED BY <2>1, <2>2
<1>1. match \in Ids \cup {Unknown} BY RecentIs DEF Match
<1>2. PICK id \in IF match = Unknown THEN Dossier \ Ids ELSE {match} :
        LET all == IF match = Unknown
                   THEN Append(hoDossiers, NewDossier(id, class, c, th)) ELSE hoDossiers
        IN  /\ hoDossiers' = [i \in DOMAIN all |->
                  IF all[i].id = id THEN Updated(all[i], c, n, th) ELSE all[i]]
            /\ hoTracks' = [hoTracks EXCEPT ![<<c, t>>] = id]
            /\ hoNames' = IF n = Unknown THEN hoNames ELSE [hoNames EXCEPT ![n] = id]
            /\ hoSeen' = [u \in DOMAIN hoSeen \cup {t} |->
                  IF u = t THEN [dossier |-> id, name |-> n] ELSE hoSeen[u]]
  BY Zenon DEF JoinTrack
<1> DEFINE all == IF match = Unknown
                  THEN Append(hoDossiers, NewDossier(id, class, c, th)) ELSE hoDossiers
<1>3. id \in Dossier /\ id # Unknown BY <1>1, <1>2, HandoverTypes, HandoverAssumption
<1>4. NewDossier(id, class, c, th) \in DossierRecord /\ NewDossier(id, class, c, th).id = id
  <2>1. hoNow \in 0..MaxTime BY DEF HandoverInv, HandoverTypeOK
  <2>2. QED BY <1>0, <1>3, <2>1 DEF NewDossier, DossierRecord
<1>5. /\ all \in Seq(DossierRecord) /\ DOMAIN all = 1..Len(all) /\ Len(all) \in Nat
      /\ \A i \in DOMAIN all : all[i] \in DossierRecord
      /\ DOMAIN hoDossiers \subseteq DOMAIN all
      /\ \A i \in DOMAIN hoDossiers : all[i] = hoDossiers[i]
      /\ \E i \in DOMAIN all : all[i].id = id
  <2>1. CASE match = Unknown
    <3> HIDE DEF match
    <3> DEFINE d == NewDossier(id, class, c, th)
    <3> HIDE DEF d
    <3>1. all = Append(hoDossiers, d) BY <2>1 DEF d
    <3>2. d \in DossierRecord /\ d.id = id BY <1>4 DEF d
    <3> HIDE DEF all
    <3>3. hoDossiers \in Seq(DossierRecord) BY HandoverTypes
    <3>4. /\ all \in Seq(DossierRecord) /\ Len(all) = Len(hoDossiers) + 1 /\ Len(hoDossiers) \in Nat
          /\ DOMAIN all = 1..Len(all) /\ DOMAIN hoDossiers = 1..Len(hoDossiers)
          /\ \A i \in 1..Len(hoDossiers) : all[i] = hoDossiers[i]
          /\ all[Len(all)] = d
      BY <3>1, <3>2, <3>3
    <3>5. all[Len(all)].id = id /\ Len(all) \in DOMAIN all BY <3>2, <3>4
    <3>6. \A i \in DOMAIN all : all[i] \in DossierRecord BY <3>4
    <3>7. QED BY <3>4, <3>5, <3>6
  <2>2. CASE match # Unknown
    <3>1. all = hoDossiers /\ id = match BY <1>2, <2>2
    <3>2. id \in Ids BY <1>1, <2>2, <3>1
    <3> HIDE DEF all, match
    <3>3. QED BY <3>1, <3>2, HandoverTypes DEF Ids
  <2>3. QED BY <2>1, <2>2
<1>6. /\ hoDossiers' = [i \in DOMAIN all |->
                IF all[i].id = id THEN Updated(all[i], c, n, th) ELSE all[i]]
      /\ hoTracks' = [hoTracks EXCEPT ![<<c, t>>] = id]
      /\ hoNames' = IF n = Unknown THEN hoNames ELSE [hoNames EXCEPT ![n] = id]
      /\ hoSeen' = [u \in DOMAIN hoSeen \cup {t} |->
                IF u = t THEN [dossier |-> id, name |-> n] ELSE hoSeen[u]]
  BY <1>2, Zenon
<1> HIDE DEF all, match
<1>7. ASSUME NEW d \in DossierRecord
      PROVE  Updated(d, c, n, th) \in DossierRecord /\ Updated(d, c, n, th).id = d.id
  <2>1. hoNow \in 0..MaxTime BY DEF HandoverInv, HandoverTypeOK
  <2>2. d.visited \cup {c} \in SUBSET ToSet(Cameras) BY <1>0 DEF DossierRecord
  <2> HIDE DEF c
  <2>3. QED BY <2>1, <2>2 DEF Updated, DossierRecord
<1>8. /\ DOMAIN hoDossiers' = DOMAIN all
      /\ \A i \in DOMAIN all : hoDossiers'[i] \in DossierRecord /\ hoDossiers'[i].id = all[i].id
  BY <1>5, <1>6, <1>7
<1>9. hoDossiers' \in Seq(DossierRecord)
  <2>1. hoDossiers' \in [1..Len(all) -> DossierRecord] BY <1>5, <1>6, <1>8
  <2>2. QED BY <1>5, <2>1
<1>10. Ids \subseteq Ids' /\ id \in Ids'
  BY <1>5, <1>8 DEF Ids
<1>11. /\ \A k \in Key : hoTracks'[k] \in Ids' \cup {Unknown}
       /\ \A m \in Name : hoNames'[m] \in Ids' \cup {Unknown}
       /\ hoTracks' \in [Key -> Dossier \cup {Unknown}] /\ hoNames' \in [Name -> Dossier \cup {Unknown}]
  <2>1. /\ hoTracks \in [Key -> Ids \cup {Unknown}] /\ hoNames \in [Name -> Ids \cup {Unknown}]
        /\ Ids \subseteq Dossier
    BY HandoverTypes
  <2>2. \A k \in Key : hoTracks'[k] = hoTracks[k] \/ hoTracks'[k] = id BY <1>6, <2>1
  <2>3. \A m \in Name : hoNames'[m] = hoNames[m] \/ hoNames'[m] = id BY <1>6, <2>1
  <2>4. DOMAIN hoTracks' = Key /\ DOMAIN hoNames' = Name BY <1>6, <2>1
  <2>5. hoTracks' = [k \in Key |-> hoTracks'[k]] /\ hoNames' = [m \in Name |-> hoNames'[m]]
    BY <1>6, <2>1
  <2>6. QED BY <1>3, <1>10, <2>1, <2>2, <2>3, <2>5
<1>12. /\ DOMAIN hoSeen' \subseteq Track
       /\ \A u \in DOMAIN hoSeen' : /\ hoSeen'[u].dossier \in Dossier
                                    /\ hoSeen'[u].name \in Name \cup {Unknown}
  BY <1>3, <1>6 DEF HandoverInv, HandoverTypeOK
<1>13. /\ UNCHANGED <<hoNow, hoTurn, hoPlates>> /\ hoTurn' # 0
  BY <1>0 DEF JoinTrack
<1>14. hoPlates \in [PlateText -> Ids \cup {Unknown}] BY HandoverTypes
<1>15. LookupsLeadToDossiers'
  BY <1>10, <1>11, <1>13, <1>14 DEF LookupsLeadToDossiers
<1>16. HandoverTypeOK'
  BY <1>9, <1>11, <1>12, <1>13 DEF HandoverInv, HandoverTypeOK
<1>17. QED BY <1>15, <1>16 DEF HandoverInv

(* A plate joins the dossier of its track. *)
LEMMA JoinPlateKeeps ==
  ASSUME HandoverInv, NEW p \in PlateText, NEW t \in Track \cup {Unknown}, JoinPlate(p, t)
  PROVE  HandoverInv'
<1>1. PICK id \in Ids :
        /\ hoDossiers' = [i \in DOMAIN hoDossiers |->
              IF hoDossiers[i].id = id THEN [hoDossiers[i] EXCEPT !.plate = p]
              ELSE hoDossiers[i]]
        /\ hoPlates' = [hoPlates EXCEPT ![p] = id]
  BY Zenon DEF JoinPlate
<1>2. /\ DOMAIN hoDossiers' = DOMAIN hoDossiers
      /\ \A i \in DOMAIN hoDossiers : hoDossiers'[i] \in DossierRecord
                                     /\ hoDossiers'[i].id = hoDossiers[i].id
  <2>1. \A d \in DossierRecord : /\ [d EXCEPT !.plate = p] \in DossierRecord
                                 /\ [d EXCEPT !.plate = p].id = d.id
    BY DEF DossierRecord
  <2>2. QED BY <1>1, <2>1, HandoverTypes
<1>3. hoDossiers' \in Seq(DossierRecord) /\ Ids' = Ids
  <2>1. hoDossiers' \in [1..Len(hoDossiers) -> DossierRecord] BY <1>1, <1>2, HandoverTypes
  <2>2. hoDossiers' \in Seq(DossierRecord) BY <2>1, HandoverTypes
  <2>3. Ids' = Ids BY <1>2 DEF Ids
  <2>4. QED BY <2>2, <2>3
<1>4. hoPlates' \in [PlateText -> Ids \cup {Unknown}] BY <1>1, HandoverTypes
<1>5. UNCHANGED <<hoNow, hoTurn, hoSeen, hoTracks, hoNames>> /\ hoTurn' # 0
  BY DEF JoinPlate, HandoverInv, HandoverTypeOK
<1>6. LookupsLeadToDossiers'
  BY <1>3, <1>4, <1>5, HandoverTypes DEF LookupsLeadToDossiers
<1>7. HandoverTypeOK'
  BY <1>3, <1>4, <1>5, HandoverTypes DEF HandoverInv, HandoverTypeOK
<1>8. QED BY <1>6, <1>7 DEF HandoverInv

(* The end of an update drops the oldest dossiers. *)
LEMMA EndKeeps == ASSUME HandoverInv, EndUpdate PROVE HandoverInv'
<1> DEFINE aged == [i \in DOMAIN hoDossiers |->
              [hoDossiers[i] EXCEPT !.active = @ /\ hoNow - hoDossiers[i].last <= ActiveFor]]
           D == {i \in DOMAIN aged : aged[i].id \notin Pruned}
           n == Len(hoDossiers)
           m == n - MaxDossiers
           last == [i \in 1..n |-> hoDossiers[i].last]
           Older(i, k) == last[i] < last[k] \/ (last[i] = last[k] /\ i < k)
           P == {k \in 1..n : Cardinality({o \in 1..n : Older(o, k)}) < m}
<1>1. hoDossiers' = Picked(aged, D) BY DEF EndUpdate, Where
<1>2. /\ n \in Nat /\ last \in [1..n -> Nat] /\ m \in Int /\ MaxDossiers \in Nat
      /\ DOMAIN hoDossiers = 1..n
  <2>1. MaxDossiers \in Nat BY HandoverAssumption
  <2>2. QED BY <2>1, HandoverTypes
<1>3. Pruned = {hoDossiers[i].id : i \in P}
  <2>1. \A o, k \in 1..n :
          Older(o, k) <=> \/ hoDossiers[o].last < hoDossiers[k].last
                          \/ hoDossiers[o].last = hoDossiers[k].last /\ o < k
    OBVIOUS
  <2>2. \A k \in 1..n :
          {o \in 1..n : Older(o, k)}
            = {o \in 1..n : \/ hoDossiers[o].last < hoDossiers[k].last
                            \/ hoDossiers[o].last = hoDossiers[k].last /\ o < k}
    BY <2>1
  <2> HIDE DEF Older
  <2>3. P = {k \in 1..n :
          Cardinality({o \in 1..n : \/ hoDossiers[o].last < hoDossiers[k].last
                                    \/ hoDossiers[o].last = hoDossiers[k].last /\ o < k}) < m}
    BY <2>2
  <2> HIDE DEF P
  <2>4. QED BY <1>2, <2>3 DEF Pruned
<1>4. ASSUME NEW i \in 1..n
      PROVE  aged[i] \in DossierRecord /\ aged[i].id = hoDossiers[i].id
  <2>1. hoDossiers[i] \in DossierRecord BY <1>2, HandoverTypes
  <2>2. aged[i] = [hoDossiers[i] EXCEPT !.active =
                     hoDossiers[i].active /\ hoNow - hoDossiers[i].last <= ActiveFor]
    BY <1>2, <2>1
  <2>3. (hoDossiers[i].active /\ hoNow - hoDossiers[i].last <= ActiveFor) \in BOOLEAN OBVIOUS
  <2> HIDE DEF aged
  <2>4. QED BY <2>1, <2>2, <2>3 DEF DossierRecord
<1>5. DOMAIN aged = 1..n BY <1>2
<1>6. aged \in [1..n -> DossierRecord]
  <2>1. aged = [i \in 1..n |-> aged[i]] BY <1>5
  <2> HIDE DEF aged
  <2>2. QED BY <1>4, <2>1
<1>7. aged \in Seq(DossierRecord) /\ Len(aged) = n
  <2> HIDE DEF aged, n
  <2>1. QED BY <1>2, <1>6
<1>8. D = {i \in 1..n : hoDossiers[i].id \notin Pruned}
  <2> HIDE DEF aged
  <2>1. QED BY <1>4, <1>5
<1> HIDE DEF aged
<1>9. /\ hoDossiers' \in Seq(DossierRecord) /\ Len(hoDossiers') = Cardinality(D)
      /\ ToSet(hoDossiers') = {aged[i] : i \in D}
  <2>1. D \in SUBSET (1..Len(aged)) BY <1>5, <1>7
  <2> HIDE DEF D
  <2>2. /\ Picked(aged, D) \in Seq(DossierRecord) /\ Len(Picked(aged, D)) = Cardinality(D)
        /\ ToSet(Picked(aged, D)) = {aged[i] : i \in D}
    BY <1>7, <2>1, PickedIs
  <2>3. QED BY <1>1, <2>2
<1>10. Ids' = Ids \ Pruned
  <2>1. Ids' = {d.id : d \in ToSet(hoDossiers')} BY DEF Ids, ToSet
  <2>2. Ids' = {hoDossiers[i].id : i \in D} BY <1>4, <1>8, <1>9, <2>1
  <2>3. QED BY <1>2, <1>8, <2>2 DEF Ids
<1>11. Len(hoDossiers') <= MaxDossiers
  <2>1. D \in SUBSET ((1..n) \ P) BY <1>3, <1>8
  <2>2. P \in SUBSET (1..n) OBVIOUS
  <2>3. m > 0 => Cardinality(P) \in Nat /\ Cardinality(P) >= m
    <3>1. m > 0 => m \in 0..n BY <1>2
    <3> HIDE DEF n, m, last, Older
    <3>2. QED BY <1>2, <3>1, OldestAreEnough DEF Older
  <2> HIDE DEF D, P, last
  <2>4. Cardinality(D) \in Nat /\ Cardinality(D) <= n
    <3>1. D \in SUBSET (1..n) BY <2>1
    <3>2. QED BY <1>2, <3>1, PositionsFinite
  <2>5. CASE ~(m > 0) BY <1>2, <1>9, <2>4, <2>5
  <2>6. CASE m > 0
    <3>1. IsFiniteSet(1..n) /\ Cardinality(1..n) = n BY <1>2, FS_Interval
    <3>2. /\ IsFiniteSet((1..n) \ P)
          /\ Cardinality((1..n) \ P) = n - Cardinality((1..n) \cap P)
      <4> HIDE DEF n
      <4>1. QED BY <3>1, FS_Difference
    <3>3. (1..n) \cap P = P BY <2>2
    <3>4. Cardinality(D) <= Cardinality((1..n) \ P) BY <2>1, <3>2, FS_Subset
    <3>5. Cardinality((1..n) \ P) = n - Cardinality(P) BY <3>2, <3>3
    <3>6. Cardinality(P) \in Nat /\ Cardinality(P) >= m BY <2>3, <2>6
    <3> HIDE DEF n
    <3>7. QED BY <1>2, <1>9, <2>4, <3>4, <3>5, <3>6
  <2>7. QED BY <2>5, <2>6
<1>12. /\ hoTracks' \in [Key -> Ids' \cup {Unknown}] /\ hoNames' \in [Name -> Ids' \cup {Unknown}]
       /\ hoPlates' \in [PlateText -> Ids' \cup {Unknown}]
  <2>1. \A S, f : f \in [S -> Ids \cup {Unknown}] => Kept(f, Pruned) \in [S -> Ids' \cup {Unknown}]
    <3>1. SUFFICES ASSUME NEW S, NEW f \in [S -> Ids \cup {Unknown}]
                   PROVE  Kept(f, Pruned) \in [S -> Ids' \cup {Unknown}]
      OBVIOUS
    <3>2. QED BY <1>10 DEF Kept
  <2>2. QED BY <2>1, HandoverTypes DEF EndUpdate
<1>13. hoTurn' = 0 /\ hoSeen' = <<>> /\ hoNow' = hoNow BY DEF EndUpdate
<1>14. LookupsLeadToDossiers' BY <1>11, <1>12 DEF LookupsLeadToDossiers
<1>15. HandoverTypeOK'
  <2>1. Ids' \subseteq Dossier BY <1>10, HandoverTypes
  <2>2. DOMAIN hoSeen' = {} BY <1>13
  <2>3. 0 \in 0..Len(Cameras) BY DEF HandoverInv, HandoverTypeOK
  <2>4. /\ hoTracks' \in [Key -> Dossier \cup {Unknown}] /\ hoNames' \in [Name -> Dossier \cup {Unknown}]
        /\ hoPlates' \in [PlateText -> Dossier \cup {Unknown}]
    BY <1>12, <2>1
  <2>5. QED BY <1>9, <1>13, <2>2, <2>3, <2>4 DEF HandoverInv, HandoverTypeOK
<1>16. QED BY <1>14, <1>15 DEF HandoverInv

(* Every step, and every stutter, preserves the invariant. *)
LEMMA HandoverStep == HandoverInv /\ [HandoverNext]_handoverVars => HandoverInv'
<1> SUFFICES ASSUME HandoverInv, [HandoverNext]_handoverVars PROVE HandoverInv' OBVIOUS
<1>0. ASSUME UNCHANGED <<hoDossiers, hoTracks, hoNames, hoPlates>>,
             hoTurn' = hoTurn \/ hoTurn' # 0
      PROVE  LookupsLeadToDossiers'
  BY <1>0 DEF HandoverInv, LookupsLeadToDossiers, Ids
<1>1. CASE HandoverTick
  <2>1. LookupsLeadToDossiers' BY <1>0, <1>1 DEF HandoverTick
  <2>2. hoNow' \in 0..MaxTime
    BY <1>1, HandoverAssumption DEF HandoverTick, HandoverInv, HandoverTypeOK
  <2>3. HandoverTypeOK' BY <1>1, <2>2 DEF HandoverTick, HandoverInv, HandoverTypeOK
  <2>4. QED BY <2>1, <2>3 DEF HandoverInv
<1>2. CASE BeginUpdate
  <2>1. Cameras \in Seq(ToSet(Cameras)) /\ Cameras # <<>> BY HandoverAssumption
  <2>2. 1 \in 0..Len(Cameras) BY <2>1
  <2>3. DOMAIN hoSeen' = {} BY <1>2 DEF BeginUpdate
  <2>4. LookupsLeadToDossiers' BY <1>0, <1>2 DEF BeginUpdate
  <2>5. HandoverTypeOK' BY <1>2, <2>2, <2>3 DEF BeginUpdate, HandoverInv, HandoverTypeOK
  <2>6. QED BY <2>4, <2>5 DEF HandoverInv
<1>3. CASE NextCamera
  <2>1. DOMAIN hoSeen' = {} BY <1>3 DEF NextCamera
  <2>2. hoTurn' \in 1..Len(Cameras)
    <3>1. Cameras \in Seq(ToSet(Cameras)) BY HandoverAssumption
    <3>2. QED BY <1>3, <3>1 DEF NextCamera
  <2>3. LookupsLeadToDossiers' BY <1>0, <1>3, <2>2 DEF NextCamera
  <2>4. HandoverTypeOK'
    BY <1>3, <2>1, <2>2 DEF NextCamera, HandoverInv, HandoverTypeOK
  <2>5. QED BY <2>3, <2>4 DEF HandoverInv
<1>4. CASE EndUpdate BY <1>4, EndKeeps
<1>5. CASE \E t \in Track, class \in Class, n \in Name \cup {Unknown}, th \in Threat :
             JoinTrack(t, class, n, th)
  BY <1>5, JoinTrackKeeps
<1>6. CASE \E p \in PlateText, t \in Track \cup {Unknown} : JoinPlate(p, t)
  BY <1>6, JoinPlateKeeps
<1>7. CASE UNCHANGED handoverVars
  <2>1. LookupsLeadToDossiers' BY <1>0, <1>7 DEF handoverVars
  <2>2. HandoverTypeOK' BY <1>7 DEF handoverVars, HandoverInv, HandoverTypeOK
  <2>3. QED BY <2>1, <2>2 DEF HandoverInv
<1>8. QED BY <1>1, <1>2, <1>3, <1>4, <1>5, <1>6, <1>7 DEF HandoverNext

(* HandoverInv holds in every reachable state, for any cameras, subjects    *)
(* and limits.                                                              *)
THEOREM HandoverInvariant == HandoverSpec => []HandoverInv
<1>1. QED BY HandoverInitInv, HandoverStep, PTL DEF HandoverSpec

(* Handover is type correct. *)
THEOREM HandoverTypeCorrect == HandoverSpec => []HandoverTypeOK
<1>1. HandoverInv => HandoverTypeOK BY DEF HandoverInv
<1>2. QED BY <1>1, HandoverInvariant, PTL

(* A name, a track or a plate is never matched with a dossier that was      *)
(* pruned, and after an update there are no more dossiers than the limit    *)
(* (core/handover.py:196).                                                  *)
THEOREM HandoverLookupsLead == HandoverSpec => []LookupsLeadToDossiers
<1>1. HandoverInv => LookupsLeadToDossiers BY DEF HandoverInv
<1>2. QED BY <1>1, HandoverInvariant, PTL
-----------------------------------------------------------------------------
(***************************************************************************)
(* Loitering.  What the engine keeps of a track that has not ended says    *)
(* what its frames say: how many frames it has been outside, when its stay *)
(* began, and whether it was reported in it.  No report is withheld by the *)
(* cooldown: the last one was before the stay, which is as long by now.    *)
(***************************************************************************)
(* The frames outside at the end. *)
OutsideFor(stay, seen) ==
  /\ stay.out \in 0..Len(seen)
  /\ \A k \in 1..Len(seen) : k > Len(seen) - stay.out => ~seen[k].inside
  /\ stay.out < Len(seen) => seen[Len(seen) - stay.out].inside

Reported(stay, seen, raised) ==
  IF stay.told
  THEN /\ \E a \in raised : a >= stay.enter /\ \A b \in raised : b >= stay.enter => b = a
       /\ \E i \in StayOf(seen) : seen[i].at - stay.enter >= Loiter
  ELSE /\ \A a \in raised : a < stay.enter
       /\ \A i \in StayOf(seen) : seen[i].at - stay.enter < Loiter

Dwells(stay, seen, raised) ==
  IF stay.enter = NeverFired THEN StayOf(seen) = {} /\ ~stay.told
  ELSE \E f \in StayOf(seen) : /\ seen[f].at = stay.enter /\ \A i \in StayOf(seen) : f <= i
                               /\ Reported(stay, seen, raised)

KeptOf(t) ==
  /\ OutsideFor(ruLoiter[t], ruSeen[t])
  /\ Dwells(ruLoiter[t], ruSeen[t], ruRaised[t])

RulesInv ==
  /\ RulesTypeOK /\ LoiterMeansDwell
  /\ \A t \in RuleTrack : Len(ruSeen[t]) <= ruTime /\ \A a \in ruRaised[t] : a <= ruTime
  /\ \A s \in ruSent : s.rule = "loiter" => s.at \in ruRaised[s.track]
  /\ \A t \in RuleTrack \ ruGone : KeptOf(t)

(* A quotient is no larger than its dividend. *)
LEMMA Quotients ==
  ASSUME NEW a \in Nat, NEW b \in Nat \ {0}
  PROVE  a \div b \in 0..a
  OBVIOUS

(* One more frame, and what it says of the ones before. *)
LEMMA FrameAdded ==
  ASSUME NEW seen \in Seq(CheckedFrame), NEW x \in CheckedFrame
  PROVE  LET n == Len(seen)
             more == Append(seen, x)
         IN  /\ n \in Nat /\ more \in Seq(CheckedFrame) /\ Len(more) = n + 1 /\ more[n + 1] = x
             /\ \A k \in 1..n : more[k] = seen[k] /\ seen[k] \in CheckedFrame
             /\ \A k \in 1..n : Left(more, k) <=> Left(seen, k)
<1> DEFINE n == Len(seen)
           more == Append(seen, x)
<1>1. /\ n \in Nat /\ more \in Seq(CheckedFrame) /\ Len(more) = n + 1 /\ more[n + 1] = x
      /\ \A k \in 1..n : more[k] = seen[k] /\ seen[k] \in CheckedFrame
  OBVIOUS
<1> HIDE DEF n, more
<1>2. ASSUME NEW k \in 1..n PROVE Left(more, k) <=> Left(seen, k)
  <2>1. Outside \in Nat \ {0} BY RulesAssumption
  <2>2. k >= Outside => \A j \in k - Outside + 1..k : j \in 1..n BY <1>1, <2>1
  <2>3. k >= Outside => \A j \in k - Outside + 1..k : more[j] = seen[j] BY <1>1, <2>2
  <2>4. QED BY <2>3 DEF Left
<1>3. QED BY <1>1, <1>2 DEF n, more

(* A stay after one more frame. *)
LEMMA StayIs ==
  ASSUME NEW stay \in StayRecord, NEW within \in BOOLEAN, NEW now \in 0..MaxRuleTime,
         stay.out + 1 <= MaxRuleTime
  PROVE  LET next == Stay(stay, within, now)
         IN  /\ next \in StayRecord
             /\ within => /\ next.out = 0 /\ next.told = stay.told
                          /\ next.enter = IF stay.enter = NeverFired THEN now ELSE stay.enter
             /\ ~within => next.out = stay.out + 1
             /\ ~within /\ stay.out + 1 >= Outside => next.enter = NeverFired /\ ~next.told
             /\ ~within /\ ~(stay.out + 1 >= Outside) =>
                  next.enter = stay.enter /\ next.told = stay.told
<1>1. MaxRuleTime \in Nat /\ NeverFired = -1 BY RulesAssumption DEF NeverFired
<1>2. CASE within
  <2> DEFINE enter == IF stay.enter = NeverFired THEN now ELSE stay.enter
  <2>1. enter \in NeverFired..MaxRuleTime /\ 0 \in 0..MaxRuleTime BY <1>1 DEF StayRecord
  <2>2. Stay(stay, within, now) = [stay EXCEPT !.enter = enter, !.out = 0]
    BY <1>2 DEF Stay, StayRecord
  <2> HIDE DEF enter
  <2>3. /\ [stay EXCEPT !.enter = enter, !.out = 0] \in StayRecord
        /\ [stay EXCEPT !.enter = enter, !.out = 0].enter = enter
        /\ [stay EXCEPT !.enter = enter, !.out = 0].out = 0
        /\ [stay EXCEPT !.enter = enter, !.out = 0].told = stay.told
    BY <2>1 DEF StayRecord
  <2>4. QED BY <1>2, <2>2, <2>3 DEF enter
<1>3. CASE ~within
  <2>1. stay.out + 1 \in 0..MaxRuleTime BY <1>1 DEF StayRecord
  <2>2. CASE stay.out + 1 >= Outside
    <3>1. Stay(stay, within, now) = [enter |-> NeverFired, told |-> FALSE, out |-> stay.out + 1]
      BY <1>3, <2>2 DEF Stay, NoStay
    <3>2. NeverFired \in NeverFired..MaxRuleTime BY <1>1
    <3>3. Stay(stay, within, now) \in StayRecord BY <2>1, <3>1, <3>2 DEF StayRecord
    <3>4. /\ Stay(stay, within, now).enter = NeverFired /\ ~Stay(stay, within, now).told
          /\ Stay(stay, within, now).out = stay.out + 1
      BY <3>1
    <3>5. QED BY <1>3, <2>2, <3>3, <3>4, Zenon
  <2>3. CASE ~(stay.out + 1 >= Outside)
    <3>1. Stay(stay, within, now) = [stay EXCEPT !.out = stay.out + 1]
      BY <1>3, <2>3 DEF Stay, StayRecord
    <3>2. QED BY <1>3, <2>1, <2>3, <3>1 DEF StayRecord
  <2>4. QED BY <2>2, <2>3
<1>4. QED BY <1>2, <1>3

(* Every step, and every stutter, preserves the invariant. *)
LEMMA OutsideStep ==
  ASSUME NEW seen \in Seq(CheckedFrame), NEW x \in CheckedFrame,
         NEW stay \in StayRecord, OutsideFor(stay, seen),
         NEW next \in StayRecord, next.out = IF x.inside THEN 0 ELSE stay.out + 1
  PROVE  /\ OutsideFor(next, Append(seen, x))
         /\ Left(Append(seen, x), Len(seen) + 1) <=> next.out >= Outside
<1> DEFINE n == Len(seen)
           m == n + 1
           more == Append(seen, x)
           o == stay.out
           p == next.out
<1>1. /\ n \in Nat /\ more \in Seq(CheckedFrame) /\ Len(more) = m /\ more[m] = x /\ m = n + 1
      /\ \A k \in 1..n : more[k] = seen[k]
  BY FrameAdded
<1>2. /\ o \in 0..n
      /\ \A k \in 1..n : k > n - o => ~seen[k].inside
      /\ o < n => seen[n - o].inside
  BY DEF OutsideFor
<1>3. Outside \in Nat \ {0} BY RulesAssumption
<1>4. x.inside \in BOOLEAN /\ p = IF x.inside THEN 0 ELSE o + 1 BY DEF CheckedFrame
<1> HIDE DEF n, more, m, o, p
<1>5. SUFFICES /\ p \in 0..m
               /\ \A k \in 1..m : k > m - p => ~more[k].inside
               /\ p < m => more[m - p].inside
               /\ Left(more, m) <=> p >= Outside
  BY <1>1 DEF OutsideFor, n, more, m, o, p
<1>6. CASE x.inside
  <2>1. p = 0 BY <1>4, <1>6
  <2>2. \A k \in 1..m : ~(k > m - p) BY <1>1, <2>1
  <2>3. m - p = m BY <1>1, <2>1
  <2>4. more[m - p].inside BY <1>1, <1>6, <2>3
  <2>5. ~Left(more, m)
    <3>1. m \in m - Outside + 1..m BY <1>1, <1>3
    <3>2. more[m].inside BY <1>1, <1>6
    <3>3. QED BY <3>1, <3>2, Zenon DEF Left
  <2>6. p \in 0..m /\ ~(p >= Outside) BY <1>1, <1>3, <2>1
  <2>7. QED BY <2>2, <2>4, <2>5, <2>6
<1>7. CASE ~x.inside
  <2>1. p = o + 1 /\ p \in 1..m BY <1>1, <1>2, <1>4, <1>7
  <2>2. ASSUME NEW k \in 1..m, k > m - p PROVE ~more[k].inside
    <3>1. CASE k = m BY <1>1, <1>7, <3>1
    <3>2. CASE k # m
      <4>1. k \in 1..n /\ k > n - o BY <1>1, <1>2, <2>1, <2>2, <3>2
      <4>2. QED BY <1>1, <1>2, <4>1
    <3>3. QED BY <3>1, <3>2
  <2>3. ASSUME p < m PROVE more[m - p].inside
    <3>1. m - p = n - o /\ n - o \in 1..n /\ o < n BY <1>1, <1>2, <2>1, <2>3
    <3>2. QED BY <1>1, <1>2, <3>1
  <2>4. ASSUME p >= Outside PROVE Left(more, m)
    <3>1. m >= Outside BY <1>1, <1>3, <2>1, <2>4
    <3>2. \A k \in m - Outside + 1..m : k \in 1..m /\ k > m - p
      BY <1>1, <1>3, <2>1, <2>4
    <3>3. \A k \in m - Outside + 1..m : ~more[k].inside BY <2>2, <3>2
    <3>4. QED BY <3>1, <3>3, Zenon DEF Left
  <2>5. ASSUME Left(more, m) PROVE p >= Outside
    <3>1. SUFFICES ASSUME p < Outside PROVE FALSE BY <1>1, <1>3, <2>1
    <3>2. m >= Outside /\ \A k \in m - Outside + 1..m : ~more[k].inside
      BY <2>5, Zenon DEF Left
    <3>3. p < m /\ m - p \in m - Outside + 1..m BY <1>1, <1>3, <2>1, <3>1, <3>2
    <3>4. ~more[m - p].inside BY <3>2, <3>3
    <3>5. QED BY <2>3, <3>3, <3>4
  <2>6. p \in 0..m BY <1>1, <2>1
  <2>7. QED BY <2>2, <2>3, <2>4, <2>5, <2>6
<1>8. QED BY <1>4, <1>6, <1>7

(* Every step, and every stutter, preserves the invariant. *)
LEMMA StayOfStep ==
  ASSUME NEW seen \in Seq(CheckedFrame), NEW x \in CheckedFrame
  PROVE  LET n == Len(seen)
             more == Append(seen, x)
         IN  StayOf(more) = IF Left(more, n + 1) THEN {}
                            ELSE StayOf(seen) \cup (IF x.inside THEN {n + 1} ELSE {})
<1> DEFINE n == Len(seen)
           more == Append(seen, x)
<1>1. /\ n \in Nat /\ Len(more) = n + 1 /\ more[n + 1] = x
      /\ \A k \in 1..n : more[k] = seen[k]
      /\ \A k \in 1..n : Left(more, k) <=> Left(seen, k)
  BY FrameAdded
<1> HIDE DEF n, more
<1>2. \A i \in 1..n : \A k \in i..n : k \in 1..n BY <1>1
<1>3. \A i \in 1..n + 1 : i..n + 1 = (i..n) \cup {n + 1} BY <1>1
<1>4. CASE Left(more, n + 1)
  <2>1. \A i \in 1..n + 1 : ~Staying(more, i, n + 1) BY <1>3, <1>4 DEF Staying
  <2>2. StayOf(more) = {} BY <1>1, <2>1 DEF StayOf
  <2>3. QED BY <1>4, <2>2 DEF n, more
<1>5. CASE ~Left(more, n + 1)
  <2>1. \A i \in 1..n : Staying(more, i, n + 1) <=> Staying(seen, i, n)
    BY <1>1, <1>2, <1>3, <1>5 DEF Staying
  <2>2. Staying(more, n + 1, n + 1) <=> x.inside
    <3>1. (n + 1)..(n + 1) = {n + 1} BY <1>1
    <3>2. QED BY <1>1, <1>5, <3>1 DEF Staying
  <2>3. 1..n + 1 = (1..n) \cup {n + 1} BY <1>1
  <2>4. StayOf(more) = {i \in 1..n + 1 : Staying(more, i, n + 1)}
        /\ StayOf(seen) = {i \in 1..n : Staying(seen, i, n)}
    BY <1>1 DEF StayOf, n
  <2>5. \A i : i \in StayOf(more) <=> i \in StayOf(seen) \/ (x.inside /\ i = n + 1)
    BY <2>1, <2>2, <2>3, <2>4
  <2>6. StayOf(more) = StayOf(seen) \cup (IF x.inside THEN {n + 1} ELSE {})
    BY <2>5
  <2>7. QED BY <1>5, <2>6 DEF n, more
<1>6. QED BY <1>4, <1>5

(* The frames of a stay are frames, with their times. *)
LEMMA FramesOfStay ==
  ASSUME NEW seen \in Seq(CheckedFrame)
  PROVE  \A i \in StayOf(seen) : i \in 1..Len(seen) /\ i \in Nat /\ seen[i].at \in Nat
<1>1. \A i \in 1..Len(seen) : seen[i] \in CheckedFrame OBVIOUS
<1>2. \A i \in 1..Len(seen) : seen[i].at \in 0..MaxRuleTime BY <1>1 DEF CheckedFrame
<1>3. MaxRuleTime \in Nat BY RulesAssumption
<1>4. QED BY <1>2, <1>3 DEF StayOf

(* The rule for one track and one frame.  Whoever waited long enough is     *)
(* reported in it, unless it was before.                                    *)
LEMMA DwellStep ==
  ASSUME NEW seen \in Seq(CheckedFrame), NEW x \in CheckedFrame, NEW stay \in StayRecord,
         NEW raised \in SUBSET Nat, \A a \in raised : a < x.at,
         OutsideFor(stay, seen), Dwells(stay, seen, raised), stay.out + 1 <= MaxRuleTime,
         NEW tell \in BOOLEAN,
         LET next == Stay(stay, x.inside, x.at)
         IN  tell <=> x.inside /\ x.at - next.enter >= Loiter /\ ~next.told
  PROVE  LET next == Stay(stay, x.inside, x.at)
             new == IF tell THEN [next EXCEPT !.told = TRUE] ELSE next
         IN  /\ new \in StayRecord
             /\ OutsideFor(new, Append(seen, x))
             /\ Dwells(new, Append(seen, x), IF tell THEN raised \cup {x.at} ELSE raised)
<1> DEFINE n == Len(seen)
           more == Append(seen, x)
           now == x.at
           next == Stay(stay, x.inside, now)
           new == IF tell THEN [next EXCEPT !.told = TRUE] ELSE next
           all == IF tell THEN raised \cup {now} ELSE raised
           old == StayOf(seen)
<1>1. now \in 0..MaxRuleTime /\ x.inside \in BOOLEAN /\ now \in Nat
      /\ Loiter \in Nat \ {0} /\ NeverFired = -1 /\ MaxRuleTime \in Nat
  BY RulesAssumption DEF CheckedFrame, NeverFired
<1>2. /\ next \in StayRecord
      /\ x.inside => /\ next.out = 0 /\ next.told = stay.told
                     /\ next.enter = IF stay.enter = NeverFired THEN now ELSE stay.enter
      /\ ~x.inside => next.out = stay.out + 1
      /\ ~x.inside /\ stay.out + 1 >= Outside => next.enter = NeverFired /\ ~next.told
      /\ ~x.inside /\ ~(stay.out + 1 >= Outside) =>
           next.enter = stay.enter /\ next.told = stay.told
  BY <1>1, StayIs
<1>3. tell <=> x.inside /\ now - next.enter >= Loiter /\ ~next.told OBVIOUS
<1> HIDE DEF next
<1>4. /\ new \in StayRecord /\ new.out = next.out /\ new.enter = next.enter
      /\ new.told = (tell \/ next.told)
  BY <1>2 DEF StayRecord
<1> HIDE DEF new
<1>5. /\ OutsideFor(new, more)
      /\ Left(more, n + 1) <=> new.out >= Outside
  <2>1. new.out = IF x.inside THEN 0 ELSE stay.out + 1 BY <1>1, <1>2, <1>4
  <2>2. QED BY <1>4, <2>1, OutsideStep
<1>6. StayOf(more) = IF Left(more, n + 1) THEN {}
                     ELSE old \cup (IF x.inside THEN {n + 1} ELSE {})
  BY StayOfStep
<1>7. /\ n \in Nat /\ more \in Seq(CheckedFrame) /\ more[n + 1] = x
      /\ \A k \in 1..n : more[k] = seen[k]
  BY FrameAdded
<1>8. \A i \in old : i \in 1..n /\ more[i] = seen[i] /\ seen[i].at \in Nat
  BY <1>7, FramesOfStay
<1>9. IF stay.enter = NeverFired THEN old = {} /\ ~stay.told
      ELSE \E f \in old : /\ seen[f].at = stay.enter /\ \A i \in old : f <= i
                          /\ Reported(stay, seen, raised)
  BY DEF Dwells
<1>10. /\ stay.told \in BOOLEAN /\ stay.enter \in Int /\ stay.enter >= -1 /\ stay.out \in Nat
       /\ next.told \in BOOLEAN /\ Outside \in Nat \ {0}
  BY <1>1, <1>2, RulesAssumption DEF StayRecord
<1>11. CASE ~x.inside /\ stay.out + 1 >= Outside
  <2>1. StayOf(more) = {} BY <1>2, <1>4, <1>5, <1>6, <1>11
  <2>2. new.enter = NeverFired /\ ~new.told BY <1>2, <1>3, <1>4, <1>11
  <2>3. Dwells(new, more, all) BY <2>1, <2>2 DEF Dwells
  <2>4. QED BY <1>4, <1>5, <2>3 DEF new, next
<1>12. CASE ~x.inside /\ ~(stay.out + 1 >= Outside)
  <2>1. StayOf(more) = old BY <1>2, <1>4, <1>5, <1>6, <1>12
  <2>2. new.enter = stay.enter /\ new.told = stay.told /\ ~tell /\ all = raised
    BY <1>2, <1>3, <1>4, <1>10, <1>12
  <2>3. Reported(stay, seen, raised) => Reported(new, more, all)
    BY <1>8, <2>1, <2>2 DEF Reported
  <2>4. Dwells(new, more, all) BY <1>8, <1>9, <2>1, <2>2, <2>3 DEF Dwells
  <2>5. QED BY <1>4, <1>5, <2>4 DEF new, next
<1>13. CASE x.inside
  <2>1. StayOf(more) = old \cup {n + 1} BY <1>2, <1>4, <1>5, <1>6, <1>10, <1>13
  <2>2. /\ new.enter = IF stay.enter = NeverFired THEN now ELSE stay.enter
        /\ new.told = (tell \/ stay.told)
        /\ tell <=> (now - new.enter >= Loiter /\ ~stay.told)
    BY <1>2, <1>3, <1>4, <1>13
  <2>3. CASE stay.enter = NeverFired
    <3>1. old = {} /\ new.enter = now /\ ~tell /\ ~new.told /\ all = raised
      BY <1>1, <1>9, <2>2, <2>3
    <3>2. StayOf(more) = {n + 1} /\ more[n + 1].at = now BY <1>7, <2>1, <3>1
    <3>3. Reported(new, more, all) BY <1>1, <3>1, <3>2 DEF Reported
    <3>4. new.enter # NeverFired BY <1>1, <3>1
    <3>5. Dwells(new, more, all) BY <1>7, <3>1, <3>2, <3>3, <3>4 DEF Dwells
    <3>6. QED BY <1>4, <1>5, <3>5 DEF new, next
  <2>4. CASE stay.enter # NeverFired
    <3>1. PICK f \in old : /\ seen[f].at = stay.enter /\ \A i \in old : f <= i
                           /\ Reported(stay, seen, raised)
      BY <1>9, <2>4
    <3>2. /\ new.enter = stay.enter /\ more[f].at = new.enter /\ f \in StayOf(more)
          /\ \A i \in StayOf(more) : f <= i /\ new.enter # NeverFired
      BY <1>7, <1>8, <2>1, <2>2, <2>4, <3>1
    <3>3. Reported(new, more, all)
      <4>1. CASE stay.told
        <5>1. ~tell /\ new.told /\ all = raised BY <2>2, <4>1
        <5>2. QED BY <1>8, <2>1, <3>1, <3>2, <4>1, <5>1 DEF Reported
      <4>2. CASE ~stay.told /\ tell
        <5>1. new.told /\ all = raised \cup {now} /\ \A a \in raised : a < new.enter
          BY <2>2, <3>1, <3>2, <4>2 DEF Reported
        <5>2. now - new.enter >= Loiter /\ new.enter \in Int BY <1>10, <2>2, <3>2, <4>2
        <5>3. now >= new.enter BY <1>1, <5>2
        <5>4. \A b \in all : b >= new.enter => b = now BY <1>1, <5>1, <5>2
        <5>5. n + 1 \in StayOf(more) /\ more[n + 1].at = now BY <1>7, <2>1
        <5>6. QED BY <5>1, <5>2, <5>3, <5>4, <5>5 DEF Reported
      <4>3. CASE ~stay.told /\ ~tell
        <5>1. ~new.told /\ all = raised /\ ~(now - new.enter >= Loiter) BY <2>2, <4>3
        <5>2. \A i \in old : more[i].at - new.enter < Loiter
          BY <1>8, <3>1, <3>2, <4>3 DEF Reported
        <5>3. more[n + 1].at - new.enter < Loiter BY <1>1, <1>7, <1>10, <3>2, <5>1
        <5>4. \A i \in StayOf(more) : more[i].at - new.enter < Loiter BY <2>1, <5>2, <5>3
        <5>5. \A a \in all : a < new.enter BY <3>1, <3>2, <4>3, <5>1 DEF Reported
        <5>6. QED BY <5>1, <5>4, <5>5 DEF Reported
      <4>4. QED BY <1>10, <4>1, <4>2, <4>3
    <3>4. Dwells(new, more, all) BY <3>2, <3>3 DEF Dwells
    <3>5. QED BY <1>4, <1>5, <3>4 DEF new, next
  <2>5. QED BY <2>3, <2>4
<1>14. QED BY <1>1, <1>11, <1>12, <1>13

(* The bookkeeping of a stay means what the property says. *)
LEMMA DwellMeans ==
  ASSUME NEW seen \in Seq(CheckedFrame), NEW stay \in StayRecord, NEW raised \in SUBSET Nat,
         Dwells(stay, seen, raised)
  PROVE  ToldOnce(seen, raised)
<1> DEFINE all == StayOf(seen)
           first == CHOOSE i \in all : \A k \in all : i <= k
           long == {i \in all : seen[i].at - seen[first].at >= Loiter}
           told == {at \in raised : at >= seen[first].at}
<1>1. SUFFICES ASSUME all # {} PROVE Cardinality(told) = (IF long = {} THEN 0 ELSE 1)
  BY DEF ToldOnce
<1>2. PICK f \in all : /\ seen[f].at = stay.enter /\ \A i \in all : f <= i
                       /\ Reported(stay, seen, raised)
  BY <1>1 DEF Dwells
<1>3. \A i \in all : i \in Nat /\ seen[i].at \in Nat BY FramesOfStay
<1>4. first = f
  <2> HIDE DEF all
  <2>1. first \in all /\ \A k \in all : first <= k BY <1>2
  <2>2. first <= f /\ f <= first BY <1>2, <2>1
  <2>3. QED BY <1>2, <1>3, <2>1, <2>2
<1> HIDE DEF first
<1>5. seen[first].at = stay.enter /\ stay.told \in BOOLEAN BY <1>2, <1>4 DEF StayRecord
<1>6. CASE stay.told
  <2>1. PICK a \in raised : a >= stay.enter /\ \A b \in raised : b >= stay.enter => b = a
    BY <1>2, <1>6 DEF Reported
  <2>2. told = {a} BY <1>5, <2>1
  <2>3. long # {} BY <1>2, <1>5, <1>6 DEF Reported
  <2> HIDE DEF told, long
  <2>4. Cardinality({a}) = 1 BY FS_Singleton
  <2>5. QED BY <2>2, <2>3, <2>4
<1>7. CASE ~stay.told
  <2>1. \A a \in raised : ~(a >= stay.enter)
    <3>1. stay.enter \in Nat BY <1>2, <1>3
    <3>2. \A a \in raised : a < stay.enter BY <1>2, <1>7 DEF Reported
    <3>3. QED BY <3>1, <3>2
  <2>2. told = {} BY <1>5, <2>1
  <2>3. \A i \in all : ~(seen[i].at - seen[first].at >= Loiter)
    <3>1. stay.enter \in Nat /\ Loiter \in Nat BY <1>2, <1>3, RulesAssumption
    <3>2. \A i \in all : seen[i].at - stay.enter < Loiter BY <1>2, <1>7 DEF Reported
    <3>3. QED BY <1>3, <1>5, <3>1, <3>2
  <2>4. long = {} BY <2>3
  <2> HIDE DEF told, long
  <2>5. QED BY <2>2, <2>4, FS_EmptySet
<1>8. QED BY <1>5, <1>6, <1>7
-----------------------------------------------------------------------------
(* Before the first frame nothing was told. *)
LEMMA NothingSeen ==
  /\ OutsideFor(NoStay, <<>>) /\ Dwells(NoStay, <<>>, {}) /\ ToldOnce(<<>>, {})
  /\ NoStay \in StayRecord /\ <<>> \in Seq(CheckedFrame)
<1>1. NoStay \in StayRecord
  <2>1. MaxRuleTime \in Nat BY RulesAssumption
  <2>2. QED BY <2>1 DEF NoStay, StayRecord, NeverFired
<1>2. Len(<<>>) = 0 /\ <<>> \in Seq(CheckedFrame) OBVIOUS
<1>3. StayOf(<<>>) = {}
  <2>1. 1..Len(<<>>) = {} BY <1>2
  <2>2. QED BY <2>1 DEF StayOf
<1>4. OutsideFor(NoStay, <<>>) BY <1>2 DEF OutsideFor, NoStay
<1>5. Dwells(NoStay, <<>>, {}) BY <1>3 DEF Dwells, NoStay
<1>6. ToldOnce(<<>>, {}) BY <1>3 DEF ToldOnce
<1>7. QED BY <1>1, <1>2, <1>4, <1>5, <1>6

(* An alarm has its rule, its track and its time. *)
LEMMA EmitIs ==
  ASSUME NEW rule \in {"loiter", "trip"}, NEW t \in RuleTrack, NEW now \in 0..MaxRuleTime
  PROVE  Emit(rule, t, now) \in SentRecord /\ Emit(rule, t, now).at = now
         /\ Emit(rule, t, now).rule = rule /\ Emit(rule, t, now).track = t
<1>1. now \in Nat /\ MaxRuleTime \in Nat /\ RuleCooldown \in Nat \ {0} BY RulesAssumption
<1>2. now \div RuleCooldown \in 0..now BY <1>1, Quotients
<1> DEFINE bucket == now \div RuleCooldown
<1>3. bucket \in 0..MaxRuleTime BY <1>1, <1>2
<1>4. Emit(rule, t, now) = [rule |-> rule, track |-> t, bucket |-> bucket, at |-> now] BY DEF Emit
<1> HIDE DEF bucket
<1>5. QED BY <1>3, <1>4 DEF SentRecord

(* What is remembered after an alarm was remembered before, or is it. *)
LEMMA SentIs == ASSUME NEW e PROVE Sent(e) \subseteq ruSent \cup {e}
<1> DEFINE kept == {s \in ruSent : ~SameKey(s, e)} \cup {e}
<1>1. kept \subseteq ruSent \cup {e} OBVIOUS
<1>2. Sent(e) = kept \/ Sent(e) = {s \in kept : s.at >= e.at - KeepFor} BY DEF Sent
<1>3. QED BY <1>1, <1>2

(* A fresh engine satisfies the invariant. *)
LEMMA FreshInv ==
  ASSUME Fresh', ruTime' \in 0..MaxRuleTime, ruFenced' \in BOOLEAN
  PROVE  RulesInv'
<1>1. /\ \A t \in RuleTrack : /\ ruLoiter'[t] = NoStay /\ ruTrip'[t] = NoTrip
                             /\ ruSeen'[t] = <<>> /\ ruRaised'[t] = {}
      /\ ruSent' = {} /\ ruGone' = {}
  BY DEF Fresh
<1>2. NoTrip \in TripRecord
  <2>1. Far \in Nat BY RulesAssumption
  <2>2. QED BY <2>1 DEF NoTrip, TripRecord
<1>3. RulesTypeOK' BY <1>2, NothingSeen DEF Fresh, RulesTypeOK
<1>4. LoiterMeansDwell' BY <1>1, NothingSeen DEF LoiterMeansDwell
<1>5. \A t \in RuleTrack : Len(ruSeen'[t]) = 0 BY <1>1
<1>6. \A t \in RuleTrack : OutsideFor(ruLoiter'[t], ruSeen'[t])
                          /\ Dwells(ruLoiter'[t], ruSeen'[t], ruRaised'[t])
  BY <1>1, NothingSeen
<1>7. QED BY <1>1, <1>3, <1>4, <1>5, <1>6 DEF RulesInv, KeptOf

(* The invariant holds at the start. *)
LEMMA RulesInitInv == RulesInit => RulesInv
<1> SUFFICES ASSUME RulesInit PROVE RulesInv OBVIOUS
<1>1. /\ \A t \in RuleTrack : ruSeen[t] = <<>> /\ ruRaised[t] = {} /\ ruLoiter[t] = NoStay
      /\ ruSent = {} /\ ruGone = {} /\ ruTime = 0 /\ ruFenced = FALSE
  BY DEF RulesInit, Fresh
<1>2. NoTrip \in TripRecord /\ 0 \in 0..MaxRuleTime
  <2>1. Far \in Nat /\ MaxRuleTime \in Nat BY RulesAssumption
  <2>2. QED BY <2>1 DEF NoTrip, TripRecord
<1>3. RulesTypeOK BY <1>1, <1>2, NothingSeen DEF RulesInit, Fresh, RulesTypeOK
<1>4. LoiterMeansDwell BY <1>1, NothingSeen DEF LoiterMeansDwell
<1>5. \A t \in RuleTrack : OutsideFor(ruLoiter[t], ruSeen[t])
                         /\ Dwells(ruLoiter[t], ruSeen[t], ruRaised[t])
  BY <1>1, NothingSeen
<1>6. \A t \in RuleTrack : Len(ruSeen[t]) = 0 BY <1>1
<1>7. QED BY <1>1, <1>3, <1>4, <1>5, <1>6 DEF RulesInv, KeptOf

(* What the frames say of a track depends on nothing but its own history.   *)
LEMMA HistoryKept ==
  ASSUME RulesInv, UNCHANGED <<ruLoiter, ruSeen, ruRaised>>, ruTime' \in Nat, ruTime' >= ruTime,
         ruGone \subseteq ruGone', RulesTypeOK',
         \A s \in ruSent' : s \in ruSent \/ s.rule = "trip"
  PROVE  RulesInv'
<1>1. LoiterMeansDwell' BY DEF RulesInv, LoiterMeansDwell
<1>2. \A t \in RuleTrack \ ruGone' : KeptOf(t)' BY DEF RulesInv, KeptOf
<1>3. \A t \in RuleTrack : Len(ruSeen'[t]) <= ruTime' /\ \A a \in ruRaised'[t] : a <= ruTime'
  <2>1. SUFFICES ASSUME NEW t \in RuleTrack
                 PROVE  Len(ruSeen[t]) <= ruTime' /\ \A a \in ruRaised[t] : a <= ruTime'
    OBVIOUS
  <2>2. /\ ruTime \in Nat /\ Len(ruSeen[t]) \in Nat /\ ruRaised[t] \subseteq Nat
        /\ Len(ruSeen[t]) <= ruTime /\ \A a \in ruRaised[t] : a <= ruTime
    BY RulesAssumption DEF RulesInv, RulesTypeOK
  <2>3. QED BY <2>2
<1>4. \A s \in ruSent' : s.rule = "loiter" => s.at \in ruRaised'[s.track]
  BY DEF RulesInv
<1>5. QED BY <1>1, <1>2, <1>3, <1>4 DEF RulesInv

(* A track is checked against the zones. *)
LEMMA ZonesKeep ==
  ASSUME RulesInv, NEW t \in RuleTrack, NEW within \in BOOLEAN, CheckZones(t, within)
  PROVE  RulesInv'
<1> DEFINE now == ruTime'
           seen == ruSeen[t]
           raised == ruRaised[t]
           old == ruLoiter[t]
           x == [at |-> now, inside |-> within]
           stay == Stay(old, within, now)
           e == Emit("loiter", t, now)
           tell == within /\ now - stay.enter >= Loiter /\ ~stay.told /\ ShouldEmit(e)
           new == IF tell THEN [stay EXCEPT !.told = TRUE] ELSE stay
           all == IF tell THEN raised \cup {now} ELSE raised
<1>1. /\ ruTime \in Nat /\ now = ruTime + 1 /\ now \in 0..MaxRuleTime /\ now \in Nat
      /\ MaxRuleTime \in Nat
  BY RulesAssumption DEF CheckZones, RulesInv, RulesTypeOK
<1>2. /\ ruLoiter' = [ruLoiter EXCEPT ![t] = new]
      /\ ruSent' = IF tell THEN Sent(e) ELSE ruSent
      /\ ruRaised' = [ruRaised EXCEPT ![t] = all]
      /\ ruSeen' = [ruSeen EXCEPT ![t] = Append(seen, x)]
      /\ UNCHANGED <<ruFenced, ruTrip, ruGone>> /\ t \notin ruGone
  BY DEF CheckZones, RulesInv, RulesTypeOK
<1>3. /\ seen \in Seq(CheckedFrame) /\ raised \in SUBSET (0..MaxRuleTime) /\ old \in StayRecord
      /\ x \in CheckedFrame /\ raised \in SUBSET Nat /\ Len(seen) <= ruTime /\ Len(seen) \in Nat
      /\ \A a \in raised : a < now
  <2>1. \A a \in raised : a <= ruTime BY DEF RulesInv
  <2>2. /\ seen \in Seq(CheckedFrame) /\ raised \in SUBSET (0..MaxRuleTime) /\ old \in StayRecord
        /\ Len(seen) <= ruTime
    BY DEF RulesInv, RulesTypeOK
  <2>3. x \in CheckedFrame BY <1>1 DEF CheckedFrame
  <2>4. QED BY <1>1, <2>1, <2>2, <2>3
<1>4. OutsideFor(old, seen) /\ Dwells(old, seen, raised) BY <1>2 DEF RulesInv, KeptOf
<1>5. old.out + 1 <= MaxRuleTime
  <2>1. old.out \in 0..Len(seen) BY <1>4 DEF OutsideFor
  <2>2. QED BY <1>1, <1>3, <2>1
<1>6. stay \in StayRecord /\ (within => stay.told = old.told
        /\ stay.enter = IF old.enter = NeverFired THEN now ELSE old.enter)
  BY <1>1, <1>3, <1>5, StayIs
<1>7. e \in SentRecord /\ e.at = now /\ e.rule = "loiter" /\ e.track = t BY <1>1, EmitIs
<1>8. ASSUME within, now - stay.enter >= Loiter, ~stay.told PROVE ShouldEmit(e)
  <2>1. ~old.told /\ old.enter # NeverFired /\ stay.enter = old.enter
    <3>1. Loiter \in Nat \ {0} BY RulesAssumption
    <3>2. old.enter = NeverFired => stay.enter = now BY <1>6, <1>8
    <3>3. old.enter # NeverFired
      <4> DEFINE entered == stay.enter
      <4>1. now - entered >= Loiter BY <1>8
      <4>2. SUFFICES ASSUME entered = now PROVE FALSE BY <3>2
      <4> HIDE DEF now, entered
      <4>3. QED BY <1>1, <3>1, <4>1, <4>2
    <3>4. QED BY <1>6, <1>8, <3>3
  <2>2. \A a \in raised : a < old.enter BY <1>4, <2>1 DEF Dwells, Reported
  <2>3. ASSUME NEW s \in ruSent, SameKey(s, e) PROVE e.at - s.at >= RuleCooldown
    <3>1. s.rule = "loiter" /\ s.track = t BY <1>7, <2>3 DEF SameKey
    <3>2. s.at \in raised BY <3>1 DEF RulesInv
    <3>3. s.at < old.enter /\ s.at \in Nat BY <1>3, <2>2, <3>2
    <3>4. now - old.enter >= Loiter BY <1>8, <2>1
    <3>5. old.enter \in Int BY <1>3 DEF StayRecord, NeverFired
    <3>6. Loiter \in Nat /\ RuleCooldown \in Nat /\ Loiter >= RuleCooldown BY RulesAssumption
    <3> DEFINE before == s.at
               entered == old.enter
    <3>7. before < entered /\ before \in Nat /\ now - entered >= Loiter /\ entered \in Int
      BY <3>3, <3>4, <3>5
    <3> HIDE DEF before, entered, now
    <3>8. now - before >= RuleCooldown BY <1>1, <3>6, <3>7
    <3>9. QED BY <1>7, <3>8 DEF before
  <2>4. QED BY <2>3 DEF ShouldEmit
<1>9. tell <=> within /\ now - stay.enter >= Loiter /\ ~stay.told BY <1>8
<1> HIDE DEF e
<1>10. /\ new \in StayRecord /\ OutsideFor(new, Append(seen, x))
       /\ Dwells(new, Append(seen, x), all)
  <2>1. x.at = now /\ x.inside = within OBVIOUS
  <2> DEFINE told == tell
  <2>2. told \in BOOLEAN /\ (told <=> within /\ now - stay.enter >= Loiter /\ ~stay.told)
    BY <1>9
  <2>3. /\ new = IF told THEN [stay EXCEPT !.told = TRUE] ELSE stay
        /\ all = IF told THEN raised \cup {now} ELSE raised
    OBVIOUS
  <2> HIDE DEF told, new, all, x, now, seen, raised, old, tell
  <2>4. stay = Stay(old, x.inside, x.at) BY <2>1
  <2> HIDE DEF stay
  <2>5. told <=> (x.inside /\ x.at - Stay(old, x.inside, x.at).enter >= Loiter
                  /\ ~Stay(old, x.inside, x.at).told)
    BY <2>1, <2>2, <2>4
  <2>6. \A a \in raised : a < x.at BY <1>3, <2>1
  <2>7. LET next == Stay(old, x.inside, x.at)
            fresh == IF told THEN [next EXCEPT !.told = TRUE] ELSE next
        IN  /\ fresh \in StayRecord /\ OutsideFor(fresh, Append(seen, x))
            /\ Dwells(fresh, Append(seen, x), IF told THEN raised \cup {x.at} ELSE raised)
    BY <1>3, <1>4, <1>5, <2>2, <2>5, <2>6, DwellStep
  <2>8. QED BY <2>1, <2>3, <2>4, <2>7
<1>11. all \in SUBSET (0..MaxRuleTime) /\ \A a \in all : a <= now
  BY <1>1, <1>3
<1>12. /\ Append(seen, x) \in Seq(CheckedFrame) /\ Len(Append(seen, x)) = Len(seen) + 1
  BY <1>3
<1>13. ruSent' \subseteq ruSent \cup {e} /\ (ruSent' \subseteq ruSent \/ now \in all)
  BY <1>2, SentIs
<1> HIDE DEF new, all, tell, stay, x, now, seen, raised, old
<1>14. /\ ruLoiter' = [ruLoiter EXCEPT ![t] = new] /\ ruRaised' = [ruRaised EXCEPT ![t] = all]
       /\ ruSeen' = [ruSeen EXCEPT ![t] = Append(seen, x)]
  BY <1>2
<1>15. RulesTypeOK'
  BY <1>1, <1>2, <1>7, <1>10, <1>11, <1>12, <1>13, <1>14 DEF RulesInv, RulesTypeOK, now
<1>16. /\ ruLoiter'[t] = new /\ ruRaised'[t] = all /\ ruSeen'[t] = Append(seen, x)
       /\ \A u \in RuleTrack : u # t => /\ ruLoiter'[u] = ruLoiter[u] /\ ruSeen'[u] = ruSeen[u]
                                        /\ ruRaised'[u] = ruRaised[u]
  BY <1>14 DEF RulesInv, RulesTypeOK
<1>17. LoiterMeansDwell'
  <2>1. ToldOnce(Append(seen, x), all)
    <3>1. all \in SUBSET Nat BY <1>1, <1>11
    <3>2. QED BY <1>10, <1>12, <3>1, DwellMeans
  <2>2. QED BY <1>16, <2>1 DEF RulesInv, LoiterMeansDwell
<1>18. \A u \in RuleTrack \ ruGone' : KeptOf(u)'
  BY <1>2, <1>10, <1>16 DEF RulesInv, KeptOf
<1>19. ASSUME NEW u \in RuleTrack
       PROVE  Len(ruSeen'[u]) <= ruTime' /\ \A a \in ruRaised'[u] : a <= ruTime'
  <2>1. CASE u = t BY <1>1, <1>3, <1>11, <1>12, <1>16, <2>1 DEF now
  <2>2. CASE u # t
    <3>1. Len(ruSeen[u]) <= ruTime /\ Len(ruSeen[u]) \in Nat BY DEF RulesInv, RulesTypeOK
    <3>2. \A a \in ruRaised[u] : a <= ruTime /\ a \in Nat
      BY <1>1 DEF RulesInv, RulesTypeOK
    <3>3. ruTime' = ruTime + 1 BY <1>1 DEF now
    <3>4. Len(ruSeen[u]) <= ruTime + 1 /\ \A a \in ruRaised[u] : a <= ruTime + 1
      BY <1>1, <3>1, <3>2
    <3>5. QED BY <1>16, <2>2, <3>3, <3>4
  <2>3. QED BY <2>1, <2>2
<1>20. ASSUME NEW s \in ruSent', s.rule = "loiter" PROVE s.at \in ruRaised'[s.track]
  <2>1. CASE s \in ruSent
    <3>1. s.at \in ruRaised[s.track] /\ s.track \in RuleTrack
      BY <1>20, <2>1 DEF RulesInv, RulesTypeOK, SentRecord
    <3>2. raised \subseteq all BY DEF all
    <3>3. QED BY <1>16, <3>1, <3>2 DEF raised
  <2>2. CASE s \notin ruSent BY <1>7, <1>13, <1>16, <1>20, <2>2
  <2>3. QED BY <2>1, <2>2
<1>21. QED BY <1>15, <1>17, <1>18, <1>19, <1>20 DEF RulesInv

(* A track is checked against the tripwire. *)
LEMMA TripwireKeeps ==
  ASSUME RulesInv, NEW t \in RuleTrack, NEW side \in -Far..Far, NEW met \in BOOLEAN,
         CheckTripwire(t, side, met)
  PROVE  RulesInv'
<1> DEFINE e == Emit("trip", t, ruTime)
<1>1. UNCHANGED <<ruTime, ruFenced, ruLoiter, ruGone, ruSeen, ruRaised>> BY DEF CheckTripwire
<1>2. e \in SentRecord /\ e.rule = "trip"
  <2>1. ruTime \in 0..MaxRuleTime BY DEF RulesInv, RulesTypeOK
  <2>2. QED BY <2>1, EmitIs
<1>3. ruSent' \subseteq ruSent \cup {e} BY SentIs DEF CheckTripwire
<1>4. ruTrip' \in [RuleTrack -> TripRecord]
  <2>1. ruTrip \in [RuleTrack -> TripRecord] BY DEF RulesInv, RulesTypeOK
  <2>2. ASSUME NEW armed \in BOOLEAN
        PROVE  [ruTrip EXCEPT ![t] = [side |-> side, known |-> TRUE, armed |-> armed]]
                 \in [RuleTrack -> TripRecord]
    <3>1. [side |-> side, known |-> TRUE, armed |-> armed] \in TripRecord BY DEF TripRecord
    <3>2. QED BY <2>1, <3>1
  <2>3. \/ ruTrip' = ruTrip
        \/ \E armed \in BOOLEAN :
             ruTrip' = [ruTrip EXCEPT ![t] = [side |-> side, known |-> TRUE, armed |-> armed]]
    <3> DEFINE tell == /\ ruTrip[t].known /\ ruTrip[t].side * side < 0 /\ met
                       /\ ShouldEmit(e)
    <3>1. \/ ruTrip' = ruTrip
          \/ ruTrip' = [ruTrip EXCEPT ![t] = [side |-> side, known |-> TRUE, armed |-> ~tell]]
      BY DEF CheckTripwire
    <3>2. (~tell) \in BOOLEAN OBVIOUS
    <3> HIDE DEF tell
    <3>3. QED BY <3>1, <3>2
  <2>4. QED BY <2>1, <2>2, <2>3
<1>5. RulesTypeOK' BY <1>1, <1>2, <1>3, <1>4 DEF RulesInv, RulesTypeOK
<1>6. ruTime \in Nat BY RulesAssumption DEF RulesInv, RulesTypeOK
<1> HIDE DEF e
<1>7. \A s \in ruSent' : s \in ruSent \/ s.rule = "trip" BY <1>2, <1>3
<1>8. QED BY <1>1, <1>5, <1>6, <1>7, HistoryKept

(* A track is forgotten. *)
LEMMA PruneKeeps ==
  ASSUME RulesInv, NEW t \in RuleTrack, PruneTrack(t)
  PROVE  RulesInv'
<1>1. NoTrip \in TripRecord
  <2>1. Far \in Nat BY RulesAssumption
  <2>2. QED BY <2>1 DEF NoTrip, TripRecord
<1>2. RulesTypeOK' BY <1>1, NothingSeen DEF RulesInv, RulesTypeOK, PruneTrack
<1>3. /\ UNCHANGED <<ruTime, ruSent, ruSeen, ruRaised>> /\ ruGone' = ruGone \cup {t}
      /\ \A u \in RuleTrack : u # t => ruLoiter'[u] = ruLoiter[u]
  BY DEF RulesInv, RulesTypeOK, PruneTrack
<1>4. LoiterMeansDwell' BY <1>3 DEF RulesInv, LoiterMeansDwell
<1>5. \A u \in RuleTrack \ ruGone' : KeptOf(u)' BY <1>3 DEF RulesInv, KeptOf
<1>6. QED BY <1>2, <1>3, <1>4, <1>5 DEF RulesInv

(* Every step, and every stutter, preserves the invariant. *)
LEMMA RulesStep == RulesInv /\ [RulesNext]_rulesVars => RulesInv'
<1> SUFFICES ASSUME RulesInv, [RulesNext]_rulesVars PROVE RulesInv' OBVIOUS
<1>1. ruTime \in 0..MaxRuleTime /\ ruTime \in Nat /\ ruFenced \in BOOLEAN /\ MaxRuleTime \in Nat
  BY RulesAssumption DEF RulesInv, RulesTypeOK
<1>2. CASE OtherFrame
  <2>1. ruTime' \in 0..MaxRuleTime /\ ruTime' >= ruTime BY <1>1, <1>2 DEF OtherFrame
  <2>2. UNCHANGED <<ruFenced, ruLoiter, ruTrip, ruSent, ruGone, ruSeen, ruRaised>>
    BY <1>2 DEF OtherFrame
  <2>3. RulesTypeOK' BY <2>1, <2>2 DEF RulesInv, RulesTypeOK
  <2>4. QED BY <1>1, <2>1, <2>2, <2>3, HistoryKept
<1>3. CASE SetZone
  <2>1. UNCHANGED <<ruTime, ruLoiter, ruTrip, ruSent, ruGone, ruSeen, ruRaised>>
    BY <1>3 DEF SetZone
  <2>2. RulesTypeOK' BY <1>3, <2>1 DEF RulesInv, RulesTypeOK, SetZone
  <2>3. ruTime >= ruTime BY <1>1
  <2>4. QED BY <1>1, <2>1, <2>2, <2>3, HistoryKept
<1>4. CASE Reset
  <2>1. Fresh' BY <1>4 DEF Reset, Fresh
  <2>2. QED BY <1>1, <1>4, <2>1, FreshInv DEF Reset
<1>5. ASSUME NEW t \in RuleTrack, PruneTrack(t) PROVE RulesInv' BY <1>5, PruneKeeps
<1>6. ASSUME NEW t \in RuleTrack, NEW within \in BOOLEAN, CheckZones(t, within) PROVE RulesInv'
  BY <1>6, ZonesKeep
<1>7. ASSUME NEW t \in RuleTrack, NEW side \in -Far..Far, NEW met \in BOOLEAN,
             CheckTripwire(t, side, met)
      PROVE  RulesInv'
  BY <1>7, TripwireKeeps
<1>8. CASE UNCHANGED rulesVars
  <2>1. UNCHANGED <<ruTime, ruFenced, ruLoiter, ruTrip, ruSent, ruGone, ruSeen, ruRaised>>
    BY <1>8 DEF rulesVars
  <2>2. RulesTypeOK' BY <2>1 DEF RulesInv, RulesTypeOK
  <2>3. ruTime >= ruTime BY <1>1
  <2>4. QED BY <1>1, <2>1, <2>2, <2>3, HistoryKept
<1>9. QED BY <1>2, <1>3, <1>4, <1>5, <1>6, <1>7, <1>8 DEF RulesNext

(* The rule engine keeps its invariant: what it remembers of every track    *)
(* that has not ended is what the frames of the track say.                  *)
THEOREM RulesInvariant == RulesSpec => []RulesInv
<1>1. QED BY RulesInitInv, RulesStep, PTL DEF RulesSpec

(* The state of the rule engine (core/rules.py) has its type.               *)
THEOREM RulesTypeCorrect == RulesSpec => []RulesTypeOK
<1>1. RulesInv => RulesTypeOK BY DEF RulesInv
<1>2. QED BY <1>1, RulesInvariant, PTL

(* A track is reported in its present stay exactly if the stay was long     *)
(* enough, and once only, whatever frames, pruned tracks, epochs and        *)
(* tripwire events came between (core/rules.py, check_zones).               *)
THEOREM RulesLoiterMeansDwell == RulesSpec => []LoiterMeansDwell
<1>1. RulesInv => LoiterMeansDwell BY DEF RulesInv
<1>2. QED BY <1>1, RulesInvariant, PTL
-----------------------------------------------------------------------------
(***************************************************************************)
(* Association.  What a round of a loop takes is ahead of all it removes   *)
(* from the loop, so a candidate that is gone has met a pair it does not   *)
(* overlap more than.  What is left to a stage meets no pair yet, so no    *)
(* detection and no track is matched twice.                                *)
(***************************************************************************)
Claimed(c) == \E p \in taPairs \cap Overlapping : Meets(p, c) /\ ~MoreOverlap(c, p)

Candidates ==
  /\ taStage = "overlap" => /\ taLeft \subseteq Overlapping
                            /\ \A c \in Overlapping : c \in taLeft \/ Claimed(c)
  /\ taStage \in {"near", "across", "start"} => \A c \in Overlapping : Claimed(c)

OneToOne == \A p, q \in taPairs : Meets(p, q) => p = q

OutOfReach ==
  /\ taStage = "idle" => taBefore = NoTracks
  /\ taStage \in {"idle", "clean"} => taPairs = {}
  /\ taStage # "across" /\ taStage # "start" => taRest = {}
  /\ taStage \in {"overlap", "near"} => \A p \in taPairs, q \in taLeft : ~Meets(p, q)
  /\ taStage = "across" => /\ taLeft \cap taRest = {}
                           /\ \A p \in taPairs : p[1] \notin taLeft \cup taRest
  /\ taStage = "start" => \A p \in taPairs : p[1] \notin taLeft

AssociationInv == AssociationTypeOK /\ Candidates /\ OneToOne /\ OutOfReach

(* Clamping and smoothing give boxes. *)
LEMMA CleanBoxIs == ASSUME NEW b \in Int \X Int PROVE CleanBox(b) \in Box
<1>1. \A x \in Int : Clamped(x) \in Column BY DEF Clamped, Most, Least, Column
<1>2. Least(b[1], b[2]) \in Int /\ Most(b[1], b[2]) \in Int BY DEF Least, Most
<1>3. QED BY <1>1, <1>2 DEF CleanBox, Box

LEMMA BetweenIs ==
  ASSUME NEW m \in Column, NEW n \in Column PROVE (65 * m + 35 * n) \div 100 \in Column
  BY DEF Column

LEMMA SmoothedIs == ASSUME NEW a \in Box, NEW b \in Box PROVE Smoothed(a, b) \in Box
<1> DEFINE x == (65 * a[1] + 35 * b[1]) \div 100
           y == (65 * a[2] + 35 * b[2]) \div 100
<1>1. a[1] \in Column /\ a[2] \in Column /\ b[1] \in Column /\ b[2] \in Column BY DEF Box
<1>2. x \in Column BY <1>1, BetweenIs
<1>3. y \in Column BY <1>1, BetweenIs
<1>4. Smoothed(a, b) = <<x, y>> BY DEF Smoothed
<1> HIDE DEF x, y
<1>5. QED BY <1>2, <1>3, <1>4 DEF Box

(* What the types say of a detection and of a track. *)
LEMMA DetectionIs ==
  ASSUME NEW d \in CleanDetection
  PROVE  d.box \in Box /\ d.class \in Kind /\ d.conf \in 0..100
  BY DEF CleanDetection

LEMMA BoxedIs ==
  ASSUME NEW b \in Box, NEW k \in Kind, NEW n \in 0..100, NEW y \in BOOLEAN
  PROVE  /\ [box |-> b, class |-> k, conf |-> n, known |-> y] \in BoxedTrack
         /\ [box |-> b, class |-> k, conf |-> n] \in CleanDetection
  BY DEF BoxedTrack, CleanDetection

(* A call begins. *)
LEMMA ReceiveKeeps ==
  ASSUME AssociationInv, NEW raw \in BoundedSeq(Detection, MaxDetections), Receive(raw)
  PROVE  AssociationInv'
<1> DEFINE cleaned(i) == [raw[i] EXCEPT !.box = CleanBox(@)]
<1>1. \A i \in DOMAIN raw : cleaned(i) \in CleanDetection
  <2>1. PICK m \in 0..MaxDetections : raw \in [1..m -> Detection] BY DEF BoundedSeq, SeqOf
  <2>0. \A i \in DOMAIN raw : raw[i] \in Detection BY <2>1
  <2>2. SUFFICES ASSUME NEW d \in Detection PROVE [d EXCEPT !.box = CleanBox(@)] \in CleanDetection
    BY <2>0
  <2>3. d \in [box : Int \X Int, class : Kind, conf : 0..100] BY AssociationAssumption
  <2>4. CleanBox(d.box) \in Box BY <2>3, CleanBoxIs
  <2>5. QED BY <2>3, <2>4 DEF CleanDetection
<1> HIDE DEF cleaned
<1>2. /\ taStage = "idle" /\ taStage' = "clean" /\ taFrames < MaxFrames /\ taFrames' = taFrames + 1
      /\ taInput' = [i \in DOMAIN raw |-> cleaned(i)] /\ taLeft' \subseteq DOMAIN raw
      /\ taBefore' = taTracks /\ UNCHANGED <<taTracks, taNext, taSeen, taRest, taPairs>>
  BY DEF Receive, cleaned
<1>3. taFrames' \in 0..MaxFrames
  BY <1>2, AssociationAssumption DEF AssociationInv, AssociationTypeOK
<1>4. AssociationTypeOK' BY <1>1, <1>2, <1>3 DEF AssociationInv, AssociationTypeOK
<1>5. QED BY <1>2, <1>4 DEF AssociationInv, Candidates, OneToOne, OutOfReach

(* A detection is kept, or lends its confidence. *)
LEMMA KeepOrDropKeeps ==
  ASSUME AssociationInv, NEW i \in taLeft, KeepOrDrop(i) PROVE AssociationInv'
<1>1. /\ taStage = "clean" /\ taStage' = "clean" /\ taLeft' = taLeft \ {i}
      /\ UNCHANGED <<taTracks, taNext, taFrames, taInput, taRest, taBefore, taPairs>>
  BY DEF KeepOrDrop
<1>2. taSeen' \in Seq(CleanDetection)
  <2>1. taInput[i] \in CleanDetection /\ taSeen \in Seq(CleanDetection)
    BY <1>1 DEF AssociationInv, AssociationTypeOK
  <2>2. CASE taSeen' = Append(taSeen, taInput[i]) BY <2>1, <2>2
  <2>3. CASE \E k \in DOMAIN taSeen :
               taSeen' = [taSeen EXCEPT ![k].conf = Most(@, taInput[i].conf)]
    <3>1. PICK k \in DOMAIN taSeen :
            taSeen' = [taSeen EXCEPT ![k].conf = Most(@, taInput[i].conf)]
      BY <2>3
    <3>2. taSeen[k] \in CleanDetection BY <2>1
    <3>3. Most(taSeen[k].conf, taInput[i].conf) \in 0..100
      BY <2>1, <3>2, DetectionIs DEF Most
    <3>4. [taSeen[k] EXCEPT !.conf = Most(@, taInput[i].conf)] \in CleanDetection
      BY <3>2, <3>3 DEF CleanDetection
    <3>5. QED BY <2>1, <3>1, <3>4
  <2>4. QED BY <2>2, <2>3 DEF KeepOrDrop
<1>3. AssociationTypeOK' BY <1>1, <1>2 DEF AssociationInv, AssociationTypeOK, OutOfReach
<1>4. QED BY <1>1, <1>3 DEF AssociationInv, Candidates, OneToOne, OutOfReach

(* A pair is matched: the track moves, and what meets the pair is gone. *)
LEMMA MatchPairKeeps ==
  ASSUME AssociationInv, NEW p \in taLeft, MatchPair(p), taStage \in {"overlap", "near"}
  PROVE  /\ AssociationTypeOK' /\ OneToOne' /\ OutOfReach'
<1>1. /\ taPairs' = taPairs \cup {p} /\ taLeft' = {q \in taLeft : ~Meets(p, q)}
      /\ UNCHANGED <<taNext, taFrames, taStage, taInput, taSeen, taRest, taBefore>>
  BY DEF MatchPair
<1>2. /\ p \in (DOMAIN taSeen) \X (DOMAIN taBefore) /\ DOMAIN taBefore \subseteq DOMAIN taTracks
      /\ taLeft \subseteq (DOMAIN taSeen) \X (DOMAIN taBefore)
  BY DEF AssociationInv, AssociationTypeOK
<1>3. PICK i \in DOMAIN taSeen, t \in DOMAIN taTracks : p = <<i, t>> BY <1>2
<1>4. DOMAIN taTracks' = DOMAIN taTracks /\ \A u \in DOMAIN taTracks : taTracks'[u] \in BoxedTrack
  <2>1. taSeen[i] \in CleanDetection /\ \A u \in DOMAIN taTracks : taTracks[u] \in BoxedTrack
    BY DEF AssociationInv, AssociationTypeOK
  <2>2. Smoothed(taTracks[t].box, taSeen[i].box) \in Box /\ taSeen[i].conf \in 0..100
    BY <2>1, SmoothedIs, DetectionIs DEF BoxedTrack
  <2>3. taTracks' = [taTracks EXCEPT ![t].box = Smoothed(@, taSeen[i].box),
                                     ![t].conf = taSeen[i].conf]
    BY <1>3 DEF MatchPair
  <2>4. QED BY <2>1, <2>2, <2>3 DEF BoxedTrack
<1>5. AssociationTypeOK' BY <1>1, <1>2, <1>3, <1>4 DEF AssociationInv, AssociationTypeOK
<1>6. \A q \in taPairs : ~Meets(q, p) /\ ~Meets(p, q)
  BY DEF AssociationInv, OutOfReach, Meets
<1>7. OneToOne' BY <1>1, <1>6 DEF AssociationInv, OneToOne, Meets
<1>8. OutOfReach' BY <1>1 DEF AssociationInv, OutOfReach
<1>9. QED BY <1>5, <1>7, <1>8

LEMMA OverlapIs ==
  ASSUME UNCHANGED <<taBefore, taSeen>>
  PROVE  /\ Overlapping' = Overlapping
         /\ \A c, p : MoreOverlap(c, p)' <=> MoreOverlap(c, p)
  BY DEF Overlapping, SameKind, MoreOverlap

LEMMA MatchOverlapKeeps ==
  ASSUME AssociationInv, NEW p \in taLeft, MatchOverlap(p) PROVE AssociationInv'
<1>1. /\ taStage = "overlap" /\ MatchPair(p) /\ \A q \in taLeft : ~ByOverlap(q, p)
  BY DEF MatchOverlap
<1>2. /\ taPairs' = taPairs \cup {p} /\ taLeft' = {q \in taLeft : ~Meets(p, q)}
      /\ UNCHANGED <<taStage, taSeen, taBefore>>
  BY <1>1 DEF MatchPair
<1>3. taLeft \subseteq Overlapping /\ \A c \in Overlapping : c \in taLeft \/ Claimed(c)
  BY <1>1 DEF AssociationInv, Candidates
<1>4. /\ Overlapping' = Overlapping
      /\ \A c, q : MoreOverlap(c, q)' <=> MoreOverlap(c, q)
  BY <1>2, OverlapIs
<1>5. ASSUME NEW c \in Overlapping PROVE c \in taLeft' \/ Claimed(c)'
  <2>1. CASE Claimed(c) BY <1>2, <1>4, <2>1 DEF Claimed
  <2>2. CASE c \in taLeft
    <3>1. ~MoreOverlap(c, p) BY <1>1, <2>2 DEF ByOverlap
    <3>2. QED BY <1>2, <1>3, <1>4, <2>2, <3>1 DEF Claimed
  <2>3. QED BY <1>3, <2>1, <2>2
<1>6. Candidates' BY <1>1, <1>2, <1>3, <1>4, <1>5 DEF Candidates
<1>7. QED BY <1>1, <1>6, MatchPairKeeps DEF AssociationInv

(* More pairs leave claimed what was. *)
LEMMA ClaimsStay ==
  ASSUME Candidates, taStage \in {"near", "across", "start"}, taPairs \subseteq taPairs',
         taStage' \in {"near", "across", "start"}, UNCHANGED <<taBefore, taSeen>>
  PROVE  Candidates'
<1>1. /\ Overlapping' = Overlapping
      /\ \A c, q : MoreOverlap(c, q)' <=> MoreOverlap(c, q)
  BY OverlapIs
<1>2. ASSUME NEW c \in Overlapping PROVE Claimed(c)'
  BY <1>1 DEF Claimed, Candidates
<1>3. QED BY <1>1, <1>2 DEF Candidates

LEMMA MatchNearKeeps ==
  ASSUME AssociationInv, NEW p \in taLeft, MatchNear(p) PROVE AssociationInv'
<1>1. taStage = "near" /\ MatchPair(p) BY DEF MatchNear
<1>2. taPairs \subseteq taPairs' /\ UNCHANGED <<taStage, taSeen, taBefore>> BY <1>1 DEF MatchPair
<1>3. Candidates' BY <1>1, <1>2, ClaimsStay DEF AssociationInv
<1>4. QED BY <1>1, <1>3, MatchPairKeeps DEF AssociationInv

LEMMA LookAcrossKeeps ==
  ASSUME AssociationInv, NEW i \in taLeft, LookAcross(i) PROVE AssociationInv'
<1> DEFINE over == {t \in (DOMAIN taTracks) \ Active : IouOver(taTracks[t].box, taSeen[i].box, 60)}
<1>1. /\ taStage = "across" /\ taStage' = "across" /\ taLeft' = taLeft \ {i}
      /\ UNCHANGED <<taNext, taFrames, taInput, taSeen, taBefore>>
  BY DEF LookAcross, First
<1>2. i \in DOMAIN taSeen /\ taSeen[i] \in CleanDetection
  BY <1>1 DEF AssociationInv, AssociationTypeOK
<1>3. \/ UNCHANGED <<taTracks, taPairs, taRest>>
      \/ taRest' = taRest \cup {i} /\ UNCHANGED <<taTracks, taPairs>>
      \/ \E t \in over : Reassociate(i, t)
  BY DEF LookAcross
<1> HIDE DEF over
<1>4. CASE UNCHANGED <<taTracks, taPairs>> /\ taRest' \in {taRest, taRest \cup {i}}
  <2>1. AssociationTypeOK' BY <1>1, <1>2, <1>4 DEF AssociationInv, AssociationTypeOK
  <2>2. Candidates' BY <1>1, <1>4, ClaimsStay DEF AssociationInv
  <2>3. OneToOne' BY <1>4 DEF AssociationInv, OneToOne
  <2>4. OutOfReach' BY <1>1, <1>4 DEF AssociationInv, OutOfReach
  <2>5. QED BY <2>1, <2>2, <2>3, <2>4 DEF AssociationInv
<1>5. CASE \E t \in over : Reassociate(i, t)
  <2>1. PICK t \in over : Reassociate(i, t) BY <1>5
  <2>2. t \in DOMAIN taTracks /\ t \notin Active BY DEF over
  <2> DEFINE d == taSeen[i]
             old == taTracks[t]
  <2>3. /\ \E k \in {old.class, d.class} :
             taTracks' = [taTracks EXCEPT ![t] = [old EXCEPT !.box = Smoothed(@, d.box),
                                                             !.conf = Most(@, d.conf),
                                                             !.class = k]]
        /\ taPairs' = taPairs \cup {<<i, t>>} /\ taRest' = taRest
    BY <2>1 DEF Reassociate
  <2>4. DOMAIN taTracks' = DOMAIN taTracks /\ \A u \in DOMAIN taTracks : taTracks'[u] \in BoxedTrack
    <3>1. \A u \in DOMAIN taTracks : taTracks[u] \in BoxedTrack
      BY DEF AssociationInv, AssociationTypeOK
    <3>2. /\ Smoothed(old.box, d.box) \in Box /\ Most(old.conf, d.conf) \in 0..100
          /\ {old.class, d.class} \subseteq Kind
      BY <1>2, <2>2, <3>1, SmoothedIs, DetectionIs DEF BoxedTrack, Most
    <3>3. QED BY <2>2, <2>3, <3>1, <3>2 DEF BoxedTrack
  <2>5. AssociationTypeOK' BY <1>1, <1>2, <2>2, <2>3, <2>4 DEF AssociationInv, AssociationTypeOK
  <2>6. Candidates' BY <1>1, <2>3, ClaimsStay DEF AssociationInv
  <2>7. \A p \in taPairs : p[1] # i /\ p[2] # t
    BY <1>1, <2>2 DEF AssociationInv, OutOfReach, Active
  <2>8. OneToOne' BY <2>3, <2>7 DEF AssociationInv, OneToOne, Meets
  <2>9. OutOfReach' BY <1>1, <2>3 DEF AssociationInv, OutOfReach
  <2>10. QED BY <2>5, <2>6, <2>8, <2>9 DEF AssociationInv
<1>6. QED BY <1>3, <1>4, <1>5

LEMMA SpawnKeeps ==
  ASSUME AssociationInv, NEW i \in taLeft, Spawn(i) PROVE AssociationInv'
<1>1. /\ taStage = "start" /\ taStage' = "start" /\ taLeft' = taLeft \ {i}
      /\ UNCHANGED <<taFrames, taInput, taSeen, taRest, taBefore>>
  BY DEF Spawn, First
<1>2. i \in DOMAIN taSeen /\ taSeen[i] \in CleanDetection
  BY <1>1 DEF AssociationInv, AssociationTypeOK
<1>3. CASE UNCHANGED <<taTracks, taNext, taPairs>>
  <2>1. AssociationTypeOK' BY <1>1, <1>3 DEF AssociationInv, AssociationTypeOK
  <2>2. Candidates' BY <1>1, <1>3, ClaimsStay DEF AssociationInv
  <2>3. OneToOne' BY <1>3 DEF AssociationInv, OneToOne
  <2>4. OutOfReach' BY <1>1, <1>3 DEF AssociationInv, OutOfReach
  <2>5. QED BY <2>1, <2>2, <2>3, <2>4 DEF AssociationInv
<1>4. CASE /\ taTracks' = [t \in (DOMAIN taTracks) \cup {taNext} |->
                             IF t # taNext THEN taTracks[t] ELSE NewTrack(taSeen[i])]
           /\ taPairs' = taPairs \cup {<<i, taNext>>} /\ taNext' = taNext + 1
  <2>1. NewTrack(taSeen[i]) \in BoxedTrack BY <1>2, DetectionIs, BoxedIs DEF NewTrack
  <2>2. taNext \in Nat \ {0} /\ DOMAIN taTracks \subseteq 1..taNext - 1
    BY DEF AssociationInv, AssociationTypeOK
  <2>3. /\ taNext' \in Nat \ {0} /\ DOMAIN taTracks' = (DOMAIN taTracks) \cup {taNext}
        /\ taNext \notin DOMAIN taTracks
    BY <1>4, <2>2
  <2>4. DOMAIN taTracks' \subseteq 1..taNext' - 1 BY <1>4, <2>2, <2>3
  <2>5. \A t \in DOMAIN taTracks' : taTracks'[t] \in BoxedTrack
    BY <1>4, <2>1, <2>3 DEF AssociationInv, AssociationTypeOK
  <2> DEFINE spawned == <<i, taNext>>
  <2>6. AssociationTypeOK'
    <3>1. spawned \in (DOMAIN taSeen) \X (DOMAIN taTracks') BY <1>2, <2>3
    <3>2. taPairs \subseteq (DOMAIN taSeen) \X (DOMAIN taTracks')
      BY <2>3 DEF AssociationInv, AssociationTypeOK
    <3>3. taPairs' = taPairs \cup {spawned} BY <1>4
    <3> HIDE DEF spawned
    <3>4. taPairs' \subseteq (DOMAIN taSeen') \X (DOMAIN taTracks') BY <1>1, <3>1, <3>2, <3>3
    <3>5. /\ DOMAIN taBefore' \subseteq DOMAIN taTracks' /\ taFrames' \in 0..MaxFrames
          /\ \A t \in DOMAIN taBefore' : taBefore'[t] \in BoxedTrack
          /\ taSeen' \in Seq(CleanDetection) /\ taRest' \subseteq DOMAIN taSeen'
          /\ taLeft' \subseteq DOMAIN taSeen'
      BY <1>1, <2>3 DEF AssociationInv, AssociationTypeOK
    <3>6. QED BY <1>1, <2>3, <2>4, <2>5, <3>4, <3>5 DEF AssociationTypeOK
  <2>7. Candidates' BY <1>1, <1>4, ClaimsStay DEF AssociationInv
  <2>8. \A p \in taPairs : p[1] # i /\ p[2] # taNext
    BY <1>1, <2>3 DEF AssociationInv, OutOfReach, AssociationTypeOK
  <2>9. OneToOne' BY <1>4, <2>8 DEF AssociationInv, OneToOne, Meets
  <2>10. OutOfReach' BY <1>1, <1>4 DEF AssociationInv, OutOfReach
  <2>11. QED BY <2>6, <2>7, <2>9, <2>10 DEF AssociationInv
<1>5. QED BY <1>3, <1>4 DEF Spawn

LEMMA NextStageKeeps == ASSUME AssociationInv, NextStage PROVE AssociationInv'
<1>1. /\ taLeft = {} /\ UNCHANGED <<taTracks, taNext, taFrames, taSeen, taRest, taBefore, taPairs>>
      /\ Overlapping' = Overlapping
  BY OverlapIs DEF NextStage
<1>2. SameKind \subseteq (DOMAIN taSeen) \X (DOMAIN taBefore) /\ Overlapping \subseteq SameKind
  BY DEF SameKind, Overlapping
<1>3. \A c : Claimed(c) <=> Claimed(c)' BY <1>1 DEF Claimed, MoreOverlap
<1>4. OneToOne' BY <1>1 DEF AssociationInv, OneToOne
<1>5. CASE taStage = "clean" /\ taStage' = "overlap" /\ taLeft' = Overlapping
  <2>1. AssociationTypeOK' BY <1>1, <1>2, <1>5 DEF AssociationInv, AssociationTypeOK
  <2>2. Candidates' BY <1>1, <1>5 DEF Candidates
  <2>3. OutOfReach' BY <1>1, <1>5 DEF AssociationInv, OutOfReach
  <2>4. QED BY <1>4, <2>1, <2>2, <2>3 DEF AssociationInv
<1>6. CASE /\ taStage = "overlap" /\ taStage' = "near"
           /\ taLeft' = {p \in SameKind : Distance(p) < 280 /\ \A q \in taPairs : ~Meets(p, q)}
  <2>1. taLeft' \subseteq SameKind /\ \A p \in taPairs, q \in taLeft' : ~Meets(p, q)
    BY <1>6 DEF Meets
  <2>2. AssociationTypeOK' BY <1>1, <1>2, <1>6, <2>1 DEF AssociationInv, AssociationTypeOK
  <2>3. Candidates' BY <1>1, <1>3, <1>6 DEF AssociationInv, Candidates
  <2>4. OutOfReach' BY <1>1, <1>6, <2>1 DEF AssociationInv, OutOfReach
  <2>5. QED BY <1>4, <2>2, <2>3, <2>4 DEF AssociationInv
<1>7. CASE taStage = "near" /\ taStage' = "across" /\ taLeft' = Unmatched
  <2>1. Unmatched \subseteq DOMAIN taSeen /\ \A p \in taPairs : p[1] \notin Unmatched
    BY DEF Unmatched
  <2>2. taRest = {} BY <1>7 DEF AssociationInv, OutOfReach
  <2>3. AssociationTypeOK' BY <1>1, <1>7, <2>1 DEF AssociationInv, AssociationTypeOK
  <2>4. Candidates' BY <1>1, <1>3, <1>7 DEF AssociationInv, Candidates
  <2>5. OutOfReach' BY <1>1, <1>7, <2>1, <2>2 DEF OutOfReach
  <2>6. QED BY <1>4, <2>3, <2>4, <2>5 DEF AssociationInv
<1>8. CASE taStage = "across" /\ taStage' = "start" /\ taLeft' = taRest
  <2>1. AssociationTypeOK' BY <1>1, <1>8 DEF AssociationInv, AssociationTypeOK
  <2>2. Candidates' BY <1>1, <1>3, <1>8 DEF AssociationInv, Candidates
  <2>3. OutOfReach' BY <1>1, <1>8 DEF AssociationInv, OutOfReach
  <2>4. QED BY <1>4, <2>1, <2>2, <2>3 DEF AssociationInv
<1>9. QED BY <1>5, <1>6, <1>7, <1>8 DEF NextStage

(* Between two calls. *)
LEMMA IdleKeeps ==
  ASSUME AssociationInv,
         Return \/ ResetAssociation \/ \E t \in DOMAIN taTracks : Recognise(t)
  PROVE  AssociationInv'
<1>1. CASE Return
  <2>1. taStage = "start" /\ taLeft = {} /\ UNCHANGED <<taNext, taFrames, taLeft>>
        /\ taStage' = "idle" /\ taSeen' = <<>> /\ taRest' = {} /\ taBefore' = NoTracks /\ taPairs' = {}
    BY <1>1 DEF Return
  <2>2. /\ DOMAIN taTracks' \subseteq DOMAIN taTracks
        /\ \A t \in DOMAIN taTracks' : taTracks'[t] = taTracks[t]
    BY <1>1 DEF Return
  <2>3. /\ taNext' \in Nat \ {0} /\ taFrames' \in 0..MaxFrames
        /\ DOMAIN taTracks' \subseteq 1..taNext' - 1
        /\ \A t \in DOMAIN taTracks' : taTracks'[t] \in BoxedTrack
    BY <2>1, <2>2 DEF AssociationInv, AssociationTypeOK
  <2>4. DOMAIN taBefore' = {} BY <2>1 DEF NoTracks
  <2>5. taSeen' \in Seq(CleanDetection) /\ taRest' \subseteq DOMAIN taSeen' /\ taLeft' = {}
        /\ taPairs' \subseteq (DOMAIN taSeen') \X (DOMAIN taTracks')
        /\ DOMAIN taBefore' \subseteq DOMAIN taTracks'
        /\ \A t \in DOMAIN taBefore' : taBefore'[t] \in BoxedTrack
    BY <2>1, <2>4
  <2>6. AssociationTypeOK' BY <2>1, <2>3, <2>5 DEF AssociationTypeOK
  <2>7. QED BY <2>1, <2>6 DEF AssociationInv, Candidates, OneToOne, OutOfReach
<1>2. CASE ResetAssociation
  <2>1. /\ taStage = "idle" /\ taTracks' = NoTracks /\ taNext' = 1 /\ taBefore = NoTracks
        /\ UNCHANGED <<taFrames, taStage, taInput, taLeft, taSeen, taRest, taBefore, taPairs>>
    BY <1>2 DEF ResetAssociation, AssociationInv, OutOfReach
  <2>2. DOMAIN taTracks' = {} /\ DOMAIN taBefore' = {} /\ taPairs' = {} /\ taRest' = {}
    BY <2>1 DEF AssociationInv, OutOfReach, NoTracks
  <2>3. taFrames \in 0..MaxFrames /\ taSeen \in Seq(CleanDetection) /\ taLeft = {}
    BY <2>1 DEF AssociationInv, AssociationTypeOK
  <2>4. AssociationTypeOK'
    BY <2>1, <2>2, <2>3 DEF AssociationTypeOK
  <2>5. QED BY <2>1, <2>4 DEF AssociationInv, Candidates, OneToOne, OutOfReach
<1>3. CASE \E t \in DOMAIN taTracks : Recognise(t)
  <2>1. PICK t \in DOMAIN taTracks : Recognise(t) BY <1>3
  <2>2. /\ taStage = "idle" /\ taTracks' = [taTracks EXCEPT ![t].known = TRUE]
        /\ UNCHANGED <<taNext, taFrames, taStage, taInput, taLeft, taSeen, taRest, taBefore, taPairs>>
    BY <2>1 DEF Recognise
  <2>3. DOMAIN taTracks' = DOMAIN taTracks /\ \A u \in DOMAIN taTracks : taTracks'[u] \in BoxedTrack
    <3>1. \A u \in DOMAIN taTracks : taTracks[u] \in BoxedTrack
      BY DEF AssociationInv, AssociationTypeOK
    <3>2. [taTracks[t] EXCEPT !.known = TRUE] \in BoxedTrack BY <3>1 DEF BoxedTrack
    <3>3. QED BY <2>2, <3>1, <3>2
  <2>4. AssociationTypeOK' BY <2>2, <2>3 DEF AssociationInv, AssociationTypeOK
  <2>5. QED BY <2>2, <2>4 DEF AssociationInv, Candidates, OneToOne, OutOfReach
<1>4. QED BY <1>1, <1>2, <1>3

(* AssociationInv holds in every reachable state: what is left to a stage   *)
(* of update meets no pair, and what the overlaps left is claimed.          *)
THEOREM AssociationInvariant == AssociationSpec => []AssociationInv
<1>1. ASSUME AssociationInit PROVE AssociationInv
  <2>1. AssociationTypeOK
    BY <1>1, AssociationAssumption DEF AssociationInit, AssociationTypeOK, NoTracks
  <2>2. QED BY <1>1, <2>1 DEF AssociationInit, AssociationInv, Candidates, OneToOne, OutOfReach
<1>2. ASSUME AssociationInv, [AssociationNext]_associationVars PROVE AssociationInv'
  <2>1. CASE UNCHANGED associationVars
    <3>1. \A c \in Overlapping : Claimed(c)' <=> Claimed(c)
      BY <2>1, OverlapIs DEF associationVars, Claimed
    <3>2. Overlapping' = Overlapping BY <2>1, OverlapIs DEF associationVars
    <3>3. AssociationTypeOK' BY <1>2, <2>1 DEF AssociationInv, AssociationTypeOK, associationVars
    <3>4. Candidates'
      BY <1>2, <2>1, <3>1, <3>2 DEF AssociationInv, Candidates, associationVars
    <3>5. OneToOne' /\ OutOfReach'
      BY <1>2, <2>1 DEF AssociationInv, OneToOne, OutOfReach, associationVars
    <3>6. QED BY <3>3, <3>4, <3>5 DEF AssociationInv
  <2>2. CASE \E raw \in BoundedSeq(Detection, MaxDetections) : Receive(raw)
    BY <1>2, <2>2, ReceiveKeeps
  <2>3. CASE UpdateStep
    BY <1>2, <2>3, KeepOrDropKeeps, MatchOverlapKeeps, MatchNearKeeps, LookAcrossKeeps,
       SpawnKeeps, NextStageKeeps, IdleKeeps
    DEF UpdateStep
  <2>4. CASE (\E t \in DOMAIN taTracks : Recognise(t)) \/ ResetAssociation
    BY <1>2, <2>4, IdleKeeps
  <2>5. QED BY <1>2, <2>1, <2>2, <2>3, <2>4 DEF AssociationNext
<1>3. QED BY <1>1, <1>2, PTL DEF AssociationSpec

(* Every reachable state of the association is well typed. *)
THEOREM AssociationTypeCorrect == AssociationSpec => []AssociationTypeOK
<1>1. AssociationInv => AssociationTypeOK BY DEF AssociationInv
<1>2. QED BY <1>1, AssociationInvariant, PTL

(* For any detections, of whatever boxes, and any number of them and of     *)
(* tracks: the strongest overlaps are matched first, and nothing is matched *)
(* twice (CentroidTracker.update).                                          *)
THEOREM AssociationStrongestFirst == AssociationSpec => []StrongestOverlapFirst
<1>1. AssociationInv => StrongestOverlapFirst
  BY DEF AssociationInv, OneToOne, Candidates, Claimed, StrongestOverlapFirst
<1>2. QED BY <1>1, AssociationInvariant, PTL
=============================================================================
