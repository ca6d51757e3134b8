------------------------------ MODULE Presence ------------------------------
(***************************************************************************)
(* One track of one camera as MiniPipeline.process_frame sees it: how      *)
(* CentroidTracker.update ages, hides and drops the track, and when the    *)
(* pipeline raises, mutes and ends its zone intrusion.                     *)
(*                                                                         *)
(* Tracks do not influence each other's presence, and ids are not reused   *)
(* within an epoch, so one track is enough.  The track has a class of      *)
(* intrusion_classes and no watchlist identity.  Time is in seconds; the   *)
(* events shown are named by their dedup keys, which contain the ten-      *)
(* second bucket of the time.                                              *)
(***************************************************************************)
EXTENDS Integers

CONSTANTS
  Fence,          \* the fences in use: a subset of {"default", "polygon", "line"}
  Gap,            \* seconds between two analysed frames
  OutsideFrames,  \* frames outside that end a presence: 15
  UnseenFrames,   \* frames unseen that do not: 3
  MissFrames,     \* non-crossings that end a line's hysteresis: 5
  Cooldown,       \* seconds between intrusion alerts: 4
  ExitDebounce,   \* seconds between exit events: 3
  Bucket,         \* seconds of a dedup bucket: 10
  MaxAge,         \* the tracker's max_age: 30
  MaxClock        \* bound on the time

ASSUME PresenceAssumption ==
  /\ Gap \subseteq Nat
  /\ UnseenFrames \in Nat /\ MissFrames \in Nat /\ OutsideFrames \in Nat \ {0}
  /\ Cooldown \in Nat /\ ExitDebounce \in Nat /\ Bucket \in Nat \ {0}
  /\ MaxAge \in Nat /\ MaxAge >= 3
  /\ MaxClock \in Nat /\ MaxClock >= Bucket + Cooldown

Absent == -1
Get(x) == IF x = Absent THEN 0 ELSE x            \* dict.get(track_id, 0)

(* A user's fence keeps one zone id whatever its shape. *)
ZoneId(f) == IF f = "default" THEN "default" ELSE "user"
Zones == {"default", "user"}

VARIABLES
  clock,       \* now_ts
  fence,       \* pipeline.zone
  track,       \* "none", "live" or "gone"
  age,         \* frames since the track was matched
  hits,        \* frames it was matched in, at most 3
  inside,      \* is_intrusion(footpoint, zone)
  alerted,     \* is it in alerted_tracks
  outside,     \* its _track_outside_count
  unseen,      \* its _unseen_streak
  lineActive,  \* is it in _active_line_intruders
  misses,      \* its _line_miss_count
  lastAlert,   \* its _last_intrusion_alert_time, by zone id
  lastExit,    \* its _last_exit_alert_time, by zone id
  shown        \* the dedup keys of the events in the timeline

trackVars == <<track, age, hits, inside>>
latches == <<alerted, outside, unseen, lineActive, misses, lastAlert, lastExit>>
vars == <<clock, fence, trackVars, latches, shown>>

(* Time starts late enough for the defaults of the cooldowns (0) to be past. *)
Start == Bucket + Cooldown
Time == Start .. MaxClock
Events == {"intrusion", "exit"} \X Zones \X (0 .. MaxClock \div Bucket)

TypeOK ==
  /\ clock \in Time /\ fence \in Fence
  /\ track \in {"none", "live", "gone"} /\ age \in 0 .. MaxAge
  /\ hits \in 0 .. 3 /\ inside \in BOOLEAN
  /\ alerted \in BOOLEAN /\ lineActive \in BOOLEAN
  /\ outside \in {Absent} \cup 0 .. OutsideFrames
  /\ unseen \in {Absent} \cup 0 .. UnseenFrames
  /\ misses \in {Absent} \cup 0 .. MissFrames
  /\ lastAlert \in [Zones -> Time \cup {Absent}]
  /\ lastExit \in [Zones -> Time \cup {Absent}]
  /\ shown \in SUBSET Events

Never == [z \in Zones |-> Absent]

NoLatches ==
  [alerted |-> FALSE, outside |-> Absent, unseen |-> Absent, lineActive |-> FALSE,
   misses |-> Absent, lastAlert |-> Never, lastExit |-> Never, shown |-> {}]

Init ==
  /\ clock = Start /\ fence \in Fence
  /\ track = "none" /\ age = 0 /\ hits = 0 /\ inside = FALSE
  /\ alerted = FALSE /\ lineActive = FALSE
  /\ outside = Absent /\ unseen = Absent /\ misses = Absent
  /\ lastAlert = Never /\ lastExit = Never
  /\ shown = {}
-----------------------------------------------------------------------------
(***************************************************************************)
(* The parts of process_frame, in order.  Each takes and returns p, the    *)
(* track's latches and the timeline, at time t with zone id z.             *)
(***************************************************************************)
Latches ==
  [alerted |-> alerted, outside |-> outside, unseen |-> unseen,
   lineActive |-> lineActive, misses |-> misses, lastAlert |-> lastAlert,
   lastExit |-> lastExit, shown |-> shown]

(* transactional_write: an event whose key is there already is not added. *)
Show(p, kind, z, t) == [p EXCEPT !.shown = @ \cup {<<kind, z, t \div Bucket>>}]

(* An exit or target_lost event, debounced. *)
ShowExit(p, z, t) ==
  IF t - Get(p.lastExit[z]) < ExitDebounce
    THEN p
    ELSE Show([p EXCEPT !.lastExit[z] = t], "exit", z, t)

(* The hysteresis of a tripwire: a few non-crossings still count as inside. *)
LineLatch(p, f, in) ==
  IF f # "line" THEN p
  ELSE IF in THEN [p EXCEPT !.lineActive = TRUE, !.misses = 0]
  ELSE IF ~p.lineActive THEN p
  ELSE IF Get(p.misses) + 1 < MissFrames THEN [p EXCEPT !.misses = Get(@) + 1]
  ELSE [p EXCEPT !.lineActive = FALSE, !.misses = Absent]

Intruding(p, f, in) == in \/ (f = "line" /\ p.lineActive)

(* One alert per continuous presence, and none within the cooldown. *)
RaiseIntrusion(p, z, t) ==
  IF p.alerted \/ t - Get(p.lastAlert[z]) < Cooldown
    THEN [p EXCEPT !.outside = 0]
    ELSE Show([p EXCEPT !.alerted = TRUE, !.outside = 0, !.lastAlert[z] = t],
              "intrusion", z, t)

(* Mutations: any track outside is counted, or one frame too many. *)
CountOutside_anyTrack(p, z, t) ==
  IF Get(p.outside) + 1 < OutsideFrames THEN [p EXCEPT !.outside = Get(@) + 1]
  ELSE ShowExit([p EXCEPT !.alerted = FALSE, !.outside = 0], z, t)
CountOutside_late(p, z, t) ==
  IF ~p.alerted THEN [p EXCEPT !.outside = 0]
  ELSE IF Get(p.outside) < OutsideFrames THEN [p EXCEPT !.outside = Get(@) + 1]
  ELSE ShowExit([p EXCEPT !.alerted = FALSE, !.outside = Get(@) + 1], z, t)

(* A sustained stay outside ends the presence of an alerted track. *)
CountOutside(p, z, t) ==
  IF ~p.alerted THEN [p EXCEPT !.outside = 0]
  ELSE IF Get(p.outside) + 1 < OutsideFrames THEN [p EXCEPT !.outside = Get(@) + 1]
  ELSE ShowExit([p EXCEPT !.alerted = FALSE, !.outside = Get(@) + 1,
                          !.lineActive = FALSE, !.misses = Absent], z, t)

CheckZone(p, f, in, t) ==
  LET q == LineLatch(p, f, in)
  IN  IF Intruding(q, f, in) THEN RaiseIntrusion(q, ZoneId(f), t)
                             ELSE CountOutside(q, ZoneId(f), t)

(* Mutation: unseen tracks stay alerted. *)
ExpireUnseen_never(p, visible, dropped, z, t) == p

(* An alerted track unseen for more than UnseenFrames frames ends its        *)
(* presence, without an event if the tracker has just dropped it.            *)
ExpireUnseen(p, visible, dropped, z, t) ==
  IF ~p.alerted THEN p
  ELSE IF visible THEN [p EXCEPT !.unseen = Absent]
  ELSE IF Get(p.unseen) < UnseenFrames THEN [p EXCEPT !.unseen = Get(@) + 1]
  ELSE LET q == [p EXCEPT !.alerted = FALSE, !.outside = Absent, !.lineActive = FALSE,
                          !.misses = Absent, !.unseen = Absent]
       IN  IF dropped THEN q ELSE ShowExit(q, z, t)

(* Mutation: a dropped track is not pruned. *)
Terminate_noPrune(p, z, t) ==
  [IF p.alerted THEN ShowExit(p, z, t) ELSE p EXCEPT
     !.alerted = FALSE, !.outside = Absent, !.unseen = Absent,
     !.lineActive = FALSE, !.misses = Absent]

(* The track is dropped: its presence ends and prune_track forgets it. *)
Terminate(p, z, t) ==
  [NoLatches EXCEPT !.shown = (IF p.alerted THEN ShowExit(p, z, t) ELSE p).shown]

ProcessFrame(p, visible, dropped, in, t) ==
  LET z == ZoneId(fence)
      checked == IF visible THEN CheckZone(p, fence, in, t) ELSE p
      expired == ExpireUnseen(checked, visible, dropped, z, t)
  IN  IF dropped THEN Terminate(expired, z, t) ELSE expired

Adopt(p) ==
  /\ alerted' = p.alerted /\ outside' = p.outside /\ unseen' = p.unseen
  /\ lineActive' = p.lineActive /\ misses' = p.misses
  /\ lastAlert' = p.lastAlert /\ lastExit' = p.lastExit /\ shown' = p.shown
-----------------------------------------------------------------------------
Tick == \E g \in Gap : clock + g <= MaxClock /\ clock' = clock + g

(* A detection starts the track. *)
EnterTrack(in) ==
  /\ track = "none" /\ Tick
  /\ track' = "live" /\ age' = 0 /\ hits' = 1 /\ inside' = in
  /\ Adopt(ProcessFrame(Latches, TRUE, FALSE, in, clock'))
  /\ UNCHANGED fence

(* A detection is matched to the track. *)
MatchTrack(in) ==
  /\ track = "live" /\ Tick
  /\ age' = 0 /\ hits' = (IF hits < 3 THEN hits + 1 ELSE 3) /\ inside' = in
  /\ Adopt(ProcessFrame(Latches, TRUE, FALSE, in, clock'))
  /\ UNCHANGED <<track, fence>>

DropLimit == IF hits <= 1 THEN 3 ELSE MaxAge
HideLimit == IF hits >= 2 THEN 2 ELSE 1

(* No detection matches it: it keeps its place, is shown a little longer     *)
(* unless it lies under a track that was matched (hidden), then it is        *)
(* dropped.                                                                  *)
MissTrack(hidden) ==
  /\ track = "live" /\ Tick
  /\ LET dropped == age + 1 > DropLimit
         visible == ~dropped /\ ~hidden /\ age + 1 <= HideLimit
     IN  /\ track' = IF dropped THEN "gone" ELSE "live"
         /\ age' = IF dropped THEN 0 ELSE age + 1
         /\ Adopt(ProcessFrame(Latches, visible, dropped, inside, clock'))
  /\ UNCHANGED <<hits, inside, fence>>

(* The fence routes set pipeline.zone and clear _active_line_intruders. *)
SetFence(f, in) ==
  /\ f # fence
  /\ fence' = f /\ lineActive' = FALSE /\ inside' = in
  /\ UNCHANGED <<clock, track, age, hits, alerted, outside, unseen, misses,
                 lastAlert, lastExit, shown>>

(* reset_epoch: tracker and latches start over, and so do the dedup keys. *)
ResetEpoch ==
  /\ track' = "none" /\ age' = 0 /\ hits' = 0 /\ inside' = FALSE
  /\ Adopt(NoLatches)
  /\ UNCHANGED <<clock, fence>>

Next ==
  \/ \E in \in BOOLEAN :
       EnterTrack(in) \/ MatchTrack(in) \/ \E f \in Fence : SetFence(f, in)
  \/ \E hidden \in BOOLEAN : MissTrack(hidden)
  \/ ResetEpoch

Spec == Init /\ [][Next]_vars
-----------------------------------------------------------------------------
(* A presence is never kept alive by a track that is not there: it belongs  *)
(* to a live track seen at most HideLimit + UnseenFrames frames ago, and    *)
(* fewer than OutsideFrames frames outside (the visibility gate and the     *)
(* outside count of process_frame).  One that is seen now has no unseen     *)
(* frames on its account: a later gap is measured from its own start.       *)
PresenceIsFresh ==
  /\ alerted => /\ track = "live" /\ age <= HideLimit + UnseenFrames
                /\ Get(outside) < OutsideFrames
  /\ alerted /\ age = 0 => unseen = Absent

(* A track that was dropped leaves nothing behind in the pipeline's         *)
(* dictionaries, whatever state its presence was in (prune_track).          *)
NoResidue ==
  track # "live" =>
    /\ ~alerted /\ ~lineActive /\ outside = Absent /\ unseen = Absent
    /\ misses = Absent /\ lastAlert = Never /\ lastExit = Never

(* No exit is shown before an intrusion was: a presence that the debouncing *)
(* or the dedup keys kept from the operator does not end in front of him.   *)
ExitsFollowIntrusions ==
  \A e \in shown : e[1] = "exit" => \E i \in shown : i[1] = "intrusion"

(* "a returnee re-alerts instead of staying muted on a stale presence"      *)
(* (core/pipeline.py:643): a presence that begins is shown.                 *)
ReturneeRealerts ==
  [][ ~alerted /\ alerted' =>
        <<"intrusion", ZoneId(fence), clock' \div Bucket>> \notin shown ]_vars

=============================================================================
