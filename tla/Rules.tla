--------------------------------- MODULE Rules ---------------------------------
(***************************************************************************)
(* The rule engine of core/rules.py as a pipeline runs it: the loitering   *)
(* rule for the tracks of each frame, with the state it keeps by track id, *)
(* and the tripwire rule, which only tests use.  Where a foot point lies   *)
(* is an input: inside the fence or not, and for a tripwire its distance   *)
(* to either side of the line and whether the last move met the segment.   *)
(*                                                                         *)
(* Every fence of a camera has the same zone id, so the engine, which      *)
(* knows zones by id, cannot tell one fence from the next.                 *)
(***************************************************************************)
EXTENDS Integers, FiniteSets, SequencesExt

CONSTANTS RuleTrack,
          Loiter,       \* loiter_seconds
          RuleCooldown, \* cooldown_seconds
          Outside,      \* outside frames that end a stay, 3
          Hysteresis,   \* of the tripwire
          MaxKeys,      \* emitted keys kept without a look at their age, 1000
          KeepFor,      \* 60 seconds, or twice the cooldown if that is more
          MaxRuleTime,  \* (bound)
          Far           \* (bound) distance to the tripwire

ASSUME RulesAssumption ==
  /\ {Loiter, RuleCooldown, Outside} \subseteq Nat \ {0}
  /\ {Hysteresis, MaxKeys, MaxRuleTime, Far, KeepFor} \subseteq Nat /\ KeepFor >= 2 * RuleCooldown
  /\ Loiter >= RuleCooldown  \* 10 and 10 in core/pipeline.py, 10 and 5 by default

VARIABLES
  ruTime,    \* the time of the last frame
  ruFenced,  \* the pipeline has a fence of its own
  ruLoiter,  \* _loiter_state
  ruTrip,    \* _trip_state
  ruSent,    \* _last_event_at
  ruGone,    \* tracks that ended: their ids are not used again in this epoch
  ruSeen,    \* the frames each track was checked in (history)
  ruRaised   \* the loitering events of each track, by time (history)

rulesVars == <<ruTime, ruFenced, ruLoiter, ruTrip, ruSent, ruGone, ruSeen, ruRaised>>

NeverFired == -1
NoStay == [enter |-> NeverFired, told |-> FALSE, out |-> 0]
NoTrip == [side |-> 0, known |-> FALSE, armed |-> TRUE]

StayRecord == [enter : NeverFired..MaxRuleTime, told : BOOLEAN, out : 0..MaxRuleTime]
TripRecord == [side : -Far..Far, known : BOOLEAN, armed : BOOLEAN]
SentRecord == [rule : {"loiter", "trip"}, track : RuleTrack, bucket : 0..MaxRuleTime,
               at : 0..MaxRuleTime]
CheckedFrame == [at : 0..MaxRuleTime, inside : BOOLEAN]

RulesTypeOK ==
  /\ ruTime \in 0..MaxRuleTime /\ ruFenced \in BOOLEAN
  /\ ruLoiter \in [RuleTrack -> StayRecord] /\ ruTrip \in [RuleTrack -> TripRecord]
  /\ ruSent \subseteq SentRecord /\ ruGone \subseteq RuleTrack
  /\ ruSeen \in [RuleTrack -> Seq(CheckedFrame)]
  /\ ruRaised \in [RuleTrack -> SUBSET (0..MaxRuleTime)]

Fresh == /\ ruLoiter = [t \in RuleTrack |-> NoStay] /\ ruTrip = [t \in RuleTrack |-> NoTrip]
         /\ ruSent = {} /\ ruGone = {}
         /\ ruSeen = [t \in RuleTrack |-> <<>>] /\ ruRaised = [t \in RuleTrack |-> {}]

RulesInit == ruTime = 0 /\ ruFenced = FALSE /\ Fresh
-----------------------------------------------------------------------------
(* _should_emit: a key names the rule, the track and the stretch of time.   *)
(* Beyond MaxKeys the old ones are forgotten.                               *)
Emit(rule, t, now) == [rule |-> rule, track |-> t, bucket |-> now \div RuleCooldown, at |-> now]
SameKey(a, b) == a.rule = b.rule /\ a.track = b.track /\ a.bucket = b.bucket

ShouldEmit(e) == \A s \in ruSent : SameKey(s, e) => e.at - s.at >= RuleCooldown

Sent(e) ==
  LET kept == {s \in ruSent : ~SameKey(s, e)} \cup {e}
  IN  IF Cardinality(kept) > MaxKeys THEN {s \in kept : s.at >= e.at - KeepFor} ELSE kept

(* The stay of a track after a frame, before events. *)
Stay(stay, inside, now) ==
  IF inside THEN [stay EXCEPT !.enter = IF @ = NeverFired THEN now ELSE @, !.out = 0]
  ELSE IF stay.out + 1 >= Outside THEN [NoStay EXCEPT !.out = stay.out + 1]
  ELSE [stay EXCEPT !.out = @ + 1]

(* check_zones for one track of a frame. *)
CheckZones(t, inside) ==
  /\ ruFenced /\ t \notin ruGone
  /\ ruTime < MaxRuleTime
  /\ ruTime' = ruTime + 1
  /\ LET now == ruTime'
         stay == Stay(ruLoiter[t], inside, now)
         e == Emit("loiter", t, now)
         tell == inside /\ now - stay.enter >= Loiter /\ ~stay.told /\ ShouldEmit(e)
     IN  /\ ruLoiter' = [ruLoiter EXCEPT ![t] = IF tell THEN [stay EXCEPT !.told = TRUE] ELSE stay]
         /\ ruSent' = IF tell THEN Sent(e) ELSE ruSent
         /\ ruRaised' = [ruRaised EXCEPT ![t] = IF tell THEN @ \cup {now} ELSE @]
         /\ ruSeen' = [ruSeen EXCEPT ![t] = Append(@, [at |-> now, inside |-> inside])]
  /\ UNCHANGED <<ruFenced, ruTrip, ruGone>>

(* A frame without the track, or without a fence of its own: no check. *)
OtherFrame ==
  /\ ruTime < MaxRuleTime
  /\ ruTime' = ruTime + 1
  /\ UNCHANGED <<ruFenced, ruLoiter, ruTrip, ruSent, ruGone, ruSeen, ruRaised>>

(* A fence is set, cleared or replaced by one that the engine takes for the *)
(* same: its state stays.                                                   *)
SetZone ==
  /\ ruFenced' = ~ruFenced
  /\ UNCHANGED <<ruTime, ruLoiter, ruTrip, ruSent, ruGone, ruSeen, ruRaised>>

(* check_tripwire for one track, of a tripwire for both directions.  One    *)
(* that was crossed arms again when the track is away from where it         *)
(* crossed.  A move that ends on the line itself crosses nothing, nor does  *)
(* the next.                                                                *)
CheckTripwire(t, side, met) ==
  /\ t \notin ruGone
  /\ LET st == ruTrip[t]
         away == side - st.side > Hysteresis \/ st.side - side > Hysteresis
         crossed == st.known /\ st.side * side < 0 /\ met
         e == Emit("trip", t, ruTime)
         tell == crossed /\ ShouldEmit(e)
     IN  IF ~st.armed /\ ~(st.known /\ away) THEN UNCHANGED <<ruTrip, ruSent>>
         ELSE /\ ruTrip' = [ruTrip EXCEPT ![t] = [side |-> side, known |-> TRUE, armed |-> ~tell]]
              /\ ruSent' = IF tell THEN Sent(e) ELSE ruSent
  /\ UNCHANGED <<ruTime, ruFenced, ruLoiter, ruGone, ruSeen, ruRaised>>

(* prune_track, when the tracker ends the track. *)
PruneTrack(t) ==
  /\ t \notin ruGone
  /\ ruLoiter' = [ruLoiter EXCEPT ![t] = NoStay]
  /\ ruTrip' = [ruTrip EXCEPT ![t] = NoTrip]
  /\ ruGone' = ruGone \cup {t}
  /\ UNCHANGED <<ruTime, ruFenced, ruSent, ruSeen, ruRaised>>

(* Mutation: the epoch reset leaves the dwell of the tracks that are there. *)
Reset_keep ==
  /\ ruSent' = {} /\ ruGone' = {}
  /\ ruSeen' = [t \in RuleTrack |-> <<>>] /\ ruRaised' = [t \in RuleTrack |-> {}]
  /\ UNCHANGED <<ruTime, ruFenced, ruLoiter, ruTrip>>

(* reset on an epoch bump: track ids start again. *)
Reset ==
  /\ ruLoiter' = [t \in RuleTrack |-> NoStay] /\ ruTrip' = [t \in RuleTrack |-> NoTrip]
  /\ ruSent' = {} /\ ruGone' = {}
  /\ ruSeen' = [t \in RuleTrack |-> <<>>] /\ ruRaised' = [t \in RuleTrack |-> {}]
  /\ UNCHANGED <<ruTime, ruFenced>>

RulesNext ==
  \/ OtherFrame \/ SetZone \/ Reset
  \/ \E t \in RuleTrack :
       \/ PruneTrack(t)
       \/ \E inside \in BOOLEAN : CheckZones(t, inside)
       \/ \E side \in -Far..Far, met \in BOOLEAN : CheckTripwire(t, side, met)

RulesSpec == RulesInit /\ [][RulesNext]_rulesVars
-----------------------------------------------------------------------------
(* What the rule means, from the frames alone: a stay begins with a frame   *)
(* inside and lasts until Outside frames in a row are outside.              *)
Left(seen, i) == i >= Outside /\ \A k \in i - Outside + 1..i : ~seen[k].inside
Staying(seen, i, j) == seen[i].inside /\ \A k \in i..j : ~Left(seen, k)
StayOf(seen) == {i \in 1..Len(seen) : Staying(seen, i, Len(seen))}

(* One event in the present stay if a frame inside came Loiter or more      *)
(* after the first one of the stay, and none otherwise.                     *)
ToldOnce(seen, raised) ==
  LET stay == StayOf(seen)
      first == CHOOSE i \in stay : \A k \in stay : i <= k
      long == {i \in stay : seen[i].at - seen[first].at >= Loiter}
      told == {at \in raised : at >= seen[first].at}
  IN  stay # {} => Cardinality(told) = (IF long = {} THEN 0 ELSE 1)

(* "Reset only after 3 consecutive outside frames" (core/rules.py:147), "a  *)
(* new track 1 must never inherit the previous track 1's dwell time"        *)
(* (core/rules.py:60): the track of the last frame was reported in its      *)
(* present stay exactly if it was long enough, and once only.               *)
LoiterMeansDwell == \A t \in RuleTrack : ToldOnce(ruSeen[t], ruRaised[t])
=============================================================================
