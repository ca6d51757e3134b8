------------------------------ MODULE Timeline ------------------------------
(***************************************************************************)
(* What the event outbox promises, without its indexes: a timeline of the  *)
(* most recent events in which a keyed event that is still there is never  *)
(* written again.  An event is named by the order of its writing; the      *)
(* timeline holds the events lo .. next - 1.                               *)
(***************************************************************************)
EXTENDS Naturals

CONSTANTS Key,        \* dedup keys
          NoKey,      \* dedup_key=None
          MaxEvents,  \* MAX_EVENTS
          MaxWrites   \* bound on events written

VARIABLES next,       \* the next event to be written
          lo,         \* the oldest event of the timeline
          keyOf       \* the dedup key of each event

tlVars == <<next, lo, keyOf>>

InTimeline(n) == lo <= n /\ n < next
Known(k) == k # NoKey /\ \E n \in 1 .. MaxWrites : InTimeline(n) /\ keyOf[n] = k

Init ==
  /\ next = 1 /\ lo = 1
  /\ keyOf = [n \in 1 .. MaxWrites |-> NoKey]

(* A new event enters; the oldest leaves when the timeline is full. *)
Record(k) ==
  /\ ~Known(k) /\ next <= MaxWrites
  /\ next' = next + 1
  /\ lo' = IF next - lo < MaxEvents THEN lo ELSE next + 1 - MaxEvents
  /\ keyOf' = [keyOf EXCEPT ![next] = k]

Clear == lo' = next /\ UNCHANGED <<next, keyOf>>

Next == (\E k \in Key \cup {NoKey} : Record(k)) \/ Clear

Spec == Init /\ [][Next]_tlVars
=============================================================================
