------------------------------- MODULE Outbox -------------------------------
(***************************************************************************)
(* The in-memory event timeline and outbox of events/outbox.py.  Every     *)
(* operation runs under _LOCK and is one step; the writers are the         *)
(* analysis threads of all cameras.                                        *)
(*                                                                         *)
(* A write is named by its order.  The deques only append on the right and *)
(* pop on the left, so each holds an interval of writes: _EVENTS is        *)
(* evLo .. next - 1 and _OUTBOX is obLo .. next - 1.  Python's `is' on an  *)
(* event or an entry is equality of writes.                                *)
(*                                                                         *)
(* An entry has a new id, or that of its row in the outbox table when a    *)
(* database session mirrors the row (services/persistence.py).  A key has  *)
(* at most one row, so each mirror of a key pins the same id.  Of the      *)
(* table only the row's id is kept here; the rest is in DurableOutbox.     *)
(***************************************************************************)
EXTENDS Naturals, FiniteSets

CONSTANTS Key,        \* dedup keys
          NoKey,      \* dedup_key=None
          MaxEvents,  \* MAX_EVENTS
          MaxOutbox,  \* MAX_OUTBOX
          MaxWrites   \* bound on writes

(* The source has MAX_EVENTS = MAX_OUTBOX = 10000.  An outbox shorter than *)
(* the timeline would forget keys of events still shown.                   *)
ASSUME CapacityAssumption ==
  /\ MaxEvents \in Nat \ {0} /\ MaxOutbox \in Nat /\ MaxEvents <= MaxOutbox
ASSUME KeyAssumption == NoKey \notin Key
ASSUME WritesAssumption == MaxWrites \in Nat

Write == 1 .. MaxWrites
None == 0

(* The uuid of an entry is named by its write, the uuid that was drawn for  *)
(* the row of a key by the key.                                             *)
Id == Write \cup Key

VARIABLES
  next,       \* the next write
  evLo,       \* the oldest event of _EVENTS
  obLo,       \* the oldest entry of _OUTBOX
  keyOf,      \* the dedup key of each write
  idOf,       \* the id of its outbox entry
  evIdx,      \* _DEDUP_EVENT_INDEX
  obIdx,      \* _DEDUP_OUTBOX_INDEX
  idIdx,      \* _OUTBOX_ID_INDEX
  delivered,  \* the entries whose status is "done"
  rowOf       \* the id of the row of each key

vars == <<next, evLo, obLo, keyOf, idOf, evIdx, obIdx, idIdx, delivered, rowOf>>

TypeOK ==
  /\ next \in 1 .. MaxWrites + 1
  /\ evLo \in 1 .. next /\ obLo \in 1 .. next
  /\ keyOf \in [Write -> Key \cup {NoKey}]
  /\ idOf \in [Write -> Id \cup {None}]
  /\ evIdx \in [Key -> Write \cup {None}]
  /\ obIdx \in [Key -> Write \cup {None}]
  /\ idIdx \in [Id -> Write \cup {None}]
  /\ delivered \in SUBSET Write
  /\ rowOf \in [Key -> Id \cup {None}]

Init ==
  /\ next = 1 /\ evLo = 1 /\ obLo = 1
  /\ keyOf = [n \in Write |-> NoKey]
  /\ idOf = [n \in Write |-> None]
  /\ evIdx = [k \in Key |-> None]
  /\ obIdx = [k \in Key |-> None]
  /\ idIdx = [i \in Id |-> None]
  /\ delivered = {}
  /\ rowOf = [k \in Key |-> None]

Event(n) == n \in Write /\ evLo <= n /\ n < next      \* n is in _EVENTS
Entry(n) == n \in Write /\ obLo <= n /\ n < next      \* n is in _OUTBOX

(* A keyed write is a duplicate if both indexes know its key. *)
Duplicate(k) == k # NoKey /\ obIdx[k] # None /\ evIdx[k] # None

(* Mutation: the deque grows to one more than its bound. *)
Oldest_late(lo, max) == IF next - lo <= max THEN lo ELSE next - max

(* The left end of a deque after one append and its eviction loop. *)
Oldest(lo, max) == IF next - lo < max THEN lo ELSE next + 1 - max

(* Mutation: a key leaves the index although it points at a newer item. *)
ForgetKeys_anyItem(idx, keys, gone) ==
  [k \in Key |-> IF \E n \in gone : keys[n] = k THEN None ELSE idx[k]]

(* An evicted item takes its key out of the index if the index points at it. *)
ForgetKeys(idx, keys, gone) ==
  [k \in Key |-> IF \E n \in gone : keys[n] = k /\ idx[k] = n THEN None ELSE idx[k]]

(* Mutation: the id that is popped is that of the entry that is now oldest. *)
ForgetIds_next(idx, ids, gone) ==
  [i \in Id |-> IF \E n \in gone : n + 1 \in Write /\ ids[n + 1] = i THEN None ELSE idx[i]]

(* An evicted entry takes its id out of the index, whatever that points at. *)
ForgetIds(idx, ids, gone) ==
  [i \in Id |-> IF \E n \in gone : ids[n] = i THEN None ELSE idx[i]]

(* Mutation: a key keeps pointing at its first entry (setdefault). *)
Point_first(idx, k, n) ==
  [j \in Key |-> IF j = k /\ idx[j] = None THEN n ELSE idx[j]]

Point(idx, k, n) == [j \in Key |-> IF j = k THEN n ELSE idx[j]]

Between(lo, hi) == {n \in Write : lo <= n /\ n < hi}

(* transactional_write with the entry id i: a duplicate returns the entry    *)
(* that is there; else the event and its entry are appended and the oldest   *)
(* evicted.                                                                  *)
TransactionalWrite(k, i) ==
  /\ ~Duplicate(k)
  /\ next <= MaxWrites
  /\ next' = next + 1
  /\ keyOf' = [keyOf EXCEPT ![next] = k]
  /\ idOf' = [idOf EXCEPT ![next] = i]
  /\ evLo' = Oldest(evLo, MaxEvents)
  /\ obLo' = Oldest(obLo, MaxOutbox)
  /\ evIdx' = ForgetKeys(Point(evIdx, k, next), keyOf', Between(evLo, evLo'))
  /\ obIdx' = ForgetKeys(Point(obIdx, k, next), keyOf', Between(obLo, obLo'))
  /\ idIdx' = ForgetIds([idIdx EXCEPT ![i] = next], idOf', Between(obLo, obLo'))
  /\ UNCHANGED <<delivered, rowOf>>

(* The pipelines give no entry id, and a row without a key is new: the      *)
(* entry gets a new uuid.                                                   *)
WriteEvent(k) == TransactionalWrite(k, next)

(* The first event of a key that reaches the table makes the key's row,     *)
(* with a uuid of its own (save_event_with_outbox) or the id of an entry    *)
(* that is in memory only (save_outbox_event_to_db).                        *)
MakeRow(k) ==
  /\ rowOf[k] = None
  /\ \E i \in {k} \cup {idOf[n] : n \in {n \in Write : n < next /\ keyOf[n] = k}} :
       rowOf' = [rowOf EXCEPT ![k] = i]
  /\ UNCHANGED <<next, evLo, obLo, keyOf, idOf, evIdx, obIdx, idIdx, delivered>>

(* _drain_pending_mirrors: a save of the key that was committed is mirrored *)
(* with the id of its row, whichever save made that.                        *)
MirrorEvent(k) == rowOf[k] # None /\ TransactionalWrite(k, rowOf[k])

(* mark_delivered(i): nothing happens if the index does not know the id. *)
MarkDelivered(i) ==
  /\ idIdx[i] # None
  /\ delivered' = delivered \cup {idIdx[i]}
  /\ UNCHANGED <<next, evLo, obLo, keyOf, idOf, evIdx, obIdx, idIdx, rowOf>>

ClearedIndex == [k \in Key |-> None]

(* clear_events, the DELETE /api/v1/events route: the outbox is not touched. *)
ClearEvents ==
  /\ evLo' = next
  /\ evIdx' = ClearedIndex
  /\ UNCHANGED <<next, obLo, keyOf, idOf, obIdx, idIdx, delivered, rowOf>>

Next ==
  \/ \E k \in Key \cup {NoKey} : WriteEvent(k)
  \/ \E k \in Key : MakeRow(k) \/ MirrorEvent(k)
  \/ \E i \in Id : MarkDelivered(i)
  \/ ClearEvents

Spec == Init /\ [][Next]_vars
-----------------------------------------------------------------------------
(* However long it runs, neither deque outgrows its bound, and the indexes  *)
(* hold nothing that has left the deques (the evictions of                  *)
(* transactional_write; an index entry left behind would be a leak).        *)
Bounded ==
  /\ next - evLo <= MaxEvents /\ next - obLo <= MaxOutbox
  /\ \A k \in Key : /\ (evIdx[k] # None => Event(evIdx[k]))
                     /\ (obIdx[k] # None => Entry(obIdx[k]))
  /\ \A i \in Id : idIdx[i] # None => Entry(idIdx[i])

(* "Idempotent via dedup_key": the timeline never shows two events with one *)
(* key, whatever was evicted or cleared in between.                         *)
OneEventPerKey ==
  \A m, n \in Write :
    Event(m) /\ Event(n) /\ keyOf[m] = keyOf[n] /\ keyOf[m] # NoKey => m = n

(* The entry a duplicate write gets back was written with the event that    *)
(* the timeline shows for the key, although the two indexes are cleared at  *)
(* different times.                                                         *)
DuplicateFindsItsEvent ==
  \A k \in Key : Duplicate(k) =>
    /\ obIdx[k] = evIdx[k]
    /\ Event(evIdx[k]) /\ keyOf[evIdx[k]] = k

(* "mark_delivered(returned_id) works" (persistence.py:242), but not for    *)
(* every entry.  What the id index keeps: an id leads to an entry of that   *)
(* id, and mark_delivered misses an entry only if a mirror queued its id    *)
(* again, and then a newer entry of the id is in the queue or an evicted    *)
(* one took the id with it.  No eviction makes another id's entry           *)
(* unreachable.                                                             *)
UnreachableHaveTwins ==
  /\ \A i \in Id : idIdx[i] # None => idOf[idIdx[i]] = i
  /\ \A n \in Write : Entry(n) =>
       \/ idIdx[idOf[n]] = n
       \/ \E m \in Write : /\ idOf[m] = idOf[n]
                           /\ m < obLo \/ (n < m /\ Entry(m))

(* The indexes are only a faster way to look through the timeline.          *)
timeline == INSTANCE Timeline WITH lo <- evLo
ImplementsTimeline == timeline!Spec
=============================================================================
