---------------------------- MODULE OutboxProofs ----------------------------
(***************************************************************************)
(* Proofs about Outbox for every set of keys, every capacity and every     *)
(* number of writes, whichever entry ids the mirrors pin.                  *)
(***************************************************************************)
EXTENDS Outbox, TLAPS

(* The deques are bounded windows and the timeline lies in the outbox. *)
WindowInv ==
  /\ next - evLo <= MaxEvents /\ next - obLo <= MaxOutbox
  /\ obLo <= evLo

(* The event index is exactly the keyed part of the timeline. *)
EventIndexInv ==
  /\ \A k \in Key : evIdx[k] # None => Event(evIdx[k]) /\ keyOf[evIdx[k]] = k
  /\ \A n \in Write : Event(n) /\ keyOf[n] # NoKey => evIdx[keyOf[n]] = n

(* The outbox index agrees with it, and holds nothing that was evicted. *)
OutboxIndexInv ==
  /\ \A k \in Key : obIdx[k] # None => Entry(obIdx[k]) /\ keyOf[obIdx[k]] = k
  /\ \A k \in Key : evIdx[k] # None => obIdx[k] = evIdx[k]

(* The id index holds nothing that was evicted, and an entry it does not    *)
(* lead to has shared its id with another.                                 *)
IdIndexInv ==
  /\ \A n \in Write : n < next => idOf[n] \in Id
  /\ \A i \in Id : idIdx[i] # None => Entry(idIdx[i])
  /\ UnreachableHaveTwins

IInv == TypeOK /\ WindowInv /\ EventIndexInv /\ OutboxIndexInv /\ IdIndexInv

(* The invariant holds at the start. *)
LEMMA InitInv == Init => IInv
  <1> SUFFICES ASSUME Init PROVE IInv
    OBVIOUS
  <1>1. TypeOK
    BY WritesAssumption DEF Init, TypeOK
  <1>2. WindowInv
    BY CapacityAssumption DEF Init, WindowInv
  <1>3. EventIndexInv /\ OutboxIndexInv /\ IdIndexInv
    BY DEF Init, EventIndexInv, OutboxIndexInv, IdIndexInv, UnreachableHaveTwins, Event,
       Entry, Write
  <1>4. QED BY <1>1, <1>2, <1>3 DEF IInv

(* A write appends, evicts on each side what is over the bound, and keeps   *)
(* the indexes of the keys exact, whichever id its entry has.               *)
LEMMA TransactionalWriteInv ==
  ASSUME IInv, NEW k \in Key \cup {NoKey}, NEW i \in Id, TransactionalWrite(k, i)
  PROVE  IInv'
  <1> USE DEF Write, None
  <1>1. /\ next \in Nat /\ next \in Write /\ next' = next + 1
        /\ evLo \in 1 .. next /\ obLo \in 1 .. next
    BY WritesAssumption DEF IInv, TypeOK, TransactionalWrite
  <1>2. /\ keyOf' = [keyOf EXCEPT ![next] = k] /\ idOf' = [idOf EXCEPT ![next] = i]
        /\ keyOf' \in [Write -> Key \cup {NoKey}]
        /\ idOf' \in [Write -> Id \cup {None}]
        /\ keyOf'[next] = k /\ idOf'[next] = i
        /\ \A n \in Write : n # next => keyOf'[n] = keyOf[n] /\ idOf'[n] = idOf[n]
    BY <1>1 DEF IInv, TypeOK, TransactionalWrite
  <1>3. /\ evLo' \in evLo .. next /\ (next + 1) - evLo' <= MaxEvents
        /\ obLo' \in obLo .. next /\ (next + 1) - obLo' <= MaxOutbox
        /\ obLo' <= evLo'
    BY <1>1, CapacityAssumption
    DEF IInv, WindowInv, TransactionalWrite, Oldest
  <1>4. \A j \in Key : evIdx'[j] = IF j = k THEN next
                                   ELSE IF evIdx[j] # None /\ evIdx[j] < evLo' THEN None
                                   ELSE evIdx[j]
    <2> TAKE j \in Key
    <2>1. Point(evIdx, k, next)[j] = IF j = k THEN next ELSE evIdx[j]
      BY DEF Point
    <2>2. evIdx'[j] = IF \E n \in Between(evLo, evLo') :
                            keyOf'[n] = j /\ Point(evIdx, k, next)[j] = n
                        THEN None ELSE Point(evIdx, k, next)[j]
      BY DEF TransactionalWrite, ForgetKeys
    <2>3. CASE j = k
      BY <1>1, <1>3, <2>1, <2>2, <2>3 DEF Between
    <2>4. CASE j # k /\ evIdx[j] = None
      BY <1>1, <2>1, <2>2, <2>4 DEF Between
    <2>5. CASE j # k /\ evIdx[j] # None
      <3>1. Event(evIdx[j]) /\ keyOf[evIdx[j]] = j /\ keyOf'[evIdx[j]] = j
        BY <1>1, <1>2, <2>5 DEF IInv, EventIndexInv, Event
      <3>2. (\E n \in Between(evLo, evLo') : keyOf'[n] = j /\ evIdx[j] = n)
              <=> evIdx[j] < evLo'
        BY <3>1, <1>1, <1>3 DEF Event, Between
      <3>3. QED BY <2>1, <2>2, <2>5, <3>2
    <2>6. QED BY <2>3, <2>4, <2>5
  <1>5. \A j \in Key : obIdx'[j] = IF j = k THEN next
                                   ELSE IF obIdx[j] # None /\ obIdx[j] < obLo' THEN None
                                   ELSE obIdx[j]
    <2> TAKE j \in Key
    <2>1. Point(obIdx, k, next)[j] = IF j = k THEN next ELSE obIdx[j]
      BY DEF Point
    <2>2. obIdx'[j] = IF \E n \in Between(obLo, obLo') :
                            keyOf'[n] = j /\ Point(obIdx, k, next)[j] = n
                        THEN None ELSE Point(obIdx, k, next)[j]
      BY DEF TransactionalWrite, ForgetKeys
    <2>3. CASE j = k
      BY <1>1, <1>3, <2>1, <2>2, <2>3 DEF Between
    <2>4. CASE j # k /\ obIdx[j] = None
      BY <1>1, <2>1, <2>2, <2>4 DEF Between
    <2>5. CASE j # k /\ obIdx[j] # None
      <3>1. Entry(obIdx[j]) /\ keyOf[obIdx[j]] = j /\ keyOf'[obIdx[j]] = j
        BY <1>1, <1>2, <2>5 DEF IInv, OutboxIndexInv, Entry
      <3>2. (\E n \in Between(obLo, obLo') : keyOf'[n] = j /\ obIdx[j] = n)
              <=> obIdx[j] < obLo'
        BY <3>1, <1>1, <1>3 DEF Entry, Between
      <3>3. QED BY <2>1, <2>2, <2>5, <3>2
    <2>6. QED BY <2>3, <2>4, <2>5
  <1>6. \A j \in Id : idIdx'[j] = IF \E n \in Between(obLo, obLo') : idOf'[n] = j THEN None
                                  ELSE IF j = i THEN next
                                  ELSE idIdx[j]
    <2>1. idIdx' = [j \in Id |-> IF \E n \in Between(obLo, obLo') : idOf'[n] = j
                                   THEN None ELSE [idIdx EXCEPT ![i] = next][j]]
      BY DEF TransactionalWrite, ForgetIds
    <2>2. idIdx \in [Id -> Write \cup {None}]
      BY DEF IInv, TypeOK
    <2>3. QED BY <2>1, <2>2
  <1>7. TypeOK'
    <2>1. /\ evIdx' \in [Key -> Write \cup {None}]
          /\ obIdx' \in [Key -> Write \cup {None}]
          /\ idIdx' \in [Id -> Write \cup {None}]
      <3>1. /\ evIdx' = [j \in Key |-> evIdx'[j]] /\ obIdx' = [j \in Key |-> obIdx'[j]]
            /\ idIdx' = [j \in Id |-> idIdx'[j]]
        BY DEF TransactionalWrite, ForgetKeys, ForgetIds
      <3>2. /\ \A j \in Key : evIdx'[j] \in Write \cup {None}
            /\ \A j \in Key : obIdx'[j] \in Write \cup {None}
            /\ \A j \in Id : idIdx'[j] \in Write \cup {None}
        BY <1>1, <1>4, <1>5, <1>6 DEF IInv, TypeOK
      <3>3. QED BY <3>1, <3>2
    <2>2. next' \in 1 .. MaxWrites + 1 /\ evLo' \in 1 .. next' /\ obLo' \in 1 .. next'
      BY <1>1, <1>3, WritesAssumption
    <2>3. delivered' \in SUBSET Write /\ rowOf' \in [Key -> Id \cup {None}]
      BY DEF IInv, TypeOK, TransactionalWrite
    <2>4. QED BY <1>2, <2>1, <2>2, <2>3 DEF TypeOK
  <1>8. WindowInv'
    BY <1>1, <1>3 DEF WindowInv
  <1>9. EventIndexInv'
    <2>1. \A j \in Key : evIdx'[j] # None => Event(evIdx[j])' /\ keyOf'[evIdx'[j]] = j
      BY <1>1, <1>2, <1>3, <1>4 DEF IInv, EventIndexInv, Event
    <2>2. ASSUME NEW n \in Write, Event(n)', keyOf'[n] # NoKey
          PROVE  evIdx'[keyOf'[n]] = n
      <3>1. CASE n = next
        BY <1>2, <1>4, <2>2, <3>1
      <3>2. CASE n # next
        <4>1. Event(n) /\ keyOf'[n] = keyOf[n] /\ evLo' <= n
          BY <1>1, <1>2, <1>3, <2>2, <3>2 DEF Event
        <4>2. keyOf[n] \in Key /\ evIdx[keyOf[n]] = n
          BY <2>2, <4>1 DEF IInv, TypeOK, EventIndexInv
        <4>3. keyOf[n] # k
          <5>1. k # NoKey /\ k = keyOf[n] => Duplicate(k)
            BY <4>2 DEF IInv, OutboxIndexInv, Duplicate
          <5>2. QED BY <2>2, <4>1, <5>1 DEF TransactionalWrite
        <4>4. QED BY <1>1, <1>3, <1>4, <4>1, <4>2, <4>3
      <3>3. QED BY <3>1, <3>2
    <2>3. QED BY <2>1, <2>2 DEF EventIndexInv
  <1>10. OutboxIndexInv'
    <2>1. \A j \in Key : obIdx'[j] # None => Entry(obIdx[j])' /\ keyOf'[obIdx'[j]] = j
      BY <1>1, <1>2, <1>3, <1>5 DEF IInv, OutboxIndexInv, Entry
    <2>2. \A j \in Key : evIdx'[j] # None => obIdx'[j] = evIdx'[j]
      BY <1>1, <1>3, <1>4, <1>5 DEF IInv, OutboxIndexInv, EventIndexInv, Event
    <2>3. QED BY <2>1, <2>2 DEF OutboxIndexInv
  <1>11. IdIndexInv'
    <2>1. \A n \in Write : n < next' => idOf'[n] \in Id
      BY <1>1, <1>2 DEF IInv, IdIndexInv
    <2>2. ASSUME NEW j \in Id, idIdx'[j] # None
          PROVE  Entry(idIdx[j])' /\ idOf'[idIdx'[j]] = j
      <3>1. CASE idIdx'[j] = next
        <4>1. j = i \/ idIdx[j] = next
          BY <1>6, <2>2, <3>1
        <4>2. idIdx[j] # next
          BY <1>1 DEF IInv, IdIndexInv, Entry
        <4>3. QED BY <1>1, <1>2, <1>3, <3>1, <4>1, <4>2 DEF Entry
      <3>2. CASE idIdx'[j] # next
        <4>1. idIdx'[j] = idIdx[j] /\ \A n \in Between(obLo, obLo') : idOf'[n] # j
          BY <1>6, <2>2, <3>2
        <4>2. Entry(idIdx[j]) /\ idOf[idIdx[j]] = j
          BY <2>2, <4>1 DEF IInv, IdIndexInv, UnreachableHaveTwins
        <4>3. QED BY <1>1, <1>2, <1>3, <4>1, <4>2 DEF Entry, Between
      <3>3. QED BY <3>1, <3>2
    <2>3. ASSUME NEW n \in Write, Entry(n)', idIdx'[idOf'[n]] # n
          PROVE  \E m \in Write : /\ idOf'[m] = idOf'[n]
                                  /\ m < obLo' \/ (n < m /\ Entry(m)')
      <3> DEFINE j == idOf'[n]
      <3>1. j \in Id
        BY <2>1, <2>3 DEF Entry
      <3>2. CASE \E m \in Between(obLo, obLo') : idOf'[m] = j
        BY <3>2 DEF Between
      <3>3. CASE j = i /\ ~\E m \in Between(obLo, obLo') : idOf'[m] = j
        <4>1. idIdx'[j] = next /\ n # next
          BY <1>6, <2>3, <3>1, <3>3
        <4>2. PICK m \in Write : m = next
          BY <1>1
        <4>3. n < m /\ Entry(m)' /\ idOf'[m] = j
          BY <1>1, <1>2, <1>3, <2>3, <3>3, <4>1, <4>2 DEF Entry
        <4>4. QED BY <4>3
      <3>4. CASE j # i /\ ~\E m \in Between(obLo, obLo') : idOf'[m] = j
        <4>1. idIdx'[j] = idIdx[j] /\ n # next
          BY <1>2, <1>6, <3>1, <3>4
        <4>2. Entry(n) /\ idOf[n] = j
          BY <1>1, <1>2, <1>3, <2>3, <4>1 DEF Entry
        <4>3. PICK m \in Write : /\ idOf[m] = j
                                 /\ m < obLo \/ (n < m /\ Entry(m))
          BY <2>3, <4>1, <4>2 DEF IInv, IdIndexInv, UnreachableHaveTwins
        <4>4. m # next /\ idOf'[m] = j
          BY <1>1, <1>2, <4>3 DEF Entry
        <4>5. m < obLo' \/ (n < m /\ Entry(m)')
          BY <1>1, <1>3, <4>3 DEF Entry
        <4>6. QED BY <4>4, <4>5
      <3>5. QED BY <3>2, <3>3, <3>4
    <2>4. UnreachableHaveTwins'
      BY <2>2, <2>3 DEF UnreachableHaveTwins
    <2>5. QED BY <2>1, <2>2, <2>4 DEF IdIndexInv
  <1>12. QED BY <1>7, <1>8, <1>9, <1>10, <1>11 DEF IInv

(* Every step, and every stutter, preserves the invariant. *)
LEMMA NextInv == IInv /\ [Next]_vars => IInv'
  <1> SUFFICES ASSUME IInv, [Next]_vars PROVE IInv'
    OBVIOUS
  <1>1. CASE \E k \in Key \cup {NoKey} : WriteEvent(k)
    <2>1. PICK k \in Key \cup {NoKey} : TransactionalWrite(k, next)
      BY <1>1 DEF WriteEvent
    <2>2. next \in Id
      BY <2>1, WritesAssumption DEF TransactionalWrite, IInv, TypeOK, Id, Write
    <2>3. QED BY <2>1, <2>2, TransactionalWriteInv
  <1>2. CASE \E i \in Id : MarkDelivered(i)
    BY <1>2 DEF MarkDelivered, IInv, TypeOK, WindowInv, EventIndexInv, OutboxIndexInv,
       IdIndexInv, UnreachableHaveTwins, Event, Entry
  <1>3. CASE ClearEvents
    <2>1. TypeOK' /\ WindowInv'
      BY <1>3, CapacityAssumption, WritesAssumption
      DEF ClearEvents, ClearedIndex, IInv, TypeOK, WindowInv
    <2>2. EventIndexInv' /\ OutboxIndexInv' /\ IdIndexInv'
      BY <1>3 DEF ClearEvents, ClearedIndex, IInv, TypeOK, EventIndexInv,
         OutboxIndexInv, IdIndexInv, UnreachableHaveTwins, Event, Entry, Write, None
    <2>3. QED BY <2>1, <2>2 DEF IInv
  <1>4. CASE UNCHANGED vars
    BY <1>4 DEF vars, IInv, TypeOK, WindowInv, EventIndexInv, OutboxIndexInv,
       IdIndexInv, UnreachableHaveTwins, Event, Entry
  <1>5. CASE \E k \in Key : MirrorEvent(k)
    <2>1. PICK k \in Key : rowOf[k] # None /\ TransactionalWrite(k, rowOf[k])
      BY <1>5 DEF MirrorEvent
    <2>2. rowOf[k] \in Id
      BY <2>1 DEF IInv, TypeOK
    <2>3. QED BY <2>1, <2>2, TransactionalWriteInv
  <1>6. CASE \E k \in Key : MakeRow(k)
    <2>1. PICK k \in Key : MakeRow(k)
      BY <1>6
    <2>2. \A n \in Write : n < next => idOf[n] \in Id
      BY DEF IInv, IdIndexInv
    <2>3. rowOf' \in [Key -> Id \cup {None}]
      BY <2>1, <2>2 DEF MakeRow, IInv, TypeOK, Id
    <2>4. QED
      BY <2>1, <2>3 DEF MakeRow, IInv, TypeOK, WindowInv, EventIndexInv, OutboxIndexInv,
         IdIndexInv, UnreachableHaveTwins, Event, Entry
  <1>7. QED BY <1>1, <1>2, <1>3, <1>4, <1>5, <1>6 DEF Next

(* IInv holds in every reachable state of the timeline and its indexes. *)
THEOREM InductiveInvariant == Spec => []IInv
  BY InitInv, NextInv, PTL DEF Spec
-----------------------------------------------------------------------------
(* Every variable of the outbox keeps its type.                             *)
THEOREM TypeCorrect == Spec => []TypeOK
  <1>1. IInv => TypeOK
    BY DEF IInv
  <1>2. QED BY InductiveInvariant, <1>1, PTL

(* The evictions keep both deques within their bounds, and the indexes hold *)
(* nothing that has left them, whatever the capacities.                     *)
THEOREM OutboxBounded == Spec => []Bounded
  <1>1. IInv => Bounded
    BY DEF IInv, WindowInv, EventIndexInv, OutboxIndexInv, IdIndexInv, Bounded
  <1>2. QED BY InductiveInvariant, <1>1, PTL

(* A key is never twice in the timeline: transactional_write is idempotent  *)
(* over every interleaving of writes, evictions and clears.                 *)
THEOREM WritesIdempotent == Spec => []OneEventPerKey
  <1>1. IInv => OneEventPerKey
    <2> SUFFICES ASSUME IInv, NEW m \in Write, NEW n \in Write, Event(m), Event(n),
                        keyOf[m] = keyOf[n], keyOf[m] # NoKey
                 PROVE  m = n
      BY DEF OneEventPerKey
    <2>1. evIdx[keyOf[m]] = m /\ evIdx[keyOf[n]] = n
      BY DEF IInv, EventIndexInv
    <2>2. QED BY <2>1
  <1>2. QED BY InductiveInvariant, <1>1, PTL

(* A duplicate write is answered with the entry of the event that is shown. *)
THEOREM DuplicatesAgree == Spec => []DuplicateFindsItsEvent
  <1>1. IInv => DuplicateFindsItsEvent
    BY KeyAssumption
    DEF IInv, EventIndexInv, OutboxIndexInv, DuplicateFindsItsEvent, Duplicate
  <1>2. QED BY InductiveInvariant, <1>1, PTL

(* Every entry in _OUTBOX can be marked delivered by its id, or has shared  *)
(* the id with a newer entry or one that was evicted: no other entry's      *)
(* write or eviction takes it out of reach.                                 *)
THEOREM MissedEntriesHaveTwins == Spec => []UnreachableHaveTwins
  <1>1. IInv => UnreachableHaveTwins
    BY DEF IInv, IdIndexInv
  <1>2. QED BY InductiveInvariant, <1>1, PTL
-----------------------------------------------------------------------------
(* The constant-time test of the indexes finds a key exactly when a search  *)
(* of the timeline would.                                                   *)
LEMMA DuplicateIsKnown ==
  ASSUME IInv, NEW k \in Key \cup {NoKey}
  PROVE  Duplicate(k) <=> timeline!Known(k)
  <1>1. ASSUME Duplicate(k) PROVE timeline!Known(k)
    <2>1. k \in Key /\ Event(evIdx[k]) /\ keyOf[evIdx[k]] = k
      BY <1>1 DEF Duplicate, IInv, EventIndexInv
    <2>2. QED
      BY <1>1, <2>1 DEF timeline!Known, timeline!InTimeline, Event, Write, Duplicate
  <1>2. ASSUME timeline!Known(k) PROVE Duplicate(k)
    <2>1. PICK n \in Write : Event(n) /\ keyOf[n] = k /\ k # NoKey
      BY <1>2 DEF timeline!Known, timeline!InTimeline, Event, Write
    <2>2. k \in Key /\ evIdx[k] = n /\ n # None
      BY <2>1 DEF IInv, EventIndexInv, Write, None
    <2>3. QED BY <2>1, <2>2 DEF IInv, OutboxIndexInv, Duplicate
  <1>3. QED BY <1>1, <1>2

(* The indexed outbox implements the timeline that searches itself: each    *)
(* write is one recording, each clear one clearing, a delivery nothing.     *)
THEOREM RefinesTimeline == Spec => ImplementsTimeline
  <1>1. Init => timeline!Init
    BY DEF Init, timeline!Init, Write
  <1>2. IInv /\ [Next]_vars => [timeline!Next]_(timeline!tlVars)
    <2> SUFFICES ASSUME IInv, [Next]_vars
                 PROVE  timeline!Next \/ UNCHANGED timeline!tlVars
      OBVIOUS
    <2>1. ASSUME NEW k \in Key \cup {NoKey}, NEW i, TransactionalWrite(k, i)
          PROVE  timeline!Record(k)
      <3>1. ~timeline!Known(k)
        BY <2>1, DuplicateIsKnown DEF TransactionalWrite
      <3>2. QED
        BY <2>1, <3>1 DEF TransactionalWrite, Oldest, timeline!Record
    <2>2. CASE \E k \in Key \cup {NoKey} : WriteEvent(k)
      BY <2>1, <2>2 DEF WriteEvent, timeline!Next
    <2>3. CASE \E i \in Id : MarkDelivered(i)
      BY <2>3 DEF MarkDelivered, timeline!tlVars
    <2>4. CASE ClearEvents
      BY <2>4 DEF ClearEvents, timeline!Next, timeline!Clear
    <2>5. CASE UNCHANGED vars
      BY <2>5 DEF vars, timeline!tlVars
    <2>6. CASE \E k \in Key : MirrorEvent(k)
      BY <2>1, <2>6 DEF MirrorEvent, timeline!Next
    <2>7. CASE \E k \in Key : MakeRow(k)
      BY <2>7 DEF MakeRow, timeline!tlVars
    <2>8. QED BY <2>2, <2>3, <2>4, <2>5, <2>6, <2>7 DEF Next
  <1>3. QED
    BY InductiveInvariant, <1>1, <1>2, PTL DEF Spec, ImplementsTimeline, timeline!Spec
=============================================================================
