--------------------------- MODULE TimelineProofs ---------------------------
(***************************************************************************)
(* The console's running order, for any queue, snapshot, clock setting and *)
(* number of segments: RunningOrder, and that it is what airs (MusicAgrees, *)
(* FirstBreakAgrees); and that the station keeps its cadence (CadenceKept). *)
(*                                                                         *)
(* Each part of RunningOrder speaks of two items of the list, while one     *)
(* step of the walk only knows its locals.  OrderInv says what the locals        *)
(* remember of the list: whether it is empty, whether it ends in a break,    *)
(* and that the rows still ready, and the pin still held, were not shown.    *)
(*                                                                         *)
(* The others compare two lists that grow at different times.  JInv holds    *)
(* each against the snapshot: a snapshot's queue has one item for every      *)
(* place (Placed), and each list has in each place the item that belongs     *)
(* there, so the two agree.  Until a break is shown the clocks of the two    *)
(* agree as well, the walk's one item ahead (InStep).                        *)
(***************************************************************************)
EXTENDS Timeline, TLAPS, WellFoundedInduction, FiniteSetTheorems

Shown(i) == upcoming[i].item

\* Types of what the walk reads and writes.
WalkTypes ==
    /\ snap \in Snapshot
    /\ walk \in [cad : {walk.cad}, ready : SUBSET QueueRows,
                 nextUp : {snap.nextUp, NothingNext}, lastWasBreak : BOOLEAN,
                 first : BOOLEAN]
    /\ upcoming \in Seq(Projected)

\* The locals know whether the list is empty and whether it ends in a break.
EndOfList ==
    /\ walk.first => upcoming = <<>>
    /\ upcoming = <<>> /\ snap.airing = "break" => walk.lastWasBreak
    /\ upcoming # <<>> /\ IsBreak(Shown(Len(upcoming))) => walk.lastWasBreak

\* A row in the list is no longer ready, and none is in it before the pin is spent.
RowsLeft ==
    \A i \in 1..Len(upcoming) :
        Shown(i).row # NoRow => Shown(i).row \notin walk.ready /\ ~walk.nextUp.set

OrderInv ==
    /\ WalkTypes
    /\ EndOfList
    /\ RowsLeft
    /\ BreaksApart
    /\ RowsOnce
    /\ PreparedFirst

-----------------------------------------------------------------------------
(* The walk and the station, side by side.                                  *)

\* Types of what the station reads and writes; the two take turns.
StationTypes ==
    /\ walk.cad \in CadenceState
    /\ ahead \in Ahead
    /\ aired \in Seq(Segment)
    /\ Len(aired) <= Len(upcoming)
    /\ Len(upcoming) <= Len(aired) + 1
    /\ Len(upcoming) <= MaxSegments

\* The tracks a snapshot's queue airs, in their order after its pin: a later one
\* nobody can name.
PinCount(s) == IF PinAirs(s) THEN 1 ELSE 0
Playable(s) == {r \in ReadyRows(s) \cap s.known : PinAirs(s) => r # s.nextUp.row}

\* The item is what follows n tracks.
Placed(s, n, item) ==
    IF PinAirs(s) /\ n = 0 THEN item = Track(s.nextUp.row)
    ELSE \/ \E r \in Playable(s) :
              item = Track(r) /\ n = PinCount(s) + Cardinality({q \in Playable(s) : q < r})
         \/ item = Unknown /\ n >= PinCount(s) + Cardinality(Playable(s))

\* The rows left after n tracks, and whether the pin still waits.
QueueLeft(s, rows, waits, n) ==
    /\ rows \subseteq ReadyRows(s)
    /\ waits => PinAirs(s) /\ rows = ReadyRows(s) /\ n = 0
    /\ ~waits =>
          /\ PinAirs(s) => s.nextUp.row \notin rows
          /\ \A q \in Playable(s) \cap rows, r \in Playable(s) : q < r => r \in rows
          /\ n >= PinCount(s) + Cardinality(Playable(s) \ rows)
          /\ Playable(s) \cap rows # {} => n = PinCount(s) + Cardinality(Playable(s) \ rows)

\* The tracks of a list, and that each has its place.
Depth(items) == TrackCount(items, 1, Len(items))
InOrder(s, items) ==
    \A i \in 1..Len(items) :
        ~IsBreak(items[i]) => Placed(s, TrackCount(items, 1, i - 1), items[i])

\* The walk and the station follow the same queue, each as far as it has come.
WalkMusic ==
    /\ QueueLeft(snap, walk.ready, PinAirs(snap) /\ walk.nextUp.set, Depth(Order))
    /\ InOrder(snap, Order)
StationMusic ==
    /\ QueueLeft(snap, ahead.ready, PinAirs(snap) /\ ahead.nextUp.set /\ ~ahead.rolled,
                 Depth(aired))
    /\ ahead.nextUp.set =>
          IF ahead.rolled
          THEN ahead.nextUp.known /\ ahead.nextUp.row = NoRow /\ ahead.ready = {}
          ELSE ahead.nextUp = snap.nextUp
    /\ InOrder(snap, aired)

\* The tracks since any seam that aired are at least those the clock counts, the
\* one on the air included; a seam that waited for a track is stale.
Counting == IF ahead.pc = "seam" /\ ahead.airing = "track" THEN 1 ELSE 0
SinceSeam ==
    /\ CadenceKept
    /\ ahead.clip = Seam /\ aired # <<>> => ~ahead.fresh
    /\ \A i \in 1..Len(aired) :
          aired[i].kind = Seam =>
              /\ ~ahead.cad.forced
              /\ ahead.airing # "none"
              /\ TrackCount(aired, i, Len(aired)) >= ahead.cad.finished + Counting

\* What FirstBreakAgrees supposes of the snapshot.
Exact == snap.airing = "track" /\ snap.cad.music /\ snap.fresh

\* As long as no break was shown, the walk is the station one item ahead.
Even ==
    /\ ahead.pc = "seam" /\ walk.cad = ahead.cad /\ ~walk.lastWasBreak
    /\ IF walk.first THEN ahead.clip = snap.clip /\ ahead.fresh ELSE ahead.clip = NoKind
OneAhead(next) ==
    IF IsBreak(next) THEN ahead.pc = "seam" /\ Taken /\ next = Break(Slot)
    ELSE /\ ~walk.lastWasBreak
         /\ IF ahead.pc = "seam" THEN Slot = NoKind /\ walk.cad = AdvanceMusic(ahead.cad)
            ELSE ahead.clip = NoKind /\ walk.cad = ahead.cad
InStep ==
    /\ ahead.airing = "track"
    /\ IF Len(upcoming) = Len(aired) THEN Even ELSE OneAhead(Shown(Len(upcoming)))

NoBreakYet == \A j \in 1..Len(aired) : ~IsBreak(Shown(j))
FirstBreak == FirstBreakAgrees /\ (Exact /\ NoBreakYet => InStep)

JInv == OrderInv /\ StationTypes /\ WalkMusic /\ StationMusic /\ SinceSeam /\ FirstBreak

-----------------------------------------------------------------------------
(* Operators.                                                               *)

\* A nonempty set of rows has a head: the natural numbers are well-founded.
LEMMA HeadOfRows ==
  ASSUME NEW rows, rows \subseteq QueueRows, rows # {}
  PROVE  HeadRow(rows) \in rows /\ \A q \in rows : HeadRow(rows) <= q
<1>1. rows \subseteq Nat
  BY TimelineAssumption
<1>2. \E x \in rows : \A y \in rows : ~(<<y, x>> \in OpToRel(<, Nat))
  BY <1>1, NatLessThanWellFounded, WFMin, Zenon
<1>3. \A x, y \in Nat : ~(<<y, x>> \in OpToRel(<, Nat)) => x <= y
  BY DEF OpToRel
<1>4. \E x \in rows : \A y \in rows : x <= y
  BY <1>1, <1>2, <1>3
<1> QED
  BY <1>4 DEF HeadRow

\* What the ladder answers is a kind, one that is owed.
LEMMA LadderKinds ==
  ASSUME NEW c
  PROVE  /\ DueKind(c) \in Kinds \cup {NoKind}
         /\ DueKind(c) # NoKind => Owed(c, DueKind(c))
<1> DEFINE owed == {k \in DOMAIN Ladder : Owed(c, Ladder[k])}
<1> DEFINE first == CHOOSE k \in owed : \A l \in owed : k <= l
<1>1. owed \subseteq 1..5
  BY DEF Ladder
<1>2. CASE owed = {}
  BY <1>2 DEF DueKind
<1>3. CASE owed # {}
  <2>1. \E k \in owed : \A l \in owed : k <= l
    <3> HIDE DEF owed
    <3>1. \E x \in owed : \A y \in owed : ~(<<y, x>> \in OpToRel(<, Nat))
      <4>1. owed \subseteq Nat
        BY <1>1
      <4> QED
        BY <4>1, <1>3, NatLessThanWellFounded, WFMin, Zenon
    <3>2. \A x, y \in Nat : ~(<<y, x>> \in OpToRel(<, Nat)) => x <= y
      BY DEF OpToRel
    <3>3. owed \subseteq Nat
      BY <1>1
    <3> QED
      BY <3>1, <3>2, <3>3
  <2>2. first \in owed
    <3> HIDE DEF owed
    <3> QED
      BY <2>1
  <2>3. DueKind(c) = Ladder[first]
    BY <1>3 DEF DueKind
  <2>4. \A k \in 1..5 : Ladder[k] \in Kinds
    BY DEF Ladder, Kinds
  <2>5. first \in 1..5 /\ Owed(c, Ladder[first])
    <3>1. first \in {k \in DOMAIN Ladder : Owed(c, Ladder[k])}
      BY <2>2
    <3> HIDE DEF owed, first
    <3> QED
      BY <3>1, <2>2, <1>1
  <2> HIDE DEF owed, first
  <2> QED
    BY <2>3, <2>4, <2>5
<1> QED
  BY <1>2, <1>3

\* What a seam shows: a kind, prepared only at the head, and none after a break.
LEMMA SeamArms ==
  ASSUME WalkTypes, NEW c
  PROVE  /\ SeamArm(c)[1] \in Kinds \cup {NoKind}
         /\ SeamArm(c)[2] \in {"prepared", "due"}
         /\ SeamArm(c)[1] # NoKind => ~walk.lastWasBreak
         /\ SeamArm(c)[2] = "prepared" => walk.first
<1>1. snap.clip \in Kinds \cup {NoKind}
  BY DEF WalkTypes, Snapshot
<1>2. DueKind(c) \in Kinds \cup {NoKind}
  BY LadderKinds
<1>3. CASE walk.lastWasBreak
  BY <1>3 DEF SeamArm
<1>4. CASE ~walk.lastWasBreak
  BY <1>1, <1>2, <1>4 DEF SeamArm
<1> QED
  BY <1>3, <1>4

\* The items of a list with one more.
LEMMA Emitted ==
  ASSUME WalkTypes, NEW segment \in Segment, NEW certainty \in Certainties,
         Emit(segment, certainty)
  PROVE  /\ upcoming' \in Seq(Projected) /\ upcoming' # <<>>
         /\ Len(upcoming) \in Nat /\ Len(upcoming') = Len(upcoming) + 1
         /\ \A i \in 1..Len(upcoming) : upcoming'[i] = upcoming[i]
         /\ upcoming'[Len(upcoming')] = [item |-> segment, certainty |-> certainty]
<1> DEFINE e == [item |-> segment, certainty |-> certainty]
<1>1. e \in Projected
  BY DEF Projected
<1>2. upcoming \in Seq(Projected) /\ upcoming' = Append(upcoming, e)
  BY DEF WalkTypes, Emit
<1> HIDE DEF e
<1>3. /\ upcoming' \in Seq(Projected) /\ upcoming' # <<>>
      /\ Len(upcoming) \in Nat /\ Len(upcoming') = Len(upcoming) + 1
      /\ \A i \in 1..Len(upcoming) : upcoming'[i] = upcoming[i]
      /\ upcoming'[Len(upcoming')] = e
  BY <1>1, <1>2
<1> QED
  BY <1>3 DEF e

-----------------------------------------------------------------------------
(* The walk.                                                                *)

\* Nothing is shown yet.
LEMMA OrderStarts == TimelineInit => OrderInv
<1> SUFFICES ASSUME NEW s \in Snapshots, Read(s) PROVE OrderInv
  BY DEF TimelineInit
<1>1. s \in Snapshot /\ snap = s /\ upcoming = <<>>
  BY SnapshotsAssumption DEF Read
<1>2. walk = [cad |-> [s.cad EXCEPT !.music = @ \/ s.airing = "track"],
              ready |-> ReadyRows(s), nextUp |-> s.nextUp,
              lastWasBreak |-> s.airing = "break", first |-> TRUE]
  BY DEF Read, StartOfWalk
<1>3. WalkTypes
  <2>1. (s.airing = "break") \in BOOLEAN
    OBVIOUS
  <2> QED
    BY <2>1, <1>1, <1>2 DEF WalkTypes, ReadyRows
<1>4. Len(upcoming) = 0
  BY <1>1
<1>5. walk.lastWasBreak <=> snap.airing = "break"
  BY <1>1, <1>2
<1>6. EndOfList /\ RowsLeft
  BY <1>1, <1>4, <1>5 DEF EndOfList, RowsLeft
<1>7. BreaksApart /\ RowsOnce /\ PreparedFirst
  BY <1>4 DEF BreaksApart, RowsOnce, PreparedFirst
<1> QED
  BY <1>3, <1>6, <1>7 DEF OrderInv

\* A list in order stays so when the item added fits its end.
LEMMA OneMore ==
  ASSUME WalkTypes, BreaksApart, RowsOnce, PreparedFirst, UNCHANGED snap,
         NEW e, NEW n \in Nat,
         Len(upcoming) = n, Len(upcoming') = n + 1,
         \A i \in 1..n : upcoming'[i] = upcoming[i],
         upcoming'[n + 1] = e,
         IsBreak(e.item) => IF n = 0 THEN snap.airing # "break" ELSE ~IsBreak(Shown(n)),
         e.item.row # NoRow => \A i \in 1..n : Shown(i).row # e.item.row,
         e.certainty = "prepared" => n = 0
  PROVE  BreaksApart' /\ RowsOnce' /\ PreparedFirst'
<1>1. BreaksApart'
  <2> SUFFICES ASSUME NEW i \in 1..(n + 1), IsBreak(upcoming'[i].item)
               PROVE  IF i = 1 THEN snap.airing # "break"
                      ELSE ~IsBreak(upcoming'[i - 1].item)
    BY DEF BreaksApart, IsBreak
  <2>1. CASE i = n + 1
    BY <2>1 DEF Shown
  <2>2. CASE i \in 1..n
    BY <2>2 DEF BreaksApart
  <2> QED
    BY <2>1, <2>2
<1>2. RowsOnce'
  BY DEF RowsOnce, Shown
<1>3. PreparedFirst'
  BY DEF PreparedFirst
<1> QED
  BY <1>1, <1>2, <1>3

\* A break is shown: it has no row, and the item before it is none.
LEMMA BreakKeeps ==
  ASSUME OrderInv, NEW timers, ProjectBreak(timers)
  PROVE  OrderInv'
<1>0. WalkTypes /\ EndOfList /\ RowsLeft /\ BreaksApart /\ RowsOnce /\ PreparedFirst
  BY DEF OrderInv
<1> DEFINE c == Elapse(walk.cad, timers)
<1> DEFINE arm == SeamArm(c)
<1> DEFINE n == Len(upcoming)
<1>1. /\ arm[1] # NoKind
      /\ Emit(Break(arm[1]), arm[2])
      /\ UNCHANGED snap
      /\ walk' = [walk EXCEPT !.cad = Advance(c, arm[1]), !.lastWasBreak = TRUE,
                              !.first = FALSE]
  BY DEF ProjectBreak
<1>2. /\ arm[1] \in Kinds /\ arm[2] \in {"prepared", "due"}
      /\ ~walk.lastWasBreak
      /\ arm[2] = "prepared" => upcoming = <<>>
  BY <1>0, <1>1, SeamArms DEF EndOfList
<1> HIDE DEF arm, c
<1>3. Break(arm[1]) \in Segment /\ arm[2] \in Certainties
  BY <1>2 DEF Break, Segment, Certainties, NoRow
<1>4. /\ upcoming' \in Seq(Projected) /\ upcoming' # <<>>
      /\ n \in Nat /\ Len(upcoming') = n + 1
      /\ \A i \in 1..n : upcoming'[i] = upcoming[i]
      /\ upcoming'[n + 1] = [item |-> Break(arm[1]), certainty |-> arm[2]]
  BY <1>0, <1>1, <1>3, Emitted
<1>5. upcoming'[n + 1].item.row = NoRow /\ upcoming'[n + 1].certainty = arm[2]
  BY <1>4 DEF Break
<1> HIDE DEF n
<1>6. walk' \in [cad : {walk'.cad}, ready : {walk.ready}, nextUp : {walk.nextUp},
                  lastWasBreak : {TRUE}, first : {FALSE}]
  BY <1>0, <1>1 DEF WalkTypes
<1>7. WalkTypes'
  BY <1>0, <1>1, <1>4, <1>6 DEF WalkTypes
<1>8. EndOfList'
  BY <1>4, <1>6 DEF EndOfList
<1>9. RowsLeft'
  <2> SUFFICES ASSUME NEW i \in 1..(n + 1), upcoming'[i].item.row # NoRow
               PROVE  upcoming'[i].item.row \notin walk.ready /\ ~walk.nextUp.set
    BY <1>4, <1>6 DEF RowsLeft, Shown
  <2>1. i \in 1..n
    BY <1>4, <1>5
  <2> QED
    BY <2>1, <1>0, <1>4 DEF RowsLeft, Shown, n
<1>10. BreaksApart' /\ RowsOnce' /\ PreparedFirst'
  <2>1. Len(upcoming) = n /\ (upcoming = <<>> <=> n = 0)
    BY <1>0 DEF n, WalkTypes
  <2>2. IF n = 0 THEN snap.airing # "break" ELSE ~IsBreak(Shown(n))
    BY <2>1, <1>0, <1>2 DEF EndOfList
  <2> QED
    BY <2>1, <2>2, <1>0, <1>1, <1>2, <1>4, <1>5, OneMore
<1> QED
  BY <1>7, <1>8, <1>9, <1>10 DEF OrderInv

\* A track, or a block nobody can name: a row it has leaves the rows that are
\* ready, and was not shown before.
LEMMA MusicKeeps ==
  ASSUME OrderInv, NEW timers, ProjectMusic(timers)
  PROVE  OrderInv'
<1>0. WalkTypes /\ EndOfList /\ RowsLeft /\ BreaksApart /\ RowsOnce /\ PreparedFirst
  BY DEF OrderInv
<1> DEFINE n == Len(upcoming)
<1> DEFINE pinned == walk.nextUp.set /\ PinAirs(snap)
<1> DEFINE playable == walk.ready \cap snap.known
<1> DEFINE row == IF pinned THEN snap.nextUp.row ELSE HeadRow(playable)
<1> DEFINE left == IF pinned THEN walk.ready \ {row}
                   ELSE IF playable # {} THEN {r \in walk.ready : r > row} ELSE {}
<1>1. /\ UNCHANGED snap
      /\ \/ pinned /\ Emit(Track(row), "committed")
         \/ ~pinned /\ playable # {} /\ Emit(Track(row), "projected")
         \/ ~pinned /\ playable = {} /\ Emit(Unknown, "unknown")
      /\ \E m : walk' = [AfterMusic(left) EXCEPT !.cad = m]
  BY DEF ProjectMusic
<1>2. left \subseteq walk.ready /\ walk.ready \subseteq QueueRows
  BY <1>0 DEF WalkTypes
<1>3. \E item \in Segment, certainty \in Certainties \ {"prepared"} :
        /\ Emit(item, certainty)
        /\ ~IsBreak(item)
        /\ item.row # NoRow =>
              item.row \notin left /\ \A i \in 1..n : Shown(i).row # item.row
  <2>1. ASSUME NEW r \in QueueRows \cup {NoRow}
        PROVE  Track(r) \in Segment /\ ~IsBreak(Track(r)) /\ Track(r).row = r
    BY DEF Track, Segment, IsBreak, Kinds, StationID, Seam, Musing, DaypartTransition,
           WakeGreeting
  <2>2. {"committed", "projected", "unknown"} \subseteq Certainties \ {"prepared"}
    BY DEF Certainties
  <2>3. CASE pinned
    <3>1. row = snap.nextUp.row /\ row \in QueueRows \cup {NoRow}
      BY <2>3, <1>0 DEF WalkTypes, Snapshot, NextUps
    <3>2. row \notin left
      BY <2>3
    <3>3. row # NoRow => \A i \in 1..n : Shown(i).row # row
      BY <2>3, <1>0 DEF RowsLeft
    <3>4. Emit(Track(row), "committed")
      BY <2>3, <1>1
    <3> HIDE DEF row, left, pinned, n
    <3> QED
      BY <2>1, <2>2, <3>1, <3>2, <3>3, <3>4
  <2>4. CASE ~pinned /\ playable # {}
    <3>1. row = HeadRow(playable) /\ left = {r \in walk.ready : r > row}
      BY <2>4
    <3>2. row \in playable
      BY <3>1, <2>4, <1>2, HeadOfRows
    <3>3. row \in walk.ready /\ row \in QueueRows /\ row \in Nat
      BY <3>2, <1>2, TimelineAssumption
    <3>4. row \notin left
      BY <3>1, <3>3
    <3>5. row # NoRow => \A i \in 1..n : Shown(i).row # row
      BY <3>3, <1>0 DEF RowsLeft
    <3>6. Emit(Track(row), "projected")
      BY <2>4, <1>1
    <3> HIDE DEF row, left, playable, pinned, n
    <3> QED
      BY <2>1, <2>2, <3>3, <3>4, <3>5, <3>6
  <2>5. CASE ~pinned /\ playable = {}
    <3>1. Unknown \in Segment /\ ~IsBreak(Unknown) /\ Unknown.row = NoRow
      BY DEF Unknown, Segment, IsBreak, Kinds, StationID, Seam, Musing, DaypartTransition,
             WakeGreeting
    <3>2. Emit(Unknown, "unknown")
      BY <2>5, <1>1
    <3> QED
      BY <2>2, <3>1, <3>2
  <2> QED
    BY <2>3, <2>4, <2>5
<1> HIDE DEF row, left, playable, pinned
<1>4. PICK item \in Segment, certainty \in Certainties \ {"prepared"} :
        /\ Emit(item, certainty)
        /\ ~IsBreak(item)
        /\ item.row # NoRow =>
              item.row \notin left /\ \A i \in 1..n : Shown(i).row # item.row
  BY <1>3
<1>5. /\ upcoming' \in Seq(Projected) /\ upcoming' # <<>>
      /\ n \in Nat /\ Len(upcoming') = n + 1
      /\ \A i \in 1..n : upcoming'[i] = upcoming[i]
      /\ upcoming'[n + 1] = [item |-> item, certainty |-> certainty]
  BY <1>0, <1>4, Emitted
<1>6. Len(upcoming) = n /\ (upcoming = <<>> <=> n = 0)
  BY <1>0 DEF WalkTypes
<1> HIDE DEF n
<1>7. walk' \in [cad : {walk'.cad}, ready : {left}, nextUp : {NothingNext},
                  lastWasBreak : {FALSE}, first : {FALSE}]
  BY <1>0, <1>1 DEF WalkTypes, AfterMusic
<1>8. WalkTypes'
  BY <1>1, <1>2, <1>0, <1>5, <1>7 DEF WalkTypes
<1>9. EndOfList'
  <2>1. upcoming'[Len(upcoming')].item = item
    BY <1>5
  <2>2. walk'.first = FALSE
    BY <1>7
  <2> QED
    BY <2>1, <2>2, <1>4, <1>5 DEF EndOfList, Shown, IsBreak
<1>10. RowsLeft'
  <2> SUFFICES ASSUME NEW i \in 1..(n + 1), upcoming'[i].item.row # NoRow
               PROVE  upcoming'[i].item.row \notin left
    BY <1>5, <1>7 DEF RowsLeft, Shown, NothingNext
  <2>1. CASE i = n + 1
    BY <2>1, <1>4, <1>5
  <2>2. CASE i \in 1..n
    BY <2>2, <1>0, <1>2, <1>5, <1>6 DEF RowsLeft, Shown
  <2> QED
    BY <2>1, <2>2, <1>5
<1>11. BreaksApart' /\ RowsOnce' /\ PreparedFirst'
  BY <1>0, <1>1, <1>4, <1>5, <1>6, OneMore
<1> QED
  BY <1>8, <1>9, <1>10, <1>11 DEF OrderInv

-----------------------------------------------------------------------------
(* The running order in order.                                              *)

\* The station's steps leave the running order alone.
LEMMA OrderKeeps ==
  ASSUME OrderInv, [TimelineNext]_timelineVars
  PROVE  OrderInv'
<1>1. CASE UNCHANGED <<snap, walk, upcoming>>
  BY <1>1 DEF OrderInv, WalkTypes, EndOfList, RowsLeft, BreaksApart, RowsOnce,
              PreparedFirst, Shown
<1>2. CASE \E timers \in SUBSET Timers : ProjectBreak(timers) \/ ProjectMusic(timers)
  BY <1>2, BreakKeeps, MusicKeeps
<1>3. CASE \/ BreakAirs \/ NoBreakAirs \/ AirPin \/ SkipPin \/ AirRequest \/ FailRequest
           \/ AirShuffle \/ Returned \/ UNCHANGED timelineVars
  BY <1>1, <1>3 DEF BreakAirs, NoBreakAirs, AirPin, SkipPin, AirRequest, FailRequest,
     AirShuffle, Returned, TrackStarts, timelineVars
<1> QED
  BY <1>2, <1>3 DEF TimelineNext

\* Types, what the walk's locals remember of the list, and the list in order.
THEOREM OrderInductive == TimelineSpec => []OrderInv
  BY OrderStarts, OrderKeeps, PTL DEF TimelineSpec

\* Whatever queue, pin, clip and clock the console reads, the order it shows has no
\* two breaks in a row, no request twice, and a prepared break at its head only.
THEOREM Ordered == TimelineSpec => []RunningOrder
<1>1. OrderInv => RunningOrder
  BY DEF OrderInv, RunningOrder
<1> QED
  BY <1>1, OrderInductive, PTL

-----------------------------------------------------------------------------
(* Counting tracks.                                                         *)

\* What is counted is finite.
LEMMA CountedRows ==
  ASSUME NEW items, NEW i \in Int, NEW j \in Int
  PROVE  /\ IsFiniteSet({k \in i..j : ~IsBreak(items[k])})
         /\ TrackCount(items, i, j) \in Nat
<1>1. IsFiniteSet({k \in i..j : ~IsBreak(items[k])})
  <2>1. {k \in i..j : ~IsBreak(items[k])} \in SUBSET (i..j)
    OBVIOUS
  <2> QED
    BY <2>1, FS_Interval, FS_Subset
<1> QED
  BY <1>1, FS_CardinalityType DEF TrackCount

\* The count looks at the items counted only.
LEMMA CountSame ==
  ASSUME NEW items, NEW more, NEW i \in Int, NEW j \in Int,
         \A k \in i..j : more[k] = items[k]
  PROVE  TrackCount(more, i, j) = TrackCount(items, i, j)
<1>1. {k \in i..j : ~IsBreak(more[k])} = {k \in i..j : ~IsBreak(items[k])}
  BY DEF IsBreak
<1> QED
  BY <1>1 DEF TrackCount

\* One more item counts if it is a track.
LEMMA CountNext ==
  ASSUME NEW items, NEW i \in Int, NEW n \in Int, i <= n + 1
  PROVE  TrackCount(items, i, n + 1) =
            TrackCount(items, i, n) + (IF IsBreak(items[n + 1]) THEN 0 ELSE 1)
<1> DEFINE before == {k \in i..n : ~IsBreak(items[k])}
<1> DEFINE after == {k \in i..(n + 1) : ~IsBreak(items[k])}
<1>1. IsFiniteSet(before) /\ TrackCount(items, i, n) \in Nat
  BY CountedRows
<1>2. n + 1 \notin before
  OBVIOUS
<1>3. after = IF IsBreak(items[n + 1]) THEN before ELSE before \cup {n + 1}
  <2>1. i..(n + 1) = (i..n) \cup {n + 1}
    OBVIOUS
  <2> QED
    BY <2>1
<1>4. TrackCount(items, i, n) = Cardinality(before)
      /\ TrackCount(items, i, n + 1) = Cardinality(after)
  BY DEF TrackCount
<1> HIDE DEF before, after
<1>5. CASE IsBreak(items[n + 1])
  BY <1>1, <1>3, <1>4, <1>5
<1>6. CASE ~IsBreak(items[n + 1])
  BY <1>1, <1>2, <1>3, <1>4, <1>6, FS_AddElement
<1> QED
  BY <1>5, <1>6

\* Nothing is counted in an empty stretch.
LEMMA CountNone ==
  ASSUME NEW items, NEW i \in Int, NEW j \in Int, j < i
  PROVE  TrackCount(items, i, j) = 0
<1>1. {k \in i..j : ~IsBreak(items[k])} = {}
  OBVIOUS
<1> QED
  BY <1>1, FS_EmptySet DEF TrackCount

\* A list with one more item counts one more track, or none.
LEMMA CountSuffix ==
  ASSUME NEW items, NEW more, NEW n \in Nat, \A k \in 1..n : more[k] = items[k],
         NEW i \in 1..(n + 1)
  PROVE  TrackCount(more, i, n + 1) =
            TrackCount(items, i, n) + (IF IsBreak(more[n + 1]) THEN 0 ELSE 1)
<1>1. TrackCount(more, i, n) = TrackCount(items, i, n)
  BY CountSame
<1> QED
  BY <1>1, CountNext

-----------------------------------------------------------------------------
(* The queue.                                                               *)

\* The rows are numbers, finitely many.
LEMMA PlayableRows ==
  ASSUME NEW s \in Snapshot
  PROVE  /\ IsFiniteSet(Playable(s)) /\ Playable(s) \subseteq Nat \ {NoRow}
         /\ Playable(s) \subseteq ReadyRows(s) /\ Playable(s) \subseteq s.known
<1>1. Playable(s) \in SUBSET QueueRows
  BY DEF Playable, ReadyRows
<1>2. IsFiniteSet(Playable(s))
  BY <1>1, TimelineAssumption, FS_Subset
<1> QED
  BY <1>1, <1>2, TimelineAssumption DEF Playable

\* A part of a finite set that misses an element has fewer.
LEMMA Fewer ==
  ASSUME NEW S, IsFiniteSet(S), NEW T \in SUBSET S, NEW x \in S, x \notin T
  PROVE  Cardinality(T) \in Nat /\ Cardinality(S) \in Nat /\ Cardinality(T) < Cardinality(S)
<1>1. IsFiniteSet(T) /\ Cardinality(T) <= Cardinality(S) /\ Cardinality(T) # Cardinality(S)
  BY FS_Subset
<1> QED
  BY <1>1, FS_CardinalityType

\* The queue puts one item in each place.
LEMMA PlacedOnce ==
  ASSUME NEW s \in Snapshot, NEW n \in Nat, NEW a, NEW b, Placed(s, n, a), Placed(s, n, b)
  PROVE  a = b
<1> DEFINE P == Playable(s)
<1> DEFINE Rank(r) == Cardinality({q \in P : q < r})
<1>1. IsFiniteSet(P) /\ P \subseteq Nat
  BY PlayableRows
<1>2. ASSUME NEW r \in P
      PROVE  Rank(r) \in Nat /\ Rank(r) < Cardinality(P)
  <2>1. {q \in P : q < r} \in SUBSET P /\ r \notin {q \in P : q < r}
    BY <1>1
  <2> QED
    BY <1>1, <2>1, Fewer
<1>3. ASSUME NEW q \in P, NEW r \in P, q < r
      PROVE  Rank(q) < Rank(r)
  <2> DEFINE U == {x \in P : x < q}
  <2> DEFINE V == {x \in P : x < r}
  <2>1. U \in SUBSET V /\ q \in V /\ q \notin U
    BY <1>1, <1>3
  <2>2. IsFiniteSet(V)
    <3>1. V \in SUBSET P
      OBVIOUS
    <3> QED
      BY <1>1, <3>1, FS_Subset
  <2> HIDE DEF U, V
  <2>3. Cardinality(U) < Cardinality(V)
    BY <2>1, <2>2, Fewer
  <2> QED
    BY <2>3 DEF U, V
<1>4. ASSUME NEW q \in P, NEW r \in P, Rank(q) = Rank(r)
      PROVE  q = r
  <2>1. ~(q < r) /\ ~(r < q)
    BY <1>2, <1>3, <1>4
  <2> QED
    BY <1>1, <2>1
<1>5. PinCount(s) \in Nat /\ Cardinality(P) \in Nat
  BY <1>1, FS_CardinalityType DEF PinCount
<1>6. CASE PinAirs(s) /\ n = 0
  BY <1>6 DEF Placed
<1>7. CASE ~(PinAirs(s) /\ n = 0)
  <2>1. ASSUME NEW c, Placed(s, n, c)
        PROVE  \/ \E r \in P : c = Track(r) /\ n = PinCount(s) + Rank(r)
               \/ c = Unknown /\ n >= PinCount(s) + Cardinality(P)
    BY <1>7, <2>1 DEF Placed
  <2> HIDE DEF P, Rank
  <2>2. CASE \E q \in P, r \in P : /\ a = Track(q) /\ n = PinCount(s) + Rank(q)
                                   /\ b = Track(r) /\ n = PinCount(s) + Rank(r)
    <3>1. PICK q \in P, r \in P : /\ a = Track(q) /\ n = PinCount(s) + Rank(q)
                                  /\ b = Track(r) /\ n = PinCount(s) + Rank(r)
      BY <2>2
    <3>2. Rank(q) = Rank(r)
      BY <1>2, <1>5, <3>1
    <3> QED
      BY <1>4, <3>1, <3>2
  <2>3. ASSUME NEW r \in P, n = PinCount(s) + Rank(r), n >= PinCount(s) + Cardinality(P)
        PROVE  FALSE
    BY <1>2, <1>5, <2>3
  <2> QED
    BY <2>1, <2>2, <2>3
<1> QED
  BY <1>6, <1>7

\* The pin airs first: the rows after it are all there.
LEMMA PinNext ==
  ASSUME NEW s \in Snapshot, NEW rows, NEW left, NEW waits, NEW spent, NEW n \in Nat,
         QueueLeft(s, rows, waits, n), waits, ~spent,
         left \subseteq rows, s.nextUp.row \notin left, Playable(s) \cap rows \subseteq left
  PROVE  Placed(s, n, Track(s.nextUp.row)) /\ QueueLeft(s, left, spent, n + 1)
<1>1. PinAirs(s) /\ rows = ReadyRows(s) /\ n = 0 /\ PinCount(s) = 1
  BY DEF QueueLeft, PinCount
<1>2. Playable(s) \ left = {}
  BY <1>1, PlayableRows
<1>3. Cardinality(Playable(s) \ left) = 0
  BY <1>2, FS_EmptySet
<1> QED
  BY <1>1, <1>2, <1>3 DEF Placed, QueueLeft

\* The head of the rows that are playable is next.
LEMMA HeadNext ==
  ASSUME NEW s \in Snapshot, NEW rows, NEW left, NEW waits, NEW spent, NEW n \in Nat,
         QueueLeft(s, rows, waits, n), ~waits, ~spent,
         NEW head \in Playable(s) \cap rows, \A q \in Playable(s) \cap rows : head <= q,
         left \subseteq rows, Playable(s) \cap left = (Playable(s) \cap rows) \ {head}
  PROVE  Placed(s, n, Track(head)) /\ QueueLeft(s, left, spent, n + 1)
<1> DEFINE P == Playable(s)
<1>1. IsFiniteSet(P) /\ P \subseteq Nat
  BY PlayableRows
<1>2. /\ rows \subseteq ReadyRows(s)
      /\ PinAirs(s) => s.nextUp.row \notin rows
      /\ \A q \in P \cap rows, r \in P : q < r => r \in rows
      /\ n = PinCount(s) + Cardinality(P \ rows)
  BY DEF QueueLeft
<1> HIDE DEF P
<1>3. head \in P /\ head \in rows /\ (\A q \in P \cap rows : head <= q)
      /\ P \cap left = (P \cap rows) \ {head}
  BY DEF P
<1>4. {q \in P : q < head} = P \ rows
  <2>1. ASSUME NEW q \in P, q < head
        PROVE  q \notin rows
    BY <1>1, <1>3, <2>1
  <2>2. ASSUME NEW q \in P, q \notin rows
        PROVE  q < head
    <3>1. ~(head < q) /\ q # head
      BY <1>2, <1>3, <2>2
    <3> QED
      BY <1>1, <1>3, <3>1
  <2> QED
    BY <2>1, <2>2
<1>5. Cardinality(P \ left) = Cardinality(P \ rows) + 1
  <2>1. P \ left = (P \ rows) \cup {head} /\ head \notin P \ rows
    BY <1>3
  <2>2. IsFiniteSet(P \ rows)
    BY <1>1, FS_Subset
  <2> QED
    BY <2>1, <2>2, FS_AddElement
<1>6. PinCount(s) \in Nat /\ Cardinality(P \ rows) \in Nat
  <2>1. IsFiniteSet(P \ rows)
    BY <1>1, FS_Subset
  <2> QED
    BY <2>1, FS_CardinalityType DEF PinCount
<1>7. Placed(s, n, Track(head))
  <2>1. n = PinCount(s) + Cardinality({q \in P : q < head})
    BY <1>2, <1>4
  <2>2. ~(PinAirs(s) /\ n = 0)
    BY <1>2, <1>6 DEF PinCount
  <2> QED
    BY <1>3, <2>1, <2>2 DEF Placed, P
<1>8. \A q \in P \cap left, r \in P : q < r => r \in left
  <2> SUFFICES ASSUME NEW q \in P, q \in left, NEW r \in P, q < r
               PROVE  r \in left
    OBVIOUS
  <2>1. q \in rows /\ head <= q
    BY <1>3
  <2>2. r \in rows /\ r # head
    BY <1>1, <1>2, <1>3, <2>1
  <2> QED
    BY <1>3, <2>2
<1>9. n + 1 = PinCount(s) + Cardinality(P \ left) /\ Cardinality(P \ left) \in Nat
  BY <1>2, <1>5, <1>6
<1>10. QueueLeft(s, left, spent, n + 1)
  <2>1. left \subseteq ReadyRows(s) /\ (PinAirs(s) => s.nextUp.row \notin left)
    BY <1>2
  <2>2. n + 1 >= PinCount(s) + Cardinality(P \ left)
    BY <1>6, <1>9
  <2> QED
    BY <1>8, <1>9, <2>1, <2>2 DEF QueueLeft, P
<1> QED
  BY <1>7, <1>10

\* With nothing playable left, nobody can name what is next.
LEMMA UnknownNext ==
  ASSUME NEW s \in Snapshot, NEW rows, NEW left, NEW waits, NEW spent, NEW n \in Nat,
         QueueLeft(s, rows, waits, n), ~waits, ~spent,
         Playable(s) \cap rows = {}, left \subseteq rows
  PROVE  Placed(s, n, Unknown) /\ QueueLeft(s, left, spent, n + 1)
<1> DEFINE P == Playable(s)
<1>1. P \ rows = P /\ P \ left = P /\ P \cap left = {}
  OBVIOUS
<1>2. n >= PinCount(s) + Cardinality(P)
  BY <1>1 DEF QueueLeft
<1>3. PinCount(s) \in Nat /\ Cardinality(P) \in Nat
  BY PlayableRows, FS_CardinalityType DEF PinCount
<1>4. Placed(s, n, Unknown)
  <2>1. ~(PinAirs(s) /\ n = 0)
    BY <1>2, <1>3 DEF PinCount
  <2> QED
    BY <1>2, <2>1 DEF Placed
<1>5. n + 1 >= PinCount(s) + Cardinality(P \ left)
  BY <1>1, <1>2, <1>3
<1> QED
  BY <1>1, <1>4, <1>5 DEF QueueLeft

\* A row that cannot be played makes room for the next one.
LEMMA DropNext ==
  ASSUME NEW s, NEW rows, NEW waits, NEW n, QueueLeft(s, rows, waits, n), ~waits,
         NEW row, row \notin Playable(s)
  PROVE  QueueLeft(s, rows \ {row}, waits, n)
<1>1. Playable(s) \ (rows \ {row}) = Playable(s) \ rows
      /\ Playable(s) \cap (rows \ {row}) = Playable(s) \cap rows
  OBVIOUS
<1> QED
  BY <1>1 DEF QueueLeft

-----------------------------------------------------------------------------
(* The clock.                                                               *)

\* Timers that elapse change neither the count of tracks nor a forced break.
LEMMA ElapseKeeps ==
  ASSUME NEW c \in CadenceState, NEW timers
  PROVE  /\ Elapse(c, timers) \in CadenceState
         /\ Elapse(c, timers).finished = c.finished
         /\ Elapse(c, timers).forced = c.forced
         /\ Elapse(c, timers).music = c.music
<1> DEFINE id == IF c.stationID = "running" /\ "stationID" \in timers
                 THEN "elapsed" ELSE c.stationID
<1> DEFINE muse == IF c.musing = "running" /\ "musing" \in timers
                   THEN "elapsed" ELSE c.musing
<1> DEFINE day == c.daypart /\ "daypart" \notin timers
<1>1. id \in Timer /\ muse \in Timer
  BY DEF CadenceState, Timer
<1>2. day \in BOOLEAN
  BY DEF CadenceState
<1>3. Elapse(c, timers) = [c EXCEPT !.stationID = id, !.musing = muse, !.daypart = day]
  BY DEF Elapse
<1> HIDE DEF id, muse, day
<1> QED
  BY <1>1, <1>2, <1>3 DEF CadenceState

\* A track adds at most one to the count; a break resets it or leaves it, a seam resets it.
LEMMA AdvanceKeeps ==
  ASSUME NEW c \in CadenceState
  PROVE  /\ AdvanceMusic(c) \in CadenceState
         /\ AdvanceMusic(c).finished \in {c.finished, c.finished + 1}
         /\ AdvanceMusic(c).forced = c.forced
         /\ \A kind \in Kinds :
               /\ Advance(c, kind) \in CadenceState
               /\ Advance(c, kind).finished \in {0, c.finished}
               /\ Advance(c, kind).forced => c.forced
         /\ Advance(c, Seam).finished = 0
         /\ ~Advance(c, Seam).forced
<1>1. /\ AdvanceMusic(c) \in CadenceState
      /\ AdvanceMusic(c).finished \in {c.finished, c.finished + 1}
      /\ AdvanceMusic(c).forced = c.forced
  <2> DEFINE n == IF c.finished < BreakEvery THEN c.finished + 1 ELSE c.finished
  <2>1. n \in 0..BreakEvery /\ n \in {c.finished, c.finished + 1}
    BY CadenceAssumption DEF CadenceState
  <2>2. AdvanceMusic(c) = [c EXCEPT !.finished = n, !.music = TRUE]
    BY DEF AdvanceMusic
  <2> HIDE DEF n
  <2> QED
    BY <2>1, <2>2 DEF CadenceState
<1> DEFINE reset == [c EXCEPT !.finished = 0]
<1>2. reset \in CadenceState /\ reset.finished = 0 /\ reset.forced = c.forced
  BY CadenceAssumption DEF CadenceState
<1>3. /\ Advance(c, Seam) = [reset EXCEPT !.forced = FALSE]
      /\ \A kind \in Kinds :
            Advance(c, kind) \in
               {[c EXCEPT !.stationID = "running"], [reset EXCEPT !.forced = FALSE],
                [reset EXCEPT !.musing = "running"], [reset EXCEPT !.daypart = FALSE],
                [reset EXCEPT !.wake = FALSE]}
  BY DEF Advance, Kinds, NoKind, StationID, Seam, Musing, DaypartTransition, WakeGreeting
<1> HIDE DEF reset
<1>4. Advance(c, Seam).finished = 0 /\ ~Advance(c, Seam).forced
  BY <1>2, <1>3 DEF CadenceState
<1>5. ASSUME NEW kind \in Kinds
      PROVE  /\ Advance(c, kind) \in CadenceState
             /\ Advance(c, kind).finished \in {0, c.finished}
             /\ Advance(c, kind).forced => c.forced
  <2>1. ASSUME NEW d \in {[c EXCEPT !.stationID = "running"], [reset EXCEPT !.forced = FALSE],
                          [reset EXCEPT !.musing = "running"],
                          [reset EXCEPT !.daypart = FALSE], [reset EXCEPT !.wake = FALSE]}
        PROVE  d \in CadenceState /\ d.finished \in {0, c.finished} /\ (d.forced => c.forced)
    <3>1. CASE d = [c EXCEPT !.stationID = "running"]
      BY <3>1 DEF CadenceState, Timer
    <3>2. CASE d = [reset EXCEPT !.forced = FALSE]
      BY <1>2, <3>2 DEF CadenceState
    <3>3. CASE d = [reset EXCEPT !.musing = "running"]
      BY <1>2, <3>3 DEF CadenceState, Timer
    <3>4. CASE d = [reset EXCEPT !.daypart = FALSE]
      BY <1>2, <3>4 DEF CadenceState
    <3>5. CASE d = [reset EXCEPT !.wake = FALSE]
      BY <1>2, <3>5 DEF CadenceState
    <3> QED
      BY <3>1, <3>2, <3>3, <3>4, <3>5
  <2> QED
    BY <1>3, <2>1
<1> QED
  BY <1>1, <1>4, <1>5

\* The pin and the rows of the station, and its clip, as a snapshot has them.
LEMMA SnapshotTypes ==
  ASSUME NEW s \in Snapshot
  PROVE  /\ s.cad \in CadenceState /\ s.nextUp \in NextUps
         /\ s.clip \in Kinds \cup {NoKind} /\ s.fresh \in BOOLEAN
         /\ s.airing \in {"none", "track", "break"}
         /\ ReadyRows(s) \subseteq QueueRows
BY DEF Snapshot, ReadyRows

\* The items of the two lists.
LEMMA NothingTypes == NothingNext \in NextUps /\ Unknown \in Segment
                      /\ (\A r \in QueueRows \cup {NoRow} : Track(r) \in Segment)
                      /\ (\A k \in Kinds : Break(k) \in Segment)
BY DEF NothingNext, NextUps, NoRow, Unknown, Segment, Track, Break

\* What Take hands over is a break.
LEMMA SlotKinds ==
  ASSUME OrderInv, StationTypes
  PROVE  /\ Slot \in Kinds \cup {NoKind}
         /\ ahead.clip = NoKind /\ Slot # NoKind => Slot = DueKind(ahead.cad)
         /\ Finished(ahead.cad) \in CadenceState
<1>1. ahead.clip \in Kinds \cup {NoKind} /\ ahead.cad \in CadenceState
  BY DEF StationTypes, Ahead
<1>2. DueKind(ahead.cad) \in Kinds \cup {NoKind}
  BY LadderKinds
<1>3. Finished(ahead.cad) \in CadenceState
  BY <1>1, AdvanceKeeps DEF Finished
<1> QED
  BY <1>1, <1>2, <1>3 DEF Slot

-----------------------------------------------------------------------------
(* What each step does, in one place.                                       *)

\* A track starts on the station.
LEMMA StartsTypes ==
  ASSUME OrderInv, StationTypes, StationTurn, NEW segment \in Segment,
         NEW row, TrackStarts(segment, row)
  PROVE  /\ StationTypes' /\ UNCHANGED <<snap, walk, upcoming>>
         /\ ahead'.cad = ahead.cad /\ ahead'.pc = "seam" /\ ahead'.airing = "track"
         /\ ahead'.clip = ahead.clip /\ ahead'.fresh = (ahead.clip # Seam)
         /\ ahead'.ready = ahead.ready \ {row}
         /\ ahead'.nextUp.set = ahead'.rolled
         /\ ahead'.rolled => ahead'.nextUp.known /\ ahead'.nextUp.row = NoRow
                             /\ ahead'.ready = {}
         /\ aired' = Append(aired, segment)
<1> DEFINE ready == ahead.ready \ {row}
<1> DEFINE alone == ready \cup StagingRows(snap) = {}
<1> DEFINE pin == [NothingNext EXCEPT !.set = alone, !.known = alone]
<1>1. /\ aired' = Append(aired, segment)
      /\ ahead' = [ahead EXCEPT !.pc = "seam", !.airing = "track", !.ready = ready,
                                !.fresh = ahead.clip # Seam, !.rolled = alone,
                                !.nextUp = pin]
      /\ UNCHANGED <<snap, walk, upcoming>>
  BY DEF TrackStarts
<1>2. alone \in BOOLEAN /\ (ahead.clip # Seam) \in BOOLEAN
  OBVIOUS
<1>3. alone => ready = {}
  OBVIOUS
<1>4. ahead \in Ahead /\ ready \subseteq QueueRows
  BY DEF StationTypes, Ahead
<1> HIDE DEF alone, ready
<1>5. pin \in NextUps /\ pin.set = alone /\ pin.known = alone /\ pin.row = NoRow
  BY <1>2, NothingTypes DEF NextUps, NothingNext
<1> HIDE DEF pin
<1>6. ahead' \in Ahead
  BY <1>1, <1>2, <1>4, <1>5 DEF Ahead
<1>7. /\ ahead'.cad = ahead.cad /\ ahead'.pc = "seam" /\ ahead'.airing = "track"
      /\ ahead'.clip = ahead.clip /\ ahead'.fresh = (ahead.clip # Seam)
      /\ ahead'.ready = ready /\ ahead'.nextUp = pin /\ ahead'.rolled = alone
  BY <1>1, <1>4 DEF Ahead
<1>8. aired' \in Seq(Segment) /\ Len(aired') = Len(aired) + 1
  BY <1>1 DEF StationTypes
<1>9. Len(aired) \in Nat /\ Len(upcoming) \in Nat /\ Len(aired) < Len(upcoming)
  BY DEF StationTypes, StationTurn, OrderInv, WalkTypes
<1>10. StationTypes'
  BY <1>1, <1>6, <1>8, <1>9 DEF StationTypes
<1> QED
  BY <1>1, <1>3, <1>5, <1>7, <1>10 DEF ready

\* A list with one more item, which has its place if it is a track.
LEMMA OrderedMore ==
  ASSUME NEW s, NEW old, NEW new, NEW n \in Nat, Len(old) = n, Len(new) = n + 1,
         \A k \in 1..n : new[k] = old[k], InOrder(s, old),
         ~IsBreak(new[n + 1]) => Placed(s, Depth(old), new[n + 1])
  PROVE  /\ InOrder(s, new)
         /\ Depth(new) = Depth(old) + (IF IsBreak(new[n + 1]) THEN 0 ELSE 1)
         /\ Depth(old) \in Nat
<1>1. Depth(new) = Depth(old) + (IF IsBreak(new[n + 1]) THEN 0 ELSE 1)
  <2>1. Depth(new) = TrackCount(new, 1, n + 1) /\ Depth(old) = TrackCount(old, 1, n)
    BY DEF Depth
  <2>2. 1 \in 1..(n + 1)
    OBVIOUS
  <2>3. TrackCount(new, 1, n + 1) =
           TrackCount(old, 1, n) + (IF IsBreak(new[n + 1]) THEN 0 ELSE 1)
    BY <2>2, CountSuffix
  <2> QED
    BY <2>1, <2>3
<1>2. Depth(old) \in Nat
  <2>1. Depth(old) = TrackCount(old, 1, n)
    BY DEF Depth
  <2>2. 1 \in Int /\ n \in Int
    OBVIOUS
  <2>3. TrackCount(old, 1, n) \in Nat
    BY <2>2, CountedRows
  <2> QED
    BY <2>1, <2>3
<1>3. ASSUME NEW i \in 1..(n + 1), ~IsBreak(new[i])
      PROVE  Placed(s, TrackCount(new, 1, i - 1), new[i])
  <2>1. TrackCount(new, 1, i - 1) = TrackCount(old, 1, i - 1)
    <3>1. i - 1 \in Int /\ \A k \in 1..(i - 1) : new[k] = old[k]
      OBVIOUS
    <3> QED
      BY <3>1, CountSame
  <2>2. CASE i \in 1..n
    BY <1>3, <2>1, <2>2 DEF InOrder
  <2>3. CASE i = n + 1
    BY <1>3, <2>1, <2>3 DEF Depth
  <2> QED
    BY <2>2, <2>3
<1> QED
  BY <1>1, <1>2, <1>3 DEF InOrder

\* The running order, item by item.
LEMMA OrderItems ==
  ASSUME WalkTypes
  PROVE  Len(Order) = Len(upcoming) /\ Len(upcoming) \in Nat
         /\ \A i \in 1..Len(upcoming) : Order[i] = Shown(i)
BY DEF WalkTypes, Order, Shown

\* What is shown is added at the end.
LEMMA OrderGrows ==
  ASSUME WalkTypes, NEW segment \in Segment, NEW certainty \in Certainties,
         Emit(segment, certainty)
  PROVE  /\ Len(upcoming') = Len(upcoming) + 1 /\ Len(upcoming) \in Nat
         /\ Len(Order) = Len(upcoming) /\ Len(Order') = Len(upcoming')
         /\ \A i \in 1..Len(upcoming) : Order'[i] = Order[i] /\ upcoming'[i] = upcoming[i]
         /\ Order'[Len(upcoming) + 1] = segment
         /\ upcoming'[Len(upcoming) + 1].item = segment
<1> DEFINE n == Len(upcoming)
<1>1. /\ n \in Nat /\ Len(upcoming') = n + 1
      /\ \A i \in 1..n : upcoming'[i] = upcoming[i]
      /\ upcoming'[n + 1] = [item |-> segment, certainty |-> certainty]
  BY Emitted
<1>2. Order = [i \in 1..n |-> upcoming[i].item]
      /\ Order' = [i \in 1..(n + 1) |-> upcoming'[i].item]
  BY <1>1 DEF Order
<1> HIDE DEF n
<1>3. Len(Order) = n /\ Len(Order') = n + 1
  BY <1>1, <1>2
<1>4. \A i \in 1..n : Order'[i] = Order[i]
  BY <1>1, <1>2
<1>5. Order'[n + 1] = segment
  BY <1>1, <1>2
<1> QED
  BY <1>1, <1>3, <1>4, <1>5 DEF n

\* The walk's two steps and the clock beside them.
WalkStep(timers) ==
    /\ UNCHANGED <<snap, aired>>
    /\ ahead' = [ahead EXCEPT !.cad = Elapse(@, timers)]

\* A step of the walk: of the station only the timers change.
LEMMA WalkStepTypes ==
  ASSUME OrderInv, StationTypes, NEW timers, WalkStep(timers), WalkTurn,
         walk'.cad \in CadenceState, Len(upcoming') = Len(upcoming) + 1
  PROVE  /\ StationTypes'
         /\ ahead'.cad = Elapse(ahead.cad, timers) /\ ahead.cad \in CadenceState
         /\ ahead'.pc = ahead.pc /\ ahead'.clip = ahead.clip /\ ahead'.fresh = ahead.fresh
         /\ ahead'.airing = ahead.airing /\ ahead'.nextUp = ahead.nextUp
         /\ ahead'.rolled = ahead.rolled /\ ahead'.ready = ahead.ready
         /\ aired' = aired /\ snap' = snap
         /\ Len(aired) = Len(upcoming) /\ Len(upcoming) \in Nat
<1>1. ahead \in Ahead /\ ahead.cad \in CadenceState
  BY DEF StationTypes, Ahead
<1>2. Elapse(ahead.cad, timers) \in CadenceState
  BY <1>1, ElapseKeeps
<1>3. ahead' \in Ahead
  BY <1>1, <1>2 DEF WalkStep, Ahead
<1>4. /\ ahead'.cad = Elapse(ahead.cad, timers)
      /\ ahead'.pc = ahead.pc /\ ahead'.clip = ahead.clip /\ ahead'.fresh = ahead.fresh
      /\ ahead'.airing = ahead.airing /\ ahead'.nextUp = ahead.nextUp
      /\ ahead'.rolled = ahead.rolled /\ ahead'.ready = ahead.ready
  BY <1>1 DEF WalkStep, Ahead
<1>5. aired' = aired /\ snap' = snap /\ Len(aired) = Len(upcoming) /\ Len(upcoming) \in Nat
      /\ Len(upcoming) < MaxSegments /\ MaxSegments \in Nat
  BY TimelineAssumption DEF WalkStep, WalkTurn, OrderInv, WalkTypes
<1>6. StationTypes'
  BY <1>3, <1>5 DEF StationTypes
<1> QED
  BY <1>1, <1>4, <1>5, <1>6

\* A break: one the seam's arm names.
LEMMA BreakShown ==
  ASSUME OrderInv, StationTypes, NEW timers, ProjectBreak(timers)
  PROVE  \E kind \in Kinds, certainty \in Certainties :
            /\ kind = SeamArm(Elapse(walk.cad, timers))[1]
            /\ Emit(Break(kind), certainty) /\ Break(kind) \in Segment
            /\ IsBreak(Break(kind))
            /\ WalkStep(timers) /\ WalkTurn
            /\ walk'.ready = walk.ready /\ walk'.nextUp = walk.nextUp
            /\ walk'.cad \in CadenceState
<1> DEFINE arm == SeamArm(Elapse(walk.cad, timers))
<1>1. /\ WalkTurn /\ arm[1] # NoKind /\ Emit(Break(arm[1]), arm[2])
      /\ walk' = [walk EXCEPT !.cad = Advance(Elapse(walk.cad, timers), arm[1]),
                              !.lastWasBreak = TRUE, !.first = FALSE]
      /\ WalkStep(timers)
  BY DEF ProjectBreak, WalkStep
<1>2. arm[1] \in Kinds /\ arm[2] \in Certainties
  <2>1. /\ arm[1] \in Kinds \cup {NoKind}
        /\ arm[2] \in {"prepared", "due"}
    BY SeamArms DEF OrderInv
  <2> HIDE DEF arm
  <2> QED
    BY <1>1, <2>1 DEF Certainties
<1> HIDE DEF arm
<1>3. Advance(Elapse(walk.cad, timers), arm[1]) \in CadenceState
  BY <1>2, ElapseKeeps, AdvanceKeeps DEF StationTypes
<1>4. walk'.ready = walk.ready /\ walk'.nextUp = walk.nextUp /\ walk'.cad \in CadenceState
  BY <1>1, <1>3 DEF OrderInv, WalkTypes
<1>5. Break(arm[1]) \in Segment /\ IsBreak(Break(arm[1]))
  BY <1>2, NothingTypes DEF Break, IsBreak
<1> QED
  BY <1>1, <1>2, <1>4, <1>5 DEF arm

\* A track, or a block nobody can name.
LEMMA MusicShown ==
  ASSUME OrderInv, StationTypes, WalkMusic, NEW timers, ProjectMusic(timers)
  PROVE  \E item \in Segment, certainty \in Certainties :
            /\ Emit(item, certainty) /\ ~IsBreak(item)
            /\ Placed(snap, Depth(Order), item)
            /\ QueueLeft(snap, walk'.ready, PinAirs(snap) /\ walk'.nextUp.set,
                         Depth(Order) + 1)
            /\ WalkStep(timers) /\ WalkTurn
            /\ SeamArm(Elapse(walk.cad, timers))[1] = NoKind
            /\ walk'.cad = AdvanceMusic(Elapse(walk.cad, timers))
            /\ ~walk'.lastWasBreak /\ ~walk'.first
            /\ walk'.cad \in CadenceState
<1> DEFINE c == Elapse(walk.cad, timers)
<1> DEFINE pinned == walk.nextUp.set /\ PinAirs(snap)
<1> DEFINE playable == walk.ready \cap snap.known
<1> DEFINE row == IF pinned THEN snap.nextUp.row ELSE HeadRow(playable)
<1> DEFINE left == IF pinned THEN walk.ready \ {row}
                   ELSE IF playable # {} THEN {r \in walk.ready : r > row} ELSE {}
<1>1. /\ WalkTurn /\ WalkStep(timers)
      /\ SeamArm(c)[1] = NoKind
      /\ \/ pinned /\ Emit(Track(row), "committed")
         \/ ~pinned /\ playable # {} /\ Emit(Track(row), "projected")
         \/ ~pinned /\ playable = {} /\ Emit(Unknown, "unknown")
      /\ walk' = [AfterMusic(left) EXCEPT !.cad = AdvanceMusic(c)]
  BY DEF ProjectMusic, WalkStep
<1>2. snap \in Snapshot /\ walk.ready \subseteq QueueRows
  BY DEF OrderInv, WalkTypes
<1> DEFINE waits == PinAirs(snap) /\ walk.nextUp.set
<1> DEFINE n == Depth(Order)
<1>3. QueueLeft(snap, walk.ready, waits, n) /\ n \in Nat
  <2>1. n \in Nat
    <3>1. 1 \in Int /\ Len(Order) \in Int
      BY OrderItems DEF OrderInv
    <3>2. TrackCount(Order, 1, Len(Order)) \in Nat
      BY <3>1, CountedRows
    <3> QED
      BY <3>2 DEF Depth
  <2> QED
    BY <2>1 DEF WalkMusic
<1>4. pinned <=> waits
  OBVIOUS
<1>5. /\ walk'.ready = left /\ walk'.nextUp = NothingNext
      /\ walk'.cad = AdvanceMusic(c) /\ ~walk'.lastWasBreak /\ ~walk'.first
  <2> HIDE DEF left, c
  <2> QED
    BY <1>1 DEF AfterMusic, OrderInv, WalkTypes
<1>6. AdvanceMusic(c) \in CadenceState
  BY ElapseKeeps, AdvanceKeeps DEF StationTypes
<1> DEFINE spent == PinAirs(snap) /\ walk'.nextUp.set
<1>7. ~spent
  BY <1>5 DEF NothingNext
<1>8. {"committed", "projected", "unknown"} \subseteq Certainties
  BY DEF Certainties
<1>9. ASSUME NEW r \in QueueRows \cup {NoRow}
      PROVE  Track(r) \in Segment /\ ~IsBreak(Track(r))
  BY <1>9, NothingTypes
     DEF Track, IsBreak, Kinds, StationID, Seam, Musing, DaypartTransition, WakeGreeting
<1>10. Unknown \in Segment /\ ~IsBreak(Unknown)
  BY NothingTypes
     DEF Unknown, IsBreak, Kinds, StationID, Seam, Musing, DaypartTransition, WakeGreeting
<1>11. \E item \in Segment, certainty \in Certainties :
          /\ Emit(item, certainty) /\ ~IsBreak(item)
          /\ Placed(snap, n, item) /\ QueueLeft(snap, left, spent, n + 1)
  <2>1. CASE pinned
    <3>1. row = snap.nextUp.row /\ left = walk.ready \ {row} /\ Emit(Track(row), "committed")
      BY <1>1, <2>1
    <3>2. row \in QueueRows \cup {NoRow}
      BY <1>2, <3>1, SnapshotTypes DEF NextUps
    <3>3. row \notin Playable(snap)
      BY <2>1, <3>1 DEF Playable
    <3> HIDE DEF row, left, n
    <3>4. Placed(snap, n, Track(row)) /\ QueueLeft(snap, left, spent, n + 1)
      <4>1. left \subseteq walk.ready /\ snap.nextUp.row \notin left
            /\ Playable(snap) \cap walk.ready \subseteq left
        BY <3>1, <3>3
      <4> HIDE DEF waits, spent
      <4> QED
        BY <1>2, <1>3, <1>4, <1>7, <2>1, <3>1, <4>1, PinNext
    <3> QED
      BY <1>8, <1>9, <3>1, <3>2, <3>4
  <2>2. ASSUME ~pinned
        PROVE  Playable(snap) \cap walk.ready = playable
    <3>1. PinAirs(snap) => snap.nextUp.row \notin walk.ready
      BY <1>3, <2>2 DEF QueueLeft
    <3>2. walk.ready \subseteq ReadyRows(snap)
      BY <1>3 DEF QueueLeft
    <3> QED
      BY <3>1, <3>2 DEF Playable
  <2>3. CASE ~pinned /\ playable # {}
    <3>1. row = HeadRow(playable) /\ left = {r \in walk.ready : r > row}
          /\ Emit(Track(row), "projected")
      BY <1>1, <2>3
    <3>2. row \in playable /\ \A q \in playable : row <= q
      BY <1>2, <2>3, <3>1, HeadOfRows
    <3>3. Playable(snap) \cap walk.ready = playable
      BY <2>2, <2>3
    <3>4. Playable(snap) \subseteq Nat
      BY <1>2, PlayableRows
    <3> HIDE DEF row, left, n, playable
    <3>5. Playable(snap) \cap left = (Playable(snap) \cap walk.ready) \ {row}
          /\ left \subseteq walk.ready
      <4>1. ASSUME NEW q \in Playable(snap) \cap walk.ready
            PROVE  q > row <=> q # row
        BY <3>2, <3>3, <3>4
      <4>2. \A q \in Playable(snap) : q \in left <=> q \in walk.ready /\ q # row
        BY <3>1, <4>1
      <4>3. \A q : q \in Playable(snap) \cap left <=>
                   q \in (Playable(snap) \cap walk.ready) \ {row}
        BY <4>2
      <4> QED
        BY <3>1, <4>3
    <3>6. Placed(snap, n, Track(row)) /\ QueueLeft(snap, left, spent, n + 1)
      <4> HIDE DEF waits, spent
      <4> QED
        BY <1>2, <1>3, <1>4, <1>7, <2>3, <3>2, <3>3, <3>5, HeadNext
    <3>7. row \in QueueRows
      BY <1>2, <3>2, <3>3
    <3> QED
      BY <1>8, <1>9, <3>1, <3>6, <3>7
  <2>4. CASE ~pinned /\ playable = {}
    <3>1. left = {} /\ Emit(Unknown, "unknown")
      BY <1>1, <2>4
    <3>2. Playable(snap) \cap walk.ready = {}
      BY <2>2, <2>4
    <3> HIDE DEF left, n, waits, spent
    <3>3. Placed(snap, n, Unknown) /\ QueueLeft(snap, left, spent, n + 1)
      BY <1>2, <1>3, <1>4, <1>7, <2>4, <3>1, <3>2, UnknownNext
    <3> QED
      BY <1>8, <1>10, <3>1, <3>3
  <2> QED
    BY <2>1, <2>3, <2>4
<1> HIDE DEF left, n, waits
<1> QED
  BY <1>1, <1>5, <1>6, <1>11 DEF n

\* A break airs, and ends the seam's wait.
LEMMA BreakAirsDoes ==
  ASSUME OrderInv, StationTypes, BreakAirs
  PROVE  /\ StationTypes' /\ UNCHANGED <<snap, walk, upcoming>>
         /\ Slot \in Kinds /\ Break(Slot) \in Segment /\ IsBreak(Break(Slot))
         /\ aired' = Append(aired, Break(Slot))
         /\ ahead'.cad = Advance(Finished(ahead.cad), Slot)
         /\ ahead'.pc = "seam" /\ ahead'.airing = "break" /\ ahead'.clip = NoKind
         /\ ahead'.nextUp = ahead.nextUp /\ ahead'.rolled = ahead.rolled
         /\ ahead'.ready = ahead.ready
<1>1. /\ Slot \in Kinds /\ Finished(ahead.cad) \in CadenceState
      /\ ahead \in Ahead /\ ahead.pc = "seam"
  BY SlotKinds DEF BreakAirs, Taken, StationTypes
<1>2. Break(Slot) \in Segment /\ IsBreak(Break(Slot))
  BY <1>1, NothingTypes DEF Break, IsBreak
<1> DEFINE cad == Advance(Finished(ahead.cad), Slot)
<1>3. cad \in CadenceState
  BY <1>1, AdvanceKeeps
<1>4. /\ ahead' = [ahead EXCEPT !.cad = cad, !.clip = NoKind, !.airing = "break"]
      /\ aired' = Append(aired, Break(Slot))
      /\ UNCHANGED <<snap, walk, upcoming>> /\ StationTurn
  BY DEF BreakAirs
<1> HIDE DEF cad
<1>5. /\ ahead' \in Ahead
      /\ ahead'.cad = cad
      /\ ahead'.pc = "seam" /\ ahead'.airing = "break" /\ ahead'.clip = NoKind
      /\ ahead'.nextUp = ahead.nextUp /\ ahead'.rolled = ahead.rolled
      /\ ahead'.ready = ahead.ready
  BY <1>1, <1>3, <1>4 DEF Ahead
<1>6. aired' \in Seq(Segment) /\ Len(aired') = Len(aired) + 1
  BY <1>2, <1>4 DEF StationTypes
<1>7. Len(aired) \in Nat /\ Len(upcoming) \in Nat /\ Len(aired) < Len(upcoming)
  BY <1>4 DEF StationTypes, StationTurn, OrderInv, WalkTypes
<1>8. StationTypes'
  BY <1>4, <1>5, <1>6, <1>7 DEF StationTypes
<1> QED
  BY <1>1, <1>2, <1>4, <1>5, <1>8 DEF cad

\* The item ends, and no break comes.
LEMMA NoBreakAirsDoes ==
  ASSUME OrderInv, StationTypes, NoBreakAirs
  PROVE  /\ StationTypes' /\ UNCHANGED <<snap, walk, upcoming, aired>>
         /\ ahead'.cad = Finished(ahead.cad)
         /\ ahead.pc = "seam" /\ ahead'.pc = "plan"
         /\ ahead'.clip = (IF ahead.airing = "break" THEN ahead.clip ELSE NoKind)
         /\ ahead'.airing = ahead.airing /\ ahead'.fresh = ahead.fresh
         /\ ahead'.nextUp = ahead.nextUp /\ ahead'.rolled = ahead.rolled
         /\ ahead'.ready = ahead.ready
<1> DEFINE cad == Finished(ahead.cad)
<1> DEFINE clip == IF ahead.airing = "break" THEN ahead.clip ELSE NoKind
<1>1. cad \in CadenceState /\ ahead \in Ahead
  BY SlotKinds DEF StationTypes
<1>2. clip \in Kinds \cup {NoKind}
  BY <1>1 DEF Ahead
<1>3. /\ ahead' = [ahead EXCEPT !.cad = cad, !.pc = "plan", !.clip = clip]
      /\ UNCHANGED <<snap, walk, upcoming, aired>> /\ ahead.pc = "seam"
  BY DEF NoBreakAirs
<1> HIDE DEF cad, clip
<1>4. /\ ahead' \in Ahead
      /\ ahead'.cad = cad /\ ahead'.pc = "plan" /\ ahead'.clip = clip
      /\ ahead'.airing = ahead.airing /\ ahead'.fresh = ahead.fresh
      /\ ahead'.nextUp = ahead.nextUp /\ ahead'.rolled = ahead.rolled
      /\ ahead'.ready = ahead.ready
  BY <1>1, <1>2, <1>3 DEF Ahead
<1>5. StationTypes'
  BY <1>3, <1>4 DEF StationTypes
<1> QED
  BY <1>3, <1>4, <1>5 DEF cad, clip

\* The feed passes over a pin or a request that cannot air.
GoesBy == SkipPin \/ FailRequest

\* A pin is passed over when the snapshot's cannot air, a row when its track is gone.
LEMMA GoesByDoes ==
  ASSUME OrderInv, StationTypes, StationMusic, GoesBy
  PROVE  /\ StationTypes' /\ UNCHANGED <<snap, walk, upcoming, aired>>
         /\ ahead.pc = "plan" /\ StationTurn
         /\ ahead'.cad = ahead.cad /\ ahead'.pc = ahead.pc /\ ahead'.clip = ahead.clip
         /\ ahead'.airing = ahead.airing /\ ahead'.fresh = ahead.fresh
         /\ StationMusic'
<1> DEFINE waits == PinAirs(snap) /\ ahead.nextUp.set /\ ~ahead.rolled
<1>1. ahead \in Ahead /\ snap \in Snapshot
  BY DEF StationTypes, OrderInv, WalkTypes
<1>2. QueueLeft(snap, ahead.ready, waits, Depth(aired)) /\ InOrder(snap, aired)
  BY DEF StationMusic
<1>3. CASE SkipPin
  <2>1. /\ ahead' = [ahead EXCEPT !.nextUp = NothingNext] /\ ahead.nextUp.set
        /\ UNCHANGED <<snap, walk, upcoming, aired>> /\ ahead.pc = "plan" /\ StationTurn
        /\ \/ ~ahead.nextUp.known
           \/ ahead.nextUp.row # NoRow /\ ahead.nextUp.row \notin ahead.ready
    BY <1>3 DEF SkipPin
  <2>2. /\ ahead' \in Ahead
        /\ ahead'.cad = ahead.cad /\ ahead'.pc = ahead.pc /\ ahead'.clip = ahead.clip
        /\ ahead'.airing = ahead.airing /\ ahead'.fresh = ahead.fresh
        /\ ahead'.nextUp = NothingNext /\ ahead'.ready = ahead.ready
        /\ ahead'.rolled = ahead.rolled
    BY <1>1, <2>1, NothingTypes DEF Ahead
  <2>3. ahead'.nextUp.set = FALSE
    BY <2>2 DEF NothingNext
  <2>4. ~ahead.rolled /\ ahead.nextUp = snap.nextUp
    BY <2>1 DEF StationMusic
  <2>5. ~PinAirs(snap)
    <3>1. SUFFICES ASSUME PinAirs(snap) PROVE FALSE
      OBVIOUS
    <3>2. /\ snap.nextUp.known
          /\ snap.nextUp.row # NoRow => snap.pending[snap.nextUp.row] = "ready"
      BY <3>1 DEF PinAirs
    <3>3. ahead.ready = ReadyRows(snap)
      BY <1>2, <2>1, <2>4, <3>1 DEF QueueLeft
    <3>4. snap.nextUp.row \in QueueRows \cup {NoRow}
      BY <1>1, SnapshotTypes DEF NextUps
    <3> QED
      BY <2>1, <2>4, <3>2, <3>3, <3>4 DEF ReadyRows
  <2>6. StationTypes'
    BY <2>1, <2>2 DEF StationTypes
  <2>7. StationMusic'
    BY <1>2, <2>1, <2>2, <2>3, <2>5 DEF StationMusic
  <2> QED
    BY <2>1, <2>2, <2>6, <2>7
<1>4. CASE FailRequest
  <2> DEFINE row == HeadRow(ahead.ready)
  <2>1. /\ ahead' = [ahead EXCEPT !.ready = @ \ {row}] /\ ~ahead.nextUp.set
        /\ UNCHANGED <<snap, walk, upcoming, aired>> /\ ahead.pc = "plan" /\ StationTurn
        /\ row \notin snap.known
    BY <1>4 DEF FailRequest
  <2> HIDE DEF row
  <2>2. ahead.ready \ {row} \in SUBSET QueueRows
    BY <1>1 DEF Ahead
  <2>3. /\ ahead' \in Ahead
        /\ ahead'.cad = ahead.cad /\ ahead'.pc = ahead.pc /\ ahead'.clip = ahead.clip
        /\ ahead'.airing = ahead.airing /\ ahead'.fresh = ahead.fresh
        /\ ahead'.nextUp = ahead.nextUp /\ ahead'.ready = ahead.ready \ {row}
        /\ ahead'.rolled = ahead.rolled
    BY <1>1, <2>1, <2>2 DEF Ahead
  <2>4. row \notin Playable(snap)
    BY <2>1 DEF Playable
  <2>5. QueueLeft(snap, ahead.ready \ {row}, waits, Depth(aired))
    <3>1. ~waits
      BY <2>1
    <3> HIDE DEF waits
    <3> QED
      BY <1>2, <2>4, <3>1, DropNext
  <2>6. StationTypes'
    BY <2>1, <2>3 DEF StationTypes
  <2>7. StationMusic'
    BY <1>2, <2>1, <2>3, <2>5 DEF StationMusic
  <2> QED
    BY <2>1, <2>3, <2>6, <2>7
<1> QED
  BY <1>3, <1>4 DEF GoesBy

\* A track airs: the one whose place it is.
Starts == AirPin \/ AirRequest \/ AirShuffle

\* Pin, head of the queue or shuffle pick: each airs in its place.
LEMMA TrackAirs ==
  ASSUME OrderInv, StationTypes, StationMusic, Starts
  PROVE  \E item \in Segment, row \in QueueRows \cup {NoRow} :
            /\ TrackStarts(item, row) /\ StationTurn /\ ahead.pc = "plan"
            /\ ~IsBreak(item)
            /\ Placed(snap, Depth(aired), item)
            /\ \A spent : ~spent =>
                  QueueLeft(snap, ahead.ready \ {row}, spent, Depth(aired) + 1)
<1> DEFINE n == Depth(aired)
<1> DEFINE waits == PinAirs(snap) /\ ahead.nextUp.set /\ ~ahead.rolled
<1>1. ahead.ready \subseteq QueueRows /\ ahead.nextUp \in NextUps /\ snap \in Snapshot
  BY DEF StationTypes, Ahead, OrderInv, WalkTypes
<1>2. QueueLeft(snap, ahead.ready, waits, n)
  BY DEF StationMusic
<1>3. n \in Nat
  <2>1. 1 \in Int /\ Len(aired) \in Int
    BY DEF StationTypes
  <2>2. TrackCount(aired, 1, Len(aired)) \in Nat
    BY <2>1, CountedRows
  <2> QED
    BY <2>2 DEF Depth
<1>4. ASSUME NEW r \in QueueRows \cup {NoRow}
      PROVE  Track(r) \in Segment /\ ~IsBreak(Track(r))
  BY <1>4, NothingTypes
     DEF Track, IsBreak, Kinds, StationID, Seam, Musing, DaypartTransition, WakeGreeting
<1>5. Unknown \in Segment /\ ~IsBreak(Unknown)
  BY NothingTypes
     DEF Unknown, IsBreak, Kinds, StationID, Seam, Musing, DaypartTransition, WakeGreeting
<1>6. CASE AirPin
  <2> DEFINE row == ahead.nextUp.row
  <2>1. /\ StationTurn /\ ahead.pc = "plan" /\ ahead.nextUp.set /\ ahead.nextUp.known
        /\ row # NoRow => row \in ahead.ready
        /\ TrackStarts(IF ahead.rolled THEN Unknown ELSE Track(row), row)
    BY <1>6 DEF AirPin
  <2>2. row \in QueueRows \cup {NoRow}
    BY <1>1 DEF NextUps
  <2>3. CASE ahead.rolled
    <3>1. ahead.ready = {} /\ ~waits
      BY <2>1, <2>3 DEF StationMusic
    <3>2. Playable(snap) \cap ahead.ready = {} /\ ahead.ready \ {row} \subseteq ahead.ready
      BY <3>1
    <3>3. TrackStarts(Unknown, row)
      BY <2>1, <2>3
    <3> HIDE DEF n, waits, row
    <3>4. ASSUME NEW spent, ~spent
          PROVE  /\ Placed(snap, n, Unknown)
                 /\ QueueLeft(snap, ahead.ready \ {row}, spent, n + 1)
      BY <1>1, <1>2, <1>3, <3>1, <3>2, <3>4, UnknownNext
    <3> QED
      BY <1>5, <2>1, <2>2, <3>3, <3>4 DEF n
  <2>4. CASE ~ahead.rolled
    <3>1. ahead.nextUp = snap.nextUp
      BY <2>1, <2>4 DEF StationMusic
    <3>2. row # NoRow => snap.pending[row] = "ready"
      BY <1>2, <2>1 DEF QueueLeft, ReadyRows
    <3>3. PinAirs(snap) /\ waits
      BY <2>1, <2>4, <3>1, <3>2 DEF PinAirs
    <3>4. row = snap.nextUp.row /\ row \notin Playable(snap)
      BY <3>1, <3>3 DEF Playable
    <3>5. TrackStarts(Track(row), row)
      BY <2>1, <2>4
    <3> HIDE DEF n, waits, row
    <3>6. /\ ahead.ready \ {row} \subseteq ahead.ready
          /\ snap.nextUp.row \notin ahead.ready \ {row}
          /\ Playable(snap) \cap ahead.ready \subseteq ahead.ready \ {row}
      BY <3>4
    <3>7. ASSUME NEW spent, ~spent
          PROVE  /\ Placed(snap, n, Track(row))
                 /\ QueueLeft(snap, ahead.ready \ {row}, spent, n + 1)
      <4>1. Placed(snap, n, Track(snap.nextUp.row))
            /\ QueueLeft(snap, ahead.ready \ {row}, spent, n + 1)
        BY <1>1, <1>2, <1>3, <3>3, <3>6, <3>7, PinNext
      <4> QED
        BY <3>4, <4>1
    <3> QED
      BY <1>4, <2>1, <2>2, <3>5, <3>7 DEF n
  <2> QED
    BY <2>3, <2>4
<1>7. CASE AirRequest
  <2> DEFINE row == HeadRow(ahead.ready)
  <2>1. /\ StationTurn /\ ahead.pc = "plan" /\ ~ahead.nextUp.set /\ row \in snap.known
        /\ TrackStarts(Track(row), row) /\ ahead.ready # {}
    BY <1>7 DEF AirRequest
  <2>2. row \in ahead.ready /\ \A q \in ahead.ready : row <= q
    BY <1>1, <2>1, HeadOfRows
  <2>3. ~waits
    BY <2>1
  <2>4. row \in Playable(snap) \cap ahead.ready
    <3>1. /\ ahead.ready \subseteq ReadyRows(snap)
          /\ PinAirs(snap) => snap.nextUp.row \notin ahead.ready
      BY <1>2, <2>3 DEF QueueLeft
    <3> QED
      BY <2>1, <2>2, <3>1 DEF Playable
  <2> HIDE DEF n, waits, row
  <2>5. /\ ahead.ready \ {row} \subseteq ahead.ready
        /\ Playable(snap) \cap (ahead.ready \ {row}) =
              (Playable(snap) \cap ahead.ready) \ {row}
        /\ \A q \in Playable(snap) \cap ahead.ready : row <= q
    BY <2>2
  <2>6. ASSUME NEW spent, ~spent
        PROVE  /\ Placed(snap, n, Track(row))
               /\ QueueLeft(snap, ahead.ready \ {row}, spent, n + 1)
    <3> DEFINE left == ahead.ready \ {row}
    <3>1. /\ left \subseteq ahead.ready
          /\ Playable(snap) \cap left = (Playable(snap) \cap ahead.ready) \ {row}
      BY <2>5
    <3> HIDE DEF left
    <3>2. QueueLeft(snap, ahead.ready, FALSE, n)
      BY <1>2, <2>3 DEF QueueLeft
    <3>3. Placed(snap, n, Track(row)) /\ QueueLeft(snap, left, FALSE, n + 1)
      BY <1>1, <1>3, <2>4, <2>5, <3>1, <3>2, HeadNext
    <3> QED
      BY <2>6, <3>3 DEF QueueLeft, left
  <2>7. row \in QueueRows \cup {NoRow}
    BY <1>1, <2>2
  <2> QED
    BY <1>4, <2>1, <2>6, <2>7 DEF n
<1>8. CASE AirShuffle
  <2>1. /\ StationTurn /\ ahead.pc = "plan" /\ ~ahead.nextUp.set /\ ahead.ready = {}
        /\ TrackStarts(Unknown, NoRow)
    BY <1>8 DEF AirShuffle
  <2>2. ~waits /\ Playable(snap) \cap ahead.ready = {}
        /\ ahead.ready \ {NoRow} \subseteq ahead.ready
    BY <2>1
  <2> HIDE DEF n, waits
  <2>3. ASSUME NEW spent, ~spent
        PROVE  /\ Placed(snap, n, Unknown)
               /\ QueueLeft(snap, ahead.ready \ {NoRow}, spent, n + 1)
    BY <1>1, <1>2, <1>3, <2>2, <2>3, UnknownNext
  <2> QED
    BY <1>5, <2>1, <2>3 DEF n
<1> QED
  BY <1>6, <1>7, <1>8 DEF Starts

-----------------------------------------------------------------------------
(* The music.                                                               *)

\* What the station did so far does not change while the walk moves.
LEMMA StationMusicStays ==
  ASSUME StationMusic, snap' = snap, aired' = aired, ahead'.nextUp = ahead.nextUp,
         ahead'.rolled = ahead.rolled, ahead'.ready = ahead.ready
  PROVE  StationMusic'
BY DEF StationMusic

\* Nor does the running order while the station moves.
LEMMA WalkMusicStays ==
  ASSUME WalkMusic, UNCHANGED <<snap, walk, upcoming>>
  PROVE  WalkMusic'
<1>1. Order' = Order
  BY DEF Order
<1> QED
  BY <1>1 DEF WalkMusic

\* What airs is added at the end.
LEMMA AiredGrows ==
  ASSUME StationTypes, NEW item \in Segment, aired' = Append(aired, item)
  PROVE  /\ Len(aired) \in Nat /\ Len(aired') = Len(aired) + 1
         /\ \A i \in 1..Len(aired) : aired'[i] = aired[i]
         /\ aired'[Len(aired) + 1] = item
BY DEF StationTypes

\* A break takes no place of the queue.
LEMMA BreakShownMusic ==
  ASSUME OrderInv, StationTypes, WalkMusic, StationMusic, NEW timers, ProjectBreak(timers)
  PROVE  WalkMusic' /\ StationMusic'
<1>1. PICK kind \in Kinds, certainty \in Certainties :
            /\ Emit(Break(kind), certainty) /\ Break(kind) \in Segment
            /\ IsBreak(Break(kind))
            /\ WalkStep(timers) /\ WalkTurn
            /\ walk'.ready = walk.ready /\ walk'.nextUp = walk.nextUp
            /\ walk'.cad \in CadenceState
  BY BreakShown
<1> DEFINE n == Len(upcoming)
<1>2. /\ Len(upcoming') = n + 1 /\ n \in Nat
      /\ Len(Order) = n /\ Len(Order') = n + 1
      /\ \A i \in 1..n : Order'[i] = Order[i]
      /\ Order'[n + 1] = Break(kind)
  BY <1>1, OrderGrows DEF OrderInv
<1>3. WalkStep(timers) /\ Len(upcoming') = Len(upcoming) + 1
  BY <1>1, <1>2
<1>4. /\ snap' = snap /\ aired' = aired /\ ahead'.nextUp = ahead.nextUp
      /\ ahead'.rolled = ahead.rolled /\ ahead'.ready = ahead.ready
  BY <1>1, <1>3, WalkStepTypes
<1> HIDE DEF n
<1>5. InOrder(snap, Order') /\ Depth(Order') = Depth(Order)
  <2>1. InOrder(snap, Order)
    BY DEF WalkMusic
  <2>2. IsBreak(Order'[n + 1])
    BY <1>1, <1>2
  <2> DEFINE old == Order
  <2> DEFINE new == Order'
  <2>3. Len(old) = n /\ Len(new) = n + 1 /\ (\A k \in 1..n : new[k] = old[k])
        /\ InOrder(snap, old) /\ IsBreak(new[n + 1])
    BY <1>2, <2>1, <2>2
  <2> HIDE DEF old, new
  <2>4. InOrder(snap, new) /\ Depth(new) = Depth(old) + 0 /\ Depth(old) \in Nat
    BY <1>2, <2>3, OrderedMore
  <2> QED
    BY <2>4 DEF old, new
<1>6. WalkMusic'
  BY <1>1, <1>4, <1>5 DEF WalkMusic
<1> QED
  BY <1>4, <1>6, StationMusicStays

\* A track shown takes the next.
LEMMA MusicShownMusic ==
  ASSUME OrderInv, StationTypes, WalkMusic, StationMusic, NEW timers, ProjectMusic(timers)
  PROVE  WalkMusic' /\ StationMusic'
<1>1. PICK item \in Segment, certainty \in Certainties :
            /\ Emit(item, certainty) /\ ~IsBreak(item)
            /\ Placed(snap, Depth(Order), item)
            /\ QueueLeft(snap, walk'.ready, PinAirs(snap) /\ walk'.nextUp.set,
                         Depth(Order) + 1)
            /\ WalkStep(timers) /\ WalkTurn
            /\ walk'.cad \in CadenceState
  BY MusicShown
<1> DEFINE n == Len(upcoming)
<1>2. /\ Len(upcoming') = n + 1 /\ n \in Nat
      /\ Len(Order) = n /\ Len(Order') = n + 1
      /\ \A i \in 1..n : Order'[i] = Order[i]
      /\ Order'[n + 1] = item
  BY <1>1, OrderGrows DEF OrderInv
<1>3. WalkStep(timers) /\ Len(upcoming') = Len(upcoming) + 1
  BY <1>1, <1>2
<1>4. /\ snap' = snap /\ aired' = aired /\ ahead'.nextUp = ahead.nextUp
      /\ ahead'.rolled = ahead.rolled /\ ahead'.ready = ahead.ready
  BY <1>1, <1>3, WalkStepTypes
<1> HIDE DEF n
<1>5. InOrder(snap, Order') /\ Depth(Order') = Depth(Order) + 1
  <2>1. InOrder(snap, Order)
    BY DEF WalkMusic
  <2> DEFINE old == Order
  <2> DEFINE new == Order'
  <2>2. ~IsBreak(new[n + 1]) /\ Placed(snap, Depth(old), new[n + 1])
    BY <1>1, <1>2
  <2>3. Len(old) = n /\ Len(new) = n + 1 /\ (\A k \in 1..n : new[k] = old[k])
        /\ InOrder(snap, old)
    BY <1>2, <2>1
  <2> HIDE DEF old, new
  <2>4. /\ InOrder(snap, new)
        /\ Depth(new) = Depth(old) + (IF IsBreak(new[n + 1]) THEN 0 ELSE 1)
    <3>1. n \in Nat
      BY <1>2
    <3> QED
      BY <2>2, <2>3, <3>1, OrderedMore
  <2> QED
    BY <2>2, <2>4 DEF old, new
<1>6. WalkMusic'
  BY <1>1, <1>4, <1>5 DEF WalkMusic
<1> QED
  BY <1>4, <1>6, StationMusicStays

\* A break on the air takes none either.
LEMMA BreakAirsMusic ==
  ASSUME OrderInv, StationTypes, WalkMusic, StationMusic, BreakAirs
  PROVE  WalkMusic' /\ StationMusic'
<1>1. /\ UNCHANGED <<snap, walk, upcoming>>
      /\ Break(Slot) \in Segment /\ IsBreak(Break(Slot))
      /\ aired' = Append(aired, Break(Slot))
      /\ ahead'.nextUp = ahead.nextUp /\ ahead'.rolled = ahead.rolled
      /\ ahead'.ready = ahead.ready
  BY BreakAirsDoes
<1> DEFINE item == Break(Slot)
<1> HIDE DEF item
<1>2. item \in Segment /\ aired' = Append(aired, item) /\ IsBreak(item)
  BY <1>1 DEF item
<1> DEFINE n == Len(aired)
<1>3. /\ n \in Nat /\ Len(aired') = n + 1
      /\ \A i \in 1..n : aired'[i] = aired[i]
      /\ aired'[n + 1] = item
  BY <1>2, AiredGrows
<1>4. Len(aired) = n /\ InOrder(snap, aired)
  BY DEF StationMusic
<1> HIDE DEF n
<1>5. InOrder(snap, aired') /\ Depth(aired') = Depth(aired)
  <2> DEFINE new == aired'
  <2>1. Len(new) = n + 1 /\ (\A k \in 1..n : new[k] = aired[k]) /\ IsBreak(new[n + 1])
    BY <1>2, <1>3
  <2> HIDE DEF new
  <2>2. InOrder(snap, new) /\ Depth(new) = Depth(aired) + 0 /\ Depth(aired) \in Nat
    BY <1>3, <1>4, <2>1, OrderedMore
  <2> QED
    BY <2>2 DEF new
<1>6. StationMusic'
  BY <1>1, <1>5 DEF StationMusic
<1> QED
  BY <1>1, <1>6, WalkMusicStays

\* A track that starts takes the next.
LEMMA TrackAirsMusic ==
  ASSUME OrderInv, StationTypes, WalkMusic, StationMusic, Starts
  PROVE  WalkMusic' /\ StationMusic'
<1>1. PICK item \in Segment, row \in QueueRows \cup {NoRow} :
            /\ TrackStarts(item, row) /\ StationTurn
            /\ ~IsBreak(item)
            /\ Placed(snap, Depth(aired), item)
            /\ \A spent : ~spent =>
                  QueueLeft(snap, ahead.ready \ {row}, spent, Depth(aired) + 1)
  BY TrackAirs
<1>2. /\ UNCHANGED <<snap, walk, upcoming>>
      /\ ahead'.ready = ahead.ready \ {row}
      /\ ahead'.nextUp.set = ahead'.rolled
      /\ ahead'.rolled => ahead'.nextUp.known /\ ahead'.nextUp.row = NoRow
                          /\ ahead'.ready = {}
      /\ aired' = Append(aired, item)
  <2>1. TrackStarts(item, row) /\ StationTurn
    BY <1>1
  <2> QED
    BY <2>1, StartsTypes
<1> DEFINE n == Len(aired)
<1>3. /\ n \in Nat /\ Len(aired') = n + 1
      /\ \A i \in 1..n : aired'[i] = aired[i]
      /\ aired'[n + 1] = item
  BY <1>2, AiredGrows
<1>4. Len(aired) = n /\ InOrder(snap, aired)
  BY DEF StationMusic
<1> HIDE DEF n
<1>5. InOrder(snap, aired') /\ Depth(aired') = Depth(aired) + 1
  <2> DEFINE new == aired'
  <2>1. Len(new) = n + 1 /\ (\A k \in 1..n : new[k] = aired[k])
        /\ ~IsBreak(new[n + 1]) /\ Placed(snap, Depth(aired), new[n + 1])
    BY <1>1, <1>3
  <2> HIDE DEF new
  <2>2. InOrder(snap, new) /\ Depth(new) = Depth(aired) + 1 /\ Depth(aired) \in Nat
    BY <1>3, <1>4, <2>1, OrderedMore
  <2> QED
    BY <2>2 DEF new
<1>6. ~(PinAirs(snap) /\ ahead'.nextUp.set /\ ~ahead'.rolled)
  BY <1>2
<1>7. QueueLeft(snap, ahead.ready \ {row},
                PinAirs(snap) /\ ahead'.nextUp.set /\ ~ahead'.rolled, Depth(aired) + 1)
  BY <1>1, <1>6
<1>8. StationMusic'
  BY <1>2, <1>5, <1>7 DEF StationMusic
<1> QED
  BY <1>2, <1>8, WalkMusicStays

\* Two lists in the order of one queue agree, track by track.
LEMMA OrdersAgree ==
  ASSUME NEW s \in Snapshot, NEW items, NEW others, InOrder(s, items), InOrder(s, others),
         NEW i \in 1..Len(items), NEW j \in 1..Len(others), i \in Int, j \in Int,
         ~IsBreak(items[i]), ~IsBreak(others[j]),
         TrackCount(items, 1, i - 1) = TrackCount(others, 1, j - 1)
  PROVE  items[i] = others[j]
<1> DEFINE n == TrackCount(items, 1, i - 1)
<1>1. n \in Nat
  <2>1. 1 \in Int /\ i - 1 \in Int
    OBVIOUS
  <2> QED
    BY <2>1, CountedRows
<1>2. Placed(s, n, items[i])
  BY DEF InOrder
<1>3. Placed(s, n, others[j])
  <2>1. Placed(s, TrackCount(others, 1, j - 1), others[j])
    BY DEF InOrder
  <2> QED
    BY <2>1
<1> HIDE DEF n
<1> QED
  BY <1>1, <1>2, <1>3, PlacedOnce

\* The two lists agree.
LEMMA MusicSame ==
  ASSUME OrderInv, StationTypes, WalkMusic, StationMusic
  PROVE  MusicAgrees
<1>1. snap \in Snapshot /\ InOrder(snap, Order) /\ InOrder(snap, aired)
  BY DEF OrderInv, WalkTypes, WalkMusic, StationMusic
<1>2. Len(Order) = Len(upcoming) /\ Len(upcoming) \in Nat /\ Len(aired) \in Nat
  BY OrderItems DEF OrderInv, StationTypes
<1>3. ASSUME NEW i \in 1..Len(upcoming), NEW j \in 1..Len(aired),
             ~IsBreak(Order[i]), ~IsBreak(aired[j]),
             TrackCount(Order, 1, i - 1) = TrackCount(aired, 1, j - 1)
      PROVE  Order[i] = aired[j]
  <2>1. i \in 1..Len(Order) /\ i \in Int /\ j \in Int
    BY <1>2
  <2> QED
    BY <1>1, <1>3, <2>1, OrdersAgree
<1> QED
  BY <1>3 DEF MusicAgrees

-----------------------------------------------------------------------------
(* The tracks between two seams.                                            *)

\* One more item counts if it is a track.
LEMMA CountMore ==
  ASSUME NEW items, NEW more, NEW n \in Nat, \A k \in 1..n : more[k] = items[k],
         NEW i \in 1..n
  PROVE  /\ TrackCount(items, i, n) \in Nat
         /\ TrackCount(more, i, n + 1) =
               TrackCount(items, i, n) + (IF IsBreak(more[n + 1]) THEN 0 ELSE 1)
<1>1. i \in Int /\ n \in Int /\ i \in 1..(n + 1)
  OBVIOUS
<1>2. TrackCount(items, i, n) \in Nat
  BY <1>1, CountedRows
<1> QED
  BY <1>1, <1>2, CountSuffix

\* Seams stay apart when the item added is none, or has enough before it.
LEMMA ApartMore ==
  ASSUME NEW items, NEW more, NEW n \in Nat, Len(items) = n, Len(more) = n + 1,
         \A k \in 1..n : more[k] = items[k], SeamsApart(items),
         more[n + 1].kind = Seam => \A i \in 1..n :
            more[i].kind = Seam => TrackCount(more, i, n + 1) >= BreakEvery
  PROVE  SeamsApart(more)
<1> SUFFICES ASSUME NEW i \in 1..(n + 1), NEW j \in 1..(n + 1),
                    i < j, more[i].kind = Seam, more[j].kind = Seam
             PROVE  TrackCount(more, i, j) >= BreakEvery
  BY DEF SeamsApart
<1>1. CASE j = n + 1
  BY <1>1
<1>2. CASE j \in 1..n
  <2>1. i \in 1..n /\ more[i] = items[i] /\ more[j] = items[j]
    BY <1>2
  <2>2. TrackCount(more, i, j) = TrackCount(items, i, j)
    <3>1. i \in Int /\ j \in Int /\ \A k \in i..j : more[k] = items[k]
      BY <1>2, <2>1
    <3> QED
      BY <3>1, CountSame
  <2>3. TrackCount(items, i, j) >= BreakEvery
    BY <1>2, <2>1 DEF SeamsApart
  <2> QED
    BY <2>2, <2>3
<1> QED
  BY <1>1, <1>2

\* The clock's count, and what the item on the air adds.
LEMMA CountType ==
  ASSUME StationTypes
  PROVE  /\ ahead.cad \in CadenceState /\ ahead.cad.finished \in Nat
         /\ Counting \in {0, 1}
         /\ Finished(ahead.cad) \in CadenceState
         /\ ahead.pc = "seam" => Finished(ahead.cad).finished \in Nat
                /\ Finished(ahead.cad).finished <= ahead.cad.finished + Counting
         /\ Finished(ahead.cad).forced = ahead.cad.forced
<1>1. ahead.cad \in CadenceState
  BY DEF StationTypes, Ahead
<1>2. ahead.cad.finished \in Nat
  BY <1>1, CadenceAssumption DEF CadenceState
<1> DEFINE c == ahead.cad
<1> HIDE DEF c
<1>3. c \in CadenceState /\ c.finished \in Nat
  BY <1>1, <1>2 DEF c
<1>4. /\ AdvanceMusic(c) \in CadenceState
      /\ AdvanceMusic(c).finished \in {c.finished, c.finished + 1}
      /\ AdvanceMusic(c).forced = c.forced
  BY <1>3, AdvanceKeeps
<1> QED
  BY <1>2, <1>3, <1>4 DEF Finished, Counting, c

\* A seam airs when the tracks since the last are enough.
LEMMA SeamEarned ==
  ASSUME OrderInv, StationTypes, SinceSeam, BreakAirs, Slot = Seam, NEW i \in 1..Len(aired),
         aired[i].kind = Seam
  PROVE  TrackCount(aired, i, Len(aired)) >= BreakEvery
<1>1. /\ ~ahead.cad.forced /\ ahead.airing # "none"
      /\ TrackCount(aired, i, Len(aired)) >= ahead.cad.finished + Counting
  BY DEF SinceSeam
<1>2. aired # <<>> /\ Len(aired) \in Nat
  BY DEF StationTypes
<1>3. ahead.pc = "seam" /\ ahead.airing # "break" /\ (ahead.clip # NoKind => ahead.fresh)
  BY DEF BreakAirs, Taken
<1>4. Seam # NoKind
  BY DEF Seam, NoKind
<1>5. ahead.clip = NoKind
  BY <1>2, <1>3, <1>4 DEF SinceSeam, Slot
<1>6. DueKind(ahead.cad) = Seam
  BY <1>4, <1>5, SlotKinds
<1>7. Owed(ahead.cad, Seam)
  BY <1>4, <1>6, LadderKinds
<1>8. ahead.cad.finished + 1 >= BreakEvery
  BY <1>1, <1>7
     DEF Owed, Seam, StationID, WakeGreeting, DaypartTransition, Musing
<1>9. Counting = 1
  <2>1. ahead.airing = "track"
    BY <1>1, <1>3 DEF StationTypes, Ahead
  <2> QED
    BY <1>3, <2>1 DEF Counting
<1>10. TrackCount(aired, i, Len(aired)) \in Nat
  <2>1. i \in Int /\ Len(aired) \in Int
    BY <1>2
  <2> QED
    BY <2>1, CountedRows
<1> QED
  BY <1>1, <1>8, <1>9, <1>10, CountType, CadenceAssumption

\* A break resets the count with the tracks, or the seam before is further away.
LEMMA BreakAirsSeam ==
  ASSUME OrderInv, StationTypes, SinceSeam, BreakAirs
  PROVE  SinceSeam'
<1>1. /\ StationTypes'
      /\ Slot \in Kinds /\ Break(Slot) \in Segment /\ IsBreak(Break(Slot))
      /\ aired' = Append(aired, Break(Slot))
      /\ ahead'.cad = Advance(Finished(ahead.cad), Slot)
      /\ ahead'.pc = "seam" /\ ahead'.airing = "break" /\ ahead'.clip = NoKind
  BY BreakAirsDoes
<1> DEFINE n == Len(aired)
<1> DEFINE new == aired'
<1>2. /\ n \in Nat /\ Len(new) = n + 1
      /\ \A i \in 1..n : new[i] = aired[i]
      /\ new[n + 1] = Break(Slot)
  BY <1>1, AiredGrows
<1>3. ahead.pc = "seam"
  BY DEF BreakAirs
<1>4. new[n + 1].kind = Slot /\ IsBreak(new[n + 1])
  BY <1>1, <1>2 DEF Break
<1>5. \A i \in 1..n : aired[i].kind = Seam =>
         TrackCount(aired, i, n) >= ahead.cad.finished + Counting /\ ~ahead.cad.forced
  BY DEF SinceSeam
<1>6. Slot = Seam => \A i \in 1..n :
         aired[i].kind = Seam => TrackCount(aired, i, n) >= BreakEvery
  BY SeamEarned
<1>7. SeamsApart(aired) /\ Len(aired) = n
  BY DEF SinceSeam, CadenceKept
<1> HIDE DEF n, new
<1>8. \A i \in 1..n : TrackCount(new, i, n + 1) = TrackCount(aired, i, n)
                      /\ TrackCount(aired, i, n) \in Nat
  <2>1. ASSUME NEW i \in 1..n
        PROVE  /\ TrackCount(aired, i, n) \in Nat
               /\ TrackCount(new, i, n + 1) = TrackCount(aired, i, n) + 0
    BY <1>2, <1>4, CountMore
  <2> QED
    BY <2>1
<1>9. SeamsApart(new)
  <2>1. new[n + 1].kind = Seam => \A i \in 1..n :
            new[i].kind = Seam => TrackCount(new, i, n + 1) >= BreakEvery
    BY <1>2, <1>4, <1>6, <1>8
  <2> QED
    BY <1>2, <1>7, <2>1, ApartMore
<1> DEFINE cad == Finished(ahead.cad)
<1>10. /\ cad \in CadenceState /\ cad.finished \in Nat
       /\ cad.finished <= ahead.cad.finished + Counting
       /\ cad.forced = ahead.cad.forced /\ ahead.cad.finished + Counting \in Nat
  BY <1>3, CountType
<1> HIDE DEF cad
<1>11. /\ Advance(cad, Slot).finished \in {0, cad.finished}
       /\ Advance(cad, Slot).forced => cad.forced
       /\ Slot = Seam => Advance(cad, Slot).finished = 0 /\ ~Advance(cad, Slot).forced
  BY <1>1, <1>10, AdvanceKeeps
<1>12. ahead'.cad = Advance(cad, Slot)
  BY <1>1 DEF cad
<1>13. Counting' = 0
  BY <1>1 DEF Counting
<1>14. ASSUME NEW i \in 1..(n + 1), new[i].kind = Seam
       PROVE  /\ ~ahead'.cad.forced
              /\ TrackCount(new, i, n + 1) >= ahead'.cad.finished + 0
  <2>1. CASE i = n + 1
    <3>1. Slot = Seam
      BY <1>4, <1>14, <2>1
    <3>2. TrackCount(new, n + 1, n + 1) \in Nat
      <4>1. n + 1 \in Int
        BY <1>2
      <4> QED
        BY <4>1, CountedRows
    <3> QED
      BY <1>11, <1>12, <2>1, <3>1, <3>2
  <2>2. CASE i \in 1..n
    <3>1. /\ TrackCount(aired, i, n) >= ahead.cad.finished + Counting
          /\ ~ahead.cad.forced /\ TrackCount(aired, i, n) \in Nat
          /\ TrackCount(new, i, n + 1) = TrackCount(aired, i, n)
      BY <1>2, <1>5, <1>8, <1>14, <2>2
    <3> QED
      BY <1>10, <1>11, <1>12, <3>1
  <2> QED
    BY <1>2, <2>1, <2>2
<1>15. NoKind # Seam
  BY DEF NoKind, Seam
<1> QED
  BY <1>1, <1>2, <1>9, <1>13, <1>14, <1>15 DEF SinceSeam, CadenceKept, new

\* The track that ends moves from the air to the clock's count.
LEMMA NoBreakAirsSeam ==
  ASSUME OrderInv, StationTypes, SinceSeam, NoBreakAirs
  PROVE  SinceSeam'
<1>1. /\ aired' = aired /\ ahead.pc = "seam" /\ ahead'.pc = "plan"
      /\ ahead'.cad = Finished(ahead.cad)
      /\ ahead'.clip = (IF ahead.airing = "break" THEN ahead.clip ELSE NoKind)
      /\ ahead'.airing = ahead.airing /\ ahead'.fresh = ahead.fresh
  BY NoBreakAirsDoes
<1>2. Counting' = 0
  BY <1>1 DEF Counting
<1> DEFINE cad == Finished(ahead.cad)
<1>3. /\ cad.finished \in Nat /\ cad.finished <= ahead.cad.finished + Counting
      /\ cad.forced = ahead.cad.forced /\ ahead.cad.finished + Counting \in Nat
  BY <1>1, CountType
<1> HIDE DEF cad
<1>4. ASSUME NEW i \in 1..Len(aired), aired[i].kind = Seam
      PROVE  /\ ~cad.forced /\ ahead.airing # "none"
             /\ TrackCount(aired, i, Len(aired)) >= cad.finished + 0
  <2>1. /\ ~ahead.cad.forced /\ ahead.airing # "none"
        /\ TrackCount(aired, i, Len(aired)) >= ahead.cad.finished + Counting
    BY <1>4 DEF SinceSeam
  <2>2. TrackCount(aired, i, Len(aired)) \in Nat
    <3>1. Len(aired) \in Int /\ i \in Int
      BY DEF StationTypes
    <3> QED
      BY <3>1, CountedRows
  <2> QED
    BY <1>3, <2>1, <2>2
<1>5. ahead'.clip = Seam => ahead.clip = Seam
  BY <1>1 DEF NoKind, Seam
<1>6. CadenceKept' /\ (ahead'.clip = Seam /\ aired' # <<>> => ~ahead'.fresh)
  BY <1>1, <1>5 DEF SinceSeam, CadenceKept
<1>7. ahead'.cad = cad
  BY <1>1 DEF cad
<1> QED
  BY <1>1, <1>2, <1>4, <1>6, <1>7 DEF SinceSeam

\* A track that starts counts at once, and makes a waiting seam stale.
LEMMA TrackAirsSeam ==
  ASSUME OrderInv, StationTypes, StationMusic, SinceSeam, Starts
  PROVE  SinceSeam'
<1>1. PICK item \in Segment, row \in QueueRows \cup {NoRow} :
            /\ TrackStarts(item, row) /\ StationTurn /\ ahead.pc = "plan"
            /\ ~IsBreak(item)
  BY TrackAirs
<1>2. /\ ahead'.cad = ahead.cad /\ ahead'.pc = "seam" /\ ahead'.airing = "track"
      /\ ahead'.clip = ahead.clip /\ ahead'.fresh = (ahead.clip # Seam)
      /\ aired' = Append(aired, item)
  <2>1. TrackStarts(item, row) /\ StationTurn
    BY <1>1
  <2> QED
    BY <2>1, StartsTypes
<1> DEFINE n == Len(aired)
<1> DEFINE new == aired'
<1>3. /\ n \in Nat /\ Len(new) = n + 1
      /\ \A i \in 1..n : new[i] = aired[i]
      /\ new[n + 1] = item
  BY <1>2, AiredGrows
<1>4. ~IsBreak(new[n + 1]) /\ new[n + 1].kind # Seam
  BY <1>1, <1>3 DEF IsBreak, Kinds
<1>5. Counting = 0 /\ Counting' = 1 /\ ahead.cad.finished \in Nat
  BY <1>1, <1>2, CountType DEF Counting
<1>6. SeamsApart(aired) /\ Len(aired) = n
  BY DEF SinceSeam, CadenceKept
<1>7. \A i \in 1..n : aired[i].kind = Seam =>
         TrackCount(aired, i, n) >= ahead.cad.finished + Counting /\ ~ahead.cad.forced
  BY DEF SinceSeam
<1> HIDE DEF n, new
<1>8. SeamsApart(new)
  BY <1>3, <1>4, <1>6, ApartMore
<1>9. ASSUME NEW i \in 1..(n + 1), new[i].kind = Seam
      PROVE  /\ ~ahead.cad.forced
             /\ TrackCount(new, i, n + 1) >= ahead.cad.finished + 1
  <2>1. i \in 1..n /\ aired[i].kind = Seam
    BY <1>3, <1>4, <1>9
  <2>2. /\ TrackCount(aired, i, n) \in Nat
        /\ TrackCount(new, i, n + 1) = TrackCount(aired, i, n) + 1
    BY <1>3, <1>4, <2>1, CountMore
  <2> QED
    BY <1>5, <1>7, <2>1, <2>2
<1>10. CadenceKept' /\ (ahead'.clip = Seam => ~ahead'.fresh)
  BY <1>2, <1>8 DEF CadenceKept, new
<1> QED
  BY <1>2, <1>3, <1>5, <1>9, <1>10 DEF SinceSeam, new

\* The clip, the clock and what aired stay, but for the timers.
LEMMA SinceSeamStays ==
  ASSUME SinceSeam, aired' = aired, ahead'.pc = ahead.pc, ahead'.clip = ahead.clip,
         ahead'.airing = ahead.airing, ahead'.fresh = ahead.fresh,
         ahead'.cad.finished = ahead.cad.finished, ahead'.cad.forced = ahead.cad.forced
  PROVE  SinceSeam'
<1>1. Counting' = Counting
  BY DEF Counting
<1> QED
  BY <1>1 DEF SinceSeam, CadenceKept

-----------------------------------------------------------------------------
(* The first break.                                                         *)

\* An item airs that was shown, or the projection was not exact any more.
LEMMA FirstBreakMore ==
  ASSUME StationTypes, FirstBreakAgrees, NEW item \in Segment,
         UNCHANGED <<snap, walk, upcoming>>, aired' = Append(aired, item),
         Exact /\ NoBreakYet => item = Shown(Len(aired) + 1)
  PROVE  FirstBreakAgrees'
<1> DEFINE n == Len(aired)
<1>1. /\ n \in Nat /\ Len(aired') = n + 1
      /\ \A i \in 1..n : aired'[i] = aired[i]
      /\ aired'[n + 1] = item
  BY AiredGrows
<1>2. Len(aired) = n
  OBVIOUS
<1> SUFFICES ASSUME Exact, NEW i \in 1..(n + 1),
                    \A j \in 1..(i - 1) : ~IsBreak(upcoming[j].item)
             PROVE  aired'[i] = upcoming[i].item
  BY <1>1 DEF FirstBreakAgrees, Exact
<1> HIDE DEF n
<1>3. CASE i = n + 1
  <2>1. NoBreakYet
    BY <1>1, <1>2, <1>3 DEF NoBreakYet, Shown
  <2> QED
    BY <1>1, <1>2, <1>3, <2>1 DEF Shown
<1>4. CASE i \in 1..n
  BY <1>1, <1>2, <1>4 DEF FirstBreakAgrees, Exact
<1> QED
  BY <1>1, <1>3, <1>4

\* The break shown is the one the station has prepared.
LEMMA BreakShownFirst ==
  ASSUME OrderInv, StationTypes, FirstBreak, NEW timers, ProjectBreak(timers)
  PROVE  FirstBreak'
<1>1. PICK kind \in Kinds, certainty \in Certainties :
            /\ kind = SeamArm(Elapse(walk.cad, timers))[1]
            /\ Emit(Break(kind), certainty) /\ Break(kind) \in Segment
            /\ IsBreak(Break(kind))
            /\ WalkStep(timers) /\ WalkTurn
            /\ walk'.cad \in CadenceState
  BY BreakShown
<1> DEFINE n == Len(upcoming)
<1>2. /\ Len(upcoming') = n + 1 /\ n \in Nat
      /\ \A i \in 1..n : upcoming'[i] = upcoming[i]
      /\ upcoming'[n + 1].item = Break(kind)
  <2>1. WalkTypes
    BY DEF OrderInv
  <2>2. Emit(Break(kind), certainty) /\ Break(kind) \in Segment
    BY <1>1
  <2> QED
    BY <2>1, <2>2, OrderGrows
<1>3. WalkStep(timers) /\ WalkTurn /\ walk'.cad \in CadenceState
      /\ Len(upcoming') = Len(upcoming) + 1
  BY <1>1, <1>2
<1>4. /\ ahead'.cad = Elapse(ahead.cad, timers)
      /\ ahead'.pc = ahead.pc /\ ahead'.clip = ahead.clip /\ ahead'.fresh = ahead.fresh
      /\ ahead'.airing = ahead.airing
      /\ aired' = aired /\ snap' = snap /\ Len(aired) = n
  BY <1>3, WalkStepTypes
<1> HIDE DEF n
<1>5. FirstBreakAgrees'
  <2>1. \A i \in 1..Len(aired) : upcoming'[i] = upcoming[i]
        /\ \A j \in 1..(i - 1) : upcoming'[j] = upcoming[j]
    BY <1>2, <1>4
  <2> QED
    BY <1>4, <2>1 DEF FirstBreak, FirstBreakAgrees
<1>6. ASSUME Exact, NoBreakYet
      PROVE  InStep'
  <2>1. ahead.airing = "track" /\ Even
    BY <1>4, <1>6 DEF FirstBreak, InStep, n
  <2> DEFINE c == Elapse(ahead.cad, timers)
  <2>2. kind = SeamArm(c)[1] /\ ahead'.cad = c
    BY <1>1, <1>4, <2>1 DEF Even
  <2> HIDE DEF c
  <2>3. ~walk.lastWasBreak /\ ahead.pc = "seam"
        /\ IF walk.first THEN ahead.clip = snap.clip /\ ahead.fresh ELSE ahead.clip = NoKind
    BY <2>1 DEF Even
  <2>4. snap.fresh
    BY <1>6 DEF Exact
  <2>5. kind = IF ahead.clip # NoKind THEN ahead.clip
               ELSE IF Gate(snap) = "ok" THEN DueKind(c) ELSE NoKind
    BY <2>2, <2>3, <2>4 DEF SeamArm
  <2>6. Slot' = kind
    BY <1>4, <2>2, <2>5 DEF Slot
  <2>7. kind # NoKind
    BY DEF Kinds, NoKind, StationID, Seam, Musing, DaypartTransition, WakeGreeting
  <2>8. Taken'
    BY <1>4, <2>1, <2>3, <2>6, <2>7 DEF Taken
  <2>9. IsBreak(Break(kind))
    BY <1>1
  <2>10. OneAhead(Break(kind))'
    BY <1>4, <2>3, <2>6, <2>8, <2>9 DEF OneAhead, IsBreak, Break
  <2>11. Len(upcoming') # Len(aired') /\ Len(upcoming') = n + 1
    BY <1>2, <1>4
  <2>12. upcoming'[Len(upcoming')].item = Break(kind)
    BY <1>2
  <2> QED
    BY <1>4, <2>1, <2>10, <2>11, <2>12 DEF InStep, Shown
<1>7. Exact' /\ NoBreakYet' => Exact /\ NoBreakYet
  BY <1>2, <1>4 DEF Exact, NoBreakYet, Shown, IsBreak
<1> QED
  BY <1>5, <1>6, <1>7 DEF FirstBreak

\* A track is shown when no break is prepared.
LEMMA MusicShownFirst ==
  ASSUME OrderInv, StationTypes, WalkMusic, FirstBreak, NEW timers, ProjectMusic(timers)
  PROVE  FirstBreak'
<1>1. PICK item \in Segment, certainty \in Certainties :
            /\ Emit(item, certainty) /\ ~IsBreak(item)
            /\ WalkStep(timers) /\ WalkTurn
            /\ SeamArm(Elapse(walk.cad, timers))[1] = NoKind
            /\ walk'.cad = AdvanceMusic(Elapse(walk.cad, timers))
            /\ ~walk'.lastWasBreak /\ ~walk'.first
            /\ walk'.cad \in CadenceState
  BY MusicShown
<1> DEFINE n == Len(upcoming)
<1>2. /\ Len(upcoming') = n + 1 /\ n \in Nat
      /\ \A i \in 1..n : upcoming'[i] = upcoming[i]
      /\ upcoming'[n + 1].item = item
  <2>1. WalkTypes
    BY DEF OrderInv
  <2>2. Emit(item, certainty)
    BY <1>1
  <2> QED
    BY <2>1, <2>2, OrderGrows
<1>3. WalkStep(timers) /\ WalkTurn /\ walk'.cad \in CadenceState
      /\ Len(upcoming') = Len(upcoming) + 1
  BY <1>1, <1>2
<1>4. /\ ahead'.cad = Elapse(ahead.cad, timers)
      /\ ahead'.pc = ahead.pc /\ ahead'.clip = ahead.clip /\ ahead'.fresh = ahead.fresh
      /\ ahead'.airing = ahead.airing
      /\ aired' = aired /\ snap' = snap /\ Len(aired) = n
  BY <1>3, WalkStepTypes
<1> HIDE DEF n
<1>5. FirstBreakAgrees'
  <2>1. \A i \in 1..Len(aired) : upcoming'[i] = upcoming[i]
        /\ \A j \in 1..(i - 1) : upcoming'[j] = upcoming[j]
    BY <1>2, <1>4
  <2> QED
    BY <1>4, <2>1 DEF FirstBreak, FirstBreakAgrees
<1>6. ASSUME Exact, NoBreakYet
      PROVE  InStep'
  <2>1. ahead.airing = "track" /\ Even
    BY <1>4, <1>6 DEF FirstBreak, InStep, n
  <2> DEFINE c == Elapse(ahead.cad, timers)
  <2>2. SeamArm(c)[1] = NoKind /\ ahead'.cad = c /\ walk'.cad = AdvanceMusic(c)
    BY <1>1, <1>4, <2>1 DEF Even
  <2> HIDE DEF c
  <2>3. ~walk.lastWasBreak /\ ahead.pc = "seam"
        /\ IF walk.first THEN ahead.clip = snap.clip /\ ahead.fresh ELSE ahead.clip = NoKind
    BY <2>1 DEF Even
  <2>4. snap.fresh
    BY <1>6 DEF Exact
  <2>5. NoKind = IF ahead.clip # NoKind THEN ahead.clip
                 ELSE IF Gate(snap) = "ok" THEN DueKind(c) ELSE NoKind
    BY <2>2, <2>3, <2>4 DEF SeamArm
  <2>6. Slot' = NoKind
    BY <1>4, <2>2, <2>5 DEF Slot
  <2>7. walk'.cad = AdvanceMusic(ahead'.cad) /\ ahead'.pc = "seam" /\ ~walk'.lastWasBreak
    BY <1>1, <1>4, <2>2, <2>3
  <2>8. OneAhead(item)'
    BY <1>1, <2>6, <2>7 DEF OneAhead, IsBreak
  <2>9. Len(upcoming') # Len(aired') /\ Len(upcoming') = n + 1
    BY <1>2, <1>4
  <2>10. upcoming'[Len(upcoming')].item = item
    BY <1>2
  <2> QED
    BY <1>4, <2>1, <2>8, <2>9, <2>10 DEF InStep, Shown
<1>7. Exact' /\ NoBreakYet' => Exact /\ NoBreakYet
  BY <1>2, <1>4 DEF Exact, NoBreakYet, Shown, IsBreak
<1> QED
  BY <1>5, <1>6, <1>7 DEF FirstBreak

\* While the station has an item to air, the walk is one ahead of it.
LEMMA NextShown ==
  ASSUME OrderInv, StationTypes, StationTurn, FirstBreak
  PROVE  /\ Len(aired) \in Nat /\ Len(upcoming) = Len(aired) + 1
         /\ FirstBreakAgrees
         /\ Exact /\ NoBreakYet =>
               ahead.airing = "track" /\ OneAhead(Shown(Len(aired) + 1))
<1>1. Len(aired) \in Nat /\ Len(upcoming) = Len(aired) + 1
  BY DEF OrderInv, WalkTypes, StationTypes, StationTurn
<1> QED
  BY <1>1 DEF FirstBreak, InStep

\* It is the one that airs.
LEMMA BreakAirsFirst ==
  ASSUME OrderInv, StationTypes, FirstBreak, BreakAirs
  PROVE  FirstBreak'
<1>1. /\ UNCHANGED <<snap, walk, upcoming>>
      /\ Slot \in Kinds /\ Break(Slot) \in Segment /\ IsBreak(Break(Slot))
      /\ aired' = Append(aired, Break(Slot))
  BY BreakAirsDoes
<1>2. StationTurn /\ Taken /\ ahead.pc = "seam"
  BY DEF BreakAirs
<1>3. /\ Len(aired) \in Nat /\ Len(upcoming) = Len(aired) + 1 /\ FirstBreakAgrees
      /\ Exact /\ NoBreakYet => OneAhead(Shown(Len(aired) + 1))
  BY <1>2, NextShown
<1>4. Exact /\ NoBreakYet => Break(Slot) = Shown(Len(aired) + 1)
  BY <1>2, <1>3 DEF OneAhead, Taken
<1>5. FirstBreakAgrees'
  <2> DEFINE item == Break(Slot)
  <2>1. item \in Segment /\ aired' = Append(aired, item)
        /\ (Exact /\ NoBreakYet => item = Shown(Len(aired) + 1))
    BY <1>1, <1>4
  <2> HIDE DEF item
  <2> QED
    BY <1>1, <1>3, <2>1, FirstBreakMore
<1>6. Exact' /\ NoBreakYet' => FALSE
  <2> SUFFICES ASSUME Exact', NoBreakYet' PROVE FALSE
    OBVIOUS
  <2>1. Len(aired') = Len(aired) + 1
    BY <1>1, AiredGrows
  <2>2. \A j \in 1..(Len(aired) + 1) : ~IsBreak(Shown(j))
    BY <1>1, <2>1 DEF NoBreakYet, Shown, IsBreak
  <2>3. Exact /\ NoBreakYet
    BY <1>1, <1>3, <2>2 DEF Exact, NoBreakYet
  <2> QED
    BY <1>1, <1>3, <1>4, <2>2, <2>3
<1> QED
  BY <1>5, <1>6 DEF FirstBreak

\* No break airs when a track was shown.
LEMMA NoBreakAirsFirst ==
  ASSUME OrderInv, StationTypes, FirstBreak, NoBreakAirs
  PROVE  FirstBreak'
<1>1. /\ UNCHANGED <<snap, walk, upcoming, aired>>
      /\ ahead'.cad = Finished(ahead.cad)
      /\ ahead.pc = "seam" /\ ahead'.pc = "plan"
      /\ ahead'.clip = (IF ahead.airing = "break" THEN ahead.clip ELSE NoKind)
      /\ ahead'.airing = ahead.airing
  BY NoBreakAirsDoes
<1>2. StationTurn /\ ~Taken
  BY DEF NoBreakAirs
<1>3. /\ Len(aired) \in Nat /\ Len(upcoming) = Len(aired) + 1 /\ FirstBreakAgrees
      /\ Exact /\ NoBreakYet =>
            ahead.airing = "track" /\ OneAhead(Shown(Len(aired) + 1))
  BY <1>2, NextShown
<1>4. FirstBreakAgrees'
  BY <1>1, <1>3 DEF FirstBreakAgrees
<1>5. ASSUME Exact, NoBreakYet
      PROVE  InStep'
  <2> DEFINE next == Shown(Len(aired) + 1)
  <2>1. ahead.airing = "track" /\ OneAhead(next)
    BY <1>3, <1>5
  <2> HIDE DEF next
  <2>2. /\ ~IsBreak(next) /\ ~walk.lastWasBreak
        /\ walk.cad = AdvanceMusic(ahead.cad)
    BY <1>1, <1>2, <2>1 DEF OneAhead
  <2>3. ahead'.clip = NoKind /\ walk'.cad = ahead'.cad /\ ahead'.airing = "track"
    BY <1>1, <2>1, <2>2 DEF Finished
  <2>4. OneAhead(next)' /\ next' = next
    BY <1>1, <2>2, <2>3 DEF OneAhead, IsBreak, next, Shown
  <2>5. Len(upcoming') # Len(aired') /\ Len(upcoming') = Len(aired) + 1
    BY <1>1, <1>3
  <2> QED
    BY <1>1, <2>3, <2>4, <2>5 DEF InStep, next, Shown
<1>6. Exact' /\ NoBreakYet' => Exact /\ NoBreakYet
  BY <1>1 DEF Exact, NoBreakYet, Shown, IsBreak
<1> QED
  BY <1>4, <1>5, <1>6 DEF FirstBreak

\* What the feed passes over was never shown.
LEMMA GoesByFirst ==
  ASSUME OrderInv, StationTypes, StationMusic, FirstBreak, GoesBy
  PROVE  FirstBreak'
<1>1. /\ UNCHANGED <<snap, walk, upcoming, aired>>
      /\ ahead.pc = "plan" /\ StationTurn
      /\ ahead'.cad = ahead.cad /\ ahead'.pc = ahead.pc /\ ahead'.clip = ahead.clip
      /\ ahead'.airing = ahead.airing
  BY GoesByDoes
<1>2. /\ Len(aired) \in Nat /\ Len(upcoming) = Len(aired) + 1 /\ FirstBreakAgrees
      /\ Exact /\ NoBreakYet =>
            ahead.airing = "track" /\ OneAhead(Shown(Len(aired) + 1))
  BY <1>1, NextShown
<1>3. FirstBreakAgrees'
  BY <1>1, <1>2 DEF FirstBreakAgrees
<1>4. ASSUME Exact, NoBreakYet
      PROVE  InStep'
  <2> DEFINE next == Shown(Len(aired) + 1)
  <2>1. ahead.airing = "track" /\ OneAhead(next)
    BY <1>2, <1>4
  <2> HIDE DEF next
  <2>2. ~IsBreak(next) /\ ~walk.lastWasBreak /\ ahead.clip = NoKind /\ walk.cad = ahead.cad
    BY <1>1, <2>1 DEF OneAhead
  <2>3. OneAhead(next)' /\ next' = next
    BY <1>1, <2>2 DEF OneAhead, IsBreak, next, Shown
  <2>4. Len(upcoming') # Len(aired') /\ Len(upcoming') = Len(aired) + 1
    BY <1>1, <1>2
  <2> QED
    BY <1>1, <2>1, <2>3, <2>4 DEF InStep, next, Shown
<1>5. Exact' /\ NoBreakYet' => Exact /\ NoBreakYet
  BY <1>1 DEF Exact, NoBreakYet, Shown, IsBreak
<1> QED
  BY <1>3, <1>4, <1>5 DEF FirstBreak

\* A track the station starts is the one shown there: both have the same tracks
\* before them, and the queue puts one in each place.
LEMMA TrackAirsFirst ==
  ASSUME OrderInv, StationTypes, WalkMusic, StationMusic, FirstBreak, Starts
  PROVE  FirstBreak'
<1>1. PICK item \in Segment, row \in QueueRows \cup {NoRow} :
            /\ TrackStarts(item, row) /\ StationTurn /\ ahead.pc = "plan"
            /\ ~IsBreak(item)
            /\ Placed(snap, Depth(aired), item)
  BY TrackAirs
<1>2. /\ UNCHANGED <<snap, walk, upcoming>>
      /\ ahead'.cad = ahead.cad /\ ahead'.pc = "seam" /\ ahead'.airing = "track"
      /\ ahead'.clip = ahead.clip
      /\ aired' = Append(aired, item)
  <2>1. TrackStarts(item, row) /\ StationTurn
    BY <1>1
  <2> QED
    BY <2>1, StartsTypes
<1> DEFINE n == Len(aired)
<1>3. /\ n \in Nat /\ Len(upcoming) = n + 1 /\ FirstBreakAgrees
      /\ Exact /\ NoBreakYet => ahead.airing = "track" /\ OneAhead(Shown(n + 1))
  BY <1>1, NextShown
<1>4. Len(aired) = n /\ Len(aired') = n + 1
  BY <1>2, <1>3, AiredGrows
<1> HIDE DEF n
<1>5. ASSUME Exact, NoBreakYet
      PROVE  /\ ~IsBreak(Shown(n + 1)) /\ ~walk.lastWasBreak
             /\ ahead.clip = NoKind /\ walk.cad = ahead.cad
  <2> DEFINE next == Shown(n + 1)
  <2>1. OneAhead(next)
    BY <1>3, <1>5
  <2> HIDE DEF next
  <2>2. ~IsBreak(next) /\ ~walk.lastWasBreak /\ ahead.clip = NoKind /\ walk.cad = ahead.cad
    BY <1>1, <2>1 DEF OneAhead
  <2> QED
    BY <2>2 DEF next
<1>6. ASSUME Exact, NoBreakYet
      PROVE  item = Shown(n + 1)
  <2>1. Len(Order) = n + 1 /\ \A i \in 1..(n + 1) : Order[i] = Shown(i)
    BY <1>3, OrderItems DEF OrderInv
  <2>2. \A i \in 1..n : Order[i] = aired[i]
    <3>1. ASSUME NEW i \in 1..n
          PROVE  aired[i] = upcoming[i].item
      <4>1. \A j \in 1..(i - 1) : ~IsBreak(upcoming[j].item)
        BY <1>3, <1>4, <1>5, <1>6 DEF NoBreakYet, Shown
      <4> QED
        BY <1>3, <1>4, <1>6, <4>1 DEF FirstBreakAgrees, Exact
    <3> QED
      BY <1>3, <2>1, <3>1 DEF Shown
  <2>3. TrackCount(Order, 1, n) = TrackCount(aired, 1, n)
    <3>1. 1 \in Int /\ n \in Int
      BY <1>3
    <3> QED
      BY <2>2, <3>1, CountSame
  <2>4. Placed(snap, TrackCount(Order, 1, n), Shown(n + 1))
    <3>1. n + 1 \in 1..Len(Order) /\ ~IsBreak(Order[n + 1]) /\ Order[n + 1] = Shown(n + 1)
          /\ (n + 1) - 1 = n
      BY <1>3, <1>5, <1>6, <2>1
    <3>2. InOrder(snap, Order)
      BY DEF WalkMusic
    <3>3. Placed(snap, TrackCount(Order, 1, (n + 1) - 1), Order[n + 1])
      BY <3>1, <3>2 DEF InOrder
    <3> QED
      BY <3>1, <3>3
  <2>5. Placed(snap, TrackCount(Order, 1, n), item)
    BY <1>1, <1>4, <2>3 DEF Depth
  <2>6. TrackCount(Order, 1, n) \in Nat
    <3>1. 1 \in Int /\ n \in Int
      BY <1>3
    <3> QED
      BY <3>1, CountedRows
  <2>7. snap \in Snapshot
    BY DEF OrderInv, WalkTypes
  <2> QED
    BY <2>4, <2>5, <2>6, <2>7, PlacedOnce
<1>7. FirstBreakAgrees'
  BY <1>2, <1>3, <1>4, <1>6, FirstBreakMore
<1>8. ASSUME Exact, NoBreakYet
      PROVE  InStep'
  <2>1. ~walk.first
    <3>1. upcoming # <<>>
      BY <1>3
    <3> QED
      BY <3>1 DEF OrderInv, EndOfList
  <2>2. /\ ~walk.lastWasBreak /\ ahead.clip = NoKind /\ walk.cad = ahead.cad
    BY <1>5, <1>8
  <2>3. Even'
    BY <1>2, <2>1, <2>2 DEF Even
  <2> QED
    BY <1>2, <1>3, <1>4, <2>3 DEF InStep
<1>9. Exact' /\ NoBreakYet' => Exact /\ NoBreakYet
  BY <1>2, <1>3, <1>4 DEF Exact, NoBreakYet, Shown, IsBreak
<1> QED
  BY <1>7, <1>8, <1>9 DEF FirstBreak

-----------------------------------------------------------------------------
(* Both, from the snapshot on.                                              *)

\* Nothing of the queue was played when the snapshot is read.
LEMMA QueueWhole ==
  ASSUME NEW s \in Snapshot, NEW items, Len(items) = 0, NEW waits,
         waits <=> PinAirs(s)
  PROVE  QueueLeft(s, ReadyRows(s), waits, Depth(items)) /\ InOrder(s, items)
<1>1. Depth(items) = 0
  BY CountNone DEF Depth
<1>2. Playable(s) \ ReadyRows(s) = {}
  BY PlayableRows
<1>3. Cardinality(Playable(s) \ ReadyRows(s)) = 0
  BY <1>2, FS_EmptySet
<1>4. QueueLeft(s, ReadyRows(s), waits, 0)
  <2>1. CASE PinAirs(s)
    BY <2>1 DEF QueueLeft
  <2>2. CASE ~PinAirs(s)
    BY <1>2, <1>3, <2>2 DEF QueueLeft, PinCount, Playable
  <2> QED
    BY <2>1, <2>2
<1>5. InOrder(s, items)
  BY DEF InOrder
<1> QED
  BY <1>1, <1>4, <1>5

\* The walk and the station start from one snapshot.
LEMMA BothInitially == TimelineInit => JInv
<1> SUFFICES ASSUME TimelineInit PROVE JInv
  OBVIOUS
<1>1. OrderInv
  BY OrderStarts
<1>2. PICK s \in Snapshots : Read(s)
  BY DEF TimelineInit
<1>3. /\ s \in Snapshot /\ snap = s /\ upcoming = <<>> /\ aired = <<>>
      /\ walk = StartOfWalk(s) /\ ahead = StationAt(s)
  BY <1>2, SnapshotsAssumption DEF Read
<1>4. /\ s.cad \in CadenceState /\ s.nextUp \in NextUps
      /\ s.clip \in Kinds \cup {NoKind} /\ s.fresh \in BOOLEAN
      /\ s.airing \in {"none", "track", "break"}
      /\ ReadyRows(s) \subseteq QueueRows
  BY <1>3, SnapshotTypes
<1> DEFINE cad == [s.cad EXCEPT !.music = @ \/ s.airing = "track"]
<1>5. cad \in CadenceState /\ (s.cad.music => cad = s.cad)
  BY <1>4 DEF CadenceState
<1>6. /\ walk.cad = cad /\ walk.ready = ReadyRows(s) /\ walk.nextUp = s.nextUp
      /\ walk.lastWasBreak = (s.airing = "break") /\ walk.first
  BY <1>3 DEF StartOfWalk
<1> HIDE DEF cad
<1>7. /\ ahead \in Ahead
      /\ ahead.pc = "seam" /\ ahead.cad = s.cad /\ ahead.clip = s.clip
      /\ ahead.fresh = s.fresh /\ ahead.airing = s.airing
      /\ ahead.nextUp = s.nextUp /\ ~ahead.rolled /\ ahead.ready = ReadyRows(s)
  BY <1>3, <1>4 DEF StationAt, Ahead
<1>8. StationTypes
  BY <1>3, <1>5, <1>6, <1>7, TimelineAssumption DEF StationTypes
<1>9. Len(Order) = 0 /\ Len(aired) = 0
  BY <1>3 DEF Order
<1>10. PinAirs(s) => s.nextUp.set
  BY DEF PinAirs
<1>11. WalkMusic
  <2> DEFINE waits == PinAirs(s) /\ s.nextUp.set
  <2>1. waits <=> PinAirs(s)
    BY <1>10
  <2> HIDE DEF waits
  <2>2. QueueLeft(s, ReadyRows(s), waits, Depth(Order)) /\ InOrder(s, Order)
    BY <1>3, <1>9, <2>1, QueueWhole
  <2> QED
    BY <1>3, <1>6, <2>2 DEF WalkMusic, waits
<1>12. StationMusic
  <2> DEFINE waits == PinAirs(s) /\ ahead.nextUp.set /\ ~ahead.rolled
  <2>1. waits <=> PinAirs(s)
    BY <1>7, <1>10
  <2> HIDE DEF waits
  <2>2. QueueLeft(s, ReadyRows(s), waits, Depth(aired)) /\ InOrder(s, aired)
    BY <1>3, <1>9, <2>1, QueueWhole
  <2> QED
    BY <1>3, <1>7, <2>2 DEF StationMusic, waits
<1>13. SinceSeam
  BY <1>3, <1>9 DEF SinceSeam, CadenceKept, SeamsApart
<1>14. FirstBreak
  <2>1. FirstBreakAgrees
    BY <1>9 DEF FirstBreakAgrees
  <2>2. ASSUME Exact
        PROVE  InStep
    <3>1. s.airing = "track" /\ s.cad.music /\ s.fresh
      BY <1>3, <2>2 DEF Exact
    <3>2. Even
      BY <1>3, <1>5, <1>6, <1>7, <3>1 DEF Even
    <3> QED
      BY <1>3, <1>7, <3>1, <3>2 DEF InStep
  <2> QED
    BY <2>1, <2>2 DEF FirstBreak
<1> QED
  BY <1>1, <1>8, <1>11, <1>12, <1>13, <1>14 DEF JInv

\* The walk's steps keep both abreast.
LEMMA WalkKeeps ==
  ASSUME JInv, NEW timers, ProjectBreak(timers) \/ ProjectMusic(timers)
  PROVE  StationTypes' /\ WalkMusic' /\ StationMusic' /\ SinceSeam' /\ FirstBreak'
<1>1. OrderInv /\ StationTypes /\ WalkMusic /\ StationMusic /\ SinceSeam /\ FirstBreak
  BY DEF JInv
<1>2. WalkStep(timers) /\ WalkTurn /\ walk'.cad \in CadenceState
      /\ Len(upcoming') = Len(upcoming) + 1
  <2>1. WalkTypes
    BY <1>1 DEF OrderInv
  <2>2. CASE ProjectBreak(timers)
    <3>1. \E item \in Segment, certainty \in Certainties :
             /\ Emit(item, certainty)
             /\ WalkStep(timers) /\ WalkTurn /\ walk'.cad \in CadenceState
      BY <1>1, <2>2, BreakShown
    <3> QED
      BY <2>1, <3>1, Emitted
  <2>3. CASE ProjectMusic(timers)
    <3>1. \E item \in Segment, certainty \in Certainties :
             /\ Emit(item, certainty)
             /\ WalkStep(timers) /\ WalkTurn /\ walk'.cad \in CadenceState
      BY <1>1, <2>3, MusicShown
    <3> QED
      BY <2>1, <3>1, Emitted
  <2> QED
    BY <2>2, <2>3
<1>3. /\ StationTypes'
      /\ ahead'.cad = Elapse(ahead.cad, timers) /\ ahead.cad \in CadenceState
      /\ ahead'.pc = ahead.pc /\ ahead'.clip = ahead.clip /\ ahead'.fresh = ahead.fresh
      /\ ahead'.airing = ahead.airing /\ aired' = aired
  BY <1>1, <1>2, WalkStepTypes
<1>4. ahead'.cad.finished = ahead.cad.finished /\ ahead'.cad.forced = ahead.cad.forced
  BY <1>3, ElapseKeeps
<1>5. SinceSeam'
  BY <1>1, <1>3, <1>4, SinceSeamStays
<1>6. WalkMusic' /\ StationMusic'
  BY <1>1, BreakShownMusic, MusicShownMusic
<1>7. FirstBreak'
  BY <1>1, BreakShownFirst, MusicShownFirst
<1> QED
  BY <1>3, <1>5, <1>6, <1>7

\* The station's steps do.
LEMMA StationKeeps ==
  ASSUME JInv, BreakAirs \/ NoBreakAirs \/ Starts \/ GoesBy
  PROVE  StationTypes' /\ WalkMusic' /\ StationMusic' /\ SinceSeam' /\ FirstBreak'
<1>1. OrderInv /\ StationTypes /\ WalkMusic /\ StationMusic /\ SinceSeam /\ FirstBreak
  BY DEF JInv
<1>2. CASE BreakAirs
  <2>1. StationTypes'
    BY <1>1, <1>2, BreakAirsDoes
  <2> QED
    BY <1>1, <1>2, <2>1, BreakAirsMusic, BreakAirsSeam, BreakAirsFirst
<1>3. CASE NoBreakAirs
  <2>1. /\ StationTypes' /\ UNCHANGED <<snap, walk, upcoming, aired>>
        /\ ahead'.nextUp = ahead.nextUp /\ ahead'.rolled = ahead.rolled
        /\ ahead'.ready = ahead.ready
    BY <1>1, <1>3, NoBreakAirsDoes
  <2>2. WalkMusic' /\ StationMusic'
    BY <1>1, <2>1, WalkMusicStays, StationMusicStays
  <2> QED
    BY <1>1, <1>3, <2>1, <2>2, NoBreakAirsSeam, NoBreakAirsFirst
<1>4. CASE Starts
  <2>1. StationTypes'
    <3>1. PICK item \in Segment, row \in QueueRows \cup {NoRow} :
             TrackStarts(item, row) /\ StationTurn
      BY <1>1, <1>4, TrackAirs
    <3> QED
      BY <1>1, <3>1, StartsTypes
  <2> QED
    BY <1>1, <1>4, <2>1, TrackAirsMusic, TrackAirsSeam, TrackAirsFirst
<1>5. CASE GoesBy
  <2>1. /\ StationTypes' /\ UNCHANGED <<snap, walk, upcoming, aired>>
        /\ ahead'.cad = ahead.cad /\ ahead'.pc = ahead.pc /\ ahead'.clip = ahead.clip
        /\ ahead'.airing = ahead.airing /\ ahead'.fresh = ahead.fresh
        /\ StationMusic'
    BY <1>1, <1>5, GoesByDoes
  <2>2. WalkMusic' /\ SinceSeam'
    BY <1>1, <2>1, WalkMusicStays, SinceSeamStays
  <2> QED
    BY <1>1, <1>5, <2>1, <2>2, GoesByFirst
<1> QED
  BY <1>2, <1>3, <1>4, <1>5

\* Every step does.
LEMMA BothKeep ==
  ASSUME JInv, [TimelineNext]_timelineVars
  PROVE  JInv'
<1>1. OrderInv'
  BY OrderKeeps DEF JInv
<1>2. CASE \E timers \in SUBSET Timers : ProjectBreak(timers) \/ ProjectMusic(timers)
  BY <1>1, <1>2, WalkKeeps DEF JInv
<1>3. CASE BreakAirs \/ NoBreakAirs \/ Starts \/ GoesBy
  BY <1>1, <1>3, StationKeeps DEF JInv
<1>4. CASE UNCHANGED timelineVars
  <2>1. UNCHANGED <<snap, walk, upcoming, ahead, aired>>
    BY <1>4 DEF timelineVars
  <2>2. StationTypes' /\ SinceSeam'
    BY <2>1 DEF JInv, StationTypes, SinceSeam, Counting, CadenceKept
  <2>3. WalkMusic' /\ StationMusic'
    BY <2>1, WalkMusicStays, StationMusicStays DEF JInv
  <2>4. FirstBreakAgrees' /\ (Exact /\ NoBreakYet => InStep)
    BY <2>1 DEF JInv, FirstBreak, FirstBreakAgrees
  <2>5. InStep => InStep'
    BY <2>1 DEF InStep, Even, OneAhead, Taken, Slot, Shown, IsBreak
  <2>6. Exact' /\ NoBreakYet' => Exact /\ NoBreakYet
    BY <2>1 DEF Exact, NoBreakYet, Shown, IsBreak
  <2> QED
    BY <1>1, <2>2, <2>3, <2>4, <2>5, <2>6 DEF JInv, FirstBreak
<1> QED
  BY <1>2, <1>3, <1>4 DEF TimelineNext, Returned, Starts, GoesBy

\* The walk and the station follow one queue and, until a break, one clock.
THEOREM Abreast == TimelineSpec => []JInv
  BY BothInitially, BothKeep, PTL DEF TimelineSpec

\* Types of both; Project never returns more than MaxSegments.
THEOREM Typed == TimelineSpec => []TimelineTypeOK
<1>1. JInv => TimelineTypeOK
  <2> SUFFICES ASSUME OrderInv, StationTypes PROVE TimelineTypeOK
    BY DEF JInv
  <2>1. walk \in Walking
    <3>1. walk.nextUp \in NextUps
      BY SnapshotTypes, NothingTypes DEF OrderInv, WalkTypes
    <3> QED
      BY <3>1 DEF OrderInv, WalkTypes, StationTypes, Walking
  <2> QED
    BY <2>1 DEF OrderInv, WalkTypes, StationTypes, TimelineTypeOK
<1> QED
  BY <1>1, Abreast, PTL

\* Whatever queue, pin, lost tracks, clip and clock the console reads, the music it
\* shows at any depth is the music the station airs there.
THEOREM MusicRight == TimelineSpec => []MusicAgrees
<1>1. JInv => MusicAgrees
  BY MusicSame DEF JInv
<1> QED
  BY <1>1, Abreast, PTL

\* Whatever they are, with a track on the air, not the session's first, and no stale
\* clip, the projection is exact up to and including the first break it shows.
THEOREM FirstBreakRight == TimelineSpec => []FirstBreakAgrees
<1>1. JInv => FirstBreakAgrees
  BY DEF JInv, FirstBreak
<1> QED
  BY <1>1, Abreast, PTL

\* Whatever else airs, a forced seam before the first or a clip prepared before the
\* snapshot included, two seams have BreakEvery tracks between them.
THEOREM Cadenced == TimelineSpec => []CadenceKept
<1>1. JInv => CadenceKept
  BY DEF JInv, SinceSeam
<1> QED
  BY <1>1, Abreast, PTL
=============================================================================
