-------------------------- MODULE BroadcastProofs --------------------------
(***************************************************************************)
(* The record of the broadcasts, for any durations, number of session rows  *)
(* and number of failed writes: BroadcastRecord, ItemsInsideBroadcasts and   *)
(* AiringReported.                                                         *)
(*                                                                         *)
(* The invariants of the rows (RowOrder, LiveRows) and those of the items   *)
(* (ItemTimes, Homes, OnAir) meet in Homes, which says that a row holds      *)
(* every item, those whose insert is still under way included: the          *)
(* reconciliation at boot can then only cut a row short after the last of   *)
(* its items, because the rows still open are the last ones.                *)
(***************************************************************************)
EXTENDS Broadcast, TLAPS, WellFoundedInduction, SequenceTheorems, FiniteSetTheorems

\* The rows are in the order they were opened, and the open ones come last.
RowOrder ==
    /\ \A i \in DOMAIN broadcasts : broadcasts[i].start <= instant
    /\ \A i, j \in DOMAIN broadcasts :
          i < j => /\ broadcasts[i].start <= broadcasts[j].start
                   /\ i \in OpenRows => j \in OpenRows

\* Only the newest row may be open without a failed write, and not between two
\* broadcasts of one process.
LiveRows ==
    /\ \A i \in OpenRows \ lapsed : i = Len(broadcasts)
    /\ engine \in {"poll", "wait", "open"} => OpenRows \subseteq lapsed

\* Items aired, their row written or not.
AiredItems == showlog \cup unwritten

\* No item is ahead of the clock, no two share an instant, and none shares it
\* with a flip.
ItemTimes ==
    /\ \A item \in AiredItems :
          /\ item.start <= instant
          /\ item.start = instant => stamped
          /\ item.start # edge
    /\ edge <= instant /\ (edge = instant => stamped)
    /\ \A a, b \in AiredItems : a.start = b.start => a = b

\* Row i holds the item.
Holds(i, item) ==
    /\ broadcasts[i].start <= item.start
    /\ broadcasts[i].end # NoTime => item.start <= broadcasts[i].end

\* Every item is in a row, and none is left to write when the process is gone.
Homes ==
    /\ \A item \in AiredItems \ unrecorded : \E i \in DOMAIN broadcasts : Holds(i, item)
    /\ engine \in {"down", "boot"} => unwritten = {}

\* What is on the air was the last to begin, tracks first; the anchor is the flip.
OnAir ==
    /\ airing # Nothing =>
          /\ airing \in AiredItems /\ engine = "air"
          /\ \A item \in AirRows : item.start <= airing.start
    /\ \A item \in unwritten : item.origin = "talk"
    /\ station.onAir => station.since = edge /\ edge # NoTime

RecordInv ==
    /\ BroadcastTypeOK
    /\ RowOrder /\ LiveRows /\ RowsInTime /\ BroadcastsDisjoint
    /\ ItemTimes /\ Homes /\ OnAir

-----------------------------------------------------------------------------
(* Operators.                                                               *)

\* A nonempty set of numbers has a least and, when bounded, a greatest one.
LEMMA LeastOf ==
  ASSUME NEW S, S \subseteq Nat, S # {}
  PROVE  \E x \in S : \A y \in S : x <= y
<1>0. S \subseteq Nat /\ S # {}
  OBVIOUS
<1>1. \E x \in S : \A y \in S : ~(<<y, x>> \in OpToRel(<, Nat))
  BY <1>0, NatLessThanWellFounded, WFMin, Zenon
<1>2. \A x, y \in Nat : ~(<<y, x>> \in OpToRel(<, Nat)) => x <= y
  BY DEF OpToRel
<1> QED
  BY <1>1, <1>2

LEMMA GreatestOf ==
  ASSUME NEW S, S \subseteq Nat, S # {}, NEW b \in Nat, \A x \in S : x <= b
  PROVE  \E x \in S : \A y \in S : y <= x
<1> DEFINE D == {b - x : x \in S}
<1>0. \A x \in S : b - x \in D /\ b - x \in Nat
  OBVIOUS
<1>1. D \subseteq Nat /\ D # {}
  BY <1>0
<1> HIDE DEF D
<1>2. PICK d \in D : \A e \in D : d <= e
  BY <1>1, LeastOf
<1>3. PICK x \in S : d = b - x
  BY <1>2 DEF D
<1>4. \A y \in S : b - y \in D
  BY DEF D
<1> QED
  BY <1>2, <1>3, <1>4

LEMMA MaxOf ==
  ASSUME NEW S, S \subseteq Nat, S # {}, NEW b \in Nat, \A x \in S : x <= b
  PROVE  Max(S) \in S /\ \A y \in S : y <= Max(S)
<1>1. \E x \in S : \A y \in S : x >= y
  BY GreatestOf
<1> QED
  BY <1>1 DEF Max

LEMMA MinOf ==
  ASSUME NEW S, S \subseteq Nat, S # {}
  PROVE  Min(S) \in S /\ \A y \in S : Min(S) <= y
<1>1. \E x \in S : \A y \in S : x =< y
  BY LeastOf
<1> QED
  BY <1>1 DEF Min

\* An item begins at an instant and ends after it.
LEMMA ItemSpan ==
  ASSUME NEW item \in Item
  PROVE  /\ item.start \in Nat /\ item.start \in Instant /\ item.start # NoTime
         /\ NominalEnd(item) \in Nat /\ item.start <= NominalEnd(item)
         /\ NominalEnd(item) <= MaxInstant + TrackLength + TalkLength
  BY BroadcastAssumption DEF Item, Instant, NominalEnd, NoTime

\* The show log has a newest item, and so have its tracks.
LEMMA NewestOf ==
  ASSUME NEW items, items \subseteq Item, items # {}
  PROVE  Newest(items) \in items /\ \A other \in items : other.start <= Newest(items).start
<1> DEFINE S == {item.start : item \in items}
<1>1. S \subseteq Nat /\ \A x \in S : x <= MaxInstant
  BY ItemSpan, BroadcastAssumption DEF Instant
<1>4. S # {}
  OBVIOUS
<1>2. PICK item \in items : \A y \in S : y <= item.start
  <2> HIDE DEF S
  <2>1. MaxInstant \in Nat /\ \E x \in S : \A y \in S : y <= x
    BY <1>1, <1>4, GreatestOf, BroadcastAssumption
  <2> QED
    BY <2>1 DEF S
<1>3. \E i \in items : \A other \in items : other.start <= i.start
  BY <1>2
<1> QED
  BY <1>3 DEF Newest

RecordRow == [start : Instant, end : Instant \cup {NoTime}]

\* The rows are indexed from 1.
LEMMA RowIndex ==
  ASSUME BroadcastTypeOK
  PROVE  /\ Len(broadcasts) \in Nat /\ DOMAIN broadcasts = 1..Len(broadcasts)
         /\ \A i \in DOMAIN broadcasts : broadcasts[i] \in RecordRow
<1>1. broadcasts \in Seq(RecordRow)
  BY DEF BroadcastTypeOK, RecordRow
<1> QED
  BY <1>1, LenProperties, ElementOfSeq

\* What a statement that closes the open rows writes.
LEMMA ClosedRows ==
  ASSUME BroadcastTypeOK, NEW ends, CloseAll(ends),
         \A i \in OpenRows : ends[i] \in Instant
  PROVE  /\ broadcasts' \in Seq(RecordRow) /\ Len(broadcasts') = Len(broadcasts)
         /\ DOMAIN broadcasts' = DOMAIN broadcasts
         /\ \A i \in DOMAIN broadcasts :
               /\ broadcasts'[i].start = broadcasts[i].start
               /\ broadcasts'[i].end = IF i \in OpenRows THEN ends[i] ELSE broadcasts[i].end
         /\ OpenRows' = {}
<1> DEFINE n == Len(broadcasts)
<1>1. n \in Nat /\ DOMAIN broadcasts = 1..n /\ \A i \in 1..n : broadcasts[i] \in RecordRow
  BY RowIndex
<1>2. \A i \in 1..n : /\ broadcasts'[i] \in RecordRow
                      /\ broadcasts'[i].start = broadcasts[i].start
                      /\ broadcasts'[i].end = IF i \in OpenRows THEN ends[i]
                                              ELSE broadcasts[i].end
  BY <1>1 DEF CloseAll, RecordRow
<1>3. broadcasts' \in [1..n -> RecordRow]
  <2>1. broadcasts' = [i \in 1..n |-> broadcasts'[i]]
    BY <1>1 DEF CloseAll
  <2> QED
    BY <2>1, <1>2
<1>4. broadcasts' \in Seq(RecordRow) /\ Len(broadcasts') = n
  <2>1. broadcasts' \in Seq(RecordRow)
    BY <1>1, <1>3, SeqDef
  <2> QED
    BY <1>1, <1>3, <2>1, LenProperties
<1>5. DOMAIN broadcasts' = 1..n
  BY <1>3
<1>6. OpenRows' = {}
  <2>1. \A i \in 1..n : broadcasts'[i].end # NoTime
    BY <1>1, <1>2 DEF OpenRows, Instant, NoTime
  <2> QED
    BY <1>5, <2>1 DEF OpenRows
<1> QED
  BY <1>1, <1>2, <1>4, <1>5, <1>6

\* What Open writes.
LEMMA OpenedRow ==
  ASSUME BroadcastTypeOK, Opens
  PROVE  /\ broadcasts' \in Seq(RecordRow) /\ Len(broadcasts') = Len(broadcasts) + 1
         /\ DOMAIN broadcasts' = 1..(Len(broadcasts) + 1)
         /\ \A i \in DOMAIN broadcasts : broadcasts'[i] = broadcasts[i]
         /\ broadcasts'[Len(broadcasts) + 1] = [start |-> instant, end |-> NoTime]
<1> DEFINE row == [start |-> instant, end |-> NoTime]
<1>1. row \in RecordRow /\ broadcasts \in Seq(RecordRow)
  BY DEF BroadcastTypeOK, RecordRow
<1>2. broadcasts' = Append(broadcasts, row)
  BY DEF Opens
<1> HIDE DEF row
<1>3. /\ broadcasts' \in Seq(RecordRow) /\ Len(broadcasts') = Len(broadcasts) + 1
      /\ \A i \in 1..Len(broadcasts) : broadcasts'[i] = broadcasts[i]
      /\ broadcasts'[Len(broadcasts) + 1] = row
  BY <1>1, <1>2, AppendProperties
<1>4. DOMAIN broadcasts' = 1..(Len(broadcasts) + 1)
  BY <1>3, LenProperties
<1> QED
  BY <1>3, <1>4, RowIndex DEF row

\* A row is reconciled to an instant between its start and now, and no item of its
\* own is cut off.
LEMMA OrphanEnds ==
  ASSUME BroadcastTypeOK, NEW i \in DOMAIN broadcasts, broadcasts[i].start <= instant
  PROVE  /\ OrphanEnd(i) \in Instant
         /\ broadcasts[i].start <= OrphanEnd(i) /\ OrphanEnd(i) <= instant
         /\ \A item \in ItemsOf(i) : item.start <= instant => item.start <= OrphanEnd(i)
<1> DEFINE S == {NominalEnd(item) : item \in ItemsOf(i)}
<1>1. broadcasts[i].start \in Instant /\ instant \in Instant
  BY RowIndex DEF BroadcastTypeOK, RecordRow
<1>2. \A item \in ItemsOf(i) : item \in Item /\ item.start >= broadcasts[i].start
  BY DEF ItemsOf, BroadcastTypeOK
<1>3. \A item \in ItemsOf(i) : /\ NominalEnd(item) \in S /\ NominalEnd(item) \in Nat
                               /\ item.start \in Nat
                               /\ item.start <= NominalEnd(item)
                               /\ NominalEnd(item) <= MaxInstant + TrackLength + TalkLength
  BY <1>2, ItemSpan
<1>4. CASE ItemsOf(i) = {}
  BY <1>1, <1>4, BroadcastAssumption DEF OrphanEnd, Earlier, Instant
<1>5. CASE ItemsOf(i) # {}
  <2>1. S \subseteq Nat /\ \A x \in S : x <= MaxInstant + TrackLength + TalkLength
    BY <1>3
  <2>2. S # {}
    BY <1>3, <1>5
  <2>0. \A x \in S : x \in Nat /\ broadcasts[i].start <= x
    BY <1>1, <1>2, <1>3 DEF Instant
  <2>3. MaxInstant + TrackLength + TalkLength \in Nat
    BY BroadcastAssumption
  <2>4. OrphanEnd(i) = Earlier(Max(S), instant)
    BY <1>5 DEF OrphanEnd
  <2> HIDE DEF S
  <2>5. Max(S) \in S /\ \A y \in S : y <= Max(S)
    BY <2>1, <2>2, <2>3, MaxOf
  <2>6. broadcasts[i].start <= Max(S) /\ Max(S) \in Nat
    BY <2>0, <2>5
  <2> QED
    BY <1>1, <1>3, <2>1, <2>4, <2>5, <2>6, BroadcastAssumption DEF Earlier, Instant
<1> QED
  BY <1>4, <1>5

-----------------------------------------------------------------------------
(* Types.                                                                   *)

LEMMA InitTypes == BroadcastInit => BroadcastTypeOK
<1> SUFFICES ASSUME BroadcastInit
             PROVE  BroadcastTypeOK
  OBVIOUS
<1>1. broadcasts \in Seq([start : Instant, end : Instant \cup {NoTime}]) /\ Len(broadcasts) = 0
  BY EmptySeq DEF BroadcastInit
<1>2. instant \in Instant /\ lapsed \subseteq DOMAIN broadcasts /\ writeFaults \in 0..MaxWriteFaults
  BY BroadcastAssumption DEF BroadcastInit, Instant
<1>3. station \in [onAir : BOOLEAN, since : Instant \cup {NoTime}]
  BY DEF BroadcastInit
<1>4. /\ stamped \in BOOLEAN /\ engine \in Engine /\ showlog = {} /\ unwritten = {}
      /\ airing = Nothing /\ awaitMusic \in BOOLEAN /\ edge = NoTime /\ unrecorded = {}
  BY DEF BroadcastInit, Engine
<1> QED
  BY <1>1, <1>2, <1>3, <1>4, BroadcastAssumption DEF BroadcastTypeOK

LEMMA NextTypes ==
  ASSUME BroadcastTypeOK, RowOrder, [BroadcastNext]_broadcastVars
  PROVE  BroadcastTypeOK'
<1> USE BroadcastAssumption DEF time, flag, record, program
<1> DEFINE RowsTyped ==
      broadcasts' \in Seq([start : Instant, end : Instant \cup {NoTime}])
      /\ Len(broadcasts') <= MaxBroadcasts /\ DOMAIN broadcasts \subseteq DOMAIN broadcasts'
<1>0. OpenRows \subseteq DOMAIN broadcasts /\ instant \in Instant
  BY DEF OpenRows, BroadcastTypeOK
<1>1. CASE UNCHANGED broadcastVars
  BY <1>1 DEF BroadcastTypeOK, broadcastVars
<1>2. CASE Passes
  <2>1. instant' \in Instant
    BY <1>0, <1>2 DEF Passes, Instant
  <2> QED
    BY <1>2, <2>1 DEF Passes, BroadcastTypeOK
<1>3. CASE GoOnAir
  <2>1. /\ station' \in [onAir : BOOLEAN, since : Instant \cup {NoTime}]
        /\ edge' \in Instant \cup {NoTime} /\ stamped' \in BOOLEAN /\ instant' = instant
    <3>1. CASE station.onAir
      BY <1>3, <3>1 DEF GoOnAir, NoStamp, BroadcastTypeOK
    <3>2. CASE ~station.onAir
      <4>1. /\ stamped' = TRUE /\ instant' = instant
            /\ station' = [onAir |-> TRUE, since |-> instant] /\ edge' = instant
        BY <1>3, <3>2, Zenon DEF GoOnAir, Stamp
      <4> QED
        BY <1>0, <4>1
    <3> QED
      BY <3>1, <3>2
  <2> QED
    BY <1>3, <2>1 DEF GoOnAir, BroadcastTypeOK
<1>16. CASE GoOffAir
  BY <1>16 DEF GoOffAir, BroadcastTypeOK
<1>4. CASE EngineStarts \/ PollsOff \/ PollsOn \/ Wakes
  BY <1>4 DEF EngineStarts, PollsOff, PollsOn, Wakes, BroadcastTypeOK, Engine
<1>5. CASE CloseOrphans
  <2> DEFINE ends == [i \in DOMAIN broadcasts |-> OrphanEnd(i)]
  <2>1. \A i \in OpenRows : ends[i] \in Instant
    BY OrphanEnds DEF OpenRows, RowOrder
  <2>2. CloseAll(ends)
    BY <1>5 DEF CloseOrphans
  <2> HIDE DEF ends
  <2>3. RowsTyped
    BY <2>1, <2>2, ClosedRows DEF RecordRow, BroadcastTypeOK
  <2> QED
    BY <1>5, <2>3 DEF CloseOrphans, BroadcastTypeOK, Engine
<1>6. CASE CloseOrphansFails
  BY <1>0, <1>6 DEF CloseOrphansFails, WriteFails, BroadcastTypeOK, Engine
<1>7. CASE Opens
  <2>1. RowsTyped
    BY <1>7, OpenedRow, RowIndex DEF RecordRow, Opens, BroadcastTypeOK
  <2> QED
    BY <1>7, <2>1 DEF Opens, BroadcastTypeOK, Engine
<1>8. CASE OpenFails
  BY <1>8 DEF OpenFails, WriteFails, BroadcastTypeOK, Engine
<1>9. CASE EnterSession
  <2>1. Resumable \in Item \cup {Nothing}
    BY NewestOf DEF Resumable, AirRows, BroadcastTypeOK
  <2> QED
    BY <1>9, <2>1 DEF EnterSession, BroadcastTypeOK, Engine
<1>10. CASE AirTrack
  <2>1. [origin |-> "air", start |-> instant, duration |-> TrackLength] \in Item
    BY <1>0 DEF Item
  <2> QED
    BY <1>10, <2>1 DEF AirTrack, Airs, Stamp, BroadcastTypeOK
<1>11. CASE AirTalk
  <2>1. [origin |-> "talk", start |-> instant, duration |-> TalkLength] \in Item
    BY <1>0 DEF Item
  <2> QED
    BY <1>11, <2>1 DEF AirTalk, Airs, Stamp, BroadcastTypeOK
<1>12. CASE TalkWritten
  BY <1>12 DEF TalkWritten, BroadcastTypeOK
<1>13. CASE ItemEnds \/ SessionEnds \/ ShutDown \/ Killed
  BY <1>13 DEF ItemEnds, SessionEnds, ShutDown, Killed, BroadcastTypeOK, Engine
<1>14. CASE Closes
  <2> DEFINE ends == [i \in DOMAIN broadcasts |-> instant]
  <2>1. \A i \in OpenRows : ends[i] \in Instant
    BY <1>0
  <2>2. CloseAll(ends)
    BY <1>14 DEF Closes
  <2> HIDE DEF ends
  <2>3. RowsTyped
    BY <2>1, <2>2, ClosedRows DEF RecordRow, BroadcastTypeOK
  <2> QED
    BY <1>14, <2>3 DEF Closes, AfterClose, BroadcastTypeOK, Engine
<1>15. CASE CloseFails
  BY <1>0, <1>15 DEF CloseFails, AfterClose, WriteFails, BroadcastTypeOK, Engine
<1> QED
  BY <1>1, <1>2, <1>3, <1>4, <1>5, <1>6, <1>7, <1>8, <1>9, <1>10, <1>11, <1>12, <1>13,
     <1>14, <1>15, <1>16 DEF BroadcastNext

-----------------------------------------------------------------------------
(* The rows.                                                                *)

Rows == RowOrder /\ LiveRows /\ RowsInTime /\ BroadcastsDisjoint

\* Times are numbers.
LEMMA RowTimes ==
  ASSUME BroadcastTypeOK
  PROVE  /\ instant \in Nat /\ instant # NoTime
         /\ \A i \in DOMAIN broadcasts :
               /\ i \in Nat /\ broadcasts[i].start \in Nat /\ broadcasts[i].end \in Nat
               /\ broadcasts[i].start # NoTime
<1>1. \A t \in Instant : t \in Nat /\ t # NoTime
  BY BroadcastAssumption DEF Instant, NoTime
<1>2. instant \in Instant
  BY DEF BroadcastTypeOK
<1>3. \A i \in DOMAIN broadcasts : i \in Nat /\ broadcasts[i] \in RecordRow
  BY RowIndex
<1>4. NoTime \in Nat
  BY DEF NoTime
<1> QED
  BY <1>1, <1>2, <1>3, <1>4 DEF RecordRow

\* Time passes, or a write fails.
LEMMA RowsKept ==
  ASSUME BroadcastTypeOK, Rows, BroadcastTypeOK', UNCHANGED broadcasts,
         instant <= instant', lapsed \subseteq lapsed',
         engine' \in {"poll", "wait", "open"} => OpenRows \subseteq lapsed'
  PROVE  Rows'
<1>0. instant' \in Nat
  BY BroadcastAssumption DEF BroadcastTypeOK, Instant
<1>1. OpenRows' = OpenRows
  BY DEF OpenRows
<1>2. RowOrder'
  BY <1>0, <1>1, RowTimes DEF Rows, RowOrder
<1>3. LiveRows'
  BY <1>1 DEF Rows, LiveRows
<1>4. RowsInTime'
  BY <1>0, RowTimes DEF Rows, RowsInTime
<1>5. BroadcastsDisjoint'
  BY DEF Rows, BroadcastsDisjoint
<1> QED
  BY <1>2, <1>3, <1>4, <1>5 DEF Rows

\* The open rows are closed, none before it began.
LEMMA RowsClosed ==
  ASSUME BroadcastTypeOK, Rows, NEW ends, CloseAll(ends), UNCHANGED <<instant, lapsed>>,
         \A i \in OpenRows : /\ ends[i] \in Instant
                             /\ broadcasts[i].start <= ends[i] /\ ends[i] <= instant
  PROVE  Rows'
<1>1. /\ DOMAIN broadcasts' = DOMAIN broadcasts
      /\ \A i \in DOMAIN broadcasts :
            /\ broadcasts'[i].start = broadcasts[i].start
            /\ broadcasts'[i].end = IF i \in OpenRows THEN ends[i] ELSE broadcasts[i].end
      /\ OpenRows' = {}
  BY ClosedRows
<1>2. RowOrder'
  BY <1>1 DEF Rows, RowOrder
<1>3. LiveRows'
  BY <1>1 DEF LiveRows
<1>4. RowsInTime'
  BY <1>1 DEF Rows, RowsInTime
<1>5. BroadcastsDisjoint'
  <2> SUFFICES ASSUME NEW i \in DOMAIN broadcasts, NEW j \in DOMAIN broadcasts,
                      i < j, i \notin lapsed
               PROVE  broadcasts'[i].end # NoTime /\ broadcasts'[i].end <= broadcasts'[j].start
    BY <1>1 DEF BroadcastsDisjoint
  <2>1. broadcasts[i].end # NoTime /\ broadcasts[i].end <= broadcasts[j].start
    BY DEF Rows, BroadcastsDisjoint
  <2>2. i \notin OpenRows
    BY <2>1 DEF OpenRows
  <2> QED
    BY <1>1, <2>1, <2>2
<1> QED
  BY <1>2, <1>3, <1>4, <1>5 DEF Rows

\* A broadcast begins when every earlier one is closed or lapsed.
LEMMA RowsOpened ==
  ASSUME BroadcastTypeOK, Rows, Opens
  PROVE  Rows'
<1> DEFINE n == Len(broadcasts) + 1
<1>1. /\ n \in Nat \ {0} /\ DOMAIN broadcasts = 1..(n - 1) /\ DOMAIN broadcasts' = 1..n
      /\ Len(broadcasts') = n
      /\ \A i \in 1..(n - 1) : broadcasts'[i] = broadcasts[i]
      /\ broadcasts'[n].start = instant /\ broadcasts'[n].end = NoTime
  BY OpenedRow, RowIndex
<1>2. /\ instant' = instant /\ lapsed' = lapsed /\ engine' = "enter"
      /\ OpenRows \subseteq lapsed
  BY DEF Opens, time, Rows, LiveRows
<1> HIDE DEF n
<1>3. OpenRows' = OpenRows \cup {n}
  <2>1. \A i : i \in 1..n <=> i \in 1..(n - 1) \/ i = n
    BY <1>1
  <2>2. \A i : i \in OpenRows' <=> i \in OpenRows \/ i = n
    BY <1>1, <2>1 DEF OpenRows
  <2> QED
    BY <2>2
<1>4. \A i \in 1..(n - 1) : broadcasts[i].start <= instant
  BY <1>1 DEF Rows, RowOrder
<1>5. RowOrder'
  BY <1>1, <1>2, <1>3, <1>4, RowTimes DEF Rows, RowOrder
<1>6. LiveRows'
  BY <1>1, <1>2, <1>3 DEF LiveRows
<1>7. RowsInTime'
  BY <1>1, <1>2 DEF Rows, RowsInTime
<1>8. BroadcastsDisjoint'
  <2> SUFFICES ASSUME NEW i \in 1..n, NEW j \in 1..n, i < j, i \notin lapsed
               PROVE  broadcasts'[i].end # NoTime /\ broadcasts'[i].end <= broadcasts'[j].start
    BY <1>1, <1>2 DEF BroadcastsDisjoint
  <2>1. i \in 1..(n - 1) /\ broadcasts'[i] = broadcasts[i]
    BY <1>1
  <2>2. CASE j = n
    <3>1. broadcasts[i].end # NoTime
      BY <1>1, <1>2, <2>1 DEF OpenRows
    <3> QED
      BY <1>1, <2>1, <2>2, <3>1 DEF Rows, RowsInTime
  <2>3. CASE j # n
    BY <1>1, <2>1, <2>3 DEF Rows, BroadcastsDisjoint
  <2> QED
    BY <2>2, <2>3
<1> QED
  BY <1>5, <1>6, <1>7, <1>8 DEF Rows

LEMMA NextRows ==
  ASSUME BroadcastTypeOK, Rows, BroadcastTypeOK', [BroadcastNext]_broadcastVars
  PROVE  Rows'
<1> USE DEF time, flag, record, program
<1>0. instant \in Nat /\ (engine \in {"poll", "wait", "open"} => OpenRows \subseteq lapsed)
  BY RowTimes DEF Rows, LiveRows
<1>1. CASE UNCHANGED broadcastVars
  BY <1>0, <1>1, RowsKept DEF broadcastVars
<1>2. CASE Passes
  BY <1>0, <1>2, RowsKept DEF Passes
<1>3. CASE GoOnAir
  BY <1>0, <1>3, RowsKept DEF GoOnAir, Stamp, NoStamp
<1>4. CASE GoOffAir \/ EngineStarts \/ PollsOff \/ PollsOn \/ OpenFails \/ EnterSession \/ Wakes
  BY <1>0, <1>4, RowsKept
  DEF GoOffAir, EngineStarts, PollsOff, PollsOn, OpenFails, EnterSession, Wakes
<1>5. CASE CloseOrphans
  <2> DEFINE ends == [i \in DOMAIN broadcasts |-> OrphanEnd(i)]
  <2>1. \A i \in OpenRows : /\ ends[i] \in Instant
                            /\ broadcasts[i].start <= ends[i] /\ ends[i] <= instant
    BY OrphanEnds DEF OpenRows, Rows, RowOrder
  <2>2. CloseAll(ends) /\ UNCHANGED <<instant, lapsed>>
    BY <1>5 DEF CloseOrphans
  <2> HIDE DEF ends
  <2> QED
    BY <2>1, <2>2, RowsClosed
<1>6. CASE CloseOrphansFails \/ CloseFails
  BY <1>0, <1>6, RowsKept DEF CloseOrphansFails, CloseFails
<1>7. CASE Opens
  BY <1>7, RowsOpened
<1>8. CASE AirTrack \/ AirTalk
  BY <1>0, <1>8, RowsKept DEF AirTrack, AirTalk, Stamp
<1>9. CASE TalkWritten \/ ItemEnds \/ SessionEnds \/ ShutDown \/ Killed
  BY <1>0, <1>9, RowsKept DEF TalkWritten, ItemEnds, SessionEnds, ShutDown, Killed
<1>10. CASE Closes
  <2> DEFINE ends == [i \in DOMAIN broadcasts |-> instant]
  <2>1. \A i \in OpenRows : /\ ends[i] \in Instant
                            /\ broadcasts[i].start <= ends[i] /\ ends[i] <= instant
    BY <1>0 DEF OpenRows, Rows, RowOrder, BroadcastTypeOK
  <2>2. CloseAll(ends) /\ UNCHANGED <<instant, lapsed>>
    BY <1>10 DEF Closes
  <2> HIDE DEF ends
  <2> QED
    BY <2>1, <2>2, RowsClosed
<1> QED
  BY <1>1, <1>2, <1>3, <1>4, <1>5, <1>6, <1>7, <1>8, <1>9, <1>10 DEF BroadcastNext

-----------------------------------------------------------------------------
(* The items.                                                               *)

\* An item that airs: AirTrack's or AirTalk's.
NewItem(item) ==
    /\ item.start = instant /\ AiredItems' = AiredItems \cup {item}
    /\ airing' = item /\ airing = Nothing /\ Airs(item)
    /\ item.origin = "air" => showlog' = showlog \cup {item} /\ unwritten' = unwritten
    /\ item.origin = "talk" => showlog' = showlog /\ unwritten' = unwritten \cup {item}
    /\ Stamp /\ UNCHANGED <<flag, broadcasts, engine>> /\ engine = "air"

\* What a step may do to the items and to the instants they are stamped with.
LEMMA ItemSteps ==
  ASSUME BroadcastTypeOK, [BroadcastNext]_broadcastVars
  PROVE  \/ \E item \in Item : NewItem(item)
         \/ /\ AiredItems' \subseteq AiredItems /\ unrecorded' = unrecorded
            /\ \/ UNCHANGED <<instant, stamped, edge>>
               \/ Passes
               \/ GoOnAir /\ ~stamped /\ edge' = instant /\ stamped' /\ instant' = instant
<1> USE DEF time, flag, record, program, AiredItems
<1>1. CASE UNCHANGED broadcastVars
  BY <1>1 DEF broadcastVars
<1>2. CASE Passes
  BY <1>2 DEF Passes
<1>3. CASE GoOnAir
  BY <1>3 DEF GoOnAir, Stamp, NoStamp
<1>4. CASE GoOffAir \/ EngineStarts \/ PollsOff \/ PollsOn \/ OpenFails \/ EnterSession \/ Wakes
  BY <1>4
  DEF GoOffAir, EngineStarts, PollsOff, PollsOn, OpenFails, EnterSession, Wakes
<1>5. CASE CloseOrphans \/ CloseOrphansFails \/ Closes \/ CloseFails \/ Opens
  BY <1>5 DEF CloseOrphans, CloseOrphansFails, Closes, CloseFails, Opens
<1>6. CASE AirTrack
  <2> DEFINE item == [origin |-> "air", start |-> instant, duration |-> TrackLength]
  <2>1. item \in Item
    BY DEF Item, BroadcastTypeOK
  <2>2. item.start = instant /\ item.origin = "air"
    OBVIOUS
  <2>3. /\ Airs(item) /\ showlog' = showlog \cup {item} /\ unwritten' = unwritten
        /\ airing = Nothing /\ engine = "air" /\ UNCHANGED <<flag, broadcasts, engine>>
        /\ Stamp
    BY <1>6 DEF AirTrack
  <2> HIDE DEF item
  <2>4. NewItem(item)
    BY <2>2, <2>3 DEF NewItem, Airs
  <2> QED
    BY <2>1, <2>4
<1>7. CASE AirTalk
  <2> DEFINE item == [origin |-> "talk", start |-> instant, duration |-> TalkLength]
  <2>1. item \in Item
    BY DEF Item, BroadcastTypeOK
  <2>2. item.start = instant /\ item.origin = "talk"
    OBVIOUS
  <2>3. /\ Airs(item) /\ unwritten' = unwritten \cup {item} /\ showlog' = showlog
        /\ airing = Nothing /\ engine = "air" /\ UNCHANGED <<flag, broadcasts, engine>>
        /\ Stamp
    BY <1>7 DEF AirTalk
  <2> HIDE DEF item
  <2>4. NewItem(item)
    BY <2>2, <2>3 DEF NewItem, Airs
  <2> QED
    BY <2>1, <2>4
<1>8. CASE TalkWritten \/ ItemEnds \/ SessionEnds \/ ShutDown \/ Killed
  BY <1>8 DEF TalkWritten, ItemEnds, SessionEnds, ShutDown, Killed
<1> QED
  BY <1>1, <1>2, <1>3, <1>4, <1>5, <1>6, <1>7, <1>8 DEF BroadcastNext

LEMMA NextTimes ==
  ASSUME BroadcastTypeOK, ItemTimes, [BroadcastNext]_broadcastVars
  PROVE  ItemTimes'
<1>0. /\ instant \in Nat /\ \A item \in AiredItems : item.start \in Nat
      /\ edge \in Nat
  BY RowTimes, ItemSpan DEF BroadcastTypeOK, AiredItems, Instant, NoTime
<1>1. CASE \E item \in Item : NewItem(item)
  <2>1. PICK item \in Item : NewItem(item)
    BY <1>1
  <2>2. ~stamped /\ stamped' /\ instant' = instant /\ edge' = edge
    BY <2>1 DEF NewItem, Stamp, flag
  <2>3. \A other \in AiredItems : other.start # instant
    BY <2>2 DEF ItemTimes
  <2> QED
    BY <1>0, <2>1, <2>2, <2>3 DEF ItemTimes, NewItem
<1>2. ASSUME AiredItems' \subseteq AiredItems
      PROVE  \A a, b \in AiredItems' : a.start = b.start => a = b
  BY <1>2 DEF ItemTimes
<1>3. CASE AiredItems' \subseteq AiredItems /\ UNCHANGED <<instant, stamped, edge>>
  BY <1>2, <1>3 DEF ItemTimes
<1>4. CASE AiredItems' \subseteq AiredItems /\ Passes
  <2>1. instant' = instant + 1 /\ edge' = edge
    BY <1>4 DEF Passes, flag
  <2>2. \A item \in AiredItems' : item \in AiredItems /\ item.start <= instant
    BY <1>4 DEF ItemTimes
  <2> QED
    BY <1>0, <1>2, <1>4, <2>1, <2>2 DEF ItemTimes
<1>5. CASE /\ AiredItems' \subseteq AiredItems
           /\ ~stamped /\ edge' = instant /\ stamped' /\ instant' = instant
  <2>1. \A item \in AiredItems' : item \in AiredItems /\ item.start # instant
    BY <1>5 DEF ItemTimes
  <2> QED
    BY <1>0, <1>2, <1>5, <2>1 DEF ItemTimes
<1> QED
  BY <1>1, <1>3, <1>4, <1>5, ItemSteps

\* A process that is gone leaves no insert under way.
LEMMA NextUnwritten ==
  ASSUME engine \in {"down", "boot"} => unwritten = {}, [BroadcastNext]_broadcastVars
  PROVE  engine' \in {"down", "boot"} => unwritten' = {}
<1> USE DEF time, flag, record, program
<1>1. CASE UNCHANGED broadcastVars
  BY <1>1 DEF broadcastVars
<1>2. CASE Passes \/ GoOnAir \/ GoOffAir \/ EngineStarts \/ PollsOff \/ PollsOn \/ Wakes
  BY <1>2 DEF Passes, GoOnAir, GoOffAir, EngineStarts, PollsOff, PollsOn, Wakes
<1>3. CASE CloseOrphans \/ CloseOrphansFails \/ Opens \/ OpenFails \/ EnterSession
  BY <1>3 DEF CloseOrphans, CloseOrphansFails, Opens, OpenFails, EnterSession
<1>4. CASE AirTrack \/ AirTalk \/ TalkWritten \/ ItemEnds \/ SessionEnds \/ ShutDown \/ Killed
  BY <1>4 DEF AirTrack, AirTalk, TalkWritten, ItemEnds, SessionEnds, ShutDown, Killed
<1>5. CASE Closes \/ CloseFails
  BY <1>5 DEF Closes, CloseFails, AfterClose
<1> QED
  BY <1>1, <1>2, <1>3, <1>4, <1>5 DEF BroadcastNext

\* Of the rows that began before an item, the last one owns it.
LEMMA OwnRow ==
  ASSUME BroadcastTypeOK, RowOrder, NEW item \in showlog, NEW i \in DOMAIN broadcasts,
         broadcasts[i].start <= item.start
  PROVE  \E j \in DOMAIN broadcasts : i <= j /\ item \in ItemsOf(j)
<1> DEFINE S == {k \in DOMAIN broadcasts : broadcasts[k].start <= item.start}
           later(j) == {broadcasts[k].start : k \in DOMAIN broadcasts} \ 1..broadcasts[j].start
<1>0. item.start \in Nat /\ item.start <= MaxInstant
  BY ItemSpan, BroadcastAssumption DEF BroadcastTypeOK, Instant
<1>1. S \subseteq Nat /\ S # {} /\ \A k \in S : k <= Len(broadcasts)
  BY RowIndex
<1>2. PICK j \in S : \A k \in S : k <= j
  <2> HIDE DEF S
  <2> QED
    BY <1>1, RowIndex, GreatestOf
<1>3. \A k \in DOMAIN broadcasts :
         broadcasts[j].start < broadcasts[k].start => item.start < broadcasts[k].start
  <2> SUFFICES ASSUME NEW k \in DOMAIN broadcasts, broadcasts[j].start < broadcasts[k].start,
                      broadcasts[k].start <= item.start
               PROVE  FALSE
    BY <1>0, RowTimes
  <2>1. k \in S /\ k <= j /\ j \in DOMAIN broadcasts
    BY <1>2
  <2>2. k # j /\ k \in Nat /\ j \in Nat
    BY <2>1, RowTimes
  <2>3. broadcasts[k].start <= broadcasts[j].start
    BY <2>1, <2>2 DEF RowOrder
  <2> QED
    BY <2>1, <2>3, RowTimes
<1>4. item.start < NextBroadcast(j)
  <2>1. CASE later(j) = {}
    BY <1>0, <2>1, BroadcastAssumption DEF NextBroadcast
  <2>2. CASE later(j) # {}
    <3>1. \A x \in later(j) : x \in Nat /\ item.start < x
      BY <1>2, <1>3, RowTimes DEF NoTime
    <3>2. NextBroadcast(j) = Min(later(j))
      BY <2>2 DEF NextBroadcast
    <3> HIDE DEF later
    <3>3. Min(later(j)) \in later(j)
      BY <2>2, <3>1, MinOf
    <3> QED
      BY <3>1, <3>2, <3>3
  <2> QED
    BY <2>1, <2>2
<1>5. i <= j /\ j \in DOMAIN broadcasts
  BY <1>2
<1>6. item \in ItemsOf(j)
  BY <1>0, <1>2, <1>4, RowTimes DEF ItemsOf
<1> QED
  BY <1>5, <1>6

Housed == \A item \in AiredItems \ unrecorded : \E i \in DOMAIN broadcasts : Holds(i, item)

\* Reconciliation cuts no item out of its broadcast.
LEMMA HousedByOrphans ==
  ASSUME BroadcastTypeOK, Rows, ItemTimes, Homes, CloseOrphans
  PROVE  Housed'
<1> DEFINE ends == [i \in DOMAIN broadcasts |-> OrphanEnd(i)]
<1>1. CloseAll(ends) /\ \A i \in DOMAIN broadcasts : ends[i] = OrphanEnd(i)
  BY DEF CloseOrphans
<1>2. \A i \in DOMAIN broadcasts :
         /\ ends[i] \in Instant
         /\ \A item \in ItemsOf(i) : item.start <= instant => item.start <= ends[i]
  BY <1>1, OrphanEnds DEF Rows, RowOrder
<1> HIDE DEF ends
<1>3. /\ DOMAIN broadcasts' = DOMAIN broadcasts
      /\ \A i \in DOMAIN broadcasts :
            /\ broadcasts'[i].start = broadcasts[i].start
            /\ broadcasts'[i].end = IF i \in OpenRows THEN ends[i] ELSE broadcasts[i].end
  BY <1>1, <1>2, ClosedRows DEF OpenRows
<1>4. /\ AiredItems = showlog /\ AiredItems' = AiredItems /\ unrecorded' = unrecorded
  BY DEF CloseOrphans, Homes, AiredItems, program
<1> SUFFICES ASSUME NEW item \in showlog \ unrecorded
             PROVE  \E i \in DOMAIN broadcasts' : Holds(i, item)'
  BY <1>4 DEF Housed
<1>5. PICK i \in DOMAIN broadcasts : Holds(i, item)
  BY <1>4 DEF Homes
<1>6. CASE i \notin OpenRows
  BY <1>3, <1>5, <1>6 DEF Holds
<1>7. CASE i \in OpenRows
  <2>1. PICK j \in DOMAIN broadcasts : i <= j /\ item \in ItemsOf(j)
    BY <1>5, OwnRow DEF Holds, Rows
  <2>2. j \in OpenRows
    BY <1>7, <2>1, RowTimes DEF Rows, RowOrder
  <2>3. item.start <= instant
    BY <1>4 DEF ItemTimes
  <2>4. broadcasts'[j].start <= item.start /\ item.start <= broadcasts'[j].end
    BY <1>2, <1>3, <2>1, <2>2, <2>3, RowTimes, ItemSpan DEF ItemsOf, BroadcastTypeOK
  <2> QED
    BY <1>3, <2>4 DEF Holds
<1> QED
  BY <1>6, <1>7

\* Close ends a row now, after every item that aired.
LEMMA HousedByClose ==
  ASSUME BroadcastTypeOK, ItemTimes, Homes, Closes
  PROVE  Housed'
<1> DEFINE ends == [i \in DOMAIN broadcasts |-> instant]
<1>1. CloseAll(ends) /\ \A i \in DOMAIN broadcasts : ends[i] = instant
  BY DEF Closes
<1> HIDE DEF ends
<1>2. \A i \in OpenRows : ends[i] \in Instant
  BY <1>1 DEF OpenRows, BroadcastTypeOK
<1>3. /\ DOMAIN broadcasts' = DOMAIN broadcasts
      /\ \A i \in DOMAIN broadcasts :
            /\ broadcasts'[i].start = broadcasts[i].start
            /\ broadcasts'[i].end = IF i \in OpenRows THEN instant ELSE broadcasts[i].end
  BY <1>1, <1>2, ClosedRows DEF OpenRows
<1>4. AiredItems' \subseteq AiredItems /\ unrecorded' = unrecorded
  BY DEF Closes, AiredItems
<1> SUFFICES ASSUME NEW item \in AiredItems \ unrecorded
             PROVE  \E i \in DOMAIN broadcasts' : Holds(i, item)'
  BY <1>4 DEF Housed
<1>5. PICK i \in DOMAIN broadcasts : Holds(i, item)
  BY DEF Homes
<1>6. item.start <= instant
  BY DEF ItemTimes
<1> QED
  BY <1>3, <1>5, <1>6 DEF Holds

LEMMA NextHomes ==
  ASSUME BroadcastTypeOK, Rows, ItemTimes, Homes, [BroadcastNext]_broadcastVars
  PROVE  Homes'
<1>1. CASE \E item \in Item : NewItem(item)
  <2>1. PICK item \in Item : NewItem(item)
    BY <1>1
  <2>2. broadcasts' = broadcasts
    BY <2>1 DEF NewItem
  <2>3. CASE Recorded
    <3>1. PICK i \in OpenRows : TRUE
      BY <2>3 DEF Recorded
    <3>2. Holds(i, item) /\ i \in DOMAIN broadcasts
      BY <2>1, <3>1 DEF Holds, OpenRows, NewItem, Rows, RowOrder
    <3>3. unrecorded' = unrecorded
      BY <2>1, <2>3 DEF NewItem, Airs
    <3> QED
      BY <2>1, <2>2, <3>2, <3>3, NextUnwritten DEF NewItem, Homes, Holds
  <2>4. CASE ~Recorded
    <3>1. unrecorded' = unrecorded \cup {item}
      BY <2>1, <2>4 DEF NewItem, Airs
    <3> QED
      BY <2>1, <2>2, <3>1, NextUnwritten DEF NewItem, Homes, Holds
  <2> QED
    BY <2>3, <2>4
<1>2. CASE AiredItems' \subseteq AiredItems /\ unrecorded' = unrecorded
  <2>1. CASE broadcasts' = broadcasts
    BY <1>2, <2>1, NextUnwritten DEF Homes, Holds
  <2>2. CASE CloseOrphans
    BY <2>2, HousedByOrphans, NextUnwritten DEF Homes, Housed
  <2>3. CASE Closes
    BY <2>3, HousedByClose, NextUnwritten DEF Homes, Housed
  <2>4. CASE Opens
    <3>1. /\ DOMAIN broadcasts \subseteq DOMAIN broadcasts'
          /\ \A i \in DOMAIN broadcasts : broadcasts'[i] = broadcasts[i]
      BY <2>4, OpenedRow, RowIndex
    <3> QED
      BY <1>2, <3>1, NextUnwritten DEF Homes, Holds
  <2>5. broadcasts' = broadcasts \/ CloseOrphans \/ Closes \/ Opens
    BY DEF BroadcastNext, broadcastVars, record, Passes, GoOnAir, GoOffAir, EngineStarts,
       CloseOrphansFails, PollsOff, PollsOn, OpenFails, EnterSession, AirTrack, AirTalk,
       TalkWritten, ItemEnds, SessionEnds, ShutDown, CloseFails, Wakes, Killed
  <2> QED
    BY <2>1, <2>2, <2>3, <2>4, <2>5
<1> QED
  BY <1>1, <1>2, ItemSteps

-----------------------------------------------------------------------------
(* What is on the air.                                                      *)

\* The anchor is the flip.
Anchored == station.onAir => station.since = edge /\ edge # NoTime

LEMMA NextAnchored ==
  ASSUME BroadcastTypeOK, Anchored, [BroadcastNext]_broadcastVars
  PROVE  Anchored'
<1>1. CASE UNCHANGED flag
  BY <1>1 DEF flag, Anchored
<1>2. CASE GoOnAir /\ ~station.onAir
  BY <1>2, RowTimes DEF GoOnAir, Anchored
<1>3. CASE GoOffAir
  BY <1>3 DEF GoOffAir, Anchored
<1>4. UNCHANGED flag \/ (GoOnAir /\ ~station.onAir) \/ GoOffAir
  BY DEF BroadcastNext, broadcastVars, Passes, GoOnAir, EngineStarts, CloseOrphans,
     CloseOrphansFails, PollsOff, PollsOn, Opens, OpenFails, EnterSession, AirTrack,
     AirTalk, TalkWritten, ItemEnds, SessionEnds, ShutDown, Closes, CloseFails, Wakes,
     Killed
<1> QED
  BY <1>1, <1>2, <1>3, <1>4

LEMMA NextOnAir ==
  ASSUME BroadcastTypeOK, ItemTimes, OnAir, [BroadcastNext]_broadcastVars
  PROVE  OnAir'
<1> USE DEF AiredItems
<1> DEFINE Heard == airing # Nothing =>
              /\ airing \in AiredItems /\ engine = "air"
              /\ \A item \in AirRows : item.start <= airing.start
           Talks == \A item \in unwritten : item.origin = "talk"
<1>0. /\ Heard /\ Talks /\ Anchored
      /\ \A item \in AirRows : item \in AiredItems /\ item.start <= instant
  BY DEF OnAir, Anchored, AirRows, ItemTimes
<1> SUFFICES Heard' /\ Talks'
  BY <1>0, NextAnchored DEF OnAir, Anchored
<1>1. CASE \E item \in Item : NewItem(item)
  <2>1. PICK item \in Item : NewItem(item)
    BY <1>1
  <2>2. \A other \in AirRows' : other \in AirRows \/ other = item
    BY <2>1 DEF NewItem, AirRows, Item
  <2> QED
    BY <1>0, <2>1, <2>2, ItemSpan DEF NewItem, Item
<1>2. CASE airing' = airing /\ engine' = engine /\ UNCHANGED <<showlog, unwritten>>
  BY <1>0, <1>2 DEF AirRows
<1>3. CASE airing' = Nothing /\ unwritten' \subseteq unwritten
  BY <1>0, <1>3
<1>4. CASE airing = Nothing /\ airing' = airing /\ unwritten' \subseteq unwritten
  BY <1>0, <1>4
<1>5. CASE TalkWritten
  <2>1. PICK item \in unwritten :
              showlog' = showlog \cup {item} /\ unwritten' = unwritten \ {item}
    BY <1>5 DEF TalkWritten
  <2>2. airing' = airing /\ engine' = engine
    BY <1>5 DEF TalkWritten
  <2>3. AirRows' = AirRows
    BY <1>0, <2>1 DEF AirRows
  <2> QED
    BY <1>0, <2>1, <2>2, <2>3
<1>6. CASE EnterSession
  <2>1. airing' = Resumable /\ engine' = "air" /\ UNCHANGED <<showlog, unwritten>>
    BY <1>6 DEF EnterSession
  <2>2. CASE Resumable = Nothing
    BY <1>0, <2>1, <2>2
  <2>3. CASE Resumable # Nothing
    <3>1. AirRows # {} /\ Resumable = Newest(AirRows)
      BY <2>3 DEF Resumable
    <3>2. AirRows \subseteq Item
      BY DEF AirRows, BroadcastTypeOK
    <3>3. Resumable \in AirRows /\ \A other \in AirRows : other.start <= Resumable.start
      BY <3>1, <3>2, NewestOf
    <3> QED
      BY <1>0, <2>1, <3>3 DEF AirRows
  <2> QED
    BY <2>2, <2>3
<1>7. \/ \E item \in Item : NewItem(item)
      \/ airing' = airing /\ engine' = engine /\ UNCHANGED <<showlog, unwritten>>
      \/ airing' = Nothing /\ unwritten' \subseteq unwritten
      \/ airing = Nothing /\ airing' = airing /\ unwritten' \subseteq unwritten
      \/ TalkWritten \/ EnterSession
  <2> USE DEF time, flag, record, program
  <2>0. engine # "air" => airing = Nothing
    BY <1>0
  <2>1. CASE UNCHANGED broadcastVars \/ Passes \/ GoOnAir \/ GoOffAir
    BY <2>1 DEF broadcastVars, Passes, GoOnAir, GoOffAir
  <2>2. CASE EngineStarts \/ CloseOrphans \/ CloseOrphansFails \/ PollsOff \/ PollsOn
    BY <2>0, <2>2 DEF EngineStarts, CloseOrphans, CloseOrphansFails, PollsOff, PollsOn
  <2>3. CASE Opens \/ OpenFails \/ Wakes
    BY <2>0, <2>3 DEF Opens, OpenFails, Wakes
  <2>4. CASE ItemEnds \/ SessionEnds \/ ShutDown \/ Killed
    BY <2>4 DEF ItemEnds, SessionEnds, ShutDown, Killed
  <2>5. CASE Closes \/ CloseFails
    BY <2>0, <2>5 DEF Closes, CloseFails
  <2>6. CASE AirTrack \/ AirTalk
    <3>1. ~(AiredItems' \subseteq AiredItems)
      <4>1. PICK item : item.start = instant /\ item \in AiredItems' /\ ~stamped
        BY <2>6 DEF AirTrack, AirTalk, Stamp
      <4>2. item \notin AiredItems
        BY <4>1 DEF ItemTimes
      <4> QED
        BY <4>1, <4>2
    <3> QED
      BY <3>1, ItemSteps
  <2> QED
    BY <2>1, <2>2, <2>3, <2>4, <2>5, <2>6 DEF BroadcastNext
<1> QED
  BY <1>1, <1>2, <1>3, <1>4, <1>5, <1>6, <1>7

-----------------------------------------------------------------------------
(* Theorems.                                                                *)

\* The rows, the items and what is on the air fit together in every state.
THEOREM BroadcastInductive == BroadcastSpec => []RecordInv
<1>1. BroadcastInit => RecordInv
  <2> SUFFICES ASSUME BroadcastInit
               PROVE  RecordInv
    OBVIOUS
  <2>1. DOMAIN broadcasts = {} /\ AiredItems = {} /\ instant = 1 /\ edge = 0
    BY DEF BroadcastInit, AiredItems, NoTime
  <2>2. RowOrder /\ RowsInTime /\ BroadcastsDisjoint /\ LiveRows
    BY <2>1 DEF RowOrder, LiveRows, OpenRows, RowsInTime, BroadcastsDisjoint
  <2>3. ItemTimes /\ Homes /\ OnAir
    BY <2>1 DEF ItemTimes, Homes, OnAir, BroadcastInit, AiredItems
  <2> QED
    BY <2>2, <2>3, InitTypes DEF RecordInv
<1>2. RecordInv /\ [BroadcastNext]_broadcastVars => RecordInv'
  BY NextTypes, NextRows, NextTimes, NextHomes, NextOnAir DEF RecordInv, Rows
<1> QED
  BY <1>1, <1>2, PTL DEF BroadcastSpec

\* Types: no more session rows than the bound, and items of one of the two origins.
THEOREM BroadcastTyped == BroadcastSpec => []BroadcastTypeOK
<1>1. RecordInv => BroadcastTypeOK
  BY DEF RecordInv
<1> QED
  BY <1>1, BroadcastInductive, PTL

\* The session rows, whatever is killed and whichever write fails: none ends before it
\* starts or after now, one is open only while its broadcast runs or until its process
\* is replaced, and two overlap only when the write that closes the earlier one failed.
THEOREM RecordKept == BroadcastSpec => []BroadcastRecord
<1>1. RecordInv => BroadcastRecord
  <2> SUFFICES ASSUME RecordInv
               PROVE  OpenRowsLive
    BY DEF RecordInv, BroadcastRecord
  <2>1. OpenRows \ lapsed \subseteq {Len(broadcasts)}
    BY DEF RecordInv, LiveRows
  <2>2. Cardinality(OpenRows \ lapsed) <= 1
    <3>1. CASE OpenRows \ lapsed = {}
      BY <3>1, FS_EmptySet
    <3>2. CASE OpenRows \ lapsed = {Len(broadcasts)}
      <4>1. Cardinality(OpenRows \ lapsed) = 1
        BY <3>2, FS_Singleton, Zenon
      <4> QED
        BY <4>1
    <3> QED
      BY <2>1, <3>1, <3>2
  <2> QED
    BY <2>2 DEF RecordInv, LiveRows, OpenRowsLive
<1> QED
  BY <1>1, BroadcastInductive, PTL

\* Every row of the show log lies in the broadcast it aired in, or in one that a failed
\* write left out: neither Close nor the reconciliation of a killed process cuts it off.
THEOREM ItemsHoused == BroadcastSpec => []ItemsInsideBroadcasts
<1>1. RecordInv => ItemsInsideBroadcasts
  BY DEF RecordInv, Homes, Holds, AiredItems, ItemsInsideBroadcasts
<1> QED
  BY <1>1, BroadcastInductive, PTL

\* While an item airs within its nominal length the console shows that item, whatever
\* flips, resumes, kills and skips came before, but for the exceptions the property
\* names.
THEOREM ConsoleRight == BroadcastSpec => []AiringReported
<1>1. RecordInv => AiringReported
  <2> SUFFICES ASSUME RecordInv, airing # Nothing, station.onAir, Running(airing),
                      ~(airing.origin = "talk" /\ airing.start < edge),
                      airing \notin unwritten,
                      \A item \in showlog : item.origin = "talk"
                          => ~(item.start > Later(edge, airing.start))
               PROVE  ReportedAiring = airing
    BY DEF AiringReported
  <2> DEFINE n == Newest(showlog)
  <2>1. airing \in showlog /\ showlog \subseteq Item /\ airing \in AiredItems
    BY DEF RecordInv, OnAir, AiredItems, BroadcastTypeOK
  <2>2. n \in showlog /\ \A other \in showlog : other.start <= n.start
    BY <2>1, NewestOf
  <2>3. station.since = edge /\ edge # NoTime /\ edge \in Nat
    BY RowTimes DEF RecordInv, OnAir, ItemTimes, BroadcastTypeOK, Instant, NoTime
  <2>4. \A a, b \in showlog : a.start = b.start => a = b
    BY DEF RecordInv, ItemTimes, AiredItems
  <2>5. \A item \in showlog :
           item.start \in Nat /\ item.start # edge /\ item.origin \in {"air", "talk"}
    BY <2>1, ItemSpan DEF RecordInv, ItemTimes, AiredItems, Item
  <2>6. \A item \in AirRows : item.start <= airing.start
    BY DEF RecordInv, OnAir
  <2> HIDE DEF n
  <2>7. CASE n = airing
    BY <2>1, <2>2, <2>3, <2>5, <2>7 DEF ReportedAiring, n
  <2>8. CASE n # airing
    <3>1. airing.start < n.start
      BY <2>1, <2>2, <2>4, <2>5, <2>8
    <3>2. n.origin = "talk"
      BY <2>1, <2>2, <2>5, <2>6, <3>1 DEF AirRows
    <3>3. n.start < edge /\ airing.start < edge
      BY <2>1, <2>2, <2>3, <2>5, <3>1, <3>2 DEF Later
    <3>4. airing \in AirRows
      BY <2>1, <2>5, <3>3 DEF AirRows
    <3>5. Newest(AirRows) = airing
      <4>1. /\ Newest(AirRows) \in AirRows
            /\ \A other \in AirRows : other.start <= Newest(AirRows).start
        BY <2>1, <3>4, NewestOf DEF AirRows
      <4> QED
        BY <2>4, <2>5, <2>6, <3>4, <4>1 DEF AirRows
    <3>6. Resumable = airing
      BY <3>4, <3>5 DEF Resumable
    <3> QED
      BY <2>1, <2>3, <3>2, <3>3, <3>6 DEF ReportedAiring, n
  <2> QED
    BY <2>7, <2>8
<1> QED
  BY <1>1, BroadcastInductive, PTL
=============================================================================
