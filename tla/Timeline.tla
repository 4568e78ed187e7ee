----------------------------- MODULE Timeline -----------------------------
(***************************************************************************)
(* The console's running order: timeline.Project walks the queue and the   *)
(* format clock ahead from one snapshot of the station.  Beside it runs the *)
(* station itself from the same snapshot, undisturbed: each track plays to  *)
(* its end, and the director, whose last tick comes before every seam, has  *)
(* prepared what is due by then.  The two take turns, one item each, so     *)
(* that what is projected can be held against what airs.                    *)
(*                                                                         *)
(* A timer elapses for both or for none.  Durations are left out: the walk  *)
(* may stop after any item (its horizon) and stops after MaxSegments.       *)
(***************************************************************************)
EXTENDS Cadence, Sequences, FiniteSets

CONSTANTS QueueRows,    \* rows of the pending set, numbered in queue order
          Snapshots,    \* what GetShowTimeline may have read
          MaxSegments   \* the cap on projected items

NoRow == 0
ASSUME TimelineAssumption ==
    QueueRows \subseteq Nat \ {NoRow} /\ IsFiniteSet(QueueRows) /\ MaxSegments \in Nat

\* The committed next track: a request's row, or NoRow for a shuffle pick;
\* known when the library has its track.
NextUps == [set : BOOLEAN, row : QueueRows \cup {NoRow}, known : BOOLEAN]
NothingNext == [set |-> FALSE, row |-> NoRow, known |-> FALSE]

\* timeline.State.  known: the rows whose track is in Durations.  fresh: the
\* prepared clip names no track, or the one on the air.
Snapshot ==
    [onAir : BOOLEAN, present : BOOLEAN, ai : BOOLEAN, funded : BOOLEAN, heard : BOOLEAN,
     airing : {"none", "track", "break"},
     pending : [QueueRows -> {"none", "approved", "ready"}], known : SUBSET QueueRows,
     nextUp : NextUps, clip : Kinds \cup {NoKind}, fresh : BOOLEAN, cad : CadenceState]

ASSUME SnapshotsAssumption == Snapshots \subseteq Snapshot

Certainties == {"prepared", "due", "committed", "projected", "unknown"}
Segment == [kind : Kinds \cup {"track", "unknown"}, row : QueueRows \cup {NoRow}]
Projected == [item : Segment, certainty : Certainties]

VARIABLES snap,      \* the State the console read
          walk,      \* locals of Project
          upcoming,  \* the running order
          ahead,     \* the station, played on from the snapshot
          aired      \* what it airs

timelineVars == <<snap, walk, upcoming, ahead, aired>>

IsBreak(segment) == segment.kind \in Kinds
Break(kind) == [kind |-> kind, row |-> NoRow]
Track(row) == [kind |-> "track", row |-> row]
Unknown == [kind |-> "unknown", row |-> NoRow]

\* Gate: the first thing to fix before another break can come.
Gate(s) ==
    CASE ~s.onAir -> "off_air"
      [] ~s.present -> "dj_disabled"
      [] ~s.ai -> "ai_paused"
      [] ~s.funded -> "budget_reached"
      [] ~s.heard -> "no_listeners"
      [] OTHER -> "ok"

\* readyOnly: the rows that hold a place on the air.
ReadyRows(s) == {r \in QueueRows : s.pending[r] = "ready"}
StagingRows(s) == {r \in QueueRows : s.pending[r] = "approved"}

\* The head of a set of rows.
HeadRow(rows) == CHOOSE r \in rows : \A q \in rows : r <= q

\* The locals of Project when the walk starts.
StartOfWalk(s) ==
    [cad |-> [s.cad EXCEPT !.music = @ \/ s.airing = "track"], ready |-> ReadyRows(s),
     nextUp |-> s.nextUp, lastWasBreak |-> s.airing = "break", first |-> TRUE]

\* The station at the moment the snapshot was read.
StationAt(s) ==
    [pc |-> "seam", cad |-> s.cad, clip |-> s.clip, fresh |-> s.fresh, airing |-> s.airing,
     nextUp |-> s.nextUp, rolled |-> FALSE, ready |-> ReadyRows(s)]

Read(s) ==
    /\ snap = s
    /\ walk = StartOfWalk(s)
    /\ upcoming = <<>>
    /\ ahead = StationAt(s)
    /\ aired = <<>>

TimelineInit == \E s \in Snapshots : Read(s)

-----------------------------------------------------------------------------
(* Project, one iteration of its loop an action.                            *)

\* Timers that run out while an item airs.
Elapse(c, timers) ==
    [c EXCEPT !.stationID = IF @ = "running" /\ "stationID" \in timers THEN "elapsed" ELSE @,
              !.musing = IF @ = "running" /\ "musing" \in timers THEN "elapsed" ELSE @,
              !.daypart = @ /\ "daypart" \notin timers]

WalkTurnBug == snap.onAir /\ Len(upcoming) = Len(aired) /\ Len(upcoming) <= MaxSegments
WalkTurn ==
    /\ snap.onAir
    /\ Len(upcoming) = Len(aired)
    /\ Len(upcoming) < MaxSegments

Emit(segment, certainty) ==
    upcoming' = Append(upcoming, [item |-> segment, certainty |-> certainty])

SeamArmBug(c) ==
    IF walk.first /\ snap.clip # NoKind /\ snap.fresh THEN <<snap.clip, "prepared">>
    ELSE <<IF Gate(snap) = "ok" THEN DueKind(c) ELSE NoKind, "due">>

SeamArmSwapped(c) ==
    IF walk.lastWasBreak THEN <<NoKind, "due">>
    ELSE IF Gate(snap) = "ok" /\ DueKind(c) # NoKind THEN <<DueKind(c), "due">>
    ELSE IF walk.first /\ snap.clip # NoKind /\ snap.fresh THEN <<snap.clip, "prepared">>
    ELSE <<NoKind, "due">>

\* seamArm: a break never follows a break; a prepared clip airs whatever the
\* gate says; another one only while it is open.
SeamArm(c) ==
    IF walk.lastWasBreak THEN <<NoKind, "due">>
    ELSE IF walk.first /\ snap.clip # NoKind /\ snap.fresh THEN <<snap.clip, "prepared">>
    ELSE <<IF Gate(snap) = "ok" THEN DueKind(c) ELSE NoKind, "due">>

ProjectBreak(timers) ==
    LET c == Elapse(walk.cad, timers)
        arm == SeamArm(c)
    IN  /\ WalkTurn
        /\ arm[1] # NoKind
        /\ Emit(Break(arm[1]), arm[2])
        /\ walk' = [walk EXCEPT !.cad = Advance(c, arm[1]), !.lastWasBreak = TRUE,
                                !.first = FALSE]
        /\ ahead' = [ahead EXCEPT !.cad = Elapse(@, timers)]
        /\ UNCHANGED <<snap, aired>>

PinAirsBug(s) == s.nextUp.set /\ s.nextUp.known

\* The pin airs if the library has its track and its request is still ready.
PinAirs(s) ==
    /\ s.nextUp.set
    /\ s.nextUp.known
    /\ s.nextUp.row # NoRow => s.pending[s.nextUp.row] = "ready"

\* The rows left, the pin consumed whether or not it aired.
AfterMusic(rows) == [walk EXCEPT !.ready = rows, !.nextUp = NothingNext,
                                 !.lastWasBreak = FALSE, !.first = FALSE]

\* musicArm: the pin, else the first ready row whose track is known (those
\* before it are popped), else a block nobody can name.
ProjectMusic(timers) ==
    LET c == Elapse(walk.cad, timers)
        pinned == walk.nextUp.set /\ PinAirs(snap)
        playable == walk.ready \cap snap.known
        row == IF pinned THEN snap.nextUp.row ELSE HeadRow(playable)
        left == IF pinned THEN walk.ready \ {row}
                ELSE IF playable # {} THEN {r \in walk.ready : r > row} ELSE {}
    IN  /\ WalkTurn
        /\ SeamArm(c)[1] = NoKind
        /\ \/ pinned /\ Emit(Track(row), "committed")
           \/ ~pinned /\ playable # {} /\ Emit(Track(row), "projected")
           \/ ~pinned /\ playable = {} /\ Emit(Unknown, "unknown")
        /\ walk' = [AfterMusic(left) EXCEPT !.cad = AdvanceMusic(c)]
        /\ ahead' = [ahead EXCEPT !.cad = Elapse(@, timers)]
        /\ UNCHANGED <<snap, aired>>

-----------------------------------------------------------------------------
(* The station, played on: Feeder's and Director's steps without faults.    *)

StationTurn == Len(aired) < Len(upcoming)

\* TrackFinished comes before Take.
Finished(c) == IF ahead.airing = "track" THEN AdvanceMusic(c) ELSE c

\* The slot when the item on the air ends: a waiting clip, or what the last
\* tick found due.
Slot ==
    IF ahead.clip # NoKind THEN ahead.clip
    ELSE IF Gate(snap) = "ok" THEN DueKind(ahead.cad) ELSE NoKind

Taken == ahead.airing # "break" /\ Slot # NoKind /\ (ahead.clip # NoKind => ahead.fresh)

\* Take hands over the break, and it airs.
BreakAirs ==
    /\ StationTurn /\ ahead.pc = "seam" /\ Taken
    /\ aired' = Append(aired, Break(Slot))
    /\ ahead' = [ahead EXCEPT !.cad = Advance(Finished(@), Slot), !.clip = NoKind,
                              !.airing = "break"]
    /\ UNCHANGED <<snap, walk, upcoming>>

\* No break: none is due, the clip is stale and dropped, or a break just aired.
NoBreakAirs ==
    /\ StationTurn /\ ahead.pc = "seam" /\ ~Taken
    /\ ahead' = [ahead EXCEPT !.cad = Finished(@), !.pc = "plan",
                              !.clip = IF ahead.airing = "break" THEN @ ELSE NoKind]
    /\ UNCHANGED <<snap, walk, upcoming, aired>>

\* The announced track's request is aired; commitNextUp pins a shuffle pick
\* when nothing is pending, and clears the pin when something is.  A waiting
\* seam is now anchored to a track that is over.
TrackStarts(segment, row) ==
    LET ready == ahead.ready \ {row}
        alone == ready \cup StagingRows(snap) = {}
    IN  /\ aired' = Append(aired, segment)
        /\ ahead' = [ahead EXCEPT !.pc = "seam", !.airing = "track", !.ready = ready,
                                  !.fresh = ahead.clip # Seam, !.rolled = alone,
                                  !.nextUp = [NothingNext EXCEPT !.set = alone,
                                                                 !.known = alone]]
        /\ UNCHANGED <<snap, walk, upcoming>>

\* A pick the station rolled after the snapshot has no name in it.
AirPin ==
    /\ StationTurn /\ ahead.pc = "plan" /\ ahead.nextUp.set
    /\ ahead.nextUp.known
    /\ ahead.nextUp.row # NoRow => ahead.nextUp.row \in ahead.ready
    /\ TrackStarts(IF ahead.rolled THEN Unknown ELSE Track(ahead.nextUp.row), ahead.nextUp.row)

SkipPin ==
    /\ StationTurn /\ ahead.pc = "plan" /\ ahead.nextUp.set
    /\ \/ ~ahead.nextUp.known
       \/ ahead.nextUp.row # NoRow /\ ahead.nextUp.row \notin ahead.ready
    /\ ahead' = [ahead EXCEPT !.nextUp = NothingNext]
    /\ UNCHANGED <<snap, walk, upcoming, aired>>

AirRequest ==
    /\ StationTurn /\ ahead.pc = "plan" /\ ~ahead.nextUp.set /\ ahead.ready # {}
    /\ HeadRow(ahead.ready) \in snap.known
    /\ TrackStarts(Track(HeadRow(ahead.ready)), HeadRow(ahead.ready))

\* The track is gone: the request fails, and the feed plans again.
FailRequest ==
    /\ StationTurn /\ ahead.pc = "plan" /\ ~ahead.nextUp.set /\ ahead.ready # {}
    /\ HeadRow(ahead.ready) \notin snap.known
    /\ ahead' = [ahead EXCEPT !.ready = @ \ {HeadRow(@)}]
    /\ UNCHANGED <<snap, walk, upcoming, aired>>

AirShuffle ==
    /\ StationTurn /\ ahead.pc = "plan" /\ ~ahead.nextUp.set /\ ahead.ready = {}
    /\ TrackStarts(Unknown, NoRow)

\* The projection is returned: off the air at once, or at the cap.
Returned ==
    /\ ~snap.onAir \/ (Len(upcoming) = MaxSegments /\ ~StationTurn)
    /\ UNCHANGED timelineVars

Timers == {"stationID", "musing", "daypart"}

TimelineNext ==
    \/ \E timers \in SUBSET Timers : ProjectBreak(timers) \/ ProjectMusic(timers)
    \/ BreakAirs \/ NoBreakAirs
    \/ AirPin \/ SkipPin \/ AirRequest \/ FailRequest \/ AirShuffle
    \/ Returned

TimelineSpec == TimelineInit /\ [][TimelineNext]_timelineVars

-----------------------------------------------------------------------------
(* Properties.                                                              *)

Walking ==
    [cad : CadenceState, ready : SUBSET QueueRows, nextUp : NextUps,
     lastWasBreak : BOOLEAN, first : BOOLEAN]
Ahead ==
    [pc : {"seam", "plan"}, cad : CadenceState, clip : Kinds \cup {NoKind}, fresh : BOOLEAN,
     airing : {"none", "track", "break"}, nextUp : NextUps, rolled : BOOLEAN,
     ready : SUBSET QueueRows]

\* Types; Project never returns more than MaxSegments.
TimelineTypeOK ==
    /\ snap \in Snapshot
    /\ walk \in Walking
    /\ upcoming \in Seq(Projected)
    /\ ahead \in Ahead
    /\ aired \in Seq(Segment)
    /\ Len(aired) <= Len(upcoming)
    /\ Len(upcoming) <= MaxSegments

\* The running order the console shows never has two breaks in a row (nor one
\* right after a break on the air), shows no request twice although a pinned
\* one also stands in the queue, and shows a prepared break at its head only.
BreaksApart ==
    \A i \in 1..Len(upcoming) :
        IsBreak(upcoming[i].item) =>
            IF i = 1 THEN snap.airing # "break" ELSE ~IsBreak(upcoming[i - 1].item)
RowsOnce ==
    \A i, j \in 1..Len(upcoming) :
        i # j /\ upcoming[i].item.row # NoRow => upcoming[i].item.row # upcoming[j].item.row
PreparedFirst ==
    \A i \in 1..Len(upcoming) : upcoming[i].certainty = "prepared" => i = 1
RunningOrder == BreaksApart /\ RowsOnce /\ PreparedFirst

\* While it does not name a track, the projection has not named the wrong one:
\* at any depth the music it shows is the music the station airs, pin, queue,
\* lost tracks and shuffle blocks in the same order (timeline.go calls this the
\* package's one hard obligation, at depth one).
TrackCount(items, i, j) == Cardinality({k \in i..j : ~IsBreak(items[k])})
Order == [i \in 1..Len(upcoming) |-> upcoming[i].item]
MusicAgrees ==
    \A i \in 1..Len(upcoming), j \in 1..Len(aired) :
        /\ ~IsBreak(Order[i]) /\ ~IsBreak(aired[j])
        /\ TrackCount(Order, 1, i - 1) = TrackCount(aired, 1, j - 1)
        => Order[i] = aired[j]

\* With a track on the air, not the session's first, and no stale clip in the
\* slot, the projection is exact up to and including the first break it shows:
\* kind, place and everything before.  (The walk counts the track on the air as
\* music heard, which the director does only when it ends; and it shows a due
\* break where the station only discards the stale clip.)
FirstBreakAgrees ==
    snap.airing = "track" /\ snap.cad.music /\ snap.fresh =>
        \A i \in 1..Len(aired) :
            (\A j \in 1..(i - 1) : ~IsBreak(upcoming[j].item)) => aired[i] = upcoming[i].item

\* Tracks between two seams, in either order.
SeamsApart(items) ==
    \A i, j \in 1..Len(items) :
        i < j /\ items[i].kind = Seam /\ items[j].kind = Seam =>
            TrackCount(items, i, j) >= BreakEvery

\* cadence.go: "the default cadence is truly every BreakEvery tracks".  Two seams
\* on the air have at least that many tracks between them, whatever else airs.
CadenceKept == SeamsApart(aired)

\* The same of what the console shows.
ProjectedCadence == SeamsApart(Order)
=============================================================================
