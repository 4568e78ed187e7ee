------------------------------ MODULE Cadence ------------------------------
(***************************************************************************)
(* internal/cadence: the format clock, pure.  A state is a record; a timer *)
(* is abstracted to what DueKind asks of it: never started (the zero time), *)
(* still running, or elapsed; a daypart rollover is owed until it airs or  *)
(* its window has passed.  The settings are constants.                     *)
(***************************************************************************)
EXTENDS Naturals

CONSTANTS BreakEvery,    \* seam every so many tracks; 0 disables
          UseStationID,  \* StationIDMin > 0 and the station-ID file has lines
          UseMusing      \* MusingEveryMin > 0

ASSUME CadenceAssumption ==
    BreakEvery \in Nat /\ UseStationID \in BOOLEAN /\ UseMusing \in BOOLEAN

NoKind == "none"
StationID == "station_id"
Seam == "seam"
Musing == "musing"
DaypartTransition == "daypart_transition"
WakeGreeting == "wake_greeting"
Kinds == {StationID, Seam, Musing, DaypartTransition, WakeGreeting}

Timer == {"unset", "running", "elapsed"}

\* finished saturates at BreakEvery: DueKind compares it with BreakEvery - 1.
CadenceState ==
    [music : BOOLEAN, finished : 0..BreakEvery, stationID : Timer, musing : Timer,
     daypart : BOOLEAN, wake : BOOLEAN, forced : BOOLEAN]

NewCadence ==
    [music |-> FALSE, finished |-> 0, stationID |-> "unset", musing |-> "unset",
     daypart |-> FALSE, wake |-> FALSE, forced |-> FALSE]

\* The term of DueKind that makes one kind due.
Owed(c, kind) ==
    CASE kind = StationID -> UseStationID /\ c.stationID = "elapsed"
      [] kind = WakeGreeting -> c.music /\ c.wake
      [] kind = DaypartTransition -> c.music /\ c.daypart
      [] kind = Musing -> c.music /\ UseMusing /\ c.musing = "elapsed"
      [] kind = Seam -> c.music /\ (c.forced \/ (BreakEvery > 0
                                                 /\ c.finished + 1 >= BreakEvery))
      [] OTHER -> FALSE

\* The first kind of the ladder that is owed.
Ladder == <<StationID, WakeGreeting, DaypartTransition, Musing, Seam>>

DueKind(c) ==
    LET owed == {k \in DOMAIN Ladder : Owed(c, Ladder[k])}
    IN  IF owed = {} THEN NoKind
        ELSE Ladder[CHOOSE k \in owed : \A l \in owed : k <= l]

AdvanceBug(c, kind) ==
    CASE kind = StationID -> [c EXCEPT !.stationID = "running"]
      [] kind = Seam -> [c EXCEPT !.forced = FALSE]
      [] kind = Musing -> [c EXCEPT !.finished = 0, !.musing = "running"]
      [] kind = DaypartTransition -> [c EXCEPT !.finished = 0, !.daypart = FALSE]
      [] OTHER -> [c EXCEPT !.finished = 0, !.wake = FALSE]

\* What airing a talk segment does: everything she authored resets the seam
\* counter, only a seam answers a forced break.
Advance(c, kind) ==
    LET reset == [c EXCEPT !.finished = 0]
    IN  CASE kind = StationID -> [c EXCEPT !.stationID = "running"]
          [] kind = Seam -> [reset EXCEPT !.forced = FALSE]
          [] kind = Musing -> [reset EXCEPT !.musing = "running"]
          [] kind = DaypartTransition -> [reset EXCEPT !.daypart = FALSE]
          [] kind = WakeGreeting -> [reset EXCEPT !.wake = FALSE]
          [] OTHER -> c

\* A music item stops airing.
AdvanceMusicBug(c) ==
    [c EXCEPT !.finished = IF @ + 1 < BreakEvery THEN @ + 1 ELSE 0, !.music = TRUE]
AdvanceMusic(c) ==
    [c EXCEPT !.finished = IF @ < BreakEvery THEN @ + 1 ELSE @, !.music = TRUE]

\* RunOnce on the off-to-on edge: the whole clock restarts and owes a greeting.
OpenSession(c) ==
    [NewCadence EXCEPT !.stationID = "running", !.musing = "running", !.wake = TRUE]

\* RunOnce on the resume of a paused DJ: a greeting, the timers restart.
ResumeDJ(c) == [c EXCEPT !.wake = TRUE, !.stationID = "running", !.musing = "running"]
=============================================================================
