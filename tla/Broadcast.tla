----------------------------- MODULE Broadcast -----------------------------
(***************************************************************************)
(* When the station was on the air, and what the console says airs now.    *)
(* The operator flips station.on_air; the engine (live.Engine.Run) notices, *)
(* opens a broadcast_session row, runs the feeder's session, and closes the *)
(* row; a restarted process first closes the rows a killed one left open,  *)
(* from the show log.  Three records that no transaction ties together: the *)
(* station row, the session rows and the show log.                         *)
(*                                                                         *)
(* Time is a count of instants.  Two stamps are never the same instant     *)
(* (`stamped`): the code's are microseconds apart.                         *)
(***************************************************************************)
EXTENDS Naturals, FiniteSets, Sequences, FiniteSetsExt

CONSTANTS TrackLength, TalkLength,  \* nominal durations
          MaxInstant,      \* bound on time
          MaxBroadcasts,   \* bound on session rows
          MaxWriteFaults   \* bound on failed writes of session rows

ASSUME BroadcastAssumption ==
    /\ TrackLength \in Nat \ {0} /\ TalkLength \in Nat \ {0}
    /\ MaxInstant \in Nat \ {0} /\ MaxBroadcasts \in Nat /\ MaxWriteFaults \in Nat

NoTime == 0
Instant == 1..MaxInstant

\* A row of air_log or talk_segment; duration is the nominal one.
Item == [origin : {"air", "talk"}, start : Instant, duration : {TrackLength, TalkLength}]
Nothing == [origin |-> "none", start |-> NoTime, duration |-> NoTime]
NominalEnd(item) == item.start + item.duration

VARIABLES instant, stamped,
          station,       \* the singleton row: on_air and on_air_since
          engine,        \* where Run is; "down": no process
          broadcasts,    \* broadcast_session
          showlog,       \* air_log and talk_segment together
          unwritten,     \* talk rows whose detached insert is under way
          airing,        \* the item on the air
          awaitMusic,    \* RunSession's local: one talk break per seam
          edge,          \* history: when the last off-to-on flip was
          lapsed,        \* history: rows a failed write left open
          unrecorded,    \* history: items of a broadcast whose Open failed
          writeFaults    \* failed writes so far

time == <<instant, stamped>>
flag == <<station, edge>>
record == <<broadcasts, lapsed, unrecorded, writeFaults>>
program == <<showlog, unwritten, airing, awaitMusic>>
broadcastVars == <<time, flag, engine, record, program>>

OpenRows == {i \in DOMAIN broadcasts : broadcasts[i].end = NoTime}
Later(a, b) == IF a < b THEN b ELSE a
Earlier(a, b) == IF a < b THEN a ELSE b

BroadcastInit ==
    /\ instant = 1 /\ stamped = FALSE
    /\ station = [onAir |-> FALSE, since |-> NoTime]
    /\ engine = "down"
    /\ broadcasts = <<>> /\ showlog = {} /\ unwritten = {}
    /\ airing = Nothing /\ awaitMusic = FALSE
    /\ edge = NoTime
    /\ lapsed = {} /\ unrecorded = {} /\ writeFaults = 0

\* An item airs to its end at the latest, and not a chunk longer than the flag.
Passes ==
    /\ instant < MaxInstant
    /\ airing # Nothing => station.onAir /\ instant < NominalEnd(airing)
    /\ instant' = instant + 1 /\ stamped' = FALSE
    /\ UNCHANGED <<flag, engine, record, program>>

Stamp == ~stamped /\ stamped' = TRUE /\ UNCHANGED instant
NoStamp == UNCHANGED time

-----------------------------------------------------------------------------
(* The operator.                                                            *)

GoOnAirBug ==
    /\ Stamp /\ station' = [onAir |-> TRUE, since |-> instant]
    /\ edge' = IF station.onAir THEN edge ELSE instant
    /\ UNCHANGED <<engine, record, program>>

\* The anchor moves on the off-to-on edge only.
GoOnAir ==
    /\ IF station.onAir THEN NoStamp /\ UNCHANGED flag
       ELSE Stamp /\ station' = [onAir |-> TRUE, since |-> instant] /\ edge' = instant
    /\ UNCHANGED <<engine, record, program>>

GoOffAir ==
    /\ station' = [onAir |-> FALSE, since |-> NoTime]
    /\ UNCHANGED <<time, edge, engine, record, program>>

-----------------------------------------------------------------------------
(* Engine.Run.                                                              *)

WriteFails == writeFaults < MaxWriteFaults /\ writeFaults' = writeFaults + 1

EngineStarts ==
    /\ engine = "down"
    /\ engine' = "boot"
    /\ UNCHANGED <<time, flag, record, program>>

NextBroadcast(i) ==
    LET later == {broadcasts[j].start : j \in DOMAIN broadcasts} \ 1..broadcasts[i].start
    IN  IF later = {} THEN MaxInstant + 1 ELSE Min(later)

ItemsOf(i) ==
    {item \in showlog : item.start >= broadcasts[i].start /\ item.start < NextBroadcast(i)}

OrphanEndUnclamped(i) ==
    IF ItemsOf(i) = {} THEN broadcasts[i].start
    ELSE Max({NominalEnd(item) : item \in ItemsOf(i)})

\* broadcast.MemStore, the tests' twin, has no show log to consult: a row ends
\* where it started.
MemOrphanEnd(i) == Earlier(broadcasts[i].start, instant)

\* Where a row ends that no process closed: at the end of the last item that
\* aired in it before the next broadcast, its own start if none did, and now at
\* the latest.
OrphanEnd(i) ==
    Earlier(IF ItemsOf(i) = {} THEN broadcasts[i].start
            ELSE Max({NominalEnd(item) : item \in ItemsOf(i)}), instant)

CloseAll(ends) ==
    broadcasts' = [i \in DOMAIN broadcasts |->
                      IF i \in OpenRows THEN [broadcasts[i] EXCEPT !.end = ends[i]]
                      ELSE broadcasts[i]]

CloseOrphansBug ==
    /\ engine = "boot"
    /\ CloseAll([i \in DOMAIN broadcasts |->
                    IF ItemsOf(i) = {} THEN NoTime ELSE OrphanEnd(i)])
    /\ engine' = "poll"
    /\ UNCHANGED <<time, flag, lapsed, unrecorded, writeFaults, program>>
CloseOrphans ==
    /\ engine = "boot"
    /\ CloseAll([i \in DOMAIN broadcasts |-> OrphanEnd(i)])
    /\ engine' = "poll"
    /\ UNCHANGED <<time, flag, lapsed, unrecorded, writeFaults, program>>

CloseOrphansFails ==
    /\ engine = "boot"
    /\ WriteFails
    /\ lapsed' = lapsed \cup OpenRows
    /\ engine' = "poll"
    /\ UNCHANGED <<time, flag, broadcasts, unrecorded, program>>

\* GetStation, or its failure, which is logged.
PollsOff ==
    /\ engine = "poll"
    /\ engine' = "wait"
    /\ UNCHANGED <<time, flag, record, program>>

PollsOn ==
    /\ engine = "poll" /\ station.onAir
    /\ engine' = "open"
    /\ UNCHANGED <<time, flag, record, program>>

Opens ==
    /\ engine = "open" /\ Len(broadcasts) < MaxBroadcasts
    /\ broadcasts' = Append(broadcasts, [start |-> instant, end |-> NoTime])
    /\ engine' = "enter"
    /\ UNCHANGED <<time, flag, lapsed, unrecorded, writeFaults, program>>

OpenFails ==
    /\ engine = "open" /\ WriteFails
    /\ engine' = "enter"
    /\ UNCHANGED <<time, flag, broadcasts, lapsed, unrecorded, program>>

\* findBootResume: the newest track of the air log, if not over.
AirRows == {item \in showlog : item.origin = "air"}
Newest(items) == CHOOSE item \in items : \A other \in items : other.start <= item.start
Running(item) == instant < NominalEnd(item)
Resumable ==
    IF AirRows # {} /\ Running(Newest(AirRows)) THEN Newest(AirRows) ELSE Nothing

EnterSession ==
    /\ engine = "enter"
    /\ airing' = Resumable /\ awaitMusic' = FALSE
    /\ engine' = "air"
    /\ UNCHANGED <<time, flag, record, showlog, unwritten>>

\* Is the running broadcast recorded?  Items of one that is not are kept apart.
Recorded == OpenRows # {}
Airs(item) ==
    /\ airing' = item
    /\ unrecorded' = IF Recorded THEN unrecorded ELSE unrecorded \cup {item}

AirTrack ==
    /\ engine = "air" /\ airing = Nothing /\ station.onAir /\ Stamp
    /\ LET item == [origin |-> "air", start |-> instant, duration |-> TrackLength]
       IN  Airs(item) /\ showlog' = showlog \cup {item}
    /\ UNCHANGED <<flag, engine, broadcasts, lapsed, writeFaults, unwritten, awaitMusic>>

\* airClip: the row is written by a detached goroutine.
AirTalk ==
    /\ engine = "air" /\ airing = Nothing /\ ~awaitMusic /\ Stamp
    /\ LET item == [origin |-> "talk", start |-> instant, duration |-> TalkLength]
       IN  Airs(item) /\ unwritten' = unwritten \cup {item}
    /\ awaitMusic' = TRUE
    /\ UNCHANGED <<flag, engine, broadcasts, lapsed, writeFaults, showlog>>

TalkWritten ==
    /\ \E item \in unwritten :
          /\ showlog' = showlog \cup {item}
          /\ unwritten' = unwritten \ {item}
    /\ UNCHANGED <<time, flag, engine, record, airing, awaitMusic>>

\* Played out, or skipped.
ItemEnds ==
    /\ engine = "air" /\ airing # Nothing
    /\ awaitMusic' = (awaitMusic /\ airing.origin = "talk")
    /\ airing' = Nothing
    /\ UNCHANGED <<time, flag, engine, record, showlog, unwritten>>

\* Off the air is seen within a chunk; an error ends the session as well.
SessionEnds ==
    /\ engine = "air"
    /\ airing' = Nothing /\ awaitMusic' = FALSE
    /\ engine' = "close"
    /\ UNCHANGED <<time, flag, record, showlog, unwritten>>

\* A shutdown ends it as well; the row is closed under a context of its own.
ShutDown ==
    /\ engine = "air"
    /\ airing' = Nothing /\ awaitMusic' = FALSE
    /\ engine' = "closeDown"
    /\ UNCHANGED <<time, flag, record, showlog, unwritten>>

AfterClose == engine' = IF engine = "close" THEN "wait" ELSE "down"

Closes ==
    /\ engine \in {"close", "closeDown"}
    /\ CloseAll([i \in DOMAIN broadcasts |-> instant])
    /\ AfterClose
    /\ unwritten' = IF engine = "close" THEN unwritten ELSE {}
    /\ UNCHANGED <<time, flag, lapsed, unrecorded, writeFaults, showlog, airing,
                   awaitMusic>>

CloseFails ==
    /\ engine \in {"close", "closeDown"}
    /\ WriteFails
    /\ lapsed' = lapsed \cup OpenRows
    /\ AfterClose
    /\ unwritten' = IF engine = "close" THEN unwritten ELSE {}
    /\ UNCHANGED <<time, flag, broadcasts, unrecorded, showlog, airing, awaitMusic>>

\* The poll of five seconds, or earlier the poke of an operator's call.
Wakes ==
    /\ engine = "wait"
    /\ engine' = "poll"
    /\ UNCHANGED <<time, flag, record, program>>

Killed ==
    /\ engine # "down"
    /\ engine' = "down"
    /\ airing' = Nothing /\ awaitMusic' = FALSE /\ unwritten' = {}
    /\ UNCHANGED <<time, flag, record, showlog>>

BroadcastNext ==
    \/ Passes \/ GoOnAir \/ GoOffAir
    \/ EngineStarts \/ CloseOrphans \/ CloseOrphansFails \/ PollsOff \/ PollsOn
    \/ Opens \/ OpenFails \/ EnterSession
    \/ AirTrack \/ AirTalk \/ TalkWritten \/ ItemEnds
    \/ SessionEnds \/ ShutDown \/ Closes \/ CloseFails \/ Wakes \/ Killed

BroadcastSpec == BroadcastInit /\ [][BroadcastNext]_broadcastVars

-----------------------------------------------------------------------------
(* What the console reads.                                                  *)

\* GetShowTimeline's decision which row of the show log is on the air.
ReportedAiring ==
    LET n == Newest(showlog)
        staleTalk == n.origin = "talk" /\ station.since # NoTime /\ n.start < station.since
    IN  IF ~station.onAir \/ showlog = {} THEN Nothing
        ELSE IF staleTalk THEN Resumable
        ELSE IF Running(n) THEN n ELSE Nothing

-----------------------------------------------------------------------------
(* Properties.                                                              *)

Engine == {"down", "boot", "poll", "open", "enter", "air", "close", "closeDown", "wait"}

\* Types.
BroadcastTypeOK ==
    /\ instant \in Instant /\ stamped \in BOOLEAN
    /\ station \in [onAir : BOOLEAN, since : Instant \cup {NoTime}]
    /\ engine \in Engine
    /\ broadcasts \in Seq([start : Instant, end : Instant \cup {NoTime}])
    /\ Len(broadcasts) <= MaxBroadcasts
    /\ showlog \subseteq Item /\ unwritten \subseteq Item
    /\ airing \in Item \cup {Nothing} /\ awaitMusic \in BOOLEAN
    /\ edge \in Instant \cup {NoTime}
    /\ lapsed \subseteq DOMAIN broadcasts /\ unrecorded \subseteq Item
    /\ writeFaults \in 0..MaxWriteFaults

\* The session rows, whatever is killed when: none ends before it starts or after
\* now, one is open only while its broadcast runs or until its process is
\* replaced, and two overlap only when the write that should have closed the
\* earlier one failed.
RowsInTime ==
    \A i \in DOMAIN broadcasts :
        broadcasts[i].end # NoTime =>
            broadcasts[i].start <= broadcasts[i].end /\ broadcasts[i].end <= instant
OpenRowsLive ==
    /\ engine \in {"poll", "wait", "open"} => OpenRows \subseteq lapsed
    /\ Cardinality(OpenRows \ lapsed) <= 1
BroadcastsDisjoint ==
    \A i, j \in DOMAIN broadcasts :
        i < j /\ i \notin lapsed =>
            broadcasts[i].end # NoTime /\ broadcasts[i].end <= broadcasts[j].start
BroadcastRecord == RowsInTime /\ OpenRowsLive /\ BroadcastsDisjoint

\* Every row of the show log lies inside some broadcast, unless the write that
\* opens it failed: neither Close nor the reconciliation of a killed process cuts
\* an item out of the broadcast it aired in.
ItemsInsideBroadcasts ==
    \A item \in showlog \ unrecorded :
        \E i \in DOMAIN broadcasts :
            /\ broadcasts[i].start <= item.start
            /\ broadcasts[i].end # NoTime => item.start <= broadcasts[i].end

\* While an item airs within its nominal length, the console shows that item and
\* no other: after a flip, a resume, a kill, a skip, in any order.  The exceptions,
\* where the code shows another: a flip to off and on again within one chunk, so
\* the clip airs on under a newer anchor; a clip whose row is not written yet; a
\* session entered anew without a flip (a kill, an error), whose resumed track
\* lies under a talk row.
AiringReported ==
    \/ airing = Nothing \/ ~station.onAir \/ ~Running(airing)
    \/ airing.origin = "talk" /\ airing.start < edge
    \/ airing \in unwritten
    \/ \E item \in showlog : item.origin = "talk" /\ item.start > Later(edge, airing.start)
    \/ ReportedAiring = airing
=============================================================================
