------------------------------ MODULE Director ------------------------------
(***************************************************************************)
(* Talk breaks: the director prepares one ahead of air and promises what   *)
(* comes next; the feed takes it at a seam, and airs what it promised or   *)
(* does not.  A step of the director is one store call of its RunOnce, or  *)
(* one section under its mutex; the script, the voice and the render       *)
(* between two of them take up to a minute, in which the feed, the         *)
(* operator and the listeners go on.                                       *)
(*                                                                         *)
(* The feed is the one of Feeder, reduced to what the director meets: no   *)
(* lookahead, no failing store write, and one step for each call between   *)
(* two tracks that reads or writes what the director reads or writes.      *)
(* A track that went from the library shows here as one that fails to open. *)
(* Left out: what a break says, its price, show memory, listener counts    *)
(* and the budget (a gate that closes may close at any tick).              *)
(***************************************************************************)
EXTENDS Cadence

CONSTANTS Tracks,      \* yt ids of the library
          Requests,    \* the tracks that get requested, once each (bound)
          MaxEntries,  \* air-log entries (bound)
          MaxStops,    \* sessions that end, and restarts (bound)
          Dayparts,    \* the hour enters another daypart (bound)
          NoTrack

ASSUME TracksAssumption == Requests \subseteq Tracks /\ NoTrack \notin Tracks
ASSUME DirectorBounds ==
    MaxEntries \in Nat /\ MaxStops \in Nat /\ Dayparts \in BOOLEAN

NoEntry == 0

VARIABLES station,  \* station.on_air and station.ai_enabled
          status,   \* status of every request, named by its track
          nextUp,   \* schedule.NextUp
          log,      \* the latest air-log entry
          f,        \* the feed
          cad,      \* Director.cad
          slot,     \* Director.slot
          seen,     \* what the last tick saw: wasOnAir, wasAIEnabled, lastDaypart
          dir,      \* the director's RunOnce
          clips,    \* clip files on disk
          heard,    \* history: the entry on the air, or last on it, in this session
          spoken,   \* history: the promise of the break that aired at this seam
          stops     \* sessions ended and restarts so far

world == <<station, status>>
director == <<cad, slot, seen, dir, clips>>
feed == <<f, log, heard, spoken, stops>>
vars == <<station, status, nextUp, log, f, cad, slot, seen, dir, clips,
          heard, spoken, stops>>

NoPin == [yt |-> NoTrack, req |-> FALSE]

\* A talk break.  anchor: the entry it backsells; promise: the track it says
\* comes next, req when that is a request's; void: it was proposed or pinned
\* while a track was starting, or its track was lost on the way to the air;
\* cancelled: CancelPrepared came while it was being prepared.
NoClip == [kind |-> NoKind, anchor |-> NoEntry, promise |-> NoPin, void |-> FALSE,
           cancelled |-> FALSE]
NoPromise == [promise |-> NoPin, void |-> FALSE]

IdleDirector == [pc |-> "idle", clip |-> NoClip]
Unseen == [onAir |-> FALSE, ai |-> FALSE, day |-> "unset"]

\* The feed: the item (yt, req, entry), the entry that finished last in this
\* session, whether the plan consumes the pin, the shuffle pick.
NoSession == [pc |-> "off", yt |-> NoTrack, req |-> FALSE, entry |-> NoEntry,
              last |-> NoEntry, await |-> FALSE, pin |-> FALSE, pick |-> NoTrack]

Init ==
    /\ station \in [onAir : BOOLEAN, ai : BOOLEAN]
    /\ status = [i \in Requests |-> "none"]
    /\ nextUp = NoPin
    /\ log = [n |-> NoEntry, yt |-> NoTrack, playing |-> FALSE]
    /\ f = NoSession
    /\ cad = NewCadence
    /\ slot = NoClip
    /\ seen = Unseen
    /\ dir = IdleDirector
    /\ clips = 0
    /\ heard = NoEntry
    /\ spoken = NoPromise
    /\ stops = 0

Stop == stops < MaxStops /\ stops' = stops + 1

\* Bound: a queued request is ready (RequestQueue has the others).
ReadyTracks == {i \in Requests : status[i] = "ready"}

\* A pinned request is usable only while it is ready.
Usable(p) == p.req => status[p.yt] = "ready"

\* A track is starting: the feed is between its plan and its commitNextUp, and
\* the pin, the request's row and the air log do not agree.
Starting == f.pc \in {"commit", "announce", "mark", "nextup", "pin"}

\* The track was chosen and consumed but will not air: whoever promises it,
\* promises what is gone.
Gone(clip, t) == IF clip.promise.yt = t THEN [clip EXCEPT !.void = TRUE] ELSE clip
Lost(t) ==
    /\ slot' = Gone(slot, t)
    /\ dir' = [dir EXCEPT !.clip = Gone(dir.clip, t)]

-----------------------------------------------------------------------------
(* The director's RunOnce.                                                  *)

\* CancelPrepared and the pause of a tick: disarm and drop the clip.
Disarmed(c) == [c EXCEPT !.forced = FALSE]
DropClip ==
    /\ slot' = NoClip
    /\ clips' = IF slot = NoClip THEN clips ELSE clips - 1

SessionEdge == station.onAir /\ ~seen.onAir
ResumeEdge == station.ai /\ ~seen.ai

TickBug ==
    /\ dir.pc = "idle"
    /\ IF station.onAir THEN UNCHANGED <<slot, clips>> ELSE DropClip
    /\ LET opened == IF SessionEdge THEN OpenSession(cad) ELSE cad
       IN  cad' = IF ResumeEdge THEN ResumeDJ(opened) ELSE opened
    /\ seen' = [onAir |-> station.onAir, ai |-> station.ai, day |-> "same"]
    /\ dir' = [dir EXCEPT !.pc = IF station.onAir /\ station.ai THEN "gates" ELSE "idle"]
    /\ UNCHANGED <<world, nextUp, feed>>

\* A tick reads the station, then under the mutex: a paused or off-air station
\* drops the prepared clip, an off-to-on edge restarts the clock, a resume owes
\* a greeting, a daypart that rolled over is owed.
Tick ==
    /\ dir.pc = "idle"
    /\ IF station.onAir /\ station.ai THEN UNCHANGED <<slot, clips>> ELSE DropClip
    /\ LET paused == IF station.onAir /\ station.ai THEN cad ELSE Disarmed(cad)
           opened == IF SessionEdge THEN OpenSession(paused) ELSE paused
           resumed == IF ResumeEdge THEN ResumeDJ(opened) ELSE opened
           rolled == station.onAir /\ ~SessionEdge /\ seen.day = "rolled"
       IN  cad' = IF rolled THEN [resumed EXCEPT !.daypart = TRUE] ELSE resumed
    /\ seen' = [onAir |-> station.onAir, ai |-> station.ai,
                day |-> IF station.onAir THEN "same" ELSE seen.day]
    /\ dir' = [dir EXCEPT !.pc = IF station.onAir /\ station.ai THEN "gates" ELSE "idle"]
    /\ UNCHANGED <<world, nextUp, feed>>

\* Nobody listens, the budget is spent, or one of the reads failed.
GatesClosed ==
    /\ dir.pc = "gates"
    /\ dir' = IdleDirector
    /\ UNCHANGED <<world, nextUp, feed, cad, slot, seen, clips>>

\* Only the seam names what just played and what comes next.
Anchored(kind) == kind = Seam

GatesBug ==
    /\ dir.pc = "gates"
    /\ dir' = IF DueKind(cad) = NoKind THEN IdleDirector
              ELSE [pc |-> IF Anchored(DueKind(cad)) THEN "anchor" ELSE "write",
                    clip |-> [NoClip EXCEPT !.kind = DueKind(cad)]]
    /\ UNCHANGED <<world, nextUp, feed, cad, slot, seen, clips>>

\* The slot is empty and some kind is due; with a full slot nothing is prepared.
Gates ==
    /\ dir.pc = "gates"
    /\ dir' = IF slot # NoClip \/ DueKind(cad) = NoKind THEN IdleDirector
              ELSE [pc |-> IF Anchored(DueKind(cad)) THEN "anchor" ELSE "write",
                    clip |-> [NoClip EXCEPT !.kind = DueKind(cad)]]
    /\ UNCHANGED <<world, nextUp, feed, cad, slot, seen, clips>>

ReadAnchor ==
    /\ dir.pc = "anchor"
    /\ dir' = IF log.n = NoEntry THEN IdleDirector
              ELSE [dir EXCEPT !.pc = "peek", !.clip.anchor = log.n]
    /\ UNCHANGED <<world, nextUp, feed, cad, slot, seen, clips>>

\* PeekNext: the committed next-up, else the head of the ready queue (any ready
\* request, whatever the order the operator wants), else no promise.
Proposals ==
    IF nextUp # NoPin THEN {IF Usable(nextUp) THEN nextUp ELSE NoPin}
    ELSE IF ReadyTracks = {} THEN {NoPin}
    ELSE {[yt |-> i, req |-> TRUE] : i \in ReadyTracks}

Peek ==
    /\ dir.pc = "peek"
    /\ \E p \in Proposals \cup {NoPin} :
          dir' = [dir EXCEPT !.pc = IF p = nextUp THEN "write" ELSE "write and pin",
                             !.clip.promise = p, !.clip.void = Starting]
    /\ UNCHANGED <<world, nextUp, feed, cad, slot, seen, clips>>

\* The script, the voice and the render; the clip file exists from here on.
Write ==
    /\ dir.pc \in {"write", "write and pin"}
    /\ clips' = clips + 1
    /\ dir' = [dir EXCEPT !.pc = IF dir.pc = "write" \/ dir.clip.promise = NoPin
                                 THEN "land" ELSE "pin"]
    /\ UNCHANGED <<world, nextUp, feed, cad, slot, seen>>

PinPromise ==
    /\ dir.pc = "pin"
    /\ nextUp' = dir.clip.promise
    /\ dir' = [dir EXCEPT !.pc = "land", !.clip.void = @ \/ Starting]
    /\ UNCHANGED <<world, feed, cad, slot, seen, clips>>

\* No persona, no valid script, no voice, no render, no pin, or no time left:
\* the files are removed, the break stays due.
PrepareFails ==
    /\ dir.pc \in {"anchor", "write", "write and pin", "pin"}
    /\ clips' = IF dir.pc = "pin" THEN clips - 1 ELSE clips
    /\ dir' = IdleDirector
    /\ UNCHANGED <<world, nextUp, feed, cad, slot, seen>>

\* The last section of RunOnce looks at nothing.
Land ==
    /\ dir.pc = "land"
    /\ slot' = dir.clip
    /\ dir' = IdleDirector
    /\ UNCHANGED <<world, nextUp, feed, cad, seen, clips>>

-----------------------------------------------------------------------------
(* The operator's two calls on the director.                                *)

ForceBreak ==
    /\ slot = NoClip
    /\ cad' = [cad EXCEPT !.forced = TRUE]
    /\ UNCHANGED <<world, nextUp, feed, slot, seen, dir, clips>>

CancelPrepared ==
    /\ slot # NoClip \/ cad.forced
    /\ DropClip
    /\ cad' = Disarmed(cad)
    /\ dir' = IF dir.clip = NoClip THEN dir ELSE [dir EXCEPT !.clip.cancelled = TRUE]
    /\ UNCHANGED <<world, nextUp, feed, seen>>

-----------------------------------------------------------------------------
(* The feed: Engine.Run, RunSession and its calls of the director.          *)

SessionStartsBug ==
    /\ f.pc = "off"
    /\ station.onAir
    /\ \/ /\ log.playing
          /\ f' = [NoSession EXCEPT !.pc = "nextup", !.yt = log.yt, !.entry = log.n]
          /\ heard' = log.n
          /\ UNCHANGED log
       \/ /\ f' = [NoSession EXCEPT !.pc = "seam"]
          /\ heard' = NoEntry
          /\ log' = [log EXCEPT !.playing = FALSE]
    /\ spoken' = NoPromise
    /\ UNCHANGED <<world, nextUp, director, stops>>

\* A session starts; a track still playing is resumed and not announced again.
SessionStarts ==
    /\ f.pc = "off"
    /\ station.onAir
    /\ \/ /\ log.playing
          /\ f' = [NoSession EXCEPT !.pc = "music", !.yt = log.yt, !.entry = log.n]
          /\ heard' = log.n
          /\ UNCHANGED log
       \/ /\ f' = [NoSession EXCEPT !.pc = "seam"]
          /\ heard' = NoEntry
          /\ log' = [log EXCEPT !.playing = FALSE]
    /\ spoken' = NoPromise
    /\ UNCHANGED <<world, nextUp, director, stops>>

NoBreak ==
    /\ f.pc = "seam"
    /\ f.await \/ slot = NoClip
    /\ f' = [f EXCEPT !.pc = "plan"]
    /\ UNCHANGED <<world, nextUp, director, log, heard, spoken, stops>>

\* anchorFresh: a seam is fresh when its anchor is the entry that just finished.
FreshBug(clip) == clip.kind \in Kinds
Fresh(clip) == Anchored(clip.kind) => clip.anchor = f.last

DiscardStaleBug ==
    /\ f.pc = "seam"
    /\ ~f.await /\ slot # NoClip /\ ~Fresh(slot)
    /\ slot' = NoClip
    /\ f' = [f EXCEPT !.pc = "plan"]
    /\ UNCHANGED <<world, nextUp, cad, seen, dir, clips, log, heard, spoken, stops>>

\* Take, stale: the clip is removed, the break stays due.
DiscardStale ==
    /\ f.pc = "seam"
    /\ ~f.await /\ slot # NoClip /\ ~Fresh(slot)
    /\ DropClip
    /\ f' = [f EXCEPT !.pc = "plan"]
    /\ UNCHANGED <<world, nextUp, cad, seen, dir, log, heard, spoken, stops>>

\* Take, fresh: the clock advances at the hand-over.
TakeClip ==
    /\ f.pc = "seam"
    /\ ~f.await /\ slot # NoClip /\ Fresh(slot)
    /\ f' = [f EXCEPT !.pc = "clip", !.await = TRUE]
    /\ cad' = Advance(cad, slot.kind)
    /\ spoken' = [promise |-> slot.promise, void |-> slot.void]
    /\ slot' = NoClip
    /\ UNCHANGED <<world, nextUp, seen, dir, clips, log, heard, stops>>

\* The break aired, was skipped, crashed or did not open: its file is removed.
ClipEnds ==
    /\ f.pc = "clip"
    /\ f' = [f EXCEPT !.pc = "seam"]
    /\ clips' = clips - 1
    /\ UNCHANGED <<world, nextUp, cad, slot, seen, dir, log, heard, spoken, stops>>

\* planNext.  An item of the plan: its track, whether a request's, whether from
\* the pin; no track means skip.
Item(t, req, pin) == [yt |-> t, req |-> req, pin |-> pin]
Plans ==
    IF nextUp # NoPin
    THEN {IF Usable(nextUp) THEN Item(nextUp.yt, nextUp.req, TRUE)
          ELSE Item(NoTrack, FALSE, TRUE)}
    ELSE IF ReadyTracks # {}
    THEN {Item(i, TRUE, FALSE) : i \in ReadyTracks}
    ELSE {Item(t, FALSE, FALSE) : t \in Tracks}

PlanNext ==
    /\ f.pc = "plan"
    /\ station.onAir
    /\ \E p \in Plans :
          f' = [f EXCEPT !.pc = "commit", !.yt = p.yt, !.req = p.req, !.pin = p.pin]
    /\ UNCHANGED <<world, nextUp, director, log, heard, spoken, stops>>

\* commitNext; openTrack and the announcement follow.
Commit ==
    /\ f.pc = "commit"
    /\ nextUp' = IF f.pin THEN NoPin ELSE nextUp
    /\ f' = [f EXCEPT !.pc = IF f.yt = NoTrack THEN "seam" ELSE "announce", !.pin = FALSE]
    /\ UNCHANGED <<world, director, log, heard, spoken, stops>>

\* The track went from the library or does not open; whatever was promised of
\* it cannot be kept.
OpenFails ==
    /\ f.pc = "announce"
    /\ status' = IF f.req THEN [status EXCEPT ![f.yt] = "failed"] ELSE status
    /\ f' = [f EXCEPT !.pc = "seam", !.yt = NoTrack, !.req = FALSE]
    /\ Lost(f.yt)
    /\ spoken' = Gone(spoken, f.yt)
    /\ UNCHANGED <<station, nextUp, cad, seen, clips, log, heard, stops>>

\* openTrack, then Log.Append.
Announce ==
    /\ f.pc = "announce"
    /\ log.n < MaxEntries
    /\ log' = [n |-> log.n + 1, yt |-> f.yt, playing |-> TRUE]
    /\ heard' = log.n + 1
    /\ f' = [f EXCEPT !.pc = IF f.req THEN "mark" ELSE "nextup", !.entry = log.n + 1]
    /\ spoken' = NoPromise
    /\ UNCHANGED <<world, nextUp, director, stops>>

MarkItemAired ==
    /\ f.pc = "mark"
    /\ status' = [status EXCEPT ![f.yt] = "aired"]
    /\ f' = [f EXCEPT !.pc = "nextup"]
    /\ UNCHANGED <<station, nextUp, director, log, heard, spoken, stops>>

\* commitNextUp reads the queue and, when nothing waits, picks a track...
CommitNextUpRead ==
    /\ f.pc = "nextup"
    /\ \/ /\ ReadyTracks # {}
          /\ f' = [f EXCEPT !.pc = "pin"]
       \/ /\ ReadyTracks = {}
          /\ \E t \in Tracks : f' = [f EXCEPT !.pc = "pin", !.pick = t]
    /\ UNCHANGED <<world, nextUp, director, log, heard, spoken, stops>>

\* ...and clears the next-up, or commits the pick.
CommitNextUpWrite ==
    /\ f.pc = "pin"
    /\ nextUp' = [NoPin EXCEPT !.yt = f.pick]
    /\ f' = [f EXCEPT !.pc = "music", !.pick = NoTrack]
    /\ UNCHANGED <<world, director, log, heard, spoken, stops>>

\* The track ends, is skipped or given up: TrackFinished, then the next seam.
\* Its duration may or may not be over.
MusicEnds ==
    /\ f.pc = "music"
    /\ cad' = AdvanceMusic(cad)
    /\ f' = [NoSession EXCEPT !.pc = "seam", !.last = f.entry]
    /\ log' \in {log, [log EXCEPT !.playing = FALSE]}
    /\ UNCHANGED <<world, nextUp, slot, seen, dir, clips, heard, spoken, stops>>

\* Off air, or an error that ends the session, anywhere; a clip's file goes.
SessionEnds ==
    /\ f.pc # "off"
    /\ Stop
    /\ f' = NoSession
    /\ heard' = NoEntry
    /\ spoken' = NoPromise
    /\ clips' = IF f.pc = "clip" THEN clips - 1 ELSE clips
    /\ IF f.pc = "announce" THEN Lost(f.yt) ELSE UNCHANGED <<slot, dir>>
    /\ UNCHANGED <<world, nextUp, cad, seen, log>>

-----------------------------------------------------------------------------
(* Everyone else.                                                           *)

SetOnAir(b) ==
    /\ station.onAir # b
    /\ station' = [station EXCEPT !.onAir = b]
    /\ UNCHANGED <<status, nextUp, director, feed>>

SetAIEnabled(b) ==
    /\ station.ai # b
    /\ station' = [station EXCEPT !.ai = b]
    /\ UNCHANGED <<status, nextUp, director, feed>>

RequestArrives(i) ==
    /\ status[i] = "none"
    /\ status' = [status EXCEPT ![i] = "ready"]
    /\ UNCHANGED <<station, nextUp, director, feed>>

RequestRemoved(i) ==
    /\ status[i] = "ready"
    /\ status' = [status EXCEPT ![i] = "failed"]
    /\ UNCHANGED <<station, nextUp, director, feed>>

\* A period that is switched off never elapses.
TimerElapses ==
    /\ \/ /\ UseStationID /\ cad.stationID = "running"
          /\ cad' = [cad EXCEPT !.stationID = "elapsed"]
       \/ /\ UseMusing /\ cad.musing = "running"
          /\ cad' = [cad EXCEPT !.musing = "elapsed"]
    /\ UNCHANGED <<world, nextUp, feed, slot, seen, dir, clips>>

\* The local hour enters another daypart.
DaypartRolls ==
    /\ Dayparts
    /\ seen.day = "same"
    /\ seen' = [seen EXCEPT !.day = "rolled"]
    /\ UNCHANGED <<world, nextUp, feed, cad, slot, dir, clips>>

\* DaypartWindow is over.
DaypartExpires ==
    /\ cad.daypart
    /\ cad' = [cad EXCEPT !.daypart = FALSE]
    /\ UNCHANGED <<world, nextUp, feed, slot, seen, dir, clips>>

\* The process is killed and starts again; main sweeps the clip directory.
Restart ==
    /\ Stop
    /\ f' = NoSession
    /\ heard' = NoEntry
    /\ spoken' = NoPromise
    /\ cad' = NewCadence
    /\ slot' = NoClip
    /\ seen' = Unseen
    /\ dir' = IdleDirector
    /\ clips' = 0
    /\ UNCHANGED <<world, nextUp, log>>

RunOnce ==
    \/ Tick \/ GatesClosed \/ Gates \/ ReadAnchor \/ Peek \/ Write \/ PinPromise
    \/ PrepareFails \/ Land

RunSession ==
    \/ SessionStarts \/ NoBreak \/ DiscardStale \/ TakeClip \/ ClipEnds \/ PlanNext
    \/ Commit \/ OpenFails \/ Announce \/ MarkItemAired \/ CommitNextUpRead
    \/ CommitNextUpWrite \/ MusicEnds \/ SessionEnds

Others ==
    \/ ForceBreak \/ CancelPrepared
    \/ \E b \in BOOLEAN : SetOnAir(b) \/ SetAIEnabled(b)
    \/ \E i \in Requests : RequestArrives(i) \/ RequestRemoved(i)
    \/ TimerElapses \/ DaypartRolls \/ DaypartExpires

Next == RunOnce \/ RunSession \/ Others \/ Restart

Spec == Init /\ [][Next]_vars

-----------------------------------------------------------------------------
(* Properties.                                                              *)

PinType == [yt : Tracks \cup {NoTrack}, req : BOOLEAN]
Entries == 0..MaxEntries
ClipType == [kind : Kinds \cup {NoKind}, anchor : Entries, promise : PinType,
             void : BOOLEAN, cancelled : BOOLEAN]
DirectorType ==
    [pc : {"idle", "gates", "anchor", "peek", "write", "write and pin", "pin", "land"},
     clip : ClipType]
FeedType ==
    [pc : {"off", "seam", "clip", "plan", "commit", "announce", "mark", "nextup",
           "pin", "music"},
     yt : Tracks \cup {NoTrack}, req : BOOLEAN, entry : Entries, last : Entries,
     await : BOOLEAN, pin : BOOLEAN, pick : Tracks \cup {NoTrack}]

\* Every variable has its type; in particular there are at most two clip files
\* at once: the break on the air, and the one that waits or is being prepared
\* (director.go:370-378).
TypeOK ==
    /\ station \in [onAir : BOOLEAN, ai : BOOLEAN]
    /\ status \in [Requests -> {"none", "ready", "aired", "failed"}]
    /\ nextUp \in PinType
    /\ log \in [n : Entries, yt : Tracks \cup {NoTrack}, playing : BOOLEAN]
    /\ f \in FeedType
    /\ cad \in CadenceState
    /\ slot \in ClipType
    /\ seen \in [onAir : BOOLEAN, ai : BOOLEAN, day : {"unset", "same", "rolled"}]
    /\ dir \in DirectorType
    /\ clips \in 0..2
    /\ heard \in Entries
    /\ spoken \in [promise : PinType, void : BOOLEAN]
    /\ stops \in 0..MaxStops

Count(holds) == IF holds THEN 1 ELSE 0

\* Every clip file on disk belongs to exactly one holder: the slot, the break on
\* the air, or the preparation that rendered it (director.go:179-203,
\* prepare.go:145-168, feeder.go:1077-1087).  Nothing leaks until the next boot.
ClipsOwned ==
    clips = Count(slot # NoClip) + Count(f.pc = "clip") + Count(dir.pc \in {"pin", "land"})

\* A clip waits in the slot only while the last tick saw the DJ on and the
\* station on the air (director.go:296-299).
ClipWanted == slot # NoClip => seen.onAir /\ seen.ai

\* The break in the slot is one the format clock still owes, whatever was
\* finished, forced or rolled over since it was begun (director.go:370-386); a
\* transition past its window and a break cancelled during its preparation are
\* the exceptions.
ClipOwed ==
    slot # NoClip =>
        Owed(cad, slot.kind) \/ slot.kind = DaypartTransition \/ slot.cancelled

\* A seam airs right after the track it backsells: the entry it names is the
\* last thing the listeners of this session heard, however long its preparation
\* took and whatever ended in the meantime (director.go:230-248).
SeamFollowsAnchor ==
    [][f.pc = "seam" /\ f'.pc = "clip" /\ Anchored(slot.kind)
          => slot.anchor = heard /\ heard # NoEntry]_vars

\* What a break promised airs next, unless the promised request was removed, the
\* track cannot be opened, or the session ends; and unless the promise was
\* proposed or pinned while a track was starting (prepare.go:91-168,
\* feeder.go:204-249, 314-346).
PromiseKept ==
    [][f.pc = "announce" /\ f'.pc \in {"mark", "nextup"} /\ ~spoken.void
          /\ spoken.promise # NoPin /\ Usable(spoken.promise)
          => f.yt = spoken.promise.yt]_vars

\* prepare.go:155-159: a break whose promise is not backed never airs.  When a
\* break is handed over, the request it promises is still to be aired.
PromiseBacked ==
    [][f.pc = "seam" /\ f'.pc = "clip" /\ slot.promise # NoPin
          => Usable(slot.promise)]_vars
=============================================================================
