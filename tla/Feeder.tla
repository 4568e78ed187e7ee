------------------------------- MODULE Feeder -------------------------------
(***************************************************************************)
(* The broadcast: Engine.Run and Feeder.RunSession on the feed goroutine,  *)
(* the lookahead goroutine it starts for every item, and what others do to *)
(* the state it reads: operators flip the station and skip, listeners      *)
(* queue requests, the director pins the track it promised.                *)
(*                                                                         *)
(* A step is one store statement, one hand-over between the goroutines, or *)
(* the local code between two of them.  planNext's reads are one step: the *)
(* plan is stale by the time it is committed in any case.                  *)
(*                                                                         *)
(* Time is left out except for one question, whether the latest air-log    *)
(* entry's duration has elapsed.  So are what is published, the listeners, *)
(* the audio itself (its pacing and its sample clock) and a ctx            *)
(* cancelled by shutdown, which ends a session as an off-air flip does.    *)
(***************************************************************************)
EXTENDS RequestStore

CONSTANTS Tracks,       \* yt ids
          Ids,          \* request ids the table may hand out (bound)
          Deletable,    \* tracks an operator may delete (bound)
          MaxRestarts,  \* crash restarts of one item before it is given up
          ReaderIds,    \* names for open readers (bound)
          DirIds,       \* names for session directories (bound)
          MaxFaults,    \* failures and process restarts (bound)
          NoUser, NoTrack

ASSUME IdsAssumption == Ids \subseteq Nat \ {0} /\ IsFiniteSet(Ids)
ASSUME PoolAssumption == ReaderIds \subseteq Nat \ {0} /\ DirIds \subseteq Nat \ {0}
ASSUME BoundAssumption == MaxRestarts \in Nat /\ MaxFaults \in Nat
ASSUME TrackAssumption == NoTrack \notin Tracks /\ IsFiniteSet(Tracks)

NoRequest == 0
NoReader == 0
NoDir == 0

VARIABLES onAir,       \* station.on_air
          rows,        \* the request table
          library,     \* yt ids with a library row
          nextUp,      \* schedule.NextUp: the committed next track
          log,         \* the air log: recent yt ids, and its latest entry
          promise,     \* the request a break under preparation promises
          f,           \* the feed goroutine
          pf,          \* the lookahead
          skip,        \* Feeder.skip
          readers,     \* decode readers open in the process
          set,         \* openSet: readers the session would close at its end
          dirs,        \* session directories this process has on disk
          sessionDir,  \* Feeder.sessionDir, what the HLS handler serves
          heard,       \* history: the kind of item that aired last in this session
          served,      \* history: how often each request was air-logged
          faults       \* failures and restarts so far

station == <<onAir, library, promise>>
disk == <<dirs, sessionDir>>
process == <<f, pf, skip, readers, set, dirs, sessionDir, heard>>
vars == <<onAir, rows, library, nextUp, log, promise, f, pf, skip, readers, set,
          dirs, sessionDir, heard, served, faults>>

NoPin == [yt |-> NoTrack, req |-> NoRequest]
Pin(t, i) == [yt |-> t, req |-> i]

\* What planNext decides.  pin: it came from the committed next-up; fail: a
\* ready request whose track vanished; empty: there is nothing to air at all.
Plan(kind, t, i, pin, fail, empty) ==
    [kind |-> kind, yt |-> t, req |-> i, pin |-> pin, fail |-> fail, empty |-> empty]
StopPlan(empty) == Plan("stop", NoTrack, NoRequest, FALSE, NoRequest, empty)
SkipPlan(pin, fail) == Plan("skip", NoTrack, NoRequest, pin, fail, FALSE)
AirPlan(t, i, pin) == Plan("air", t, i, pin, NoRequest, FALSE)

NoLookahead == [st |-> "none", yt |-> NoTrack, rd |-> NoReader]

\* The locals of RunSession: the item (yt, req, logged, resumed, crashes, rd),
\* the plan to commit, the shuffle pick to pin, the directories of a restart.
IdleFeed == [pc |-> "poll", plan |-> StopPlan(FALSE), pick |-> NoTrack,
             yt |-> NoTrack, req |-> NoRequest, logged |-> FALSE,
             resumed |-> FALSE, crashes |-> 0, rd |-> NoReader,
             awaitMusic |-> FALSE, dir |-> NoDir, newDir |-> NoDir]

Init ==
    /\ onAir \in BOOLEAN
    /\ rows = [i \in Ids |-> EmptyRow(NoUser, NoTrack)]
    /\ library = Tracks
    /\ nextUp = NoPin
    /\ log = [recent |-> <<>>, elapsed |-> TRUE, reports |-> 0]
    /\ promise = NoRequest
    /\ f = IdleFeed
    /\ pf = NoLookahead
    /\ skip = "no"
    /\ readers = {}
    /\ set = {}
    /\ dirs = {}
    /\ sessionDir = NoDir
    /\ heard = "nothing"
    /\ served = [i \in Ids |-> 0]
    /\ faults = 0

Fault == faults < MaxFaults /\ faults' = faults + 1

\* The smallest name not in use.
Fresh(pool, used, n) == n \in pool \ used /\ \A m \in pool \ used : n <= m

-----------------------------------------------------------------------------
(* planNext: the pin, else the head of the ready queue, else a shuffle.     *)

\* pickShuffleFrom: the library minus the window of recent airings.
\* No shuffle looks further back than half of the tracks; resume needs one.
RecentCap == IF Cardinality(Tracks) < 4 THEN 1 ELSE Cardinality(Tracks) \div 2
Window == Cardinality(library) \div 2
Recent(n) == {log.recent[k] : k \in {k \in DOMAIN log.recent : k <= n}}
Prepend(t) ==
    IF Len(log.recent) < RecentCap THEN <<t>> \o log.recent
    ELSE <<t>> \o SubSeq(log.recent, 1, RecentCap - 1)
ShufflePool ==
    IF library \subseteq Recent(Window) THEN library ELSE library \ Recent(Window)

\* A pinned request airs only while it is still ready.
PinUsableBug == nextUp.yt \in library
PinUsable ==
    /\ nextUp.yt \in library
    /\ nextUp.req # NoRequest => rows[nextUp.req].status = "ready"

PinPlans ==
    IF PinUsable THEN {AirPlan(nextUp.yt, nextUp.req, TRUE)}
    ELSE {SkipPlan(TRUE, NoRequest)}

QueuePlansBug ==
    {IF rows[i].yt \in library THEN AirPlan(rows[i].yt, i, FALSE)
     ELSE SkipPlan(FALSE, NoRequest) : i \in {i \in Ids : IsNextReady(rows, i)}}
QueuePlans ==
    {IF rows[i].yt \in library THEN AirPlan(rows[i].yt, i, FALSE)
     ELSE SkipPlan(FALSE, i) : i \in {i \in Ids : IsNextReady(rows, i)}}

ShufflePlans ==
    IF library = {} THEN {StopPlan(TRUE)}
    ELSE {AirPlan(t, NoRequest, FALSE) : t \in ShufflePool}

planNextBug ==
    IF ~onAir THEN {SkipPlan(FALSE, NoRequest)}
    ELSE IF nextUp # NoPin THEN PinPlans
    ELSE IF Ready(rows) # {} THEN QueuePlans ELSE ShufflePlans
planNext ==
    IF ~onAir THEN {StopPlan(FALSE)}
    ELSE IF nextUp # NoPin THEN PinPlans
    ELSE IF Ready(rows) # {} THEN QueuePlans ELSE ShufflePlans

-----------------------------------------------------------------------------
(* Ends of an item, used by several steps.                                  *)

Go(pc) == f' = [f EXCEPT !.pc = pc]

\* cur.cleanup: the reader is closed and leaves the set.
CloseItem ==
    /\ readers' = readers \ {f.rd}
    /\ set' = set \ {f.rd}

\* The next turn of RunSession's loop.
NextTurnBug(await) ==
    f' = [IdleFeed EXCEPT !.pc = "seam", !.dir = f.dir]
NextTurn(await) ==
    f' = [IdleFeed EXCEPT !.pc = "seam", !.awaitMusic = await, !.dir = f.dir]

\* TrackFinished on the item's entry, then the next turn.
TrackFinished(ended) ==
    /\ log' = IF f.logged
              THEN [log EXCEPT !.reports = IF @ < 2 THEN @ + 1 ELSE @,
                               !.elapsed = @ \/ ended]
              ELSE log
    /\ NextTurn(FALSE)

-----------------------------------------------------------------------------
(* Engine.Run and the start of a session.                                   *)

EngineStarts ==
    /\ f.pc = "poll"
    /\ onAir
    /\ Go("boot")
    /\ UNCHANGED <<station, rows, nextUp, log, pf, skip, readers, set, disk, heard,
                   served, faults>>

SessionBootBug ==
    /\ f.pc = "boot"
    /\ f' = [f EXCEPT !.pc = "setup"]
    /\ heard' = "nothing"
    /\ UNCHANGED <<station, rows, nextUp, log, pf, skip, readers, set, disk, served,
                   faults>>

\* The skip flag is cleared; findBootResume adopts the latest entry if its
\* duration has not elapsed by now and its track exists; a read error means no.
SessionBoot ==
    /\ f.pc = "boot"
    /\ skip' = "no"
    /\ heard' = "nothing"
    /\ LET inFlight == log.recent # <<>> /\ ~log.elapsed
           exists == log.recent[1] \in library
       IN  \/ /\ inFlight /\ exists
              /\ f' = [f EXCEPT !.pc = "setup", !.yt = log.recent[1],
                                !.logged = TRUE, !.resumed = TRUE]
              /\ UNCHANGED <<log, faults>>
           \/ inFlight /\ exists /\ Fault /\ Go("setup") /\ UNCHANGED log
           \/ inFlight /\ ~exists /\ Go("setup") /\ UNCHANGED <<log, faults>>
           \/ /\ Go("setup")
              /\ log' = [log EXCEPT !.elapsed = TRUE]
              /\ UNCHANGED faults
    /\ UNCHANGED <<station, rows, nextUp, pf, readers, set, disk, served>>

\* Directory, encoder, then the directory is published.  A failed encoder
\* leaves nothing behind and ends the session.
SessionSetup ==
    /\ f.pc = "setup"
    /\ \/ /\ \E d \in DirIds :
                /\ Fresh(DirIds, dirs, d)
                /\ dirs' = dirs \cup {d}
                /\ sessionDir' = d
                /\ f' = [f EXCEPT !.pc = IF f.resumed THEN "open" ELSE "seam",
                                  !.dir = d]
          /\ UNCHANGED faults
       \/ Fault /\ f' = IdleFeed /\ UNCHANGED disk
    /\ UNCHANGED <<station, rows, nextUp, log, pf, skip, readers, set, heard, served>>

-----------------------------------------------------------------------------
(* The seam: a talk break, or the plan for the next track.                  *)

\* The director hands over a clip; its file may fail to open.
TakeClip ==
    /\ f.pc = "seam"
    /\ ~f.awaitMusic
    /\ \/ /\ f' = [f EXCEPT !.pc = "clip", !.awaitMusic = TRUE]
          /\ heard' = "clip"
          /\ UNCHANGED faults
       \/ Fault /\ NextTurn(TRUE) /\ UNCHANGED heard
    /\ UNCHANGED <<station, rows, nextUp, log, pf, skip, readers, set, disk, served>>

NoClip ==
    /\ f.pc = "seam"
    /\ Go("take")
    /\ UNCHANGED <<station, rows, nextUp, log, pf, skip, readers, set, disk, heard,
                   served, faults>>

\* The lookahead's reader is kept only for the track the fresh plan chose.
KeepsReader(p) == p.kind = "air" /\ p.yt = pf.yt

\* takePrefetch: wait for the lookahead, plan afresh, adopt or close its reader.
TakePrefetchBug ==
    /\ f.pc = "take"
    /\ pf.st \in {"none", "done"}
    /\ \E p \in planNext :
          /\ f' = [f EXCEPT !.pc = "commit", !.plan = p,
                            !.rd = IF KeepsReader(p) THEN pf.rd ELSE NoReader]
          /\ set' = set \cup (IF KeepsReader(p) THEN {pf.rd} \ {NoReader} ELSE {})
    /\ pf' = NoLookahead
    /\ UNCHANGED <<station, rows, nextUp, log, skip, readers, disk, heard, served,
                   faults>>

TakePrefetch ==
    /\ f.pc = "take"
    /\ pf.st \in {"none", "done"}
    /\ \E p \in planNext :
          IF KeepsReader(p)
          THEN /\ f' = [f EXCEPT !.pc = "commit", !.plan = p, !.rd = pf.rd]
               /\ set' = set \cup ({pf.rd} \ {NoReader})
               /\ UNCHANGED readers
          ELSE /\ f' = [f EXCEPT !.pc = "commit", !.plan = p]
               /\ readers' = readers \ {pf.rd}
               /\ UNCHANGED set
    /\ pf' = NoLookahead
    /\ UNCHANGED <<station, rows, nextUp, log, skip, disk, heard, served, faults>>

\* A plan that fails ends the session; planInline still consumes the pin it had
\* begun to use, unless the failure came before.
PlanFails ==
    /\ f.pc = "take"
    /\ pf.st \in {"none", "done"}
    /\ Fault
    /\ Go("close")
    /\ nextUp' \in {nextUp, NoPin}
    /\ readers' = readers \ {pf.rd}
    /\ pf' = NoLookahead
    /\ UNCHANGED <<station, rows, log, skip, set, disk, heard, served>>

\* commitNext's writes; a failed one ends the session (autoOffAir's too: there
\* the session ends anyway).
Commit ==
    /\ f.pc = "commit"
    /\ nextUp' = IF f.plan.pin THEN NoPin ELSE nextUp
    /\ rows' = IF f.plan.fail # NoRequest THEN MarkFailed(rows, f.plan.fail) ELSE rows
    /\ onAir' = (onAir /\ ~f.plan.empty)
    /\ CASE f.plan.kind = "stop" -> Go("close")
         [] f.plan.kind = "skip" -> NextTurn(f.awaitMusic)
         [] f.plan.kind = "air" ->
              f' = [f EXCEPT !.pc = IF f.rd = NoReader THEN "open" ELSE "announce",
                             !.yt = f.plan.yt, !.req = f.plan.req,
                             !.plan = StopPlan(FALSE)]
    /\ UNCHANGED <<library, promise, log, pf, skip, readers, set, disk, heard, served,
                   faults>>

CommitFails ==
    /\ f.pc = "commit"
    /\ f.plan.pin \/ f.plan.fail # NoRequest \/ f.plan.empty
    /\ Fault
    /\ Go("close")
    /\ UNCHANGED <<station, rows, nextUp, log, pf, skip, readers, set, disk, heard, served>>

-----------------------------------------------------------------------------
(* The item: open, announce, pin the next one, start its lookahead, air.    *)

OpenBug ==
    /\ f.pc = "open"
    /\ \E r \in ReaderIds :
          /\ Fresh(ReaderIds, readers, r)
          /\ readers' = readers \cup {r}
          /\ set' = set \cup {r}
          /\ f' = [f EXCEPT !.rd = r,
                            !.pc = IF f.resumed THEN "nextup" ELSE "announce"]
    /\ UNCHANGED <<station, rows, nextUp, log, pf, skip, disk, heard, served, faults>>

\* openTrack on the feed goroutine, then set.own.  A resumed item is not
\* announced again.
Open ==
    /\ f.pc = "open"
    /\ \E r \in ReaderIds :
          /\ Fresh(ReaderIds, readers, r)
          /\ readers' = readers \cup {r}
          /\ set' = set \cup {r}
          /\ f' = [f EXCEPT !.rd = r,
                            !.pc = IF f.resumed THEN "prefetch" ELSE "announce"]
    /\ UNCHANGED <<station, rows, nextUp, log, pf, skip, disk, heard, served, faults>>

\* The artifact cannot be fetched or decoded: it went with its library row, or
\* a fault.  A request is failed, which may fail in turn.
OpenSkips ==
    /\ f.pc = "open"
    /\ \/ f.yt \notin library /\ UNCHANGED faults
       \/ Fault
    /\ \/ f.req # NoRequest /\ rows' = MarkFailed(rows, f.req)
       \/ (f.req = NoRequest \/ faults' # faults) /\ UNCHANGED rows
    /\ NextTurn(f.awaitMusic)
    /\ UNCHANGED <<station, nextUp, log, pf, skip, readers, set, disk, heard, served>>

\* No scratch directory (first open or reopen): the session ends.
OpenFails ==
    /\ f.pc \in {"open", "reopen"}
    /\ Fault
    /\ Go("close")
    /\ UNCHANGED <<station, rows, nextUp, log, pf, skip, readers, set, disk, heard, served>>

\* The air-log entry; an append that fails is only logged.
Announce ==
    /\ f.pc = "announce"
    /\ LET next == IF f.req = NoRequest THEN "nextup" ELSE "mark"
       IN  \/ /\ f' = [f EXCEPT !.pc = next, !.logged = TRUE]
              /\ log' = [recent |-> Prepend(f.yt), elapsed |-> FALSE,
                         reports |-> 0]
              /\ served' = IF f.req = NoRequest THEN served
                           ELSE [served EXCEPT ![f.req] = @ + 1]
              /\ UNCHANGED faults
           \/ Fault /\ Go(next) /\ UNCHANGED <<log, served>>
    /\ heard' = "music"
    /\ UNCHANGED <<station, rows, nextUp, pf, skip, readers, set, disk>>

MarkItemAired ==
    /\ f.pc = "mark"
    /\ \/ rows' = MarkAired(rows, f.req) /\ UNCHANGED faults
       \/ Fault /\ UNCHANGED rows
    /\ Go("nextup")
    /\ UNCHANGED <<station, nextUp, log, pf, skip, readers, set, disk, heard, served>>

\* commitNextUp reads first: pending requests mean clear, none mean pin a
\* shuffle pick; an empty library, or any failed read, means leave it alone.
CommitNextUpRead ==
    /\ f.pc = "nextup"
    /\ \/ Pending(rows) # {} /\ f' = [f EXCEPT !.pc = "pin", !.pick = NoTrack]
                             /\ UNCHANGED faults
       \/ Pending(rows) = {} /\ UNCHANGED faults
             /\ \E t \in ShufflePool : f' = [f EXCEPT !.pc = "pin", !.pick = t]
       \/ Pending(rows) = {} /\ library = {} /\ Go("prefetch") /\ UNCHANGED faults
       \/ Fault /\ Go("prefetch")
    /\ UNCHANGED <<station, rows, nextUp, log, pf, skip, readers, set, disk, heard, served>>

CommitNextUpWrite ==
    /\ f.pc = "pin"
    /\ \/ nextUp' = Pin(f.pick, NoRequest) /\ UNCHANGED faults
       \/ Fault /\ UNCHANGED nextUp
    /\ f' = [f EXCEPT !.pc = "prefetch", !.pick = NoTrack]
    /\ UNCHANGED <<station, rows, log, pf, skip, readers, set, disk, heard, served>>

StartPrefetch ==
    /\ f.pc = "prefetch"
    /\ pf' = [NoLookahead EXCEPT !.st = "planning"]
    /\ Go("music")
    /\ UNCHANGED <<station, rows, nextUp, log, skip, readers, set, disk, heard, served,
                   faults>>

-----------------------------------------------------------------------------
(* airTrack, for a track or a talk clip: each tick feeds a chunk, then asks  *)
(* for off-air, for a skip and for the end of the audio, in this order.      *)

Airing == f.pc \in {"music", "clip"}

\* A clip's end, or a track's: the reader is closed in either case.
ItemEnds(ended) ==
    /\ CloseItem
    /\ IF f.pc = "music" THEN TrackFinished(ended)
       ELSE NextTurn(TRUE) /\ UNCHANGED log

AirStops ==
    /\ Airing
    /\ ~onAir
    /\ CloseItem
    /\ f' = [f EXCEPT !.pc = "close", !.rd = NoReader]
    /\ UNCHANGED <<station, rows, nextUp, log, pf, skip, disk, heard, served, faults>>

\* GetStation after a chunk: a read that fails stops nothing.
StaysOn == (onAir /\ UNCHANGED faults) \/ (~onAir /\ Fault)

AirSkipped ==
    /\ Airing
    /\ StaysOn
    /\ skip # "no"
    /\ skip' = "no"
    /\ ItemEnds(FALSE)
    /\ UNCHANGED <<station, rows, nextUp, pf, disk, heard, served>>

AirEnds ==
    /\ Airing
    /\ StaysOn
    /\ skip = "no"
    /\ ItemEnds(TRUE)
    /\ UNCHANGED <<station, rows, nextUp, pf, skip, disk, heard, served>>

\* The encoder refuses a chunk: the session ends.
AirFails ==
    /\ Airing
    /\ Fault
    /\ CloseItem
    /\ f' = [f EXCEPT !.pc = "close", !.rd = NoReader]
    /\ UNCHANGED <<station, rows, nextUp, log, pf, skip, disk, heard, served>>

\* The encoder dies.
AirCrashes ==
    /\ Airing
    /\ Fault
    /\ CloseItem
    /\ f' = [f EXCEPT !.pc = "restart", !.rd = NoReader,
                      !.crashes = IF f.pc = "music" THEN @ + 1 ELSE @]
    /\ UNCHANGED <<station, rows, nextUp, log, pf, skip, disk, heard, served>>

-----------------------------------------------------------------------------
(* restartSession: a new directory and encoder, publish, remove the old.    *)

RestartMake ==
    /\ f.pc = "restart"
    /\ \/ /\ \E d \in DirIds :
                /\ Fresh(DirIds, dirs, d)
                /\ dirs' = dirs \cup {d}
                /\ f' = [f EXCEPT !.pc = "swap", !.newDir = d]
          /\ UNCHANGED faults
       \/ Fault /\ Go("close") /\ UNCHANGED dirs
    /\ UNCHANGED <<station, rows, nextUp, log, pf, skip, readers, set, sessionDir,
                   heard, served>>

RestartSwapBug ==
    /\ f.pc = "swap"
    /\ Go("sweep")
    /\ dirs' = dirs \ {f.dir}
    /\ UNCHANGED <<station, rows, nextUp, log, pf, skip, readers, set, sessionDir,
                   heard, served, faults>>

RestartSwap ==
    /\ f.pc = "swap"
    /\ Go("sweep")
    /\ sessionDir' = f.newDir
    /\ UNCHANGED <<station, rows, nextUp, log, pf, skip, readers, set, dirs, heard,
                   served, faults>>

CapReachedBug(n) == n > MaxRestarts + 1
CapReached(n) == n > MaxRestarts

\* A clip is not resumed; a track is, unless it has crashed too often.
RestartSweep ==
    /\ f.pc = "sweep"
    /\ dirs' = dirs \ {f.dir}
    /\ LET swept == [f EXCEPT !.dir = f.newDir, !.newDir = NoDir]
       IN  IF f.yt = NoTrack
           THEN f' = [IdleFeed EXCEPT !.pc = "seam", !.awaitMusic = TRUE,
                                      !.dir = f.newDir]
           ELSE f' = [swept EXCEPT !.pc = IF CapReached(f.crashes) THEN "giveup"
                                          ELSE "reopen"]
    /\ UNCHANGED <<station, rows, nextUp, log, pf, skip, readers, set, sessionDir,
                   heard, served, faults>>

\* openTrack at the aired offset.
Reopen ==
    /\ f.pc = "reopen"
    /\ \/ /\ \E r \in ReaderIds :
                /\ Fresh(ReaderIds, readers, r)
                /\ readers' = readers \cup {r}
                /\ set' = set \cup {r}
                /\ f' = [f EXCEPT !.rd = r, !.pc = "music"]
          /\ UNCHANGED faults
       \/ /\ \/ f.yt \notin library /\ UNCHANGED faults
             \/ Fault
          /\ Go("giveup")
          /\ UNCHANGED <<readers, set>>
    /\ UNCHANGED <<station, rows, nextUp, log, pf, skip, disk, heard, served>>

\* The crash cap, or a reopen that failed: the track counts as finished.
GiveUp ==
    /\ f.pc = "giveup"
    /\ TrackFinished(FALSE)
    /\ UNCHANGED <<station, rows, nextUp, pf, skip, readers, set, disk, heard, served,
                   faults>>

-----------------------------------------------------------------------------
(* The end of a session: RunSession's deferred calls, last one first.       *)

CloseSession ==
    /\ f.pc = "close"
    /\ sessionDir' = NoDir
    /\ skip' = IF skip = "no" THEN "no" ELSE "old"
    /\ Go("drain")
    /\ UNCHANGED <<station, rows, nextUp, log, pf, readers, set, dirs, heard, served,
                   faults>>

\* Wait for the lookahead and close what it opened, then set.closeAll.
DrainPrefetch ==
    /\ f.pc = "drain"
    /\ pf.st \in {"none", "done"}
    /\ pf' = NoLookahead
    /\ readers' = (readers \ {pf.rd}) \ set
    /\ set' = {}
    /\ f' = [f EXCEPT !.pc = "reclaim", !.rd = NoReader]
    /\ UNCHANGED <<station, rows, nextUp, log, skip, disk, heard, served, faults>>

\* os.RemoveAll(dir); Engine.Run polls again.
ReclaimDir ==
    /\ f.pc = "reclaim"
    /\ dirs' = dirs \ {f.dir}
    /\ f' = IdleFeed
    /\ UNCHANGED <<station, rows, nextUp, log, pf, skip, readers, set, sessionDir,
                   heard, served, faults>>

-----------------------------------------------------------------------------
(* The lookahead goroutine: reads and opens, and commits nothing.           *)

PrefetchPlan ==
    /\ pf.st = "planning"
    /\ \/ /\ \E p \in planNext :
                pf' = IF p.kind = "air"
                      THEN [NoLookahead EXCEPT !.st = "opening", !.yt = p.yt]
                      ELSE [NoLookahead EXCEPT !.st = "done"]
          /\ UNCHANGED faults
       \/ Fault /\ pf' = [NoLookahead EXCEPT !.st = "done"]
    /\ UNCHANGED <<station, rows, nextUp, log, f, skip, readers, set, disk, heard,
                   served>>

PrefetchOpen ==
    /\ pf.st = "opening"
    /\ \/ /\ \E r \in ReaderIds :
                /\ Fresh(ReaderIds, readers, r)
                /\ readers' = readers \cup {r}
                /\ pf' = [pf EXCEPT !.st = "done", !.rd = r]
          /\ UNCHANGED faults
       \/ /\ \/ pf.yt \notin library /\ UNCHANGED faults
             \/ Fault
          /\ pf' = [NoLookahead EXCEPT !.st = "done"]
          /\ UNCHANGED readers
    /\ UNCHANGED <<station, rows, nextUp, log, f, skip, set, disk, heard, served>>

-----------------------------------------------------------------------------
(* Everyone else.                                                           *)

GoOnAir ==
    /\ ~onAir
    /\ library # {}
    /\ onAir' = TRUE
    /\ UNCHANGED <<rows, library, nextUp, log, promise, process, served, faults>>

GoOffAir ==
    /\ onAir
    /\ onAir' = FALSE
    /\ UNCHANGED <<rows, library, nextUp, log, promise, process, served, faults>>

\* The handler saw the station on the air when it looked (server.go:508-514); it
\* may be off by the time it sets the flag.  "old": no session is running.
SkipTrack ==
    /\ skip' = IF f.pc \in {"poll", "boot", "drain", "reclaim"} THEN "old" ELSE "yes"
    /\ UNCHANGED <<station, rows, nextUp, log, f, pf, readers, set, disk, heard, served,
                   faults>>

\* A listener's request, cached or not; acquired; failed or removed.
RequestArrives(i, t, s) ==
    /\ IsNextId(rows, i)
    /\ rows' = Create(rows, i, "listener", NoUser, t, s)
    /\ UNCHANGED <<station, nextUp, log, process, served, faults>>

RequestAcquired(i) ==
    /\ rows[i].status = "approved"
    /\ rows' = MarkReady(rows, i)
    /\ UNCHANGED <<station, nextUp, log, process, served, faults>>

RequestRemoved(i) ==
    /\ rows[i].status \in PendingStatus
    /\ rows' = FailPending(rows, i)
    /\ UNCHANGED <<station, nextUp, log, process, served, faults>>

DeleteTrack(t) ==
    /\ t \in library \cap Deletable
    /\ library' = library \ {t}
    /\ UNCHANGED <<onAir, rows, nextUp, log, promise, process, served, faults>>

\* The acquire worker or the lab's download adds a track (bound: only to an empty
\* library of a station off the air, which nothing else gets going again).
AddTrack(t) ==
    /\ library = {}
    /\ ~onAir
    /\ library' = library \cup {t}
    /\ UNCHANGED <<onAir, rows, nextUp, log, promise, process, served, faults>>

\* PeekNext proposes the head of the ready queue when nothing is committed...
DirectorPeeks(i) ==
    /\ promise = NoRequest
    /\ nextUp = NoPin
    /\ IsNextReady(rows, i)
    /\ rows[i].yt \in library
    /\ promise' = i
    /\ UNCHANGED <<onAir, rows, library, nextUp, log, process, served, faults>>

\* ...and once the break is rendered, up to a minute later, prepare pins it.
DirectorPins ==
    /\ promise # NoRequest
    /\ nextUp' = Pin(rows[promise].yt, promise)
    /\ promise' = NoRequest
    /\ UNCHANGED <<onAir, rows, library, log, process, served, faults>>

\* The script, the voice, the render or the pin failed.
DirectorGivesUp ==
    /\ promise # NoRequest
    /\ promise' = NoRequest
    /\ UNCHANGED <<onAir, rows, library, nextUp, log, process, served, faults>>

\* The process is killed and starts again; decoders and encoder die with it, and
\* the directories it leaves behind are nobody's.
Restart ==
    /\ Fault
    /\ f' = IdleFeed
    /\ pf' = NoLookahead
    /\ skip' = "no"
    /\ readers' = {}
    /\ set' = {}
    /\ dirs' = {}
    /\ sessionDir' = NoDir
    /\ heard' = "nothing"
    /\ promise' = NoRequest
    /\ UNCHANGED <<onAir, rows, library, nextUp, log, served>>

Feed ==
    \/ EngineStarts \/ SessionBoot \/ SessionSetup
    \/ TakeClip \/ NoClip \/ TakePrefetch \/ PlanFails \/ Commit \/ CommitFails
    \/ Open \/ OpenSkips \/ OpenFails \/ Announce \/ MarkItemAired
    \/ CommitNextUpRead \/ CommitNextUpWrite \/ StartPrefetch
    \/ AirStops \/ AirSkipped \/ AirEnds \/ AirFails \/ AirCrashes
    \/ RestartMake \/ RestartSwap \/ RestartSweep \/ Reopen \/ GiveUp
    \/ CloseSession \/ DrainPrefetch \/ ReclaimDir

Lookahead == PrefetchPlan \/ PrefetchOpen

Others ==
    \/ GoOnAir \/ GoOffAir \/ SkipTrack
    \/ \E i \in Ids, t \in Tracks, s \in PendingStatus : RequestArrives(i, t, s)
    \/ \E i \in Ids : RequestAcquired(i) \/ RequestRemoved(i) \/ DirectorPeeks(i)
    \/ \E t \in Tracks : DeleteTrack(t) \/ AddTrack(t)
    \/ DirectorPins
    \/ DirectorGivesUp

Next == Feed \/ Lookahead \/ Others \/ Restart

Spec == Init /\ [][Next]_vars

-----------------------------------------------------------------------------
(* Properties.                                                              *)

PlanType ==
    [kind : {"air", "skip", "stop"}, yt : Tracks \cup {NoTrack},
     req : Ids \cup {NoRequest}, pin : BOOLEAN, fail : Ids \cup {NoRequest},
     empty : BOOLEAN]
FeedType ==
    [pc : {"poll", "boot", "setup", "seam", "take", "commit", "open", "announce",
           "mark", "nextup", "pin", "prefetch", "music", "clip", "restart", "swap",
           "sweep", "reopen", "giveup", "close", "drain", "reclaim"},
     plan : PlanType, pick : Tracks \cup {NoTrack}, yt : Tracks \cup {NoTrack},
     req : Ids \cup {NoRequest}, logged : BOOLEAN, resumed : BOOLEAN,
     crashes : 0..(MaxRestarts + 1), rd : ReaderIds \cup {NoReader},
     awaitMusic : BOOLEAN, dir : DirIds \cup {NoDir}, newDir : DirIds \cup {NoDir}]
LogType == [recent : Seq(Tracks), elapsed : BOOLEAN, reports : 0..2]
LookaheadType == [st : {"none", "planning", "opening", "done"},
                  yt : Tracks \cup {NoTrack}, rd : ReaderIds \cup {NoReader}]

\* Every variable has its type; in particular one item is restarted at most
\* MaxRestarts + 1 times before the feed gives it up (feeder.go:884-888).
TypeOK ==
    /\ onAir \in BOOLEAN
    /\ rows \in [Ids -> Row({}, Tracks, NoUser, NoTrack)]
    /\ library \subseteq Tracks
    /\ nextUp \in [yt : Tracks \cup {NoTrack}, req : Ids \cup {NoRequest}]
    /\ log \in LogType
    /\ promise \in Ids \cup {NoRequest}
    /\ f \in FeedType
    /\ pf \in LookaheadType
    /\ skip \in {"no", "yes", "old"}
    /\ readers \subseteq ReaderIds
    /\ set \subseteq ReaderIds
    /\ dirs \subseteq DirIds
    /\ sessionDir \in DirIds \cup {NoDir}
    /\ heard \in {"nothing", "music", "clip"}
    /\ served \in [Ids -> Nat]
    /\ faults \in 0..MaxFaults

\* Every open decode reader has exactly one owner: the item on air or the
\* lookahead (feeder.go:655-681, 731-743); openSet holds the item's and no
\* closed one, and nothing stays open when a session is over.
ReadersOwned ==
    /\ readers = {f.rd, pf.rd} \ {NoReader}
    /\ f.rd = pf.rd => f.rd = NoReader
    /\ set = {f.rd} \ {NoReader}

\* The directory the HLS handler may be serving from exists at every moment,
\* through crash restarts too (feeder.go:927-935), and between sessions no
\* directory is left.
SessionDirLive ==
    /\ sessionDir # NoDir => sessionDir \in dirs
    /\ f.pc = "poll" => dirs = {}

\* A skip asked for in one session, or between two, never cuts an item of a
\* later one (feeder.go:95-99, 622).
NoStaleSkip == Airing => skip # "old"

\* A request is air-logged once, however its pin, its row and the plan of the
\* lookahead went stale meanwhile (feeder.go:314-346, 811-830); each further
\* time takes a store write that failed or a kill at the wrong moment.
RequestAirsOnce == \A i \in Ids : served[i] <= 1 + faults

\* At most one talk break per seam: within a session a break never follows a
\* break without a track in between, also when the encoder dies during the
\* break or tracks fail to open after it (feeder.go:630-636).
OneBreakPerSeam ==
    [][f.pc = "seam" /\ f'.pc = "clip" => heard # "clip"]_vars

\* A resumed track is not a start: while it airs, no committed next track is
\* lost (feeder.go:832-842).
PinSurvivesResume ==
    [][f.resumed /\ nextUp # NoPin => nextUp' = nextUp \/ nextUp'.req # NoRequest]_vars

\* talk.go:43-45: TrackFinished comes exactly once per air-logged music item.
FinishedAtMostOnce == log.reports <= 1

\* Once the station is off the air the session ends, wherever the feed is: the
\* lookahead it waits for always answers (feeder.go:517-525, 674-681).
OffAirEnds == ~onAir ~> (f.pc = "poll" \/ onAir)

\* A ready request airs, fails or is removed if the station stays on the air:
\* no pin, vanished track or failed open makes the feed spin on something else.
RequestServed ==
    \A i \in Ids : rows[i].status = "ready" ~> (rows[i].status # "ready" \/ ~onAir)

-----------------------------------------------------------------------------
\* The two goroutines keep running; an item's audio ends at last, because it is
\* a finite file read one chunk per tick.
FairSpec == Spec /\ WF_vars(Feed) /\ WF_vars(Lookahead)
=============================================================================
