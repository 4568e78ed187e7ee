# A TLA+ model of radio-service

radio-service runs a radio station: listeners request songs, an acquire worker
downloads them, a programmer (a language model) fills the gaps, a feeder plays
the queue into an HLS encoder, and a director prepares spoken breaks that are
aired between two tracks. It is one process with half a dozen goroutines and one
PostgreSQL database, and it takes almost no locks: the request store says "no row
locking needed; every mutation is a single-row UPDATE" (`request/pg.go:15-16`).
Whether the goroutines get in each other's way is what this project checks.

All paths below are relative to `src/internal/` unless they start with `cmd/`.

## 1. Inventory

### Components, their state and operations

| component | state | operations |
| --- | --- | --- |
| request store (`request/`) | one table: status, source, user, track, position, attempts | create; mark ready / aired / failed; fail if pending; bump attempts; reorder; next ready; oldest approved; counts |
| request calls (`radioserver/server.go`, `buckets.go`) | a token bucket per listener, in front of the search | RequestTrack, ReorderRequests, RemoveRequest, SkipTrack, ForceBreak, CancelPreparedBreak, GoOnAir / GoOffAir, SetAIEnabled, settings, displays |
| acquire worker (`acquire/`) | none between two polls | every 5 s: oldest approved request, library lookup, download, mark |
| programmer (`programmer/`) | counters of its decisions | every 60 s: gates, brief, ideas, search, guards, choice, insert; a respin probe when all fails |
| feeder (`live/feeder.go`, `engine.go`) | skip flag, session directory, the locals of a session, the lookahead | poll the station; run a session: plan, commit, open, announce, air, restart a dead encoder |
| schedule (`schedule/`) | one row: the committed next track | get, set, clear |
| director (`director/`) | slot (one prepared clip), format clock, edges of the last tick, clip files | every 20 s: gates, prepare a break, pin its promise; Take, TrackFinished, ForceBreak, CancelPrepared |
| format clock (`cadence/`) | a value owned by the director | DueKind, Advance, AdvanceMusic |
| lab console (`server/`) | none the broadcast sees | DownloadTrack, DeleteTrack, bench calls |
| timeline (`timeline/`) | none: a pure projection of a snapshot | Project |
| broadcast record (`broadcast/`) | one row per session | open, close, close orphans |
| budgets (`spend/`) | a ledger, one line per paid call | append, spent since |
| library, artifacts (`library/`, `artifact/`, `acquire/`, `server/`) | track rows; two objects per artifact, blob and meta | get, list, add, delete, set cues; put, fetch, delete |
| cue backfill (`cmd/radio-lab-cues`) | the failures of one run | rounds of missing cues: measure, record |
| station | on_air, ai_enabled, mood, DJ settings | get, set |
| memories, audit, show log | append-only records | append, recent |

### How they interact

- **Shared tables.** The request table is written by RequestTrack calls, the
  worker, the programmer, operators and the feed, one statement at a time. The
  next-up row is written by the feed and the director. The air log is written by
  the feed, and read by the feed at boot and by the director.
- **Calls between goroutines.** The feed calls `Take` and `TrackFinished` on the
  director, operators call `ForceBreak` and `CancelPrepared`; all four take the
  director's mutex, which is *not* held while a break is prepared.
- **A goroutine per item.** While a track airs the feed has a lookahead
  goroutine plan and open the next one; the feed takes its result at the boundary.
- **Files.** Session directories (feed, encoder, HLS handler) and clip files
  (director, feed).
- **Records with no transaction over them.** `station.on_air`, the broadcast rows
  and the show log; a track row, its blob and its meta; a paid call and its ledger
  line. Each is written in steps between which a process may die.
- **Two copies of one rule.** The timeline walks queue and clock ahead with its own
  copy of the feed's and the director's choices; `request.MemStore`, on which most
  tests run, restates the SQL of `request.PGStore`.

### What is hard, and what makes each part correct

- *Queue.* Check-then-act without a lock (quotas, duplicates, depth); writes by
  stale holders of a row; retries that count; an order the operator fixed. It is
  correct when every limit is exceeded by at most what runs concurrently, a
  final status is not undone, a request is always decided, and "ready" means it
  can be played.
- *Feed.* An encoder that dies at any moment, a lookahead whose plan is a track
  old, skips and off-air flips that race with the boundary, kills between two
  writes. It is correct when no process or directory is lost, a request airs once,
  a session ends when told to, and the queue is not starved.
- *Director.* A preparation of up to a minute in which everything moves. It is
  correct when a break backsells what was just heard, what it promised comes next,
  it is still owed when it airs, and no clip file is lost.
- *Broadcast record.* Flips, failed writes and kills between three records. It is
  correct when broadcasts do not overlap, every item lies in one, and the console
  shows the item that airs.
- *Library.* Two downloads of one song, a deletion under a reader, a kill between
  two objects. It is correct when a row never names a missing object, a reader is
  served, and what is left over is explained.
- *Budget and bucket.* A gate read before the spending it limits; a refill that
  must not lose or win a fraction. Correct when the excess has a bound, and when a
  search is granted exactly when the rate allows it.
- *Timeline and twin.* Correct when they agree with what they copy.
- *Backfill.* Correct when tracks that cannot be measured do not hide the others.

The hazards, each at its line with the properties that guard it, are in
`PROJECT.json`.

## 2. Modules

| module | models | extends |
| --- | --- | --- |
| `RequestStore` | the store: one operator per statement of `request/pg.go`, on a value of the table | |
| `RequestQueue` | everybody who writes the table | `RequestStore` |
| `RequestLifecycle` | abstract: what queue and broadcast promise of a request | |
| `RequestTwins` | the table and the tests' in-memory store, given the same calls | `RequestStore` |
| `Feeder` | the broadcast: engine, session, lookahead, and who changes what they read | `RequestStore` |
| `Cadence` | the format clock, as operators | |
| `Director` | talk breaks: the director, and the feed as it meets it | `Cadence` |
| `Timeline` | the console's projection, and the station it projects | `Cadence` |
| `Broadcast` | the session rows, the show log and what the console reports | |
| `Library` | track rows and artifacts under Acquire, DeleteTrack and readers | |
| `Backfill` | one run of the cue backfill beside the station | |
| `Budget` | the day's budget two goroutines share | |
| `Buckets` | the token bucket of a listener | |
| `RequestQueueProofs` | types, held rows, finality, refinement, limits and order | `RequestQueue`, `TLAPS` |
| `StorageProofs` | the stored artifacts; what the backfill strands; that the twin is the table | `Library`, `Backfill`, `RequestTwins`, `TLAPS` |
| `BudgetProofs` | the day's bill; the rate of searches | `Budget`, `Buckets`, `TLAPS` |
| `FeederProofs`, `DirectorProofs`, `TimelineProofs`, `BroadcastProofs` | theorems about the module each is named for | that module, `TLAPS` |
| `StationProofs` | the seven of `MCStation` composed | `MCStation` and the proofs of the seven |
| `MCRequestQueue`, `MCFeeder`, `MCDirector`, `MCTimeline` | finite instances for TLC | |
| `MCStation` | `Timeline`, `Broadcast`, `Library`, `Backfill`, `Budget`, `Buckets` and `RequestTwins` side by side | all of them |

`RequestQueue`, `Feeder` and `Director` are checked apart. Each models its
neighbours by what they may do to the state it shares with them, and never by less:
`RequestQueue` lets the feed choose *any* ready request, `Feeder` lets a pin arrive
at any moment, `Director` lets any ready request be the head of the queue. What joins
the first two is proved: `RequestQueue` with its abstract feed and `Feeder` with its
abstract queue both implement `RequestLifecycle`. The seven
of `MCStation` share no state in the code either, or only rows one of them reads
as a value (the snapshot of `Timeline`, the answer of `Library.Get`); a behaviour of
`MCStation` picks one of them (`focus`) and runs it.

Operators called `...Bug` are the plausible mistakes the properties are tested
against. No action uses them.

### RequestQueue

| TLA+ | code |
| --- | --- |
| `rows`, `library` | the tables `requests`, `tracks` |
| `today` | the listener requests `CountSince(DayStart)` counts; `DayRolls` empties it |
| `call[h]` | a RequestTrack call between two of its statements: `CheckPending`, `CheckDaily`, `CheckDup`, `CheckLibrary`, `CreateRequest` (`radioserver/server.go:361-437`) |
| `worker` | `Worker.RunOnce`: `WorkerPoll`, `WorkerLibrary`, `WorkerDownload`, `WorkerBump`, `WorkerFail`, `WorkerReady` |
| `prog` | `Programmer.RunOnce`: `ProgrammerWake` (gates and pick count), `ProgrammerResolve` (one track passes the guards into the pool), `ProgrammerChoose`, `ProgrammerEnqueue`, and the respin |
| `reorder[o]` | a Reorder transaction after its read; the row locks make its updates one step |
| `air` | the feed between its plan and its mark: `FeedChooses`, `FeedAnnounces`, `FeedFails`, `FeedGivesUp` |
| `deleted`, `ordered`, `faults` | history: tracks deleted since boot, the order last committed, failures so far |

Guards on recency (AiredSince, the air log, song identity) only ever reject, and a
rejection is always allowed. A failed store read ends a call, as a rejection does,
except the one whose error the code ignores (`CheckLibrary`) and the worker's look at
the library (`WorkerLibrary`), which costs an attempt; failed writes are actions of
their own.

### Feeder

| TLA+ | code |
| --- | --- |
| `f.pc` | where the feed goroutine is: polling, boot resume, seam, take, commit, open, announce, mark, next-up, airing (`music`, `clip`), the crash branch, the deferred calls of the session's end |
| `f.plan`, `f.yt`, `f.req`, `f.rd`, ... | the locals of `RunSession` (`plan`, `onAir`, `awaitMusic`, directories) |
| `pf` | the lookahead: planning, opening, done, with the reader it opened |
| `readers`, `set` | decode readers open in the process; `openSet` |
| `dirs`, `sessionDir` | session directories on disk; the one the HLS handler serves |
| `log` | the tail of the air log, and whether the latest entry's duration is over |
| `promise` | the request a break under preparation will pin |
| `heard`, `served`, `faults` | history: the last kind of item aired, airings per request, failures so far |

`planNext` is one step: its result is committed later in any case. A clip is
available or not, nondeterministically. The read of the station after each chunk may
fail, and an item then ends, or is skipped, off the air (`StaysOn`). Time is one bit: whether the latest entry
is over, which is all that boot resume asks.

### Director

| TLA+ | code |
| --- | --- |
| `cad` | `Director.cad`, as a `Cadence` state |
| `slot`, `clips` | the prepared clip; clip files on disk |
| `seen` | `wasOnAir`, `wasAIEnabled`, `lastDaypart` |
| `dir` | `RunOnce` between two store calls or sections under the mutex: `Tick`, `Gates`, `ReadAnchor`, `Peek`, `Write`, `PinPromise`, `Land` |
| `f` | the feed at the seam, from `Take` to `commitNextUp` |
| `station`, `status`, `nextUp`, `log` | the rows both read |
| `heard`, `spoken`, `stops` | history: the entry on the air, the promise of the break that aired at this seam, sessions ended |

Timers are unset, running or elapsed. The gates on listeners and budget may close
at any tick. Requests arrive ready. A track that left the library shows as one
that fails to open.

### Timeline

| TLA+ | code |
| --- | --- |
| `snap` | `timeline.State`, what `GetShowTimeline` read |
| `walk` | the locals of `Project` (`timeline/walk.go`): its copy of the clock, the rows left, the pin |
| `ProjectBreak`, `ProjectMusic` | one turn of its loop: `seamArm`, `musicArm` |
| `upcoming` | the segments it returns, each with its certainty |
| `ahead`, `aired` | the station played on from the same snapshot, undisturbed: `BreakAirs`, `NoBreakAirs`, `AirPin`, `SkipPin`, `AirRequest`, `FailRequest`, `AirShuffle` |

The two take turns, one item each. Durations are left out: which timers run out
while an item airs is a free choice, the same for both, and the walk may stop
after any item.

### Broadcast

| TLA+ | code |
| --- | --- |
| `station` | `on_air` and `on_air_since`, which moves on the off-to-on edge only |
| `engine` | where `Engine.Run` is: reconciliation at boot, poll, open, session, close, wait |
| `broadcasts` | the rows of `broadcast_session` |
| `showlog`, `unwritten` | `air_log` and `talk_segment`; talk rows whose detached insert is under way |
| `OrphanEnd` | the SQL of `CloseOrphans`: the end of the last item before the next broadcast, now at the latest |
| `ReportedAiring` | `GetShowTimeline`'s choice of the row on the air (`radioserver/server.go:648-690`) |
| `edge`, `lapsed`, `unrecorded`, `writeFaults` | history: last flip, rows a failed write left open, items of an unopened broadcast, failures |

### Library and Backfill

`acquires[c]` is `Acquire` between two calls of a store: `AcquireBegins` (the cache
hit), `PutBlob`, `PutMeta`, `AddTrack`, with its failures; `deletions[o]` is a call of
`DeleteTrack` (row, blob, meta), of which several may run at once; a reader finds an artifact's name in a row and fetches it
later. Artifact ids are numbers given out in order; `removed`, `outdone`, `failed`
are history. A store that reports an error of a write it has done is two steps: the
write, then the failure (`AcquireFails`, `RemoveFails`). `Backfill` is `main` of `cmd/radio-lab-cues`: `QueryRound` (the newest
`Batch` rows still missing, less those that failed), `Measures`, `MeasureFails`,
`RoundEnds`, while rows arrive and are deleted.

### Budget and Buckets

`Budget` has one action per moment of a paid call: `Decides` (the gate),
`CallStarts`, `CallReturns` (billed and booked), `BookingFails`, `CallFails` (neither
answered nor billed), and midnight, the bench and a kill beside them. A decision
has three kinds of call, in the order of the code. What follows an answer is `Goes`:
the next call, the end, or an error all the same (`AfterFailure`), because `OnEnd`
books an answer before `Generate` refuses one that is empty or cut off
(`brain/claude.go:60-65`, `brain/gemini.go`). The programmer makes a call that ended
in an error once more (`programmer/programmer.go:321-338`), the director does not:
a decision of the programmer may be billed six times, one of the director three. `Buckets` is
`allow` of `radioserver/buckets.go`, with time in seconds and a token worth
`RefillPer` of them, so that amounts are whole: the code's floats are not modelled.

### RequestTwins

Every action makes one call on the table of `RequestStore` and on what
`request/mem.go` keeps (`items`, `positions`); `MemAgrees` compares what each answers.
A list the twin returns is its set of rows and the relation "comes before" its code
puts them in: `pendingLocked` is three lists end to end, each in insertion order but
for the first, which is sorted (stably) by position.
A failure of a request that has aired is not among the calls: no caller makes it
(`HeldRows`, `AiredIsFinal`).

## 3. Runs

| run | question | bounds |
| --- | --- | --- |
| `queue_admission` | how far can concurrent calls and the programmer pass the limits they check without a lock? | 1 user, 2 calls, 2 tracks, 2 rows, quotas 2, depth 1, 1 pick |
| `queue_lifecycle` | what can happen to a request another actor holds? | 1 call, 1 operator, 2 tracks, 2 rows, 1 fault |
| `queue_liveness` | is every approved request decided? | 1 call, 2 tracks, 2 attempts, 1 fault (programmer off) |
| `feeder_broadcast` | what do crashes, caps, skips, flips and kills do to readers, directories, pins and requests handed between goroutines? | 1 track (deletable), 1 request, 1 restart per item, 3 readers, 3 directories, 3 faults |
| `feeder_liveness` | does a session end, does a request air? | 1 track, 1 request, 1 fault |
| `director_promises` | does a seam say the truth about what was and what comes? | 2 tracks, 1 request, 2 air-log entries, 1 stop |
| `director_clock` | is a break still wanted and owed, are clip files kept track of? | 1 track, 3 entries, a break every 2 tracks, all five kinds |
| `station` | do seven components that share no state keep their promises? | queue of 2 rows, 5 projected items; 2 broadcasts, 3 instants, 1 failed write; 1 song, 2 callers, 2 deletions, 1 reader, 3 artifacts, 1 failure; 3 backfill rows in rounds of 2; 2 days on a budget of one call; a bucket of 2 tokens, 4 seconds; 3 requests in the twins |

Why the bounds are enough. The properties of the queue speak of one row, one user
or one pair of rows; two rows, two calls and one of every other actor contain
every race between two of them, and the limits are scaled down so that all
of them are reached (`MCRequestQueue`). The crash cap of the feed is 3 in the
code and 1 here; three faults make a crash within a restart, the cap, and a kill
after either. Director entries only matter as "the one that just finished" and
"another"; two suffice for promises and three let the counter reach the cadence
twice. In `station`, five projected items are two seams of the default cadence in
small, with a pin, a lost track and a shuffle block among them, and the snapshots
(`MCTimeline`) are every queue of two rows with every pin, and every clock with
every clip; two broadcasts are a killed one and its successor, in three instants of
which an item takes two; two callers that acquire one song, with two deletions and a
reader between them, are the races `Library` is about, and a third artifact lets
the song be acquired again; two days and a budget of one call put both spenders on
the last cent, and one of them over midnight; three backfill rows are more than a
round. What is bounded is named in each module's constants: rows (`Ids`), faults,
deletable tracks, reader and directory names, air-log entries, stops, instants.

Every action fires in some passing run. Deadlock is checked in all runs but
`station`: the backfill ends, and time and the counters of failures end at their
bounds.

What the runs show:

- **Limits.** `PendingQuotaBound`, `DailyQuotaBound`, `DuplicateBound`: none of the
  limits is strict, each is exceeded by at most the calls in flight (plus the
  programmer for duplicates). `AiDepthBound`: the queue depth the programmer
  fills to is never exceeded by its own rows, although it inserts minutes after
  reading it. `AttemptsBound` (in `queue_liveness`,
  where a request has two attempts): an extra download takes a failed write or a kill, and
  a request is given up before its last one only because its track is no music or too
  long, whatever others did to its row during the download.
- **Held rows.** `HeldRows`, `AiredIsFinal`, `RefinesLifecycle`: the statements
  that write a status look at none, and still an aired request stays aired and
  only the request the feed holds becomes aired. One removed while the feed opens
  it is among them: `request/request.go:1-3` calls failed an end, and the feed's mark
  follows an item planned before the removal.
- **Order.** `OperatorOrderHolds`: a committed order survives later inserts,
  removals and older transactions. `ReadyIsPlayable`: a ready request has its
  track unless somebody deleted it.
- **Sessions.** No encoder directory, reader or skip outlives its session
  (`SessionDirLive`, `ReadersOwned`, `NoStaleSkip`), breaks are apart
  (`OneBreakPerSeam`), a resumed track does not use up the pin
  (`PinSurvivesResume`), and a request airs once (`RequestAirsOnce`).
- **Breaks.** `SeamFollowsAnchor`, `PromiseKept`, `ClipsOwned`, `ClipWanted`,
  `ClipOwed`. `PromiseKept` names its exceptions: the promised request is removed, its
  track is lost on the way to the air, the session ends, or the promise was made
  while a track was starting. Two of them took a long trace to find: a break that
  lands after the feed asked for one at a seam, whose promised track then fails to
  open, airs at the retry and promises a lost track; and a session that ends after
  it consumed the pin and before it announced, and is resumed on the
  earlier track, airs a break whose pin is gone.
- **Console.** `RunningOrder`: no break follows a break, no request is shown twice,
  a prepared break comes first. `MusicAgrees`: at any depth, the music shown is the
  music an undisturbed station airs. `FirstBreakAgrees`: so is the first break, while a
  track of a running session is on the air and the waiting clip is not stale;
  outside that the walk and the clock count differently. `CadenceKept`: on the air,
  two seams have `BreakEvery` tracks between them.
- **Record.** `BroadcastRecord`: rows end after they start, overlap only when the write
  that closes the earlier one failed, and none stays open past the next boot's
  reconciliation. `ItemsInsideBroadcasts`: no item is cut out of its broadcast by the
  reconstructed end. `AiringReported`: the console shows what airs, with three
  exceptions the property names (a flip off and on within one chunk; a clip whose row is not
  written yet; a session entered again without a flip, whose resumed track lies under
  a talk row).
- **Storage.** `LibraryBacked`: a row always has both objects, whoever was answered an
  artifact finds it unless the track was deleted, and an orphan comes from two acquires
  of one song or from a step that failed. `BackfillStrandsNothing`: a run that
  finishes has tried all it knew of, if it met fewer failing tracks than a round
  has rows. With more, a round of nothing but failures ends the run early.
- **Limits of money and rate.** `BudgetBound`: a day's bill stays below the budget plus nine calls
  (both spenders past the gate on the last cent, every answer to the programmer billed,
  refused and asked for again) plus what the ledger was never told.
  `BucketRate`: any window of *s* seconds grants at most the capacity and a token per
  refill, and a search is refused only where granting it would exceed that.
- **Twin.** `MemAgrees`: same queue order, same reads, lists and counts, same fates. The
  tests' evidence carries over.

### Where the code and its comments disagree

Four runs end in a violation, each of something a comment says:

- `queue_overlong` (`OverlongNeverReady`): the ten-minute cap on listener requests
  (`radioserver/server.go:416-422`) is not applied on the worker's cache hit
  (`acquire/acquire.go:61-65`), so an overlong track the lab downloads in the
  meantime becomes ready.
- `feeder_finished` (`FinishedAtMostOnce`): a skipped track whose duration is not
  over is resumed by the next session and reports its end a second time;
  `live/talk.go:43-45` says exactly once.
- `director_unbacked` (`PromiseBacked`): a break airs although the request it
  promises was removed after the pin; `director/prepare.go:155-159` calls that "the
  single outcome this design exists to prevent".
- `timeline_cadence` (`ProjectedCadence`): after the first projected seam, the console
  shows a seam every `BreakEvery - 1` tracks. The walk counts a track when it emits
  it (`timeline/walk.go:89`), the director when it ends, and `DueKind` adds one for
  the track on the air in both; `cadence/cadence.go:107-108`:
  "so the default cadence is truly every BreakEvery tracks". `CadenceKept` holds of
  what airs.

### Fairness

- `RequestQueue!FairSpec`: weak fairness of the worker's `RunOnce` only. Its loop
  (`acquire/worker.go:49-59`) ticks every five seconds and does nothing else. Calls,
  operators, the programmer and the feed owe nothing.
- `Feeder!FairSpec`: weak fairness of the feed and of the lookahead, each as a
  whole. Both are goroutines that wait for nothing outside the process but the
  database and the blob store, whose calls are taken to answer or fail; an item's
  audio is a finite file read one chunk per tick.
  Nothing is assumed of operators, of listeners or of the director.
- `Director` has no liveness property: every gate may stay closed.

## 4. Proofs

Eight modules hold theorems TLAPS checks, for every value of the constants: any
number of users, calls, operators, tracks, broadcasts, requests and failures, any quota,
crash cap, budget, capacity and clock setting. They assume what the modules' `ASSUME`s
say: finite sets of ids, tracks and rows, natural bounds (positive where the code's are: a
round has a row, a token takes time), and a "no such thing" value (`NoTrack`, id 0)
outside the set it complements; `BucketsTyped` and `StationTyped` also that there is a
user, the theorems of `StationProofs` that there is a snapshot to read. Most have
the same shape: an inductive invariant, a lemma per group of actions for each of its
parts, `Inductive` (`Spec => []IInv`), and the theorems that follow from it. TLC checked
each invariant on a small instance before it was proved. Every safety property of a
passing run is the conclusion of a theorem.

- **`RequestQueueProofs`.** `IInv` is `TypeOK`, `HeldRows`, `NamedTracks` (a row or a
  call in progress names a track), `Apart` and `IdleFeed`. `HeldRows` alone is not
  inductive: the worker and the feed overwrite rows by id, and the feed's write could
  hit the worker's row; `Apart` says they never hold the same one, because the worker
  takes approved rows, the feed ready ones, and no row goes back. Theorems:
  `TypeCorrect`, `HeldRowsSafe`, `AiredForever` (an aired request stays aired),
  and `Refinement`: every step of the queue is a step of `RequestLifecycle` or a stutter.
- **`RequestQueueProofs`, limits.** On that invariant. The lemma `Effects` says once
  what any step does to the rows: nothing but moves of status that add no pending row
  (`Quiet`), or one insert (`Inserts`) by a call or by the programmer. Each limit then
  needs what a writer still has in hand: the calls admitted and not inserted, whose
  set loses a member when the rows gain one (`HandedOver`, `OneMore`); for duplicates that the
  programmer offers a track once (`OnePick`); for the depth that what it wants fits when it
  starts and others only remove (`PicksFit`); for attempts that the worker has one left
  (`AttemptLeft`); that what the worker holds is in the library or deleted
  (`Playable`); and, for the order, what positions a committed list has and a list
  being sent may have (`OrderKept`). Theorems: `PendingQuota`, `DailyQuota`, `Copies`, `Depth`,
  `Attempts`, `ReadyPlays`, `OrderHolds`.
- **`FeederProofs`.** `IInv` says at every point of a session who holds the readers
  (`Handovers`: the lookahead has none between the hand-over and the next item's
  start, the item none before its open), which directories exist (`Directories`: two
  only between a restart's publish and its sweep), what the item may be (`Items`), and
  what must have aired since the last break (`Seams`). Field lemmas (`GoFields`,
  `TurnFields`, ...) say once what a step does to the feed's locals. Theorems:
  `TypeCorrect`, `ReadersAccounted`, `DirectoriesLive`, `SkipsFresh`, `BreaksApart`,
  `AirsOnce`, `PinsKept`. `AirsOnce` rests on a second invariant, `Servings`: a request
  may still be announced only as often as failures gave it another chance, counting
  what the feed has in hand but has not announced. `PinsKept` rests on `Resuming`: a
  resumed track is never at a step that plans, announces or pins.
- **`FeederProofs`, the queue behind it.** `Chosen` maps the feed's locals to the
  request in hand (in the plan until the commit, in the item until its mark);
  `Holding` says it was ready when taken and has been failed at most since, by a
  removal the feed does not see. The mapping needs it exactly where the
  feed writes by id without reading again, at the commit and at the mark. Theorems: `Refinement`
  (every step of `Feeder` is a step of `RequestLifecycle` or a stutter, those of the
  lookahead, the kill and the failed writes included), and from it `AiredForever`.
  `RequestQueue` implements the same specification, so the abstract feed of one and the
  abstract queue of the other promise each other the same. `LogAgreesWithTable`
  compares the two places an airing is recorded in: an aired row has an entry in the
  air log and a request with entries is an aired row, but for one request or one entry per
  failure (a failed append or mark is only logged, a kill may fall between the two).
- **`DirectorProofs`.** `IInv` is the types, `ClipsOwned`, `Preparation`, `Waiting` and
  `Listening`. `ClipOwed` speaks of a waiting clip only; what makes it true happened
  a minute earlier, when the break was begun. `Preparation` therefore carries "still
  owed, or cancelled since" through every step of the preparation; the lemma
  `OwedAhead` and its companions show that tracks that end, timers, forced breaks and
  rollovers never take a debt away, and that only a hand-over and a restart of the
  clock do, when the slot is empty or emptied. `Listening` ties what was heard to the
  feed's own record of the entry that finished. `PromiseKept` needs to know where a
  promise is: `PromisesInductive` says that a live one is the pin until the plan
  consumes it and the feed's track from then on, and that a break which missed its
  seam backsells an older entry and owes nothing. Theorems: `TypeCorrect`,
  `ClipFilesOwned`, `ClipOnAir`, `WaitingClip`, `SeamAnchored`, `PromiseAired`.
- **`StorageProofs`, library and backfill.** An artifact is handed on and never shared:
  one being stored is in one caller's hands and in no row (`Apart`), no two rows name
  one (`RowsApart`), and one being removed left its row before (`Removal`). So
  DeleteTrack's two removals cannot hit what another row or reader needs. Theorems:
  `LibraryTyped`, `Backed`. For the backfill, `BackfillInv` says what a round without
  progress has done with the first batch of its query, and the lemma `StoppedShort` why
  fewer failures than a batch has rows means that the batch was the whole query:
  otherwise take the row behind the batch with the fewest rows before it; a batch of
  rows is before it. Theorems: `NothingStranded`, `BackfillTyped`.
- **`StorageProofs`, the twin.** The twin has no ids and no NULLs: its rows are places of a list,
  its positions a map beside it. `TInv` says that place and id, map and column are one
  (`Same`, `NoRowYet`), and what makes each pair of orders one: no stamp is given out
  twice, only an aired row has its second (`Stamps`), and no two rows of the queue have
  one position (`PositionsApart`), because a reorder is accepted only for the whole
  queue. The two acceptance checks differ (a set against a set; length, membership and
  no duplicate): `SameLists` shows by counting that they accept the same
  lists. Theorems: `TwinsInductive`, `TwinsAgree`, `TwinsTyped`.
- **`BudgetProofs`.** `Room` adds to each day's bill what the two spenders may still be billed
  for it: after the gate three calls or, the programmer, six (`Chances`), one less with each
  call and with each retry, and on a day that is over only the call that began on it. Theorems: `SpendingBounded`, `BudgetTyped`.
  `BucketRate` speaks of every pair of a user's searches, a bucket holds one number.
  `Balanced` joins them: what a bucket holds is the least any search accounts for
  (`Credit`: what would be left had that search found the bucket full and none of the
  refill been lost since), so the window that fills up first decides both what is granted
  and what is refused. Theorems: `RateHeld`, `BucketsTyped`.
- **`BroadcastProofs`.** The rows are in the order they were opened and the open ones
  come last (`RowOrder`); without a failed write only the newest may be open, and
  none between two broadcasts of one process (`LiveRows`). No two items begin at one
  instant and none at that of a flip (`ItemTimes`). Every item lies in a row, those
  whose insert is still under way included (`Homes`): the reconciliation at boot can then only
  cut a row short after the last of its items. What is on the air is the last
  item that began (`OnAir`), which is what the console reads. Theorems: `RecordKept`,
  `ItemsHoused`, `ConsoleRight`, `BroadcastTyped`.
- **`TimelineProofs`.** `EndOfList` and `RowsLeft` say what the walk's locals remember of the
  list it has written: whether it ends in a break, and that the rows and the pin it
  still holds were not shown. Theorem: `Ordered`. The other properties compare the
  projection with what then airs, two lists that grow at different times. Neither is
  held against the other but against the snapshot: `Placed` gives the item at each
  place of the snapshot's queue in closed form (the pin, then the ready rows, then picks),
  `QueueLeft` says that each list has taken the first places of it, and `InStep` that
  until a break is shown the two clocks count the same. `SinceSeam` is the
  number of tracks behind the last seam, which the clock counts. Theorems: `Abreast`, `MusicRight`,
  `FirstBreakRight`, `Cadenced`, `Typed`.
- **`StationProofs`.** `StationRunsAll`: a step of `MCStation` is a step of the component in
  focus and leaves the variables of the others alone, so a behaviour of the station is
  one of each component, and the theorems of all seven hold of it together:
  `StationTyped`, `StationSafe`. The proof modules it extends name their invariants
  apart for that (`OrderInv`, `RecordInv`, `LibraryInv`, `SpendingInv`, ...; the theorems
  `OrderInductive`, `BroadcastInductive`, `LibraryInductive`, `BudgetInductive`).

### Only model-checked

Liveness (`ApprovedResolves`, `OffAirEnds`, `RequestServed`) is beyond the prover and stays
with TLC: it needs ENABLED for the fairness, and an induction over what is left to do.
What a recursive definition computes for every input would need induction over data;
no theorem here rests on one.

## 5. Not modelled

- Audio (encoding, mixing, sample clocks, pacing), prompts, voices and prices,
  sign-in, migrations, the search: no state a decision here reads.
- The downloader and the model providers, beyond "it answers or it fails".
- The programmer's guards on recency and song identity, and its ranking: a
  nondeterministic rejection, so every property of the queue holds whatever they do.
- What is published to listeners (`live/publish.go`, the queue snapshots) and the order in
  which notifications arrive.
- The mood and the DJ settings as something that changes: they are constants of a
  run. A budget of 0, which `timeline/gate.go:23` reads as "no cap" and the
  director and the programmer as "always reached", is excluded by `BudgetAssumption`.
- A graceful shutdown, except in `Broadcast`: for the feed it cancels the session's
  context, which unwinds as an off-air flip does.
- Session directories left by a killed process: `cmd/radio-lab/main.go` sweeps the
  clip directory at boot, and not these.
- Durations, but for the two nominal ones of `Broadcast`: the projection's horizon of
  thirty minutes is a walk that may stop after any item.
- Generated and wiring code: `db/query.sql.go` beyond the statements of `RequestStore`,
  `Library` and `Broadcast`, `db/models.go`, configuration, `main`.

## 6. Plan

1. **Extend.** The programmer's guards and its pool, in full; settings that change
   during a run (`cadence` reads them at every tick); the order of published queue
   snapshots.
2. **Compose.** An abstract `NextUp` contract of pin and plan that `Feeder` and
   `Director` both implement, which would replace the reduced feed of `Director`; the
   budget gate of `Budget` in front of `Director`'s preparation.
3. **Prove.** That `Director`'s reduced feed is implemented by `Feeder`, once they
   share the contract of 2, as the two halves of a request's life share
   `RequestLifecycle`; that `Refinement` of the two together is one of their product,
   with the table as the only state between them.
