---------------------------- MODULE RequestQueue ----------------------------
(***************************************************************************)
(* The request queue and everything that writes it: RequestTrack calls,    *)
(* the acquire worker, the programmer, the operator's remove and reorder,  *)
(* and the feed that airs a request.  The store takes no lock across two   *)
(* statements (pg.go:15-16), so every store statement is a step of its own *)
(* and whatever an actor read earlier may be stale when it writes.         *)
(*                                                                         *)
(* Left out: the wording of errors, the reads of the air log (AiredSince   *)
(* and the programmer's recent/failed/next-up guards only reject, and a    *)
(* rejection is always allowed here), publishing, and who is signed in.    *)
(***************************************************************************)
EXTENDS RequestStore

CONSTANTS Users,              \* listeners (JWT subjects)
          Tracks,             \* yt ids
          Overlong,           \* tracks whose probed duration exceeds the cap
          Deletable,          \* tracks an operator may delete (bound)
          NotMusic,           \* tracks acquire refuses as not music
          Handlers,           \* concurrent RequestTrack calls
          Operators,          \* concurrent ReorderRequests calls
          Ids,                \* ids the request table may hand out (bound)
          MaxPendingPerUser,  \* server.go maxPendingPerUser
          MaxPerDay,          \* server.go maxPerDay
          MaxAttempts,        \* worker.go MaxAttempts
          QueueDepthTarget,   \* programmer.go queueDepthTarget
          MaxPicks,           \* choose.go maxPicks
          AIEnabled,          \* the programmer runs (station.ai_enabled)
          MaxFaults,          \* failed store writes and restarts (bound)
          NoUser, NoTrack

ASSUME IdsAssumption == Ids \subseteq Nat \ {0} /\ IsFiniteSet(Ids)
ASSUME HandlersAssumption == IsFiniteSet(Handlers)
ASSUME QuotaAssumption ==
    MaxPendingPerUser \in Nat \ {0} /\ MaxPerDay \in Nat \ {0}
ASSUME AttemptsAssumption == MaxAttempts \in Nat \ {0} /\ MaxFaults \in Nat
ASSUME PicksAssumption ==
    /\ MaxPicks \in Nat \ {0}
    /\ QueueDepthTarget \in Nat
    /\ MaxPicks <= QueueDepthTarget
ASSUME NamesAssumption == NoUser \notin Users /\ NoTrack \notin Tracks

NoRequest == 0

VARIABLES rows,     \* the request table
          today,    \* listener requests created since DayStart
          library,  \* yt ids with a library row
          deleted,  \* history: yt ids an operator has deleted so far
          call,     \* RequestTrack calls in progress
          worker,   \* the acquire worker's RunOnce
          prog,     \* the programmer's RunOnce
          reorder,  \* ReorderRequests transactions in progress
          ordered,  \* history: the list the last Reorder committed
          air,      \* the feed's hold on a request
          faults    \* store writes that failed, and restarts, so far

vars == <<rows, today, library, deleted, call, worker, prog, reorder,
          ordered, air, faults>>

IdleCall == [pc |-> "idle", user |-> NoUser, yt |-> NoTrack, status |-> "none"]
IdleWorker == [pc |-> "idle", id |-> NoRequest]
IdleProgrammer == [pc |-> "idle", want |-> 1, pool |-> {}, picks |-> {},
                   made |-> FALSE]
IdleAir == [pc |-> "idle", id |-> NoRequest]

\* A candidate the programmer resolved, and whether it was cached then.
Candidate == [yt : Tracks, cached : BOOLEAN]

Init ==
    /\ rows = [i \in Ids |-> EmptyRow(NoUser, NoTrack)]
    /\ today = {}
    /\ library \in SUBSET (Tracks \ NotMusic)
    /\ deleted = {}
    /\ call = [h \in Handlers |-> IdleCall]
    /\ worker = IdleWorker
    /\ prog = IdleProgrammer
    /\ reorder = [o \in Operators |-> <<>>]
    /\ ordered = <<>>
    /\ air = IdleAir
    /\ faults = 0

\* One more failed store write or restart, within the bound.
Fault == faults < MaxFaults /\ faults' = faults + 1

-----------------------------------------------------------------------------
(* The conditions the actors test.  The *Bug variants are the mistakes the *)
(* model-checking runs must notice; no action uses them.                   *)

UnderPendingQuotaBug(u) == CountPendingByUser(rows, u) <= MaxPendingPerUser
UnderPendingQuota(u) == CountPendingByUser(rows, u) < MaxPendingPerUser

CreatedToday(u) == {i \in today : rows[i].user = u}
UnderDailyQuotaBug(u) == Cardinality(CreatedToday(u)) <= MaxPerDay
UnderDailyQuota(u) == Cardinality(CreatedToday(u)) < MaxPerDay

NotQueuedBug(t) == t \in Tracks
NotQueued(t) == ~HasPendingYTID(rows, t)

CachedBug(t) == t \in Tracks
Cached(t) == t \in library

ExhaustedBug(n) == n >= MaxAttempts - 1
Exhausted(n) == n >= MaxAttempts

\* The programmer wakes only when the queue can absorb a full batch, and fills
\* it up to the target, at most MaxPicks at a time and at least one.
WakesBug(n) == n <= QueueDepthTarget
Wakes(n) == n <= QueueDepthTarget - MaxPicks

WantPicksBug(n) == 1 + QueueDepthTarget - n
WantPicks(n) ==
    IF QueueDepthTarget - n > MaxPicks THEN MaxPicks
    ELSE IF QueueDepthTarget - n < 1 THEN 1 ELSE QueueDepthTarget - n

-----------------------------------------------------------------------------
(* RequestTrack: four guards, each its own read, then the insert. *)

CheckPending(h, u, t) ==
    /\ call[h].pc = "idle"
    /\ UnderPendingQuota(u)
    /\ call' = [call EXCEPT ![h] = [pc |-> "daily", user |-> u, yt |-> t,
                                    status |-> "none"]]
    /\ UNCHANGED <<rows, today, library, deleted, worker, prog, reorder,
                   ordered, air, faults>>

CheckDaily(h) ==
    /\ call[h].pc = "daily"
    /\ UnderDailyQuota(call[h].user)
    /\ call' = [call EXCEPT ![h].pc = "dup"]
    /\ UNCHANGED <<rows, today, library, deleted, worker, prog, reorder,
                   ordered, air, faults>>

CheckDup(h) ==
    /\ call[h].pc = "dup"
    /\ NotQueued(call[h].yt)
    /\ call' = [call EXCEPT ![h].pc = "library"]
    /\ UNCHANGED <<rows, today, library, deleted, worker, prog, reorder,
                   ordered, air, faults>>

\* A cached track is ready at once unless it is too long; an error of
\* Library.Get is ignored and reads as "not cached".
CheckLibrary(h) ==
    /\ call[h].pc = "library"
    /\ \/ /\ call[h].yt \in library \ Overlong
          /\ call' = [call EXCEPT ![h].pc = "create", ![h].status = "ready"]
          /\ UNCHANGED faults
       \/ /\ call[h].yt \notin library
          /\ call' = [call EXCEPT ![h].pc = "create", ![h].status = "approved"]
          /\ UNCHANGED faults
       \/ /\ call[h].yt \in library
          /\ Fault
          /\ call' = [call EXCEPT ![h].pc = "create", ![h].status = "approved"]
    /\ UNCHANGED <<rows, today, library, deleted, worker, prog, reorder,
                   ordered, air>>

CreateRequest(h) ==
    /\ call[h].pc = "create"
    /\ \E i \in Ids :
          /\ IsNextId(rows, i)
          /\ rows' = Create(rows, i, "listener", call[h].user, call[h].yt,
                            call[h].status)
          /\ today' = today \cup {i}
    /\ call' = [call EXCEPT ![h] = IdleCall]
    /\ UNCHANGED <<library, deleted, worker, prog, reorder, ordered, air, faults>>

\* Every guard that rejects, and every store error, ends the call.
RejectCall(h) ==
    /\ call[h].pc # "idle"
    /\ call' = [call EXCEPT ![h] = IdleCall]
    /\ UNCHANGED <<rows, today, library, deleted, worker, prog, reorder,
                   ordered, air, faults>>

-----------------------------------------------------------------------------
(* The acquire worker: RunOnce on the oldest approved request. *)

WorkerPoll ==
    /\ worker.pc = "idle"
    /\ \E i \in Ids :
          IsOldestApproved(rows, i) /\ worker' = [pc |-> "library", id |-> i]
    /\ UNCHANGED <<rows, today, library, deleted, call, prog, reorder, ordered,
                   air, faults>>

\* Acquire's look at the library, which can fail like all that follows it.
WorkerLibrary ==
    /\ worker.pc = "library"
    /\ \/ worker' = [worker EXCEPT !.pc =
                       IF Cached(rows[worker.id].yt) THEN "ready" ELSE "download"]
       \/ worker' = [worker EXCEPT !.pc = "bump"]
    /\ UNCHANGED <<rows, today, library, deleted, call, prog, reorder, ordered,
                   air, faults>>

\* Download, probe, measure, store, add: a success, a permanent refusal, or
\* an error worth retrying (which any track can meet).
WorkerDownload ==
    /\ worker.pc = "download"
    /\ \/ /\ rows[worker.id].yt \notin Overlong \cup NotMusic
          /\ library' = library \cup {rows[worker.id].yt}
          /\ worker' = [worker EXCEPT !.pc = "ready"]
       \/ /\ rows[worker.id].yt \in Overlong \cup NotMusic
          /\ worker' = [worker EXCEPT !.pc = "fail"]
          /\ UNCHANGED library
       \/ /\ worker' = [worker EXCEPT !.pc = "bump"]
          /\ UNCHANGED library
    /\ UNCHANGED <<rows, today, deleted, call, prog, reorder, ordered, air, faults>>

WorkerBump ==
    /\ worker.pc = "bump"
    /\ \/ /\ rows' = BumpAttempts(rows, worker.id)
          /\ worker' = IF Exhausted(rows'[worker.id].attempts)
                       THEN [worker EXCEPT !.pc = "fail"] ELSE IdleWorker
          /\ UNCHANGED faults
       \/ Fault /\ worker' = IdleWorker /\ UNCHANGED rows
    /\ UNCHANGED <<today, library, deleted, call, prog, reorder, ordered, air>>

WorkerFail ==
    /\ worker.pc = "fail"
    /\ \/ rows' = MarkFailed(rows, worker.id) /\ UNCHANGED faults
       \/ Fault /\ UNCHANGED rows
    /\ worker' = IdleWorker
    /\ UNCHANGED <<today, library, deleted, call, prog, reorder, ordered, air>>

\* MarkReady changes nothing (ErrNotFound) when the request was removed meanwhile.
WorkerReady ==
    /\ worker.pc = "ready"
    /\ \/ rows' = MarkReady(rows, worker.id) /\ UNCHANGED faults
       \/ Fault /\ UNCHANGED rows
    /\ worker' = IdleWorker
    /\ UNCHANGED <<today, library, deleted, call, prog, reorder, ordered, air>>

-----------------------------------------------------------------------------
(* The programmer: gate on the depth, resolve a pool, choose, enqueue. *)

\* Keyless mode and every failure before the pool exists go straight to respin.
ProgrammerWake ==
    /\ AIEnabled
    /\ prog.pc = "idle"
    /\ Wakes(Cardinality(Pending(rows)))
    /\ \E pc \in {"resolve", "respin"} :
          prog' = [IdleProgrammer EXCEPT
                     !.pc = pc, !.want = WantPicks(Cardinality(Pending(rows)))]
    /\ UNCHANGED <<rows, today, library, deleted, call, worker, reorder, ordered,
                   air, faults>>

\* classify keeps a candidate only when it is not queued at this moment; the
\* pool deduplicates by yt id.
ProgrammerResolve(t) ==
    /\ prog.pc = "resolve"
    /\ \A c \in prog.pool : c.yt # t
    /\ NotQueued(t)
    /\ prog' = [prog EXCEPT !.pool = @ \cup {[yt |-> t, cached |-> t \in library]}]
    /\ UNCHANGED <<rows, today, library, deleted, call, worker, reorder, ordered,
                   air, faults>>

ProgrammerChoose ==
    /\ prog.pc = "resolve"
    /\ \E picks \in SUBSET prog.pool :
          /\ picks # {}
          /\ Cardinality(picks) <= prog.want
          /\ prog' = [prog EXCEPT !.pc = "enqueue", !.pool = {}, !.picks = picks]
    /\ UNCHANGED <<rows, today, library, deleted, call, worker, reorder, ordered,
                   air, faults>>

\* An empty pool, a failed model call or an unusable choice.
ProgrammerGivesUp ==
    /\ prog.pc = "resolve"
    /\ prog' = [prog EXCEPT !.pc = "respin", !.pool = {}]
    /\ UNCHANGED <<rows, today, library, deleted, call, worker, reorder, ordered,
                   air, faults>>

\* enqueueChoice: the pick carries what the pool read earlier.
ProgrammerEnqueue(c) ==
    /\ prog.pc = "enqueue"
    /\ c \in prog.picks
    /\ \/ /\ \E i \in Ids :
                /\ IsNextId(rows, i)
                /\ rows' = Create(rows, i, "ai", NoUser, c.yt,
                                  IF c.cached THEN "ready" ELSE "approved")
          /\ prog' = [prog EXCEPT !.picks = @ \ {c}, !.made = TRUE]
          /\ UNCHANGED faults
       \/ /\ Fault
          /\ prog' = [prog EXCEPT !.picks = @ \ {c}]
          /\ UNCHANGED rows
    /\ UNCHANGED <<today, library, deleted, call, worker, reorder, ordered, air>>

ProgrammerDone ==
    /\ prog.pc = "enqueue"
    /\ prog.picks = {}
    /\ prog' = IF prog.made THEN IdleProgrammer
               ELSE [prog EXCEPT !.pc = "respin", !.pool = {}]
    /\ UNCHANGED <<rows, today, library, deleted, call, worker, reorder, ordered,
                   air, faults>>

\* One random library track through the guards.
RespinProbe(t) ==
    /\ prog.pc = "respin"
    /\ t \in library
    /\ NotQueued(t)
    /\ prog' = [prog EXCEPT !.pc = "respun",
                            !.picks = {[yt |-> t, cached |-> TRUE]}]
    /\ UNCHANGED <<rows, today, library, deleted, call, worker, reorder, ordered,
                   air, faults>>

RespinCreate(c) ==
    /\ prog.pc = "respun"
    /\ c \in prog.picks
    /\ \E i \in Ids :
          /\ IsNextId(rows, i)
          /\ rows' = Create(rows, i, "ai", NoUser, c.yt, "ready")
    /\ prog' = IdleProgrammer
    /\ UNCHANGED <<today, library, deleted, call, worker, reorder, ordered, air, faults>>

\* A guard drops the probed track, or the store fails: nothing is programmed.
RespinGivesUp ==
    /\ prog.pc \in {"respin", "respun"}
    /\ prog' = IdleProgrammer
    /\ UNCHANGED <<rows, today, library, deleted, call, worker, reorder, ordered,
                   air, faults>>

-----------------------------------------------------------------------------
(* The operator and the lab console. *)

RemoveRequest(i) ==
    /\ rows[i].status # "none"
    /\ rows' = FailPending(rows, i)
    /\ UNCHANGED <<today, library, deleted, call, worker, prog, reorder, ordered,
                   air, faults>>

\* Every way to list the members of S once.
Orderings(S) ==
    {s \in [1..Cardinality(S) -> S] : \A k, l \in DOMAIN s : s[k] = s[l] => k = l}

\* The transaction reads the pending ids and accepts the operator's list...
ReorderRead(o) ==
    /\ reorder[o] = <<>>
    /\ \E ids \in Orderings(Pending(rows)) :
          /\ Len(ids) > 0
          /\ ReorderAccepts(Pending(rows), ids)
          /\ reorder' = [reorder EXCEPT ![o] = ids]
    /\ UNCHANGED <<rows, today, library, deleted, call, worker, prog, ordered,
                   air, faults>>

\* ...then updates one row per id; the row locks order two transactions.
ReorderCommit(o) ==
    /\ reorder[o] # <<>>
    /\ rows' = Reorder(rows, reorder[o])
    /\ ordered' = reorder[o]
    /\ reorder' = [reorder EXCEPT ![o] = <<>>]
    /\ UNCHANGED <<today, library, deleted, call, worker, prog, air, faults>>

DeleteTrack(t) ==
    /\ t \in library \cap Deletable
    /\ library' = library \ {t}
    /\ deleted' = deleted \cup {t}
    /\ UNCHANGED <<rows, today, call, worker, prog, reorder, ordered, air, faults>>

\* The lab's acquire has no duration cap.
DownloadTrack(t) ==
    /\ t \notin library \cup NotMusic
    /\ library' = library \cup {t}
    /\ UNCHANGED <<rows, today, deleted, call, worker, prog, reorder, ordered,
                   air, faults>>

-----------------------------------------------------------------------------
(* The feed, as the queue sees it: Feeder models it in full. *)

\* planNext takes the head of the ready queue, or the ready request a next-up
\* pin names; any ready request can be pinned.
FeedChooses(i) ==
    /\ air.pc = "idle"
    /\ rows[i].status = "ready"
    /\ air' = [pc |-> "opening", id |-> i]
    /\ UNCHANGED <<rows, today, library, deleted, call, worker, prog, reorder,
                   ordered, faults>>

\* The track vanished from the library or did not open; a failed MarkFailed
\* leaves the request ready.
FeedFails ==
    /\ air.pc = "opening"
    /\ \/ rows' = MarkFailed(rows, air.id) /\ UNCHANGED faults
       \/ Fault /\ UNCHANGED rows
    /\ air' = IdleAir
    /\ UNCHANGED <<today, library, deleted, call, worker, prog, reorder, ordered>>

\* A pinned track vanished, or the session ended before the announcement: the
\* request keeps its status.
FeedGivesUp ==
    /\ air.pc = "opening"
    /\ air' = IdleAir
    /\ UNCHANGED <<rows, today, library, deleted, call, worker, prog, reorder,
                   ordered, faults>>

\* The track opened and is announced; MarkAired does not look at the status.
FeedAnnounces ==
    /\ air.pc = "opening"
    /\ \/ rows' = MarkAired(rows, air.id) /\ UNCHANGED faults
       \/ Fault /\ UNCHANGED rows
    /\ air' = IdleAir
    /\ UNCHANGED <<today, library, deleted, call, worker, prog, reorder, ordered>>

-----------------------------------------------------------------------------
\* Local midnight.
DayRolls ==
    /\ today # {}
    /\ today' = {}
    /\ UNCHANGED <<rows, library, deleted, call, worker, prog, reorder, ordered,
                   air, faults>>

\* The process dies and starts again: the tables stay, every actor forgets.
Restart ==
    /\ Fault
    /\ call' = [h \in Handlers |-> IdleCall]
    /\ worker' = IdleWorker
    /\ prog' = IdleProgrammer
    /\ reorder' = [o \in Operators |-> <<>>]
    /\ air' = IdleAir
    /\ UNCHANGED <<rows, today, library, deleted, ordered>>

RequestTrack(h) ==
    \/ \E u \in Users, t \in Tracks : CheckPending(h, u, t)
    \/ CheckDaily(h)
    \/ CheckDup(h)
    \/ CheckLibrary(h)
    \/ CreateRequest(h)
    \/ RejectCall(h)

WorkerRunOnce ==
    WorkerPoll \/ WorkerLibrary \/ WorkerDownload \/ WorkerBump \/ WorkerFail
        \/ WorkerReady

ProgrammerRunOnce ==
    \/ ProgrammerWake
    \/ \E t \in Tracks : ProgrammerResolve(t) \/ RespinProbe(t)
    \/ ProgrammerChoose
    \/ ProgrammerGivesUp
    \/ \E c \in Candidate : ProgrammerEnqueue(c) \/ RespinCreate(c)
    \/ ProgrammerDone
    \/ RespinGivesUp

Console ==
    \/ \E i \in Ids : RemoveRequest(i)
    \/ \E o \in Operators : ReorderRead(o) \/ ReorderCommit(o)
    \/ \E t \in Tracks : DeleteTrack(t) \/ DownloadTrack(t)

Feed ==
    \/ \E i \in Ids : FeedChooses(i)
    \/ FeedFails
    \/ FeedGivesUp
    \/ FeedAnnounces

Next ==
    \/ \E h \in Handlers : RequestTrack(h)
    \/ WorkerRunOnce
    \/ ProgrammerRunOnce
    \/ Console
    \/ Feed
    \/ DayRolls
    \/ Restart

Spec == Init /\ [][Next]_vars

-----------------------------------------------------------------------------
(* Properties. *)

CallState == [pc : {"idle", "daily", "dup", "library", "create"},
              user : Users \cup {NoUser}, yt : Tracks \cup {NoTrack},
              status : {"none", "approved", "ready"}]
WorkerState == [pc : {"idle", "library", "download", "bump", "fail", "ready"},
                id : Ids \cup {NoRequest}]
ProgrammerState == [pc : {"idle", "resolve", "enqueue", "respin", "respun"},
                    want : 1..MaxPicks, pool : SUBSET Candidate,
                    picks : SUBSET Candidate, made : BOOLEAN]
AirState == [pc : {"idle", "opening"}, id : Ids \cup {NoRequest}]

\* Every variable has its type; in particular a decision asks for at least one
\* pick and at most MaxPicks (choose.go:65-77).
TypeOK ==
    /\ rows \in [Ids -> Row(Users, Tracks, NoUser, NoTrack)]
    /\ today \subseteq Ids
    /\ library \subseteq Tracks
    /\ deleted \subseteq Tracks
    /\ call \in [Handlers -> CallState]
    /\ worker \in WorkerState
    /\ prog \in ProgrammerState
    /\ reorder \in [Operators -> Seq(Ids)]
    /\ ordered \in Seq(Ids)
    /\ air \in AirState
    /\ faults \in 0..MaxFaults

\* Calls of user u that have passed the pending quota and not inserted yet.
Admitted(u) == {h \in Handlers : call[h].pc # "idle" /\ call[h].user = u}

\* RequestTrack counts a user's pending requests and inserts much later with no
\* lock in between (server.go:386-431), so the quota can be exceeded, but never
\* by more than the calls that run at the same time: requests and admitted
\* calls together stay below quota + calls.
PendingQuotaBound ==
    \A u \in Users :
        CountPendingByUser(rows, u) + Cardinality(Admitted(u))
            <= MaxPendingPerUser + Cardinality(Handlers) - 1

\* Calls of user u that have passed the daily quota and not inserted yet.
AdmittedToday(u) ==
    {h \in Handlers : call[h].pc \in {"dup", "library", "create"}
                       /\ call[h].user = u}

\* The daily quota (server.go:393-399) has the same race, and a call that read
\* it before midnight inserts into the next day: the excess is bounded by the
\* calls in flight, whatever day they started in.
DailyQuotaBound ==
    \A u \in Users :
        Cardinality(CreatedToday(u)) + Cardinality(AdmittedToday(u))
            <= MaxPerDay + Cardinality(Handlers) - 1

\* Calls that have found track t not queued and not inserted yet.
Unqueued(t) ==
    {h \in Handlers : call[h].pc \in {"library", "create"} /\ call[h].yt = t}

\* The programmer has found track t not queued and not inserted it yet.
Offered(t) == \E c \in prog.pool \cup prog.picks : c.yt = t

\* HasPendingYTID and the insert are separate statements in RequestTrack and in
\* the programmer (server.go:400-431, guards.go:168-174), so a track can be
\* queued twice; every writer adds at most one copy, so there are never more
\* copies than writers (the calls and the one programmer).
DuplicateBound ==
    \A t \in Tracks :
        Cardinality(PendingOfTrack(rows, t)) + Cardinality(Unqueued(t))
            + (IF Offered(t) THEN 1 ELSE 0) <= Cardinality(Handlers) + 1

AiPending == {i \in Ids : rows[i].source = "ai" /\ rows[i].status \in PendingStatus}

\* The depth the programmer fills to is read once per decision and the model
\* calls take up to minutes (programmer.go:148-257); the AI requests waiting in
\* the queue never exceed the target all the same.
AiDepthBound == Cardinality(AiPending) <= QueueDepthTarget

\* worker.go:15-16: MaxAttempts is how many downloads a request gets, no fewer and
\* no more.  Each further one takes a write that failed or a restart, and a request
\* is given up before its last one only for what its track is, whatever the other
\* actors did to its row during the download.
AttemptsBound ==
    /\ \A i \in Ids : rows[i].attempts <= MaxAttempts + faults
    /\ worker.pc = "fail" => \/ rows[worker.id].attempts >= MaxAttempts
                             \/ rows[worker.id].yt \in Overlong \cup NotMusic

\* "ready" means "artifact cached, eligible to air" (request.go:23): a ready
\* request has its library row, or an operator deleted that track since boot.
ReadyIsPlayable ==
    \A i \in Ids : rows[i].status = "ready" => rows[i].yt \in library \cup deleted

\* What the operator last put in order airs in that order (request.go:91-93),
\* whatever is inserted, removed or reordered by an older transaction since.
OperatorOrderHolds ==
    \A k, l \in DOMAIN ordered :
        k < l /\ {ordered[k], ordered[l]} \subseteq Pending(rows)
            => AirsBefore(rows, ordered[k], ordered[l])

\* The row an actor has read and will write unconditionally is still one it may
\* write: the worker's request never became ready behind its back, the feed's
\* never anything but failed (worker.go:62-106, feeder.go:731-829).
HeldRows ==
    /\ worker.pc # "idle" =>
          worker.id \in Ids /\ rows[worker.id].status \in {"approved", "failed"}
    /\ air.pc # "idle" =>
          air.id \in Ids /\ rows[air.id].status \in {"ready", "failed"}

\* MarkFailed and MarkAired overwrite any status (query.sql:146-150); an aired
\* request nevertheless stays aired.
AiredIsFinal ==
    [][\A i \in Ids : rows[i].status = "aired" => rows'[i].status = "aired"]_vars

\* The queue keeps the promise of RequestLifecycle: among others, only a request
\* the feed holds becomes aired and only an approved one becomes ready.
Lifecycle == INSTANCE RequestLifecycle
                 WITH status <- [i \in Ids |-> rows[i].status],
                      chosen <- air.id
RefinesLifecycle == Lifecycle!Spec

\* server.go:416-422: the probed duration of the library row is what counts for
\* the ten-minute cap, so a listener's request for an overlong track is refused.
OverlongNeverReady ==
    \A i \in Ids : rows[i].source = "listener" /\ rows[i].status = "ready"
                        => rows[i].yt \notin Overlong

\* Every approved request is decided: it becomes ready, fails, or is removed,
\* because the worker's poll (worker.go:49-59) always takes the oldest and gives
\* up after MaxAttempts.
ApprovedResolves ==
    \A i \in Ids : rows[i].status = "approved" ~> rows[i].status # "approved"

-----------------------------------------------------------------------------
\* The worker's poll loop keeps running; nobody else has to.
FairSpec == Spec /\ WF_vars(WorkerRunOnce)
=============================================================================
