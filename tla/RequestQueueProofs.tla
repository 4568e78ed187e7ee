------------------------- MODULE RequestQueueProofs -------------------------
(***************************************************************************)
(* Theorems about RequestQueue for every set of users, tracks, calls and    *)
(* ids, every quota and number of failures.  Type correctness comes first;  *)
(* HeldRows needs one strengthening (the worker and the feed never hold the *)
(* same row), and AiredIsFinal and the refinement of RequestLifecycle       *)
(* follow from it.  The limits come second: how far the checks without a    *)
(* lock can be overrun, how often a request is downloaded, and that a ready *)
(* request has its track.  They rest on that invariant and on what a step   *)
(* can do to the rows, said once in Effects.                                *)
(***************************************************************************)
EXTENDS RequestQueue, FiniteSetTheorems, TLAPS

RowType == Row(Users, Tracks, NoUser, NoTrack)
Table == [Ids -> RowType]

-----------------------------------------------------------------------------
(* What the store's statements do to a well-typed table. *)

\* A row starts well-typed.
LEMMA EmptyRowType == EmptyRow(NoUser, NoTrack) \in RowType
  BY DEF RowType, Row, EmptyRow, Status, Source, PendingStatus, TerminalStatus,
         NoPosition

\* Writing a status keeps the type and every other column.
LEMMA SetStatusType ==
  ASSUME NEW q \in Table, NEW i \in Ids, NEW s \in Status
  PROVE  SetStatus(q, i, s) \in Table
  BY DEF SetStatus, Table, RowType, Row

\* The four status writes keep the type (query.sql:143-150, 200-202).
LEMMA StatusWritesType ==
  ASSUME NEW q \in Table, NEW i \in Ids
  PROVE  /\ MarkReady(q, i) \in Table
         /\ MarkAired(q, i) \in Table
         /\ MarkFailed(q, i) \in Table
         /\ FailPending(q, i) \in Table
<1>1. {"ready", "aired", "failed"} \subseteq Status
  BY DEF Status, PendingStatus, TerminalStatus
<1>2. QED
  BY <1>1, SetStatusType DEF MarkReady, MarkAired, MarkFailed, FailPending

\* An insert keeps the type.
LEMMA CreateType ==
  ASSUME NEW q \in Table, NEW i \in Ids, NEW source \in {"listener", "ai"},
         NEW u \in Users \cup {NoUser}, NEW t \in Tracks \cup {NoTrack},
         NEW s \in {"none", "approved", "ready"}
  PROVE  Create(q, i, source, u, t, s) \in Table
<1> DEFINE row == [status |-> s, source |-> source, user |-> u, yt |-> t,
                   pos |-> NoPosition, attempts |-> 0]
<1>1. row \in RowType
  BY DEF RowType, Row, Status, Source, PendingStatus, TerminalStatus, NoPosition
<1>2. Create(q, i, source, u, t, s) = [q EXCEPT ![i] = row]
  BY DEF Create
<1> HIDE DEF row
<1>3. QED
  BY <1>1, <1>2 DEF Table

\* Counting a failed attempt keeps the type.
LEMMA BumpType ==
  ASSUME NEW q \in Table, NEW i \in Ids
  PROVE  BumpAttempts(q, i) \in Table
  BY DEF BumpAttempts, Table, RowType, Row

\* A list of ids gives every listed row an explicit position.
LEMMA ReorderType ==
  ASSUME NEW q \in Table, NEW ids \in Seq(Ids)
  PROVE  Reorder(q, ids) \in Table
<1> SUFFICES ASSUME NEW i \in Ids
             PROVE  Reorder(q, ids)[i] \in RowType
  BY DEF Reorder, Table
<1>1. CASE \E k \in DOMAIN ids : ids[k] = i
  <2>1. IndexIn(ids, i) \in DOMAIN ids
    BY <1>1 DEF IndexIn
  <2>2. IndexIn(ids, i) - 1 \in Nat
    BY <2>1
  <2>3. Reorder(q, ids)[i] = [q[i] EXCEPT !.pos = IndexIn(ids, i) - 1]
    BY <1>1 DEF Reorder, Table
  <2>4. QED
    BY <2>2, <2>3 DEF Table, RowType, Row
<1>2. CASE ~ \E k \in DOMAIN ids : ids[k] = i
  BY <1>2 DEF Reorder, Table
<1>3. QED
  BY <1>1, <1>2

\* The ids in use are finitely many.
LEMMA SubsetOfIds ==
  ASSUME NEW S \in SUBSET Ids
  PROVE  IsFiniteSet(S) /\ Cardinality(S) \in Nat
  BY IdsAssumption, FS_Subset, FS_CardinalityType
-----------------------------------------------------------------------------
(* The inductive invariant. *)

\* Every inserted row, and every call in progress, names a track; a call about
\* to insert has decided the status.
NamedTracks ==
    /\ \A i \in Ids : rows[i].status # "none" => rows[i].yt \in Tracks
    /\ \A h \in Handlers :
          /\ call[h].pc # "idle" => call[h].yt \in Tracks
          /\ call[h].pc = "create" => call[h].status \in {"approved", "ready"}

\* The worker and the feed never hold the same row: without it a removed row
\* held by both could be marked aired under the worker.
Apart == worker.pc # "idle" /\ air.pc # "idle" => worker.id # air.id

\* An idle feed holds no request.
IdleFeed == air.pc = "idle" => air.id = NoRequest

IInv == TypeOK /\ HeldRows /\ NamedTracks /\ Apart /\ IdleFeed

-----------------------------------------------------------------------------
(* Type correctness. *)

\* Initially every variable has its type.
LEMMA InitType == Init => TypeOK
<1> SUFFICES ASSUME Init PROVE TypeOK
  OBVIOUS
<1>1. rows \in Table
  BY EmptyRowType DEF Init, Table
<1>2. call \in [Handlers -> CallState] /\ worker \in WorkerState /\ air \in AirState
  BY DEF Init, IdleCall, IdleWorker, IdleAir, CallState, WorkerState, AirState
<1>3. prog \in ProgrammerState
  BY PicksAssumption DEF Init, IdleProgrammer, ProgrammerState
<1>4. reorder \in [Operators -> Seq(Ids)] /\ ordered \in Seq(Ids)
  BY DEF Init
<1>5. today \subseteq Ids /\ library \subseteq Tracks /\ deleted \subseteq Tracks
  BY DEF Init
<1>6. faults \in 0..MaxFaults
  BY AttemptsAssumption DEF Init
<1>7. QED
  BY <1>1, <1>2, <1>3, <1>4, <1>5, <1>6 DEF TypeOK, Table, RowType

\* One more fault stays within the bound.
LEMMA FaultType ==
  ASSUME TypeOK, Fault
  PROVE  faults' \in 0..MaxFaults
  BY AttemptsAssumption DEF TypeOK, Fault

\* The steps of a RequestTrack call.
LEMMA CallType ==
  ASSUME TypeOK, NEW h \in Handlers, RequestTrack(h)
  PROVE  TypeOK'
<1>1. CASE \E u \in Users, t \in Tracks : CheckPending(h, u, t)
  <2>1. PICK u \in Users, t \in Tracks :
          call' = [call EXCEPT ![h] = [pc |-> "daily", user |-> u, yt |-> t,
                                       status |-> "none"]]
    BY <1>1 DEF CheckPending
  <2>2. call' \in [Handlers -> CallState]
    BY <2>1 DEF TypeOK, CallState
  <2>3. QED
    BY <1>1, <2>2 DEF TypeOK, CheckPending
<1>2. CASE CheckDaily(h) \/ CheckDup(h)
  <2>1. PICK pc \in {"dup", "library"} : call' = [call EXCEPT ![h].pc = pc]
    BY <1>2 DEF CheckDaily, CheckDup
  <2>2. call' \in [Handlers -> CallState]
    BY <2>1 DEF TypeOK, CallState
  <2>3. QED
    BY <1>2, <2>2 DEF TypeOK, CheckDaily, CheckDup
<1>3. CASE CheckLibrary(h)
  <2>1. PICK s \in {"ready", "approved"} :
          call' = [call EXCEPT ![h].pc = "create", ![h].status = s]
    BY <1>3 DEF CheckLibrary
  <2>2. call' \in [Handlers -> CallState]
    BY <2>1 DEF TypeOK, CallState
  <2>3. faults' \in 0..MaxFaults
    BY <1>3, FaultType DEF TypeOK, CheckLibrary
  <2>4. QED
    BY <1>3, <2>2, <2>3 DEF TypeOK, CheckLibrary
<1>4. CASE CreateRequest(h)
  <2>1. PICK i \in Ids :
          /\ rows' = Create(rows, i, "listener", call[h].user, call[h].yt,
                            call[h].status)
          /\ today' = today \cup {i}
    BY <1>4 DEF CreateRequest
  <2>2. /\ call[h].user \in Users \cup {NoUser}
        /\ call[h].yt \in Tracks \cup {NoTrack}
        /\ call[h].status \in {"none", "approved", "ready"}
    BY DEF TypeOK, CallState
  <2>3. rows' \in Table
    BY <2>1, <2>2, CreateType DEF TypeOK, Table, RowType
  <2>4. call' \in [Handlers -> CallState]
    BY <1>4 DEF TypeOK, CreateRequest, IdleCall, CallState
  <2>5. QED
    BY <1>4, <2>1, <2>3, <2>4 DEF TypeOK, CreateRequest, Table, RowType
<1>5. CASE RejectCall(h)
  <2>1. call' \in [Handlers -> CallState]
    BY <1>5 DEF TypeOK, RejectCall, IdleCall, CallState
  <2>2. QED
    BY <1>5, <2>1 DEF TypeOK, RejectCall
<1>6. QED
  BY <1>1, <1>2, <1>3, <1>4, <1>5 DEF RequestTrack

\* The steps of the worker.  A busy worker holds an id of the table.
LEMMA WorkerType ==
  ASSUME TypeOK, HeldRows, NamedTracks, WorkerRunOnce
  PROVE  TypeOK'
<1>1. CASE WorkerPoll
  <2>1. worker' \in WorkerState
    BY <1>1 DEF WorkerPoll, WorkerState
  <2>2. QED
    BY <1>1, <2>1 DEF TypeOK, WorkerPoll
<1>2. CASE WorkerLibrary
  <2>1. worker' \in WorkerState
    BY <1>2 DEF TypeOK, WorkerLibrary, WorkerState
  <2>2. QED
    BY <1>2, <2>1 DEF TypeOK, WorkerLibrary
<1>3. CASE WorkerDownload
  <2>1. worker' \in WorkerState
    BY <1>3 DEF TypeOK, WorkerDownload, WorkerState
  <2>2. library' \subseteq Tracks
    BY <1>3 DEF TypeOK, WorkerDownload, HeldRows, NamedTracks
  <2>3. QED
    BY <1>3, <2>1, <2>2 DEF TypeOK, WorkerDownload
<1>4. CASE WorkerBump
  <2>1. worker.id \in Ids
    BY <1>4 DEF WorkerBump, HeldRows
  <2>2. rows' \in Table
    BY <1>4, <2>1, BumpType DEF TypeOK, WorkerBump, Table, RowType
  <2>3. worker' \in WorkerState
    BY <1>4 DEF TypeOK, WorkerBump, WorkerState, IdleWorker
  <2>4. faults' \in 0..MaxFaults
    BY <1>4, FaultType DEF TypeOK, WorkerBump
  <2>5. QED
    BY <1>4, <2>2, <2>3, <2>4 DEF TypeOK, WorkerBump, Table, RowType
<1>5. CASE WorkerFail \/ WorkerReady
  <2>1. worker.id \in Ids
    BY <1>5 DEF WorkerFail, WorkerReady, HeldRows
  <2>2. rows' \in Table
    BY <1>5, <2>1, StatusWritesType DEF TypeOK, WorkerFail, WorkerReady, Table, RowType
  <2>3. worker' \in WorkerState
    BY <1>5 DEF WorkerFail, WorkerReady, WorkerState, IdleWorker
  <2>4. faults' \in 0..MaxFaults
    BY <1>5, FaultType DEF TypeOK, WorkerFail, WorkerReady
  <2>5. QED
    BY <1>5, <2>2, <2>3, <2>4 DEF TypeOK, WorkerFail, WorkerReady, Table, RowType
<1>6. QED
  BY <1>1, <1>2, <1>3, <1>4, <1>5 DEF WorkerRunOnce

\* WantPicks is between one and MaxPicks for every depth.
LEMMA WantPicksType ==
  ASSUME NEW n \in Nat
  PROVE  WantPicks(n) \in 1..MaxPicks
  BY PicksAssumption DEF WantPicks

\* The steps of the programmer.
LEMMA ProgrammerType ==
  ASSUME TypeOK, ProgrammerRunOnce
  PROVE  TypeOK'
<1>1. CASE ProgrammerWake
  <2>1. WantPicks(Cardinality(Pending(rows))) \in 1..MaxPicks
    BY SubsetOfIds, WantPicksType DEF TypeOK, Pending
  <2>2. PICK pc \in {"resolve", "respin"} :
          prog' = [IdleProgrammer EXCEPT
                     !.pc = pc, !.want = WantPicks(Cardinality(Pending(rows)))]
    BY <1>1 DEF ProgrammerWake
  <2>3. prog' \in ProgrammerState
    BY <2>1, <2>2 DEF ProgrammerState, IdleProgrammer
  <2>4. QED
    BY <1>1, <2>3 DEF TypeOK, ProgrammerWake
<1>2. ASSUME NEW t \in Tracks, ProgrammerResolve(t)
      PROVE  TypeOK'
  <2>1. prog' = [prog EXCEPT !.pool = @ \cup {[yt |-> t, cached |-> t \in library]}]
    BY <1>2 DEF ProgrammerResolve
  <2>2. [yt |-> t, cached |-> t \in library] \in Candidate
    BY DEF Candidate
  <2>3. prog' \in ProgrammerState
    BY <2>1, <2>2 DEF TypeOK, ProgrammerState
  <2>4. QED
    BY <1>2, <2>3 DEF TypeOK, ProgrammerResolve
<1>3. ASSUME NEW t \in Tracks, RespinProbe(t)
      PROVE  TypeOK'
  <2>1. prog' = [prog EXCEPT !.pc = "respun",
                             !.picks = {[yt |-> t, cached |-> TRUE]}]
    BY <1>3 DEF RespinProbe
  <2>2. [yt |-> t, cached |-> TRUE] \in Candidate
    BY DEF Candidate
  <2>3. prog' \in ProgrammerState
    BY <2>1, <2>2 DEF TypeOK, ProgrammerState
  <2>4. QED
    BY <1>3, <2>3 DEF TypeOK, RespinProbe
<1>4. CASE ProgrammerChoose
  <2>1. PICK picks \in SUBSET prog.pool :
          prog' = [prog EXCEPT !.pc = "enqueue", !.pool = {}, !.picks = picks]
    BY <1>4 DEF ProgrammerChoose
  <2>2. prog' \in ProgrammerState
    BY <2>1 DEF TypeOK, ProgrammerState
  <2>3. QED
    BY <1>4, <2>2 DEF TypeOK, ProgrammerChoose
<1>5. CASE ProgrammerGivesUp \/ ProgrammerDone \/ RespinGivesUp
  <2>1. prog' \in {IdleProgrammer, [prog EXCEPT !.pc = "respin", !.pool = {}]}
    BY <1>5 DEF ProgrammerGivesUp, ProgrammerDone, RespinGivesUp
  <2>2. IdleProgrammer \in ProgrammerState
    BY PicksAssumption DEF IdleProgrammer, ProgrammerState
  <2>3. [prog EXCEPT !.pc = "respin", !.pool = {}] \in ProgrammerState
    BY DEF TypeOK, ProgrammerState
  <2>4. QED
    BY <1>5, <2>1, <2>2, <2>3 DEF TypeOK, ProgrammerGivesUp, ProgrammerDone, RespinGivesUp
<1>6. ASSUME NEW c \in Candidate, ProgrammerEnqueue(c)
      PROVE  TypeOK'
  <2>1. rows' \in Table
    <3>1. CASE UNCHANGED rows
      BY <3>1 DEF TypeOK, Table, RowType
    <3>2. CASE rows' # rows
      <4>1. PICK i \in Ids : rows' = Create(rows, i, "ai", NoUser, c.yt,
                                 IF c.cached THEN "ready" ELSE "approved")
        BY <1>6, <3>2 DEF ProgrammerEnqueue
      <4>2. QED
        BY <4>1, CreateType DEF TypeOK, Candidate, Table, RowType
    <3>3. QED
      BY <3>1, <3>2
  <2>2. prog' \in ProgrammerState
    BY <1>6 DEF TypeOK, ProgrammerEnqueue, ProgrammerState
  <2>3. faults' \in 0..MaxFaults
    BY <1>6, FaultType DEF TypeOK, ProgrammerEnqueue
  <2>4. QED
    BY <1>6, <2>1, <2>2, <2>3 DEF TypeOK, ProgrammerEnqueue, Table, RowType
<1>7. ASSUME NEW c \in Candidate, RespinCreate(c)
      PROVE  TypeOK'
  <2>1. PICK i \in Ids : rows' = Create(rows, i, "ai", NoUser, c.yt, "ready")
    BY <1>7 DEF RespinCreate
  <2>2. rows' \in Table
    BY <2>1, CreateType DEF TypeOK, Candidate, Table, RowType
  <2>3. prog' \in ProgrammerState
    BY <1>7, PicksAssumption DEF RespinCreate, ProgrammerState, IdleProgrammer
  <2>4. QED
    BY <1>7, <2>2, <2>3 DEF TypeOK, RespinCreate, Table, RowType
<1>8. QED
  BY <1>1, <1>2, <1>3, <1>4, <1>5, <1>6, <1>7 DEF ProgrammerRunOnce

\* The operator's steps.
LEMMA ConsoleType ==
  ASSUME TypeOK, Console
  PROVE  TypeOK'
<1>1. ASSUME NEW i \in Ids, RemoveRequest(i)
      PROVE  TypeOK'
  <2>1. rows' \in Table
    BY <1>1, StatusWritesType DEF TypeOK, RemoveRequest, Table, RowType
  <2>2. QED
    BY <1>1, <2>1 DEF TypeOK, RemoveRequest, Table, RowType
<1>2. ASSUME NEW o \in Operators, ReorderRead(o)
      PROVE  TypeOK'
  <2>1. PICK ids \in Orderings(Pending(rows)) :
          reorder' = [reorder EXCEPT ![o] = ids]
    BY <1>2 DEF ReorderRead
  <2>2. Pending(rows) \subseteq Ids
    BY DEF TypeOK, Pending
  <2>3. ids \in Seq(Ids)
    BY <2>2, SubsetOfIds DEF Orderings
  <2>4. QED
    BY <1>2, <2>1, <2>3 DEF TypeOK, ReorderRead
<1>3. ASSUME NEW o \in Operators, ReorderCommit(o)
      PROVE  TypeOK'
  <2>1. rows' \in Table
    BY <1>3, ReorderType DEF TypeOK, ReorderCommit, Table, RowType
  <2>2. ordered' \in Seq(Ids) /\ reorder' \in [Operators -> Seq(Ids)]
    BY <1>3 DEF TypeOK, ReorderCommit
  <2>3. QED
    BY <1>3, <2>1, <2>2 DEF TypeOK, ReorderCommit, Table, RowType
<1>4. ASSUME NEW t \in Tracks, DeleteTrack(t) \/ DownloadTrack(t)
      PROVE  TypeOK'
  BY <1>4 DEF TypeOK, DeleteTrack, DownloadTrack
<1>5. QED
  BY <1>1, <1>2, <1>3, <1>4 DEF Console

\* The feed's steps.  A feed that is opening holds an id of the table.
LEMMA FeedType ==
  ASSUME TypeOK, HeldRows, Feed
  PROVE  TypeOK'
<1>1. ASSUME NEW i \in Ids, FeedChooses(i)
      PROVE  TypeOK'
  <2>1. air' \in AirState
    BY <1>1 DEF FeedChooses, AirState
  <2>2. QED
    BY <1>1, <2>1 DEF TypeOK, FeedChooses
<1>2. CASE FeedFails \/ FeedAnnounces \/ FeedGivesUp
  <2>1. air.id \in Ids
    BY <1>2 DEF HeldRows, FeedFails, FeedAnnounces, FeedGivesUp
  <2>2. rows' \in Table
    BY <1>2, <2>1, StatusWritesType
       DEF TypeOK, FeedFails, FeedAnnounces, FeedGivesUp, Table, RowType
  <2>3. air' \in AirState
    BY <1>2 DEF FeedFails, FeedAnnounces, FeedGivesUp, AirState, IdleAir
  <2>4. faults' \in 0..MaxFaults
    BY <1>2, FaultType DEF TypeOK, FeedFails, FeedAnnounces, FeedGivesUp
  <2>5. QED
    BY <1>2, <2>2, <2>3, <2>4
       DEF TypeOK, FeedFails, FeedAnnounces, FeedGivesUp, Table, RowType
<1>3. QED
  BY <1>1, <1>2 DEF Feed

\* Every step keeps the types.
LEMMA NextType ==
  ASSUME TypeOK, HeldRows, NamedTracks, [Next]_vars
  PROVE  TypeOK'
<1>1. CASE DayRolls
  BY <1>1 DEF TypeOK, DayRolls
<1>2. CASE Restart
  <2>1. /\ call' \in [Handlers -> CallState]
        /\ worker' \in WorkerState
        /\ air' \in AirState
    BY <1>2 DEF Restart, IdleCall, IdleWorker, IdleAir, CallState, WorkerState,
       AirState
  <2>2. prog' \in ProgrammerState
    BY <1>2, PicksAssumption DEF Restart, IdleProgrammer, ProgrammerState
  <2>3. reorder' \in [Operators -> Seq(Ids)]
    BY <1>2 DEF Restart
  <2>4. faults' \in 0..MaxFaults
    BY <1>2, FaultType DEF Restart
  <2>5. QED
    BY <1>2, <2>1, <2>2, <2>3, <2>4 DEF TypeOK, Restart
<1>3. CASE UNCHANGED vars
  BY <1>3 DEF TypeOK, vars
<1>4. QED
  BY <1>1, <1>2, <1>3, CallType, WorkerType, ProgrammerType, ConsoleType, FeedType
     DEF Next

-----------------------------------------------------------------------------
(* The rows the worker and the feed hold. *)

\* What each write of the store does to the statuses: it sets one of them, to a
\* value that depends on the status before, or none.
LEMMA WritesOfStatus ==
  ASSUME NEW q \in Table, NEW i \in Ids, NEW j \in Ids
  PROVE  /\ MarkAired(q, i)[j].status = IF j = i THEN "aired" ELSE q[j].status
         /\ MarkFailed(q, i)[j].status = IF j = i THEN "failed" ELSE q[j].status
         /\ MarkReady(q, i)[j].status =
               IF j = i /\ q[i].status = "approved" THEN "ready" ELSE q[j].status
         /\ FailPending(q, i)[j].status =
               IF j = i /\ q[i].status \in PendingStatus THEN "failed"
               ELSE q[j].status
         /\ BumpAttempts(q, i)[j].status = q[j].status
  BY DEF SetStatus, MarkAired, MarkFailed, MarkReady, FailPending, BumpAttempts,
         Table, RowType, Row

\* A new position changes no status.
LEMMA ReorderStatus ==
  ASSUME NEW q \in Table, NEW ids \in Seq(Ids), NEW j \in Ids
  PROVE  Reorder(q, ids)[j].status = q[j].status
<1> DEFINE p == IndexIn(ids, j) - 1
<1>1. Reorder(q, ids)[j] = IF \E k \in DOMAIN ids : ids[k] = j
                           THEN [q[j] EXCEPT !.pos = p] ELSE q[j]
  BY DEF Reorder, Table
<1> HIDE DEF p
<1>2. QED
  BY <1>1 DEF Table, RowType, Row

\* No write of a status, position or counter changes the track of a row.
LEMMA WritesOfTrack ==
  ASSUME NEW q \in Table, NEW i \in Ids, NEW j \in Ids
  PROVE  /\ MarkAired(q, i)[j].yt = q[j].yt
         /\ MarkFailed(q, i)[j].yt = q[j].yt
         /\ MarkReady(q, i)[j].yt = q[j].yt
         /\ FailPending(q, i)[j].yt = q[j].yt
         /\ BumpAttempts(q, i)[j].yt = q[j].yt
  BY DEF SetStatus, MarkAired, MarkFailed, MarkReady, FailPending, BumpAttempts,
         Table, RowType, Row

LEMMA ReorderTrack ==
  ASSUME NEW q \in Table, NEW ids \in Seq(Ids), NEW j \in Ids
  PROVE  Reorder(q, ids)[j].yt = q[j].yt
<1> DEFINE p == IndexIn(ids, j) - 1
<1>1. Reorder(q, ids)[j] = IF \E k \in DOMAIN ids : ids[k] = j
                           THEN [q[j] EXCEPT !.pos = p] ELSE q[j]
  BY DEF Reorder, Table
<1> HIDE DEF p
<1>2. QED
  BY <1>1 DEF Table, RowType, Row

\* The steps of a RequestTrack call.
LEMMA CallHeld ==
  ASSUME IInv, NEW h \in Handlers, RequestTrack(h)
  PROVE  HeldRows' /\ NamedTracks' /\ Apart'
<1>1. CASE CreateRequest(h)
  <2>1. PICK i \in Ids :
          /\ IsNextId(rows, i)
          /\ rows' = Create(rows, i, "listener", call[h].user, call[h].yt,
                            call[h].status)
    BY <1>1 DEF CreateRequest
  <2>2. rows \in Table
    BY DEF IInv, TypeOK, Table, RowType
  <2>3. /\ rows[i].status = "none"
        /\ \A j \in Ids \ {i} : rows'[j] = rows[j]
        /\ rows'[i].yt = call[h].yt
    BY <2>1, <2>2 DEF IsNextId, Create, Table
  <2>4. HeldRows' /\ Apart'
    BY <1>1, <2>3 DEF IInv, HeldRows, Apart, CreateRequest
  <2>5. NamedTracks'
    BY <1>1, <2>3 DEF IInv, TypeOK, NamedTracks, CreateRequest, IdleCall
  <2>6. QED
    BY <2>4, <2>5
<1>2. CASE ~CreateRequest(h)
  <2>1. UNCHANGED <<rows, worker, air>>
    BY <1>2 DEF RequestTrack, CheckPending, CheckDaily, CheckDup, CheckLibrary,
       RejectCall
  <2>2. PICK c :
          /\ call' = [call EXCEPT ![h] = c]
          /\ c.pc # "idle" => c.yt \in Tracks
          /\ c.pc = "create" => c.status \in {"approved", "ready"}
    <3>1. CASE \E u \in Users, t \in Tracks : CheckPending(h, u, t)
      BY <3>1 DEF CheckPending
    <3>2. CASE CheckDaily(h) \/ CheckDup(h)
      <4>1. PICK pc \in {"dup", "library"} :
              call[h].pc # "idle" /\ call' = [call EXCEPT ![h].pc = pc]
        BY <3>2 DEF CheckDaily, CheckDup
      <4>2. call' = [call EXCEPT ![h] = [call[h] EXCEPT !.pc = pc]]
        BY <4>1 DEF IInv, TypeOK
      <4>3. [call[h] EXCEPT !.pc = pc].pc = pc
            /\ [call[h] EXCEPT !.pc = pc].yt = call[h].yt
        BY DEF IInv, TypeOK, CallState
      <4>4. QED
        BY <4>1, <4>2, <4>3 DEF IInv, NamedTracks
    <3>3. CASE CheckLibrary(h)
      <4>1. PICK s \in {"ready", "approved"} :
              /\ call[h].pc # "idle"
              /\ call' = [call EXCEPT ![h].pc = "create", ![h].status = s]
        BY <3>3 DEF CheckLibrary
      <4> DEFINE c == [call[h] EXCEPT !.pc = "create", !.status = s]
      <4>2. call' = [call EXCEPT ![h] = c]
        BY <4>1 DEF IInv, TypeOK
      <4>3. c.pc = "create" /\ c.yt = call[h].yt /\ c.status = s
        BY DEF IInv, TypeOK, CallState
      <4>4. QED
        BY <4>1, <4>2, <4>3 DEF IInv, NamedTracks
    <3>4. CASE RejectCall(h)
      <4>1. call' = [call EXCEPT ![h] = IdleCall]
        BY <3>4 DEF RejectCall
      <4>2. IdleCall.pc = "idle"
        BY DEF IdleCall
      <4>3. QED
        BY <4>1, <4>2
    <3>5. QED
      BY <1>2, <3>1, <3>2, <3>3, <3>4 DEF RequestTrack
  <2>3. QED
    BY <2>1, <2>2 DEF IInv, TypeOK, HeldRows, NamedTracks, Apart
<1>3. QED
  BY <1>1, <1>2

\* The steps of the worker: what it polls is approved, so the feed does not hold
\* it; every write it makes is to the row it holds.
LEMMA WorkerHeld ==
  ASSUME IInv, WorkerRunOnce
  PROVE  HeldRows' /\ NamedTracks' /\ Apart'
<1> rows \in Table
  BY DEF IInv, TypeOK, Table, RowType
<1>1. CASE WorkerPoll
  BY <1>1 DEF IInv, HeldRows, NamedTracks, Apart, WorkerPoll, IsOldestApproved
<1>2. CASE WorkerLibrary \/ WorkerDownload
  <2>1. UNCHANGED <<rows, air, call>> /\ worker.pc # "idle"
        /\ worker' \in [pc : {"ready", "download", "fail", "bump"}, id : {worker.id}]
    BY <1>2 DEF IInv, TypeOK, WorkerState, WorkerLibrary, WorkerDownload
  <2>2. QED
    BY <2>1 DEF IInv, HeldRows, NamedTracks, Apart
<1>3. CASE WorkerBump \/ WorkerFail \/ WorkerReady
  <2>1. worker.pc # "idle" /\ worker.id \in Ids
        /\ rows[worker.id].status \in {"approved", "failed"}
        /\ UNCHANGED <<air, call>>
    BY <1>3 DEF WorkerBump, WorkerFail, WorkerReady, IInv, HeldRows
  <2>2. rows' \in {rows, BumpAttempts(rows, worker.id), MarkFailed(rows, worker.id),
                   MarkReady(rows, worker.id)}
    BY <1>3 DEF WorkerBump, WorkerFail, WorkerReady
  <2>3. \A j \in Ids : /\ rows'[j].yt = rows[j].yt
                       /\ rows'[j].status = "none" <=> rows[j].status = "none"
                       /\ j # worker.id => rows'[j].status = rows[j].status
    BY <2>1, <2>2, WritesOfStatus, WritesOfTrack
  <2>4. worker'.pc # "idle" =>
          worker'.id = worker.id /\ rows'[worker.id].status = rows[worker.id].status
    BY <1>3, <2>1, WritesOfStatus
       DEF WorkerBump, WorkerFail, WorkerReady, IdleWorker, IInv, TypeOK, WorkerState
  <2>5. QED
    BY <2>1, <2>3, <2>4 DEF IInv, HeldRows, NamedTracks, Apart
<1>4. QED
  BY <1>1, <1>2, <1>3 DEF WorkerRunOnce

\* The steps of the programmer: it only inserts.
LEMMA ProgrammerHeld ==
  ASSUME IInv, ProgrammerRunOnce
  PROVE  HeldRows' /\ NamedTracks' /\ Apart'
<1>1. UNCHANGED <<call, worker, air>>
  BY DEF ProgrammerRunOnce, ProgrammerWake, ProgrammerResolve, RespinProbe,
     ProgrammerChoose, ProgrammerGivesUp, ProgrammerEnqueue, RespinCreate,
     ProgrammerDone, RespinGivesUp
<1>2. \/ UNCHANGED rows
      \/ \E i \in Ids, c \in Candidate, s \in {"approved", "ready"} :
            IsNextId(rows, i) /\ rows' = Create(rows, i, "ai", NoUser, c.yt, s)
  BY DEF ProgrammerRunOnce, ProgrammerWake, ProgrammerResolve, RespinProbe,
     ProgrammerChoose, ProgrammerGivesUp, ProgrammerEnqueue, RespinCreate,
     ProgrammerDone, RespinGivesUp
<1>3. CASE UNCHANGED rows
  BY <1>1, <1>3 DEF IInv, HeldRows, NamedTracks, Apart
<1>4. CASE rows' # rows
  <2>1. PICK i \in Ids, c \in Candidate, s \in {"approved", "ready"} :
          IsNextId(rows, i) /\ rows' = Create(rows, i, "ai", NoUser, c.yt, s)
    BY <1>2, <1>4
  <2>2. rows \in Table
    BY DEF IInv, TypeOK, Table, RowType
  <2>3. /\ rows[i].status = "none"
        /\ \A j \in Ids \ {i} : rows'[j] = rows[j]
        /\ rows'[i].yt = c.yt
    BY <2>1, <2>2 DEF IsNextId, Create, Table
  <2>4. c.yt \in Tracks
    BY DEF Candidate
  <2>5. QED
    BY <1>1, <2>3, <2>4 DEF IInv, HeldRows, NamedTracks, Apart
<1>5. QED
  BY <1>3, <1>4

\* The operator's steps: a removal fails a pending row, whoever holds it.
LEMMA ConsoleHeld ==
  ASSUME IInv, Console
  PROVE  HeldRows' /\ NamedTracks' /\ Apart'
<1> rows \in Table
  BY DEF IInv, TypeOK, Table, RowType
<1>1. UNCHANGED <<call, worker, air>>
  BY DEF Console, RemoveRequest, ReorderRead, ReorderCommit, DeleteTrack,
     DownloadTrack
<1>2. \A j \in Ids : /\ rows'[j].yt = rows[j].yt
                     /\ \/ rows'[j].status = rows[j].status
                        \/ /\ rows[j].status \in PendingStatus
                           /\ rows'[j].status = "failed"
  <2>1. ASSUME NEW i \in Ids, RemoveRequest(i)
        PROVE  <1>2
    BY <2>1, WritesOfStatus, WritesOfTrack DEF RemoveRequest
  <2>2. ASSUME NEW o \in Operators, ReorderCommit(o)
        PROVE  <1>2
    BY <2>2, ReorderStatus, ReorderTrack DEF ReorderCommit, IInv, TypeOK
  <2>3. CASE UNCHANGED rows
    BY <2>3
  <2>4. QED
    BY <2>1, <2>2, <2>3 DEF Console, ReorderRead, DeleteTrack, DownloadTrack
<1>3. QED
  BY <1>1, <1>2 DEF IInv, HeldRows, NamedTracks, Apart, PendingStatus

\* The feed's steps: what it chooses is ready, so the worker does not hold it.
LEMMA FeedHeld ==
  ASSUME IInv, Feed
  PROVE  HeldRows' /\ NamedTracks' /\ Apart'
<1> rows \in Table
  BY DEF IInv, TypeOK, Table, RowType
<1>1. ASSUME NEW i \in Ids, FeedChooses(i)
      PROVE  HeldRows' /\ NamedTracks' /\ Apart'
  BY <1>1 DEF IInv, HeldRows, NamedTracks, Apart, FeedChooses
<1>2. CASE FeedFails \/ FeedAnnounces \/ FeedGivesUp
  <2>1. /\ air.pc # "idle" /\ air.id \in Ids /\ rows[air.id].status # "none"
        /\ air'.pc = "idle"
        /\ UNCHANGED <<worker, call>>
    BY <1>2 DEF FeedFails, FeedAnnounces, FeedGivesUp, IdleAir, IInv, HeldRows
  <2>2. rows' \in {rows, MarkFailed(rows, air.id), MarkAired(rows, air.id)}
    BY <1>2 DEF FeedFails, FeedAnnounces, FeedGivesUp
  <2>3. \A j \in Ids : /\ rows'[j].yt = rows[j].yt
                       /\ j # air.id => rows'[j].status = rows[j].status
    BY <2>1, <2>2, WritesOfStatus, WritesOfTrack
  <2>4. QED
    BY <2>1, <2>3 DEF IInv, HeldRows, NamedTracks, Apart
<1>3. QED
  BY <1>1, <1>2 DEF Feed

\* Every step keeps the inductive invariant.
LEMMA NextIInv ==
  ASSUME IInv, [Next]_vars
  PROVE  IInv'
<1>1. TypeOK'
  BY NextType DEF IInv
<1>2. IdleFeed'
  <2>1. CASE \E h \in Handlers : RequestTrack(h)
    BY <2>1 DEF IInv, IdleFeed, RequestTrack, CheckPending, CheckDaily, CheckDup,
       CheckLibrary, CreateRequest, RejectCall
  <2>2. CASE WorkerRunOnce
    BY <2>2 DEF IInv, IdleFeed, WorkerRunOnce, WorkerPoll, WorkerLibrary,
       WorkerDownload, WorkerBump, WorkerFail, WorkerReady
  <2>3. CASE ProgrammerRunOnce
    BY <2>3 DEF IInv, IdleFeed, ProgrammerRunOnce, ProgrammerWake,
       ProgrammerResolve, RespinProbe, ProgrammerChoose, ProgrammerGivesUp,
       ProgrammerEnqueue, RespinCreate, ProgrammerDone, RespinGivesUp
  <2>4. CASE Console
    BY <2>4 DEF IInv, IdleFeed, Console, RemoveRequest, ReorderRead,
       ReorderCommit, DeleteTrack, DownloadTrack
  <2>5. CASE Feed
    BY <2>5 DEF IInv, IdleFeed, IdleAir, Feed, FeedChooses, FeedFails, FeedGivesUp,
       FeedAnnounces
  <2>6. CASE DayRolls \/ Restart \/ UNCHANGED vars
    BY <2>6 DEF IInv, IdleFeed, IdleAir, DayRolls, Restart, vars
  <2>7. QED
    BY <2>1, <2>2, <2>3, <2>4, <2>5, <2>6 DEF Next
<1>3. HeldRows' /\ NamedTracks' /\ Apart'
  <2>1. CASE DayRolls
    BY <2>1 DEF DayRolls, IInv, HeldRows, NamedTracks, Apart
  <2>2. CASE Restart
    BY <2>2 DEF Restart, IdleCall, IdleWorker, IdleAir, IInv, HeldRows, NamedTracks,
       Apart
  <2>3. CASE UNCHANGED vars
    BY <2>3 DEF vars, IInv, HeldRows, NamedTracks, Apart
  <2>4. QED
    BY <2>1, <2>2, <2>3, CallHeld, WorkerHeld, ProgrammerHeld, ConsoleHeld,
       FeedHeld DEF Next
<1>4. QED
  BY <1>1, <1>2, <1>3 DEF IInv

LEMMA InitIInv == Init => IInv
<1>1. Init => HeldRows /\ NamedTracks /\ Apart /\ IdleFeed
  BY DEF Init, HeldRows, NamedTracks, Apart, IdleFeed, IdleWorker, IdleAir, IdleCall, EmptyRow
<1>2. QED
  BY <1>1, InitType DEF IInv

-----------------------------------------------------------------------------
(* The statuses, step by step: a refinement of RequestLifecycle. *)

StatusMap == [i \in Ids |-> rows[i].status]

\* A write to one row, seen through the refinement mapping.
LEMMA OneStatusWrite ==
  ASSUME NEW k \in Ids, NEW v,
         \A j \in Ids : rows'[j].status = IF j = k THEN v ELSE rows[j].status
  PROVE  StatusMap' = [StatusMap EXCEPT ![k] = v]
  BY DEF StatusMap

\* An insert by anyone is an Insert.
LEMMA InsertRefines ==
  ASSUME IInv, NEW i \in Ids, NEW source, NEW u, NEW t,
         NEW s \in {"approved", "ready"}, IsNextId(rows, i),
         rows' = Create(rows, i, source, u, t, s), UNCHANGED air
  PROVE  Lifecycle!Next
<1>1. rows \in Table
  BY DEF IInv, TypeOK, Table, RowType
<1>2. \A j \in Ids : rows'[j].status = IF j = i THEN s ELSE rows[j].status
  BY <1>1 DEF Create, Table
<1>3. StatusMap' = [StatusMap EXCEPT ![i] = s]
  BY <1>2, OneStatusWrite
<1>4. StatusMap[i] = "none"
  BY DEF StatusMap, IsNextId
<1>5. Lifecycle!Insert(i)
  BY <1>3, <1>4 DEF Lifecycle!Insert, StatusMap
<1>6. QED
  BY <1>5 DEF Lifecycle!Next

\* A pending row that becomes failed is a Fail.
LEMMA FailRefines ==
  ASSUME NEW i \in Ids, rows[i].status \in PendingStatus, UNCHANGED air,
         \A j \in Ids : rows'[j].status = IF j = i THEN "failed" ELSE rows[j].status
  PROVE  Lifecycle!Next
<1>1. StatusMap' = [StatusMap EXCEPT ![i] = "failed"]
  BY OneStatusWrite
<1>2. Lifecycle!Fail(i)
  BY <1>1 DEF Lifecycle!Fail, StatusMap, PendingStatus
<1>3. QED
  BY <1>2 DEF Lifecycle!Next

\* An approved row that becomes ready is an Acquire.
LEMMA AcquireRefines ==
  ASSUME NEW i \in Ids, rows[i].status = "approved", UNCHANGED air,
         \A j \in Ids : rows'[j].status = IF j = i THEN "ready" ELSE rows[j].status
  PROVE  Lifecycle!Next
<1>1. StatusMap' = [StatusMap EXCEPT ![i] = "ready"]
  BY OneStatusWrite
<1>2. Lifecycle!Acquire(i)
  BY <1>1 DEF Lifecycle!Acquire, StatusMap
<1>3. QED
  BY <1>2 DEF Lifecycle!Next

\* A step that changes no status and not the feed is a stutter.
LEMMA StutterRefines ==
  ASSUME UNCHANGED air, \A j \in Ids : rows'[j].status = rows[j].status
  PROVE  UNCHANGED Lifecycle!vars
  BY DEF Lifecycle!vars

LEMMA CallRefines ==
  ASSUME IInv, NEW h \in Handlers, RequestTrack(h)
  PROVE  [Lifecycle!Next]_(Lifecycle!vars)
<1>1. CASE CreateRequest(h)
  <2>1. PICK i \in Ids :
          /\ IsNextId(rows, i)
          /\ rows' = Create(rows, i, "listener", call[h].user, call[h].yt,
                            call[h].status)
    BY <1>1 DEF CreateRequest
  <2>2. call[h].status \in {"approved", "ready"} /\ UNCHANGED air
    BY <1>1 DEF CreateRequest, IInv, NamedTracks
  <2>3. QED
    BY <2>1, <2>2, InsertRefines
<1>2. CASE ~CreateRequest(h)
  <2>1. UNCHANGED <<rows, air>>
    BY <1>2 DEF RequestTrack, CheckPending, CheckDaily, CheckDup, CheckLibrary,
       RejectCall
  <2>2. QED
    BY <2>1, StutterRefines
<1>3. QED
  BY <1>1, <1>2

LEMMA WorkerRefines ==
  ASSUME IInv, WorkerRunOnce
  PROVE  [Lifecycle!Next]_(Lifecycle!vars)
<1> rows \in Table
  BY DEF IInv, TypeOK, Table, RowType
<1>1. UNCHANGED air
  BY DEF WorkerRunOnce, WorkerPoll, WorkerLibrary, WorkerDownload, WorkerBump,
     WorkerFail, WorkerReady
<1>2. CASE UNCHANGED rows
  BY <1>1, <1>2, StutterRefines
<1>3. CASE rows' # rows
  <2>1. /\ worker.id \in Ids
        /\ rows[worker.id].status \in {"approved", "failed"}
        /\ rows' \in {BumpAttempts(rows, worker.id), MarkFailed(rows, worker.id),
                     MarkReady(rows, worker.id)}
    BY <1>3 DEF WorkerRunOnce, WorkerPoll, WorkerLibrary, WorkerDownload,
       WorkerBump, WorkerFail, WorkerReady, IInv, HeldRows
  <2>2. CASE rows' = BumpAttempts(rows, worker.id)
    BY <1>1, <2>1, <2>2, WritesOfStatus, StutterRefines
  <2>3. CASE rows' = MarkFailed(rows, worker.id)
    <3>1. \A j \in Ids : rows'[j].status =
             IF j = worker.id THEN "failed" ELSE rows[j].status
      BY <2>1, <2>3, WritesOfStatus
    <3>2. CASE rows[worker.id].status = "approved"
      BY <1>1, <2>1, <3>1, <3>2, FailRefines DEF PendingStatus
    <3>3. CASE rows[worker.id].status = "failed"
      BY <1>1, <3>1, <3>3, StutterRefines
    <3>4. QED
      BY <2>1, <3>2, <3>3
  <2>4. CASE rows' = MarkReady(rows, worker.id)
    <3>1. \A j \in Ids : rows'[j].status =
             IF j = worker.id /\ rows[worker.id].status = "approved" THEN "ready"
             ELSE rows[j].status
      BY <2>1, <2>4, WritesOfStatus
    <3>2. CASE rows[worker.id].status = "approved"
      BY <1>1, <2>1, <3>1, <3>2, AcquireRefines
    <3>3. CASE rows[worker.id].status = "failed"
      BY <1>1, <3>1, <3>3, StutterRefines
    <3>4. QED
      BY <2>1, <3>2, <3>3
  <2>5. QED
    BY <2>1, <2>2, <2>3, <2>4
<1>4. QED
  BY <1>2, <1>3

LEMMA ProgrammerRefines ==
  ASSUME IInv, ProgrammerRunOnce
  PROVE  [Lifecycle!Next]_(Lifecycle!vars)
<1>1. UNCHANGED air
  BY DEF ProgrammerRunOnce, ProgrammerWake, ProgrammerResolve, RespinProbe,
     ProgrammerChoose, ProgrammerGivesUp, ProgrammerEnqueue, RespinCreate,
     ProgrammerDone, RespinGivesUp
<1>2. \/ UNCHANGED rows
      \/ \E i \in Ids, c \in Candidate, s \in {"approved", "ready"} :
            IsNextId(rows, i) /\ rows' = Create(rows, i, "ai", NoUser, c.yt, s)
  BY DEF ProgrammerRunOnce, ProgrammerWake, ProgrammerResolve, RespinProbe,
     ProgrammerChoose, ProgrammerGivesUp, ProgrammerEnqueue, RespinCreate,
     ProgrammerDone, RespinGivesUp
<1>3. CASE UNCHANGED rows
  BY <1>1, <1>3, StutterRefines
<1>4. QED
  BY <1>1, <1>2, <1>3, InsertRefines

LEMMA ConsoleRefines ==
  ASSUME IInv, Console
  PROVE  [Lifecycle!Next]_(Lifecycle!vars)
<1> rows \in Table
  BY DEF IInv, TypeOK, Table, RowType
<1>1. UNCHANGED air
  BY DEF Console, RemoveRequest, ReorderRead, ReorderCommit, DeleteTrack,
     DownloadTrack
<1>2. ASSUME NEW i \in Ids, RemoveRequest(i)
      PROVE  [Lifecycle!Next]_(Lifecycle!vars)
  <2>1. \A j \in Ids : rows'[j].status =
           IF j = i /\ rows[i].status \in PendingStatus THEN "failed"
           ELSE rows[j].status
    BY <1>2, WritesOfStatus DEF RemoveRequest
  <2>2. CASE rows[i].status \in PendingStatus
    BY <1>1, <2>1, <2>2, FailRefines
  <2>3. CASE rows[i].status \notin PendingStatus
    BY <1>1, <2>1, <2>3, StutterRefines
  <2>4. QED
    BY <2>2, <2>3
<1>3. ASSUME NEW o \in Operators, ReorderCommit(o)
      PROVE  [Lifecycle!Next]_(Lifecycle!vars)
  <2>1. \A j \in Ids : rows'[j].status = rows[j].status
    BY <1>3, ReorderStatus DEF ReorderCommit, IInv, TypeOK
  <2>2. QED
    BY <1>1, <2>1, StutterRefines
<1>4. CASE UNCHANGED rows
  BY <1>1, <1>4, StutterRefines
<1>5. QED
  BY <1>2, <1>3, <1>4 DEF Console, ReorderRead, DeleteTrack, DownloadTrack

LEMMA FeedRefines ==
  ASSUME IInv, Feed
  PROVE  [Lifecycle!Next]_(Lifecycle!vars)
<1> rows \in Table
  BY DEF IInv, TypeOK, Table, RowType
<1>1. ASSUME NEW i \in Ids, FeedChooses(i)
      PROVE  Lifecycle!Choose(i)
  <2>1. air.id = NoRequest
    BY <1>1 DEF FeedChooses, IInv, IdleFeed
  <2>2. QED
    BY <1>1, <2>1 DEF FeedChooses, Lifecycle!Choose
<1>2. CASE FeedFails \/ FeedAnnounces \/ FeedGivesUp
  <2>1. /\ air.id \in Ids /\ air.id # NoRequest
        /\ rows[air.id].status \in {"ready", "failed"}
        /\ air'.id = NoRequest
    BY <1>2, IdsAssumption
       DEF FeedFails, FeedAnnounces, FeedGivesUp, IdleAir, IInv, HeldRows, NoRequest
  <2>2. CASE rows' = rows
    <3>1. Lifecycle!Drop
      BY <2>1, <2>2 DEF Lifecycle!Drop, StatusMap
    <3>2. QED
      BY <3>1 DEF Lifecycle!Next
  <2>3. CASE rows' = MarkFailed(rows, air.id)
    <3>1. \A j \in Ids : rows'[j].status =
             IF j = air.id THEN "failed" ELSE rows[j].status
      BY <2>1, <2>3, WritesOfStatus
    <3>2. StatusMap' = [StatusMap EXCEPT ![air.id] = "failed"]
      BY <2>1, <3>1, OneStatusWrite
    <3>3. Lifecycle!Drop
      BY <2>1, <3>2 DEF Lifecycle!Drop, StatusMap
    <3>4. QED
      BY <3>3 DEF Lifecycle!Next
  <2>4. CASE rows' = MarkAired(rows, air.id)
    <3>1. \A j \in Ids : rows'[j].status =
             IF j = air.id THEN "aired" ELSE rows[j].status
      BY <2>1, <2>4, WritesOfStatus
    <3>2. StatusMap' = [StatusMap EXCEPT ![air.id] = "aired"]
      BY <2>1, <3>1, OneStatusWrite
    <3>3. Lifecycle!Air
      BY <2>1, <3>2 DEF Lifecycle!Air, StatusMap
    <3>4. QED
      BY <3>3 DEF Lifecycle!Next
  <2>5. QED
    BY <1>2, <2>2, <2>3, <2>4 DEF FeedFails, FeedAnnounces, FeedGivesUp
<1>3. QED
  BY <1>1, <1>2 DEF Feed, Lifecycle!Next

\* Every step of the queue is a step of the lifecycle or changes neither a
\* status nor the chosen request.
LEMMA NextRefines ==
  ASSUME IInv, [Next]_vars
  PROVE  [Lifecycle!Next]_(Lifecycle!vars)
<1>1. CASE DayRolls
  BY <1>1, StutterRefines DEF DayRolls
<1>2. CASE Restart
  <2>1. UNCHANGED rows /\ air'.id = NoRequest
    BY <1>2 DEF Restart, IdleAir
  <2>2. CASE air.id = NoRequest
    BY <2>1, <2>2 DEF Lifecycle!vars
  <2>3. CASE air.id # NoRequest
    <3>1. air.id \in Ids /\ rows[air.id].status \in {"ready", "failed"}
      BY <2>3 DEF IInv, IdleFeed, HeldRows
    <3>2. Lifecycle!Drop
      BY <2>1, <2>3, <3>1 DEF Lifecycle!Drop
    <3>3. QED
      BY <3>2 DEF Lifecycle!Next
  <2>4. QED
    BY <2>2, <2>3
<1>3. CASE UNCHANGED vars
  BY <1>3, StutterRefines DEF vars
<1>4. QED
  BY <1>1, <1>2, <1>3, CallRefines, WorkerRefines, ProgrammerRefines,
     ConsoleRefines, FeedRefines DEF Next

-----------------------------------------------------------------------------
(* Theorems. *)

\* The inductive invariant holds in every reachable state.
THEOREM Inductive == Spec => []IInv
BY InitIInv, NextIInv, PTL DEF Spec

\* Every variable always has its type.
THEOREM TypeCorrect == Spec => []TypeOK
<1>1. IInv => TypeOK
  BY DEF IInv
<1>2. QED
  BY <1>1, Inductive, PTL

\* The row the worker or the feed holds is always one it may still write.
THEOREM HeldRowsSafe == Spec => []HeldRows
<1>1. IInv => HeldRows
  BY DEF IInv
<1>2. QED
  BY <1>1, Inductive, PTL

\* The queue implements RequestLifecycle: the only requests that become aired are
\* those the feed holds, and no aired request changes again.
THEOREM Refinement == Spec => RefinesLifecycle
<1>1. Init => Lifecycle!Init
  BY DEF Init, Lifecycle!Init, EmptyRow, IdleAir
<1>2. IInv /\ [Next]_vars => [Lifecycle!Next]_(Lifecycle!vars)
  BY NextRefines
<1>3. QED
  BY <1>1, <1>2, Inductive, PTL DEF Spec, RefinesLifecycle, Lifecycle!Spec

\* An aired request stays aired, although the store's writes do not ask.
THEOREM AiredForever == Spec => AiredIsFinal
<1>1. ASSUME IInv, [Next]_vars
      PROVE  [\A i \in Ids : rows[i].status = "aired" => rows'[i].status = "aired"]_vars
  <2>1. [Lifecycle!Next]_(Lifecycle!vars)
    BY <1>1, NextRefines
  <2>2. ASSUME NEW i \in Ids, StatusMap[i] = "aired"
        PROVE  StatusMap'[i] = "aired"
    <3>1. CASE UNCHANGED Lifecycle!vars
      BY <2>2, <3>1 DEF Lifecycle!vars, StatusMap
    <3>2. ASSUME NEW j \in Ids, Lifecycle!Insert(j) \/ Lifecycle!Acquire(j)
                                   \/ Lifecycle!Fail(j) \/ Lifecycle!Choose(j)
          PROVE  StatusMap'[i] = "aired"
      BY <2>2, <3>2 DEF Lifecycle!Insert, Lifecycle!Acquire, Lifecycle!Fail,
         Lifecycle!Choose, StatusMap
    <3>3. CASE Lifecycle!Drop \/ Lifecycle!Air
      BY <2>2, <3>3
         DEF Lifecycle!Drop, Lifecycle!Air, StatusMap
    <3>4. QED
      BY <2>1, <3>1, <3>2, <3>3 DEF Lifecycle!Next
  <2>3. QED
    BY <2>2 DEF StatusMap
<1>2. QED
  BY <1>1, Inductive, PTL DEF Spec, AiredIsFinal

-----------------------------------------------------------------------------
(* What a step does to the rows. *)

\* A row keeps track, user and source; it becomes pending or ready only by the
\* statements that may make it so.
Quiet ==
    \A j \in Ids :
        /\ rows'[j].yt = rows[j].yt
        /\ rows'[j].user = rows[j].user
        /\ rows'[j].source = rows[j].source
        /\ rows'[j].status \in PendingStatus => rows[j].status \in PendingStatus
        /\ rows'[j].status = "approved" => rows[j].status = "approved"
        /\ rows'[j].status = "ready" =>
              rows[j].status = "ready" \/ (worker.pc = "ready" /\ worker.id = j)
        /\ rows'[j].attempts = rows[j].attempts \/ (worker.pc = "bump" /\ worker.id = j)

\* A row i that was not there is inserted; the others stay.
Inserts(i, source, user, yt, status) ==
    /\ rows[i].status = "none"
    /\ rows'[i] = [status |-> status, source |-> source, user |-> user, yt |-> yt,
                   pos |-> NoPosition, attempts |-> 0]
    /\ \A j \in Ids \ {i} : rows'[j] = rows[j]

\* The columns no write of a status touches.
SameOwner(row, other) ==
    /\ row.user = other.user /\ row.source = other.source
    /\ row.attempts = other.attempts /\ row.yt = other.yt

LEMMA WritesOfOwner ==
  ASSUME NEW q \in Table, NEW i \in Ids, NEW j \in Ids
  PROVE  /\ SameOwner(MarkAired(q, i)[j], q[j]) /\ SameOwner(MarkFailed(q, i)[j], q[j])
         /\ SameOwner(MarkReady(q, i)[j], q[j]) /\ SameOwner(FailPending(q, i)[j], q[j])
  BY DEF SetStatus, MarkAired, MarkFailed, MarkReady, FailPending, SameOwner,
         Table, RowType, Row

\* An attempt counted is one more of that row.
LEMMA WritesOfBump ==
  ASSUME NEW q \in Table, NEW i \in Ids, NEW j \in Ids
  PROVE  /\ BumpAttempts(q, i)[j].user = q[j].user
         /\ BumpAttempts(q, i)[j].source = q[j].source
         /\ BumpAttempts(q, i)[j].attempts =
               IF j = i THEN q[j].attempts + 1 ELSE q[j].attempts
  BY DEF BumpAttempts, Table, RowType, Row

LEMMA ReorderOwner ==
  ASSUME NEW q \in Table, NEW ids \in Seq(Ids), NEW j \in Ids
  PROVE  SameOwner(Reorder(q, ids)[j], q[j])
<1> DEFINE p == IndexIn(ids, j) - 1
<1>1. Reorder(q, ids)[j] = IF \E k \in DOMAIN ids : ids[k] = j
                           THEN [q[j] EXCEPT !.pos = p] ELSE q[j]
  BY DEF Reorder, Table
<1> HIDE DEF p
<1>2. QED
  BY <1>1 DEF SameOwner, Table, RowType, Row

\* An insert of the store is an Inserts.
LEMMA CreateInserts ==
  ASSUME TypeOK, NEW i \in Ids, IsNextId(rows, i), NEW source, NEW user, NEW yt, NEW status,
         rows' = Create(rows, i, source, user, yt, status)
  PROVE  Inserts(i, source, user, yt, status)
<1> DEFINE row == [status |-> status, source |-> source, user |-> user, yt |-> yt,
                   pos |-> NoPosition, attempts |-> 0]
<1>1. rows' = [rows EXCEPT ![i] = row]
  BY DEF Create
<1> HIDE DEF row
<1>2. rows'[i] = row /\ \A j \in Ids \ {i} : rows'[j] = rows[j]
  BY <1>1 DEF TypeOK
<1>3. QED
  BY <1>2 DEF Inserts, IsNextId, row

\* The worker's steps insert nothing.
LEMMA WorkerQuiet ==
  ASSUME IInv, WorkerRunOnce
  PROVE  Quiet
<1> rows \in Table
  BY DEF IInv, TypeOK, Table, RowType
<1>1. CASE WorkerPoll \/ WorkerLibrary \/ WorkerDownload
  BY <1>1 DEF WorkerPoll, WorkerLibrary, WorkerDownload, Quiet
<1>2. CASE WorkerBump \/ WorkerFail \/ WorkerReady
  <2>1. worker.id \in Ids
    BY <1>2 DEF WorkerBump, WorkerFail, WorkerReady, IInv, HeldRows
  <2>2. \/ rows' \in {rows, MarkFailed(rows, worker.id)}
        \/ worker.pc = "bump" /\ rows' = BumpAttempts(rows, worker.id)
        \/ worker.pc = "ready" /\ rows' = MarkReady(rows, worker.id)
    BY <1>2 DEF WorkerBump, WorkerFail, WorkerReady
  <2>3. CASE rows' \in {rows, MarkFailed(rows, worker.id)}
    BY <2>1, <2>3, WritesOfStatus, WritesOfTrack, WritesOfOwner
       DEF Quiet, SameOwner, PendingStatus
  <2>4. CASE worker.pc = "bump" /\ rows' = BumpAttempts(rows, worker.id)
    BY <2>1, <2>4, WritesOfStatus, WritesOfTrack, WritesOfBump DEF Quiet, PendingStatus
  <2>5. CASE worker.pc = "ready" /\ rows' = MarkReady(rows, worker.id)
    BY <2>1, <2>5, WritesOfStatus, WritesOfTrack, WritesOfOwner
       DEF Quiet, SameOwner, PendingStatus
  <2>6. QED
    BY <2>2, <2>3, <2>4, <2>5
<1>3. QED
  BY <1>1, <1>2 DEF WorkerRunOnce

\* Neither do the operator's and the feed's.
LEMMA ConsoleQuiet ==
  ASSUME IInv, Console
  PROVE  Quiet
<1> rows \in Table
  BY DEF IInv, TypeOK, Table, RowType
<1>1. ASSUME NEW i \in Ids, RemoveRequest(i) PROVE Quiet
  BY <1>1, WritesOfStatus, WritesOfTrack, WritesOfOwner
     DEF RemoveRequest, Quiet, SameOwner, PendingStatus
<1>2. ASSUME NEW o \in Operators, ReorderCommit(o) PROVE Quiet
  BY <1>2, ReorderStatus, ReorderTrack, ReorderOwner
     DEF ReorderCommit, IInv, TypeOK, Quiet, SameOwner
<1>3. CASE UNCHANGED rows
  BY <1>3 DEF Quiet
<1>4. QED
  BY <1>1, <1>2, <1>3 DEF Console, ReorderRead, DeleteTrack, DownloadTrack

LEMMA FeedQuiet ==
  ASSUME IInv, Feed
  PROVE  Quiet
<1> rows \in Table
  BY DEF IInv, TypeOK, Table, RowType
<1>1. CASE UNCHANGED rows
  BY <1>1 DEF Quiet
<1>2. CASE FeedFails \/ FeedAnnounces
  <2>1. air.id \in Ids
    BY <1>2 DEF FeedFails, FeedAnnounces, IInv, HeldRows
  <2>2. rows' \in {rows, MarkFailed(rows, air.id), MarkAired(rows, air.id)}
    BY <1>2 DEF FeedFails, FeedAnnounces
  <2>3. QED
    BY <2>1, <2>2, WritesOfStatus, WritesOfTrack, WritesOfOwner
       DEF Quiet, SameOwner, PendingStatus
<1>3. QED
  BY <1>1, <1>2 DEF Feed, FeedChooses, FeedGivesUp

\* The programmer inserts a pick, or nothing.
ProgrammerInserts(c) ==
    \E i \in Ids, s \in {"approved", "ready"} :
        /\ Inserts(i, "ai", NoUser, c.yt, s)
        /\ s = "ready" => c.cached \/ prog.pc = "respun"

LEMMA ProgrammerEffect ==
  ASSUME IInv, ProgrammerRunOnce
  PROVE  \/ Quiet /\ UNCHANGED rows
         \/ \E c \in Candidate :
               (ProgrammerEnqueue(c) \/ RespinCreate(c)) /\ ProgrammerInserts(c)
<1>1. CASE UNCHANGED rows
  BY <1>1 DEF Quiet
<1>2. ASSUME NEW c \in Candidate, ProgrammerEnqueue(c), rows' # rows
      PROVE  ProgrammerInserts(c)
  <2>1. PICK i \in Ids :
          /\ IsNextId(rows, i)
          /\ rows' = Create(rows, i, "ai", NoUser, c.yt,
                            IF c.cached THEN "ready" ELSE "approved")
    BY <1>2 DEF ProgrammerEnqueue
  <2>2. Inserts(i, "ai", NoUser, c.yt, IF c.cached THEN "ready" ELSE "approved")
    BY <2>1, CreateInserts DEF IInv
  <2>3. QED
    BY <2>2 DEF ProgrammerInserts
<1>3. ASSUME NEW c \in Candidate, RespinCreate(c)
      PROVE  ProgrammerInserts(c)
  <2>1. PICK i \in Ids :
          /\ IsNextId(rows, i)
          /\ rows' = Create(rows, i, "ai", NoUser, c.yt, "ready")
    BY <1>3 DEF RespinCreate
  <2>2. Inserts(i, "ai", NoUser, c.yt, "ready")
    BY <2>1, CreateInserts DEF IInv
  <2>3. QED
    BY <1>3, <2>2 DEF ProgrammerInserts, RespinCreate
<1>4. QED
  BY <1>1, <1>2, <1>3 DEF ProgrammerRunOnce, ProgrammerWake, ProgrammerResolve, RespinProbe,
     ProgrammerChoose, ProgrammerGivesUp, ProgrammerDone, RespinGivesUp

\* A call inserts its request, or nothing.
LEMMA CallEffect ==
  ASSUME IInv, NEW h \in Handlers, RequestTrack(h)
  PROVE  /\ ~CreateRequest(h) => Quiet /\ UNCHANGED <<rows, today>>
         /\ CreateRequest(h) =>
               \E i \in Ids :
                  /\ Inserts(i, "listener", call[h].user, call[h].yt, call[h].status)
                  /\ today' = today \cup {i}
<1>1. CASE CreateRequest(h)
  <2>1. PICK i \in Ids :
          /\ IsNextId(rows, i)
          /\ rows' = Create(rows, i, "listener", call[h].user, call[h].yt, call[h].status)
          /\ today' = today \cup {i}
    BY <1>1 DEF CreateRequest
  <2>2. Inserts(i, "listener", call[h].user, call[h].yt, call[h].status)
    BY <2>1, CreateInserts DEF IInv
  <2>3. QED
    BY <1>1, <2>1, <2>2
<1>2. CASE ~CreateRequest(h)
  BY <1>2 DEF RequestTrack, CheckPending, CheckDaily, CheckDup, CheckLibrary, RejectCall, Quiet
<1>3. QED
  BY <1>1, <1>2

NoCalls == call' = [h \in Handlers |-> IdleCall]

\* A step is one of a call, or leaves the calls alone and inserts nothing but a pick.
LEMMA Effects ==
  ASSUME IInv, [Next]_vars
  PROVE  \/ \E h \in Handlers : RequestTrack(h)
         \/ /\ UNCHANGED call \/ NoCalls
            /\ today' \subseteq today
            /\ \/ Quiet
               \/ \E c \in Candidate :
                     (ProgrammerEnqueue(c) \/ RespinCreate(c)) /\ ProgrammerInserts(c)
<1>1. CASE WorkerRunOnce
  <2>1. UNCHANGED <<call, today>>
    BY <1>1 DEF WorkerRunOnce, WorkerPoll, WorkerLibrary, WorkerDownload, WorkerBump,
       WorkerFail, WorkerReady
  <2>2. QED
    BY <1>1, <2>1, WorkerQuiet
<1>2. CASE ProgrammerRunOnce
  <2>1. UNCHANGED <<call, today>>
    BY <1>2 DEF ProgrammerRunOnce, ProgrammerWake, ProgrammerResolve, RespinProbe,
       ProgrammerChoose, ProgrammerGivesUp, ProgrammerEnqueue, RespinCreate,
       ProgrammerDone, RespinGivesUp
  <2>2. QED
    BY <1>2, <2>1, ProgrammerEffect
<1>3. CASE Console
  <2>1. UNCHANGED <<call, today>>
    BY <1>3 DEF Console, RemoveRequest, ReorderRead, ReorderCommit, DeleteTrack,
       DownloadTrack
  <2>2. QED
    BY <1>3, <2>1, ConsoleQuiet
<1>4. CASE Feed
  <2>1. UNCHANGED <<call, today>>
    BY <1>4 DEF Feed, FeedChooses, FeedFails, FeedGivesUp, FeedAnnounces
  <2>2. QED
    BY <1>4, <2>1, FeedQuiet
<1>5. CASE DayRolls \/ Restart \/ UNCHANGED vars
  <2>1. UNCHANGED rows /\ today' \subseteq today /\ (UNCHANGED call \/ NoCalls)
    BY <1>5 DEF DayRolls, Restart, vars, NoCalls
  <2>2. QED
    BY <2>1 DEF Quiet
<1>6. QED
  BY <1>1, <1>2, <1>3, <1>4, <1>5 DEF Next

-----------------------------------------------------------------------------
(* Two sets, one growing at the expense of the other. *)

\* No element more in either.
LEMMA Shrinking ==
  ASSUME NEW S, NEW T, NEW V, NEW W, IsFiniteSet(S), IsFiniteSet(T),
         V \subseteq S, W \subseteq T
  PROVE  /\ Cardinality(V) \in Nat /\ Cardinality(W) \in Nat
         /\ Cardinality(V) <= Cardinality(S) /\ Cardinality(W) <= Cardinality(T)
  BY FS_Subset, FS_CardinalityType

\* At most one element more.
LEMMA OneMore ==
  ASSUME NEW S, NEW V, IsFiniteSet(S), NEW x, V \subseteq S \cup {x}
  PROVE  Cardinality(V) \in Nat /\ Cardinality(V) <= Cardinality(S) + 1
<1>1. Cardinality(S) \in Nat
  BY FS_CardinalityType
<1>2. IsFiniteSet(S \cup {x})
  BY FS_AddElement
<1>3. Cardinality(S \cup {x}) = IF x \in S THEN Cardinality(S) ELSE Cardinality(S) + 1
  BY FS_AddElement
<1>4. Cardinality(V) \in Nat /\ Cardinality(V) <= Cardinality(S \cup {x})
  BY <1>2, FS_Subset, FS_CardinalityType
<1>5. QED
  BY <1>1, <1>3, <1>4

\* At most one more in the one, at least one less in the other.
LEMMA HandedOver ==
  ASSUME NEW S, NEW T, NEW V, NEW W, IsFiniteSet(S), IsFiniteSet(T),
         NEW x, NEW y, y \in T, V \subseteq S \cup {x}, W \subseteq T \ {y}
  PROVE  /\ Cardinality(V) \in Nat /\ Cardinality(W) \in Nat
         /\ Cardinality(V) + Cardinality(W) <= Cardinality(S) + Cardinality(T)
<1>1. Cardinality(S) \in Nat /\ Cardinality(T) \in Nat
  BY FS_CardinalityType
<1>2. Cardinality(V) \in Nat /\ Cardinality(V) <= Cardinality(S) + 1
  BY OneMore
<1>3. IsFiniteSet(T \ {y}) /\ Cardinality(T \ {y}) = Cardinality(T) - 1
  BY FS_RemoveElement
<1>4. Cardinality(W) \in Nat /\ Cardinality(W) <= Cardinality(T \ {y})
  BY <1>3, FS_Subset, FS_CardinalityType
<1>5. QED
  BY <1>1, <1>2, <1>3, <1>4

\* There is room for every call, whoever they are.
LEMMA SomeCalls ==
  ASSUME NEW A \in SUBSET Handlers
  PROVE  /\ IsFiniteSet(A) /\ Cardinality(A) \in Nat /\ Cardinality(Handlers) \in Nat
         /\ Cardinality(A) <= Cardinality(Handlers)
  BY HandlersAssumption, FS_Subset, FS_CardinalityType

-----------------------------------------------------------------------------
(* The pending quota. *)

\* A step that inserts nothing makes no request of a user pending.
LEMMA QuietPending ==
  ASSUME TypeOK, TypeOK', Quiet, NEW u
  PROVE  PendingOfUser(rows, u)' \subseteq PendingOfUser(rows, u)
  BY DEF TypeOK, Quiet, PendingOfUser

\* An inserted request is its user's alone.
LEMMA InsertPending ==
  ASSUME TypeOK, TypeOK', NEW i \in Ids, NEW source, NEW w, NEW t, NEW s,
         Inserts(i, source, w, t, s), NEW u
  PROVE  /\ PendingOfUser(rows, u)' \subseteq PendingOfUser(rows, u) \cup {i}
         /\ w # u => PendingOfUser(rows, u)' \subseteq PendingOfUser(rows, u)
<1>1. rows'[i].user = w
  BY DEF Inserts
<1>2. QED
  BY <1>1 DEF TypeOK, Inserts, PendingOfUser

\* A call that ends, or every call, leaves the admitted ones.
LEMMA CallsEnd ==
  ASSUME TypeOK, NEW h \in Handlers, call' = [call EXCEPT ![h] = IdleCall], NEW u
  PROVE  Admitted(u)' \subseteq Admitted(u) \ {h}
  BY DEF TypeOK, Admitted, IdleCall

\* A call that passes a check is still its user's, for the same track.
LEMMA CallAdvances ==
  ASSUME TypeOK, NEW h \in Handlers, CheckDaily(h) \/ CheckDup(h) \/ CheckLibrary(h)
  PROVE  /\ \A k \in Handlers \ {h} : call'[k] = call[k]
         /\ call'[h].user = call[h].user /\ call'[h].yt = call[h].yt
         /\ call[h].pc # "idle" /\ call'[h].pc # "idle"
         /\ call'[h].pc = (IF CheckDaily(h) THEN "dup"
                           ELSE IF CheckDup(h) THEN "library" ELSE "create")
<1>0. call[h] \in CallState
  BY DEF TypeOK
<1>1. ASSUME NEW pc, call' = [call EXCEPT ![h].pc = pc]
      PROVE  /\ \A k \in Handlers \ {h} : call'[k] = call[k]
             /\ call'[h].user = call[h].user /\ call'[h].yt = call[h].yt
             /\ call'[h].pc = pc
  <2>1. call'[h] = [call[h] EXCEPT !.pc = pc] /\ \A k \in Handlers \ {h} : call'[k] = call[k]
    BY <1>1 DEF TypeOK
  <2>2. QED
    BY <1>0, <2>1 DEF CallState
<1>2. CASE CheckDaily(h)
  BY <1>1, <1>2 DEF CheckDaily
<1>3. CASE CheckDup(h) /\ ~CheckDaily(h)
  BY <1>1, <1>3 DEF CheckDup
<1>4. CASE CheckLibrary(h) /\ ~CheckDaily(h) /\ ~CheckDup(h)
  <2>1. PICK s \in {"ready", "approved"} :
          call' = [call EXCEPT ![h].pc = "create", ![h].status = s]
    BY <1>4 DEF CheckLibrary
  <2>2. /\ call'[h] = [call[h] EXCEPT !.pc = "create", !.status = s]
        /\ \A k \in Handlers \ {h} : call'[k] = call[k]
    BY <2>1 DEF TypeOK
  <2>3. QED
    BY <1>0, <1>4, <2>2 DEF CallState, CheckLibrary
<1>5. QED
  BY <1>2, <1>3, <1>4

LEMMA QuotaStep ==
  ASSUME IInv, IInv', [Next]_vars, PendingQuotaBound
  PROVE  PendingQuotaBound'
<1> SUFFICES ASSUME NEW u \in Users
             PROVE  Cardinality(PendingOfUser(rows, u)') + Cardinality(Admitted(u)')
                       <= MaxPendingPerUser + Cardinality(Handlers) - 1
  BY DEF PendingQuotaBound, CountPendingByUser
<1> DEFINE P == PendingOfUser(rows, u)
           A == Admitted(u)
<1>0. TypeOK /\ TypeOK' /\ u # NoUser
  BY NamesAssumption DEF IInv
<1>1. P \subseteq Ids /\ A \subseteq Handlers /\ A' \subseteq Handlers
  BY <1>0 DEF PendingOfUser, Admitted, TypeOK
<1>2. IsFiniteSet(P) /\ IsFiniteSet(A) /\ Cardinality(P) \in Nat /\ Cardinality(A) \in Nat
  BY <1>1, SubsetOfIds, SomeCalls
<1>3. Cardinality(P) + Cardinality(A) <= MaxPendingPerUser + Cardinality(Handlers) - 1
  BY DEF PendingQuotaBound, CountPendingByUser
<1>4. ASSUME P' \subseteq P, A' \subseteq A
      PROVE  Cardinality(P') + Cardinality(A') <= Cardinality(P) + Cardinality(A)
  BY <1>2, <1>4, Shrinking
<1>5. Cardinality(Handlers) \in Nat /\ MaxPendingPerUser \in Nat
  BY SomeCalls, QuotaAssumption
<1>6. ASSUME P' \subseteq P, A' \subseteq A
      PROVE  Cardinality(P') + Cardinality(A')
                <= MaxPendingPerUser + Cardinality(Handlers) - 1
  <2>1. Cardinality(P') \in Nat /\ Cardinality(A') \in Nat
    BY <1>2, <1>6, Shrinking
  <2>2. QED
    BY <1>2, <1>3, <1>4, <1>5, <1>6, <2>1
<1>7. ASSUME NEW h \in Handlers, RequestTrack(h)
      PROVE  Cardinality(P') + Cardinality(A')
                <= MaxPendingPerUser + Cardinality(Handlers) - 1
  <2>1. ASSUME NEW w \in Users, NEW t \in Tracks, CheckPending(h, w, t)
        PROVE  Cardinality(P') + Cardinality(A')
                <= MaxPendingPerUser + Cardinality(Handlers) - 1
    <3>1. P' = P
      BY <2>1 DEF CheckPending
    <3>2. CASE w = u
      <4>1. Cardinality(P) < MaxPendingPerUser
        BY <2>1, <3>2 DEF CheckPending, UnderPendingQuota, CountPendingByUser
      <4>2. Cardinality(A') <= Cardinality(Handlers) /\ Cardinality(A') \in Nat
        BY <1>1, SomeCalls
      <4>3. QED
        BY <1>2, <1>5, <3>1, <4>1, <4>2
    <3>3. CASE w # u
      <4>1. A' \subseteq A
        BY <1>0, <2>1, <3>3 DEF CheckPending, Admitted, TypeOK
      <4>2. QED
        BY <1>6, <3>1, <4>1
    <3>4. QED
      BY <3>2, <3>3
  <2>2. CASE CheckDaily(h) \/ CheckDup(h) \/ CheckLibrary(h)
    <3>1. P' = P
      BY <2>2 DEF CheckDaily, CheckDup, CheckLibrary
    <3>2. A' \subseteq A
      BY <1>0, <2>2, CallAdvances DEF Admitted
    <3>3. QED
      BY <1>6, <3>1, <3>2
  <2>3. CASE RejectCall(h)
    <3>1. P' = P
      BY <2>3 DEF RejectCall
    <3>2. A' \subseteq A
      BY <1>0, <2>3, CallsEnd DEF RejectCall
    <3>3. QED
      BY <1>6, <3>1, <3>2
  <2>4. CASE CreateRequest(h)
    <3>1. A' \subseteq A \ {h}
      BY <1>0, <2>4, CallsEnd DEF CreateRequest
    <3>2. call[h].pc = "create"
      BY <2>4 DEF CreateRequest
    <3>3. PICK i \in Ids :
            Inserts(i, "listener", call[h].user, call[h].yt, call[h].status)
      BY <1>7, <2>4, CallEffect
    <3>4. P' \subseteq P \/ (call[h].user = u /\ P' \subseteq P \cup {i})
      BY <1>0, <3>3, InsertPending
    <3>5. CASE P' \subseteq P
      BY <1>6, <3>1, <3>5
    <3>6. CASE call[h].user = u /\ P' \subseteq P \cup {i}
      <4>1. h \in A
        BY <3>2, <3>6 DEF Admitted
      <4>2. /\ Cardinality(P') \in Nat /\ Cardinality(A') \in Nat
            /\ Cardinality(P') + Cardinality(A') <= Cardinality(P) + Cardinality(A)
        BY <1>2, <3>1, <3>6, <4>1, HandedOver
      <4>3. QED
        BY <1>2, <1>3, <1>5, <4>2
    <3>7. QED
      BY <3>4, <3>5, <3>6
  <2>5. QED
    BY <1>7, <2>1, <2>2, <2>3, <2>4 DEF RequestTrack
<1>8. ASSUME UNCHANGED call \/ NoCalls,
             Quiet \/ \E c \in Candidate : ProgrammerInserts(c)
      PROVE  P' \subseteq P /\ A' \subseteq A
  <2>1. A' \subseteq A
    BY <1>8 DEF NoCalls, Admitted, IdleCall
  <2>2. P' \subseteq P
    BY <1>0, <1>8, QuietPending, InsertPending DEF ProgrammerInserts
  <2>3. QED
    BY <2>1, <2>2
<1>9. QED
  BY <1>6, <1>7, <1>8, Effects

-----------------------------------------------------------------------------
(* The daily quota. *)

\* Nothing is created today by a step that inserts nothing.
LEMMA QuietToday ==
  ASSUME TypeOK, Quiet, today' \subseteq today, NEW u
  PROVE  CreatedToday(u)' \subseteq CreatedToday(u)
  BY DEF TypeOK, Quiet, CreatedToday

\* An inserted request counts for its user, and a pick for none.
LEMMA InsertToday ==
  ASSUME TypeOK, NEW i \in Ids, NEW source, NEW w, NEW t, NEW s,
         Inserts(i, source, w, t, s), today' \subseteq today \cup {i}, NEW u
  PROVE  /\ CreatedToday(u)' \subseteq CreatedToday(u) \cup {i}
         /\ w # u => CreatedToday(u)' \subseteq CreatedToday(u)
<1>1. rows'[i].user = w
  BY DEF Inserts
<1>2. QED
  BY <1>1 DEF TypeOK, Inserts, CreatedToday

LEMMA DailyStep ==
  ASSUME IInv, IInv', [Next]_vars, DailyQuotaBound
  PROVE  DailyQuotaBound'
<1> SUFFICES ASSUME NEW u \in Users
             PROVE  Cardinality(CreatedToday(u)') + Cardinality(AdmittedToday(u)')
                       <= MaxPerDay + Cardinality(Handlers) - 1
  BY DEF DailyQuotaBound
<1> DEFINE P == CreatedToday(u)
           A == AdmittedToday(u)
<1>0. TypeOK /\ TypeOK' /\ u # NoUser
  BY NamesAssumption DEF IInv
<1>1. P \subseteq Ids /\ A \subseteq Handlers /\ A' \subseteq Handlers
  BY <1>0 DEF CreatedToday, AdmittedToday, TypeOK
<1>2. IsFiniteSet(P) /\ IsFiniteSet(A) /\ Cardinality(P) \in Nat /\ Cardinality(A) \in Nat
  BY <1>1, SubsetOfIds, SomeCalls
<1>3. Cardinality(P) + Cardinality(A) <= MaxPerDay + Cardinality(Handlers) - 1
  BY DEF DailyQuotaBound
<1>4. Cardinality(Handlers) \in Nat /\ MaxPerDay \in Nat
  BY SomeCalls, QuotaAssumption
<1>5. ASSUME P' \subseteq P, A' \subseteq A
      PROVE  Cardinality(P') + Cardinality(A') <= MaxPerDay + Cardinality(Handlers) - 1
  <2>1. /\ Cardinality(P') \in Nat /\ Cardinality(A') \in Nat
        /\ Cardinality(P') <= Cardinality(P) /\ Cardinality(A') <= Cardinality(A)
    BY <1>2, <1>5, Shrinking
  <2>2. QED
    BY <1>2, <1>3, <1>4, <2>1
<1>6. ASSUME NEW h \in Handlers, RequestTrack(h)
      PROVE  Cardinality(P') + Cardinality(A') <= MaxPerDay + Cardinality(Handlers) - 1
  <2>1. CASE CheckDaily(h)
    <3>1. P' = P
      BY <2>1 DEF CheckDaily, CreatedToday
    <3>2. CASE call[h].user = u
      <4>1. Cardinality(P) < MaxPerDay
        BY <2>1, <3>2 DEF CheckDaily, UnderDailyQuota
      <4>2. Cardinality(A') <= Cardinality(Handlers) /\ Cardinality(A') \in Nat
        BY <1>1, SomeCalls
      <4>3. QED
        BY <1>2, <1>4, <3>1, <4>1, <4>2
    <3>3. CASE call[h].user # u
      <4>1. A' \subseteq A
        BY <1>0, <2>1, <3>3, CallAdvances DEF AdmittedToday
      <4>2. QED
        BY <1>5, <3>1, <4>1
    <3>4. QED
      BY <3>2, <3>3
  <2>2. CASE ~CheckDaily(h) /\ ~CreateRequest(h)
    <3>1. P' \subseteq P
      BY <1>0, <1>6, <2>2, CallEffect, QuietToday
    <3>2. A' \subseteq A
      <4>1. CASE \E w \in Users, t \in Tracks : CheckPending(h, w, t)
        BY <1>0, <4>1 DEF CheckPending, AdmittedToday, TypeOK
      <4>2. CASE CheckDup(h) \/ CheckLibrary(h)
        <5>1. call[h].pc \in {"dup", "library"}
          BY <4>2 DEF CheckDup, CheckLibrary
        <5>2. QED
          BY <1>0, <4>2, <5>1, CallAdvances DEF AdmittedToday
      <4>3. CASE RejectCall(h)
        BY <1>0, <4>3 DEF RejectCall, IdleCall, AdmittedToday, TypeOK
      <4>4. QED
        BY <1>6, <2>2, <4>1, <4>2, <4>3 DEF RequestTrack
    <3>3. QED
      BY <1>5, <3>1, <3>2
  <2>3. CASE CreateRequest(h)
    <3>1. A' \subseteq A \ {h}
      BY <1>0, <2>3 DEF CreateRequest, IdleCall, AdmittedToday, TypeOK
    <3>2. call[h].pc = "create"
      BY <2>3 DEF CreateRequest
    <3>3. PICK i \in Ids :
            /\ Inserts(i, "listener", call[h].user, call[h].yt, call[h].status)
            /\ today' = today \cup {i}
      BY <1>6, <2>3, CallEffect
    <3>4. P' \subseteq P \/ (call[h].user = u /\ P' \subseteq P \cup {i})
      BY <1>0, <3>3, InsertToday
    <3>5. CASE P' \subseteq P
      BY <1>5, <3>1, <3>5
    <3>6. CASE call[h].user = u /\ P' \subseteq P \cup {i}
      <4>1. h \in A
        BY <3>2, <3>6 DEF AdmittedToday
      <4>2. /\ Cardinality(P') \in Nat /\ Cardinality(A') \in Nat
            /\ Cardinality(P') + Cardinality(A') <= Cardinality(P) + Cardinality(A)
        BY <1>2, <3>1, <3>6, <4>1, HandedOver
      <4>3. QED
        BY <1>2, <1>3, <1>4, <4>2
    <3>7. QED
      BY <3>4, <3>5, <3>6
  <2>4. QED
    BY <2>1, <2>2, <2>3
<1>7. ASSUME UNCHANGED call \/ NoCalls, today' \subseteq today,
             Quiet \/ \E c \in Candidate : ProgrammerInserts(c)
      PROVE  P' \subseteq P /\ A' \subseteq A
  <2>1. A' \subseteq A
    BY <1>7 DEF NoCalls, AdmittedToday, IdleCall
  <2>2. P' \subseteq P
    BY <1>0, <1>7, QuietToday, InsertToday DEF ProgrammerInserts
  <2>3. QED
    BY <2>1, <2>2
<1>8. QED
  BY <1>5, <1>6, <1>7, Effects

-----------------------------------------------------------------------------
(* Copies of a track. *)

\* The programmer holds a track once: its pool has one candidate per track, and
\* it has a pool only while it resolves.
OnePick ==
    /\ \A c, d \in prog.pool \cup prog.picks : c.yt = d.yt => c = d
    /\ prog.pc = "resolve" => prog.picks = {}
    /\ prog.pc # "resolve" => prog.pool = {}

\* Only the programmer and a restart change what the programmer holds.
LEMMA PicksKept ==
  ASSUME [Next]_vars, ~ProgrammerRunOnce
  PROVE  UNCHANGED prog \/ prog' = IdleProgrammer
  BY DEF Next, vars, RequestTrack, CheckPending, CheckDaily, CheckDup, CheckLibrary,
     CreateRequest, RejectCall, WorkerRunOnce, WorkerPoll, WorkerLibrary, WorkerDownload,
     WorkerBump, WorkerFail, WorkerReady, Console, RemoveRequest, ReorderRead,
     ReorderCommit, DeleteTrack, DownloadTrack, Feed, FeedChooses, FeedFails, FeedGivesUp,
     FeedAnnounces, DayRolls, Restart

\* The programmer's steps, as changes of what it holds.
LEMMA ProgrammerHolds ==
  ASSUME TypeOK, ProgrammerRunOnce
  PROVE  \/ /\ ProgrammerWake /\ prog.pc = "idle" /\ prog'.pc \in {"resolve", "respin"}
            /\ prog'.pool = {} /\ prog'.picks = {}
            /\ prog'.want = WantPicks(Cardinality(Pending(rows)))
         \/ \E t \in Tracks :
               /\ ProgrammerResolve(t) /\ prog.pc = "resolve" /\ prog'.pc = "resolve"
               /\ prog'.pool = prog.pool \cup {[yt |-> t, cached |-> t \in library]}
               /\ prog'.picks = prog.picks /\ prog'.want = prog.want
         \/ \E t \in Tracks :
               /\ RespinProbe(t) /\ prog.pc = "respin" /\ prog'.pc = "respun"
               /\ prog'.pool = prog.pool /\ prog'.picks = {[yt |-> t, cached |-> TRUE]}
               /\ prog'.want = prog.want
         \/ /\ ProgrammerChoose /\ prog.pc = "resolve" /\ prog'.pc = "enqueue"
            /\ prog'.pool = {} /\ prog'.picks \subseteq prog.pool
            /\ Cardinality(prog'.picks) <= prog.want
            /\ prog'.want = prog.want
         \/ \E c \in prog.picks :
               /\ ProgrammerEnqueue(c) /\ prog.pc = "enqueue" /\ prog'.pc = "enqueue"
               /\ prog'.pool = prog.pool /\ prog'.picks = prog.picks \ {c}
               /\ prog'.want = prog.want
               /\ prog'.made \/ (prog'.made = prog.made /\ UNCHANGED rows)
         \/ /\ ProgrammerGivesUp \/ (ProgrammerDone /\ prog.pc = "enqueue" /\ ~prog.made)
            /\ prog'.pc = "respin" /\ prog'.pool = {} /\ prog'.picks = prog.picks
            /\ prog'.want = prog.want /\ prog.pc \in {"resolve", "enqueue"}
         \/ (\E c \in prog.picks : RespinCreate(c)) /\ prog' = IdleProgrammer
         \/ (ProgrammerDone \/ RespinGivesUp) /\ prog' = IdleProgrammer
<1>1. CASE ProgrammerWake
  <2>1. PICK pc \in {"resolve", "respin"} :
          prog' = [IdleProgrammer EXCEPT
                     !.pc = pc, !.want = WantPicks(Cardinality(Pending(rows)))]
    BY <1>1 DEF ProgrammerWake
  <2>2. QED
    BY <1>1, <2>1 DEF IdleProgrammer, ProgrammerWake
<1>2. ASSUME NEW t \in Tracks, ProgrammerResolve(t)
      PROVE  /\ prog.pc = "resolve" /\ prog'.pc = "resolve"
             /\ prog'.pool = prog.pool \cup {[yt |-> t, cached |-> t \in library]}
             /\ prog'.picks = prog.picks /\ prog'.want = prog.want
  BY <1>2 DEF ProgrammerResolve, TypeOK, ProgrammerState
<1>3. ASSUME NEW t \in Tracks, RespinProbe(t)
      PROVE  /\ prog.pc = "respin" /\ prog'.pc = "respun"
             /\ prog'.pool = prog.pool /\ prog'.picks = {[yt |-> t, cached |-> TRUE]}
             /\ prog'.want = prog.want
  BY <1>3 DEF RespinProbe, TypeOK, ProgrammerState
<1>4. CASE ProgrammerChoose
  <2>1. PICK picks \in SUBSET prog.pool :
          /\ Cardinality(picks) <= prog.want
          /\ prog' = [prog EXCEPT !.pc = "enqueue", !.pool = {}, !.picks = picks]
    BY <1>4 DEF ProgrammerChoose
  <2>2. QED
    BY <1>4, <2>1 DEF ProgrammerChoose, TypeOK, ProgrammerState
<1>5. ASSUME NEW c \in Candidate, ProgrammerEnqueue(c)
      PROVE  /\ c \in prog.picks /\ prog.pc = "enqueue" /\ prog'.pc = "enqueue"
             /\ prog'.pool = prog.pool /\ prog'.picks = prog.picks \ {c}
             /\ prog'.want = prog.want
             /\ prog'.made \/ (prog'.made = prog.made /\ UNCHANGED rows)
  BY <1>5 DEF ProgrammerEnqueue, TypeOK, ProgrammerState
<1>6. CASE ProgrammerGivesUp \/ (ProgrammerDone /\ ~prog.made)
  BY <1>6 DEF ProgrammerGivesUp, ProgrammerDone, TypeOK, ProgrammerState
<1>7. CASE RespinGivesUp \/ (ProgrammerDone /\ prog.made)
  BY <1>7 DEF RespinGivesUp, ProgrammerDone
<1>8. ASSUME NEW c \in Candidate, RespinCreate(c)
      PROVE  c \in prog.picks /\ prog' = IdleProgrammer
  BY <1>8 DEF RespinCreate
<1>9. QED
  BY <1>1, <1>2, <1>3, <1>4, <1>5, <1>6, <1>7, <1>8 DEF ProgrammerRunOnce

LEMMA OnePickStep ==
  ASSUME TypeOK, OnePick, [Next]_vars
  PROVE  OnePick'
<1>1. CASE ProgrammerRunOnce
  <2>1. ASSUME NEW t \in Tracks, ProgrammerResolve(t), prog'.pc = "resolve",
               prog'.pool = prog.pool \cup {[yt |-> t, cached |-> t \in library]},
               prog'.picks = prog.picks
        PROVE  OnePick'
    BY <2>1 DEF ProgrammerResolve, OnePick
  <2>2. CASE prog' = IdleProgrammer
    BY <2>2 DEF OnePick, IdleProgrammer
  <2>3. QED
    BY <1>1, <2>1, <2>2, ProgrammerHolds DEF OnePick
<1>2. CASE ~ProgrammerRunOnce
  BY <1>2, PicksKept DEF OnePick, IdleProgrammer
<1>3. QED
  BY <1>1, <1>2

\* A step that inserts nothing, or another track, adds no copy of a track.
LEMMA QuietCopies ==
  ASSUME TypeOK, TypeOK', Quiet, NEW t
  PROVE  PendingOfTrack(rows, t)' \subseteq PendingOfTrack(rows, t)
  BY DEF TypeOK, Quiet, PendingOfTrack

LEMMA InsertCopies ==
  ASSUME TypeOK, TypeOK', NEW i \in Ids, NEW source, NEW w, NEW yt, NEW s,
         Inserts(i, source, w, yt, s), NEW t
  PROVE  /\ PendingOfTrack(rows, t)' \subseteq PendingOfTrack(rows, t) \cup {i}
         /\ yt # t => PendingOfTrack(rows, t)' \subseteq PendingOfTrack(rows, t)
<1>1. rows'[i].yt = yt
  BY DEF Inserts
<1>2. QED
  BY <1>1 DEF TypeOK, Inserts, PendingOfTrack

\* The programmer, seen from one track: nothing new, or offered while no copy is
\* queued, or inserted and offered no more.
LEMMA ProgrammerCopies ==
  ASSUME IInv, IInv', OnePick, ProgrammerRunOnce, NEW t \in Tracks
  PROVE  \/ /\ PendingOfTrack(rows, t)' \subseteq PendingOfTrack(rows, t)
            /\ Offered(t)' => Offered(t)
         \/ PendingOfTrack(rows, t)' = {}
         \/ /\ \E i \in Ids : PendingOfTrack(rows, t)' \subseteq PendingOfTrack(rows, t) \cup {i}
            /\ Offered(t) /\ ~Offered(t)'
<1>0. TypeOK /\ TypeOK'
  BY DEF IInv
<1>1. ASSUME NEW d \in Tracks, ProgrammerResolve(d) \/ RespinProbe(d)
      PROVE  UNCHANGED rows /\ PendingOfTrack(rows, d) = {}
  BY <1>1 DEF ProgrammerResolve, RespinProbe, NotQueued, HasPendingYTID
<1>2. ASSUME NEW d \in Tracks, ProgrammerResolve(d),
             prog'.pool = prog.pool \cup {[yt |-> d, cached |-> d \in library]},
             prog'.picks = prog.picks
      PROVE  UNCHANGED rows /\ (d = t \/ (Offered(t)' => Offered(t)))
  BY <1>1, <1>2 DEF Offered
<1>3. ASSUME NEW d \in Tracks, RespinProbe(d),
             prog'.pool = prog.pool, prog'.picks = {[yt |-> d, cached |-> TRUE]}
      PROVE  UNCHANGED rows /\ (d = t \/ (Offered(t)' => Offered(t)))
  BY <1>1, <1>3 DEF Offered
<1>4. CASE \E d \in Tracks : ProgrammerResolve(d) \/ RespinProbe(d)
  <2>1. PICK d \in Tracks :
          /\ ProgrammerResolve(d) \/ RespinProbe(d)
          /\ prog.pc \in {"resolve", "respin"}
    BY <1>4 DEF ProgrammerResolve, RespinProbe
  <2>2. UNCHANGED rows /\ (d = t \/ (Offered(t)' => Offered(t)))
    <3>1. CASE ProgrammerResolve(d)
      BY <1>0, <1>2, <3>1 DEF ProgrammerResolve, TypeOK, ProgrammerState
    <3>2. CASE RespinProbe(d)
      BY <1>0, <1>3, <3>2 DEF RespinProbe, TypeOK, ProgrammerState
    <3>3. QED
      BY <2>1, <3>1, <3>2
  <2>3. QED
    BY <1>1, <2>1, <2>2
<1>5. ASSUME NEW c \in Candidate, ProgrammerInserts(c), c \in prog.picks,
             prog' = IdleProgrammer
               \/ (prog.pc = "enqueue" /\ prog'.pool = prog.pool /\ prog'.picks = prog.picks \ {c})
      PROVE  \/ /\ PendingOfTrack(rows, t)' \subseteq PendingOfTrack(rows, t)
                /\ Offered(t)' => Offered(t)
             \/ /\ \E i \in Ids :
                      PendingOfTrack(rows, t)' \subseteq PendingOfTrack(rows, t) \cup {i}
                /\ Offered(t) /\ ~Offered(t)'
  <2>1. PICK i \in Ids, s \in {"approved", "ready"} : Inserts(i, "ai", NoUser, c.yt, s)
    BY <1>5 DEF ProgrammerInserts
  <2>2. Offered(t)' => Offered(t)
    BY <1>5 DEF Offered, IdleProgrammer
  <2>3. CASE c.yt # t
    BY <1>0, <2>1, <2>2, <2>3, InsertCopies
  <2>4. CASE c.yt = t
    <3>1. Offered(t)
      BY <1>5, <2>4 DEF Offered
    <3>2. ~Offered(t)'
      BY <1>5, <2>4 DEF Offered, IdleProgrammer, OnePick
    <3>3. PendingOfTrack(rows, t)' \subseteq PendingOfTrack(rows, t) \cup {i}
      BY <1>0, <2>1, InsertCopies
    <3>4. QED
      BY <3>1, <3>2, <3>3
  <2>5. QED
    BY <2>3, <2>4
<1>6. CASE \E c \in Candidate :
             (ProgrammerEnqueue(c) \/ RespinCreate(c)) /\ ProgrammerInserts(c)
  <2>1. PICK c \in Candidate :
          (ProgrammerEnqueue(c) \/ RespinCreate(c)) /\ ProgrammerInserts(c)
    BY <1>6
  <2>2. /\ c \in prog.picks
        /\ \/ prog' = IdleProgrammer
           \/ prog.pc = "enqueue" /\ prog'.pool = prog.pool /\ prog'.picks = prog.picks \ {c}
    <3>1. CASE ProgrammerEnqueue(c)
      BY <1>0, <2>1, <3>1 DEF ProgrammerEnqueue, ProgrammerInserts, Inserts, TypeOK,
         ProgrammerState
    <3>2. CASE RespinCreate(c)
      BY <3>2 DEF RespinCreate
    <3>3. QED
      BY <2>1, <3>1, <3>2
  <2>3. QED
    BY <1>5, <2>1, <2>2
<1>7. CASE Quiet /\ ~\E d \in Tracks : ProgrammerResolve(d) \/ RespinProbe(d)
  <2>1. PendingOfTrack(rows, t)' \subseteq PendingOfTrack(rows, t)
    BY <1>0, <1>7, QuietCopies
  <2>2. Offered(t)' => Offered(t)
    <3>1. prog' = IdleProgrammer \/ prog'.pool \cup prog'.picks \subseteq prog.pool \cup prog.picks
      BY <1>0, <1>7, ProgrammerHolds
    <3>2. QED
      BY <3>1 DEF Offered, IdleProgrammer
  <2>3. QED
    BY <2>1, <2>2
<1>8. QED
  BY <1>4, <1>6, <1>7, ProgrammerEffect

LEMMA DuplicateStep ==
  ASSUME IInv, IInv', OnePick, [Next]_vars, DuplicateBound
  PROVE  DuplicateBound'
<1> SUFFICES ASSUME NEW t \in Tracks
             PROVE  Cardinality(PendingOfTrack(rows, t)') + Cardinality(Unqueued(t)')
                       + (IF Offered(t)' THEN 1 ELSE 0) <= Cardinality(Handlers) + 1
  BY DEF DuplicateBound
<1> DEFINE P == PendingOfTrack(rows, t)
           A == Unqueued(t)
           o == IF Offered(t) THEN 1 ELSE 0
<1>0. TypeOK /\ TypeOK'
  BY DEF IInv
<1>1. P \subseteq Ids /\ P' \subseteq Ids /\ A \subseteq Handlers /\ A' \subseteq Handlers
  BY <1>0 DEF PendingOfTrack, Unqueued, TypeOK
<1>2. /\ IsFiniteSet(P) /\ IsFiniteSet(A)
      /\ Cardinality(P) \in Nat /\ Cardinality(A) \in Nat
      /\ Cardinality(P') \in Nat /\ Cardinality(A') \in Nat
      /\ Cardinality(Handlers) \in Nat /\ Cardinality(A') <= Cardinality(Handlers)
  BY <1>1, SubsetOfIds, SomeCalls
<1>3. Cardinality(P) + Cardinality(A) + o <= Cardinality(Handlers) + 1
  BY DEF DuplicateBound
<1>4. o \in 0..1 /\ o' \in 0..1
  OBVIOUS
<1>5. ASSUME P' \subseteq P, A' \subseteq A, Offered(t)' => Offered(t)
      PROVE  Cardinality(P') + Cardinality(A') + o' <= Cardinality(Handlers) + 1
  <2>1. Cardinality(P') <= Cardinality(P) /\ Cardinality(A') <= Cardinality(A)
    BY <1>2, <1>5, Shrinking
  <2>2. o' <= o
    BY <1>5
  <2>3. QED
    BY <1>2, <1>3, <1>4, <2>1, <2>2
<1>6. ASSUME P' = {}
      PROVE  Cardinality(P') + Cardinality(A') + o' <= Cardinality(Handlers) + 1
  <2>1. Cardinality(P') = 0
    BY <1>6, FS_EmptySet
  <2>2. QED
    BY <1>2, <1>4, <2>1
<1>7. ASSUME NEW h \in Handlers, RequestTrack(h)
      PROVE  Cardinality(P') + Cardinality(A') + o' <= Cardinality(Handlers) + 1
  <2>0. Offered(t)' = Offered(t)
    BY <1>7 DEF RequestTrack, CheckPending, CheckDaily, CheckDup, CheckLibrary, CreateRequest,
       RejectCall, Offered
  <2>1. CASE CheckDup(h) /\ call[h].yt = t
    BY <1>6, <2>1 DEF CheckDup, NotQueued, HasPendingYTID
  <2>2. CASE ~CreateRequest(h) /\ ~(CheckDup(h) /\ call[h].yt = t)
    <3>1. P' \subseteq P
      BY <1>0, <1>7, <2>2, CallEffect, QuietCopies
    <3>2. A' \subseteq A
      <4>1. CASE \E w \in Users, d \in Tracks : CheckPending(h, w, d)
        BY <1>0, <4>1 DEF CheckPending, Unqueued, TypeOK
      <4>2. CASE CheckDaily(h)
        BY <1>0, <4>2, CallAdvances DEF Unqueued
      <4>3. CASE CheckDup(h) \/ CheckLibrary(h)
        <5>1. call[h].pc = "library" \/ call'[h].yt # t
          BY <1>0, <2>2, <4>3, CallAdvances DEF CheckLibrary
        <5>2. QED
          BY <1>0, <4>3, <5>1, CallAdvances DEF Unqueued
      <4>4. CASE RejectCall(h)
        BY <1>0, <4>4 DEF RejectCall, IdleCall, Unqueued, TypeOK
      <4>5. QED
        BY <1>7, <2>2, <4>1, <4>2, <4>3, <4>4 DEF RequestTrack
    <3>3. QED
      BY <1>5, <2>0, <3>1, <3>2
  <2>3. CASE CreateRequest(h)
    <3>1. A' \subseteq A \ {h}
      BY <1>0, <2>3 DEF CreateRequest, IdleCall, Unqueued, TypeOK
    <3>2. call[h].pc = "create"
      BY <2>3 DEF CreateRequest
    <3>3. PICK i \in Ids :
            Inserts(i, "listener", call[h].user, call[h].yt, call[h].status)
      BY <1>7, <2>3, CallEffect
    <3>4. P' \subseteq P \/ (call[h].yt = t /\ P' \subseteq P \cup {i})
      BY <1>0, <3>3, InsertCopies
    <3>5. CASE P' \subseteq P
      BY <1>5, <2>0, <3>1, <3>5
    <3>6. CASE call[h].yt = t /\ P' \subseteq P \cup {i}
      <4>1. h \in A
        BY <3>2, <3>6 DEF Unqueued
      <4>2. Cardinality(P') + Cardinality(A') <= Cardinality(P) + Cardinality(A)
        BY <1>2, <3>1, <3>6, <4>1, HandedOver
      <4>3. o' = o
        BY <2>0
      <4>4. QED
        BY <1>2, <1>3, <1>4, <4>2, <4>3
    <3>7. QED
      BY <3>4, <3>5, <3>6
  <2>4. QED
    BY <2>1, <2>2, <2>3
<1>8. ASSUME UNCHANGED call \/ NoCalls
      PROVE  A' \subseteq A
  BY <1>8 DEF NoCalls, Unqueued, IdleCall
<1>9. ASSUME UNCHANGED call \/ NoCalls, ~ProgrammerRunOnce, Quiet
      PROVE  Cardinality(P') + Cardinality(A') + o' <= Cardinality(Handlers) + 1
  <2>1. Offered(t)' => Offered(t)
    BY <1>9, PicksKept DEF Offered, IdleProgrammer
  <2>2. P' \subseteq P
    BY <1>0, <1>9, QuietCopies
  <2>3. QED
    BY <1>5, <1>8, <1>9, <2>1, <2>2
<1>10. ASSUME ProgrammerRunOnce, UNCHANGED call \/ NoCalls
       PROVE  Cardinality(P') + Cardinality(A') + o' <= Cardinality(Handlers) + 1
  <2>1. CASE P' \subseteq P /\ (Offered(t)' => Offered(t))
    BY <1>5, <1>8, <1>10, <2>1
  <2>2. CASE P' = {}
    BY <1>6, <2>2
  <2>3. ASSUME NEW i \in Ids, P' \subseteq P \cup {i}, Offered(t), ~Offered(t)'
        PROVE  Cardinality(P') + Cardinality(A') + o' <= Cardinality(Handlers) + 1
    <3>1. Cardinality(P') <= Cardinality(P) + 1
      BY <1>2, <2>3, OneMore
    <3>2. Cardinality(A') <= Cardinality(A)
      BY <1>2, <1>8, <1>10, Shrinking
    <3>3. o = 1 /\ o' = 0
      BY <2>3
    <3>4. QED
      BY <1>2, <1>3, <3>1, <3>2, <3>3
  <2>4. QED
    BY <1>10, <2>1, <2>2, <2>3, ProgrammerCopies
<1>11. QED
  BY <1>7, <1>9, <1>10, Effects DEF ProgrammerRunOnce

-----------------------------------------------------------------------------
(* The depth the programmer fills to. *)

\* While the programmer decides, its picks still have room; the ones it has not
\* inserted yet do to the end, also for the respin that follows when none was.
PicksFit ==
    /\ AiDepthBound
    /\ prog.pc # "idle" /\ (prog.pc = "enqueue" => ~prog.made) =>
          Cardinality(AiPending) + prog.want <= QueueDepthTarget
    /\ prog.pc = "enqueue" => Cardinality(AiPending) + Cardinality(prog.picks) <= QueueDepthTarget
    /\ IsFiniteSet(prog.pool) /\ IsFiniteSet(prog.picks)

\* Picks queued are counted like any request.
LEMMA AiPendingType ==
  ASSUME TypeOK
  PROVE  /\ IsFiniteSet(AiPending) /\ Cardinality(AiPending) \in Nat
         /\ Cardinality(Pending(rows)) \in Nat
         /\ Cardinality(AiPending) <= Cardinality(Pending(rows))
<1>1. AiPending \subseteq Pending(rows) /\ Pending(rows) \subseteq Ids
  BY DEF TypeOK, AiPending, Pending
<1>2. QED
  BY <1>1, SubsetOfIds, FS_Subset

\* Nobody but the programmer adds a pick.
LEMMA QuietPicks ==
  ASSUME TypeOK, TypeOK', Quiet \/ \E i \in Ids : \E w, t, s : Inserts(i, "listener", w, t, s)
  PROVE  AiPending' \subseteq AiPending
<1>1. CASE Quiet
  BY <1>1 DEF TypeOK, Quiet, AiPending
<1>2. ASSUME NEW i \in Ids, NEW w, NEW t, NEW s, Inserts(i, "listener", w, t, s)
      PROVE  AiPending' \subseteq AiPending
  <2>1. rows'[i].source = "listener"
    BY <1>2 DEF Inserts
  <2>2. QED
    BY <1>2, <2>1 DEF TypeOK, Inserts, AiPending
<1>3. QED
  BY <1>1, <1>2

\* What is wanted fits when the programmer wakes.
LEMMA WantFits ==
  ASSUME NEW n \in Nat, Wakes(n)
  PROVE  n + WantPicks(n) <= QueueDepthTarget
  BY PicksAssumption DEF Wakes, WantPicks

LEMMA PicksFitStep ==
  ASSUME IInv, IInv', [Next]_vars, PicksFit
  PROVE  PicksFit'
<1> DEFINE P == AiPending
<1>0. TypeOK /\ TypeOK'
  BY DEF IInv
<1>1. /\ IsFiniteSet(P) /\ Cardinality(P) \in Nat /\ Cardinality(P') \in Nat
      /\ QueueDepthTarget \in Nat /\ prog.want \in 1..MaxPicks /\ MaxPicks \in Nat
  <2>1. P' \subseteq Ids
    BY <1>0 DEF TypeOK, AiPending
  <2>2. QED
    BY <1>0, <2>1, AiPendingType, SubsetOfIds, PicksAssumption DEF TypeOK, ProgrammerState
<1>2. Cardinality(P) <= QueueDepthTarget
  BY DEF PicksFit, AiDepthBound
<1>3. P' \subseteq P => Cardinality(P') <= Cardinality(P)
  BY <1>1, FS_Subset
<1>4. ASSUME P' \subseteq P, UNCHANGED prog \/ prog' = IdleProgrammer
      PROVE  PicksFit'
  <2>1. Cardinality(P') <= QueueDepthTarget
    BY <1>1, <1>2, <1>3, <1>4
  <2>2. CASE UNCHANGED prog
    <3>1. Cardinality(prog.picks) \in Nat
      BY FS_CardinalityType DEF PicksFit
    <3>2. prog.pc = "enqueue" =>
            Cardinality(P') + Cardinality(prog.picks) <= QueueDepthTarget
      BY <1>1, <1>3, <1>4, <3>1 DEF PicksFit
    <3>3. prog.pc # "idle" /\ (prog.pc = "enqueue" => ~prog.made) =>
            Cardinality(P') + prog.want <= QueueDepthTarget
      BY <1>1, <1>3, <1>4 DEF PicksFit
    <3>4. QED
      BY <2>1, <2>2, <3>2, <3>3 DEF PicksFit, AiDepthBound
  <2>3. CASE prog' = IdleProgrammer
    BY <2>1, <2>3, FS_EmptySet DEF PicksFit, AiDepthBound, IdleProgrammer
  <2>4. QED
    BY <1>4, <2>2, <2>3
<1>5. ASSUME ~ProgrammerRunOnce
      PROVE  P' \subseteq P /\ (UNCHANGED prog \/ prog' = IdleProgrammer)
  <2>1. Quiet \/ \E i \in Ids : \E w, t, s : Inserts(i, "listener", w, t, s)
    BY <1>5, CallEffect, Effects DEF ProgrammerRunOnce
  <2>2. QED
    BY <1>0, <1>5, <2>1, QuietPicks, PicksKept
<1>6. CASE ProgrammerRunOnce
  <2>0. /\ IsFiniteSet(prog.pool) /\ IsFiniteSet(prog.picks)
        /\ Cardinality(prog.picks) \in Nat
    BY FS_CardinalityType DEF PicksFit
  <2>1. CASE Quiet
    <3>1. P' \subseteq P /\ Cardinality(P') <= Cardinality(P)
      BY <1>0, <1>3, <2>1, QuietPicks
    <3>2. Cardinality(P') <= QueueDepthTarget
      BY <1>1, <1>2, <3>1
    <3>3. CASE ProgrammerWake
      <4>1. /\ UNCHANGED rows /\ Wakes(Cardinality(Pending(rows)))
            /\ prog'.pool = {} /\ prog'.picks = {} /\ prog'.pc # "enqueue"
            /\ prog'.want = WantPicks(Cardinality(Pending(rows)))
        <5>1. PICK pc \in {"resolve", "respin"} :
                prog' = [IdleProgrammer EXCEPT
                           !.pc = pc, !.want = WantPicks(Cardinality(Pending(rows)))]
          BY <3>3 DEF ProgrammerWake
        <5>2. QED
          BY <3>3, <5>1 DEF ProgrammerWake, IdleProgrammer
      <4>2. Cardinality(Pending(rows)) + prog'.want <= QueueDepthTarget
        BY <1>0, <4>1, WantFits, AiPendingType
      <4>3. prog'.want \in 1..MaxPicks
        BY <1>0 DEF TypeOK, ProgrammerState
      <4>4. Cardinality(P') + prog'.want <= QueueDepthTarget
        BY <1>0, <1>1, <3>1, <4>2, <4>3, AiPendingType
      <4>5. QED
        BY <3>2, <4>1, <4>4, FS_EmptySet DEF PicksFit, AiDepthBound
    <3>4. ASSUME prog'.want = prog.want, prog'.pc # "enqueue",
                 prog.pc # "idle" /\ (prog.pc = "enqueue" => ~prog.made),
                 IsFiniteSet(prog'.pool), IsFiniteSet(prog'.picks)
          PROVE  PicksFit'
      <4>1. Cardinality(P) + prog.want <= QueueDepthTarget
        BY <3>4 DEF PicksFit
      <4>2. Cardinality(P') + prog.want <= QueueDepthTarget
        BY <1>1, <3>1, <4>1
      <4>3. QED
        BY <3>2, <3>4, <4>2 DEF PicksFit, AiDepthBound
    <3>5. ASSUME NEW t \in Tracks, prog.pc = "resolve" /\ prog'.pc = "resolve",
                 prog'.pool = prog.pool \cup {[yt |-> t, cached |-> t \in library]},
                 prog'.picks = prog.picks, prog'.want = prog.want
          PROVE  PicksFit'
      <4>1. PICK d : prog'.pool = prog.pool \cup {d}
        BY <3>5
      <4>2. IsFiniteSet(prog'.pool)
        BY <2>0, <4>1, FS_AddElement
      <4>3. QED
        BY <2>0, <3>4, <3>5, <4>2
    <3>6. ASSUME NEW t \in Tracks, prog.pc = "respin" /\ prog'.pc = "respun",
                 prog'.pool = prog.pool, prog'.picks = {[yt |-> t, cached |-> TRUE]},
                 prog'.want = prog.want
          PROVE  PicksFit'
      <4>1. IsFiniteSet(prog'.picks)
        BY <3>6, FS_Singleton
      <4>2. QED
        BY <2>0, <3>4, <3>6, <4>1
    <3>7. ASSUME prog.pc = "resolve", prog'.pc = "enqueue", prog'.pool = {},
                 prog'.picks \subseteq prog.pool, Cardinality(prog'.picks) <= prog.want,
                 prog'.want = prog.want
          PROVE  PicksFit'
      <4>1. Cardinality(P) + prog.want <= QueueDepthTarget
        BY <3>7 DEF PicksFit
      <4>2. IsFiniteSet(prog'.picks) /\ Cardinality(prog'.picks) \in Nat
        BY <2>0, <3>7, FS_Subset, FS_CardinalityType
      <4>3. Cardinality(P') + prog.want <= QueueDepthTarget
        BY <1>1, <3>1, <4>1
      <4>4. Cardinality(P') + Cardinality(prog'.picks) <= QueueDepthTarget
        BY <1>1, <3>7, <4>2, <4>3
      <4>5. QED
        BY <3>2, <3>7, <4>2, <4>3, <4>4, FS_EmptySet DEF PicksFit, AiDepthBound
    <3>8. ASSUME NEW c \in prog.picks, prog.pc = "enqueue", prog'.pc = "enqueue",
                 prog'.pool = prog.pool, prog'.picks = prog.picks \ {c},
                 prog'.want = prog.want, prog'.made \/ prog'.made = prog.made
          PROVE  PicksFit'
      <4>1. /\ IsFiniteSet(prog'.picks) /\ Cardinality(prog'.picks) \in Nat
            /\ Cardinality(prog'.picks) <= Cardinality(prog.picks)
        BY <2>0, <3>8, FS_Subset, FS_CardinalityType
      <4>2. Cardinality(P') + Cardinality(prog'.picks) <= QueueDepthTarget
        BY <1>1, <2>0, <3>1, <3>8, <4>1 DEF PicksFit
      <4>3. ~prog'.made => Cardinality(P') + prog.want <= QueueDepthTarget
        BY <1>1, <3>1, <3>8 DEF PicksFit
      <4>4. QED
        BY <2>0, <3>2, <3>8, <4>1, <4>2, <4>3 DEF PicksFit, AiDepthBound
    <3>9. ASSUME prog'.pc = "respin", prog'.pool = {}, prog'.picks = prog.picks,
                 prog'.want = prog.want,
                 prog.pc = "resolve" \/ (prog.pc = "enqueue" /\ ~prog.made)
          PROVE  PicksFit'
      BY <2>0, <3>4, <3>9, FS_EmptySet
    <3>10. QED
      BY <1>0, <1>4, <1>6, <3>1, <3>3, <3>5, <3>6, <3>7, <3>8, <3>9, ProgrammerHolds
         DEF ProgrammerGivesUp
  <2>2. ASSUME NEW c \in Candidate, ProgrammerInserts(c), ProgrammerEnqueue(c)
        PROVE  PicksFit'
    <3>1. PICK i \in Ids, s \in {"approved", "ready"} : Inserts(i, "ai", NoUser, c.yt, s)
      BY <2>2 DEF ProgrammerInserts
    <3>2. P' \subseteq P \cup {i}
      BY <1>0, <3>1 DEF Inserts, AiPending, TypeOK
    <3>3. /\ c \in prog.picks /\ prog.pc = "enqueue" /\ prog'.pc = "enqueue"
          /\ prog'.pool = prog.pool /\ prog'.picks = prog.picks \ {c} /\ prog'.made
      <4>1. rows' # rows
        BY <3>1 DEF Inserts
      <4>2. prog' = [prog EXCEPT !.picks = @ \ {c}, !.made = TRUE]
        BY <2>2, <4>1 DEF ProgrammerEnqueue
      <4>3. c \in prog.picks /\ prog.pc = "enqueue"
        BY <2>2 DEF ProgrammerEnqueue
      <4>4. QED
        BY <1>0, <4>2, <4>3 DEF TypeOK, ProgrammerState
    <3>4. /\ Cardinality(prog'.picks) \in Nat
          /\ Cardinality(P') + Cardinality(prog'.picks)
                <= Cardinality(P) + Cardinality(prog.picks)
      <4>1. Cardinality(P') <= Cardinality(P) + 1
        BY <1>1, <3>2, OneMore
      <4>2. Cardinality(prog'.picks) = Cardinality(prog.picks) - 1
        BY <2>0, <3>3, FS_RemoveElement
      <4>3. Cardinality(prog'.picks) \in Nat
        BY <2>0, <3>3, FS_Subset, FS_CardinalityType
      <4>4. QED
        BY <1>1, <2>0, <4>1, <4>2, <4>3
    <3>5. Cardinality(P') + Cardinality(prog'.picks) <= QueueDepthTarget
      BY <1>1, <2>0, <3>3, <3>4 DEF PicksFit
    <3>6. IsFiniteSet(prog'.picks)
      BY <2>0, <3>3, FS_Subset
    <3>7. Cardinality(P') <= QueueDepthTarget
      BY <1>1, <3>4, <3>5
    <3>8. QED
      BY <2>0, <3>3, <3>5, <3>6, <3>7 DEF PicksFit, AiDepthBound
  <2>3. ASSUME NEW c \in Candidate, ProgrammerInserts(c), RespinCreate(c)
        PROVE  PicksFit'
    <3>1. PICK i \in Ids, s \in {"approved", "ready"} : Inserts(i, "ai", NoUser, c.yt, s)
      BY <2>3 DEF ProgrammerInserts
    <3>2. P' \subseteq P \cup {i}
      BY <1>0, <3>1 DEF Inserts, AiPending, TypeOK
    <3>3. prog.pc = "respun" /\ prog' = IdleProgrammer
      BY <2>3 DEF RespinCreate
    <3>4. Cardinality(P') <= Cardinality(P) + 1
      BY <1>1, <3>2, OneMore
    <3>5. Cardinality(P) + prog.want <= QueueDepthTarget
      BY <3>3 DEF PicksFit
    <3>6. Cardinality(P') <= QueueDepthTarget
      BY <1>1, <3>4, <3>5
    <3>7. QED
      BY <3>3, <3>6, FS_EmptySet DEF PicksFit, AiDepthBound, IdleProgrammer
  <2>4. QED
    BY <1>6, <2>1, <2>2, <2>3, ProgrammerEffect
<1>7. QED
  BY <1>4, <1>5, <1>6

-----------------------------------------------------------------------------
(* Downloads of a request. *)

\* An approved request has an attempt left, up to the failures so far, unless the
\* worker is about to fail it; so has the one the worker is trying.
AttemptLeft ==
    /\ AttemptsBound
    /\ \A i \in Ids :
          rows[i].status = "approved" /\ ~(worker.pc = "fail" /\ worker.id = i)
              => rows[i].attempts < MaxAttempts + faults
    /\ worker.pc \in {"library", "download", "bump"} =>
          rows[worker.id].attempts < MaxAttempts + faults

\* The failures only grow.
LEMMA FaultsGrow ==
  ASSUME TypeOK, [Next]_vars
  PROVE  faults' = faults \/ faults' = faults + 1
  BY DEF Next, vars, RequestTrack, CheckPending, CheckDaily, CheckDup, CheckLibrary,
     CreateRequest, RejectCall, WorkerRunOnce, WorkerPoll, WorkerLibrary, WorkerDownload,
     WorkerBump, WorkerFail, WorkerReady, ProgrammerRunOnce, ProgrammerWake,
     ProgrammerResolve, RespinProbe, ProgrammerChoose, ProgrammerGivesUp,
     ProgrammerEnqueue, RespinCreate, ProgrammerDone, RespinGivesUp, Console,
     RemoveRequest, ReorderRead, ReorderCommit, DeleteTrack, DownloadTrack, Feed,
     FeedChooses, FeedFails, FeedGivesUp, FeedAnnounces, DayRolls, Restart, Fault

\* Nobody but the worker and a restart changes what the worker holds.
LEMMA WorkerKept ==
  ASSUME [Next]_vars, ~WorkerRunOnce
  PROVE  UNCHANGED worker \/ Restart
  BY DEF Next, vars, RequestTrack, CheckPending, CheckDaily, CheckDup, CheckLibrary,
     CreateRequest, RejectCall, ProgrammerRunOnce, ProgrammerWake, ProgrammerResolve,
     RespinProbe, ProgrammerChoose, ProgrammerGivesUp, ProgrammerEnqueue, RespinCreate,
     ProgrammerDone, RespinGivesUp, Console, RemoveRequest, ReorderRead, ReorderCommit,
     DeleteTrack, DownloadTrack, Feed, FeedChooses, FeedFails, FeedGivesUp,
     FeedAnnounces, DayRolls

\* Others touch no counter and no track, and approve none but a row without attempts.
LEMMA OthersAttempts ==
  ASSUME IInv, [Next]_vars, ~WorkerRunOnce, NEW i \in Ids
  PROVE  \/ /\ rows'[i].attempts = rows[i].attempts /\ rows'[i].yt = rows[i].yt
            /\ rows'[i].status = "approved" => rows[i].status = "approved"
         \/ rows'[i].attempts = 0 /\ rows[i].status = "none"
<1>0. rows \in Table
  BY DEF IInv, TypeOK, Table, RowType
<1>1. ASSUME NEW k \in Ids, NEW source, NEW w, NEW t, NEW s, Inserts(k, source, w, t, s)
      PROVE  \/ rows'[i] = rows[i]
             \/ rows'[i].attempts = 0 /\ rows[i].status = "none"
  BY <1>1 DEF Inserts
<1>2. CASE Console
  <2>1. ASSUME NEW k \in Ids, RemoveRequest(k)
        PROVE  /\ rows'[i].attempts = rows[i].attempts /\ rows'[i].yt = rows[i].yt
               /\ rows'[i].status = "approved" => rows[i].status = "approved"
    BY <1>0, <2>1, WritesOfStatus, WritesOfOwner DEF RemoveRequest, SameOwner
  <2>2. ASSUME NEW o \in Operators, ReorderCommit(o)
        PROVE  /\ rows'[i].attempts = rows[i].attempts /\ rows'[i].yt = rows[i].yt
               /\ rows'[i].status = "approved" => rows[i].status = "approved"
    BY <1>0, <2>2, ReorderStatus, ReorderOwner DEF ReorderCommit, SameOwner, IInv, TypeOK
  <2>3. QED
    BY <1>2, <2>1, <2>2 DEF Console, ReorderRead, DeleteTrack, DownloadTrack
<1>3. CASE Feed
  <2>1. UNCHANGED rows \/ (air.id \in Ids /\
          rows' \in {MarkFailed(rows, air.id), MarkAired(rows, air.id)})
    BY <1>3 DEF Feed, FeedChooses, FeedFails, FeedGivesUp, FeedAnnounces, IInv, HeldRows
  <2>2. QED
    BY <1>0, <2>1, WritesOfStatus, WritesOfOwner DEF SameOwner
<1>4. ASSUME NEW h \in Handlers, RequestTrack(h)
      PROVE  \/ rows'[i] = rows[i]
             \/ rows'[i].attempts = 0 /\ rows[i].status = "none"
  <2>1. CASE CreateRequest(h)
    BY <1>1, <1>4, <2>1, CallEffect
  <2>2. CASE ~CreateRequest(h)
    BY <1>4, <2>2, CallEffect
  <2>3. QED
    BY <2>1, <2>2
<1>5. CASE ProgrammerRunOnce
  <2>1. UNCHANGED rows \/ \E c \in Candidate : ProgrammerInserts(c)
    BY <1>5, ProgrammerEffect
  <2>2. QED
    BY <1>1, <2>1 DEF ProgrammerInserts
<1>6. CASE DayRolls \/ Restart \/ UNCHANGED vars
  BY <1>6 DEF DayRolls, Restart, vars
<1>7. QED
  BY <1>2, <1>3, <1>4, <1>5, <1>6 DEF Next

LEMMA AttemptStep ==
  ASSUME IInv, IInv', [Next]_vars, AttemptLeft
  PROVE  AttemptLeft'
<1>0. /\ rows \in Table /\ worker \in WorkerState /\ faults \in Nat
      /\ MaxAttempts \in Nat \ {0} /\ faults' \in Nat
      /\ \A i \in Ids : rows[i].attempts \in Nat /\ rows'[i].attempts \in Nat
  BY AttemptsAssumption DEF IInv, TypeOK, Table, RowType, Row
<1>1. faults <= faults'
  BY <1>0, FaultsGrow DEF IInv
<1>2. CASE WorkerPoll \/ WorkerLibrary \/ WorkerDownload
  <2>1. UNCHANGED <<rows, faults>>
    BY <1>2 DEF WorkerPoll, WorkerLibrary, WorkerDownload
  <2>2. CASE WorkerPoll
    <3>1. PICK k \in Ids :
            /\ rows[k].status = "approved" /\ worker.pc = "idle"
            /\ worker' = [pc |-> "library", id |-> k]
      BY <2>2 DEF WorkerPoll, IsOldestApproved
    <3>2. QED
      BY <1>0, <2>1, <3>1 DEF AttemptLeft, AttemptsBound
  <2>3. CASE WorkerLibrary \/ WorkerDownload
    <3>1. /\ worker.pc \in {"library", "download"} /\ worker'.id = worker.id
          /\ rows[worker.id].attempts < MaxAttempts + faults
      BY <1>0, <2>3 DEF WorkerLibrary, WorkerDownload, WorkerState, AttemptLeft
    <3>2. worker'.pc = "fail" => rows[worker.id].yt \in Overlong \cup NotMusic
      BY <1>0, <2>3 DEF WorkerLibrary, WorkerDownload, WorkerState
    <3>3. \A i \in Ids : rows[i].attempts <= MaxAttempts + faults
      BY DEF AttemptLeft, AttemptsBound
    <3>4. AttemptsBound'
      BY <2>1, <3>1, <3>2, <3>3 DEF AttemptsBound
    <3>5. worker.pc # "fail"
      BY <3>1
    <3>6. QED
      BY <2>1, <3>1, <3>4, <3>5 DEF AttemptLeft
  <2>4. QED
    BY <1>2, <2>2, <2>3
<1>3. CASE WorkerBump
  <2>1. /\ worker.pc = "bump" /\ worker.id \in Ids
        /\ rows[worker.id].attempts < MaxAttempts + faults
    BY <1>3 DEF WorkerBump, IInv, HeldRows, AttemptLeft
  <2>2. CASE /\ rows' = BumpAttempts(rows, worker.id) /\ UNCHANGED faults
             /\ worker' = IF Exhausted(rows'[worker.id].attempts)
                          THEN [worker EXCEPT !.pc = "fail"] ELSE IdleWorker
    <3>1. \A i \in Ids : /\ rows'[i].status = rows[i].status
                         /\ rows'[i].attempts = IF i = worker.id THEN rows[i].attempts + 1
                                                ELSE rows[i].attempts
      BY <1>0, <2>1, <2>2, WritesOfStatus, WritesOfBump
    <3>2. AttemptsBound'
      <4>1. \A i \in Ids : rows'[i].attempts <= MaxAttempts + faults'
        BY <1>0, <2>1, <2>2, <3>1 DEF AttemptLeft, AttemptsBound
      <4>2. worker'.pc = "fail" => rows'[worker'.id].attempts >= MaxAttempts
        BY <1>0, <2>1, <2>2 DEF WorkerState, Exhausted, IdleWorker
      <4>3. QED
        BY <4>1, <4>2 DEF AttemptsBound
    <3>3. worker'.pc \in {"fail", "idle"}
      BY <1>0, <2>2 DEF WorkerState, IdleWorker
    <3>4. rows'[worker.id].attempts < MaxAttempts
             \/ (worker'.pc = "fail" /\ worker'.id = worker.id)
      BY <1>0, <2>1, <2>2 DEF WorkerState, Exhausted
    <3>5. ASSUME NEW i \in Ids, rows'[i].status = "approved",
                 ~(worker'.pc = "fail" /\ worker'.id = i)
          PROVE  rows'[i].attempts < MaxAttempts + faults'
      <4>1. CASE i = worker.id
        BY <1>0, <2>2, <3>4, <3>5, <4>1
      <4>2. CASE i # worker.id
        BY <1>0, <2>1, <2>2, <3>1, <3>5, <4>2 DEF AttemptLeft
      <4>3. QED
        BY <4>1, <4>2
    <3>6. QED
      BY <3>2, <3>3, <3>5 DEF AttemptLeft
  <2>3. CASE UNCHANGED rows /\ worker' = IdleWorker
    BY <1>0, <1>1, <2>1, <2>3 DEF AttemptLeft, AttemptsBound, IdleWorker
  <2>4. QED
    BY <1>3, <2>2, <2>3 DEF WorkerBump
<1>4. CASE WorkerFail \/ WorkerReady
  <2>1. worker.pc \in {"fail", "ready"} /\ worker.id \in Ids /\ worker' = IdleWorker
    BY <1>4 DEF WorkerFail, WorkerReady, IInv, HeldRows
  <2>2. \/ rows' = MarkReady(rows, worker.id) /\ worker.pc = "ready"
        \/ rows' = MarkFailed(rows, worker.id)
        \/ UNCHANGED rows /\ faults' = faults + 1
    BY <1>4 DEF WorkerFail, WorkerReady, Fault
  <2>3. \A i \in Ids : rows'[i].attempts = rows[i].attempts
    BY <1>0, <2>1, <2>2, WritesOfOwner DEF SameOwner
  <2>4. \A i \in Ids : rows'[i].status = "approved" =>
          /\ rows[i].status = "approved"
          /\ i # worker.id \/ worker.pc = "ready" \/ faults' = faults + 1
    BY <1>0, <2>1, <2>2, WritesOfStatus
  <2>5. \A i \in Ids : rows[i].attempts <= MaxAttempts + faults
    BY DEF AttemptLeft, AttemptsBound
  <2>6. \A i \in Ids : rows'[i].status = "approved" =>
          rows'[i].attempts < MaxAttempts + faults'
    BY <1>0, <1>1, <2>1, <2>3, <2>4, <2>5 DEF AttemptLeft
  <2>7. QED
    BY <1>0, <1>1, <2>1, <2>3, <2>5, <2>6 DEF AttemptLeft, AttemptsBound, IdleWorker
<1>5. CASE ~WorkerRunOnce /\ UNCHANGED worker
  <2>1. ASSUME NEW i \in Ids
        PROVE  /\ rows'[i].attempts <= MaxAttempts + faults'
               /\ rows'[i].status = "approved" /\ ~(worker.pc = "fail" /\ worker.id = i)
                     => rows'[i].attempts < MaxAttempts + faults'
    BY <1>0, <1>1, <1>5, OthersAttempts DEF AttemptLeft, AttemptsBound
  <2>2. worker.pc \in {"library", "download", "bump"} =>
          rows'[worker.id].attempts < MaxAttempts + faults'
    <3>1. SUFFICES ASSUME worker.pc \in {"library", "download", "bump"}
                   PROVE  rows'[worker.id].attempts < MaxAttempts + faults'
      OBVIOUS
    <3>2. worker.id \in Ids /\ rows[worker.id].status # "none"
      BY <3>1 DEF IInv, HeldRows
    <3>3. rows'[worker.id].attempts = rows[worker.id].attempts
      BY <1>5, <3>2, OthersAttempts
    <3>4. QED
      BY <1>0, <1>1, <3>1, <3>2, <3>3 DEF AttemptLeft
  <2>3. worker.pc = "fail" => \/ rows'[worker.id].attempts >= MaxAttempts
                             \/ rows'[worker.id].yt \in Overlong \cup NotMusic
    <3>1. SUFFICES ASSUME worker.pc = "fail"
                   PROVE  /\ rows'[worker.id].attempts = rows[worker.id].attempts
                          /\ rows'[worker.id].yt = rows[worker.id].yt
      BY DEF AttemptLeft, AttemptsBound
    <3>2. worker.id \in Ids /\ rows[worker.id].status # "none"
      BY <3>1 DEF IInv, HeldRows
    <3>3. QED
      BY <1>5, <3>2, OthersAttempts
  <2>4. QED
    BY <1>5, <2>1, <2>2, <2>3 DEF AttemptLeft, AttemptsBound
<1>6. CASE Restart
  <2>1. UNCHANGED rows /\ worker' = IdleWorker /\ faults' = faults + 1
    BY <1>6 DEF Restart, Fault
  <2>2. QED
    BY <1>0, <2>1 DEF AttemptLeft, AttemptsBound, IdleWorker
<1>7. QED
  BY <1>2, <1>3, <1>4, <1>5, <1>6, WorkerKept DEF WorkerRunOnce

-----------------------------------------------------------------------------
(* Ready requests and their tracks. *)

\* The tracks that are in the library or were deleted from it.
Acquired == library \cup deleted

\* Whoever is about to make a request ready has seen its track in the library.
Playable ==
    /\ ReadyIsPlayable
    /\ \A h \in Handlers :
          call[h].pc = "create" /\ call[h].status = "ready" => call[h].yt \in Acquired
    /\ worker.pc = "ready" => rows[worker.id].yt \in Acquired
    /\ \A c \in prog.pool \cup prog.picks : c.cached => c.yt \in Acquired
    /\ prog.pc = "respun" => \A c \in prog.picks : c.cached

\* A track once acquired stays so: only DeleteTrack takes it from the library.
LEMMA AcquiredGrows ==
  ASSUME [Next]_vars
  PROVE  Acquired \subseteq Acquired'
  BY DEF Next, vars, RequestTrack, CheckPending, CheckDaily, CheckDup, CheckLibrary,
     CreateRequest, RejectCall, WorkerRunOnce, WorkerPoll, WorkerLibrary, WorkerDownload,
     WorkerBump, WorkerFail, WorkerReady, ProgrammerRunOnce, ProgrammerWake,
     ProgrammerResolve, RespinProbe, ProgrammerChoose, ProgrammerGivesUp,
     ProgrammerEnqueue, RespinCreate, ProgrammerDone, RespinGivesUp, Console,
     RemoveRequest, ReorderRead, ReorderCommit, DeleteTrack, DownloadTrack, Feed,
     FeedChooses, FeedFails, FeedGivesUp, FeedAnnounces, DayRolls, Restart, Acquired

\* A row that exists keeps its track.
LEMMA TracksKept ==
  ASSUME IInv, [Next]_vars, NEW i \in Ids, rows[i].status # "none"
  PROVE  rows'[i].yt = rows[i].yt
<1>1. ASSUME NEW k \in Ids, NEW source, NEW w, NEW t, NEW s, Inserts(k, source, w, t, s)
      PROVE  rows'[i].yt = rows[i].yt
  BY <1>1 DEF Inserts
<1>2. CASE Quiet
  BY <1>2 DEF Quiet
<1>3. QED
  BY <1>1, <1>2, Effects, CallEffect DEF ProgrammerInserts

LEMMA PlayableStep ==
  ASSUME IInv, IInv', [Next]_vars, Playable
  PROVE  Playable'
<1>0. TypeOK /\ TypeOK' /\ Acquired \subseteq Acquired'
  BY AcquiredGrows DEF IInv
<1>1. ReadyIsPlayable'
  <2>1. ASSUME NEW i \in Ids, NEW source, NEW w, NEW t, NEW s, Inserts(i, source, w, t, s),
               s = "ready" => t \in Acquired'
        PROVE  ReadyIsPlayable'
    <3>1. rows'[i].yt = t /\ rows'[i].status = s
      BY <2>1 DEF Inserts
    <3>2. QED
      BY <1>0, <2>1, <3>1 DEF Playable, ReadyIsPlayable, Inserts, Acquired
  <2>2. CASE Quiet
    BY <1>0, <2>2 DEF Quiet, Playable, ReadyIsPlayable, Acquired
  <2>3. ASSUME NEW h \in Handlers, CreateRequest(h)
        PROVE  ReadyIsPlayable'
    <3>1. PICK i \in Ids : Inserts(i, "listener", call[h].user, call[h].yt, call[h].status)
      BY <2>3, CallEffect DEF RequestTrack
    <3>2. call[h].status = "ready" => call[h].yt \in Acquired'
      BY <1>0, <2>3 DEF CreateRequest, Playable
    <3>3. QED
      BY <2>1, <3>1, <3>2
  <2>4. ASSUME NEW c \in Candidate, ProgrammerEnqueue(c) \/ RespinCreate(c),
               ProgrammerInserts(c)
        PROVE  ReadyIsPlayable'
    <3>1. PICK i \in Ids, s \in {"approved", "ready"} :
            /\ Inserts(i, "ai", NoUser, c.yt, s)
            /\ s = "ready" => c.cached \/ prog.pc = "respun"
      BY <2>4 DEF ProgrammerInserts
    <3>2. c \in prog.picks
      BY <2>4 DEF ProgrammerEnqueue, RespinCreate
    <3>3. s = "ready" => c.yt \in Acquired'
      BY <1>0, <3>1, <3>2 DEF Playable
    <3>4. QED
      BY <2>1, <3>1, <3>3
  <2>5. QED
    BY <2>2, <2>3, <2>4, Effects, CallEffect
<1>2. ASSUME NEW h \in Handlers, call'[h].pc = "create", call'[h].status = "ready"
      PROVE  call'[h].yt \in Acquired'
  <2>1. CASE call'[h] = call[h]
    BY <1>0, <1>2, <2>1 DEF Playable
  <2>2. CASE call'[h] # call[h]
    <3>1. PICK k \in Handlers : RequestTrack(k)
      BY <1>2, <2>2, Effects DEF NoCalls, IdleCall
    <3>2. CheckLibrary(k) /\ k = h
      BY <1>0, <1>2, <2>2, <3>1, CallAdvances DEF RequestTrack, CheckPending, CreateRequest,
         RejectCall, IdleCall, TypeOK
    <3>3. call'[h].yt = call[h].yt
      BY <1>0, <3>2, CallAdvances
    <3>4. call[h].yt \in library
      <4>1. CASE call' = [call EXCEPT ![h].pc = "create", ![h].status = "approved"]
        BY <1>0, <1>2, <4>1 DEF TypeOK, CallState
      <4>2. QED
        BY <3>2, <4>1 DEF CheckLibrary
    <3>5. QED
      BY <1>0, <3>3, <3>4 DEF Acquired
  <2>3. QED
    BY <2>1, <2>2
<1>3. ASSUME worker'.pc = "ready"
      PROVE  rows'[worker'.id].yt \in Acquired'
  <2>1. CASE WorkerRunOnce
    <3>1. WorkerLibrary \/ WorkerDownload
      BY <1>0, <1>3, <2>1 DEF WorkerRunOnce, WorkerPoll, WorkerBump, WorkerFail, WorkerReady,
         IdleWorker, TypeOK, WorkerState
    <3>2. UNCHANGED rows /\ worker'.id = worker.id
      BY <1>0, <3>1 DEF WorkerLibrary, WorkerDownload, TypeOK, WorkerState
    <3>3. rows[worker.id].yt \in library'
      BY <1>0, <1>3, <3>1 DEF WorkerLibrary, WorkerDownload, Cached, TypeOK, WorkerState
    <3>4. QED
      BY <3>2, <3>3 DEF Acquired
  <2>2. CASE ~WorkerRunOnce
    <3>1. UNCHANGED worker
      BY <1>3, <2>2, WorkerKept DEF Restart, IdleWorker
    <3>2. worker.id \in Ids /\ rows[worker.id].status # "none"
      BY <1>3, <3>1 DEF IInv, HeldRows
    <3>3. rows'[worker.id].yt = rows[worker.id].yt
      BY <3>2, TracksKept
    <3>4. QED
      BY <1>0, <1>3, <3>1, <3>3 DEF Playable
  <2>3. QED
    BY <2>1, <2>2
<1>4. /\ \A c \in prog'.pool \cup prog'.picks : c.cached => c.yt \in Acquired'
      /\ prog'.pc = "respun" => \A c \in prog'.picks : c.cached
  <2>1. ASSUME prog'.pool \cup prog'.picks \subseteq prog.pool \cup prog.picks,
               prog'.pc # "respun" \/ UNCHANGED prog
        PROVE  <1>4
    BY <1>0, <2>1 DEF Playable
  <2>2. CASE prog' = IdleProgrammer
    BY <2>2 DEF IdleProgrammer
  <2>3. ASSUME NEW t \in Tracks, ProgrammerResolve(t),
               prog'.pc = "resolve", prog'.picks = prog.picks,
               prog'.pool = prog.pool \cup {[yt |-> t, cached |-> t \in library]}
        PROVE  <1>4
    <3>1. PICK d : d = [yt |-> t, cached |-> t \in library]
      OBVIOUS
    <3>2. d.cached => d.yt \in Acquired'
      BY <1>0, <3>1 DEF Acquired
    <3>3. \A c \in prog.pool \cup prog.picks : c.cached => c.yt \in Acquired'
      BY <1>0 DEF Playable
    <3>4. prog'.pool = prog.pool \cup {d}
      BY <2>3, <3>1
    <3>5. QED
      BY <2>3, <3>2, <3>3, <3>4
  <2>4. ASSUME NEW t \in Tracks, RespinProbe(t),
               prog'.pool = prog.pool, prog'.picks = {[yt |-> t, cached |-> TRUE]}
        PROVE  <1>4
    <3>1. t \in Acquired'
      BY <1>0, <2>4 DEF RespinProbe, Acquired
    <3>2. QED
      BY <1>0, <2>4, <3>1 DEF Playable
  <2>5. CASE ProgrammerRunOnce
    BY <1>0, <2>1, <2>2, <2>3, <2>4, <2>5, ProgrammerHolds
  <2>6. CASE ~ProgrammerRunOnce
    BY <2>1, <2>2, <2>6, PicksKept
  <2>7. QED
    BY <2>5, <2>6
<1>5. QED
  BY <1>1, <1>2, <1>3, <1>4 DEF Playable

-----------------------------------------------------------------------------
(* The operator's order. *)

NoRepeats(ids) == \A k, l \in DOMAIN ids : ids[k] = ids[l] => k = l

\* A committed list holds its positions, and every list, committed or on its way,
\* names rows that exist, each once.
OrderKept ==
    /\ \A k \in DOMAIN ordered :
          rows[ordered[k]].status # "none" /\ rows[ordered[k]].pos = k - 1
    /\ \A o \in Operators :
          /\ NoRepeats(reorder[o])
          /\ \A k \in DOMAIN reorder[o] : rows[reorder[o][k]].status # "none"

\* No write of a status or counter moves a row.
LEMMA WritesOfPosition ==
  ASSUME NEW q \in Table, NEW i \in Ids, NEW j \in Ids
  PROVE  /\ MarkAired(q, i)[j].pos = q[j].pos
         /\ MarkFailed(q, i)[j].pos = q[j].pos
         /\ MarkReady(q, i)[j].pos = q[j].pos
         /\ FailPending(q, i)[j].pos = q[j].pos
         /\ BumpAttempts(q, i)[j].pos = q[j].pos
  BY DEF SetStatus, MarkAired, MarkFailed, MarkReady, FailPending, BumpAttempts,
         Table, RowType, Row

\* A list without repeats numbers its rows in its order.
LEMMA ReorderPosition ==
  ASSUME NEW q \in Table, NEW ids \in Seq(Ids), NoRepeats(ids), NEW k \in DOMAIN ids
  PROVE  Reorder(q, ids)[ids[k]].pos = k - 1
<1> DEFINE p == IndexIn(ids, ids[k]) - 1
<1>1. IndexIn(ids, ids[k]) = k
  BY DEF IndexIn, NoRepeats
<1>2. ids[k] \in Ids
  OBVIOUS
<1>3. Reorder(q, ids)[ids[k]] = [q[ids[k]] EXCEPT !.pos = p]
  BY <1>2 DEF Reorder, Table
<1>4. p = k - 1
  BY <1>1
<1> HIDE DEF p
<1>5. QED
  BY <1>2, <1>3, <1>4 DEF Table, RowType, Row

\* A row that exists stays, and only a reorder moves it.
LEMMA RowsStay ==
  ASSUME IInv, [Next]_vars, NEW i \in Ids, rows[i].status # "none"
  PROVE  /\ rows'[i].status # "none"
         /\ (\A o \in Operators : ~ReorderCommit(o)) => rows'[i].pos = rows[i].pos
<1>0. rows \in Table
  BY DEF IInv, TypeOK, Table, RowType
<1>1. ASSUME NEW k \in Ids, NEW source, NEW w, NEW t, NEW s, Inserts(k, source, w, t, s)
      PROVE  rows'[i] = rows[i]
  BY <1>1 DEF Inserts
<1>2. ASSUME NEW h \in Handlers, RequestTrack(h)
      PROVE  rows'[i] = rows[i]
  <2>1. CASE CreateRequest(h)
    BY <1>1, <1>2, <2>1, CallEffect
  <2>2. CASE ~CreateRequest(h)
    BY <1>2, <2>2, CallEffect
  <2>3. QED
    BY <2>1, <2>2
<1>3. CASE ProgrammerRunOnce
  BY <1>1, <1>3, ProgrammerEffect DEF ProgrammerInserts
<1>4. CASE WorkerRunOnce
  <2>1. UNCHANGED rows \/ (worker.id \in Ids /\
          rows' \in {BumpAttempts(rows, worker.id), MarkFailed(rows, worker.id),
                     MarkReady(rows, worker.id)})
    BY <1>4 DEF WorkerRunOnce, WorkerPoll, WorkerLibrary, WorkerDownload, WorkerBump,
       WorkerFail, WorkerReady, IInv, HeldRows
  <2>2. QED
    BY <1>0, <2>1, WritesOfStatus, WritesOfPosition
<1>5. CASE Feed
  <2>1. UNCHANGED rows \/ (air.id \in Ids /\
          rows' \in {MarkFailed(rows, air.id), MarkAired(rows, air.id)})
    BY <1>5 DEF Feed, FeedChooses, FeedFails, FeedGivesUp, FeedAnnounces, IInv, HeldRows
  <2>2. QED
    BY <1>0, <2>1, WritesOfStatus, WritesOfPosition
<1>6. CASE Console
  <2>1. ASSUME NEW k \in Ids, RemoveRequest(k)
        PROVE  rows'[i].status # "none" /\ rows'[i].pos = rows[i].pos
    BY <1>0, <2>1, WritesOfStatus, WritesOfPosition DEF RemoveRequest
  <2>2. ASSUME NEW o \in Operators, ReorderCommit(o)
        PROVE  rows'[i].status # "none"
    BY <1>0, <2>2, ReorderStatus DEF ReorderCommit, IInv, TypeOK
  <2>3. QED
    BY <1>6, <2>1, <2>2 DEF Console, ReorderRead, DeleteTrack, DownloadTrack
<1>7. CASE DayRolls \/ Restart \/ UNCHANGED vars
  BY <1>7 DEF DayRolls, Restart, vars
<1>8. QED
  BY <1>2, <1>3, <1>4, <1>5, <1>6, <1>7 DEF Next

\* Only the operators' calls change the lists, and a restart forgets the ones on
\* their way.
LEMMA ListsKept ==
  ASSUME TypeOK, [Next]_vars
  PROVE  \/ UNCHANGED <<reorder, ordered>>
         \/ \E o \in Operators : ReorderRead(o) \/ ReorderCommit(o)
         \/ reorder' = [o \in Operators |-> <<>>] /\ UNCHANGED ordered
  BY DEF Next, vars, RequestTrack, CheckPending, CheckDaily, CheckDup, CheckLibrary,
     CreateRequest, RejectCall, WorkerRunOnce, WorkerPoll, WorkerLibrary, WorkerDownload,
     WorkerBump, WorkerFail, WorkerReady, ProgrammerRunOnce, ProgrammerWake,
     ProgrammerResolve, RespinProbe, ProgrammerChoose, ProgrammerGivesUp,
     ProgrammerEnqueue, RespinCreate, ProgrammerDone, RespinGivesUp, Console,
     RemoveRequest, DeleteTrack, DownloadTrack, Feed, FeedChooses, FeedFails, FeedGivesUp,
     FeedAnnounces, DayRolls, Restart

LEMMA OrderStep ==
  ASSUME IInv, IInv', [Next]_vars, OrderKept
  PROVE  OrderKept'
<1>0. /\ rows \in Table /\ TypeOK /\ ordered \in Seq(Ids)
      /\ \A o \in Operators : reorder[o] \in Seq(Ids)
  BY DEF IInv, TypeOK, Table, RowType
<1>1. CASE \A o \in Operators : ~ReorderCommit(o)
  <2>1. \A k \in DOMAIN ordered :
          /\ ordered[k] \in Ids
          /\ rows'[ordered[k]].status # "none" /\ rows'[ordered[k]].pos = k - 1
    BY <1>0, <1>1, RowsStay DEF OrderKept
  <2>2. \A o \in Operators : \A k \in DOMAIN reorder[o] :
          reorder[o][k] \in Ids /\ rows'[reorder[o][k]].status # "none"
    BY <1>0, RowsStay DEF OrderKept
  <2>3. CASE UNCHANGED <<reorder, ordered>>
    BY <2>1, <2>2, <2>3 DEF OrderKept
  <2>4. CASE reorder' = [o \in Operators |-> <<>>] /\ UNCHANGED ordered
    BY <2>1, <2>4 DEF OrderKept, NoRepeats
  <2>5. ASSUME NEW o \in Operators, ReorderRead(o)
        PROVE  OrderKept'
    <3>1. PICK ids \in Orderings(Pending(rows)) :
            reorder' = [reorder EXCEPT ![o] = ids] /\ UNCHANGED <<rows, ordered>>
      BY <2>5 DEF ReorderRead
    <3>2. NoRepeats(ids) /\ \A k \in DOMAIN ids : rows[ids[k]].status # "none"
      BY DEF Orderings, NoRepeats, Pending, PendingStatus
    <3>3. \A b \in Operators : reorder'[b] = IF b = o THEN ids ELSE reorder[b]
      BY <1>0, <3>1 DEF TypeOK
    <3>4. QED
      BY <3>1, <3>2, <3>3 DEF OrderKept
  <2>6. QED
    BY <1>0, <1>1, <2>3, <2>4, <2>5, ListsKept
<1>2. ASSUME NEW o \in Operators, ReorderCommit(o)
      PROVE  OrderKept'
  <2>1. /\ rows' = Reorder(rows, reorder[o]) /\ ordered' = reorder[o]
        /\ reorder' = [reorder EXCEPT ![o] = <<>>]
    BY <1>2 DEF ReorderCommit
  <2>2. \A b \in Operators : \A k \in DOMAIN reorder[b] :
          /\ reorder[b][k] \in Ids
          /\ rows'[reorder[b][k]].status # "none"
    BY <1>0, RowsStay DEF OrderKept
  <2>3. \A k \in DOMAIN reorder[o] : rows'[reorder[o][k]].pos = k - 1
    BY <1>0, <2>1, ReorderPosition DEF OrderKept
  <2>4. \A b \in Operators : reorder'[b] = IF b = o THEN <<>> ELSE reorder[b]
    BY <1>0, <2>1 DEF TypeOK
  <2>5. QED
    BY <2>1, <2>2, <2>3, <2>4 DEF OrderKept, NoRepeats
<1>3. QED
  BY <1>1, <1>2

\* Rows at increasing positions air in that order.
LEMMA OrderAirs ==
  ASSUME TypeOK, OrderKept
  PROVE  OperatorOrderHolds
<1>1. SUFFICES ASSUME NEW k \in DOMAIN ordered, NEW l \in DOMAIN ordered, k < l
               PROVE  AirsBefore(rows, ordered[k], ordered[l])
  BY DEF OperatorOrderHolds
<1>2. /\ k \in Nat \ {0} /\ l \in Nat \ {0}
      /\ rows[ordered[k]].pos = k - 1 /\ rows[ordered[l]].pos = l - 1
  BY DEF TypeOK, OrderKept
<1>3. QED
  BY <1>1, <1>2 DEF AirsBefore, NoPosition

-----------------------------------------------------------------------------
(* The theorems. *)

\* server.go:386-431: listeners and calls, whatever their number and order, exceed
\* the pending quota by the calls in flight at most.
THEOREM PendingQuota == Spec => []PendingQuotaBound
<1>1. Init => PendingQuotaBound
  <2>1. SUFFICES ASSUME Init, NEW u \in Users
                 PROVE  Cardinality(PendingOfUser(rows, u)) + Cardinality(Admitted(u))
                           <= MaxPendingPerUser + Cardinality(Handlers) - 1
    BY DEF PendingQuotaBound, CountPendingByUser
  <2>2. PendingOfUser(rows, u) = {} /\ Admitted(u) = {}
    BY <2>1, InitType
       DEF Init, PendingOfUser, Admitted, EmptyRow, IdleCall, PendingStatus
  <2>3. QED
    BY <2>2, FS_EmptySet, QuotaAssumption, SomeCalls
<1>2. IInv /\ IInv' /\ [Next]_vars /\ PendingQuotaBound => PendingQuotaBound'
  BY QuotaStep
<1>3. QED
  BY <1>1, <1>2, Inductive, PTL DEF Spec

\* server.go:393-399: the same of the daily quota, over any midnight.
THEOREM DailyQuota == Spec => []DailyQuotaBound
<1>1. Init => DailyQuotaBound
  <2>1. SUFFICES ASSUME Init, NEW u \in Users
                 PROVE  Cardinality(CreatedToday(u)) + Cardinality(AdmittedToday(u))
                           <= MaxPerDay + Cardinality(Handlers) - 1
    BY DEF DailyQuotaBound
  <2>2. CreatedToday(u) = {} /\ AdmittedToday(u) = {}
    BY <2>1 DEF Init, CreatedToday, AdmittedToday, IdleCall
  <2>3. QED
    BY <2>2, FS_EmptySet, QuotaAssumption, SomeCalls
<1>2. IInv /\ IInv' /\ [Next]_vars /\ DailyQuotaBound => DailyQuotaBound'
  BY DailyStep
<1>3. QED
  BY <1>1, <1>2, Inductive, PTL DEF Spec

\* server.go:400-431, guards.go:168-174: a track is never queued more often than
\* there are writers, the calls and the programmer.
THEOREM Copies == Spec => []DuplicateBound
<1>1. Init => OnePick /\ DuplicateBound
  <2>1. Init => OnePick
    BY DEF Init, OnePick, IdleProgrammer
  <2>2. SUFFICES ASSUME Init, NEW t \in Tracks
                 PROVE  Cardinality(PendingOfTrack(rows, t)) + Cardinality(Unqueued(t))
                           + (IF Offered(t) THEN 1 ELSE 0) <= Cardinality(Handlers) + 1
    BY <2>1 DEF DuplicateBound
  <2>3. PendingOfTrack(rows, t) = {} /\ Unqueued(t) = {}
    BY <2>2 DEF Init, PendingOfTrack, Unqueued, EmptyRow, IdleCall, PendingStatus
  <2>4. QED
    BY <2>3, FS_EmptySet, SomeCalls
<1>2. IInv /\ IInv' /\ [Next]_vars /\ OnePick /\ DuplicateBound
        => OnePick' /\ DuplicateBound'
  BY DuplicateStep, OnePickStep DEF IInv
<1>3. QED
  BY <1>1, <1>2, Inductive, PTL DEF Spec

\* programmer.go:148-257: the programmer's own requests never pass the depth it
\* fills to, however old the depth it read.
THEOREM Depth == Spec => []AiDepthBound
<1>1. Init => PicksFit
  <2>1. SUFFICES ASSUME Init PROVE PicksFit
    OBVIOUS
  <2>2. AiPending = {}
    BY <2>1 DEF Init, AiPending, EmptyRow, PendingStatus
  <2>3. QED
    BY <2>1, <2>2, FS_EmptySet, PicksAssumption
       DEF Init, PicksFit, AiDepthBound, IdleProgrammer
<1>2. IInv /\ IInv' /\ [Next]_vars /\ PicksFit => PicksFit'
  BY PicksFitStep
<1>3. PicksFit => AiDepthBound
  BY DEF PicksFit
<1>4. QED
  BY <1>1, <1>2, <1>3, Inductive, PTL DEF Spec

\* worker.go:15-16, 76-90: every download of a request beyond MaxAttempts takes a
\* failed write or a restart of its own, and none is given up before that many
\* but for what its track is.
THEOREM Attempts == Spec => []AttemptsBound
<1>1. Init => AttemptLeft
  BY AttemptsAssumption
     DEF Init, AttemptLeft, AttemptsBound, EmptyRow, IdleWorker
<1>2. IInv /\ IInv' /\ [Next]_vars /\ AttemptLeft => AttemptLeft'
  BY AttemptStep
<1>3. AttemptLeft => AttemptsBound
  BY DEF AttemptLeft
<1>4. QED
  BY <1>1, <1>2, <1>3, Inductive, PTL DEF Spec

\* request.go:23: a ready request has its track in the library unless an operator
\* deleted it, whoever made it ready and however long ago they looked.
THEOREM ReadyPlays == Spec => []ReadyIsPlayable
<1>1. Init => Playable
  BY DEF Init, Playable, ReadyIsPlayable, EmptyRow, IdleCall, IdleWorker, IdleProgrammer
<1>2. IInv /\ IInv' /\ [Next]_vars /\ Playable => Playable'
  BY PlayableStep
<1>3. Playable => ReadyIsPlayable
  BY DEF Playable
<1>4. QED
  BY <1>1, <1>2, <1>3, Inductive, PTL DEF Spec

\* request.go:91-93: what an operator put in order airs in that order, whatever is
\* inserted, removed or reordered by an older transaction in between.
THEOREM OrderHolds == Spec => []OperatorOrderHolds
<1>1. Init => OrderKept
  BY DEF Init, OrderKept, NoRepeats
<1>2. IInv /\ IInv' /\ [Next]_vars /\ OrderKept => OrderKept'
  BY OrderStep
<1>3. IInv /\ OrderKept => OperatorOrderHolds
  BY OrderAirs DEF IInv
<1>4. QED
  BY <1>1, <1>2, <1>3, Inductive, PTL DEF Spec
=============================================================================
