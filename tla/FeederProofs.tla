---------------------------- MODULE FeederProofs ----------------------------
(***************************************************************************)
(* Theorems about Feeder for every library, every crash cap, any number of  *)
(* requests, readers and directories, and any number of failures and kills. *)
(* The inductive invariant says, for every point of the session, who holds  *)
(* the readers (Handovers) and the directories (Directories), what the item *)
(* of the session may be (Items), and how a seam was reached (Seams).       *)
(* Holding adds the status of the request in hand: with it every step of    *)
(* the broadcast is a step of RequestLifecycle, the specification the       *)
(* request queue with its abstract feed implements too (RequestQueueProofs).  *)
(***************************************************************************)
EXTENDS Feeder, FiniteSetTheorems, TLAPS

\* At most one reader is open on each side; the lookahead holds one only when it
\* is done, and none exists from the hand-over to the next item's start.
Handovers ==
    /\ ReadersOwned
    /\ pf.rd # NoReader => pf.st = "done"
    /\ f.pc \in {"poll", "boot", "setup", "commit", "open", "announce", "mark",
                 "nextup", "pin", "prefetch", "reclaim"} => pf.st = "none"
    /\ f.rd # NoReader =>
          \/ f.pc \in {"announce", "mark", "nextup", "pin", "prefetch", "music",
                       "close", "drain"}
          \/ f.pc = "commit" /\ f.plan.kind = "air"

\* Two directories exist only between a restart's publish and its sweep; what is
\* published is the session's, the new one's from the swap on, or nothing.
Directories ==
    /\ dirs = {f.dir, f.newDir} \ {NoDir}
    /\ f.newDir # NoDir <=> f.pc \in {"swap", "sweep"}
    /\ f.newDir = f.dir => f.dir = NoDir
    /\ f.pc \in {"poll", "boot", "setup"} => f.dir = NoDir
    /\ sessionDir = IF f.pc \in {"poll", "boot", "setup", "drain", "reclaim"} THEN NoDir
                    ELSE IF f.pc = "sweep" THEN f.newDir ELSE f.dir

\* The item names a track before it is opened, and its crashes pass the cap only
\* on the way to giving it up.
Items ==
    /\ f.resumed \/ f.pc \in {"open", "announce"} => f.yt \in Tracks
    /\ f.pc = "mark" => f.req # NoRequest
    /\ f.plan.kind = "air" => f.plan.yt \in Tracks
    /\ f.crashes > MaxRestarts =>
          f.pc \in {"restart", "swap", "sweep", "giveup", "close", "drain", "reclaim"}
    /\ f.pc \in {"poll", "boot", "seam"} => ~f.resumed
    /\ f.pc \in {"poll", "boot", "setup", "seam"} /\ ~f.resumed => f.yt = NoTrack

\* After a break no other is asked for until a track has been announced, whatever
\* fails on the way; an old skip is gone when a session begins.
Seams ==
    /\ skip = "old" => f.pc \in {"poll", "boot", "drain", "reclaim"}
    /\ heard = "clip" =>
          /\ ~f.resumed
          /\ \/ f.awaitMusic /\ f.pc \in {"seam", "take", "commit", "open", "announce"}
             \/ f.awaitMusic /\ f.yt = NoTrack
                  /\ f.pc \in {"clip", "restart", "swap", "sweep"}
             \/ f.pc \in {"poll", "boot", "close", "drain", "reclaim"}

IInv == TypeOK /\ Handovers /\ Directories /\ Items /\ Seams

Table == [Ids -> Row({}, Tracks, NoUser, NoTrack)]

-----------------------------------------------------------------------------
(* What the feed decides and writes, in types. *)

\* The statements on the request table keep its type.
LEMMA TableWrites ==
  ASSUME NEW q \in Table, NEW i \in Ids
  PROVE  /\ MarkReady(q, i) \in Table
         /\ MarkAired(q, i) \in Table
         /\ MarkFailed(q, i) \in Table
         /\ FailPending(q, i) \in Table
         /\ \A t \in Tracks, s \in PendingStatus :
               Create(q, i, "listener", NoUser, t, s) \in Table
<1>1. ASSUME NEW s \in Status PROVE SetStatus(q, i, s) \in Table
  BY DEF SetStatus, Table, Row
<1>2. {"ready", "aired", "failed"} \subseteq Status
  BY DEF Status, PendingStatus, TerminalStatus
<1>3. ASSUME NEW t \in Tracks, NEW s \in PendingStatus
      PROVE  Create(q, i, "listener", NoUser, t, s) \in Table
  BY DEF Create, Table, Row, Status, Source, PendingStatus, NoPosition
<1>4. QED
  BY <1>1, <1>2, <1>3 DEF MarkReady, MarkAired, MarkFailed, FailPending

\* The columns of a row have their types.
LEMMA Columns ==
  ASSUME TypeOK, NEW i \in Ids
  PROVE  rows[i].yt \in Tracks \cup {NoTrack}
  BY DEF TypeOK, Row

\* planNext returns a plan, and one to air names a track.
LEMMA PlansTyped ==
  ASSUME TypeOK, NEW p \in planNext
  PROVE  /\ p \in PlanType
         /\ p.kind = "air" => p.yt \in Tracks
<1>1. CASE \E empty \in BOOLEAN : p = StopPlan(empty)
  BY <1>1 DEF StopPlan, Plan, PlanType
<1>2. CASE \E i \in Ids \cup {NoRequest}, pin \in BOOLEAN : p = SkipPlan(pin, i)
  BY <1>2 DEF SkipPlan, Plan, PlanType
<1>3. CASE \E t \in Tracks, i \in Ids \cup {NoRequest}, pin \in BOOLEAN :
              p = AirPlan(t, i, pin)
  BY <1>3 DEF AirPlan, Plan, PlanType
<1>4. ASSUME p \in PinPlans
      PROVE  \/ p = AirPlan(nextUp.yt, nextUp.req, TRUE) /\ nextUp.yt \in Tracks
             \/ p = SkipPlan(TRUE, NoRequest)
  BY <1>4 DEF PinPlans, PinUsable, TypeOK
<1>5. ASSUME p \in QueuePlans
      PROVE  \E i \in Ids : \/ p = AirPlan(rows[i].yt, i, FALSE) /\ rows[i].yt \in Tracks
                            \/ p = SkipPlan(FALSE, i)
  BY <1>5 DEF QueuePlans, TypeOK
<1>6. ASSUME p \in ShufflePlans
      PROVE  \/ p = StopPlan(TRUE)
             \/ \E t \in Tracks : p = AirPlan(t, NoRequest, FALSE)
  BY <1>6 DEF ShufflePlans, ShufflePool, TypeOK
<1>7. nextUp.req \in Ids \cup {NoRequest}
  BY DEF TypeOK
<1>8. QED
  BY <1>1, <1>2, <1>3, <1>4, <1>5, <1>6, <1>7 DEF planNext

\* The recent airings remain a list of tracks.
LEMMA PrependType ==
  ASSUME TypeOK, NEW t \in Tracks
  PROVE  Prepend(t) \in Seq(Tracks)
<1>1. Cardinality(Tracks) \in Nat
  BY TrackAssumption, FS_CardinalityType
<1>2. RecentCap \in Nat \ {0}
  BY <1>1 DEF RecentCap
<1>3. log.recent \in Seq(Tracks)
  BY DEF TypeOK, LogType
<1>4. CASE Len(log.recent) < RecentCap
  BY <1>3, <1>4 DEF Prepend
<1>5. CASE ~(Len(log.recent) < RecentCap)
  <2>1. SubSeq(log.recent, 1, RecentCap - 1) \in Seq(Tracks)
    BY <1>2, <1>3, <1>5
  <2>2. QED
    BY <1>5, <2>1 DEF Prepend
<1>6. QED
  BY <1>4, <1>5

\* One more failure stays within the bound.
LEMMA FaultType ==
  ASSUME TypeOK, Fault
  PROVE  faults' \in 0..MaxFaults
  BY BoundAssumption DEF TypeOK, Fault

\* An idle feed and no lookahead have their types.
LEMMA IdleTypes == IdleFeed \in FeedType /\ NoLookahead \in LookaheadType
<1>1. StopPlan(FALSE) \in PlanType
  BY DEF StopPlan, Plan, PlanType
<1>2. NoLookahead \in LookaheadType
  BY DEF NoLookahead, LookaheadType
<1>3. 0 \in 0..(MaxRestarts + 1)
  BY BoundAssumption
<1>4. IdleFeed \in FeedType
  BY <1>1, <1>3 DEF IdleFeed, FeedType
<1>5. QED
  BY <1>2, <1>4

\* The next turn of the loop starts from an idle feed of the same session.
Turn(await) == [IdleFeed EXCEPT !.pc = "seam", !.awaitMusic = await, !.dir = f.dir]

LEMMA TurnType ==
  ASSUME f \in FeedType, NEW await \in BOOLEAN
  PROVE  Turn(await) \in FeedType
<1>1. f.dir \in DirIds \cup {NoDir}
  BY DEF FeedType
<1>2. QED
  BY <1>1, IdleTypes DEF Turn, FeedType

\* The feed's locals keep their types when a step changes some of them.
LEMMA FeedUpdates ==
  ASSUME f \in FeedType
  PROVE  /\ \A pc \in {"seam", "take", "commit", "open", "announce", "mark", "nextup",
                       "pin", "prefetch", "music", "clip", "giveup", "reopen", "close",
                       "setup", "boot", "drain"} :
               [f EXCEPT !.pc = pc] \in FeedType
         /\ \A r \in ReaderIds, pc \in {"prefetch", "announce", "music"} :
               [f EXCEPT !.rd = r, !.pc = pc] \in FeedType
         /\ \A t \in Tracks \cup {NoTrack} :
               [f EXCEPT !.pc = "pin", !.pick = t] \in FeedType
         /\ \A d \in DirIds, pc \in {"open", "seam"} :
               [f EXCEPT !.pc = pc, !.dir = d] \in FeedType
         /\ \A d \in DirIds : [f EXCEPT !.pc = "swap", !.newDir = d] \in FeedType
         /\ \A p \in PlanType : [f EXCEPT !.pc = "commit", !.plan = p] \in FeedType
         /\ \A p \in PlanType, r \in ReaderIds \cup {NoReader} :
               [f EXCEPT !.pc = "commit", !.plan = p, !.rd = r] \in FeedType
         /\ [f EXCEPT !.pc = "clip", !.awaitMusic = TRUE] \in FeedType
         /\ \A pc \in {"mark", "nextup"} :
               [f EXCEPT !.pc = pc, !.logged = TRUE] \in FeedType
<1>1. \A pc \in {"seam", "take", "commit", "open", "announce", "mark", "nextup",
                 "pin", "prefetch", "music", "clip", "giveup", "reopen", "close",
                 "setup", "boot", "drain"} :
         [f EXCEPT !.pc = pc] \in FeedType
  BY DEF FeedType
<1>2. \A r \in ReaderIds, pc \in {"prefetch", "announce", "music"} :
         [f EXCEPT !.rd = r, !.pc = pc] \in FeedType
  BY DEF FeedType
<1>3. \A t \in Tracks \cup {NoTrack} : [f EXCEPT !.pc = "pin", !.pick = t] \in FeedType
  BY DEF FeedType
<1>4. \A d \in DirIds, pc \in {"open", "seam"} :
         [f EXCEPT !.pc = pc, !.dir = d] \in FeedType
  BY DEF FeedType
<1>5. \A d \in DirIds : [f EXCEPT !.pc = "swap", !.newDir = d] \in FeedType
  BY DEF FeedType
<1>6. \A p \in PlanType : [f EXCEPT !.pc = "commit", !.plan = p] \in FeedType
  BY DEF FeedType
<1>7. \A p \in PlanType, r \in ReaderIds \cup {NoReader} :
         [f EXCEPT !.pc = "commit", !.plan = p, !.rd = r] \in FeedType
  BY DEF FeedType
<1>8. [f EXCEPT !.pc = "clip", !.awaitMusic = TRUE] \in FeedType
  BY DEF FeedType
<1>9. \A pc \in {"mark", "nextup"} : [f EXCEPT !.pc = pc, !.logged = TRUE] \in FeedType
  BY DEF FeedType
<1>10. QED
  BY <1>1, <1>2, <1>3, <1>4, <1>5, <1>6, <1>7, <1>8, <1>9

\* The steps from the poll to the commit of a plan.
LEMMA SeamTypes ==
  ASSUME TypeOK, Items,
         \/ EngineStarts \/ SessionBoot \/ SessionSetup \/ TakeClip \/ NoClip
         \/ TakePrefetch \/ PlanFails \/ Commit \/ CommitFails
  PROVE  TypeOK'
<1>1. f \in FeedType /\ pf \in LookaheadType
  BY DEF TypeOK
<1>2. CASE EngineStarts \/ NoClip \/ CommitFails
  <2>1. f' \in FeedType
    BY <1>1, <1>2, FeedUpdates DEF EngineStarts, NoClip, CommitFails, Go
  <2>2. QED
    BY <1>2, <2>1, FaultType
       DEF EngineStarts, NoClip, CommitFails, TypeOK, station, disk
<1>3. CASE SessionBoot
  <2>1. log \in LogType
    BY DEF TypeOK
  <2>2. log' \in LogType
    BY <1>3, <2>1 DEF SessionBoot, LogType
  <2>3. f' \in FeedType
    <3>1. \/ Go("setup")
          \/ /\ log.recent[1] \in library
             /\ f' = [f EXCEPT !.pc = "setup", !.yt = log.recent[1],
                               !.logged = TRUE, !.resumed = TRUE]
      BY <1>3 DEF SessionBoot
    <3>2. library \subseteq Tracks
      BY DEF TypeOK
    <3>3. \A t \in Tracks :
             [f EXCEPT !.pc = "setup", !.yt = t, !.logged = TRUE, !.resumed = TRUE]
                \in FeedType
      BY <1>1 DEF FeedType
    <3>4. Go("setup") => f' \in FeedType
      BY <1>1, FeedUpdates DEF Go
    <3>5. QED
      BY <3>1, <3>2, <3>3, <3>4
  <2>4. faults' \in 0..MaxFaults
    BY <1>3, FaultType DEF SessionBoot, TypeOK
  <2>5. skip' \in {"no", "yes", "old"} /\ heard' \in {"nothing", "music", "clip"}
    BY <1>3 DEF SessionBoot
  <2>6. UNCHANGED <<onAir, library, promise, rows, nextUp, pf, readers, set, dirs,
                    sessionDir, served>>
    BY <1>3 DEF SessionBoot, station, disk
  <2>7. QED
    BY <2>2, <2>3, <2>4, <2>5, <2>6 DEF TypeOK
<1>4. CASE SessionSetup
  <2>1. /\ f' \in FeedType
        /\ dirs' \subseteq DirIds
        /\ sessionDir' \in DirIds \cup {NoDir}
    <3>1. CASE f' = IdleFeed /\ UNCHANGED disk
      BY <3>1, IdleTypes DEF disk, TypeOK
    <3>2. CASE \E d \in DirIds :
                  /\ dirs' = dirs \cup {d} /\ sessionDir' = d
                  /\ f' = [f EXCEPT !.pc = IF f.resumed THEN "open" ELSE "seam",
                                    !.dir = d]
      <4>1. PICK d \in DirIds :
              /\ dirs' = dirs \cup {d} /\ sessionDir' = d
              /\ f' = [f EXCEPT !.pc = IF f.resumed THEN "open" ELSE "seam", !.dir = d]
        BY <3>2
      <4>2. PICK pc \in {"open", "seam"} : f' = [f EXCEPT !.pc = pc, !.dir = d]
        BY <4>1
      <4>3. f' \in FeedType
        BY <1>1, <4>2, FeedUpdates
      <4>4. QED
        BY <4>1, <4>3 DEF TypeOK
    <3>3. QED
      BY <1>4, <3>1, <3>2 DEF SessionSetup
  <2>2. QED
    BY <1>4, <2>1, FaultType DEF SessionSetup, TypeOK, station, disk
<1>5. CASE TakeClip
  <2>1. f' = Turn(TRUE) \/ f' = [f EXCEPT !.pc = "clip", !.awaitMusic = TRUE]
    BY <1>5 DEF TakeClip, NextTurn, Turn
  <2>2. f' \in FeedType
    BY <1>1, <2>1, TurnType, FeedUpdates
  <2>3. QED
    BY <1>5, <2>2, FaultType DEF TakeClip, TypeOK, station, disk
<1>6. CASE TakePrefetch
  <2>1. PICK p \in planNext :
          IF KeepsReader(p)
          THEN /\ f' = [f EXCEPT !.pc = "commit", !.plan = p, !.rd = pf.rd]
               /\ set' = set \cup ({pf.rd} \ {NoReader})
               /\ UNCHANGED readers
          ELSE /\ f' = [f EXCEPT !.pc = "commit", !.plan = p]
               /\ readers' = readers \ {pf.rd}
               /\ UNCHANGED set
    BY <1>6 DEF TakePrefetch
  <2>2. p \in PlanType
    BY PlansTyped
  <2>3. pf.rd \in ReaderIds \cup {NoReader}
    BY <1>1 DEF LookaheadType
  <2>4. f' \in FeedType
    <3>1. \/ f' = [f EXCEPT !.pc = "commit", !.plan = p]
          \/ f' = [f EXCEPT !.pc = "commit", !.plan = p, !.rd = pf.rd]
      BY <2>1
    <3>2. [f EXCEPT !.pc = "commit", !.plan = p] \in FeedType
      BY <1>1, <2>2, FeedUpdates
    <3>3. [f EXCEPT !.pc = "commit", !.plan = p, !.rd = pf.rd] \in FeedType
      BY <1>1, <2>2, <2>3, FeedUpdates
    <3>4. QED
      BY <3>1, <3>2, <3>3
  <2>5. readers' \subseteq ReaderIds /\ set' \subseteq ReaderIds
    BY <2>1, <2>3 DEF TypeOK
  <2>6. pf' \in LookaheadType
    BY <1>6, IdleTypes DEF TakePrefetch
  <2>7. UNCHANGED <<onAir, library, promise, rows, nextUp, log, skip, dirs,
                    sessionDir, heard, served, faults>>
    BY <1>6 DEF TakePrefetch, station, disk
  <2>8. QED
    BY <2>4, <2>5, <2>6, <2>7 DEF TypeOK
<1>7. CASE PlanFails
  <2>1. f' \in FeedType
    BY <1>1, <1>7, FeedUpdates DEF PlanFails, Go
  <2>2. pf' \in LookaheadType
    BY <1>7, IdleTypes DEF PlanFails
  <2>3. nextUp' \in [yt : Tracks \cup {NoTrack}, req : Ids \cup {NoRequest}]
    BY <1>7 DEF PlanFails, NoPin, TypeOK
  <2>4. QED
    BY <1>7, <2>1, <2>2, <2>3, FaultType DEF PlanFails, TypeOK, station, disk
<1>8. CASE Commit
  <2>1. f.plan \in PlanType
    BY <1>1 DEF FeedType
  <2>2. f' \in FeedType
    <3>1. \/ f' = [f EXCEPT !.pc = "close"]
          \/ f' = Turn(f.awaitMusic)
          \/ \E pc \in {"open", "announce"} :
                f' = [f EXCEPT !.pc = pc, !.yt = f.plan.yt, !.req = f.plan.req,
                               !.plan = StopPlan(FALSE)]
      BY <1>8, <2>1 DEF Commit, Go, NextTurn, Turn, PlanType
    <3>2. f.awaitMusic \in BOOLEAN
      BY <1>1 DEF FeedType
    <3>3. StopPlan(FALSE) \in PlanType
      BY DEF StopPlan, Plan, PlanType
    <3>4. f.plan.yt \in Tracks \cup {NoTrack} /\ f.plan.req \in Ids \cup {NoRequest}
      BY <2>1 DEF PlanType
    <3>5. \A pc \in {"open", "announce"} :
             [f EXCEPT !.pc = pc, !.yt = f.plan.yt, !.req = f.plan.req,
                       !.plan = StopPlan(FALSE)] \in FeedType
      BY <1>1, <3>3, <3>4 DEF FeedType
    <3>6. QED
      BY <1>1, <3>1, <3>2, <3>5, FeedUpdates, TurnType
  <2>3. rows' \in Table
    BY <1>8, <2>1, TableWrites DEF Commit, TypeOK, Table, PlanType
  <2>4. nextUp' \in [yt : Tracks \cup {NoTrack}, req : Ids \cup {NoRequest}]
    BY <1>8 DEF Commit, NoPin, TypeOK
  <2>5. onAir' \in BOOLEAN
    BY <1>8 DEF Commit
  <2>6. UNCHANGED <<library, promise, log, pf, skip, readers, set, dirs, sessionDir,
                    heard, served, faults>>
    BY <1>8 DEF Commit, disk
  <2>7. QED
    BY <2>2, <2>3, <2>4, <2>5, <2>6 DEF TypeOK, Table
<1>9. QED
  BY <1>2, <1>3, <1>4, <1>5, <1>6, <1>7, <1>8

\* The steps of an item before it airs.
LEMMA ItemTypes ==
  ASSUME TypeOK, Items,
         \/ Open \/ OpenSkips \/ OpenFails \/ Announce \/ MarkItemAired
         \/ CommitNextUpRead \/ CommitNextUpWrite \/ StartPrefetch
  PROVE  TypeOK'
<1>1. f \in FeedType /\ pf \in LookaheadType
  BY DEF TypeOK
<1>2. /\ f.req \in Ids \cup {NoRequest} /\ f.yt \in Tracks \cup {NoTrack}
      /\ f.pick \in Tracks \cup {NoTrack} /\ f.awaitMusic \in BOOLEAN
  BY <1>1 DEF FeedType
<1>3. \A i \in Ids : MarkAired(rows, i) \in Table /\ MarkFailed(rows, i) \in Table
  BY TableWrites DEF TypeOK, Table
<1>4. CASE Open
  <2>1. PICK r \in ReaderIds :
          /\ readers' = readers \cup {r}
          /\ set' = set \cup {r}
          /\ f' = [f EXCEPT !.rd = r, !.pc = IF f.resumed THEN "prefetch" ELSE "announce"]
    BY <1>4 DEF Open
  <2>2. PICK pc \in {"prefetch", "announce"} : f' = [f EXCEPT !.rd = r, !.pc = pc]
    BY <2>1
  <2>3. f' \in FeedType
    BY <1>1, <2>2, FeedUpdates
  <2>4. QED
    BY <1>4, <2>1, <2>3 DEF Open, TypeOK, station, disk
<1>5. CASE OpenSkips
  <2>1. f' \in FeedType
    BY <1>1, <1>2, <1>5, TurnType DEF OpenSkips, NextTurn, Turn
  <2>2. rows' \in Table
    BY <1>2, <1>3, <1>5 DEF OpenSkips, TypeOK, Table
  <2>3. faults' \in 0..MaxFaults
    BY <1>5, FaultType DEF OpenSkips, TypeOK
  <2>4. UNCHANGED <<onAir, library, promise, nextUp, log, pf, skip, readers, set, dirs,
                    sessionDir, heard, served>>
    BY <1>5 DEF OpenSkips, station, disk
  <2>5. QED
    BY <2>1, <2>2, <2>3, <2>4 DEF TypeOK, Table
<1>6. CASE OpenFails
  <2>1. f' \in FeedType
    BY <1>1, <1>6, FeedUpdates DEF OpenFails, Go
  <2>2. QED
    BY <1>6, <2>1, FaultType DEF OpenFails, TypeOK, station, disk
<1>7. CASE Announce
  <2>1. f.yt \in Tracks
    BY <1>7 DEF Announce, Items
  <2>2. PICK pc \in {"mark", "nextup"} :
          \/ /\ f' = [f EXCEPT !.pc = pc, !.logged = TRUE]
             /\ log' = [recent |-> Prepend(f.yt), elapsed |-> FALSE, reports |-> 0]
             /\ served' = IF f.req = NoRequest THEN served
                          ELSE [served EXCEPT ![f.req] = @ + 1]
             /\ UNCHANGED faults
          \/ Fault /\ Go(pc) /\ UNCHANGED <<log, served>>
    BY <1>7 DEF Announce
  <2>3. f' \in FeedType
    <3>1. f' = [f EXCEPT !.pc = pc, !.logged = TRUE] \/ f' = [f EXCEPT !.pc = pc]
      BY <2>2 DEF Go
    <3>2. QED
      BY <1>1, <3>1, FeedUpdates
  <2>4. log' \in LogType
    <3>1. [recent |-> Prepend(f.yt), elapsed |-> FALSE, reports |-> 0] \in LogType
      BY <2>1, PrependType DEF LogType
    <3>2. log \in LogType
      BY DEF TypeOK
    <3>3. QED
      BY <2>2, <3>1, <3>2
  <2>5. served' \in [Ids -> Nat]
    BY <1>2, <2>2 DEF TypeOK
  <2>6. faults' \in 0..MaxFaults
    BY <2>2, FaultType DEF TypeOK
  <2>7. UNCHANGED <<onAir, library, promise, rows, nextUp, pf, skip, readers, set,
                    dirs, sessionDir>> /\ heard' = "music"
    BY <1>7 DEF Announce, station, disk
  <2>8. QED
    BY <2>3, <2>4, <2>5, <2>6, <2>7 DEF TypeOK
<1>8. CASE MarkItemAired
  <2>1. f' \in FeedType
    BY <1>1, <1>8, FeedUpdates DEF MarkItemAired, Go
  <2>2. rows' \in Table
    <3>1. f.req \in Ids
      BY <1>2, <1>8 DEF MarkItemAired, Items
    <3>2. QED
      BY <1>3, <1>8, <3>1 DEF MarkItemAired, TypeOK, Table
  <2>3. faults' \in 0..MaxFaults
    BY <1>8, FaultType DEF MarkItemAired, TypeOK
  <2>4. UNCHANGED <<onAir, library, promise, nextUp, log, pf, skip, readers, set, dirs,
                    sessionDir, heard, served>>
    BY <1>8 DEF MarkItemAired, station, disk
  <2>5. QED
    BY <2>1, <2>2, <2>3, <2>4 DEF TypeOK, Table
<1>9. CASE CommitNextUpRead
  <2>1. ShufflePool \subseteq Tracks
    BY DEF ShufflePool, TypeOK
  <2>2. \/ \E t \in Tracks \cup {NoTrack} : f' = [f EXCEPT !.pc = "pin", !.pick = t]
        \/ f' = [f EXCEPT !.pc = "prefetch"]
    BY <1>9, <2>1 DEF CommitNextUpRead, Go
  <2>3. f' \in FeedType
    BY <1>1, <2>2, FeedUpdates
  <2>4. QED
    BY <1>9, <2>3, FaultType DEF CommitNextUpRead, TypeOK, station, disk
<1>10. CASE CommitNextUpWrite
  <2>1. f' \in FeedType
    BY <1>1, <1>10 DEF CommitNextUpWrite, FeedType
  <2>2. nextUp' \in [yt : Tracks \cup {NoTrack}, req : Ids \cup {NoRequest}]
    BY <1>2, <1>10 DEF CommitNextUpWrite, Pin, TypeOK
  <2>3. QED
    BY <1>10, <2>1, <2>2, FaultType DEF CommitNextUpWrite, TypeOK, station, disk
<1>11. CASE StartPrefetch
  <2>1. f' \in FeedType
    BY <1>1, <1>11, FeedUpdates DEF StartPrefetch, Go
  <2>2. pf' \in LookaheadType
    BY <1>11, IdleTypes DEF StartPrefetch, LookaheadType
  <2>3. QED
    BY <1>11, <2>1, <2>2 DEF StartPrefetch, TypeOK, station, disk
<1>12. QED
  BY <1>4, <1>5, <1>6, <1>7, <1>8, <1>9, <1>10, <1>11

\* The ends of an item keep the types of what they change.
LEMMA EndTypes ==
  ASSUME TypeOK
  PROVE  /\ CloseItem => readers' \subseteq ReaderIds /\ set' \subseteq ReaderIds
         /\ \A ended \in BOOLEAN :
               TrackFinished(ended) => log' \in LogType /\ f' \in FeedType
<1>1. CloseItem => readers' \subseteq ReaderIds /\ set' \subseteq ReaderIds
  BY DEF CloseItem, TypeOK
<1>2. ASSUME NEW ended \in BOOLEAN, TrackFinished(ended)
      PROVE  log' \in LogType /\ f' \in FeedType
  <2>1. log \in LogType /\ f \in FeedType
    BY DEF TypeOK
  <2>2. [log EXCEPT !.reports = IF @ < 2 THEN @ + 1 ELSE @, !.elapsed = @ \/ ended]
           \in LogType
    <3> DEFINE n == IF log.reports < 2 THEN log.reports + 1 ELSE log.reports
               e == log.elapsed \/ ended
    <3>1. n \in 0..2 /\ e \in BOOLEAN
      BY <2>1 DEF LogType
    <3> HIDE DEF n, e
    <3>2. [log EXCEPT !.reports = n, !.elapsed = e] \in LogType
      BY <2>1, <3>1 DEF LogType
    <3>3. QED
      BY <3>2 DEF n, e
  <2>3. log' \in LogType
    BY <1>2, <2>1, <2>2 DEF TrackFinished
  <2>4. f' = Turn(FALSE)
    BY <1>2 DEF TrackFinished, NextTurn, Turn
  <2>5. QED
    BY <2>1, <2>3, <2>4, TurnType
<1>3. QED
  BY <1>1, <1>2

\* The steps of an item on air, of a restart, and of the end of a session.
LEMMA AirTypes ==
  ASSUME TypeOK, Items,
         \/ AirStops \/ AirSkipped \/ AirEnds \/ AirFails \/ AirCrashes
  PROVE  TypeOK'
<1>1. f \in FeedType /\ pf \in LookaheadType /\ log \in LogType
  BY DEF TypeOK
<1>2. CloseItem => readers' \subseteq ReaderIds /\ set' \subseteq ReaderIds
  BY EndTypes
<1>3. CASE AirStops \/ AirFails
  <2>1. f' \in FeedType
    <3>1. f' = [f EXCEPT !.pc = "close", !.rd = NoReader]
      BY <1>3 DEF AirStops, AirFails
    <3>2. QED
      BY <1>1, <3>1 DEF FeedType
  <2>2. readers' \subseteq ReaderIds /\ set' \subseteq ReaderIds
    BY <1>2, <1>3 DEF AirStops, AirFails
  <2>3. faults' \in 0..MaxFaults
    BY <1>3, FaultType DEF AirStops, AirFails, TypeOK
  <2>4. UNCHANGED <<onAir, library, promise, rows, nextUp, log, pf, skip, dirs,
                    sessionDir, heard, served>>
    BY <1>3 DEF AirStops, AirFails, station, disk
  <2>5. QED
    BY <2>1, <2>2, <2>3, <2>4 DEF TypeOK
<1>4. CASE AirSkipped \/ AirEnds
  <2>1. PICK ended \in BOOLEAN : ItemEnds(ended)
    BY <1>4 DEF AirSkipped, AirEnds
  <2>2. readers' \subseteq ReaderIds /\ set' \subseteq ReaderIds
    BY <1>2, <2>1 DEF ItemEnds
  <2>3. f' \in FeedType /\ log' \in LogType
    <3>1. TrackFinished(ended) \/ (f' = Turn(TRUE) /\ log' = log)
      BY <2>1 DEF ItemEnds, NextTurn, Turn
    <3>2. QED
      BY <1>1, <3>1, EndTypes, TurnType
  <2>4. skip' \in {"no", "yes", "old"}
    BY <1>4 DEF AirSkipped, AirEnds, TypeOK
  <2>5. faults' \in 0..MaxFaults
    BY <1>4, FaultType DEF AirSkipped, AirEnds, StaysOn, TypeOK
  <2>6. UNCHANGED <<onAir, library, promise, rows, nextUp, pf, dirs, sessionDir, heard,
                    served>>
    BY <1>4 DEF AirSkipped, AirEnds, station, disk
  <2>7. QED
    BY <2>2, <2>3, <2>4, <2>5, <2>6 DEF TypeOK
<1>5. CASE AirCrashes
  <2>1. PICK n \in {f.crashes, f.crashes + 1} :
          f' = [f EXCEPT !.pc = "restart", !.rd = NoReader, !.crashes = n]
    BY <1>5 DEF AirCrashes
  <2>2. n \in 0..(MaxRestarts + 1)
    <3>1. f.crashes \in 0..(MaxRestarts + 1)
      BY <1>1 DEF FeedType
    <3>2. f.crashes <= MaxRestarts
      BY <1>5, <3>1, BoundAssumption DEF AirCrashes, Airing, Items
    <3>3. QED
      BY <2>1, <3>1, <3>2, BoundAssumption
  <2>3. f' \in FeedType
    BY <1>1, <2>1, <2>2 DEF FeedType
  <2>4. readers' \subseteq ReaderIds /\ set' \subseteq ReaderIds
    BY <1>2, <1>5 DEF AirCrashes
  <2>5. faults' \in 0..MaxFaults
    BY <1>5, FaultType DEF AirCrashes
  <2>6. UNCHANGED <<onAir, library, promise, rows, nextUp, log, pf, skip, dirs,
                    sessionDir, heard, served>>
    BY <1>5 DEF AirCrashes, station, disk
  <2>7. QED
    BY <2>3, <2>4, <2>5, <2>6 DEF TypeOK
<1>6. QED
  BY <1>3, <1>4, <1>5

\* The steps of a restart and of the end of a session.
LEMMA RestartTypes ==
  ASSUME TypeOK, Items,
         \/ RestartMake \/ RestartSwap \/ RestartSweep \/ Reopen \/ GiveUp
         \/ CloseSession \/ DrainPrefetch \/ ReclaimDir
  PROVE  TypeOK'
<1>1. f \in FeedType /\ pf \in LookaheadType
  BY DEF TypeOK
<1>2. f.newDir \in DirIds \cup {NoDir}
  BY <1>1 DEF FeedType
<1>3. CASE RestartMake
  <2>1. f' \in FeedType
    <3>1. \/ f' = [f EXCEPT !.pc = "close"]
          \/ \E d \in DirIds : f' = [f EXCEPT !.pc = "swap", !.newDir = d]
      BY <1>3 DEF RestartMake, Go
    <3>2. QED
      BY <1>1, <3>1, FeedUpdates
  <2>2. dirs' \subseteq DirIds
    BY <1>3 DEF RestartMake, TypeOK
  <2>3. QED
    BY <1>3, <2>1, <2>2, FaultType DEF RestartMake, TypeOK, station
<1>4. CASE RestartSwap
  <2>1. f' \in FeedType
    BY <1>1, <1>4 DEF RestartSwap, Go, FeedType
  <2>2. sessionDir' \in DirIds \cup {NoDir}
    BY <1>2, <1>4 DEF RestartSwap
  <2>3. QED
    BY <1>4, <2>1, <2>2 DEF RestartSwap, TypeOK, station
<1>5. CASE RestartSweep
  <2>1. f' \in FeedType
    <3>1. \/ f' = [IdleFeed EXCEPT !.pc = "seam", !.awaitMusic = TRUE, !.dir = f.newDir]
          \/ \E pc \in {"giveup", "reopen"} :
                f' = [[f EXCEPT !.dir = f.newDir, !.newDir = NoDir] EXCEPT !.pc = pc]
      BY <1>5 DEF RestartSweep
    <3>2. [IdleFeed EXCEPT !.pc = "seam", !.awaitMusic = TRUE, !.dir = f.newDir]
             \in FeedType
      BY <1>2, IdleTypes DEF FeedType
    <3>3. [f EXCEPT !.dir = f.newDir, !.newDir = NoDir] \in FeedType
      BY <1>1, <1>2 DEF FeedType
    <3>4. \A pc \in {"giveup", "reopen"} :
             [[f EXCEPT !.dir = f.newDir, !.newDir = NoDir] EXCEPT !.pc = pc] \in FeedType
      BY <3>3 DEF FeedType
    <3>5. QED
      BY <3>1, <3>2, <3>4
  <2>2. QED
    BY <1>5, <2>1 DEF RestartSweep, TypeOK, station
<1>6. CASE Reopen
  <2>1. \/ f' = [f EXCEPT !.pc = "giveup"] /\ UNCHANGED <<readers, set>>
        \/ \E r \in ReaderIds :
              /\ f' = [f EXCEPT !.rd = r, !.pc = "music"]
              /\ readers' = readers \cup {r}
              /\ set' = set \cup {r}
    BY <1>6 DEF Reopen, Go
  <2>2. f' \in FeedType
    BY <1>1, <2>1, FeedUpdates
  <2>3. readers' \subseteq ReaderIds /\ set' \subseteq ReaderIds
    BY <2>1 DEF TypeOK
  <2>4. faults' \in 0..MaxFaults
    BY <1>6, FaultType DEF Reopen, TypeOK
  <2>5. UNCHANGED <<onAir, library, promise, rows, nextUp, log, pf, skip, dirs,
                    sessionDir, heard, served>>
    BY <1>6 DEF Reopen, station, disk
  <2>6. QED
    BY <2>2, <2>3, <2>4, <2>5 DEF TypeOK
<1>7. CASE GiveUp
  <2>1. f' \in FeedType /\ log' \in LogType
    BY <1>7, EndTypes DEF GiveUp
  <2>2. QED
    BY <1>7, <2>1 DEF GiveUp, TypeOK, station, disk
<1>8. CASE CloseSession
  <2>1. f' \in FeedType
    BY <1>1, <1>8, FeedUpdates DEF CloseSession, Go
  <2>2. QED
    BY <1>8, <2>1 DEF CloseSession, TypeOK, station
<1>9. CASE DrainPrefetch
  <2>1. f' \in FeedType
    BY <1>1, <1>9 DEF DrainPrefetch, FeedType
  <2>2. QED
    BY <1>9, <2>1, IdleTypes DEF DrainPrefetch, TypeOK, station, disk
<1>10. CASE ReclaimDir
  <2>1. f' \in FeedType
    BY <1>10, IdleTypes DEF ReclaimDir
  <2>2. QED
    BY <1>10, <2>1 DEF ReclaimDir, TypeOK, station
<1>11. QED
  BY <1>3, <1>4, <1>5, <1>6, <1>7, <1>8, <1>9, <1>10

\* The lookahead's steps.
LEMMA LookaheadTypes ==
  ASSUME TypeOK, Lookahead
  PROVE  TypeOK'
<1>1. f \in FeedType /\ pf \in LookaheadType
  BY DEF TypeOK
<1>2. CASE PrefetchPlan
  <2>1. \/ pf' = [NoLookahead EXCEPT !.st = "done"]
        \/ \E t \in Tracks : pf' = [NoLookahead EXCEPT !.st = "opening", !.yt = t]
    BY <1>2, PlansTyped DEF PrefetchPlan
  <2>2. pf' \in LookaheadType
    BY <2>1, IdleTypes DEF LookaheadType
  <2>3. QED
    BY <1>2, <2>2, FaultType DEF PrefetchPlan, TypeOK, station, disk
<1>3. CASE PrefetchOpen
  <2>1. \/ pf' = [NoLookahead EXCEPT !.st = "done"] /\ readers' = readers
        \/ \E r \in ReaderIds :
              pf' = [pf EXCEPT !.st = "done", !.rd = r] /\ readers' = readers \cup {r}
    BY <1>3 DEF PrefetchOpen
  <2>2. pf' \in LookaheadType
    BY <1>1, <2>1, IdleTypes DEF LookaheadType
  <2>3. readers' \subseteq ReaderIds
    BY <2>1 DEF TypeOK
  <2>4. faults' \in 0..MaxFaults
    BY <1>3, FaultType DEF PrefetchOpen, TypeOK
  <2>5. UNCHANGED <<onAir, library, promise, rows, nextUp, log, f, skip, set, dirs,
                    sessionDir, heard, served>>
    BY <1>3 DEF PrefetchOpen, station, disk
  <2>6. QED
    BY <2>2, <2>3, <2>4, <2>5 DEF TypeOK
<1>4. QED
  BY <1>2, <1>3 DEF Lookahead

\* Everyone else's steps, and a restart.
LEMMA OthersTypes ==
  ASSUME TypeOK, Others \/ Restart
  PROVE  TypeOK'
<1>1. CASE GoOnAir \/ GoOffAir
  BY <1>1 DEF GoOnAir, GoOffAir, TypeOK, process
<1>2. CASE SkipTrack
  BY <1>2 DEF SkipTrack, TypeOK, station, disk
<1>3. CASE \E i \in Ids, t \in Tracks, s \in PendingStatus : RequestArrives(i, t, s)
  <2>1. rows' \in Table
    BY <1>3, TableWrites DEF RequestArrives, TypeOK, Table
  <2>2. QED
    BY <1>3, <2>1 DEF RequestArrives, TypeOK, Table, process, station
<1>4. CASE \E i \in Ids : RequestAcquired(i) \/ RequestRemoved(i)
  <2>1. rows' \in Table
    BY <1>4, TableWrites DEF RequestAcquired, RequestRemoved, TypeOK, Table
  <2>2. QED
    BY <1>4, <2>1 DEF RequestAcquired, RequestRemoved, TypeOK, Table, process, station
<1>5. CASE \E i \in Ids : DirectorPeeks(i)
  BY <1>5 DEF DirectorPeeks, TypeOK, process
<1>6. CASE \E t \in Tracks : DeleteTrack(t) \/ AddTrack(t)
  BY <1>6 DEF DeleteTrack, AddTrack, TypeOK, process
<1>7. CASE DirectorPins
  <2>1. promise \in Ids
    BY <1>7 DEF DirectorPins, TypeOK
  <2>2. nextUp' \in [yt : Tracks \cup {NoTrack}, req : Ids \cup {NoRequest}]
    BY <1>7, <2>1, Columns DEF DirectorPins, Pin
  <2>3. QED
    BY <1>7, <2>2 DEF DirectorPins, TypeOK, process
<1>8. CASE DirectorGivesUp
  BY <1>8 DEF DirectorGivesUp, TypeOK, process
<1>9. CASE Restart
  <2>1. faults' \in 0..MaxFaults
    BY <1>9, FaultType DEF Restart
  <2>2. QED
    BY <1>9, <2>1, IdleTypes DEF Restart, TypeOK
<1>10. QED
  BY <1>1, <1>2, <1>3, <1>4, <1>5, <1>6, <1>7, <1>8, <1>9 DEF Others

\* Every step keeps the types.
LEMMA NextTypes ==
  ASSUME TypeOK, Items, [Next]_vars
  PROVE  TypeOK'
<1>1. CASE Feed
  BY <1>1, SeamTypes, ItemTypes, AirTypes, RestartTypes DEF Feed
<1>2. CASE UNCHANGED vars
  BY <1>2 DEF vars, TypeOK
<1>3. QED
  BY <1>1, <1>2, LookaheadTypes, OthersTypes DEF Next

-----------------------------------------------------------------------------
(* What the steps do to the feed's locals, field by field. *)

SameDirs == f'.dir = f.dir /\ f'.newDir = f.newDir
SameItem ==
    /\ f'.yt = f.yt /\ f'.req = f.req /\ f'.resumed = f.resumed
    /\ f'.crashes = f.crashes
SameSeam == f'.awaitMusic = f.awaitMusic
Same == SameDirs /\ SameItem /\ SameSeam /\ f'.plan = f.plan

\* A step that only moves on leaves everything else alone.
LEMMA GoFields ==
  ASSUME TypeOK, NEW pc, Go(pc)
  PROVE  f'.pc = pc /\ f'.rd = f.rd /\ Same
  BY DEF TypeOK, FeedType, Go, Same, SameDirs, SameItem, SameSeam

\* The next turn keeps the session's directory, and whether music is awaited.
LEMMA TurnFields ==
  ASSUME NEW await, NextTurn(await)
  PROVE  /\ f'.pc = "seam" /\ f'.yt = NoTrack /\ f'.req = NoRequest /\ ~f'.resumed
         /\ f'.crashes = 0 /\ f'.rd = NoReader /\ f'.plan.kind = "stop"
         /\ f'.awaitMusic = await /\ f'.dir = f.dir /\ f'.newDir = NoDir
  BY DEF NextTurn, IdleFeed, StopPlan, Plan

\* An idle feed holds nothing.
LEMMA IdleFields ==
  /\ IdleFeed.pc = "poll" /\ IdleFeed.yt = NoTrack /\ IdleFeed.req = NoRequest
  /\ ~IdleFeed.resumed /\ IdleFeed.crashes = 0 /\ IdleFeed.rd = NoReader
  /\ IdleFeed.plan.kind = "stop" /\ IdleFeed.dir = NoDir /\ IdleFeed.newDir = NoDir
  BY DEF IdleFeed, StopPlan, Plan

\* The start of a session and its seams.
LEMMA SeamFields ==
  ASSUME TypeOK
  PROVE  /\ SessionBoot =>
               /\ f'.pc = "setup" /\ f'.rd = f.rd /\ f'.plan = f.plan
               /\ f'.crashes = f.crashes /\ f'.req = f.req /\ SameDirs
               /\ \/ f'.resumed = TRUE /\ f'.yt \in Tracks
                  \/ f'.resumed = f.resumed /\ f'.yt = f.yt
         /\ SessionSetup =>
               \/ f' = IdleFeed /\ UNCHANGED disk
               \/ \E d \in DirIds \ dirs :
                     /\ dirs' = dirs \cup {d} /\ sessionDir' = d /\ f'.dir = d
                     /\ f'.pc = IF f.resumed THEN "open" ELSE "seam"
                     /\ f'.rd = f.rd /\ f'.plan = f.plan /\ f'.newDir = f.newDir
                     /\ SameItem /\ SameSeam
         /\ TakeClip =>
               \/ f'.pc = "clip" /\ f'.awaitMusic = TRUE /\ f'.rd = f.rd
                    /\ f'.plan = f.plan /\ SameDirs /\ SameItem
               \/ NextTurn(TRUE) /\ UNCHANGED heard
         /\ TakePrefetch =>
               /\ f'.pc = "commit" /\ SameDirs /\ SameItem /\ SameSeam
               /\ f'.plan \in planNext
               /\ IF KeepsReader(f'.plan)
                  THEN /\ f'.rd = pf.rd
                       /\ set' = set \cup ({pf.rd} \ {NoReader})
                       /\ UNCHANGED readers
                  ELSE f'.rd = f.rd /\ readers' = readers \ {pf.rd} /\ UNCHANGED set
         /\ Commit =>
               \/ Go("close") /\ f.plan.kind = "stop"
               \/ NextTurn(f.awaitMusic) /\ f.plan.kind = "skip"
               \/ /\ f.plan.kind = "air"
                  /\ f'.pc = IF f.rd = NoReader THEN "open" ELSE "announce"
                  /\ f'.yt = f.plan.yt /\ f'.plan.kind = "stop" /\ f'.rd = f.rd
                  /\ f'.resumed = f.resumed /\ f'.crashes = f.crashes
                  /\ SameDirs /\ SameSeam
<1>1. f \in FeedType /\ library \subseteq Tracks
  BY DEF TypeOK
<1>2. ASSUME SessionBoot
      PROVE  /\ f'.pc = "setup" /\ f'.rd = f.rd /\ f'.plan = f.plan
             /\ f'.crashes = f.crashes /\ f'.req = f.req /\ SameDirs
             /\ \/ f'.resumed = TRUE /\ f'.yt \in Tracks
                \/ f'.resumed = f.resumed /\ f'.yt = f.yt
  <2>1. \/ Go("setup")
        \/ /\ log.recent[1] \in library
           /\ f' = [f EXCEPT !.pc = "setup", !.yt = log.recent[1], !.logged = TRUE,
                             !.resumed = TRUE]
    BY <1>2 DEF SessionBoot
  <2>2. CASE Go("setup")
    BY <2>2, GoFields DEF Same, SameItem, SameDirs
  <2>3. CASE /\ log.recent[1] \in library
             /\ f' = [f EXCEPT !.pc = "setup", !.yt = log.recent[1], !.logged = TRUE,
                               !.resumed = TRUE]
    BY <1>1, <2>3 DEF FeedType, SameDirs
  <2>4. QED
    BY <2>1, <2>2, <2>3
<1>3. ASSUME SessionSetup
      PROVE  \/ f' = IdleFeed /\ UNCHANGED disk
             \/ \E d \in DirIds \ dirs :
                   /\ dirs' = dirs \cup {d} /\ sessionDir' = d /\ f'.dir = d
                   /\ f'.pc = IF f.resumed THEN "open" ELSE "seam"
                   /\ f'.rd = f.rd /\ f'.plan = f.plan /\ f'.newDir = f.newDir
                   /\ SameItem /\ SameSeam
  BY <1>1, <1>3 DEF SessionSetup, Fresh, FeedType, SameItem, SameSeam
<1>4. ASSUME TakeClip
      PROVE  \/ f'.pc = "clip" /\ f'.awaitMusic = TRUE /\ f'.rd = f.rd
                  /\ f'.plan = f.plan /\ SameDirs /\ SameItem
             \/ NextTurn(TRUE) /\ UNCHANGED heard
  BY <1>1, <1>4 DEF TakeClip, FeedType, SameItem, SameDirs
<1>5. ASSUME TakePrefetch
      PROVE  /\ f'.pc = "commit" /\ SameDirs /\ SameItem /\ SameSeam
             /\ f'.plan \in planNext
             /\ IF KeepsReader(f'.plan)
                THEN /\ f'.rd = pf.rd
                     /\ set' = set \cup ({pf.rd} \ {NoReader})
                     /\ UNCHANGED readers
                ELSE f'.rd = f.rd /\ readers' = readers \ {pf.rd} /\ UNCHANGED set
  <2>1. PICK p \in planNext :
          IF KeepsReader(p)
          THEN /\ f' = [f EXCEPT !.pc = "commit", !.plan = p, !.rd = pf.rd]
               /\ set' = set \cup ({pf.rd} \ {NoReader})
               /\ UNCHANGED readers
          ELSE /\ f' = [f EXCEPT !.pc = "commit", !.plan = p]
               /\ readers' = readers \ {pf.rd}
               /\ UNCHANGED set
    BY <1>5 DEF TakePrefetch
  <2>2. /\ f'.plan = p /\ f'.pc = "commit" /\ SameDirs /\ SameItem /\ SameSeam
        /\ f'.rd = IF KeepsReader(p) THEN pf.rd ELSE f.rd
    <3>1. CASE KeepsReader(p)
      <4>1. f' = [f EXCEPT !.pc = "commit", !.plan = p, !.rd = pf.rd]
        BY <2>1, <3>1
      <4>2. QED
        BY <1>1, <3>1, <4>1 DEF FeedType, SameDirs, SameItem, SameSeam
    <3>2. CASE ~KeepsReader(p)
      <4>1. f' = [f EXCEPT !.pc = "commit", !.plan = p]
        BY <2>1, <3>2
      <4>2. QED
        BY <1>1, <3>2, <4>1 DEF FeedType, SameDirs, SameItem, SameSeam
    <3>3. QED
      BY <3>1, <3>2
  <2>3. QED
    BY <2>1, <2>2
<1>6. ASSUME Commit
      PROVE  \/ Go("close") /\ f.plan.kind = "stop"
             \/ NextTurn(f.awaitMusic) /\ f.plan.kind = "skip"
             \/ /\ f.plan.kind = "air"
                /\ f'.pc = IF f.rd = NoReader THEN "open" ELSE "announce"
                /\ f'.yt = f.plan.yt /\ f'.plan.kind = "stop" /\ f'.rd = f.rd
                /\ f'.resumed = f.resumed /\ f'.crashes = f.crashes
                /\ SameDirs /\ SameSeam
  <2>1. f.plan.kind \in {"air", "skip", "stop"}
    BY <1>1 DEF FeedType, PlanType
  <2>2. StopPlan(FALSE).kind = "stop"
    BY DEF StopPlan, Plan
  <2>3. PICK stop : /\ stop.kind = "stop"
                    /\ \/ Go("close") /\ f.plan.kind = "stop"
                       \/ NextTurn(f.awaitMusic) /\ f.plan.kind = "skip"
                       \/ /\ f.plan.kind = "air"
                          /\ f' = [f EXCEPT !.pc = IF f.rd = NoReader THEN "open"
                                                   ELSE "announce",
                                            !.yt = f.plan.yt, !.req = f.plan.req,
                                            !.plan = stop]
    BY <1>6, <2>1, <2>2 DEF Commit
  <2>4. QED
    BY <1>1, <2>3 DEF FeedType, SameDirs, SameSeam
<1>7. QED
  BY <1>2, <1>3, <1>4, <1>5, <1>6

\* An item before it airs, on air, and after.
LEMMA ItemFields ==
  ASSUME TypeOK
  PROVE  /\ Open =>
               \E r \in ReaderIds \ readers :
                  /\ readers' = readers \cup {r} /\ set' = set \cup {r} /\ f'.rd = r
                  /\ f'.pc = IF f.resumed THEN "prefetch" ELSE "announce"
                  /\ Same
         /\ Announce =>
               /\ f'.pc = IF f.req = NoRequest THEN "nextup" ELSE "mark"
               /\ f'.rd = f.rd /\ Same
         /\ CommitNextUpRead => f'.pc \in {"pin", "prefetch"} /\ f'.rd = f.rd /\ Same
         /\ CommitNextUpWrite => f'.pc = "prefetch" /\ f'.rd = f.rd /\ Same
         /\ AirStops \/ AirFails => f'.pc = "close" /\ f'.rd = NoReader /\ Same
         /\ AirSkipped \/ AirEnds =>
               /\ CloseItem
               /\ \/ f.pc = "clip" /\ NextTurn(TRUE)
                  \/ f.pc = "music" /\ NextTurn(FALSE)
         /\ AirCrashes =>
               /\ f'.pc = "restart" /\ f'.rd = NoReader /\ f'.plan = f.plan /\ SameDirs
               /\ SameSeam /\ f'.yt = f.yt /\ f'.req = f.req /\ f'.resumed = f.resumed
<1>1. f \in FeedType
  BY DEF TypeOK
<1>2. ASSUME Open
      PROVE  \E r \in ReaderIds \ readers :
                /\ readers' = readers \cup {r} /\ set' = set \cup {r} /\ f'.rd = r
                /\ f'.pc = IF f.resumed THEN "prefetch" ELSE "announce"
                /\ Same
  BY <1>1, <1>2 DEF Open, Fresh, FeedType, Same, SameDirs, SameItem, SameSeam
<1>3. ASSUME Announce
      PROVE  /\ f'.pc = IF f.req = NoRequest THEN "nextup" ELSE "mark"
             /\ f'.rd = f.rd /\ Same
  <2>1. PICK pc : /\ pc = IF f.req = NoRequest THEN "nextup" ELSE "mark"
                  /\ f' = [f EXCEPT !.pc = pc, !.logged = TRUE] \/ Go(pc)
    BY <1>3 DEF Announce
  <2>2. CASE Go(pc)
    BY <2>1, <2>2, GoFields
  <2>3. CASE f' = [f EXCEPT !.pc = pc, !.logged = TRUE]
    BY <1>1, <2>1, <2>3 DEF FeedType, Same, SameDirs, SameItem, SameSeam
  <2>4. QED
    BY <2>1, <2>2, <2>3
<1>4. ASSUME CommitNextUpRead
      PROVE  f'.pc \in {"pin", "prefetch"} /\ f'.rd = f.rd /\ Same
  <2>1. (\E t : f' = [f EXCEPT !.pc = "pin", !.pick = t]) \/ Go("prefetch")
    BY <1>4 DEF CommitNextUpRead
  <2>2. QED
    BY <1>1, <2>1, GoFields DEF FeedType, Same, SameDirs, SameItem, SameSeam
<1>5. ASSUME CommitNextUpWrite
      PROVE  f'.pc = "prefetch" /\ f'.rd = f.rd /\ Same
  BY <1>1, <1>5 DEF CommitNextUpWrite, FeedType, Same, SameDirs, SameItem, SameSeam
<1>6. ASSUME AirStops \/ AirFails
      PROVE  f'.pc = "close" /\ f'.rd = NoReader /\ Same
  BY <1>1, <1>6
     DEF AirStops, AirFails, FeedType, Same, SameDirs, SameItem, SameSeam
<1>7. ASSUME AirSkipped \/ AirEnds
      PROVE  /\ CloseItem
             /\ \/ f.pc = "clip" /\ NextTurn(TRUE)
                \/ f.pc = "music" /\ NextTurn(FALSE)
  BY <1>7 DEF AirSkipped, AirEnds, Airing, ItemEnds, TrackFinished
<1>8. ASSUME AirCrashes
      PROVE  /\ f'.pc = "restart" /\ f'.rd = NoReader /\ f'.plan = f.plan /\ SameDirs
             /\ SameSeam /\ f'.yt = f.yt /\ f'.req = f.req /\ f'.resumed = f.resumed
  <2>1. PICK n : f' = [f EXCEPT !.pc = "restart", !.rd = NoReader, !.crashes = n]
    BY <1>8 DEF AirCrashes
  <2>2. QED
    BY <1>1, <2>1 DEF FeedType, SameDirs, SameSeam
<1>9. QED
  BY <1>2, <1>3, <1>4, <1>5, <1>6, <1>7, <1>8

\* A restart, and the end of a session.
LEMMA RestartFields ==
  ASSUME TypeOK
  PROVE  /\ RestartMake =>
               \/ Go("close") /\ UNCHANGED dirs
               \/ \E d \in DirIds \ dirs :
                     /\ dirs' = dirs \cup {d} /\ f'.newDir = d /\ f'.dir = f.dir
                     /\ f'.pc = "swap" /\ f'.rd = f.rd /\ f'.plan = f.plan
                     /\ SameItem /\ SameSeam
         /\ RestartSweep =>
               /\ f'.dir = f.newDir /\ f'.newDir = NoDir
               /\ \/ /\ f.yt = NoTrack
                     /\ f'.pc = "seam" /\ f'.awaitMusic = TRUE /\ f'.yt = NoTrack
                     /\ f'.rd = NoReader /\ f'.crashes = 0 /\ ~f'.resumed
                     /\ f'.plan.kind = "stop"
                  \/ /\ f.yt # NoTrack
                     /\ f'.pc = IF CapReached(f.crashes) THEN "giveup" ELSE "reopen"
                     /\ f'.rd = f.rd /\ f'.plan = f.plan /\ SameItem /\ SameSeam
         /\ Reopen =>
               \/ Go("giveup") /\ UNCHANGED <<readers, set>>
               \/ \E r \in ReaderIds \ readers :
                     /\ readers' = readers \cup {r} /\ set' = set \cup {r}
                     /\ f'.rd = r /\ f'.pc = "music" /\ Same
         /\ DrainPrefetch => f'.pc = "reclaim" /\ f'.rd = NoReader /\ Same
<1>1. f \in FeedType
  BY DEF TypeOK
<1>2. ASSUME RestartMake
      PROVE  \/ Go("close") /\ UNCHANGED dirs
             \/ \E d \in DirIds \ dirs :
                   /\ dirs' = dirs \cup {d} /\ f'.newDir = d /\ f'.dir = f.dir
                   /\ f'.pc = "swap" /\ f'.rd = f.rd /\ f'.plan = f.plan
                   /\ SameItem /\ SameSeam
  BY <1>1, <1>2 DEF RestartMake, Fresh, FeedType, SameItem, SameSeam
<1>3. ASSUME RestartSweep
      PROVE  /\ f'.dir = f.newDir /\ f'.newDir = NoDir
             /\ \/ /\ f.yt = NoTrack
                   /\ f'.pc = "seam" /\ f'.awaitMusic = TRUE /\ f'.yt = NoTrack
                   /\ f'.rd = NoReader /\ f'.crashes = 0 /\ ~f'.resumed
                   /\ f'.plan.kind = "stop"
                \/ /\ f.yt # NoTrack
                   /\ f'.pc = IF CapReached(f.crashes) THEN "giveup" ELSE "reopen"
                   /\ f'.rd = f.rd /\ f'.plan = f.plan /\ SameItem /\ SameSeam
  <2>1. CASE f.yt = NoTrack
    <3>1. f' = [IdleFeed EXCEPT !.pc = "seam", !.awaitMusic = TRUE, !.dir = f.newDir]
      BY <1>3, <2>1 DEF RestartSweep
    <3>2. f'.plan.kind = "stop"
      BY <3>1 DEF IdleFeed, StopPlan, Plan
    <3>3. QED
      BY <2>1, <3>1, <3>2 DEF IdleFeed
  <2>2. CASE f.yt # NoTrack
    <3>1. PICK pc : /\ pc = IF CapReached(f.crashes) THEN "giveup" ELSE "reopen"
                    /\ f' = [[f EXCEPT !.dir = f.newDir, !.newDir = NoDir]
                                EXCEPT !.pc = pc]
      BY <1>3, <2>2 DEF RestartSweep
    <3>2. QED
      BY <1>1, <2>2, <3>1 DEF FeedType, SameItem, SameSeam
  <2>3. QED
    BY <2>1, <2>2
<1>4. ASSUME Reopen
      PROVE  \/ Go("giveup") /\ UNCHANGED <<readers, set>>
             \/ \E r \in ReaderIds \ readers :
                   /\ readers' = readers \cup {r} /\ set' = set \cup {r}
                   /\ f'.rd = r /\ f'.pc = "music" /\ Same
  BY <1>1, <1>4 DEF Reopen, Fresh, FeedType, Same, SameDirs, SameItem, SameSeam
<1>5. ASSUME DrainPrefetch
      PROVE  f'.pc = "reclaim" /\ f'.rd = NoReader /\ Same
  BY <1>1, <1>5 DEF DrainPrefetch, FeedType, Same, SameDirs, SameItem, SameSeam
<1>6. QED
  BY <1>2, <1>3, <1>4, <1>5

-----------------------------------------------------------------------------
(* The inductive step, part by part. *)

\* The readers.
LEMMA NextHandovers ==
  ASSUME TypeOK, Handovers, [Next]_vars
  PROVE  Handovers'
<1>1. readers \subseteq ReaderIds /\ set \subseteq ReaderIds /\ NoReader \notin ReaderIds
  BY PoolAssumption DEF TypeOK, NoReader
<1>2. CASE EngineStarts \/ NoClip \/ CommitFails \/ OpenFails \/ MarkItemAired
             \/ RestartSwap \/ CloseSession
  <2>1. /\ UNCHANGED <<readers, set, pf>>
        /\ f'.rd = f.rd /\ f'.plan = f.plan
        /\ \/ f.pc = "poll" /\ f'.pc = "boot"
           \/ f.pc = "seam" /\ f'.pc = "take"
           \/ f.pc \in {"commit", "open", "reopen"} /\ f'.pc = "close"
           \/ f.pc = "mark" /\ f'.pc = "nextup"
           \/ f.pc = "swap" /\ f'.pc = "sweep"
           \/ f.pc = "close" /\ f'.pc = "drain"
    BY <1>2, GoFields
       DEF EngineStarts, NoClip, CommitFails, OpenFails, MarkItemAired, RestartSwap,
           CloseSession, Same
  <2>2. QED
    BY <2>1 DEF Handovers, ReadersOwned
<1>3. CASE SessionBoot \/ SessionSetup
  <2>1. UNCHANGED <<readers, set, pf>> /\ f.pc \in {"boot", "setup"}
    BY <1>3 DEF SessionBoot, SessionSetup
  <2>2. f'.rd = f.rd /\ f'.pc \in {"setup", "open", "seam", "poll"}
    BY <1>3, <2>1, SeamFields, IdleFields DEF Handovers
  <2>3. QED
    BY <2>1, <2>2 DEF Handovers, ReadersOwned
<1>4. CASE TakeClip
  <2>1. UNCHANGED <<readers, set, pf>> /\ f.pc = "seam"
    BY <1>4 DEF TakeClip
  <2>2. f'.rd = NoReader /\ f'.pc \in {"clip", "seam"}
    BY <1>4, <2>1, SeamFields, TurnFields DEF Handovers
  <2>3. QED
    BY <2>1, <2>2 DEF Handovers, ReadersOwned
<1>5. CASE TakePrefetch
  <2>1. f.pc = "take" /\ f.rd = NoReader /\ pf' = NoLookahead
    BY <1>5 DEF TakePrefetch, Handovers
  <2>2. pf'.rd = NoReader /\ pf'.st = "none"
    BY <2>1 DEF NoLookahead
  <2>3. CASE KeepsReader(f'.plan)
    BY <1>1, <1>5, <2>1, <2>2, <2>3, SeamFields DEF Handovers, ReadersOwned, KeepsReader
  <2>4. CASE ~KeepsReader(f'.plan)
    BY <1>1, <1>5, <2>1, <2>2, <2>4, SeamFields DEF Handovers, ReadersOwned
  <2>5. QED
    BY <2>3, <2>4
<1>6. CASE PlanFails
  <2>1. /\ f.pc = "take" /\ pf' = NoLookahead /\ readers' = readers \ {pf.rd}
        /\ UNCHANGED set
    BY <1>6 DEF PlanFails
  <2>2. pf'.rd = NoReader /\ pf'.st = "none"
    BY <2>1 DEF NoLookahead
  <2>3. f'.rd = f.rd /\ f'.pc = "close"
    BY <1>6, GoFields DEF PlanFails
  <2>4. QED
    BY <1>1, <2>1, <2>2, <2>3 DEF Handovers, ReadersOwned
<1>7. CASE Commit
  <2>1. UNCHANGED <<readers, set, pf>> /\ f.pc = "commit"
    BY <1>7 DEF Commit
  <2>2. \/ f'.pc = "close" /\ f'.rd = f.rd
        \/ f'.pc = "seam" /\ f'.rd = NoReader /\ f.rd = NoReader
        \/ f'.pc = "open" /\ f'.rd = f.rd /\ f.rd = NoReader
        \/ f'.pc = "announce" /\ f'.rd = f.rd
    BY <1>7, <2>1, SeamFields, GoFields, TurnFields DEF Handovers
  <2>3. QED
    BY <2>1, <2>2 DEF Handovers, ReadersOwned
<1>8. CASE Open \/ Reopen
  <2>1. UNCHANGED pf /\ f.pc \in {"open", "reopen"} /\ f.rd = NoReader
    BY <1>8 DEF Open, Reopen, Handovers
  <2>2. CASE f'.pc = "giveup" /\ f'.rd = f.rd /\ UNCHANGED <<readers, set>>
    BY <2>1, <2>2 DEF Handovers, ReadersOwned
  <2>3. CASE \E r \in ReaderIds \ readers :
                /\ readers' = readers \cup {r} /\ set' = set \cup {r} /\ f'.rd = r
                /\ \/ f.pc = "reopen" /\ f'.pc = "music"
                   \/ f.pc = "open" /\ f'.pc \in {"prefetch", "announce"}
    BY <1>1, <2>1, <2>3 DEF Handovers, ReadersOwned
  <2>4. QED
    <3>1. CASE Open
      <4>1. f.pc = "open"
        BY <3>1 DEF Open
      <4>2. QED
        BY <2>3, <3>1, <4>1, ItemFields
    <3>2. CASE Reopen
      <4>1. f.pc = "reopen"
        BY <3>2 DEF Reopen
      <4>2. QED
        BY <2>2, <2>3, <3>2, <4>1, RestartFields, GoFields
    <3>3. QED
      BY <1>8, <3>1, <3>2
<1>9. CASE OpenSkips \/ GiveUp
  <2>1. UNCHANGED <<readers, set, pf>> /\ f.pc \in {"open", "giveup"}
    BY <1>9 DEF OpenSkips, GiveUp
  <2>2. f'.rd = NoReader /\ f'.pc = "seam"
    BY <1>9, TurnFields DEF OpenSkips, GiveUp, TrackFinished
  <2>3. QED
    BY <2>1, <2>2 DEF Handovers, ReadersOwned
<1>10. CASE Announce \/ CommitNextUpRead \/ CommitNextUpWrite
  <2>1. UNCHANGED <<readers, set, pf>> /\ f.pc \in {"announce", "nextup", "pin"}
    BY <1>10 DEF Announce, CommitNextUpRead, CommitNextUpWrite
  <2>2. f'.rd = f.rd /\ f'.pc \in {"mark", "nextup", "pin", "prefetch"}
    BY <1>10, ItemFields
  <2>3. QED
    BY <2>1, <2>2 DEF Handovers, ReadersOwned
<1>11. CASE StartPrefetch
  <2>1. /\ UNCHANGED <<readers, set>> /\ f.pc = "prefetch"
        /\ pf' = [NoLookahead EXCEPT !.st = "planning"]
    BY <1>11 DEF StartPrefetch
  <2>2. pf'.rd = NoReader /\ pf'.st = "planning"
    BY <2>1 DEF NoLookahead
  <2>3. f'.rd = f.rd /\ f'.pc = "music"
    BY <1>11, GoFields DEF StartPrefetch
  <2>4. QED
    BY <2>1, <2>2, <2>3 DEF Handovers, ReadersOwned
<1>12. CASE AirStops \/ AirSkipped \/ AirEnds \/ AirFails \/ AirCrashes
  <2>1. UNCHANGED pf /\ f.pc \in {"music", "clip"} /\ CloseItem
    BY <1>12, ItemFields DEF AirStops, AirSkipped, AirEnds, AirFails, AirCrashes, Airing
  <2>2. f'.rd = NoReader /\ f'.pc \in {"close", "seam", "restart"}
    BY <1>12, ItemFields, TurnFields
  <2>3. QED
    BY <1>1, <2>1, <2>2 DEF Handovers, ReadersOwned, CloseItem
<1>13. CASE RestartMake \/ RestartSweep
  <2>1. UNCHANGED <<readers, set, pf>> /\ f.rd = NoReader /\ f.pc \in {"restart", "sweep"}
    BY <1>13 DEF RestartMake, RestartSweep, Handovers
  <2>2. f'.rd = NoReader /\ f'.pc \in {"close", "swap", "seam", "giveup", "reopen"}
    BY <1>13, <2>1, RestartFields, GoFields
  <2>3. QED
    BY <2>1, <2>2 DEF Handovers, ReadersOwned
<1>14. CASE DrainPrefetch
  <2>1. pf' = NoLookahead /\ readers' = (readers \ {pf.rd}) \ set /\ set' = {}
    BY <1>14 DEF DrainPrefetch
  <2>2. pf'.rd = NoReader /\ pf'.st = "none"
    BY <2>1 DEF NoLookahead
  <2>3. f'.rd = NoReader /\ f'.pc = "reclaim"
    BY <1>14, RestartFields
  <2>4. QED
    BY <1>1, <2>1, <2>2, <2>3 DEF Handovers, ReadersOwned
<1>15. CASE ReclaimDir
  <2>1. UNCHANGED <<readers, set, pf>> /\ f' = IdleFeed /\ f.pc = "reclaim"
    BY <1>15 DEF ReclaimDir
  <2>2. QED
    BY <2>1, IdleFields DEF Handovers, ReadersOwned
<1>16. CASE Lookahead
  <2>1. pf \in LookaheadType
    BY DEF TypeOK
  <2>2. CASE PrefetchPlan
    <3>1. UNCHANGED <<f, readers, set>> /\ pf.st = "planning"
      BY <2>2 DEF PrefetchPlan
    <3>2. pf'.rd = NoReader
      BY <2>2 DEF PrefetchPlan, NoLookahead
    <3>3. QED
      BY <3>1, <3>2 DEF Handovers, ReadersOwned
  <2>3. CASE PrefetchOpen
    <3>1. UNCHANGED <<f, set>> /\ pf.st = "opening"
      BY <2>3 DEF PrefetchOpen
    <3>2. \/ pf'.rd = NoReader /\ UNCHANGED readers
          \/ \E r \in ReaderIds \ readers :
                pf'.st = "done" /\ pf'.rd = r /\ readers' = readers \cup {r}
      BY <2>1, <2>3 DEF PrefetchOpen, Fresh, NoLookahead, LookaheadType
    <3>3. QED
      BY <1>1, <3>1, <3>2 DEF Handovers, ReadersOwned
  <2>4. QED
    BY <1>16, <2>2, <2>3 DEF Lookahead
<1>17. CASE Others \/ UNCHANGED vars
  <2>1. UNCHANGED <<f, pf, readers, set>>
    BY <1>17
       DEF Others, GoOnAir, GoOffAir, SkipTrack, RequestArrives, RequestAcquired,
           RequestRemoved, DirectorPeeks, DeleteTrack, AddTrack, DirectorPins,
           DirectorGivesUp, process, vars
  <2>2. QED
    BY <2>1 DEF Handovers, ReadersOwned
<1>18. CASE Restart
  <2>1. readers' = {} /\ set' = {} /\ f' = IdleFeed /\ pf' = NoLookahead
    BY <1>18 DEF Restart
  <2>2. QED
    BY <2>1, IdleFields DEF Handovers, ReadersOwned, NoLookahead
<1>19. QED
  BY <1>2, <1>3, <1>4, <1>5, <1>6, <1>7, <1>8, <1>9, <1>10, <1>11, <1>12, <1>13, <1>14,
     <1>15, <1>16, <1>17, <1>18
     DEF Next, Feed

\* The directories.
LEMMA NextDirectories ==
  ASSUME TypeOK, Directories, [Next]_vars
  PROVE  Directories'
<1>1. dirs \subseteq DirIds /\ NoDir \notin DirIds
  BY PoolAssumption DEF TypeOK, NoDir
<1>2. CASE UNCHANGED disk /\ SameDirs /\ f'.pc = f.pc
  BY <1>2 DEF Directories, disk, SameDirs
\* Steps between two places that publish the same directory.
<1>3. CASE /\ UNCHANGED disk /\ SameDirs
           /\ \/ f.pc \in {"poll", "boot"} /\ f'.pc \in {"boot", "setup"}
              \/ f.pc \in {"drain"} /\ f'.pc = "reclaim"
              \/ {f.pc, f'.pc} \cap {"poll", "boot", "setup", "drain", "reclaim", "swap",
                                     "sweep"} = {}
  BY <1>3 DEF Directories, disk, SameDirs
<1>4. CASE EngineStarts \/ NoClip \/ PlanFails \/ CommitFails \/ OpenFails
             \/ MarkItemAired \/ StartPrefetch
  <2>1. /\ UNCHANGED disk /\ SameDirs
        /\ \/ f.pc = "poll" /\ f'.pc = "boot"
           \/ f.pc = "seam" /\ f'.pc = "take"
           \/ f.pc \in {"take", "commit", "open", "reopen"} /\ f'.pc = "close"
           \/ f.pc = "mark" /\ f'.pc = "nextup"
           \/ f.pc = "prefetch" /\ f'.pc = "music"
    BY <1>4, GoFields
       DEF EngineStarts, NoClip, PlanFails, CommitFails, OpenFails, MarkItemAired,
           StartPrefetch, Same
  <2>2. QED
    BY <1>3, <2>1
<1>5. CASE SessionBoot
  <2>1. UNCHANGED disk /\ f.pc = "boot"
    BY <1>5 DEF SessionBoot
  <2>2. QED
    BY <1>3, <1>5, <2>1, SeamFields
<1>6. CASE SessionSetup
  <2>1. f.pc = "setup"
    BY <1>6 DEF SessionSetup
  <2>2. dirs = {} /\ sessionDir = NoDir /\ f.newDir = NoDir
    BY <2>1 DEF Directories
  <2>3. CASE f' = IdleFeed /\ UNCHANGED disk
    BY <2>2, <2>3, IdleFields DEF Directories, disk
  <2>4. CASE \E d \in DirIds \ dirs :
                /\ dirs' = dirs \cup {d} /\ sessionDir' = d /\ f'.dir = d
                /\ f'.pc \in {"open", "seam"} /\ f'.newDir = f.newDir
    BY <1>1, <2>2, <2>4 DEF Directories
  <2>5. QED
    BY <1>6, <2>3, <2>4, SeamFields
\* Steps to the next turn, from anywhere but a restart.
<1>7. ASSUME NEW await, NextTurn(await), UNCHANGED disk,
             f.pc \notin {"poll", "boot", "setup", "drain", "reclaim", "swap", "sweep"}
      PROVE  Directories'
  <2>1. f.newDir = NoDir
    BY <1>7 DEF Directories
  <2>2. QED
    BY <1>7, <2>1, TurnFields DEF Directories, disk
<1>8. CASE TakeClip \/ OpenSkips \/ AirSkipped \/ AirEnds \/ GiveUp
  <2>1. UNCHANGED disk /\ f.pc \in {"seam", "open", "music", "clip", "giveup"}
    BY <1>8 DEF TakeClip, OpenSkips, AirSkipped, AirEnds, Airing, GiveUp
  <2>2. (\E await : NextTurn(await)) \/ (f'.pc = "clip" /\ SameDirs)
    BY <1>8, SeamFields, ItemFields DEF OpenSkips, GiveUp, TrackFinished
  <2>3. QED
    BY <1>3, <1>7, <2>1, <2>2
<1>9. CASE TakePrefetch \/ Commit
  <2>1. UNCHANGED disk /\ f.pc \in {"take", "commit"}
    BY <1>9 DEF TakePrefetch, Commit
  <2>2. \/ \E await : NextTurn(await)
        \/ SameDirs /\ f'.pc \in {"commit", "close", "open", "announce"}
    BY <1>9, SeamFields, GoFields DEF Same
  <2>3. QED
    BY <1>3, <1>7, <2>1, <2>2
<1>10. CASE Open \/ Announce \/ CommitNextUpRead \/ CommitNextUpWrite \/ Reopen
              \/ AirStops \/ AirFails
  <2>1. /\ UNCHANGED disk
        /\ f.pc \in {"open", "announce", "nextup", "pin", "reopen", "music", "clip"}
    BY <1>10
       DEF Open, Announce, CommitNextUpRead, CommitNextUpWrite, Reopen, AirStops,
           AirFails, Airing
  <2>2. /\ SameDirs
        /\ f'.pc \in {"prefetch", "announce", "nextup", "mark", "pin", "giveup", "music",
                      "close"}
    BY <1>10, ItemFields, RestartFields, GoFields DEF Same
  <2>3. QED
    BY <1>3, <2>1, <2>2
<1>11. CASE AirCrashes
  <2>1. UNCHANGED disk /\ f.pc \in {"music", "clip"}
    BY <1>11 DEF AirCrashes, Airing
  <2>2. QED
    BY <1>3, <1>11, <2>1, ItemFields
<1>12. CASE RestartMake
  <2>1. UNCHANGED sessionDir /\ f.pc = "restart"
    BY <1>12 DEF RestartMake
  <2>2. f.newDir = NoDir
    BY <2>1 DEF Directories
  <2>3. CASE Go("close") /\ UNCHANGED dirs
    <3>1. UNCHANGED disk /\ SameDirs /\ f'.pc = "close"
      BY <2>1, <2>3, GoFields DEF disk, Same
    <3>2. QED
      BY <1>3, <2>1, <3>1
  <2>4. CASE \E d \in DirIds \ dirs :
                /\ dirs' = dirs \cup {d} /\ f'.newDir = d /\ f'.dir = f.dir
                /\ f'.pc = "swap"
    BY <1>1, <2>1, <2>2, <2>4 DEF Directories
  <2>5. QED
    BY <1>12, <2>3, <2>4, RestartFields
<1>13. CASE RestartSwap
  <2>1. f.pc = "swap" /\ sessionDir' = f.newDir /\ UNCHANGED dirs
    BY <1>13 DEF RestartSwap
  <2>2. f'.pc = "sweep" /\ SameDirs
    BY <1>13, GoFields DEF RestartSwap, Same
  <2>3. QED
    BY <2>1, <2>2 DEF Directories, SameDirs
<1>14. CASE RestartSweep
  <2>1. f.pc = "sweep" /\ dirs' = dirs \ {f.dir} /\ UNCHANGED sessionDir
    BY <1>14 DEF RestartSweep
  <2>2. f'.dir = f.newDir /\ f'.newDir = NoDir /\ f'.pc \in {"seam", "giveup", "reopen"}
    BY <1>14, RestartFields
  <2>3. QED
    BY <2>1, <2>2 DEF Directories
<1>15. CASE CloseSession
  <2>1. f.pc = "close" /\ sessionDir' = NoDir /\ UNCHANGED dirs
    BY <1>15 DEF CloseSession
  <2>2. f'.pc = "drain" /\ SameDirs
    BY <1>15, GoFields DEF CloseSession, Same
  <2>3. QED
    BY <2>1, <2>2 DEF Directories, SameDirs
<1>16. CASE DrainPrefetch
  <2>1. f.pc = "drain" /\ UNCHANGED disk
    BY <1>16 DEF DrainPrefetch
  <2>2. QED
    BY <1>3, <1>16, <2>1, RestartFields DEF Same
<1>17. CASE ReclaimDir
  <2>1. /\ f.pc = "reclaim" /\ dirs' = dirs \ {f.dir} /\ f' = IdleFeed
        /\ UNCHANGED sessionDir
    BY <1>17 DEF ReclaimDir
  <2>2. QED
    BY <2>1, IdleFields DEF Directories
<1>18. CASE Lookahead \/ Others \/ UNCHANGED vars
  <2>1. UNCHANGED <<f, dirs, sessionDir>>
    BY <1>18
       DEF Lookahead, PrefetchPlan, PrefetchOpen, Others, GoOnAir, GoOffAir, SkipTrack,
           RequestArrives, RequestAcquired, RequestRemoved, DirectorPeeks, DeleteTrack,
           AddTrack, DirectorPins, DirectorGivesUp, process, disk, vars
  <2>2. QED
    BY <2>1 DEF Directories
<1>19. CASE Restart
  <2>1. dirs' = {} /\ sessionDir' = NoDir /\ f' = IdleFeed
    BY <1>19 DEF Restart
  <2>2. QED
    BY <2>1, IdleFields DEF Directories
<1>20. QED
  BY <1>4, <1>5, <1>6, <1>8, <1>9, <1>10, <1>11, <1>12, <1>13, <1>14, <1>15, <1>16,
     <1>17, <1>18, <1>19
     DEF Next, Feed

\* The item.
LEMMA NextItems ==
  ASSUME TypeOK, Items, [Next]_vars
  PROVE  Items'
<1>1. f \in FeedType /\ NoTrack \notin Tracks /\ MaxRestarts \in Nat
  BY TrackAssumption, BoundAssumption DEF TypeOK
<1>2. f.crashes \in Nat
  BY <1>1 DEF FeedType
<1>3. CASE EngineStarts \/ NoClip \/ PlanFails \/ CommitFails \/ OpenFails
             \/ MarkItemAired \/ StartPrefetch \/ RestartSwap \/ CloseSession
  <2>1. /\ Same
        /\ \/ f.pc = "poll" /\ f'.pc = "boot"
           \/ f.pc = "seam" /\ f'.pc = "take"
           \/ f.pc \in {"take", "commit", "open", "reopen"} /\ f'.pc = "close"
           \/ f.pc = "mark" /\ f'.pc = "nextup"
           \/ f.pc = "prefetch" /\ f'.pc = "music"
           \/ f.pc = "swap" /\ f'.pc = "sweep"
           \/ f.pc = "close" /\ f'.pc = "drain"
    BY <1>3, GoFields
       DEF EngineStarts, NoClip, PlanFails, CommitFails, OpenFails, MarkItemAired,
           StartPrefetch, RestartSwap, CloseSession
  <2>2. QED
    BY <2>1 DEF Items, Same, SameItem
<1>4. CASE SessionBoot
  <2>1. f.pc = "boot"
    BY <1>4 DEF SessionBoot
  <2>2. QED
    BY <1>1, <1>4, <2>1, SeamFields DEF Items
<1>5. CASE SessionSetup
  <2>1. f.pc = "setup"
    BY <1>5 DEF SessionSetup
  <2>2. CASE f' = IdleFeed
    BY <1>1, <2>2, IdleFields DEF Items
  <2>3. CASE /\ f'.pc = IF f.resumed THEN "open" ELSE "seam"
             /\ f'.plan = f.plan /\ SameItem
    BY <1>1, <2>1, <2>3 DEF Items, SameItem
  <2>4. QED
    BY <1>5, <2>2, <2>3, SeamFields
<1>6. ASSUME NEW await, NextTurn(await)
      PROVE  Items'
  BY <1>1, <1>2, <1>6, TurnFields DEF Items
<1>7. CASE TakeClip \/ OpenSkips \/ AirSkipped \/ AirEnds \/ GiveUp
  <2>1. \/ \E await : NextTurn(await)
        \/ f.pc = "seam" /\ f'.pc = "clip" /\ f'.plan = f.plan /\ SameItem
    BY <1>7, SeamFields, ItemFields DEF TakeClip, OpenSkips, GiveUp, TrackFinished
  <2>2. QED
    BY <1>1, <1>6, <2>1 DEF Items, SameItem
<1>8. CASE TakePrefetch
  <2>1. f.pc = "take" /\ f'.pc = "commit" /\ f'.plan \in planNext /\ SameItem
    BY <1>8, SeamFields DEF TakePrefetch
  <2>2. QED
    BY <1>1, <2>1, PlansTyped DEF Items, SameItem
<1>9. CASE Commit
  <2>1. f.pc = "commit"
    BY <1>9 DEF Commit
  <2>2. CASE Go("close")
    BY <2>1, <2>2, GoFields DEF Items, Same, SameItem
  <2>3. CASE \E await : NextTurn(await)
    BY <1>6, <2>3
  <2>4. CASE /\ f.plan.kind = "air"
             /\ f'.pc \in {"open", "announce"}
             /\ f'.yt = f.plan.yt /\ f'.plan.kind = "stop"
             /\ f'.resumed = f.resumed /\ f'.crashes = f.crashes
    BY <1>1, <1>2, <2>1, <2>4 DEF Items
  <2>5. QED
    BY <1>9, <2>2, <2>3, <2>4, SeamFields
<1>10. CASE Open \/ Announce \/ CommitNextUpRead \/ CommitNextUpWrite
              \/ AirStops \/ AirFails
  <2>1. /\ Same
        /\ f.pc \in {"open", "announce", "nextup", "pin", "music", "clip"}
        /\ \/ f'.pc \in {"prefetch", "nextup", "pin", "close"}
           \/ f'.pc = "announce" /\ f.pc = "open"
           \/ f'.pc = "mark" /\ f.req # NoRequest
    BY <1>10, ItemFields
       DEF Open, Announce, CommitNextUpRead, CommitNextUpWrite, AirStops, AirFails, Airing
  <2>2. QED
    BY <2>1 DEF Items, Same, SameItem
<1>11. CASE AirCrashes
  BY <1>11, ItemFields DEF Items
<1>12. CASE RestartMake
  <2>1. f'.pc \in {"close", "swap"} /\ f'.plan = f.plan /\ SameItem
    BY <1>12, RestartFields, GoFields DEF Same
  <2>2. QED
    BY <2>1 DEF Items, SameItem
<1>13. CASE RestartSweep
  <2>1. \/ /\ f'.pc = "seam" /\ f'.yt = NoTrack /\ f'.crashes = 0 /\ ~f'.resumed
           /\ f'.plan.kind = "stop"
        \/ /\ f'.pc = IF CapReached(f.crashes) THEN "giveup" ELSE "reopen"
           /\ f'.plan = f.plan /\ SameItem
    BY <1>13, RestartFields
  <2>2. QED
    BY <1>1, <1>2, <2>1 DEF Items, SameItem, CapReached
<1>14. CASE Reopen \/ DrainPrefetch
  <2>1. /\ Same
        /\ \/ f.pc = "reopen" /\ f'.pc \in {"giveup", "music"}
           \/ f.pc = "drain" /\ f'.pc = "reclaim"
    BY <1>14, RestartFields, GoFields DEF Reopen, DrainPrefetch
  <2>2. QED
    BY <2>1 DEF Items, Same, SameItem
<1>15. CASE ReclaimDir \/ Restart
  <2>1. f' = IdleFeed
    BY <1>15 DEF ReclaimDir, Restart
  <2>2. QED
    BY <1>1, <2>1, IdleFields DEF Items
<1>16. CASE Lookahead \/ Others \/ UNCHANGED vars
  <2>1. UNCHANGED f
    BY <1>16
       DEF Lookahead, PrefetchPlan, PrefetchOpen, Others, GoOnAir, GoOffAir, SkipTrack,
           RequestArrives, RequestAcquired, RequestRemoved, DirectorPeeks, DeleteTrack,
           AddTrack, DirectorPins, DirectorGivesUp, process, vars
  <2>2. QED
    BY <2>1 DEF Items
<1>17. QED
  BY <1>3, <1>4, <1>5, <1>7, <1>8, <1>9, <1>10, <1>11, <1>12, <1>13, <1>14, <1>15, <1>16
     DEF Next, Feed

\* The skip flag and the seams.
LEMMA NextSeams ==
  ASSUME TypeOK, Items, Seams, [Next]_vars
  PROVE  Seams'
<1>1. CASE EngineStarts \/ NoClip \/ PlanFails \/ CommitFails \/ OpenFails
             \/ MarkItemAired \/ StartPrefetch \/ RestartSwap
  <2>1. /\ UNCHANGED <<skip, heard>> /\ SameItem /\ SameSeam
        /\ \/ f.pc = "poll" /\ f'.pc = "boot"
           \/ f.pc = "seam" /\ f'.pc = "take"
           \/ f.pc \in {"take", "commit", "open", "reopen"} /\ f'.pc = "close"
           \/ f.pc = "mark" /\ f'.pc = "nextup"
           \/ f.pc = "prefetch" /\ f'.pc = "music"
           \/ f.pc = "swap" /\ f'.pc = "sweep"
    BY <1>1, GoFields
       DEF EngineStarts, NoClip, PlanFails, CommitFails, OpenFails, MarkItemAired,
           StartPrefetch, RestartSwap, Same
  <2>2. QED
    BY <2>1 DEF Seams, SameItem, SameSeam
<1>2. CASE SessionBoot
  <2>1. skip' = "no" /\ heard' = "nothing"
    BY <1>2 DEF SessionBoot
  <2>2. QED
    BY <2>1 DEF Seams
<1>3. CASE SessionSetup
  <2>1. f.pc = "setup" /\ UNCHANGED <<skip, heard>>
    BY <1>3 DEF SessionSetup
  <2>2. skip # "old" /\ heard # "clip"
    BY <2>1 DEF Seams
  <2>3. QED
    BY <2>1, <2>2 DEF Seams
<1>4. CASE TakeClip
  <2>1. f.pc = "seam" /\ UNCHANGED skip /\ ~f.resumed /\ f.yt = NoTrack
    BY <1>4 DEF TakeClip, Items
  <2>2. CASE f'.pc = "clip" /\ f'.awaitMusic = TRUE /\ SameItem
    BY <2>1, <2>2 DEF Seams, SameItem
  <2>3. CASE NextTurn(TRUE) /\ UNCHANGED heard
    BY <2>1, <2>3, TurnFields DEF Seams
  <2>4. QED
    BY <1>4, <2>2, <2>3, SeamFields
<1>5. CASE TakePrefetch
  <2>1. f.pc = "take" /\ UNCHANGED <<skip, heard>>
    BY <1>5 DEF TakePrefetch
  <2>2. f'.pc = "commit" /\ SameItem /\ SameSeam
    BY <1>5, SeamFields
  <2>3. QED
    BY <2>1, <2>2 DEF Seams, SameItem, SameSeam
<1>6. CASE Commit
  <2>1. f.pc = "commit" /\ UNCHANGED <<skip, heard>>
    BY <1>6 DEF Commit
  <2>2. \/ f'.pc = "close" /\ f'.resumed = f.resumed
        \/ f'.pc = "seam" /\ ~f'.resumed /\ f'.awaitMusic = f.awaitMusic
        \/ /\ f'.pc \in {"open", "announce"} /\ f'.resumed = f.resumed
           /\ f'.awaitMusic = f.awaitMusic
    BY <1>6, SeamFields, GoFields, TurnFields DEF Same, SameItem, SameSeam
  <2>3. QED
    BY <2>1, <2>2 DEF Seams
<1>7. CASE OpenSkips
  <2>1. f.pc = "open" /\ UNCHANGED <<skip, heard>> /\ NextTurn(f.awaitMusic)
    BY <1>7 DEF OpenSkips
  <2>2. QED
    BY <2>1, TurnFields DEF Seams
<1>8. CASE Open
  <2>1. f.pc = "open" /\ UNCHANGED <<skip, heard>>
    BY <1>8 DEF Open
  <2>2. f'.pc = IF f.resumed THEN "prefetch" ELSE "announce"
    BY <1>8, ItemFields
  <2>3. SameItem /\ SameSeam
    BY <1>8, ItemFields DEF Same
  <2>4. QED
    BY <2>1, <2>2, <2>3 DEF Seams, SameItem, SameSeam
<1>9. CASE Announce
  <2>1. f.pc = "announce" /\ UNCHANGED skip /\ heard' = "music"
    BY <1>9 DEF Announce
  <2>2. QED
    BY <2>1 DEF Seams
<1>10. CASE CommitNextUpRead \/ CommitNextUpWrite \/ Reopen \/ GiveUp
  <2>1. f.pc \in {"nextup", "pin", "reopen", "giveup"} /\ UNCHANGED <<skip, heard>>
    BY <1>10 DEF CommitNextUpRead, CommitNextUpWrite, Reopen, GiveUp
  <2>2. skip # "old" /\ heard # "clip"
    BY <2>1 DEF Seams
  <2>3. QED
    BY <2>1, <2>2 DEF Seams
<1>11. CASE AirStops \/ AirFails
  <2>1. f.pc \in {"music", "clip"} /\ UNCHANGED <<skip, heard>>
    BY <1>11 DEF AirStops, AirFails, Airing
  <2>2. f'.pc = "close" /\ f'.resumed = f.resumed
    BY <1>11, ItemFields DEF Same, SameItem
  <2>3. QED
    BY <2>1, <2>2 DEF Seams
<1>12. CASE AirSkipped \/ AirEnds
  <2>1. f.pc \in {"music", "clip"} /\ UNCHANGED heard /\ skip' \in {skip, "no"}
    BY <1>12 DEF AirSkipped, AirEnds, Airing
  <2>2. \/ f.pc = "clip" /\ NextTurn(TRUE)
        \/ f.pc = "music" /\ NextTurn(FALSE)
    BY <1>12, ItemFields
  <2>3. QED
    BY <2>1, <2>2, TurnFields DEF Seams
<1>13. CASE AirCrashes
  <2>1. f.pc \in {"music", "clip"} /\ UNCHANGED <<skip, heard>>
    BY <1>13 DEF AirCrashes, Airing
  <2>2. f'.pc = "restart" /\ SameSeam /\ f'.yt = f.yt /\ f'.resumed = f.resumed
    BY <1>13, ItemFields
  <2>3. QED
    BY <2>1, <2>2 DEF Seams, SameSeam
<1>14. CASE RestartMake
  <2>1. f.pc = "restart" /\ UNCHANGED <<skip, heard>>
    BY <1>14 DEF RestartMake
  <2>2. f'.pc \in {"close", "swap"} /\ SameItem /\ SameSeam
    BY <1>14, RestartFields, GoFields DEF Same
  <2>3. QED
    BY <2>1, <2>2 DEF Seams, SameItem, SameSeam
<1>15. CASE RestartSweep
  <2>1. f.pc = "sweep" /\ UNCHANGED <<skip, heard>>
    BY <1>15 DEF RestartSweep
  <2>2. \/ f'.pc = "seam" /\ f'.awaitMusic = TRUE /\ ~f'.resumed
        \/ f.yt # NoTrack /\ f'.pc \in {"giveup", "reopen"}
    BY <1>15, RestartFields
  <2>3. QED
    BY <2>1, <2>2 DEF Seams
<1>16. CASE CloseSession \/ DrainPrefetch
  <2>1. f.pc \in {"close", "drain"} /\ UNCHANGED heard
    BY <1>16 DEF CloseSession, DrainPrefetch
  <2>2. f'.pc \in {"drain", "reclaim"} /\ f'.resumed = f.resumed
    BY <1>16, GoFields, RestartFields DEF CloseSession, Same, SameItem
  <2>3. QED
    BY <2>1, <2>2 DEF Seams
<1>17. CASE ReclaimDir
  <2>1. f.pc = "reclaim" /\ UNCHANGED <<skip, heard>> /\ f' = IdleFeed
    BY <1>17 DEF ReclaimDir
  <2>2. QED
    BY <2>1, IdleFields DEF Seams
<1>18. CASE SkipTrack
  <2>1. UNCHANGED <<f, heard>>
    BY <1>18 DEF SkipTrack
  <2>2. QED
    BY <1>18, <2>1 DEF SkipTrack, Seams
<1>19. CASE Lookahead \/ (Others /\ ~SkipTrack) \/ UNCHANGED vars
  <2>1. UNCHANGED <<f, skip, heard>>
    BY <1>19
       DEF Lookahead, PrefetchPlan, PrefetchOpen, Others, GoOnAir, GoOffAir,
           RequestArrives, RequestAcquired, RequestRemoved, DirectorPeeks, DeleteTrack,
           AddTrack, DirectorPins, DirectorGivesUp, process, vars
  <2>2. QED
    BY <2>1 DEF Seams
<1>20. CASE Restart
  <2>1. skip' = "no" /\ heard' = "nothing"
    BY <1>20 DEF Restart
  <2>2. QED
    BY <2>1 DEF Seams
<1>21. QED
  BY <1>1, <1>2, <1>3, <1>4, <1>5, <1>6, <1>7, <1>8, <1>9, <1>10, <1>11, <1>12, <1>13,
     <1>14, <1>15, <1>16, <1>17, <1>18, <1>19, <1>20
     DEF Next, Feed

-----------------------------------------------------------------------------
(* The theorems. *)

\* The parts hold initially.
LEMMA InitIInv == Init => IInv
<1> SUFFICES ASSUME Init PROVE IInv
  OBVIOUS
<1>1. rows \in Table
  <2>1. EmptyRow(NoUser, NoTrack) \in Row({}, Tracks, NoUser, NoTrack)
    BY DEF EmptyRow, Row, Status, Source, PendingStatus, TerminalStatus, NoPosition
  <2>2. QED
    BY <2>1 DEF Init, Table
<1>2. log \in LogType
  <2>1. <<>> \in Seq(Tracks)
    OBVIOUS
  <2>2. QED
    BY <2>1 DEF Init, LogType
<1>3. nextUp \in [yt : Tracks \cup {NoTrack}, req : Ids \cup {NoRequest}]
  BY DEF Init, NoPin
<1>4. faults \in 0..MaxFaults
  BY BoundAssumption DEF Init
<1>5. TypeOK
  BY <1>1, <1>2, <1>3, <1>4, IdleTypes DEF Init, TypeOK, Table
<1>6. Handovers
  BY IdleFields DEF Init, Handovers, ReadersOwned, NoLookahead
<1>7. Directories
  BY IdleFields DEF Init, Directories
<1>8. Items
  BY IdleFields, BoundAssumption DEF Init, Items
<1>9. Seams
  BY DEF Init, Seams
<1>10. QED
  BY <1>5, <1>6, <1>7, <1>8, <1>9 DEF IInv

\* Every step keeps them.
LEMMA NextIInv == IInv /\ [Next]_vars => IInv'
  BY NextTypes, NextHandovers, NextDirectories, NextItems, NextSeams DEF IInv

\* The inductive invariant.
THEOREM Inductive == Spec => []IInv
  BY InitIInv, NextIInv, PTL DEF Spec

\* Every variable keeps its type; an item is restarted at most MaxRestarts + 1 times.
THEOREM TypeCorrect == Spec => []TypeOK
<1>1. IInv => TypeOK
  BY DEF IInv
<1>2. QED
  BY <1>1, Inductive, PTL

\* Every open reader has exactly one owner, and openSet knows the item's.
THEOREM ReadersAccounted == Spec => []ReadersOwned
<1>1. IInv => ReadersOwned
  BY DEF IInv, Handovers
<1>2. QED
  BY <1>1, Inductive, PTL

\* What the HLS handler serves exists, and no directory outlives its session.
THEOREM DirectoriesLive == Spec => []SessionDirLive
<1>1. IInv => SessionDirLive
  BY DEF IInv, Directories, SessionDirLive
<1>2. QED
  BY <1>1, Inductive, PTL

\* A skip never reaches an item of a later session.
THEOREM SkipsFresh == Spec => []NoStaleSkip
<1>1. IInv => NoStaleSkip
  BY DEF IInv, Seams, NoStaleSkip, Airing
<1>2. QED
  BY <1>1, Inductive, PTL

\* A break never follows a break without a track in between.
THEOREM BreaksApart == Spec => OneBreakPerSeam
<1>1. ASSUME IInv, [Next]_vars
      PROVE  [f.pc = "seam" /\ f'.pc = "clip" => heard # "clip"]_vars
  <2>1. CASE TakeClip
    BY <1>1, <2>1 DEF TakeClip, IInv, Seams
  <2>2. CASE Feed /\ ~TakeClip
    <3>1. f.pc = "seam" => NoClip
      BY <2>2
         DEF Feed, EngineStarts, SessionBoot, SessionSetup, TakePrefetch, PlanFails,
             Commit, CommitFails, Open, OpenSkips, OpenFails, Announce, MarkItemAired,
             CommitNextUpRead, CommitNextUpWrite, StartPrefetch, AirStops, AirSkipped,
             AirEnds, AirFails, AirCrashes, Airing, RestartMake, RestartSwap,
             RestartSweep, Reopen, GiveUp, CloseSession, DrainPrefetch, ReclaimDir
    <3>2. NoClip => f'.pc = "take"
      BY <1>1, GoFields DEF NoClip, IInv
    <3>3. QED
      BY <3>1, <3>2
  <2>3. CASE Lookahead \/ Others \/ UNCHANGED vars
    <3>1. UNCHANGED f
      BY <2>3
         DEF Lookahead, PrefetchPlan, PrefetchOpen, Others, GoOnAir, GoOffAir, SkipTrack,
             RequestArrives, RequestAcquired, RequestRemoved, DirectorPeeks, DeleteTrack,
             AddTrack, DirectorPins, DirectorGivesUp, process, vars
    <3>2. QED
      BY <3>1
  <2>4. CASE Restart
    <3>1. f'.pc = "poll"
      BY <2>4, IdleFields DEF Restart
    <3>2. QED
      BY <3>1
  <2>5. QED
    BY <1>1, <2>1, <2>2, <2>3, <2>4 DEF Next
<1>2. QED
  BY <1>1, Inductive, PTL DEF Spec, OneBreakPerSeam

-----------------------------------------------------------------------------
(* How often a request airs, and what a resumed track leaves alone. *)

\* Request i is the feed's from its plan to its announcement.
InHand(i) ==
    \/ f.pc = "commit" /\ f.plan.kind = "air" /\ f.plan.req = i
    \/ f.pc \in {"open", "announce"} /\ f.req = i

\* Request i may be announced without a further failure: the feed has it in hand,
\* or its row is not decided, unless the feed is about to mark it.
MayAir(i) ==
    InHand(i) \/ (rows[i].status \notin TerminalStatus /\ ~(f.pc = "mark" /\ f.req = i))

\* Once announced a request may be announced again only after a failure; a session
\* starts with none in hand.
Servings ==
    /\ \A i \in Ids : served[i] <= 1 + faults /\ (MayAir(i) => served[i] <= faults)
    /\ f.pc \in {"poll", "boot", "setup"} => f.req = NoRequest

\* A resumed track is never planned, announced or followed by a pin.
Resuming ==
    f.resumed => f.pc \in {"setup", "open", "prefetch", "music", "restart", "swap",
                           "sweep", "reopen", "giveup", "close", "drain", "reclaim"}

\* Where f.req comes from.
LEMMA NextResuming ==
  ASSUME TypeOK, Items, Resuming, [Next]_vars
  PROVE  Resuming'
<1>1. f \in FeedType
  BY DEF TypeOK
<1>2. CASE EngineStarts \/ NoClip \/ PlanFails \/ CommitFails \/ OpenFails
             \/ MarkItemAired \/ StartPrefetch \/ RestartSwap \/ CloseSession
  <2>1. /\ f'.resumed = f.resumed
        /\ \/ f.pc \in {"poll", "seam", "mark"}
           \/ f'.pc \in {"close", "music", "sweep", "drain"}
    BY <1>2, GoFields
       DEF EngineStarts, NoClip, PlanFails, CommitFails, OpenFails, MarkItemAired,
           StartPrefetch, RestartSwap, CloseSession, Same, SameItem
  <2>2. QED
    BY <2>1 DEF Items, Resuming
<1>3. CASE SessionBoot
  BY <1>3, SeamFields DEF Resuming
<1>4. CASE SessionSetup
  <2>1. f.pc = "setup"
    BY <1>4 DEF SessionSetup
  <2>2. \/ f' = IdleFeed
        \/ f'.pc = (IF f.resumed THEN "open" ELSE "seam") /\ f'.resumed = f.resumed
    BY <1>4, SeamFields DEF SameItem
  <2>3. QED
    BY <2>2, IdleFields DEF Resuming
<1>5. CASE TakeClip \/ OpenSkips \/ AirSkipped \/ AirEnds \/ GiveUp
  <2>1. \/ \E await : NextTurn(await)
        \/ f.pc = "seam" /\ f'.resumed = f.resumed
    BY <1>5, SeamFields, ItemFields
       DEF TakeClip, OpenSkips, GiveUp, TrackFinished, SameItem
  <2>2. QED
    BY <2>1, TurnFields DEF Items, Resuming
<1>6. CASE TakePrefetch
  <2>1. f.pc = "take" /\ f'.resumed = f.resumed
    BY <1>6, SeamFields DEF TakePrefetch, SameItem
  <2>2. QED
    BY <2>1 DEF Resuming
<1>7. CASE Commit
  <2>1. f.pc = "commit"
    BY <1>7 DEF Commit
  <2>2. (\E await : NextTurn(await)) \/ f'.resumed = f.resumed
    BY <1>7, SeamFields, GoFields DEF Same, SameItem
  <2>3. QED
    BY <2>1, <2>2, TurnFields DEF Resuming
<1>8. CASE Open \/ Announce \/ CommitNextUpRead \/ CommitNextUpWrite
             \/ AirStops \/ AirFails
  <2>1. /\ f'.resumed = f.resumed
        /\ \/ f.pc \in {"announce", "nextup", "pin"}
           \/ f.pc = "open" /\ f'.pc = (IF f.resumed THEN "prefetch" ELSE "announce")
           \/ f'.pc = "close"
    BY <1>8, ItemFields
       DEF Open, Announce, CommitNextUpRead, CommitNextUpWrite, Same, SameItem
  <2>2. QED
    BY <2>1 DEF Resuming
<1>9. CASE AirCrashes
  BY <1>9, ItemFields DEF Resuming
<1>10. CASE RestartMake
  <2>1. f'.pc \in {"close", "swap"}
    BY <1>10, RestartFields, GoFields
  <2>2. QED
    BY <2>1 DEF Resuming
<1>11. CASE RestartSweep
  <2>1. ~f'.resumed \/ f'.pc \in {"giveup", "reopen"}
    BY <1>11, RestartFields
  <2>2. QED
    BY <2>1 DEF Resuming
<1>12. CASE Reopen \/ DrainPrefetch
  <2>1. f'.pc \in {"giveup", "music", "reclaim"}
    BY <1>12, RestartFields, GoFields
  <2>2. QED
    BY <2>1 DEF Resuming
<1>13. CASE ReclaimDir \/ Restart
  <2>1. f' = IdleFeed
    BY <1>13 DEF ReclaimDir, Restart
  <2>2. QED
    BY <2>1, IdleFields DEF Resuming
<1>14. CASE Lookahead \/ Others \/ UNCHANGED vars
  <2>1. UNCHANGED f
    BY <1>14
       DEF Lookahead, PrefetchPlan, PrefetchOpen, Others, GoOnAir, GoOffAir, SkipTrack,
           RequestArrives, RequestAcquired, RequestRemoved, DirectorPeeks, DeleteTrack,
           AddTrack, DirectorPins, DirectorGivesUp, process, vars
  <2>2. QED
    BY <2>1 DEF Resuming
<1>15. QED
  BY <1>2, <1>3, <1>4, <1>5, <1>6, <1>7, <1>8, <1>9, <1>10, <1>11, <1>12, <1>13, <1>14
     DEF Next, Feed

\* A statement that decides a row leaves the others undecided or decided.
LEMMA RowsCalm ==
  ASSUME NEW q \in Table, NEW k \in Ids, NEW i \in Ids
  PROVE  /\ MarkFailed(q, k)[i].status \notin TerminalStatus =>
               q[i].status \notin TerminalStatus
         /\ FailPending(q, k)[i].status \notin TerminalStatus =>
               q[i].status \notin TerminalStatus
         /\ MarkReady(q, k)[i].status \notin TerminalStatus =>
               q[i].status \notin TerminalStatus
         /\ MarkAired(q, k)[i].status \notin TerminalStatus =>
               i # k /\ q[i].status \notin TerminalStatus
<1>1. ASSUME NEW s
      PROVE  SetStatus(q, k, s)[i].status = IF i = k THEN s ELSE q[i].status
  BY DEF SetStatus, Table, Row
<1>2. {"failed", "aired"} \subseteq TerminalStatus /\ "ready" \notin TerminalStatus
      /\ "approved" \notin TerminalStatus
  BY DEF TerminalStatus
<1>3. QED
  BY <1>1, <1>2 DEF MarkFailed, FailPending, MarkReady, MarkAired

\* A request planNext wants to air is ready.
LEMMA PlansReady ==
  ASSUME TypeOK, NEW p \in planNext, p.kind = "air", p.req \in Ids
  PROVE  rows[p.req].status = "ready"
<1>0. NoRequest \notin Ids
  BY IdsAssumption DEF NoRequest
<1>1. CASE p \in PinPlans
  BY <1>0, <1>1 DEF PinPlans, PinUsable, AirPlan, SkipPlan, Plan
<1>2. CASE p \in QueuePlans
  BY <1>2 DEF QueuePlans, IsNextReady, Ready, AirPlan, SkipPlan, Plan
<1>3. CASE p \in ShufflePlans
  BY <1>0, <1>3 DEF ShufflePlans, AirPlan, StopPlan, Plan
<1>4. CASE p = StopPlan(FALSE)
  BY <1>4 DEF StopPlan, Plan
<1>5. QED
  BY <1>1, <1>2, <1>3, <1>4 DEF planNext

\* A step that takes nothing in hand and decides rows at most.
LEMMA Calm ==
  ASSUME NEW i \in Ids,
         rows'[i].status \notin TerminalStatus => rows[i].status \notin TerminalStatus,
         \/ UNCHANGED f
         \/ f.pc # "mark" /\ f'.pc \notin {"commit", "open", "announce"}
  PROVE  MayAir(i)' => MayAir(i)
  BY DEF MayAir, InHand

\* Only an announcement counts, and failures only add up.
LEMMA Counters ==
  ASSUME [Next]_vars
  PROVE  /\ Announce \/ UNCHANGED served
         /\ UNCHANGED faults \/ Fault
<1>1. CASE Feed
  BY <1>1
     DEF Feed, EngineStarts, SessionBoot, SessionSetup, TakeClip, NoClip, TakePrefetch,
         PlanFails, Commit, CommitFails, Open, OpenSkips, OpenFails, Announce,
         MarkItemAired, CommitNextUpRead, CommitNextUpWrite, StartPrefetch, AirStops,
         AirSkipped, AirEnds, StaysOn, AirFails, AirCrashes, RestartMake, RestartSwap,
         RestartSweep, Reopen, GiveUp, CloseSession, DrainPrefetch, ReclaimDir
<1>2. CASE Lookahead \/ Others \/ Restart \/ UNCHANGED vars
  BY <1>2
     DEF Lookahead, PrefetchPlan, PrefetchOpen, Others, GoOnAir, GoOffAir, SkipTrack,
         RequestArrives, RequestAcquired, RequestRemoved, DirectorPeeks, DeleteTrack,
         AddTrack, DirectorPins, DirectorGivesUp, Restart, vars
<1>3. QED
  BY <1>1, <1>2 DEF Next

\* Where a restart and the end of a session lead.
LEMMA RestartGoes ==
  ASSUME TypeOK, RestartMake \/ RestartSweep \/ Reopen \/ DrainPrefetch
  PROVE  f'.pc \in {"close", "swap", "seam", "giveup", "reopen", "music", "reclaim"}
<1>1. CASE RestartMake
  BY <1>1, RestartFields, GoFields
<1>2. CASE RestartSweep
  <2>1. \/ f'.pc = "seam"
        \/ f'.pc = IF CapReached(f.crashes) THEN "giveup" ELSE "reopen"
    BY <1>2, RestartFields
  <2>2. QED
    BY <2>1
<1>3. CASE Reopen
  BY <1>3, RestartFields, GoFields
<1>4. CASE DrainPrefetch
  BY <1>4, RestartFields
<1>5. QED
  BY <1>1, <1>2, <1>3, <1>4

\* Without a failure, no step but the announcement gives a request another chance.
LEMMA Chances ==
  ASSUME TypeOK, Items, Servings, [Next]_vars, ~Announce, ~Fault, NEW i \in Ids
  PROVE  MayAir(i)' => MayAir(i)
<1>1. /\ f \in FeedType /\ rows \in Table /\ i # NoRequest /\ faults \in Nat
      /\ NoRequest \notin Ids
  BY IdsAssumption DEF TypeOK, Table, NoRequest
<1>2. CASE \/ EngineStarts \/ NoClip \/ PlanFails \/ CommitFails \/ OpenFails
           \/ StartPrefetch \/ RestartSwap \/ CloseSession
  <2>1. /\ UNCHANGED rows /\ f.pc # "mark"
        /\ f'.pc \in {"boot", "take", "close", "music", "sweep", "drain"}
    BY <1>2, GoFields
       DEF EngineStarts, NoClip, PlanFails, CommitFails, OpenFails, StartPrefetch,
           RestartSwap, CloseSession
  <2>2. QED
    BY <2>1, Calm
<1>3. CASE SessionBoot
  <2>1. f.pc = "boot" /\ f'.pc = "setup" /\ UNCHANGED rows
    BY <1>3, SeamFields DEF SessionBoot
  <2>2. QED
    BY <2>1, Calm
<1>4. CASE SessionSetup
  <2>1. f.pc = "setup" /\ UNCHANGED rows
    BY <1>4 DEF SessionSetup
  <2>2. f' = IdleFeed \/ (f'.pc \in {"open", "seam"} /\ f'.req = f.req)
    BY <1>4, SeamFields DEF SameItem
  <2>3. CASE f' = IdleFeed
    BY <2>1, <2>3, IdleFields, Calm
  <2>4. CASE f'.pc \in {"open", "seam"} /\ f'.req = f.req
    BY <1>1, <2>1, <2>4 DEF Servings, MayAir, InHand
  <2>5. QED
    BY <2>2, <2>3, <2>4
<1>5. CASE TakeClip \/ OpenSkips \/ AirSkipped \/ AirEnds \/ GiveUp
  <2>1. /\ f.pc # "mark"
        /\ (\E await : NextTurn(await)) \/ f'.pc = "clip"
    BY <1>5, SeamFields, ItemFields
       DEF TakeClip, OpenSkips, AirSkipped, AirEnds, Airing, GiveUp, TrackFinished
  <2>2. f'.pc \in {"seam", "clip"}
    BY <2>1, TurnFields
  <2>3. UNCHANGED rows \/ (f.req \in Ids /\ rows' = MarkFailed(rows, f.req))
    BY <1>1, <1>5
       DEF TakeClip, OpenSkips, AirSkipped, AirEnds, GiveUp, FeedType
  <2>4. QED
    BY <1>1, <2>1, <2>2, <2>3, RowsCalm, Calm
<1>6. CASE TakePrefetch
  <2>1. f.pc = "take" /\ f'.pc = "commit" /\ f'.plan \in planNext /\ UNCHANGED rows
    BY <1>6, SeamFields DEF TakePrefetch
  <2>2. f'.plan.kind = "air" /\ f'.plan.req = i => rows[i].status = "ready"
    BY <2>1, PlansReady
  <2>3. "ready" \notin TerminalStatus
    BY DEF TerminalStatus
  <2>4. QED
    BY <2>1, <2>2, <2>3 DEF MayAir, InHand
<1>7. CASE Commit
  <2>1. f.pc = "commit"
    BY <1>7 DEF Commit
  <2>2. UNCHANGED rows \/ (f.plan.fail \in Ids /\ rows' = MarkFailed(rows, f.plan.fail))
    BY <1>1, <1>7 DEF Commit, FeedType, PlanType
  <2>3. rows'[i].status \notin TerminalStatus => rows[i].status \notin TerminalStatus
    BY <1>1, <2>2, RowsCalm
  <2>4. CASE f.plan.kind = "air"
    <3>1. PICK pc \in {"open", "announce"} :
            f' = [f EXCEPT !.pc = pc, !.yt = f.plan.yt, !.req = f.plan.req,
                           !.plan = StopPlan(FALSE)]
      BY <1>7, <2>4 DEF Commit
    <3>2. f'.pc = pc /\ f'.req = f.plan.req
      BY <1>1, <3>1 DEF FeedType
    <3>3. QED
      BY <2>1, <2>3, <2>4, <3>2 DEF MayAir, InHand
  <2>5. CASE f.plan.kind # "air"
    <3>1. f'.pc \in {"close", "seam"}
      BY <1>7, <2>5, SeamFields, GoFields, TurnFields
    <3>2. QED
      BY <2>1, <2>3, <3>1, Calm
  <2>6. QED
    BY <2>4, <2>5
<1>8. CASE Open
  <2>1. /\ f.pc = "open" /\ f'.pc \in {"prefetch", "announce"} /\ f'.req = f.req
        /\ UNCHANGED rows
    BY <1>8, ItemFields DEF Open, Same, SameItem
  <2>2. QED
    BY <2>1 DEF MayAir, InHand
<1>9. CASE MarkItemAired
  <2>1. f.pc = "mark" /\ Go("nextup")
    BY <1>9 DEF MarkItemAired
  <2>2. f.req \in Ids /\ f'.pc = "nextup"
    BY <1>1, <2>1, GoFields DEF Items, FeedType
  <2>3. rows' = MarkAired(rows, f.req)
    BY <1>9 DEF MarkItemAired
  <2>4. rows'[i].status \notin TerminalStatus =>
           i # f.req /\ rows[i].status \notin TerminalStatus
    BY <1>1, <2>2, <2>3, RowsCalm
  <2>5. QED
    BY <2>1, <2>2, <2>4 DEF MayAir, InHand
<1>10. CASE \/ CommitNextUpRead \/ CommitNextUpWrite \/ AirStops \/ AirFails \/ AirCrashes
            \/ RestartMake \/ RestartSweep \/ Reopen \/ DrainPrefetch \/ ReclaimDir
  <2>1. UNCHANGED rows /\ f.pc # "mark"
    BY <1>10
       DEF CommitNextUpRead, CommitNextUpWrite, AirStops, AirFails, AirCrashes, Airing,
           RestartMake, RestartSweep, Reopen, DrainPrefetch, ReclaimDir
  <2>2. f'.pc \notin {"commit", "open", "announce"}
    <3>1. CASE ReclaimDir
      BY <3>1, IdleFields DEF ReclaimDir
    <3>2. CASE CommitNextUpRead \/ CommitNextUpWrite \/ AirStops \/ AirFails \/ AirCrashes
      BY <3>2, ItemFields
    <3>3. CASE RestartMake \/ RestartSweep \/ Reopen \/ DrainPrefetch
      BY <3>3, RestartGoes
    <3>4. QED
      BY <1>10, <3>1, <3>2, <3>3
  <2>3. QED
    BY <2>1, <2>2, Calm
<1>11. CASE Lookahead \/ UNCHANGED vars
  <2>1. UNCHANGED <<f, rows>>
    BY <1>11 DEF Lookahead, PrefetchPlan, PrefetchOpen, vars
  <2>2. QED
    BY <2>1, Calm
<1>12. CASE Others
  <2>1. UNCHANGED f
    BY <1>12
       DEF Others, GoOnAir, GoOffAir, SkipTrack, RequestArrives, RequestAcquired,
           RequestRemoved, DirectorPeeks, DeleteTrack, AddTrack, DirectorPins,
           DirectorGivesUp, process
  <2>2. \/ UNCHANGED rows
        \/ \E k \in Ids : rows' = MarkReady(rows, k) \/ rows' = FailPending(rows, k)
        \/ \E k \in Ids, t \in Tracks, s \in PendingStatus : RequestArrives(k, t, s)
    BY <1>12
       DEF Others, GoOnAir, GoOffAir, SkipTrack, RequestAcquired,
           RequestRemoved, DirectorPeeks, DeleteTrack, AddTrack, DirectorPins,
           DirectorGivesUp
  <2>3. ASSUME NEW k \in Ids, NEW t \in Tracks, NEW s \in PendingStatus,
               RequestArrives(k, t, s)
        PROVE  rows'[i].status \notin TerminalStatus => rows[i].status \notin TerminalStatus
    BY <1>1, <2>3
       DEF RequestArrives, IsNextId, Create, Table, Row, TerminalStatus
  <2>4. rows'[i].status \notin TerminalStatus => rows[i].status \notin TerminalStatus
    BY <1>1, <2>2, <2>3, RowsCalm
  <2>5. QED
    BY <2>1, <2>4, Calm
<1>13. CASE Restart
  BY <1>13 DEF Restart
<1>14. QED
  BY <1>2, <1>3, <1>4, <1>5, <1>6, <1>7, <1>8, <1>9, <1>10, <1>11, <1>12, <1>13
     DEF Next, Feed

\* A session starts with no request in hand.
LEMMA StartsEmpty ==
  ASSUME TypeOK, Servings, [Next]_vars, f'.pc \in {"poll", "boot", "setup"}
  PROVE  f'.req = NoRequest
<1>1. CASE EngineStarts \/ SessionBoot
  <2>1. f.pc \in {"poll", "boot"} /\ f'.req = f.req
    BY <1>1, GoFields, SeamFields DEF EngineStarts, SessionBoot, Same, SameItem
  <2>2. QED
    BY <2>1 DEF Servings
<1>2. CASE ReclaimDir \/ Restart
  BY <1>2, IdleFields DEF ReclaimDir, Restart
<1>3. CASE SessionSetup
  BY <1>3, SeamFields, IdleFields
<1>4. CASE Lookahead \/ Others \/ UNCHANGED vars
  <2>1. UNCHANGED f
    BY <1>4
       DEF Lookahead, PrefetchPlan, PrefetchOpen, Others, GoOnAir, GoOffAir, SkipTrack,
           RequestArrives, RequestAcquired, RequestRemoved, DirectorPeeks, DeleteTrack,
           AddTrack, DirectorPins, DirectorGivesUp, process, vars
  <2>2. QED
    BY <2>1 DEF Servings
<1>5. CASE \/ NoClip \/ PlanFails \/ CommitFails \/ OpenFails \/ MarkItemAired
           \/ StartPrefetch \/ RestartSwap \/ CloseSession
  BY <1>5, GoFields
     DEF NoClip, PlanFails, CommitFails, OpenFails, MarkItemAired, StartPrefetch,
         RestartSwap, CloseSession
<1>6. CASE \/ TakeClip \/ TakePrefetch \/ Commit \/ OpenSkips \/ AirSkipped \/ AirEnds
           \/ GiveUp
  <2>1. (\E await : NextTurn(await)) \/ f'.pc \in {"clip", "commit", "close", "open", "announce"}
    BY <1>6, SeamFields, ItemFields, GoFields DEF OpenSkips, GiveUp, TrackFinished
  <2>2. QED
    BY <2>1, TurnFields
<1>7. CASE \/ Open \/ Announce \/ CommitNextUpRead \/ CommitNextUpWrite \/ AirStops
           \/ AirFails \/ AirCrashes
  BY <1>7, ItemFields
<1>8. CASE RestartMake \/ RestartSweep \/ Reopen \/ DrainPrefetch
  BY <1>8, RestartGoes
<1>9. QED
  BY <1>1, <1>2, <1>3, <1>4, <1>5, <1>6, <1>7, <1>8 DEF Next, Feed

\* The announcement spends the chance.
LEMMA AnnounceServes ==
  ASSUME TypeOK, Servings, Announce, NEW i \in Ids
  PROVE  served'[i] <= 1 + faults' /\ (MayAir(i)' => served'[i] <= faults')
<1>1. /\ f \in FeedType /\ served \in [Ids -> Nat] /\ faults \in Nat /\ i # NoRequest
  BY IdsAssumption DEF TypeOK, NoRequest
<1>2. /\ f.pc = "announce" /\ f'.req = f.req /\ UNCHANGED rows
      /\ f'.pc = IF f.req = NoRequest THEN "nextup" ELSE "mark"
  BY <1>1, ItemFields DEF Announce, Same, SameItem
<1>3. served[i] <= 1 + faults /\ (MayAir(i) => served[i] <= faults)
  BY DEF Servings
<1>4. CASE f.req = i
  <2>1. MayAir(i) /\ ~MayAir(i)'
    BY <1>1, <1>2, <1>4 DEF MayAir, InHand
  <2>2. served'[i] \in {served[i], served[i] + 1} /\ faults' \in {faults, faults + 1}
    BY <1>1, <1>4 DEF Announce, Fault
  <2>3. QED
    BY <1>1, <1>3, <2>1, <2>2
<1>5. CASE f.req # i
  <2>1. MayAir(i)' => MayAir(i)
    BY <1>2, <1>5 DEF MayAir, InHand
  <2>2. served'[i] = served[i] /\ faults' \in {faults, faults + 1}
    BY <1>1, <1>5 DEF Announce, Fault
  <2>3. QED
    BY <1>1, <1>3, <2>1, <2>2
<1>6. QED
  BY <1>4, <1>5

LEMMA NextServings ==
  ASSUME TypeOK, Items, Servings, [Next]_vars
  PROVE  Servings'
<1>1. ASSUME NEW i \in Ids
      PROVE  served'[i] <= 1 + faults' /\ (MayAir(i)' => served'[i] <= faults')
  <2>1. served[i] \in Nat /\ faults \in Nat
    BY DEF TypeOK
  <2>2. served[i] <= 1 + faults /\ (MayAir(i) => served[i] <= faults)
    BY DEF Servings
  <2>3. CASE Announce
    BY <2>3, AnnounceServes
  <2>4. CASE ~Announce /\ Fault
    <3>1. served' = served /\ faults' = faults + 1
      BY <2>4, Counters DEF Fault
    <3>2. QED
      BY <2>1, <2>2, <3>1
  <2>5. CASE ~Announce /\ ~Fault
    <3>1. served' = served /\ faults' = faults
      BY <2>5, Counters
    <3>2. MayAir(i)' => MayAir(i)
      BY <2>5, Chances
    <3>3. QED
      BY <2>2, <3>1, <3>2
  <2>6. QED
    BY <2>3, <2>4, <2>5
<1>2. QED
  BY <1>1, StartsEmpty DEF Servings

\* The chances are counted in every reachable state.
LEMMA ServingsKept == Spec => []Servings
<1>1. Init => Servings
  <2>1. ASSUME Init, NEW i \in Ids
        PROVE  served[i] <= 1 + faults /\ (MayAir(i) => served[i] <= faults)
    BY <2>1 DEF Init
  <2>2. Init => f.req = NoRequest
    BY IdleFields DEF Init
  <2>3. QED
    BY <2>1, <2>2 DEF Servings
<1>2. IInv /\ Servings /\ [Next]_vars => Servings'
  BY NextServings DEF IInv
<1>3. QED
  BY <1>1, <1>2, Inductive, PTL DEF Spec

\* A request is air-logged once, and once more for each failure at most.
THEOREM AirsOnce == Spec => []RequestAirsOnce
<1>1. Servings => RequestAirsOnce
  BY DEF Servings, RequestAirsOnce
<1>2. QED
  BY <1>1, ServingsKept, PTL

\* While a resumed track airs no committed next track is lost.
THEOREM PinsKept == Spec => PinSurvivesResume
<1>1. Init => Resuming
  BY IdleFields DEF Init, Resuming
<1>2. IInv /\ Resuming /\ [Next]_vars => Resuming'
  BY NextResuming DEF IInv
<1>3. ASSUME IInv, Resuming, [Next]_vars
      PROVE  [f.resumed /\ nextUp # NoPin
                => nextUp' = nextUp \/ nextUp'.req # NoRequest]_vars
  <2>1. CASE DirectorPins
    BY <2>1 DEF DirectorPins, Pin
  <2>2. CASE PlanFails \/ Commit \/ CommitNextUpWrite
    BY <1>3, <2>2 DEF PlanFails, Commit, CommitNextUpWrite, Resuming
  <2>3. CASE ~(DirectorPins \/ PlanFails \/ Commit \/ CommitNextUpWrite)
    <3>1. UNCHANGED nextUp
      BY <1>3, <2>3
         DEF Next, Feed, EngineStarts, SessionBoot, SessionSetup, TakeClip, NoClip,
             TakePrefetch, CommitFails, Open, OpenSkips, OpenFails, Announce,
             MarkItemAired, CommitNextUpRead, StartPrefetch, AirStops, AirSkipped,
             AirEnds, AirFails, AirCrashes, RestartMake, RestartSwap, RestartSweep,
             Reopen, GiveUp, CloseSession, DrainPrefetch, ReclaimDir, Lookahead,
             PrefetchPlan, PrefetchOpen, Others, GoOnAir, GoOffAir, SkipTrack,
             RequestArrives, RequestAcquired, RequestRemoved, DirectorPeeks, DeleteTrack,
             AddTrack, DirectorGivesUp, Restart, process, vars
    <3>2. QED
      BY <3>1
  <2>4. QED
    BY <2>1, <2>2, <2>3
<1>4. QED
  BY <1>1, <1>2, <1>3, Inductive, PTL DEF Spec, PinSurvivesResume

-----------------------------------------------------------------------------
(* The feed as an actor of RequestLifecycle.                                *)

\* The request the feed holds: the one its plan airs or finds without its track,
\* then the item's, until the item is marked or given up.
Chosen ==
    IF f.pc = "commit" THEN IF f.plan.kind = "air" THEN f.plan.req ELSE f.plan.fail
    ELSE IF f.pc \in {"open", "announce", "mark"} THEN f.req
    ELSE NoRequest

StatusMap == [i \in Ids |-> rows[i].status]

\* The broadcast keeps the promise of RequestLifecycle (request.go:1-3): it airs,
\* or gives up, only a request that was ready when it took it.
Lifecycle == INSTANCE RequestLifecycle WITH status <- StatusMap, chosen <- Chosen
RefinesLifecycle == Lifecycle!Spec

\* The request in hand was ready and may have been removed since; a plan airs a
\* request or fails one, and a session starts with none.
Holding ==
    /\ Chosen # NoRequest => rows[Chosen].status \in {"ready", "failed"}
    /\ f.plan.kind = "air" => f.plan.fail = NoRequest
    /\ f.pc \in {"poll", "boot", "setup"} => f.req = NoRequest

\* A statement on one row, in statuses.
LEMMA StatusWrites ==
  ASSUME NEW q \in Table, NEW k \in Ids, NEW j \in Ids
  PROVE  /\ MarkAired(q, k)[j].status = IF j = k THEN "aired" ELSE q[j].status
         /\ MarkFailed(q, k)[j].status = IF j = k THEN "failed" ELSE q[j].status
         /\ MarkReady(q, k)[j].status =
               IF j = k /\ q[k].status = "approved" THEN "ready" ELSE q[j].status
         /\ FailPending(q, k)[j].status =
               IF j = k /\ q[k].status \in PendingStatus THEN "failed" ELSE q[j].status
  BY DEF SetStatus, MarkAired, MarkFailed, MarkReady, FailPending, Table, Row

\* One written status, seen through the mapping.
LEMMA OneStatus ==
  ASSUME NEW k \in Ids, NEW v,
         \A j \in Ids : rows'[j].status = IF j = k THEN v ELSE rows[j].status
  PROVE  StatusMap' = [StatusMap EXCEPT ![k] = v]
  BY DEF StatusMap

LEMMA ChosenType ==
  ASSUME TypeOK
  PROVE  Chosen \in Ids \cup {NoRequest} /\ NoRequest \notin Ids
<1>1. f.plan.req \in Ids \cup {NoRequest} /\ f.plan.fail \in Ids \cup {NoRequest}
  BY DEF TypeOK, FeedType, PlanType
<1>2. f.req \in Ids \cup {NoRequest}
  BY DEF TypeOK, FeedType
<1>3. QED
  BY <1>1, <1>2, IdsAssumption DEF Chosen, NoRequest

\* The request of a plan is ready, whether it is to air or to fail.
LEMMA PlansChosen ==
  ASSUME TypeOK, NEW p \in planNext
  PROVE  /\ p.kind = "air" => p.fail = NoRequest
         /\ p.req \in Ids /\ p.kind = "air" => rows[p.req].status = "ready"
         /\ p.fail \in Ids => rows[p.fail].status = "ready"
<1>0. NoRequest \notin Ids
  BY IdsAssumption DEF NoRequest
<1>1. CASE p \in PinPlans
  BY <1>0, <1>1, PlansReady DEF PinPlans, AirPlan, SkipPlan, Plan
<1>2. CASE p \in QueuePlans
  BY <1>0, <1>2, PlansReady DEF QueuePlans, IsNextReady, Ready, AirPlan, SkipPlan, Plan
<1>3. CASE p \in ShufflePlans
  BY <1>0, <1>3, PlansReady DEF ShufflePlans, AirPlan, StopPlan, Plan
<1>4. CASE p = StopPlan(FALSE)
  BY <1>0, <1>4 DEF StopPlan, Plan
<1>5. QED
  BY <1>1, <1>2, <1>3, <1>4 DEF planNext

\* A step that moves neither the statuses nor the request in hand.
LEMMA Stutters ==
  ASSUME Chosen' = Chosen, UNCHANGED rows
  PROVE  [Lifecycle!Next]_(Lifecycle!vars)
<1>1. StatusMap' = StatusMap
  BY DEF StatusMap
<1>2. QED
  BY <1>1 DEF Lifecycle!vars

\* A step after which the feed holds nothing, and which failed at most the request
\* it held, gives that request up.
LEMMA LetsGo ==
  ASSUME TypeOK, Holding, Chosen' = NoRequest,
         \/ UNCHANGED rows
         \/ Chosen # NoRequest /\ rows' = MarkFailed(rows, Chosen)
  PROVE  [Lifecycle!Next]_(Lifecycle!vars)
<1>1. CASE Chosen = NoRequest
  BY <1>1, Stutters
<1>2. CASE Chosen # NoRequest
  <2>1. Chosen \in Ids /\ StatusMap[Chosen] \in {"ready", "failed"}
    BY <1>2, ChosenType DEF Holding, StatusMap
  <2>2. CASE UNCHANGED rows
    <3>1. StatusMap' = StatusMap
      BY <2>2 DEF StatusMap
    <3>2. Lifecycle!Drop
      BY <1>2, <2>1, <3>1 DEF Lifecycle!Drop
    <3>3. QED
      BY <3>2 DEF Lifecycle!Next
  <2>3. CASE rows' = MarkFailed(rows, Chosen)
    <3>1. rows \in Table
      BY DEF TypeOK, Table
    <3>2. \A j \in Ids : rows'[j].status = IF j = Chosen THEN "failed" ELSE rows[j].status
      BY <2>1, <2>3, <3>1, StatusWrites
    <3>3. StatusMap' = [StatusMap EXCEPT ![Chosen] = "failed"]
      BY <2>1, <3>2, OneStatus
    <3>4. Lifecycle!Drop
      BY <1>2, <2>1, <3>3 DEF Lifecycle!Drop
    <3>5. QED
      BY <3>4 DEF Lifecycle!Next
  <2>4. QED
    BY <1>2, <2>2, <2>3
<1>3. QED
  BY <1>1, <1>2

\* The steps on which the feed's hands are empty before and after.
LEMMA EmptyHandRefines ==
  ASSUME TypeOK, Holding,
         \/ EngineStarts \/ SessionBoot \/ SessionSetup \/ TakeClip \/ NoClip
         \/ PlanFails \/ CommitNextUpRead \/ CommitNextUpWrite \/ StartPrefetch
         \/ AirStops \/ AirSkipped \/ AirEnds \/ AirFails \/ AirCrashes
         \/ RestartMake \/ RestartSwap \/ RestartSweep \/ Reopen \/ GiveUp
         \/ CloseSession \/ DrainPrefetch \/ ReclaimDir
  PROVE  [Lifecycle!Next]_(Lifecycle!vars)
<1>1. /\ UNCHANGED rows
      /\ f.pc \notin {"commit", "open", "announce", "mark"}
  BY DEF EngineStarts, SessionBoot, SessionSetup, TakeClip, NoClip, PlanFails,
         CommitNextUpRead, CommitNextUpWrite, StartPrefetch, AirStops, AirSkipped,
         AirEnds, AirFails, AirCrashes, Airing, RestartMake, RestartSwap, RestartSweep,
         Reopen, GiveUp, CloseSession, DrainPrefetch, ReclaimDir
<1>2. \/ f'.pc \notin {"commit", "open", "announce", "mark"}
      \/ f'.pc = "open" /\ f'.req = NoRequest
  <2>1. CASE SessionSetup
    <3>1. f.pc = "setup"
      BY <2>1 DEF SessionSetup
    <3>2. f' = IdleFeed \/ (f'.pc \in {"open", "seam"} /\ f'.req = f.req)
      BY <2>1, SeamFields DEF SameItem
    <3>3. QED
      BY <3>1, <3>2, IdleFields DEF Holding
  <2>2. CASE EngineStarts \/ NoClip \/ PlanFails \/ StartPrefetch \/ RestartSwap
               \/ CloseSession
    BY <2>2, GoFields
       DEF EngineStarts, NoClip, PlanFails, StartPrefetch, RestartSwap, CloseSession
  <2>3. CASE TakeClip \/ AirSkipped \/ AirEnds \/ GiveUp
    <3>1. (\E await : NextTurn(await)) \/ f'.pc = "clip"
      BY <2>3, SeamFields, ItemFields DEF GiveUp, TrackFinished
    <3>2. QED
      BY <3>1, TurnFields
  <2>4. CASE SessionBoot \/ CommitNextUpRead \/ CommitNextUpWrite \/ AirStops
               \/ AirFails \/ AirCrashes
    BY <2>4, SeamFields, ItemFields
  <2>5. CASE RestartMake \/ RestartSweep \/ Reopen \/ DrainPrefetch
    BY <2>5, RestartGoes
  <2>6. CASE ReclaimDir
    BY <2>6, IdleFields DEF ReclaimDir
  <2>7. QED
    BY <2>1, <2>2, <2>3, <2>4, <2>5, <2>6
<1>3. Chosen = NoRequest /\ Chosen' = NoRequest
  BY <1>1, <1>2 DEF Chosen
<1>4. QED
  BY <1>1, <1>3, Stutters

\* The plan takes a ready request in hand, or none.
LEMMA PlanRefines ==
  ASSUME TypeOK, Holding, TakePrefetch
  PROVE  [Lifecycle!Next]_(Lifecycle!vars)
<1>1. /\ f.pc = "take" /\ f'.pc = "commit" /\ f'.plan \in planNext /\ UNCHANGED rows
      /\ StatusMap' = StatusMap
  BY SeamFields DEF TakePrefetch, StatusMap
<1>2. f'.plan \in PlanType
  BY <1>1, PlansTyped
<1>3. f'.plan.req \in Ids \cup {NoRequest} /\ f'.plan.fail \in Ids \cup {NoRequest}
  BY <1>2 DEF PlanType
<1>4. Chosen = NoRequest
  BY <1>1 DEF Chosen
<1>5. Chosen' = IF f'.plan.kind = "air" THEN f'.plan.req ELSE f'.plan.fail
  BY <1>1 DEF Chosen
<1>6. Chosen' \in Ids => rows[Chosen'].status = "ready"
  BY <1>1, <1>5, PlansChosen
<1>7. CASE Chosen' = NoRequest
  BY <1>1, <1>4, <1>7, Stutters
<1>8. CASE Chosen' \in Ids
  <2>1. Lifecycle!Choose(Chosen')
    BY <1>1, <1>4, <1>6, <1>8 DEF Lifecycle!Choose, StatusMap
  <2>2. QED
    BY <1>8, <2>1 DEF Lifecycle!Next
<1>9. QED
  BY <1>3, <1>5, <1>7, <1>8

\* From the commit of a plan to the item's mark: the request stays in hand, is
\* given up, or airs.
LEMMA ItemRefines ==
  ASSUME TypeOK, Items, Holding,
         \/ Commit \/ CommitFails \/ Open \/ OpenSkips \/ OpenFails \/ Announce
         \/ MarkItemAired
  PROVE  [Lifecycle!Next]_(Lifecycle!vars)
<1>1. f \in FeedType /\ rows \in Table
  BY DEF TypeOK, Table
<1>2. CASE Commit
  <2>1. f.pc = "commit"
    BY <1>2 DEF Commit
  <2>2. rows' = IF f.plan.fail # NoRequest THEN MarkFailed(rows, f.plan.fail) ELSE rows
    BY <1>2 DEF Commit
  <2>3. CASE f.plan.kind = "air"
    <3>1. PICK pc \in {"open", "announce"} :
            f' = [f EXCEPT !.pc = pc, !.yt = f.plan.yt, !.req = f.plan.req,
                           !.plan = StopPlan(FALSE)]
      BY <1>2, <2>3 DEF Commit
    <3>2. f'.pc = pc /\ f'.req = f.plan.req
      BY <1>1, <3>1 DEF FeedType
    <3>3. Chosen' = Chosen /\ UNCHANGED rows
      BY <2>1, <2>2, <2>3, <3>2 DEF Holding, Chosen
    <3>4. QED
      BY <3>3, Stutters
  <2>4. CASE f.plan.kind # "air"
    <3>1. f'.pc \in {"close", "seam"}
      BY <1>2, <2>4, SeamFields, GoFields, TurnFields
    <3>2. Chosen' = NoRequest /\ Chosen = f.plan.fail
      BY <2>1, <2>4, <3>1 DEF Chosen
    <3>3. QED
      BY <2>2, <3>2, LetsGo
  <2>5. QED
    BY <2>3, <2>4
<1>3. CASE CommitFails \/ OpenFails
  <2>1. f'.pc = "close" /\ UNCHANGED rows
    BY <1>3, GoFields DEF CommitFails, OpenFails
  <2>2. QED
    BY <2>1, LetsGo DEF Chosen
<1>4. CASE Open
  <2>1. f.pc = "open" /\ f'.pc = (IF f.resumed THEN "prefetch" ELSE "announce")
        /\ f'.req = f.req /\ UNCHANGED rows
    BY <1>4, ItemFields DEF Open, Same, SameItem
  <2>2. CASE f.resumed
    <3>1. Chosen' = NoRequest
      BY <2>1, <2>2 DEF Chosen
    <3>2. QED
      BY <2>1, <3>1, LetsGo
  <2>3. CASE ~f.resumed
    <3>1. Chosen' = Chosen
      BY <2>1, <2>3 DEF Chosen
    <3>2. QED
      BY <2>1, <3>1, Stutters
  <2>4. QED
    BY <2>2, <2>3
<1>5. CASE OpenSkips
  <2>1. f.pc = "open" /\ f'.pc = "seam"
    BY <1>5, TurnFields DEF OpenSkips
  <2>2. Chosen = f.req /\ Chosen' = NoRequest
    BY <2>1 DEF Chosen
  <2>3. UNCHANGED rows \/ (f.req # NoRequest /\ rows' = MarkFailed(rows, f.req))
    BY <1>5 DEF OpenSkips
  <2>4. QED
    BY <2>2, <2>3, LetsGo
<1>6. CASE Announce
  <2>1. f.pc = "announce" /\ f'.pc = (IF f.req = NoRequest THEN "nextup" ELSE "mark")
        /\ f'.req = f.req /\ UNCHANGED rows
    BY <1>6, ItemFields DEF Announce, Same, SameItem
  <2>2. Chosen' = Chosen
    BY <2>1 DEF Chosen
  <2>3. QED
    BY <2>1, <2>2, Stutters
<1>7. CASE MarkItemAired
  <2>1. f.pc = "mark" /\ f'.pc = "nextup" /\ f.req # NoRequest
    BY <1>7, GoFields DEF MarkItemAired, Items
  <2>2. Chosen = f.req /\ Chosen' = NoRequest /\ f.req \in Ids
    BY <1>1, <2>1, ChosenType DEF Chosen
  <2>3. CASE UNCHANGED rows
    BY <2>2, <2>3, LetsGo
  <2>4. CASE rows' = MarkAired(rows, f.req)
    <3>1. \A j \in Ids : rows'[j].status = IF j = f.req THEN "aired" ELSE rows[j].status
      BY <1>1, <2>2, <2>4, StatusWrites
    <3>2. StatusMap' = [StatusMap EXCEPT ![f.req] = "aired"]
      BY <2>2, <3>1, OneStatus
    <3>3. StatusMap[Chosen] \in {"ready", "failed"}
      BY <2>1, <2>2 DEF Holding, StatusMap
    <3>4. Lifecycle!Air
      BY <2>1, <2>2, <3>2, <3>3 DEF Lifecycle!Air
    <3>5. QED
      BY <3>4 DEF Lifecycle!Next
  <2>5. QED
    BY <1>7, <2>3, <2>4 DEF MarkItemAired
<1>8. QED
  BY <1>2, <1>3, <1>4, <1>5, <1>6, <1>7

\* What others do to a request: it is added, becomes ready or is removed.
LEMMA OthersRefine ==
  ASSUME TypeOK, Others
  PROVE  [Lifecycle!Next]_(Lifecycle!vars)
<1> rows \in Table
  BY DEF TypeOK, Table
<1>1. UNCHANGED f
  BY DEF Others, GoOnAir, GoOffAir, SkipTrack, RequestArrives, RequestAcquired,
         RequestRemoved, DirectorPeeks, DeleteTrack, AddTrack, DirectorPins,
         DirectorGivesUp, process
<1>2. Chosen' = Chosen
  BY <1>1 DEF Chosen
<1>3. ASSUME NEW i \in Ids, NEW t \in Tracks, NEW s \in PendingStatus,
             RequestArrives(i, t, s)
      PROVE  Lifecycle!Next
  <2>1. \A j \in Ids : rows'[j].status = IF j = i THEN s ELSE rows[j].status
    BY <1>3 DEF RequestArrives, Create, Table
  <2>2. StatusMap' = [StatusMap EXCEPT ![i] = s] /\ StatusMap[i] = "none"
    BY <1>3, <2>1, OneStatus DEF RequestArrives, IsNextId, StatusMap
  <2>3. Lifecycle!Insert(i)
    BY <1>2, <2>2 DEF Lifecycle!Insert, PendingStatus
  <2>4. QED
    BY <2>3 DEF Lifecycle!Next
<1>4. ASSUME NEW i \in Ids, RequestAcquired(i)
      PROVE  Lifecycle!Next
  <2>1. \A j \in Ids : rows'[j].status = IF j = i THEN "ready" ELSE rows[j].status
    BY <1>4, StatusWrites DEF RequestAcquired
  <2>2. StatusMap' = [StatusMap EXCEPT ![i] = "ready"] /\ StatusMap[i] = "approved"
    BY <1>4, <2>1, OneStatus DEF RequestAcquired, StatusMap
  <2>3. Lifecycle!Acquire(i)
    BY <1>2, <2>2 DEF Lifecycle!Acquire
  <2>4. QED
    BY <2>3 DEF Lifecycle!Next
<1>5. ASSUME NEW i \in Ids, RequestRemoved(i)
      PROVE  Lifecycle!Next
  <2>1. \A j \in Ids : rows'[j].status = IF j = i THEN "failed" ELSE rows[j].status
    BY <1>5, StatusWrites DEF RequestRemoved
  <2>2. StatusMap' = [StatusMap EXCEPT ![i] = "failed"]
        /\ StatusMap[i] \in {"approved", "ready"}
    BY <1>5, <2>1, OneStatus DEF RequestRemoved, StatusMap, PendingStatus
  <2>3. Lifecycle!Fail(i)
    BY <1>2, <2>2 DEF Lifecycle!Fail
  <2>4. QED
    BY <2>3 DEF Lifecycle!Next
<1>6. CASE UNCHANGED rows
  BY <1>2, <1>6, Stutters
<1>7. QED
  BY <1>3, <1>4, <1>5, <1>6
     DEF Others, GoOnAir, GoOffAir, SkipTrack, DirectorPeeks, DeleteTrack, AddTrack,
         DirectorPins, DirectorGivesUp

\* Every step of the broadcast is a step of the lifecycle or a stutter.
LEMMA NextRefines ==
  ASSUME TypeOK, Items, Holding, [Next]_vars
  PROVE  [Lifecycle!Next]_(Lifecycle!vars)
<1>1. CASE Feed
  BY <1>1, EmptyHandRefines, PlanRefines, ItemRefines DEF Feed
<1>2. CASE Lookahead \/ UNCHANGED vars
  <2>1. UNCHANGED <<f, rows>>
    BY <1>2 DEF Lookahead, PrefetchPlan, PrefetchOpen, vars
  <2>2. QED
    BY <2>1, Stutters DEF Chosen
<1>3. CASE Restart
  <2>1. f'.pc = "poll" /\ UNCHANGED rows
    BY <1>3, IdleFields DEF Restart
  <2>2. QED
    BY <2>1, LetsGo DEF Chosen
<1>4. QED
  BY <1>1, <1>2, <1>3, OthersRefine DEF Next

\* A plan airs a request or fails one.
LEMMA PlanShapes ==
  ASSUME TypeOK, Holding, [Next]_vars
  PROVE  f'.plan.kind = "air" => f'.plan.fail = NoRequest
<1>1. f \in FeedType
  BY DEF TypeOK
<1>2. CASE \/ EngineStarts \/ NoClip \/ PlanFails \/ CommitFails \/ OpenFails
           \/ MarkItemAired \/ StartPrefetch \/ RestartSwap \/ CloseSession
  <2>1. f'.plan = f.plan
    BY <1>2, GoFields
       DEF EngineStarts, NoClip, PlanFails, CommitFails, OpenFails, MarkItemAired,
           StartPrefetch, RestartSwap, CloseSession, Same
  <2>2. QED
    BY <2>1 DEF Holding
<1>3. CASE SessionBoot \/ SessionSetup
  <2>1. f' = IdleFeed \/ f'.plan = f.plan
    BY <1>3, SeamFields
  <2>2. QED
    BY <2>1, IdleFields DEF Holding
<1>4. CASE TakeClip \/ OpenSkips \/ AirSkipped \/ AirEnds \/ GiveUp
  <2>1. (\E await : NextTurn(await)) \/ f'.plan = f.plan
    BY <1>4, SeamFields, ItemFields DEF OpenSkips, GiveUp, TrackFinished
  <2>2. QED
    BY <2>1, TurnFields DEF Holding
<1>5. CASE TakePrefetch
  <2>1. f'.plan \in planNext
    BY <1>5, SeamFields
  <2>2. QED
    BY <2>1, PlansChosen
<1>6. CASE Commit
  <2>1. f'.plan.kind = "stop" \/ f'.plan = f.plan
    BY <1>6, SeamFields, GoFields, TurnFields DEF Same
  <2>2. QED
    BY <2>1 DEF Holding
<1>7. CASE Open \/ Announce \/ CommitNextUpRead \/ CommitNextUpWrite \/ AirStops
             \/ AirFails \/ AirCrashes
  <2>1. f'.plan = f.plan
    BY <1>7, ItemFields DEF Same
  <2>2. QED
    BY <2>1 DEF Holding
<1>8. CASE RestartMake \/ RestartSweep \/ Reopen \/ DrainPrefetch
  <2>1. f'.plan.kind = "stop" \/ f'.plan = f.plan
    BY <1>8, RestartFields, GoFields DEF Same
  <2>2. QED
    BY <2>1 DEF Holding
<1>9. CASE ReclaimDir \/ Restart
  BY <1>9, IdleFields DEF ReclaimDir, Restart
<1>10. CASE Lookahead \/ Others \/ UNCHANGED vars
  <2>1. UNCHANGED f
    BY <1>10
       DEF Lookahead, PrefetchPlan, PrefetchOpen, Others, GoOnAir, GoOffAir, SkipTrack,
           RequestArrives, RequestAcquired, RequestRemoved, DirectorPeeks, DeleteTrack,
           AddTrack, DirectorPins, DirectorGivesUp, process, vars
  <2>2. QED
    BY <2>1 DEF Holding
<1>11. QED
  BY <1>2, <1>3, <1>4, <1>5, <1>6, <1>7, <1>8, <1>9, <1>10 DEF Next, Feed

\* A request in hand stays one that was ready.
LEMMA ChosenKept ==
  ASSUME TypeOK, Holding, [Lifecycle!Next]_(Lifecycle!vars), TypeOK'
  PROVE  Chosen' # NoRequest => rows'[Chosen'].status \in {"ready", "failed"}
<1>1. /\ Chosen \in Ids \cup {NoRequest} /\ NoRequest \notin Ids
      /\ Chosen # NoRequest => StatusMap[Chosen] \in {"ready", "failed"}
  BY ChosenType DEF Holding, StatusMap
<1>2. Chosen' \in Ids \cup {NoRequest}
  <2>1. f'.plan.req \in Ids \cup {NoRequest} /\ f'.plan.fail \in Ids \cup {NoRequest}
    BY DEF TypeOK, FeedType, PlanType
  <2>2. f'.req \in Ids \cup {NoRequest}
    BY DEF TypeOK, FeedType
  <2>3. QED
    BY <2>1, <2>2 DEF Chosen
<1>3. Chosen' # NoRequest => StatusMap'[Chosen'] \in {"ready", "failed"}
  <2>1. CASE UNCHANGED Lifecycle!vars
    BY <1>1, <2>1 DEF Lifecycle!vars
  <2>2. ASSUME NEW i \in Ids, Lifecycle!Insert(i) \/ Lifecycle!Acquire(i)
                                 \/ Lifecycle!Fail(i) \/ Lifecycle!Choose(i)
        PROVE  Chosen' # NoRequest => StatusMap'[Chosen'] \in {"ready", "failed"}
    BY <1>1, <2>2 DEF Lifecycle!Insert, Lifecycle!Acquire, Lifecycle!Fail,
       Lifecycle!Choose, StatusMap
  <2>3. CASE Lifecycle!Drop \/ Lifecycle!Air
    BY <2>3 DEF Lifecycle!Drop, Lifecycle!Air
  <2>4. QED
    BY <2>1, <2>2, <2>3 DEF Lifecycle!Next
<1>4. QED
  BY <1>2, <1>3 DEF StatusMap

LEMMA NextHolding ==
  ASSUME IInv, Servings, Holding, [Next]_vars
  PROVE  Holding'
<1>1. TypeOK /\ Items /\ TypeOK'
  BY NextTypes DEF IInv
<1>2. [Lifecycle!Next]_(Lifecycle!vars)
  BY <1>1, NextRefines
<1>3. Chosen' # NoRequest => rows'[Chosen'].status \in {"ready", "failed"}
  BY <1>1, <1>2, ChosenKept
<1>4. f'.plan.kind = "air" => f'.plan.fail = NoRequest
  BY <1>1, PlanShapes
<1>5. f'.pc \in {"poll", "boot", "setup"} => f'.req = NoRequest
  BY <1>1, StartsEmpty
<1>6. QED
  BY <1>3, <1>4, <1>5 DEF Holding

LEMMA InitHolding == Init => Holding
  BY IdleFields DEF Init, Holding, Chosen

\* An aired request stays aired through the session: no later step of the feed
\* overwrites its row, although the store's statements would (query.sql:146-150).
AiredIsFinal ==
    [][\A i \in Ids : rows[i].status = "aired" => rows'[i].status = "aired"]_vars

LEMMA AiredStays ==
  ASSUME [Lifecycle!Next]_(Lifecycle!vars), NEW i \in Ids, rows[i].status = "aired"
  PROVE  rows'[i].status = "aired"
<1>1. StatusMap[i] = "aired"
  BY DEF StatusMap
<1>2. StatusMap'[i] = "aired"
  <2>1. CASE UNCHANGED Lifecycle!vars
    BY <1>1, <2>1 DEF Lifecycle!vars
  <2>2. ASSUME NEW j \in Ids, Lifecycle!Insert(j) \/ Lifecycle!Acquire(j)
                                 \/ Lifecycle!Fail(j) \/ Lifecycle!Choose(j)
        PROVE  StatusMap'[i] = "aired"
    BY <1>1, <2>2 DEF Lifecycle!Insert, Lifecycle!Acquire, Lifecycle!Fail,
       Lifecycle!Choose, StatusMap
  <2>3. CASE Lifecycle!Drop \/ Lifecycle!Air
    BY <1>1, <2>3 DEF Lifecycle!Drop, Lifecycle!Air, StatusMap
  <2>4. QED
    BY <2>1, <2>2, <2>3 DEF Lifecycle!Next
<1>3. QED
  BY <1>2 DEF StatusMap

-----------------------------------------------------------------------------
(* The air log and the request table.                                       *)

\* Request i is aired in the table, or about to be.
Announced(i) == rows[i].status = "aired" \/ (f.pc = "mark" /\ f.req = i)

\* The append to the air log and the mark on the row are two writes, and a failed
\* one is only logged (feeder.go:817-830): what is aired in the table has an entry, and
\* what has entries is aired in the table, but for one request and entry per failure.
LogAgrees ==
    \A i \in Ids :
        /\ Announced(i) => served[i] + faults >= 1
        /\ served[i] > 0 /\ ~Announced(i) => served[i] <= faults

\* Only the mark makes a row aired.
LEMMA OnlyMarkAirs ==
  ASSUME TypeOK, [Next]_vars, ~MarkItemAired, NEW i \in Ids, rows'[i].status = "aired"
  PROVE  rows[i].status = "aired"
<1>1. f \in FeedType /\ rows \in Table /\ NoRequest \notin Ids
  BY IdsAssumption DEF TypeOK, Table, NoRequest
<1>2. f.req \in Ids \cup {NoRequest} /\ f.plan.fail \in Ids \cup {NoRequest}
  BY <1>1 DEF FeedType, PlanType
<1>3. \/ UNCHANGED rows
      \/ \E k \in Ids : \/ rows' = MarkFailed(rows, k)
                        \/ rows' = MarkReady(rows, k)
                        \/ rows' = FailPending(rows, k)
      \/ \E k \in Ids, t \in Tracks, s \in PendingStatus : RequestArrives(k, t, s)
  <2>1. CASE Commit \/ OpenSkips
    BY <1>2, <2>1 DEF Commit, OpenSkips
  <2>2. CASE Feed /\ ~Commit /\ ~OpenSkips
    BY <2>2
       DEF Feed, EngineStarts, SessionBoot, SessionSetup, TakeClip, NoClip, TakePrefetch,
           PlanFails, CommitFails, Open, OpenFails, Announce, CommitNextUpRead,
           CommitNextUpWrite, StartPrefetch, AirStops, AirSkipped, AirEnds, AirFails,
           AirCrashes, RestartMake, RestartSwap, RestartSweep, Reopen, GiveUp,
           CloseSession, DrainPrefetch, ReclaimDir
  <2>3. CASE Others
    BY <2>3
       DEF Others, GoOnAir, GoOffAir, SkipTrack, RequestAcquired, RequestRemoved,
           DirectorPeeks, DeleteTrack, AddTrack, DirectorPins, DirectorGivesUp
  <2>4. CASE Lookahead \/ Restart \/ UNCHANGED vars
    BY <2>4 DEF Lookahead, PrefetchPlan, PrefetchOpen, Restart, vars
  <2>5. QED
    BY <2>1, <2>2, <2>3, <2>4 DEF Next
<1>4. ASSUME NEW k \in Ids, NEW t \in Tracks, NEW s \in PendingStatus,
             RequestArrives(k, t, s)
      PROVE  rows[i].status = "aired"
  <2>1. rows'[i].status = IF i = k THEN s ELSE rows[i].status
    BY <1>1, <1>4 DEF RequestArrives, Create, Table
  <2>2. QED
    BY <2>1 DEF PendingStatus
<1>5. ASSUME NEW k \in Ids, \/ rows' = MarkFailed(rows, k)
                            \/ rows' = MarkReady(rows, k)
                            \/ rows' = FailPending(rows, k)
      PROVE  rows[i].status = "aired"
  BY <1>1, <1>5, StatusWrites
<1>6. QED
  BY <1>3, <1>4, <1>5

\* The item waits for its mark from its announcement to the mark itself.
LEMMA MarkStays ==
  ASSUME TypeOK, [Next]_vars, ~Announce, ~MarkItemAired, ~Restart
  PROVE  UNCHANGED f \/ (f.pc # "mark" /\ f'.pc # "mark")
<1>1. CASE Lookahead \/ Others \/ UNCHANGED vars
  BY <1>1
     DEF Lookahead, PrefetchPlan, PrefetchOpen, Others, GoOnAir, GoOffAir, SkipTrack,
         RequestArrives, RequestAcquired, RequestRemoved, DirectorPeeks, DeleteTrack,
         AddTrack, DirectorPins, DirectorGivesUp, process, vars
<1>2. CASE Feed
  <2>1. f.pc # "mark"
    BY <1>2
       DEF Feed, EngineStarts, SessionBoot, SessionSetup, TakeClip, NoClip, TakePrefetch,
           PlanFails, Commit, CommitFails, Open, OpenSkips, OpenFails,
           CommitNextUpRead, CommitNextUpWrite, StartPrefetch, AirStops, AirSkipped,
           AirEnds, AirFails, AirCrashes, Airing, RestartMake, RestartSwap,
           RestartSweep, Reopen, GiveUp, CloseSession, DrainPrefetch, ReclaimDir
  <2>2. CASE EngineStarts \/ NoClip \/ PlanFails \/ CommitFails \/ OpenFails
               \/ StartPrefetch \/ RestartSwap \/ CloseSession
    BY <2>1, <2>2, GoFields
       DEF EngineStarts, NoClip, PlanFails, CommitFails, OpenFails, StartPrefetch,
           RestartSwap, CloseSession
  <2>3. CASE \/ TakeClip \/ TakePrefetch \/ Commit \/ OpenSkips \/ AirSkipped \/ AirEnds
             \/ GiveUp
    <3>1. (\E await : NextTurn(await))
            \/ f'.pc \in {"clip", "commit", "close", "open", "announce"}
      BY <2>3, SeamFields, ItemFields, GoFields DEF OpenSkips, GiveUp, TrackFinished
    <3>2. QED
      BY <2>1, <3>1, TurnFields
  <2>4. CASE \/ Open \/ CommitNextUpRead \/ CommitNextUpWrite \/ AirStops \/ AirFails
             \/ AirCrashes
    BY <2>1, <2>4, ItemFields
  <2>5. CASE RestartMake \/ RestartSweep \/ Reopen \/ DrainPrefetch
    BY <2>1, <2>5, RestartGoes
  <2>6. CASE SessionBoot \/ SessionSetup \/ ReclaimDir
    BY <2>1, <2>6, SeamFields, IdleFields DEF ReclaimDir
  <2>7. QED
    BY <1>2, <2>2, <2>3, <2>4, <2>5, <2>6 DEF Feed
<1>3. QED
  BY <1>1, <1>2 DEF Next

LEMMA NextLog ==
  ASSUME IInv, Servings, Holding, LogAgrees, [Next]_vars
  PROVE  LogAgrees'
<1>1. TypeOK /\ Items /\ f \in FeedType /\ rows \in Table
  BY DEF IInv, TypeOK, Table
<1>2. [Lifecycle!Next]_(Lifecycle!vars)
  BY <1>1, NextRefines
<1> SUFFICES ASSUME NEW i \in Ids
             PROVE  /\ Announced(i)' => served'[i] + faults' >= 1
                    /\ served'[i] > 0 /\ ~Announced(i)' => served'[i] <= faults'
  BY DEF LogAgrees
<1>3. /\ served[i] \in Nat /\ faults \in Nat /\ i # NoRequest
      /\ served[i] <= 1 + faults
      /\ Announced(i) => served[i] + faults >= 1
      /\ served[i] > 0 /\ ~Announced(i) => served[i] <= faults
  BY IdsAssumption DEF IInv, TypeOK, Servings, LogAgrees, NoRequest
<1>4. rows[i].status = "aired" => rows'[i].status = "aired"
  BY <1>2, AiredStays
<1>5. faults' \in {faults, faults + 1}
  BY <1>1, Counters DEF Fault
<1>6. CASE Announce
  <2>1. /\ f.pc = "announce" /\ f'.req = f.req /\ UNCHANGED rows
        /\ f'.pc = IF f.req = NoRequest THEN "nextup" ELSE "mark"
    BY <1>1, <1>6, ItemFields DEF Announce, Same, SameItem
  <2>2. CASE f.req = i
    <3>1. Announced(i)'
      BY <1>3, <2>1, <2>2 DEF Announced
    <3>2. \/ served'[i] = served[i] + 1 \/ (served' = served /\ faults' = faults + 1)
      <4>1. served \in [Ids -> Nat]
        BY <1>1 DEF TypeOK
      <4>2. QED
        BY <1>3, <1>6, <2>2, <4>1 DEF Announce, Fault
    <3>3. QED
      BY <1>3, <1>5, <3>1, <3>2
  <2>3. CASE f.req # i
    <3>1. Announced(i)' <=> Announced(i)
      BY <2>1, <2>3 DEF Announced
    <3>2. served'[i] = served[i]
      <4>1. served \in [Ids -> Nat]
        BY <1>1 DEF TypeOK
      <4>2. QED
        BY <1>6, <2>3, <4>1 DEF Announce
    <3>3. QED
      BY <1>3, <1>5, <3>1, <3>2
  <2>4. QED
    BY <2>2, <2>3
<1>7. CASE Restart \/ (MarkItemAired /\ Fault /\ UNCHANGED rows)
  <2>1. served' = served /\ faults' = faults + 1 /\ UNCHANGED rows
    BY <1>7 DEF Restart, MarkItemAired, Fault
  <2>2. f'.pc # "mark"
    BY <1>1, <1>7, IdleFields, GoFields DEF Restart, MarkItemAired
  <2>3. Announced(i)' => Announced(i)
    BY <2>1, <2>2 DEF Announced
  <2>4. QED
    BY <1>3, <2>1, <2>3
<1>8. CASE MarkItemAired /\ rows' = MarkAired(rows, f.req) /\ UNCHANGED faults
  <2>1. f.pc = "mark" /\ f'.pc = "nextup" /\ f.req # NoRequest /\ served' = served
    BY <1>1, <1>8, GoFields DEF MarkItemAired, Items
  <2>2. f.req \in Ids
    BY <1>1, <2>1 DEF FeedType
  <2>3. rows'[i].status = IF i = f.req THEN "aired" ELSE rows[i].status
    BY <1>1, <1>8, <2>2, StatusWrites
  <2>4. Announced(i)' <=> Announced(i)
    BY <2>1, <2>3 DEF Announced
  <2>5. QED
    BY <1>3, <1>8, <2>1, <2>4
<1>9. CASE ~Announce /\ ~MarkItemAired /\ ~Restart
  <2>1. rows'[i].status = "aired" <=> rows[i].status = "aired"
    BY <1>1, <1>4, <1>9, OnlyMarkAirs
  <2>2. UNCHANGED f \/ (f.pc # "mark" /\ f'.pc # "mark")
    BY <1>1, <1>9, MarkStays
  <2>3. Announced(i)' <=> Announced(i)
    BY <2>1, <2>2 DEF Announced
  <2>4. served' = served
    BY <1>9, Counters
  <2>5. QED
    BY <1>3, <1>5, <2>3, <2>4
<1>10. QED
  BY <1>6, <1>7, <1>8, <1>9 DEF MarkItemAired

-----------------------------------------------------------------------------
(* Theorems.                                                                *)

\* What the feed holds was ready when it was taken.
THEOREM HoldingInductive == Spec => [](IInv /\ Servings /\ Holding)
<1>1. IInv /\ Servings /\ Holding /\ [Next]_vars => Holding'
  BY NextHolding
<1>2. QED
  BY <1>1, InitHolding, Inductive, ServingsKept, PTL DEF Spec

\* The broadcast implements RequestLifecycle, with its kills, failed writes, stale
\* pins and vanished tracks: a request becomes aired only out of the feed's hands.
THEOREM Refinement == Spec => RefinesLifecycle
<1>1. Init => Lifecycle!Init
  <2>1. Init => StatusMap = [i \in Ids |-> "none"]
    BY DEF Init, StatusMap, EmptyRow
  <2>2. Init => Chosen = NoRequest
    BY IdleFields DEF Init, Chosen
  <2>3. QED
    BY <2>1, <2>2 DEF Lifecycle!Init
<1>2. IInv /\ Servings /\ Holding /\ [Next]_vars => [Lifecycle!Next]_(Lifecycle!vars)
  BY NextRefines DEF IInv
<1>3. QED
  BY <1>1, <1>2, HoldingInductive, PTL DEF Spec, RefinesLifecycle, Lifecycle!Spec

\* An aired request stays aired.
THEOREM AiredForever == Spec => AiredIsFinal
<1>1. IInv /\ Servings /\ Holding /\ [Next]_vars
        => [\A i \in Ids : rows[i].status = "aired" => rows'[i].status = "aired"]_vars
  BY NextRefines, AiredStays DEF IInv
<1>2. QED
  BY <1>1, HoldingInductive, PTL DEF Spec, AiredIsFinal

\* The air log and the request table agree, but for one request per failure.
THEOREM LogAgreesWithTable == Spec => []LogAgrees
<1>1. Init => LogAgrees
  <2>1. ASSUME Init, NEW i \in Ids
        PROVE  ~Announced(i) /\ served[i] = 0
    BY <2>1, IdleFields DEF Init, Announced, EmptyRow
  <2>2. QED
    BY <2>1 DEF LogAgrees
<1>2. IInv /\ Servings /\ Holding /\ LogAgrees /\ [Next]_vars => LogAgrees'
  BY NextLog
<1>3. QED
  BY <1>1, <1>2, HoldingInductive, PTL DEF Spec
=============================================================================
