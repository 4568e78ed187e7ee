---------------------------- MODULE RequestTwins ----------------------------
(***************************************************************************)
(* The two request stores: PGStore, on air, and MemStore, its twin that the *)
(* tests of the feeder, the worker, the programmer and the calls run on.    *)
(* One sequence of calls is made on both.  The table is RequestStore's; the *)
(* twin is what mem.go keeps: a list of items in insertion order and a map  *)
(* from ids to positions.                                                   *)
(***************************************************************************)
EXTENDS RequestStore, SequencesExt

CONSTANTS Askers, Wishes,    \* users and yt ids
          MaxItems,          \* bound on rows
          Nobody, NoWish     \* the user of an AI pick; no track

ASSUME TwinsAssumption ==
    MaxItems \in Nat /\ Nobody \notin Askers /\ NoWish \notin Wishes

ItemId == 1..MaxItems

VARIABLES table,      \* the request table
          created, airedAt, \* its created_at and aired_at, 0: NULL
          items, positions, \* MemStore
          moment      \* stamps given out so far

twinVars == <<table, created, airedAt, items, positions, moment>>

TwinsInit ==
    /\ table = [i \in ItemId |-> EmptyRow(Nobody, NoWish)]
    /\ created = [i \in ItemId |-> 0] /\ airedAt = [i \in ItemId |-> 0]
    /\ items = <<>> /\ positions = <<>>
    /\ moment = 0

MemPendingIds == {i \in DOMAIN items : items[i].status \in PendingStatus}

Natural(source) == {i \in MemPendingIds \ DOMAIN positions : items[i].source = source}

MemPendingBug == <<MemPendingIds \cap DOMAIN positions, Natural("listener") \cup Natural("ai"), {}>>

\* pendingLocked returns three lists end to end: of the items that have a position, of
\* listeners' and of picks without one.
MemPending == <<MemPendingIds \cap DOMAIN positions, Natural("listener"), Natural("ai")>>

\* The first by position, all in insertion order otherwise: the sort is stable.
MemAirsBefore(i, j) ==
    \E k, l \in DOMAIN MemPending :
        /\ i \in MemPending[k] /\ j \in MemPending[l]
        /\ \/ k < l
           \/ k = l /\ IF k = 1 /\ positions[i] # positions[j]
                       THEN positions[i] < positions[j] ELSE i < j

-----------------------------------------------------------------------------
(* Writes, each on both stores.                                             *)

MemSet(i, status) == items' = [items EXCEPT ![i].status = status]

CreateBoth ==
    \E i \in ItemId, yt \in Wishes, user \in Askers \cup {Nobody}, status \in PendingStatus :
        LET source == IF user = Nobody THEN "ai" ELSE "listener"
        IN  /\ IsNextId(table, i)
            /\ moment' = moment + 1
            /\ table' = Create(table, i, source, user, yt, status)
            /\ created' = [created EXCEPT ![i] = moment']
            /\ items' = Append(items, [status |-> status, source |-> source, user |-> user,
                                       yt |-> yt, attempts |-> 0, created |-> moment',
                                       airedAt |-> 0])
            /\ UNCHANGED <<airedAt, positions>>

MarkReadyBoth ==
    \E i \in DOMAIN items :
        /\ table' = MarkReady(table, i)
        /\ IF items[i].status = "approved" THEN MemSet(i, "ready") ELSE UNCHANGED items
        /\ UNCHANGED <<created, airedAt, positions, moment>>

\* The feed marks a request once, also one removed or failed meanwhile.
MarkAiredBoth ==
    \E i \in DOMAIN items :
        /\ airedAt[i] = 0
        /\ moment' = moment + 1
        /\ table' = MarkAired(table, i)
        /\ airedAt' = [airedAt EXCEPT ![i] = moment']
        /\ items' = [items EXCEPT ![i].status = "aired", ![i].airedAt = moment']
        /\ UNCHANGED <<created, positions>>

\* The worker and the feed fail a request they hold, which nobody else airs.
MarkFailedBoth ==
    \E i \in DOMAIN items :
        /\ items[i].status # "aired"
        /\ table' = MarkFailed(table, i)
        /\ MemSet(i, "failed")
        /\ UNCHANGED <<created, airedAt, positions, moment>>

FailPendingBoth ==
    \E i \in DOMAIN items :
        /\ table' = FailPending(table, i)
        /\ IF items[i].status \in PendingStatus THEN MemSet(i, "failed") ELSE UNCHANGED items
        /\ UNCHANGED <<created, airedAt, positions, moment>>

\* The worker's claim.  Once in all: more attempts differ in nothing.
BumpAttemptsBoth ==
    \E i \in DOMAIN items :
        /\ IsOldestApproved(table, i) /\ \A j \in DOMAIN items : items[j].attempts = 0
        /\ table' = BumpAttempts(table, i)
        /\ items' = [items EXCEPT ![i].attempts = @ + 1]
        /\ UNCHANGED <<created, airedAt, positions, moment>>

Distinct(ids) == \A k, l \in DOMAIN ids : ids[k] = ids[l] => k = l

\* Lists an operator may send of n items, m of them pending: as long as the queue,
\* of ids that may be stale; of one id twice; the empty one.
OrderedLists ==
    [n \in 0..MaxItems |-> [m \in 0..MaxItems |->
        {<<>>} \cup {<<i, i>> : i \in 1..n}
               \cup UNION {SetToSeqs(some) : some \in {u \in SUBSET (1..n) : Cardinality(u) = m}}]]

\* A list that is not the pending set is stale; old positions are overwritten.
ReorderBoth ==
    \E ids \in OrderedLists[Len(items)][Cardinality(MemPendingIds)] :
        /\ table' = IF ReorderAccepts(Pending(table), ids) THEN Reorder(table, ids) ELSE table
        /\ positions' =
              IF /\ Len(ids) = Cardinality(MemPendingIds)
                 /\ Distinct(ids) /\ ToSet(ids) \subseteq MemPendingIds
              THEN [i \in ToSet(ids) \cup DOMAIN positions |->
                       IF i \in ToSet(ids) THEN IndexIn(ids, i) - 1 ELSE positions[i]]
              ELSE positions
        /\ UNCHANGED <<created, airedAt, items, moment>>

TwinsNext ==
    \/ CreateBoth \/ MarkReadyBoth \/ MarkAiredBoth \/ MarkFailedBoth
    \/ FailPendingBoth \/ BumpAttemptsBoth \/ ReorderBoth

TwinsSpec == TwinsInit /\ [][TwinsNext]_twinVars

-----------------------------------------------------------------------------
(* What the callers read.                                                   *)

\* ORDER BY COALESCE(aired_at, created_at) DESC
TerminalBefore(i, j) ==
    LET at(k) == IF airedAt[k] # 0 THEN airedAt[k] ELSE created[k]
    IN  at(i) > at(j)

\* RecentTerminal of the twin: its rows, and their order.
MemTerminal == {i \in DOMAIN items : items[i].status \in TerminalStatus}
MemTerminalBefore(i, j) ==
    LET at(k) == IF items[k].status = "aired" /\ items[k].airedAt # 0
                 THEN items[k].airedAt ELSE items[k].created
    IN  at(i) > at(j)

\* ByUser walks the twin's items backwards; both stop at the same limit.
MemByUser(u) == {i \in DOMAIN items : items[i].user = u}
MemByUserBefore(i, j) == j < i

\* ORDER BY created_at DESC
ByUser(u) == {i \in ItemId : table[i].user = u}
ByUserBefore(i, j) == created[i] > created[j]

MemOldestApproved(i) ==
    items[i].status = "approved" /\ \A j \in DOMAIN items : items[j].status = "approved" => i <= j

\* The quota and duplicate checks of a call; since is a moment.
MemCountPendingByUser(u) ==
    Cardinality({i \in DOMAIN items : items[i].user = u /\ items[i].status \in PendingStatus})
MemHasPendingYTID(t) ==
    \E i \in DOMAIN items : items[i].yt = t /\ items[i].status \in PendingStatus
MemCountSince(u, since) ==
    Cardinality({i \in DOMAIN items : items[i].user = u /\ items[i].created >= since})
CountSince(u, since) ==
    Cardinality({i \in ItemId : table[i].user = u /\ created[i] >= since})

\* A list of the twin is what the query answers: the same rows, in the one order the
\* query can give them.
Answers(rows, InList(_, _), ids, Before(_, _)) ==
    /\ rows = ids
    /\ \A i, j \in ids : i # j =>
          /\ InList(i, j) <=> Before(i, j)
          /\ Before(i, j) <=> ~Before(j, i)

-----------------------------------------------------------------------------
(* Properties.                                                              *)

MemItem == [status : Status \ {"none"}, source : {"listener", "ai"}, user : Askers \cup {Nobody},
            yt : Wishes, attempts : {0, 1}, created : Nat, airedAt : Nat]

\* Types.
TwinsTypeOK ==
    /\ table \in [ItemId -> Row(Askers, Wishes, Nobody, NoWish)]
    /\ created \in [ItemId -> Nat] /\ airedAt \in [ItemId -> Nat]
    /\ items \in Seq(MemItem)
    /\ DOMAIN positions \subseteq DOMAIN items
    /\ moment \in 0..(2 * MaxItems)

\* What a test sees on MemStore is what PostgreSQL does: after any calls the
\* queue has the same order, its reads pick the same rows and count the same
\* quotas, and every row has the same fate.
MemAgrees ==
    /\ \A i \in DOMAIN items :
           /\ table[i].status = items[i].status /\ table[i].attempts = items[i].attempts
           /\ IsOldestApproved(table, i) <=> MemOldestApproved(i)
    /\ Answers(UNION {MemPending[k] : k \in DOMAIN MemPending}, MemAirsBefore,
               Pending(table), LAMBDA i, j : AirsBefore(table, i, j))
    /\ Answers(MemTerminal, MemTerminalBefore,
               {i \in ItemId : table[i].status \in TerminalStatus}, TerminalBefore)
    /\ \A u \in Askers :
           /\ Answers(MemByUser(u), MemByUserBefore, ByUser(u), ByUserBefore)
           /\ CountPendingByUser(table, u) = MemCountPendingByUser(u)
           /\ \A since \in 1..moment : CountSince(u, since) = MemCountSince(u, since)
    /\ \A t \in Wishes : HasPendingYTID(table, t) <=> MemHasPendingYTID(t)
=============================================================================
