---------------------------- MODULE RequestStore ----------------------------
(***************************************************************************)
(* The request store of internal/request: one table that is both the       *)
(* station's play queue and its request record.  Every operator is one     *)
(* statement of pg.go / query.sql (one statement is one atomic step of     *)
(* PostgreSQL) applied to a value q of the table; the modules that extend   *)
(* this one decide who runs which statement and when.                      *)
(*                                                                         *)
(* A table maps every row id to a row.  Ids are numbers in creation order  *)
(* (created_at, id), so comparing ids compares creation times; an id whose *)
(* status is "none" has not been inserted yet.                             *)
(***************************************************************************)
EXTENDS Integers, Sequences, FiniteSets

\* position IS NULL: the row is in the natural tier
NoPosition == -1

PendingStatus == {"approved", "ready"}
TerminalStatus == {"aired", "failed"}
Status == {"none"} \cup PendingStatus \cup TerminalStatus
Source == {"none", "listener", "ai"}

\* A row of the table: only the columns some decision reads.
Row(Users, Tracks, NoUser, NoTrack) ==
    [status : Status, source : Source, user : Users \cup {NoUser},
     yt : Tracks \cup {NoTrack}, pos : Nat \cup {NoPosition}, attempts : Nat]

EmptyRow(NoUser, NoTrack) ==
    [status |-> "none", source |-> "none", user |-> NoUser, yt |-> NoTrack,
     pos |-> NoPosition, attempts |-> 0]

-----------------------------------------------------------------------------
(* Reads. *)

Pending(q) == {i \in DOMAIN q : q[i].status \in PendingStatus}
Ready(q) == {i \in DOMAIN q : q[i].status = "ready"}

\* ORDER BY position IS NULL, position, (source = 'ai'), created_at, id
AirsBefore(q, i, j) ==
    LET positioned(k) == q[k].pos # NoPosition
        natural == \/ q[i].source = "listener" /\ q[j].source = "ai"
                   \/ q[i].source = q[j].source /\ i < j
    IN  \/ positioned(i) /\ ~positioned(j)
        \/ positioned(i) /\ positioned(j)
           /\ (q[i].pos < q[j].pos \/ (q[i].pos = q[j].pos /\ natural))
        \/ ~positioned(i) /\ ~positioned(j) /\ natural

\* NextReady: the head of the ready queue under the air order.
IsNextReady(q, i) ==
    i \in Ready(q) /\ \A j \in Ready(q) \ {i} : AirsBefore(q, i, j)

IsOldestApprovedBug(q, i) ==
    /\ q[i].status \in PendingStatus
    /\ \A j \in DOMAIN q : q[j].status \in PendingStatus => i <= j

\* OldestApproved: any source, oldest first.
IsOldestApproved(q, i) ==
    /\ q[i].status = "approved"
    /\ \A j \in DOMAIN q : q[j].status = "approved" => i <= j

PendingOfUser(q, u) ==
    {i \in DOMAIN q : q[i].user = u /\ q[i].status \in PendingStatus}

CountPendingByUser(q, u) == Cardinality(PendingOfUser(q, u))

PendingOfTrack(q, t) ==
    {i \in DOMAIN q : q[i].yt = t /\ q[i].status \in PendingStatus}

HasPendingYTID(q, t) == PendingOfTrack(q, t) # {}

-----------------------------------------------------------------------------
(* Writes. *)

SetStatus(q, i, s) == [q EXCEPT ![i].status = s]

\* The next insert takes the smallest id not inserted yet.
IsNextId(q, i) ==
    /\ q[i].status = "none"
    /\ \A j \in DOMAIN q : q[j].status = "none" => i <= j

Create(q, i, source, user, yt, status) ==
    [q EXCEPT ![i] = [status |-> status, source |-> source, user |-> user,
                      yt |-> yt, pos |-> NoPosition, attempts |-> 0]]

\* UPDATE ... WHERE id = $1 AND status = 'approved'
MarkReady(q, i) ==
    IF q[i].status = "approved" THEN SetStatus(q, i, "ready") ELSE q

\* UPDATE ... WHERE id = $1: no condition on the status
MarkAired(q, i) == SetStatus(q, i, "aired")
MarkFailed(q, i) == SetStatus(q, i, "failed")

\* UPDATE ... WHERE id = $1 AND status IN ('approved', 'ready')
FailPendingBug(q, i) == SetStatus(q, i, "failed")
FailPending(q, i) ==
    IF q[i].status \in PendingStatus THEN SetStatus(q, i, "failed") ELSE q

BumpAttempts(q, i) == [q EXCEPT ![i].attempts = @ + 1]

IndexIn(s, e) == CHOOSE k \in DOMAIN s : s[k] = e

\* The check of Reorder: ids must equal the pending set it has just read.
ReorderAccepts(pending, ids) ==
    /\ Len(ids) = Cardinality(pending)
    /\ {ids[k] : k \in DOMAIN ids} = pending

\* A positioned row keeps its old position.
ReorderBug(q, ids) ==
    [i \in DOMAIN q |->
        IF q[i].pos = NoPosition /\ \E k \in DOMAIN ids : ids[k] = i
        THEN [q[i] EXCEPT !.pos = IndexIn(ids, i) - 1]
        ELSE q[i]]

\* Explicit positions 0..n-1 in the order of ids.
Reorder(q, ids) ==
    [i \in DOMAIN q |->
        IF \E k \in DOMAIN ids : ids[k] = i
        THEN [q[i] EXCEPT !.pos = IndexIn(ids, i) - 1]
        ELSE q[i]]
=============================================================================
