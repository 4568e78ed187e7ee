-------------------------- MODULE RequestLifecycle --------------------------
(***************************************************************************)
(* What the request queue promises, without its actors: every request has  *)
(* a status, the feed has at most one request chosen for the air, and only *)
(* the chosen request ever becomes aired.                                  *)
(*                                                                         *)
(* The package comment of internal/request (request.go:1-3) gives the life *)
(* of a request as approved -> ready -> aired | failed.  The code keeps a  *)
(* weaker promise, stated here: a request that failed can still become     *)
(* aired, but only while it is the chosen one, because the feed announces  *)
(* a chosen request without reading its row again.                         *)
(***************************************************************************)
CONSTANTS Ids,       \* request ids
          NoRequest  \* nothing chosen

VARIABLES status,  \* status of every request
          chosen   \* the request the feed is about to air, or NoRequest

vars == <<status, chosen>>

Init ==
    /\ status = [i \in Ids |-> "none"]
    /\ chosen = NoRequest

\* A listener or the programmer adds a request; a cached track is ready at once.
Insert(i) ==
    /\ status[i] = "none"
    /\ \E s \in {"approved", "ready"} : status' = [status EXCEPT ![i] = s]
    /\ UNCHANGED chosen

Acquire(i) ==
    /\ status[i] = "approved"
    /\ status' = [status EXCEPT ![i] = "ready"]
    /\ UNCHANGED chosen

\* A failed acquire or an operator's removal ends a pending request.
Fail(i) ==
    /\ status[i] \in {"approved", "ready"}
    /\ status' = [status EXCEPT ![i] = "failed"]
    /\ UNCHANGED chosen

Choose(i) ==
    /\ chosen = NoRequest
    /\ status[i] = "ready"
    /\ chosen' = i
    /\ UNCHANGED status

\* The feed gives the chosen request up: it failed to open (and is marked
\* failed, unless the store refuses), or the process restarts.
Drop ==
    /\ chosen # NoRequest
    /\ status[chosen] \in {"ready", "failed"}
    /\ status' \in {status, [status EXCEPT ![chosen] = "failed"]}
    /\ chosen' = NoRequest

\* The chosen request airs; an operator may have failed it in the meantime.
Air ==
    /\ chosen # NoRequest
    /\ status[chosen] \in {"ready", "failed"}
    /\ status' = [status EXCEPT ![chosen] = "aired"]
    /\ chosen' = NoRequest

Next ==
    \/ \E i \in Ids : Insert(i) \/ Acquire(i) \/ Fail(i) \/ Choose(i)
    \/ Drop
    \/ Air

Spec == Init /\ [][Next]_vars
=============================================================================
