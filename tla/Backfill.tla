------------------------------ MODULE Backfill ------------------------------
(***************************************************************************)
(* cmd/radio-lab-cues: one run of the backfill that measures the cues of    *)
(* tracks acquired before there were any.  Its only memory is the column it *)
(* fills, so a track that cannot be measured is selected again and again.   *)
(* The station runs on beside it: rows are deleted and added meanwhile.     *)
(***************************************************************************)
EXTENDS Naturals, FiniteSets, FiniteSetsExt

CONSTANTS Shelf,   \* library rows, numbered from the oldest
          Batch,   \* the flag -batch: rows of one round
          MaxBlips \* bound on failures of sound artifacts

ASSUME BackfillAssumption ==
    /\ Shelf \subseteq Nat /\ IsFiniteSet(Shelf)
    /\ Batch \in Nat \ {0} /\ MaxBlips \in Nat

VARIABLES cues,      \* a row's tail_silence_s: missing (the sentinel) or measured
          broken,    \* rows whose artifact cannot be read or decoded
          backfill,  \* main: where it is, and why it stopped
          pendingCues, \* rows of this round still to measure
          progressed,
          alreadyFailed,
          listed,    \* history: what was missing at the last query
          blips      \* failures of sound artifacts so far

backfillVars ==
    <<cues, broken, backfill, pendingCues, progressed, alreadyFailed, listed, blips>>

MissingRows == {r \in Shelf : cues[r] = "missing"}

\* MissingCues: the newest rows first, at most Batch of them.
MissingCues ==
    {r \in MissingRows : Cardinality({q \in MissingRows : q > r}) < Batch}

BackfillInit ==
    /\ cues \in [Shelf -> {"absent", "missing"}]
    /\ broken \in SUBSET Shelf
    /\ backfill = "query"
    /\ pendingCues = {} /\ progressed = FALSE /\ alreadyFailed = {}
    /\ listed = {} /\ blips = 0

-----------------------------------------------------------------------------
(* main's loop.                                                             *)

QueryEmpty ==
    /\ backfill = "query" /\ MissingRows = {}
    /\ backfill' = "finished" /\ listed' = {}
    /\ UNCHANGED <<cues, broken, pendingCues, progressed, alreadyFailed, blips>>

\* A round of rows that have not failed yet; none left: stop rather than spin.
QueryRound ==
    /\ backfill = "query" /\ MissingRows # {}
    /\ listed' = MissingRows
    /\ pendingCues' = MissingCues \ alreadyFailed
    /\ progressed' = FALSE
    /\ backfill' = IF pendingCues' = {} THEN "finished" ELSE "round"
    /\ UNCHANGED <<cues, broken, alreadyFailed, blips>>

\* The query fails: the process exits.
QueryFails ==
    /\ backfill = "query" /\ blips < MaxBlips
    /\ backfill' = "cancelled" /\ blips' = blips + 1
    /\ UNCHANGED <<cues, broken, pendingCues, progressed, alreadyFailed, listed>>

\* measureOne succeeds, also for a row deleted between its fetch and SetCues,
\* which then writes nothing.
Measures ==
    /\ backfill = "round" /\ pendingCues # {}
    /\ LET r == Max(pendingCues)
       IN  /\ r \notin broken
           /\ cues' = IF cues[r] = "missing" THEN [cues EXCEPT ![r] = "measured"] ELSE cues
           /\ pendingCues' = pendingCues \ {r}
    /\ progressed' = TRUE
    /\ UNCHANGED <<broken, backfill, alreadyFailed, listed, blips>>

MeasureFailsBug ==
    /\ backfill = "round" /\ pendingCues # {} /\ Max(pendingCues) \in broken
    /\ pendingCues' = {}
    /\ alreadyFailed' = alreadyFailed \cup {Max(pendingCues)}
    /\ UNCHANGED <<cues, broken, backfill, progressed, listed, blips>>

\* A broken artifact, one deleted with its row, or a blip.
MeasureFails ==
    /\ backfill = "round" /\ pendingCues # {}
    /\ LET r == Max(pendingCues)
           troubled == r \in broken \/ cues[r] = "deleted"
       IN  /\ troubled \/ blips < MaxBlips
           /\ blips' = IF troubled THEN blips ELSE blips + 1
           /\ pendingCues' = pendingCues \ {r}
           /\ alreadyFailed' = alreadyFailed \cup {r}
    /\ UNCHANGED <<cues, broken, backfill, progressed, listed>>

\* A round without progress is the last.
RoundEnds ==
    /\ backfill = "round" /\ pendingCues = {}
    /\ backfill' = IF progressed THEN "query" ELSE "finished"
    /\ UNCHANGED <<cues, broken, pendingCues, progressed, alreadyFailed, listed, blips>>

\* SIGTERM, seen at the head of the loop and between two tracks.
Cancelled ==
    /\ backfill \in {"query", "round"}
    /\ backfill' = "cancelled" /\ pendingCues' = {}
    /\ UNCHANGED <<cues, broken, progressed, alreadyFailed, listed, blips>>

-----------------------------------------------------------------------------
(* The station beside it.                                                   *)

\* Acquire adds a row whose cues it could not measure: a row newer than any.
RowArrives ==
    /\ \E r \in Shelf :
          /\ cues[r] = "absent" /\ \A q \in Shelf : q > r => cues[q] = "absent"
          /\ cues' = [cues EXCEPT ![r] = "missing"]
    /\ UNCHANGED <<broken, backfill, pendingCues, progressed, alreadyFailed, listed, blips>>

RowDeleted ==
    /\ \E r \in Shelf :
          cues[r] \in {"missing", "measured"} /\ cues' = [cues EXCEPT ![r] = "deleted"]
    /\ UNCHANGED <<broken, backfill, pendingCues, progressed, alreadyFailed, listed, blips>>

BackfillNext ==
    \/ QueryEmpty \/ QueryRound \/ QueryFails
    \/ Measures \/ MeasureFails \/ RoundEnds \/ Cancelled
    \/ RowArrives \/ RowDeleted

BackfillSpec == BackfillInit /\ [][BackfillNext]_backfillVars

-----------------------------------------------------------------------------
(* Properties.                                                              *)

\* Types.
BackfillTypeOK ==
    /\ cues \in [Shelf -> {"absent", "missing", "measured", "deleted"}]
    /\ broken \subseteq Shelf
    /\ backfill \in {"query", "round", "finished", "cancelled"}
    /\ pendingCues \subseteq Shelf /\ alreadyFailed \subseteq Shelf /\ listed \subseteq Shelf
    /\ progressed \in BOOLEAN /\ blips \in 0..MaxBlips

\* main.go: "one unreadable artifact must never strand the rest of the library".
\* A run that finishes, having met fewer failing tracks than a round has rows,
\* leaves none of the rows it knew of unmeasured and untried, whatever fails, is
\* deleted or is added in between.  (With Batch failing tracks at the head of the
\* query it does stop short of the rest.)
BackfillStrandsNothing ==
    backfill = "finished" /\ Cardinality(alreadyFailed) < Batch =>
        \A r \in listed : cues[r] # "missing" \/ r \in alreadyFailed
=============================================================================
