----------------------------- MODULE MCStation -----------------------------
(***************************************************************************)
(* The components that share no state with each other, checked side by      *)
(* side: a behaviour picks one of them (`focus`) and runs it, the others    *)
(* stay where they start.  Nothing is lost by it: what one of them does     *)
(* neither enables nor changes what another does.                           *)
(***************************************************************************)
EXTENDS MCTimeline, Broadcast, Library, Backfill, Budget, Buckets, RequestTwins

VARIABLE focus

Focuses == {"timeline", "broadcast", "library", "backfill", "budget", "buckets", "twins"}

stationVars == <<focus, timelineVars, broadcastVars, libraryVars, backfillVars,
                 budgetVars, bucketVars, twinVars>>

\* The inputs of a component at rest.
TimelineAtRest == Read(CHOOSE s \in Snapshots : TRUE)
BackfillAtRest == BackfillInit /\ broken = {} /\ \A r \in Shelf : cues[r] = "absent"

StationInit ==
    /\ focus \in Focuses
    /\ IF focus = "timeline" THEN TimelineInit ELSE TimelineAtRest
    /\ IF focus = "backfill" THEN BackfillInit ELSE BackfillAtRest
    /\ BroadcastInit /\ LibraryInit /\ BudgetInit /\ BucketsInit /\ TwinsInit

StationNext ==
    /\ UNCHANGED focus
    /\ IF focus = "timeline" THEN TimelineNext ELSE UNCHANGED timelineVars
    /\ IF focus = "broadcast" THEN BroadcastNext ELSE UNCHANGED broadcastVars
    /\ IF focus = "library" THEN LibraryNext ELSE UNCHANGED libraryVars
    /\ IF focus = "backfill" THEN BackfillNext ELSE UNCHANGED backfillVars
    /\ IF focus = "budget" THEN BudgetNext ELSE UNCHANGED budgetVars
    /\ IF focus = "buckets" THEN BucketsNext ELSE UNCHANGED bucketVars
    /\ IF focus = "twins" THEN TwinsNext ELSE UNCHANGED twinVars

StationSpec == StationInit /\ [][StationNext]_stationVars

\* Types of all of them.
TypeOK ==
    /\ TimelineTypeOK /\ BroadcastTypeOK /\ LibraryTypeOK /\ BackfillTypeOK
    /\ BudgetTypeOK /\ BucketsTypeOK /\ TwinsTypeOK
=============================================================================
