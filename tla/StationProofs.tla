--------------------------- MODULE StationProofs ---------------------------
(***************************************************************************)
(* The seven components of MCStation side by side, for every value of their *)
(* constants: a run of the station is a run of each of them, so every       *)
(* promise of one is a promise of the station.                              *)
(***************************************************************************)
EXTENDS MCStation, TimelineProofs, BroadcastProofs, StorageProofs, BudgetProofs

\* A component starts where it may start, whichever one runs.
LEMMA StationStarts ==
  ASSUME Snapshots # {}, StationInit
  PROVE  /\ TimelineInit /\ BroadcastInit /\ LibraryInit /\ BackfillInit
         /\ BudgetInit /\ BucketsInit /\ TwinsInit
<1>1. TimelineInit
  BY DEF StationInit, TimelineAtRest, TimelineInit
<1>2. BackfillInit
  BY DEF StationInit, BackfillAtRest
<1> QED
  BY <1>1, <1>2 DEF StationInit

\* A step of the station is a step of one component and none of the others.
LEMMA StationSteps ==
  ASSUME [StationNext]_stationVars
  PROVE  /\ [TimelineNext]_timelineVars /\ [BroadcastNext]_broadcastVars
         /\ [LibraryNext]_libraryVars /\ [BackfillNext]_backfillVars
         /\ [BudgetNext]_budgetVars /\ [BucketsNext]_bucketVars
         /\ [TwinsNext]_twinVars
<1>1. CASE StationNext
  BY <1>1 DEF StationNext
<1>2. CASE UNCHANGED stationVars
  BY <1>2 DEF stationVars
<1> QED
  BY <1>1, <1>2

\* A run of the station is a run of each component.
THEOREM StationRunsAll ==
  ASSUME Snapshots # {}
  PROVE  StationSpec => /\ TimelineSpec /\ BroadcastSpec /\ LibrarySpec /\ BackfillSpec
                        /\ BudgetSpec /\ BucketsSpec /\ TwinsSpec
<1>1. StationInit => /\ TimelineInit /\ BroadcastInit /\ LibraryInit /\ BackfillInit
                     /\ BudgetInit /\ BucketsInit /\ TwinsInit
  BY StationStarts
<1>2. [StationNext]_stationVars
        => /\ [TimelineNext]_timelineVars /\ [BroadcastNext]_broadcastVars
           /\ [LibraryNext]_libraryVars /\ [BackfillNext]_backfillVars
           /\ [BudgetNext]_budgetVars /\ [BucketsNext]_bucketVars
           /\ [TwinsNext]_twinVars
  BY StationSteps
<1> QED
  BY <1>1, <1>2, PTL
     DEF StationSpec, TimelineSpec, BroadcastSpec, LibrarySpec, BackfillSpec, BudgetSpec,
         BucketsSpec, TwinsSpec

\* TypeOK: every variable of every component keeps its type.
THEOREM StationTyped ==
  ASSUME Snapshots # {}, Searchers # {}
  PROVE  StationSpec => []TypeOK
<1>1. TypeOK <=> /\ TimelineTypeOK /\ BroadcastTypeOK /\ LibraryTypeOK /\ BackfillTypeOK
                 /\ BudgetTypeOK /\ BucketsTypeOK /\ TwinsTypeOK
  BY DEF TypeOK
<1> QED
  BY <1>1, StationRunsAll, Typed, BroadcastTyped, LibraryTyped, BackfillTyped,
     BudgetTyped, BucketsTyped, TwinsTyped, PTL

\* What the console shows, what is recorded, what is stored and what is spent: the
\* promises of all seven hold together in every state of the station.
THEOREM StationSafe ==
  ASSUME Snapshots # {}
  PROVE  StationSpec => [](/\ RunningOrder /\ MusicAgrees /\ FirstBreakAgrees /\ CadenceKept
                           /\ BroadcastRecord /\ ItemsInsideBroadcasts /\ AiringReported
                           /\ LibraryBacked /\ BackfillStrandsNothing
                           /\ BudgetBound /\ BucketRate /\ MemAgrees)
  BY StationRunsAll, Ordered, MusicRight, FirstBreakRight, Cadenced, RecordKept,
     ItemsHoused, ConsoleRight, Backed, NothingStranded, SpendingBounded, RateHeld,
     TwinsAgree, PTL
=============================================================================
