--------------------------- MODULE StorageProofs ---------------------------
(***************************************************************************)
(* What is kept between two runs of the process, and its stand-in in the    *)
(* tests.  The library's promise, for any number of songs, callers, readers, *)
(* artifacts and failures: LibraryBacked.  The promise of the backfill that  *)
(* completes its rows, for any shelf, batch and number of failures:         *)
(* BackfillStrandsNothing.  And that the twin of the request table is the    *)
(* table (MemAgrees), for every number of users, tracks and rows and every   *)
(* sequence of calls.                                                       *)
(*                                                                         *)
(* LibraryBacked is not inductive.  What makes it so is that an artifact is  *)
(* handed on and never shared: one that is being stored belongs to one      *)
(* caller and to no row, no two rows name one artifact, and one that is     *)
(* being removed left its row before.                                       *)
(*                                                                         *)
(* The twin keeps no ids and no NULLs: its rows are places of a list, its   *)
(* positions a map beside it.  TInv says how the two hold the same rows     *)
(* (Same, NoRowYet), and what makes the two orders of each list one: no      *)
(* stamp is given out twice, only an aired row has its second (Stamps), and  *)
(* a reorder is of the whole queue, so that no two positions in it are       *)
(* equal (PositionsApart).                                                  *)
(***************************************************************************)
EXTENDS Library, Backfill, RequestTwins, TLAPS, FiniteSetTheorems, WellFoundedInduction

\* A caller that stored something of an artifact no row names yet.
Storing(c) == acquires[c].pc \in {"meta", "add"}

\* What a caller knows: the song it asked for, an artifact given out before, and
\* the objects it stored.
Hands ==
    \A c \in Callers :
        /\ acquires[c].pc # "idle" => acquires[c].song \in Songs
        /\ acquires[c].pc \in {"meta", "add", "read"} => acquires[c].artifact \in 1..named
        /\ acquires[c].pc = "meta" => acquires[c].artifact \in blobs
        /\ acquires[c].pc = "add" => acquires[c].artifact \in blobs \cap metas

\* Artifacts are named before they are stored, deleted or answered.
Named ==
    /\ \A s \in Songs : tracks[s] \in 0..named
    /\ blobs \subseteq 1..named
    /\ metas \subseteq 1..named
    /\ removed \subseteq 1..named

\* A DeleteTrack works on an artifact whose row is gone, its blob first.
Removal ==
    \A o \in Deleters :
        /\ deletions[o].pc = "idle" => deletions[o].artifact = NoArtifact
        /\ deletions[o].pc # "idle" => deletions[o].artifact \in removed
        /\ deletions[o].pc = "meta" => deletions[o].artifact \notin blobs

\* An artifact being stored is in one pair of hands and in no row.
Apart ==
    \A c \in Callers :
        Storing(c) =>
            /\ acquires[c].artifact \notin removed
            /\ \A s \in Songs : tracks[s] # acquires[c].artifact
            /\ \A d \in Callers :
                  d # c /\ Storing(d) => acquires[d].artifact # acquires[c].artifact

\* No two rows share an artifact, and a deleted row's artifact is in none.
RowsApart ==
    \A s \in Songs :
        tracks[s] # NoArtifact =>
            /\ tracks[s] \notin removed
            /\ \A t \in Songs : t # s => tracks[t] # tracks[s]

\* ReadersServed, one holder at a time.
Served ==
    /\ \A r \in Readers :
          readers[r] # NoArtifact => readers[r] \in (blobs \cap metas) \cup removed
    /\ \A c \in Callers :
          acquires[c].pc = "read" /\ acquires[c].artifact # NoArtifact
              => acquires[c].artifact \in (blobs \cap metas) \cup removed

\* OrphansExplained, one artifact at a time.
Explained(x) ==
    \/ \E s \in Songs : tracks[s] = x
    \/ \E c \in Callers : Storing(c) /\ acquires[c].artifact = x
    \/ \E o \in Deleters : deletions[o].artifact = x
    \/ x \in outdone
    \/ x \in failed
Orphans == \A x \in blobs \cup metas : Explained(x)

LibraryInv ==
    /\ LibraryTypeOK
    /\ Hands
    /\ Named
    /\ Removal
    /\ Apart
    /\ RowsApart
    /\ RowsStored
    /\ Served
    /\ Orphans

-----------------------------------------------------------------------------
(* What LibraryInv says of the property.                                          *)

LEMMA ServedIsReadersServed == Served => ReadersServed
  BY DEF Served, ReadersServed

LEMMA OrphansAreExplained ==
  ASSUME LibraryTypeOK, Orphans
  PROVE  OrphansExplained
<1> SUFFICES ASSUME NEW x \in blobs \cup metas
             PROVE  x \in {tracks[s] : s \in Songs} \cup InHand \cup outdone \cup failed
  BY DEF OrphansExplained
<1>1. x # NoArtifact
  BY DEF LibraryTypeOK, ArtifactId, NoArtifact
<1>2. Explained(x)
  BY DEF Orphans
<1> QED
  BY <1>1, <1>2 DEF Explained, Storing, InHand

LEMMA Promised == LibraryInv => LibraryBacked
  BY ServedIsReadersServed, OrphansAreExplained DEF LibraryInv, LibraryBacked

-----------------------------------------------------------------------------
(* The initial states.                                                      *)

LEMMA LibraryStarts == LibraryInit => LibraryInv
<1> SUFFICES ASSUME LibraryInit PROVE LibraryInv
  OBVIOUS
<1> USE DEF LibraryInit, IdleAcquire, IdleDeletion, NoArtifact
<1>1. LibraryTypeOK
  BY LibraryAssumption DEF LibraryTypeOK, Acquire, Deletion, ArtifactId
<1>2. Hands /\ Named /\ Removal
  BY DEF Hands, Named, Removal
<1>3. Apart /\ RowsApart /\ RowsStored
  BY DEF Apart, RowsApart, RowsStored, Storing
<1>4. Served /\ Orphans
  BY DEF Served, Orphans
<1> QED
  BY <1>1, <1>2, <1>3, <1>4 DEF LibraryInv

-----------------------------------------------------------------------------
(* Acquire.                                                                 *)
\* A caller begins with an artifact of a row, or with none.
LEMMA BeginsKeeps ==
  ASSUME LibraryInv, NEW c \in Callers, AcquireBegins(c)
  PROVE  LibraryInv'
<1>0. /\ LibraryTypeOK /\ Hands /\ Named /\ Removal /\ Apart
      /\ RowsApart /\ RowsStored /\ Served /\ Orphans
  BY DEF LibraryInv
<1>1. PICK s \in Songs :
        acquires' = [acquires EXCEPT ![c] =
            [pc |-> IF tracks[s] = NoArtifact THEN "fetch" ELSE "read",
             song |-> s, artifact |-> tracks[s]]]
  BY DEF AcquireBegins
<1>2. \A d \in Callers \ {c} : acquires'[d] = acquires[d]
  BY <1>0, <1>1 DEF LibraryTypeOK
<1>3. /\ acquires[c].pc = "idle"
      /\ acquires'[c].song = s /\ acquires'[c].artifact = tracks[s]
      /\ acquires'[c].pc = IF tracks[s] = NoArtifact THEN "fetch" ELSE "read"
      /\ UNCHANGED <<tracks, blobs, metas, deletions, readers, named, removed, outdone, failed>>
  BY <1>0, <1>1 DEF LibraryTypeOK, Acquire, AcquireBegins, store, history
<1>4. LibraryTypeOK'
  <2>1. acquires' \in [Callers -> Acquire]
    BY <1>0, <1>1, LibraryAssumption DEF LibraryTypeOK, Acquire, ArtifactId, NoArtifact,
       AcquireBegins, IdleAcquire
  <2> QED
    BY <2>1, <1>0, LibraryAssumption DEF LibraryTypeOK, AcquireBegins, store, history
<1>5. Hands'
  BY <1>0, <1>1, <1>2, <1>3 DEF Hands, Named, NoArtifact
<1>6. Named'
  BY <1>0, <1>1, <1>2, <1>3 DEF Named
<1>7. Removal'
  BY <1>0, <1>1, <1>2, <1>3 DEF Removal
<1>8. Apart'
  BY <1>0, <1>1, <1>2, <1>3 DEF Apart, Storing
<1>9. RowsApart'
  BY <1>0, <1>1, <1>2, <1>3 DEF RowsApart
<1>10. RowsStored'
  BY <1>0, <1>1, <1>2, <1>3 DEF RowsStored
<1>11. Served'
  BY <1>0, <1>1, <1>2, <1>3 DEF Served, RowsStored
<1>12. Orphans'
  <2> SUFFICES ASSUME NEW x \in (blobs \cup metas)' PROVE Explained(x)'
    BY DEF Orphans
  <2>1. x \in blobs \cup metas => Explained(x)
    BY <1>0 DEF Orphans
  <2> QED
    BY <2>1, <1>0, <1>1, <1>2, <1>3 DEF Explained, Storing
<1> QED
  BY <1>4, <1>5, <1>6, <1>7, <1>8, <1>9, <1>10, <1>11, <1>12 DEF LibraryInv

\* A rejected download stored nothing.
LEMMA RejectedKeeps ==
  ASSUME LibraryInv, NEW c \in Callers, AcquireRejected(c)
  PROVE  LibraryInv'
<1>0. /\ LibraryTypeOK /\ Hands /\ Named /\ Removal /\ Apart
      /\ RowsApart /\ RowsStored /\ Served /\ Orphans
  BY DEF LibraryInv
<1>1. \A d \in Callers \ {c} : acquires'[d] = acquires[d]
  BY <1>0 DEF LibraryTypeOK, AcquireRejected
<1>2. /\ acquires[c].pc = "fetch"
      /\ acquires'[c].pc = "idle"
      /\ UNCHANGED <<tracks, blobs, metas, deletions, readers, named, removed, outdone, failed>>
  BY <1>0 DEF LibraryTypeOK, Acquire, AcquireRejected, store, history, IdleAcquire
<1>3. LibraryTypeOK'
  <2>1. acquires' \in [Callers -> Acquire]
    BY <1>0, LibraryAssumption DEF LibraryTypeOK, Acquire, ArtifactId, NoArtifact, AcquireRejected,
       IdleAcquire
  <2> QED
    BY <2>1, <1>0, LibraryAssumption DEF LibraryTypeOK, AcquireRejected, store, history
<1>4. Hands'
  BY <1>0, <1>1, <1>2 DEF Hands
<1>5. Named'
  BY <1>0, <1>1, <1>2 DEF Named
<1>6. Removal'
  BY <1>0, <1>1, <1>2 DEF Removal
<1>7. Apart'
  BY <1>0, <1>1, <1>2 DEF Apart, Storing
<1>8. RowsApart'
  BY <1>0, <1>1, <1>2 DEF RowsApart
<1>9. RowsStored'
  BY <1>0, <1>1, <1>2 DEF RowsStored
<1>10. Served'
  BY <1>0, <1>1, <1>2 DEF Served
<1>11. Orphans'
  <2> SUFFICES ASSUME NEW x \in (blobs \cup metas)' PROVE Explained(x)'
    BY DEF Orphans
  <2>1. x \in blobs \cup metas => Explained(x)
    BY <1>0 DEF Orphans
  <2> QED
    BY <2>1, <1>0, <1>1, <1>2 DEF Explained, Storing
<1> QED
  BY <1>3, <1>4, <1>5, <1>6, <1>7, <1>8, <1>9, <1>10, <1>11 DEF LibraryInv

\* A blob is stored under a new name.
LEMMA PutBlobKeeps ==
  ASSUME LibraryInv, NEW c \in Callers, PutBlob(c)
  PROVE  LibraryInv'
<1>0. /\ LibraryTypeOK /\ Hands /\ Named /\ Removal /\ Apart
      /\ RowsApart /\ RowsStored /\ Served /\ Orphans
  BY DEF LibraryInv
<1>1. \A d \in Callers \ {c} : acquires'[d] = acquires[d]
  BY <1>0 DEF LibraryTypeOK, PutBlob
<1>2. /\ acquires[c].pc = "fetch"
      /\ acquires'[c] = [pc |-> "meta", song |-> acquires[c].song, artifact |-> named + 1]
      /\ named' = named + 1
      /\ blobs' = blobs \cup {named + 1}
      /\ UNCHANGED <<tracks, metas, deletions, readers, removed, outdone, failed>>
  BY <1>0 DEF LibraryTypeOK, Acquire, PutBlob, store, history
<1>3. named \in Nat /\ named + 1 \in ArtifactId
  BY <1>0, LibraryAssumption DEF LibraryTypeOK, PutBlob, ArtifactId
<1>4. LibraryTypeOK'
  <2>1. acquires' \in [Callers -> Acquire]
    BY <1>0, <1>2, <1>3, LibraryAssumption DEF LibraryTypeOK, Acquire, NoArtifact, PutBlob,
       IdleAcquire
  <2> QED
    BY <2>1, <1>0, <1>2, <1>3, LibraryAssumption DEF LibraryTypeOK, PutBlob, store, history
<1>5. Hands'
  BY <1>0, <1>1, <1>2, <1>3 DEF Hands, Named
<1>6. Named'
  <2>1. 0..named \subseteq 0..(named + 1) /\ 1..named \subseteq 1..(named + 1)
        /\ named + 1 \in 1..(named + 1)
    BY <1>3
  <2> QED
    BY <1>0, <1>2, <2>1 DEF Named
<1>7. Removal'
  BY <1>0, <1>1, <1>2, <1>3 DEF Removal, Named
<1>8. Apart'
  BY <1>0, <1>1, <1>2, <1>3 DEF Apart, Storing, Hands, Named
<1>9. RowsApart'
  BY <1>0, <1>1, <1>2, <1>3 DEF RowsApart
<1>10. RowsStored'
  BY <1>0, <1>1, <1>2, <1>3 DEF RowsStored, Named
<1>11. Served'
  BY <1>0, <1>1, <1>2, <1>3 DEF Served, Named
<1>12. Orphans'
  <2> SUFFICES ASSUME NEW x \in (blobs \cup metas)' PROVE Explained(x)'
    BY DEF Orphans
  <2>1. x \in blobs \cup metas => Explained(x)
    BY <1>0 DEF Orphans
  <2> QED
    BY <2>1, <1>0, <1>1, <1>2, <1>3 DEF Explained, Storing
<1> QED
  BY <1>4, <1>5, <1>6, <1>7, <1>8, <1>9, <1>10, <1>11, <1>12 DEF LibraryInv

\* The meta of the blob its caller stored.
LEMMA PutMetaKeeps ==
  ASSUME LibraryInv, NEW c \in Callers, PutMeta(c)
  PROVE  LibraryInv'
<1>0. /\ LibraryTypeOK /\ Hands /\ Named /\ Removal /\ Apart
      /\ RowsApart /\ RowsStored /\ Served /\ Orphans
  BY DEF LibraryInv
<1>1. \A d \in Callers \ {c} : acquires'[d] = acquires[d]
  BY <1>0 DEF LibraryTypeOK, PutMeta
<1>2. /\ acquires[c].pc = "meta"
      /\ acquires'[c].pc = "add" /\ acquires'[c].song = acquires[c].song
      /\ acquires'[c].artifact = acquires[c].artifact
      /\ metas' = metas \cup {acquires[c].artifact}
      /\ UNCHANGED <<tracks, blobs, deletions, readers, named, removed, outdone, failed>>
  BY <1>0 DEF LibraryTypeOK, Acquire, PutMeta, store, history
<1>3. /\ acquires[c].artifact \in 1..named /\ acquires[c].artifact \in blobs
      /\ acquires[c].artifact \in ArtifactId
  BY <1>0, <1>2 DEF Hands, LibraryTypeOK
<1>4. LibraryTypeOK'
  <2>1. acquires' \in [Callers -> Acquire]
    BY <1>0, LibraryAssumption DEF LibraryTypeOK, Acquire, ArtifactId, NoArtifact, PutMeta,
       IdleAcquire
  <2> QED
    BY <2>1, <1>0, <1>3, LibraryAssumption DEF LibraryTypeOK, PutMeta, store, history
<1>5. Hands'
  BY <1>0, <1>1, <1>2, <1>3 DEF Hands
<1>6. Named'
  BY <1>0, <1>1, <1>2, <1>3 DEF Named
<1>7. Removal'
  BY <1>0, <1>1, <1>2, <1>3 DEF Removal
<1>8. Apart'
  BY <1>0, <1>1, <1>2, <1>3 DEF Apart, Storing
<1>9. RowsApart'
  BY <1>0, <1>1, <1>2, <1>3 DEF RowsApart
<1>10. RowsStored'
  BY <1>0, <1>1, <1>2, <1>3 DEF RowsStored
<1>11. Served'
  BY <1>0, <1>1, <1>2, <1>3 DEF Served
<1>12. Orphans'
  <2> SUFFICES ASSUME NEW x \in (blobs \cup metas)' PROVE Explained(x)'
    BY DEF Orphans
  <2>1. x \in blobs \cup metas => Explained(x)
    BY <1>0 DEF Orphans
  <2> QED
    BY <2>1, <1>0, <1>1, <1>2, <1>3 DEF Explained, Storing
<1> QED
  BY <1>4, <1>5, <1>6, <1>7, <1>8, <1>9, <1>10, <1>11, <1>12 DEF LibraryInv

\* Its objects stay, and are remembered as those of a failed step.
LEMMA CallerFailsKeeps ==
  ASSUME LibraryInv, NEW c \in Callers, AcquireFails(c)
  PROVE  LibraryInv'
<1>0. /\ LibraryTypeOK /\ Hands /\ Named /\ Removal /\ Apart
      /\ RowsApart /\ RowsStored /\ Served /\ Orphans
  BY DEF LibraryInv
<1>1. \A d \in Callers \ {c} : acquires'[d] = acquires[d]
  BY <1>0 DEF LibraryTypeOK, AcquireFails
<1>2. /\ Storing(c)
      /\ acquires'[c].pc = "idle"
      /\ failed' = failed \cup {acquires[c].artifact}
      /\ UNCHANGED <<tracks, blobs, metas, deletions, readers, named, removed, outdone>>
  BY <1>0 DEF LibraryTypeOK, Acquire, AcquireFails, store, history, Fails, IdleAcquire, Storing
<1>3. acquires[c].artifact \in ArtifactId
  BY <1>0, <1>2 DEF Hands, LibraryTypeOK, ArtifactId, Storing
<1>4. LibraryTypeOK'
  <2>1. acquires' \in [Callers -> Acquire]
    BY <1>0, LibraryAssumption DEF LibraryTypeOK, Acquire, ArtifactId, NoArtifact, AcquireFails,
       IdleAcquire
  <2> QED
    BY <2>1, <1>0, <1>3, LibraryAssumption DEF LibraryTypeOK, AcquireFails, store, history, Fails
<1>5. Hands'
  BY <1>0, <1>1, <1>2, <1>3 DEF Hands
<1>6. Named'
  BY <1>0, <1>1, <1>2, <1>3 DEF Named
<1>7. Removal'
  BY <1>0, <1>1, <1>2, <1>3 DEF Removal
<1>8. Apart'
  BY <1>0, <1>1, <1>2, <1>3 DEF Apart, Storing
<1>9. RowsApart'
  BY <1>0, <1>1, <1>2, <1>3 DEF RowsApart
<1>10. RowsStored'
  BY <1>0, <1>1, <1>2, <1>3 DEF RowsStored
<1>11. Served'
  BY <1>0, <1>1, <1>2, <1>3 DEF Served
<1>12. Orphans'
  <2> SUFFICES ASSUME NEW x \in (blobs \cup metas)' PROVE Explained(x)'
    BY DEF Orphans
  <2>1. x \in blobs \cup metas => Explained(x)
    BY <1>0 DEF Orphans
  <2> QED
    BY <2>1, <1>0, <1>1, <1>2, <1>3 DEF Explained, Storing
<1> QED
  BY <1>4, <1>5, <1>6, <1>7, <1>8, <1>9, <1>10, <1>11, <1>12 DEF LibraryInv

\* A row comes to name an artifact both of whose objects are stored, or
\* leaves it behind.
LEMMA AddKeeps ==
  ASSUME LibraryInv, NEW c \in Callers, AddTrack(c)
  PROVE  LibraryInv'
<1>0. /\ LibraryTypeOK /\ Hands /\ Named /\ Removal /\ Apart
      /\ RowsApart /\ RowsStored /\ Served /\ Orphans
  BY DEF LibraryInv
<1>1. \A d \in Callers \ {c} : acquires'[d] = acquires[d]
  BY <1>0 DEF LibraryTypeOK, AddTrack
<1>2. /\ acquires[c].pc = "add"
      /\ acquires'[c].pc = "read" /\ acquires'[c].song = acquires[c].song
      /\ acquires'[c].artifact = acquires[c].artifact
      /\ UNCHANGED <<blobs, metas, deletions, readers, named, removed, failed>>
  BY <1>0 DEF LibraryTypeOK, Acquire, AddTrack, store, history
<1>3. \/ /\ UNCHANGED tracks
         /\ outdone' = outdone \cup {acquires[c].artifact}
      \/ /\ tracks[acquires[c].song] = NoArtifact
         /\ tracks'[acquires[c].song] = acquires[c].artifact
         /\ \A s \in Songs \ {acquires[c].song} : tracks'[s] = tracks[s]
         /\ UNCHANGED outdone
  BY <1>0 DEF LibraryTypeOK, Hands, AddTrack
<1>4. acquires[c].song \in Songs /\ acquires[c].artifact \in 1..named
     /\ acquires[c].artifact \in ArtifactId
  BY <1>0, <1>2 DEF Hands, LibraryTypeOK, ArtifactId
<1>5. LibraryTypeOK'
  <2>1. acquires' \in [Callers -> Acquire]
    BY <1>0, LibraryAssumption DEF LibraryTypeOK, Acquire, ArtifactId, NoArtifact, AddTrack,
       IdleAcquire
  <2> QED
    BY <2>1, <1>0, <1>4, LibraryAssumption DEF LibraryTypeOK, AddTrack, store, history
<1>6. Hands'
  BY <1>0, <1>1, <1>2, <1>3, <1>4 DEF Hands
<1>7. Named'
  BY <1>0, <1>1, <1>2, <1>3, <1>4 DEF Named
<1>8. Removal'
  BY <1>0, <1>1, <1>2, <1>3, <1>4 DEF Removal
<1>9. Apart'
  BY <1>0, <1>1, <1>2, <1>3, <1>4 DEF Apart, Storing, Hands
<1>10. RowsApart'
  BY <1>0, <1>1, <1>2, <1>3, <1>4 DEF RowsApart, Apart, Storing
<1>11. RowsStored'
  BY <1>0, <1>1, <1>2, <1>3, <1>4 DEF RowsStored, Hands
<1>12. Served'
  BY <1>0, <1>1, <1>2, <1>3, <1>4 DEF Served, Hands
<1>13. Orphans'
  <2> SUFFICES ASSUME NEW x \in (blobs \cup metas)' PROVE Explained(x)'
    BY DEF Orphans
  <2>1. x \in blobs \cup metas => Explained(x)
    BY <1>0 DEF Orphans
  <2>2. x \in blobs \cup metas /\ x # NoArtifact
    BY <1>0, <1>2 DEF Named, NoArtifact
  <2>3. CASE x = acquires[c].artifact
    BY <2>3, <1>3, <1>4 DEF Explained
  <2>4. CASE x # acquires[c].artifact
    <3>1. \A s \in Songs : tracks[s] = x => tracks'[s] = x
      BY <2>2, <1>3
    <3>2. \A d \in Callers :
            Storing(d) /\ acquires[d].artifact = x => acquires'[d] = acquires[d]
      BY <2>4, <1>1
    <3>3. outdone \subseteq outdone'
      BY <1>3
    <3> QED
      BY <2>1, <2>2, <3>1, <3>2, <3>3, <1>2 DEF Explained, Storing
  <2> QED
    BY <2>3, <2>4
<1> QED
  BY <1>5, <1>6, <1>7, <1>8, <1>9, <1>10, <1>11, <1>12, <1>13 DEF LibraryInv

\* A caller is done.
LEMMA CallerReturnsKeeps ==
  ASSUME LibraryInv, NEW c \in Callers, AcquireReturns(c)
  PROVE  LibraryInv'
<1>0. /\ LibraryTypeOK /\ Hands /\ Named /\ Removal /\ Apart
      /\ RowsApart /\ RowsStored /\ Served /\ Orphans
  BY DEF LibraryInv
<1>1. \A d \in Callers \ {c} : acquires'[d] = acquires[d]
  BY <1>0 DEF LibraryTypeOK, AcquireReturns
<1>2. /\ acquires[c].pc = "read"
      /\ acquires'[c].pc = "idle"
      /\ UNCHANGED <<tracks, blobs, metas, deletions, readers, named, removed, outdone, failed>>
  BY <1>0 DEF LibraryTypeOK, Acquire, AcquireReturns, store, history, IdleAcquire
<1>3. LibraryTypeOK'
  <2>1. acquires' \in [Callers -> Acquire]
    BY <1>0, LibraryAssumption DEF LibraryTypeOK, Acquire, ArtifactId, NoArtifact, AcquireReturns,
       IdleAcquire
  <2> QED
    BY <2>1, <1>0, LibraryAssumption DEF LibraryTypeOK, AcquireReturns, store, history
<1>4. Hands'
  BY <1>0, <1>1, <1>2 DEF Hands
<1>5. Named'
  BY <1>0, <1>1, <1>2 DEF Named
<1>6. Removal'
  BY <1>0, <1>1, <1>2 DEF Removal
<1>7. Apart'
  BY <1>0, <1>1, <1>2 DEF Apart, Storing
<1>8. RowsApart'
  BY <1>0, <1>1, <1>2 DEF RowsApart
<1>9. RowsStored'
  BY <1>0, <1>1, <1>2 DEF RowsStored
<1>10. Served'
  BY <1>0, <1>1, <1>2 DEF Served
<1>11. Orphans'
  <2> SUFFICES ASSUME NEW x \in (blobs \cup metas)' PROVE Explained(x)'
    BY DEF Orphans
  <2>1. x \in blobs \cup metas => Explained(x)
    BY <1>0 DEF Orphans
  <2> QED
    BY <2>1, <1>0, <1>1, <1>2 DEF Explained, Storing
<1> QED
  BY <1>3, <1>4, <1>5, <1>6, <1>7, <1>8, <1>9, <1>10, <1>11 DEF LibraryInv

-----------------------------------------------------------------------------
(* Readers.                                                                 *)

\* A reader takes the artifact of a row.
LEMMA FindsKeeps ==
  ASSUME LibraryInv, NEW r \in Readers, ReaderFinds(r)
  PROVE  LibraryInv'
<1>0. /\ LibraryTypeOK /\ Hands /\ Named /\ Removal /\ Apart
      /\ RowsApart /\ RowsStored /\ Served /\ Orphans
  BY DEF LibraryInv
<1>1. \A q \in Readers \ {r} : readers'[q] = readers[q]
  BY <1>0 DEF LibraryTypeOK, ReaderFinds
<1>2. /\ \E s \in Songs : tracks[s] # NoArtifact /\ readers'[r] = tracks[s]
      /\ UNCHANGED <<tracks, blobs, metas, acquires, deletions, named, removed, outdone, failed>>
  BY <1>0 DEF LibraryTypeOK, ReaderFinds, store, history
<1>3. LibraryTypeOK'
  BY <1>0 DEF LibraryTypeOK, ReaderFinds, store, history, NoArtifact
<1>4. Hands'
  BY <1>0, <1>1, <1>2 DEF Hands
<1>5. Named'
  BY <1>0, <1>1, <1>2 DEF Named
<1>6. Removal'
  BY <1>0, <1>1, <1>2 DEF Removal
<1>7. Apart'
  BY <1>0, <1>1, <1>2 DEF Apart, Storing
<1>8. RowsApart'
  BY <1>0, <1>1, <1>2 DEF RowsApart
<1>9. RowsStored'
  BY <1>0, <1>1, <1>2 DEF RowsStored
<1>10. Served'
  BY <1>0, <1>1, <1>2 DEF Served, RowsStored
<1>11. Orphans'
  <2> SUFFICES ASSUME NEW x \in (blobs \cup metas)' PROVE Explained(x)'
    BY DEF Orphans
  <2>1. x \in blobs \cup metas => Explained(x)
    BY <1>0 DEF Orphans
  <2> QED
    BY <2>1, <1>0, <1>1, <1>2 DEF Explained, Storing
<1> QED
  BY <1>3, <1>4, <1>5, <1>6, <1>7, <1>8, <1>9, <1>10, <1>11 DEF LibraryInv

\* A reader is done.
LEMMA FetchesKeeps ==
  ASSUME LibraryInv, NEW r \in Readers, ReaderFetches(r)
  PROVE  LibraryInv'
<1>0. /\ LibraryTypeOK /\ Hands /\ Named /\ Removal /\ Apart
      /\ RowsApart /\ RowsStored /\ Served /\ Orphans
  BY DEF LibraryInv
<1>1. \A q \in Readers \ {r} : readers'[q] = readers[q]
  BY <1>0 DEF LibraryTypeOK, ReaderFetches
<1>2. /\ readers'[r] = NoArtifact
      /\ UNCHANGED <<tracks, blobs, metas, acquires, deletions, named, removed, outdone, failed>>
  BY <1>0 DEF LibraryTypeOK, ReaderFetches, store, history
<1>3. LibraryTypeOK'
  BY <1>0 DEF LibraryTypeOK, ReaderFetches, store, history, NoArtifact
<1>4. Hands'
  BY <1>0, <1>1, <1>2 DEF Hands
<1>5. Named'
  BY <1>0, <1>1, <1>2 DEF Named
<1>6. Removal'
  BY <1>0, <1>1, <1>2 DEF Removal
<1>7. Apart'
  BY <1>0, <1>1, <1>2 DEF Apart, Storing
<1>8. RowsApart'
  BY <1>0, <1>1, <1>2 DEF RowsApart
<1>9. RowsStored'
  BY <1>0, <1>1, <1>2 DEF RowsStored
<1>10. Served'
  BY <1>0, <1>1, <1>2 DEF Served
<1>11. Orphans'
  <2> SUFFICES ASSUME NEW x \in (blobs \cup metas)' PROVE Explained(x)'
    BY DEF Orphans
  <2>1. x \in blobs \cup metas => Explained(x)
    BY <1>0 DEF Orphans
  <2> QED
    BY <2>1, <1>0, <1>1, <1>2 DEF Explained, Storing
<1> QED
  BY <1>3, <1>4, <1>5, <1>6, <1>7, <1>8, <1>9, <1>10, <1>11 DEF LibraryInv

-----------------------------------------------------------------------------
(* DeleteTrack, and the process killed.                                     *)

\* The row goes first, its artifact into DeleteTrack's hands.
LEMMA DeleteRowKeeps ==
  ASSUME LibraryInv, NEW o \in Deleters, DeleteRow(o)
  PROVE  LibraryInv'
<1>0. /\ LibraryTypeOK /\ Hands /\ Named /\ Removal /\ Apart
      /\ RowsApart /\ RowsStored /\ Served /\ Orphans
  BY DEF LibraryInv
<1>1. /\ deletions[o].pc = "idle"
      /\ \A q \in Deleters \ {o} : deletions'[q] = deletions[q]
      /\ UNCHANGED <<blobs, metas, acquires, readers, named, outdone, failed>>
  BY <1>0 DEF LibraryTypeOK, DeleteRow, store, history
<1>2. PICK s \in Songs :
        /\ tracks[s] # NoArtifact
        /\ deletions'[o] = [pc |-> "blob", artifact |-> tracks[s]]
        /\ removed' = removed \cup {tracks[s]}
        /\ tracks'[s] = NoArtifact
        /\ \A t \in Songs \ {s} : tracks'[t] = tracks[t]
  BY <1>0 DEF LibraryTypeOK, DeleteRow
<1>3. LibraryTypeOK'
  <2>1. deletions' \in [Deleters -> Deletion]
    BY <1>0 DEF LibraryTypeOK, Deletion, DeleteRow, IdleDeletion, NoArtifact
  <2>2. failed' \subseteq ArtifactId /\ failures' \in 0..MaxFailures
    BY <1>0, LibraryAssumption DEF LibraryTypeOK, DeleteRow, Fails, history
  <2>3. acquires' \in [Callers -> Acquire]
    BY <1>0, LibraryAssumption DEF LibraryTypeOK, DeleteRow
  <2> QED
    BY <1>0, <2>1, <2>2, <2>3 DEF LibraryTypeOK, DeleteRow, store, history, NoArtifact
<1>4. Hands'
  BY <1>0, <1>1, <1>2 DEF Hands
<1>5. Named'
  <2>1. tracks[s] \in 1..named /\ NoArtifact \in 0..named
    BY <1>0, <1>2, LibraryAssumption DEF Named, NoArtifact, LibraryTypeOK
  <2> QED
    BY <2>1, <1>0, <1>1, <1>2 DEF Named
<1>6. Removal'
  BY <1>0, <1>1, <1>2 DEF Removal, NoArtifact
<1>7. Apart'
  BY <1>0, <1>1, <1>2 DEF Apart, Storing, Hands, NoArtifact
<1>8. RowsApart'
  BY <1>0, <1>1, <1>2 DEF RowsApart
<1>9. RowsStored'
  BY <1>0, <1>1, <1>2 DEF RowsStored
<1>10. Served'
  BY <1>0, <1>1, <1>2 DEF Served
<1>11. Orphans'
  <2> SUFFICES ASSUME NEW x \in (blobs \cup metas)' PROVE Explained(x)'
    BY DEF Orphans
  <2>1. x \in blobs \cup metas => Explained(x)
    BY <1>0 DEF Orphans
  <2> QED
    BY <2>1, <1>0, <1>1, <1>2 DEF Explained, Storing, Removal, Named, NoArtifact
<1> QED
  BY <1>3, <1>4, <1>5, <1>6, <1>7, <1>8, <1>9, <1>10, <1>11 DEF LibraryInv

\* Then the blob.
LEMMA RemoveBlobKeeps ==
  ASSUME LibraryInv, NEW o \in Deleters, RemoveBlob(o)
  PROVE  LibraryInv'
<1>0. /\ LibraryTypeOK /\ Hands /\ Named /\ Removal /\ Apart
      /\ RowsApart /\ RowsStored /\ Served /\ Orphans
  BY DEF LibraryInv
<1>1. /\ deletions[o].pc = "blob"
      /\ \A q \in Deleters \ {o} : deletions'[q] = deletions[q]
      /\ deletions'[o].pc = "meta" /\ deletions'[o].artifact = deletions[o].artifact
      /\ blobs' = blobs \ {deletions[o].artifact}
      /\ UNCHANGED <<tracks, metas, acquires, readers, named, removed, outdone, failed>>
  BY <1>0 DEF LibraryTypeOK, RemoveBlob, store, history, Deletion
<1>2. LibraryTypeOK'
  <2>1. deletions' \in [Deleters -> Deletion]
    BY <1>0 DEF LibraryTypeOK, Deletion, RemoveBlob, IdleDeletion, NoArtifact
  <2>2. failed' \subseteq ArtifactId /\ failures' \in 0..MaxFailures
    BY <1>0, LibraryAssumption DEF LibraryTypeOK, RemoveBlob, Fails, history
  <2>3. acquires' \in [Callers -> Acquire]
    BY <1>0, LibraryAssumption DEF LibraryTypeOK, RemoveBlob
  <2> QED
    BY <1>0, <2>1, <2>2, <2>3 DEF LibraryTypeOK, RemoveBlob, store, history, NoArtifact
<1>3. Hands'
  BY <1>0, <1>1 DEF Hands, Apart, Storing, Removal
<1>4. Named'
  BY <1>0, <1>1 DEF Named
<1>5. Removal'
  BY <1>0, <1>1 DEF Removal
<1>6. Apart'
  BY <1>0, <1>1 DEF Apart, Storing
<1>7. RowsApart'
  BY <1>0, <1>1 DEF RowsApart
<1>8. RowsStored'
  BY <1>0, <1>1 DEF RowsStored, RowsApart, Removal, NoArtifact
<1>9. Served'
  BY <1>0, <1>1 DEF Served, Removal
<1>10. Orphans'
  <2> SUFFICES ASSUME NEW x \in (blobs \cup metas)' PROVE Explained(x)'
    BY DEF Orphans
  <2>1. x \in blobs \cup metas => Explained(x)
    BY <1>0 DEF Orphans
  <2> QED
    BY <2>1, <1>0, <1>1 DEF Explained, Storing
<1> QED
  BY <1>2, <1>3, <1>4, <1>5, <1>6, <1>7, <1>8, <1>9, <1>10 DEF LibraryInv

\* Then the meta: nothing of the artifact is left.
LEMMA RemoveMetaKeeps ==
  ASSUME LibraryInv, NEW o \in Deleters, RemoveMeta(o)
  PROVE  LibraryInv'
<1>0. /\ LibraryTypeOK /\ Hands /\ Named /\ Removal /\ Apart
      /\ RowsApart /\ RowsStored /\ Served /\ Orphans
  BY DEF LibraryInv
<1>1. /\ deletions[o].pc = "meta"
      /\ \A q \in Deleters \ {o} : deletions'[q] = deletions[q]
      /\ deletions'[o].pc = "idle" /\ deletions'[o].artifact = NoArtifact
      /\ metas' = metas \ {deletions[o].artifact}
      /\ UNCHANGED <<tracks, blobs, acquires, readers, named, removed, outdone, failed>>
  BY <1>0 DEF LibraryTypeOK, RemoveMeta, store, history, IdleDeletion
<1>2. LibraryTypeOK'
  <2>1. deletions' \in [Deleters -> Deletion]
    BY <1>0 DEF LibraryTypeOK, Deletion, RemoveMeta, IdleDeletion, NoArtifact
  <2>2. failed' \subseteq ArtifactId /\ failures' \in 0..MaxFailures
    BY <1>0, LibraryAssumption DEF LibraryTypeOK, RemoveMeta, Fails, history
  <2>3. acquires' \in [Callers -> Acquire]
    BY <1>0, LibraryAssumption DEF LibraryTypeOK, RemoveMeta
  <2> QED
    BY <1>0, <2>1, <2>2, <2>3 DEF LibraryTypeOK, RemoveMeta, store, history, NoArtifact
<1>3. Hands'
  BY <1>0, <1>1 DEF Hands, Apart, Storing, Removal
<1>4. Named'
  BY <1>0, <1>1 DEF Named
<1>5. Removal'
  BY <1>0, <1>1 DEF Removal
<1>6. Apart'
  BY <1>0, <1>1 DEF Apart, Storing
<1>7. RowsApart'
  BY <1>0, <1>1 DEF RowsApart
<1>8. RowsStored'
  BY <1>0, <1>1 DEF RowsStored, RowsApart, Removal, NoArtifact
<1>9. Served'
  BY <1>0, <1>1 DEF Served, Removal
<1>10. Orphans'
  <2> SUFFICES ASSUME NEW x \in (blobs \cup metas)' PROVE Explained(x)'
    BY DEF Orphans
  <2>1. x \in blobs \cup metas => Explained(x)
    BY <1>0 DEF Orphans
  <2> QED
    BY <2>1, <1>0, <1>1 DEF Explained, Storing, Removal
<1> QED
  BY <1>2, <1>3, <1>4, <1>5, <1>6, <1>7, <1>8, <1>9, <1>10 DEF LibraryInv

\* What a failed removal leaves is remembered.
LEMMA RemoveFailsKeeps ==
  ASSUME LibraryInv, NEW o \in Deleters, RemoveFails(o)
  PROVE  LibraryInv'
<1>0. /\ LibraryTypeOK /\ Hands /\ Named /\ Removal /\ Apart
      /\ RowsApart /\ RowsStored /\ Served /\ Orphans
  BY DEF LibraryInv
<1>1. /\ deletions'[o].pc = "idle" /\ deletions'[o].artifact = NoArtifact
      /\ \A q \in Deleters \ {o} : deletions'[q] = deletions[q]
      /\ failed' = failed \cup {deletions[o].artifact}
      /\ UNCHANGED <<tracks, blobs, metas, acquires, readers, named, removed, outdone>>
  BY <1>0 DEF LibraryTypeOK, RemoveFails, store, history, IdleDeletion, Fails
<1>2. deletions[o].artifact \in ArtifactId
  BY <1>0 DEF Removal, RemoveFails, LibraryTypeOK
<1>3. LibraryTypeOK'
  <2>1. deletions' \in [Deleters -> Deletion]
    BY <1>0 DEF LibraryTypeOK, Deletion, RemoveFails, IdleDeletion, NoArtifact
  <2>2. failed' \subseteq ArtifactId /\ failures' \in 0..MaxFailures
    BY <1>2, <1>0, LibraryAssumption DEF LibraryTypeOK, RemoveFails, Fails, history
  <2>3. acquires' \in [Callers -> Acquire]
    BY <1>0, LibraryAssumption DEF LibraryTypeOK, RemoveFails
  <2> QED
    BY <1>0, <2>1, <2>2, <2>3 DEF LibraryTypeOK, RemoveFails, store, history, Fails, NoArtifact
<1>4. Hands'
  BY <1>0, <1>1, <1>2 DEF Hands
<1>5. Named'
  BY <1>0, <1>1, <1>2 DEF Named
<1>6. Removal'
  BY <1>0, <1>1, <1>2 DEF Removal
<1>7. Apart'
  BY <1>0, <1>1, <1>2 DEF Apart, Storing
<1>8. RowsApart'
  BY <1>0, <1>1, <1>2 DEF RowsApart
<1>9. RowsStored'
  BY <1>0, <1>1, <1>2 DEF RowsStored
<1>10. Served'
  BY <1>0, <1>1, <1>2 DEF Served
<1>11. Orphans'
  <2> SUFFICES ASSUME NEW x \in (blobs \cup metas)' PROVE Explained(x)'
    BY DEF Orphans
  <2>1. x \in blobs \cup metas => Explained(x)
    BY <1>0 DEF Orphans
  <2> QED
    BY <2>1, <1>0, <1>1, <1>2 DEF Explained, Storing, Named, NoArtifact
<1> QED
  BY <1>3, <1>4, <1>5, <1>6, <1>7, <1>8, <1>9, <1>10, <1>11 DEF LibraryInv

\* What is in someone's hands has a name.
LEMMA InHandNamed ==
  ASSUME LibraryTypeOK, Hands, Removal
  PROVE  InHand \subseteq ArtifactId
<1>1. \A c \in Callers : Storing(c) => acquires[c].artifact \in ArtifactId
  BY DEF Hands, Storing, LibraryTypeOK, ArtifactId
<1>2. \A o \in Deleters :
        deletions[o].artifact # NoArtifact => deletions[o].artifact \in ArtifactId
  BY DEF Removal, LibraryTypeOK
<1> QED
  BY <1>1, <1>2 DEF InHand, Storing

\* Everyone's hands are emptied, and what was in them is remembered.
LEMMA CallerKilledKeeps ==
  ASSUME LibraryInv, LibraryKilled
  PROVE  LibraryInv'
<1>0. /\ LibraryTypeOK /\ Hands /\ Named /\ Removal /\ Apart
      /\ RowsApart /\ RowsStored /\ Served /\ Orphans
  BY DEF LibraryInv
<1>1. UNCHANGED <<tracks, blobs, metas, named, removed, outdone>>
  BY <1>0 DEF LibraryTypeOK, LibraryKilled, store, history, Fails
<1>2. /\ \A o \in Deleters : deletions'[o].pc = "idle" /\ deletions'[o].artifact = NoArtifact
      /\ \A c \in Callers : acquires'[c].pc = "idle"
      /\ \A r \in Readers : readers'[r] = NoArtifact
  BY <1>0 DEF LibraryTypeOK, LibraryKilled, IdleDeletion, IdleAcquire
<1>3. /\ \A x \in failed : x \in failed'
      /\ \A c \in Callers : Storing(c) => acquires[c].artifact \in failed'
      /\ \A o \in Deleters :
            deletions[o].artifact # NoArtifact => deletions[o].artifact \in failed'
  BY <1>0 DEF LibraryKilled, Fails, InHand, Storing
<1>4. LibraryTypeOK'
  <2>1. deletions' \in [Deleters -> Deletion]
    BY <1>0 DEF LibraryTypeOK, Deletion, LibraryKilled, IdleDeletion, NoArtifact
  <2>2. failed' \subseteq ArtifactId /\ failures' \in 0..MaxFailures
    BY InHandNamed, <1>0, LibraryAssumption DEF LibraryTypeOK, LibraryKilled, Fails, history
  <2>3. acquires' \in [Callers -> Acquire]
    BY <1>0, LibraryAssumption DEF LibraryTypeOK, LibraryKilled, IdleAcquire, Acquire, NoArtifact
  <2> QED
    BY <1>0, <2>1, <2>2, <2>3 DEF LibraryTypeOK, LibraryKilled, store, history, Fails, NoArtifact
<1>5. Hands'
  BY <1>0, <1>1, <1>2, <1>3 DEF Hands
<1>6. Named'
  BY <1>0, <1>1, <1>2, <1>3 DEF Named
<1>7. Removal'
  BY <1>0, <1>1, <1>2, <1>3 DEF Removal
<1>8. Apart'
  BY <1>0, <1>1, <1>2, <1>3 DEF Apart, Storing
<1>9. RowsApart'
  BY <1>0, <1>1, <1>2, <1>3 DEF RowsApart
<1>10. RowsStored'
  BY <1>0, <1>1, <1>2, <1>3 DEF RowsStored
<1>11. Served'
  <2>1. \A r \in Readers : ~(readers'[r] # NoArtifact)
    BY <1>2
  <2>2. \A c \in Callers : ~(acquires'[c].pc = "read")
    BY <1>2
  <2> QED
    BY <2>1, <2>2 DEF Served, NoArtifact
<1>12. Orphans'
  <2> SUFFICES ASSUME NEW x \in (blobs \cup metas)' PROVE Explained(x)'
    BY DEF Orphans
  <2>1. x \in blobs \cup metas => Explained(x)
    BY <1>0 DEF Orphans
  <2>2. x \in blobs \cup metas /\ x # NoArtifact
    BY <1>0, <1>1 DEF Named, NoArtifact
  <2>3. CASE \E c \in Callers : Storing(c) /\ acquires[c].artifact = x
    BY <2>3, <1>3 DEF Explained
  <2>4. CASE \E s \in Songs : tracks[s] = x
    BY <2>4, <1>1 DEF Explained
  <2>5. CASE (\E o \in Deleters : deletions[o].artifact = x) \/ x \in outdone \/ x \in failed
    BY <2>2, <2>5, <1>1, <1>3 DEF Explained
  <2> QED
    BY <2>1, <2>2, <2>3, <2>4, <2>5 DEF Explained
<1> QED
  BY <1>4, <1>5, <1>6, <1>7, <1>8, <1>9, <1>10, <1>11, <1>12 DEF LibraryInv

-----------------------------------------------------------------------------
(* The theorems.                                                            *)

LEMMA LibraryKeeps ==
  ASSUME LibraryInv, [LibraryNext]_libraryVars
  PROVE  LibraryInv'
<1>1. CASE UNCHANGED libraryVars
  <2>1. UNCHANGED <<tracks, blobs, metas, acquires, deletions, readers, named, removed,
                    outdone, failed, failures>>
    BY <1>1 DEF libraryVars, store, history
  <2>2. LibraryTypeOK' /\ Hands' /\ Named' /\ Removal'
    BY <2>1 DEF LibraryInv, LibraryTypeOK, Hands, Named, Removal
  <2>3. Apart' /\ RowsApart' /\ RowsStored'
    BY <2>1 DEF LibraryInv, Apart, RowsApart, RowsStored, Storing
  <2>4. Served' /\ Orphans'
    BY <2>1 DEF LibraryInv, Served, Orphans, Explained, Storing
  <2> QED
    BY <2>2, <2>3, <2>4 DEF LibraryInv
<1>2. CASE \E c \in Callers :
              \/ AcquireBegins(c) \/ AcquireRejected(c) \/ PutBlob(c) \/ PutMeta(c)
              \/ AcquireFails(c) \/ AddTrack(c) \/ AcquireReturns(c)
  BY <1>2, BeginsKeeps, RejectedKeeps, PutBlobKeeps, PutMetaKeeps, CallerFailsKeeps, AddKeeps,
     CallerReturnsKeeps
<1>3. CASE \E r \in Readers : ReaderFinds(r) \/ ReaderFetches(r)
  BY <1>3, FindsKeeps, FetchesKeeps
<1>4. CASE \E o \in Deleters : DeleteRow(o) \/ RemoveBlob(o) \/ RemoveMeta(o) \/ RemoveFails(o)
  BY <1>4, DeleteRowKeeps, RemoveBlobKeeps, RemoveMetaKeeps, RemoveFailsKeeps
<1>5. CASE LibraryKilled
  BY <1>5, CallerKilledKeeps
<1> QED
  BY <1>1, <1>2, <1>3, <1>4, <1>5 DEF LibraryNext

\* Everyone's hands, the names given out, the removals in progress, the distinct
\* artifacts, the rows, the readers and the orphans, together.
THEOREM LibraryInductive == LibrarySpec => []LibraryInv
  BY LibraryStarts, LibraryKeeps, PTL DEF LibrarySpec

\* Every variable of the library keeps its type.
THEOREM LibraryTyped == LibrarySpec => []LibraryTypeOK
<1>1. LibraryInv => LibraryTypeOK
  BY DEF LibraryInv
<1> QED
  BY <1>1, LibraryInductive, PTL

\* Whatever acquires, deletions, failures and kills are interleaved, a row names an
\* artifact that is stored, whoever was answered one finds it unless it was
\* deleted, and no object is orphaned without a race or a failure.
THEOREM Backed == LibrarySpec => []LibraryBacked
  BY LibraryInductive, Promised, PTL

-----------------------------------------------------------------------------
(* The backfill.  A run may stop while rows are missing; BackfillInv says    *)
(* what a round that measured nothing knows of the rows it was given, and    *)
(* StoppedShort why that is enough unless a whole batch of rows failed.      *)

\* The first batch of a query that finds the rows S.
FirstBatch(S) == {r \in S : Cardinality({q \in S : q > r}) < Batch}

\* A round that measured nothing so far has its rows still to try, or failed.
BackfillInv ==
    /\ cues \in [Shelf -> {"absent", "missing", "measured", "deleted"}]
    /\ IsFiniteSet(alreadyFailed)
    /\ listed \subseteq Shelf /\ \A r \in listed : cues[r] # "absent"
    /\ backfill = "round" /\ ~progressed
          => FirstBatch(listed) \subseteq pendingCues \cup alreadyFailed
    /\ BackfillStrandsNothing

\* If the first batch failed and fewer rows failed than a batch has, all failed: of
\* the rows behind the first batch take the one with the fewest before it; a batch of
\* rows is before it, all of the first batch.
LEMMA StoppedShort ==
  ASSUME NEW S, S \subseteq Nat, IsFiniteSet(S), NEW F, IsFiniteSet(F),
         FirstBatch(S) \subseteq F, Cardinality(F) < Batch
  PROVE  S \subseteq F
<1> DEFINE Before(r) == {q \in S : q > r}
           Behind == S \ FirstBatch(S)
           Counts == {Cardinality(Before(r)) : r \in Behind}
<1>1. \A r \in S : Before(r) \subseteq S /\ IsFiniteSet(Before(r))
                   /\ Cardinality(Before(r)) \in Nat
  <2>1. ASSUME NEW r \in S
        PROVE  Before(r) \subseteq S /\ IsFiniteSet(Before(r))
               /\ Cardinality(Before(r)) \in Nat
    <3>1. Before(r) \subseteq S
      OBVIOUS
    <3> HIDE DEF Before
    <3> QED
      BY <3>1, FS_Subset, FS_CardinalityType
  <2> QED
    BY <2>1
<1>2. SUFFICES ASSUME Behind # {}
               PROVE  FALSE
  OBVIOUS
<1>3. PICK r \in Behind : \A q \in Behind : Cardinality(Before(r)) <= Cardinality(Before(q))
  <2>1. Counts \subseteq Nat /\ Counts # {}
    BY <1>1, <1>2
  <2> HIDE DEF Counts
  <2>2. \E x \in Counts : \A y \in Counts : ~(<<y, x>> \in OpToRel(<, Nat))
    BY <2>1, NatLessThanWellFounded, WFMin, Zenon
  <2>3. \A x, y \in Nat : ~(<<y, x>> \in OpToRel(<, Nat)) => x <= y
    BY DEF OpToRel
  <2>4. PICK x \in Counts : \A y \in Counts : x <= y
    BY <2>1, <2>2, <2>3
  <2> QED
    BY <2>4 DEF Counts
<1>4. Before(r) \subseteq FirstBatch(S)
  <2> SUFFICES ASSUME NEW q \in Before(r), q \notin FirstBatch(S)
               PROVE  FALSE
    OBVIOUS
  <2>1. q \in Behind /\ q \in S /\ r \in S /\ q \in Nat /\ r \in Nat /\ q > r
    OBVIOUS
  <2>2. Before(q) \subseteq Before(r) /\ q \notin Before(q)
    <3>1. ASSUME NEW x \in Before(q)
          PROVE  x \in Before(r) /\ x # q
      <4>1. x \in S /\ x \in Nat /\ x > q
        OBVIOUS
      <4> QED
        BY <2>1, <4>1
    <3> QED
      BY <3>1
  <2>3. Cardinality(Before(r)) <= Cardinality(Before(q))
    BY <1>3, <2>1
  <2>4. IsFiniteSet(Before(r)) /\ q \in Before(r)
    BY <1>1, <2>1
  <2>5. Cardinality(Before(r)) \in Nat /\ Cardinality(Before(q)) \in Nat
    BY <1>1, <2>1
  <2> HIDE DEF Before
  <2> QED
    BY <2>2, <2>3, <2>4, <2>5, FS_Subset
<1>5. Cardinality(Before(r)) >= Batch
  BY <1>1, BackfillAssumption DEF FirstBatch
<1>6. Before(r) \subseteq F
  BY <1>4
<1>7. Cardinality(Before(r)) <= Cardinality(F) /\ Cardinality(F) \in Nat
  <2> HIDE DEF Before
  <2> QED
    BY <1>6, FS_Subset, FS_CardinalityType
<1> QED
  BY <1>1, <1>5, <1>7, BackfillAssumption

LEMMA BackfillKeeps ==
  ASSUME BackfillInv, [BackfillNext]_backfillVars
  PROVE  BackfillInv'
<1> USE DEF BackfillInv
<1>0. MissingCues = FirstBatch(MissingRows) /\ MissingRows \subseteq Shelf
      /\ \A r \in MissingRows : cues[r] = "missing"
  BY DEF MissingCues, FirstBatch, MissingRows
<1>1. CASE UNCHANGED backfillVars
  BY <1>1 DEF backfillVars, BackfillStrandsNothing
<1>2. CASE QueryEmpty
  BY <1>2 DEF QueryEmpty, BackfillStrandsNothing
<1>3. CASE QueryRound
  <2>1. /\ listed' = MissingRows /\ UNCHANGED <<cues, alreadyFailed>>
        /\ pendingCues' = FirstBatch(MissingRows) \ alreadyFailed
        /\ backfill' = IF pendingCues' = {} THEN "finished" ELSE "round"
    BY <1>0, <1>3 DEF QueryRound
  <2>2. FirstBatch(listed') \subseteq pendingCues' \cup alreadyFailed'
    BY <2>1
  <2>3. ASSUME backfill' = "finished", Cardinality(alreadyFailed') < Batch
        PROVE  \A r \in listed' : r \in alreadyFailed'
    <3>1. FirstBatch(MissingRows) \subseteq alreadyFailed
      BY <2>1, <2>3
    <3>2. MissingRows \subseteq Nat /\ IsFiniteSet(MissingRows)
      BY <1>0, FS_Subset, BackfillAssumption
    <3> QED
      BY <2>1, <2>3, <3>1, <3>2, StoppedShort
  <2> QED
    BY <1>0, <2>1, <2>2, <2>3 DEF BackfillStrandsNothing
<1>4. CASE QueryFails
  BY <1>4 DEF QueryFails, BackfillStrandsNothing
<1>5. CASE Measures
  <2>1. /\ progressed' /\ backfill' = "round" /\ UNCHANGED <<alreadyFailed, listed>>
        /\ \E r : cues' = IF cues[r] = "missing" THEN [cues EXCEPT ![r] = "measured"]
                          ELSE cues
    BY <1>5 DEF Measures
  <2> QED
    BY <2>1 DEF BackfillStrandsNothing
<1>6. CASE MeasureFails
  <2>1. PICK r : /\ pendingCues' = pendingCues \ {r}
                 /\ alreadyFailed' = alreadyFailed \cup {r}
    BY <1>6 DEF MeasureFails
  <2>2. backfill = "round" /\ UNCHANGED <<cues, backfill, progressed, listed>>
    BY <1>6 DEF MeasureFails
  <2>3. IsFiniteSet(alreadyFailed')
    BY <2>1, FS_AddElement
  <2> QED
    BY <2>1, <2>2, <2>3 DEF BackfillStrandsNothing
<1>7. CASE RoundEnds
  <2>1. /\ backfill = "round" /\ pendingCues = {}
        /\ backfill' = IF progressed THEN "query" ELSE "finished"
        /\ UNCHANGED <<cues, alreadyFailed, listed>>
    BY <1>7 DEF RoundEnds
  <2>2. ASSUME ~progressed, Cardinality(alreadyFailed) < Batch
        PROVE  listed \subseteq alreadyFailed
    <3>1. FirstBatch(listed) \subseteq alreadyFailed
      BY <2>1, <2>2
    <3>2. listed \subseteq Nat /\ IsFiniteSet(listed)
      BY FS_Subset, BackfillAssumption
    <3> QED
      BY <2>2, <3>1, <3>2, StoppedShort
  <2> QED
    BY <2>1, <2>2 DEF BackfillStrandsNothing
<1>8. CASE Cancelled
  BY <1>8 DEF Cancelled, BackfillStrandsNothing
<1>9. CASE RowArrives
  <2>1. PICK r \in Shelf : cues[r] = "absent" /\ cues' = [cues EXCEPT ![r] = "missing"]
    BY <1>9 DEF RowArrives
  <2>2. \A q \in listed : cues'[q] = cues[q]
    BY <2>1
  <2> QED
    BY <1>9, <2>1, <2>2 DEF RowArrives, BackfillStrandsNothing
<1>10. CASE RowDeleted
  <2>1. PICK r \in Shelf : cues' = [cues EXCEPT ![r] = "deleted"]
    BY <1>10 DEF RowDeleted
  <2>2. \A q \in listed : cues'[q] = cues[q] \/ cues'[q] = "deleted"
    BY <2>1
  <2> QED
    BY <1>10, <2>1, <2>2 DEF RowDeleted, BackfillStrandsNothing
<1> QED
  BY <1>1, <1>2, <1>3, <1>4, <1>5, <1>6, <1>7, <1>8, <1>9, <1>10 DEF BackfillNext

\* A backfill that finishes, having met fewer failing tracks than a round has rows, leaves
\* no row it knew of unmeasured and untried, whatever fails, is deleted or is added
\* meanwhile.
THEOREM NothingStranded == BackfillSpec => []BackfillStrandsNothing
<1>1. BackfillInit => BackfillInv
  BY FS_EmptySet DEF BackfillInit, BackfillInv, BackfillStrandsNothing
<1>2. BackfillInv => BackfillStrandsNothing
  BY DEF BackfillInv
<1> QED
  BY <1>1, <1>2, BackfillKeeps, PTL DEF BackfillSpec

\* measureOne takes the newest row of the round: there is one.
LEMMA LastRow ==
  ASSUME NEW S, S \subseteq Nat, IsFiniteSet(S), S # {}
  PROVE  Max(S) \in S
<1> DEFINE Above(r) == {q \in S : q > r}
           Counts == {Cardinality(Above(r)) : r \in S}
<1>1. \A r \in S : Above(r) \subseteq S /\ IsFiniteSet(Above(r)) /\ Cardinality(Above(r)) \in Nat
  <2>1. ASSUME NEW r \in S
        PROVE  Above(r) \subseteq S /\ IsFiniteSet(Above(r)) /\ Cardinality(Above(r)) \in Nat
    <3>1. Above(r) \subseteq S
      OBVIOUS
    <3> HIDE DEF Above
    <3> QED
      BY <3>1, FS_Subset, FS_CardinalityType
  <2> QED
    BY <2>1
<1>2. PICK r \in S : \A q \in S : Cardinality(Above(r)) <= Cardinality(Above(q))
  <2>1. Counts \subseteq Nat /\ Counts # {}
    BY <1>1
  <2> HIDE DEF Counts
  <2>2. \E x \in Counts : \A y \in Counts : ~(<<y, x>> \in OpToRel(<, Nat))
    BY <2>1, NatLessThanWellFounded, WFMin, Zenon
  <2>3. \A x, y \in Nat : ~(<<y, x>> \in OpToRel(<, Nat)) => x <= y
    BY DEF OpToRel
  <2>4. PICK x \in Counts : \A y \in Counts : x <= y
    BY <2>1, <2>2, <2>3
  <2> QED
    BY <2>4 DEF Counts
<1>3. ASSUME NEW q \in S, q > r
      PROVE  FALSE
  <2>1. q \in Above(r) /\ q \notin Above(q) /\ Above(q) \subseteq Above(r)
    <3>1. q \in Nat /\ r \in Nat /\ q > r
      BY <1>3
    <3>2. ASSUME NEW x \in Above(q)
          PROVE  x \in Above(r) /\ x # q
      <4>1. x \in S /\ x \in Nat /\ x > q
        OBVIOUS
      <4> QED
        BY <3>1, <4>1
    <3>3. q \in Above(r)
      BY <3>1
    <3> QED
      BY <3>2, <3>3
  <2>2. /\ IsFiniteSet(Above(r)) /\ Cardinality(Above(r)) \in Nat
        /\ Cardinality(Above(q)) \in Nat /\ Cardinality(Above(r)) <= Cardinality(Above(q))
    BY <1>1, <1>2
  <2> HIDE DEF Above
  <2> QED
    BY <2>1, <2>2, FS_Subset
<1>4. r \in S /\ \A q \in S : r >= q
  BY <1>3
<1> QED
  BY <1>4 DEF Max

LEMMA BackfillTypesKeep ==
  ASSUME BackfillTypeOK, [BackfillNext]_backfillVars
  PROVE  BackfillTypeOK'
<1>1. pendingCues # {} => Max(pendingCues) \in Shelf
  <2>1. pendingCues \subseteq Nat /\ IsFiniteSet(pendingCues)
    BY BackfillAssumption, FS_Subset DEF BackfillTypeOK
  <2> QED
    BY <2>1, LastRow DEF BackfillTypeOK
<1>2. MissingRows \subseteq Shelf /\ MissingCues \subseteq Shelf
  BY DEF MissingRows, MissingCues
<1>3. MaxBlips \in Nat
  BY BackfillAssumption
<1>4. CASE QueryEmpty \/ QueryRound \/ QueryFails
  <2>1. CASE QueryEmpty
    BY <2>1 DEF QueryEmpty, BackfillTypeOK
  <2>2. CASE QueryRound
    <3>1. /\ listed' \subseteq Shelf /\ pendingCues' \subseteq Shelf /\ progressed' = FALSE
          /\ backfill' \in {"finished", "round"}
          /\ UNCHANGED <<cues, broken, alreadyFailed, blips>>
      BY <1>2, <2>2 DEF QueryRound
    <3> QED
      BY <3>1 DEF BackfillTypeOK
  <2>3. CASE QueryFails
    <3>1. blips' \in 0..MaxBlips
      BY <1>3, <2>3 DEF QueryFails, BackfillTypeOK
    <3> QED
      BY <2>3, <3>1 DEF QueryFails, BackfillTypeOK
  <2> QED
    BY <1>4, <2>1, <2>2, <2>3
<1>5. CASE Measures
  <2>1. PICK r \in Shelf : /\ cues' = IF cues[r] = "missing" THEN [cues EXCEPT ![r] = "measured"]
                                      ELSE cues
                           /\ pendingCues' = pendingCues \ {r}
    BY <1>1, <1>5 DEF Measures
  <2>2. progressed' \in BOOLEAN /\ UNCHANGED <<broken, backfill, alreadyFailed, listed, blips>>
    BY <1>5 DEF Measures
  <2> QED
    BY <2>1, <2>2 DEF BackfillTypeOK
<1>6. CASE MeasureFails
  <2>1. PICK r \in Shelf : /\ pendingCues' = pendingCues \ {r}
                           /\ alreadyFailed' = alreadyFailed \cup {r}
                           /\ blips' = blips \/ (blips < MaxBlips /\ blips' = blips + 1)
    BY <1>1, <1>6 DEF MeasureFails
  <2>2. UNCHANGED <<cues, broken, backfill, progressed, listed>>
    BY <1>6 DEF MeasureFails
  <2> QED
    BY <1>3, <2>1, <2>2 DEF BackfillTypeOK
<1>7. CASE RoundEnds \/ Cancelled
  BY <1>7 DEF RoundEnds, Cancelled, BackfillTypeOK
<1>8. CASE RowArrives \/ RowDeleted
  BY <1>8 DEF RowArrives, RowDeleted, BackfillTypeOK
<1>9. CASE UNCHANGED backfillVars
  BY <1>9 DEF backfillVars, BackfillTypeOK
<1> QED
  BY <1>4, <1>5, <1>6, <1>7, <1>8, <1>9 DEF BackfillNext

\* Types: the rows of a round and the failed ones are rows of the library.
THEOREM BackfillTyped == BackfillSpec => []BackfillTypeOK
<1>1. BackfillInit => BackfillTypeOK
  <2> SUFFICES ASSUME BackfillInit
               PROVE  BackfillTypeOK
    OBVIOUS
  <2>1. blips \in 0..MaxBlips /\ progressed \in BOOLEAN
    <3>1. blips = 0 /\ progressed \in BOOLEAN
      BY Zenon DEF BackfillInit
    <3> QED
      BY <3>1, BackfillAssumption
  <2>2. cues \in [Shelf -> {"absent", "missing", "measured", "deleted"}]
    BY DEF BackfillInit
  <2> QED
    BY <2>1, <2>2 DEF BackfillInit, BackfillTypeOK
<1> QED
  BY <1>1, BackfillTypesKeep, PTL DEF BackfillSpec

-----------------------------------------------------------------------------
(* The twin of the request table.                                           *)

TwinTypes ==
    /\ table \in [ItemId -> Row(Askers, Wishes, Nobody, NoWish)]
    /\ created \in [ItemId -> Nat] /\ airedAt \in [ItemId -> Nat]
    /\ items \in Seq(MemItem) /\ Len(items) <= MaxItems
    /\ DOMAIN positions \subseteq DOMAIN items /\ positions \in [DOMAIN positions -> Nat]
    /\ moment \in Nat

\* A row of the table and the item of the same id.
Same ==
    \A i \in DOMAIN items :
        /\ table[i].status = items[i].status /\ table[i].source = items[i].source
        /\ table[i].user = items[i].user /\ table[i].yt = items[i].yt
        /\ table[i].attempts = items[i].attempts
        /\ table[i].pos = IF i \in DOMAIN positions THEN positions[i] ELSE NoPosition
        /\ created[i] = items[i].created /\ airedAt[i] = items[i].airedAt

\* An id not given out yet.
NoRowYet ==
    \A i \in ItemId \ DOMAIN items :
        table[i] = EmptyRow(Nobody, NoWish) /\ created[i] = 0 /\ airedAt[i] = 0

\* No stamp is given out twice, and only a request that aired has its second.
Stamps ==
    /\ \A i \in DOMAIN items :
          /\ created[i] \in 1..moment /\ airedAt[i] \in 0..moment
          /\ airedAt[i] # 0 => items[i].status = "aired"
    /\ \A i, j \in DOMAIN items :
          /\ i # j => created[i] # created[j]
          /\ i < j => created[i] < created[j]
          /\ created[i] # airedAt[j]
          /\ i # j /\ airedAt[i] # 0 => airedAt[i] # airedAt[j]

\* No two rows of the queue have one position: an order is of all of them at once.
PositionsApart ==
    \A i, j \in MemPendingIds \cap DOMAIN positions : i # j => positions[i] # positions[j]

TInv == TwinTypes /\ Same /\ NoRowYet /\ Stamps /\ PositionsApart

-----------------------------------------------------------------------------
(* Calls on one row.                                                        *)

LEMMA ItemTypes ==
  ASSUME TwinTypes
  PROVE  /\ DOMAIN items = 1..Len(items) /\ Len(items) \in Nat /\ DOMAIN items \subseteq ItemId
         /\ \A i \in DOMAIN items : items[i] \in MemItem
         /\ \A i \in ItemId : table[i] \in Row(Askers, Wishes, Nobody, NoWish)
BY TwinsAssumption DEF TwinTypes, ItemId

\* One row and its item change together, in their status, attempts and second stamp.
Touches(i) ==
    /\ table' \in [ItemId -> Row(Askers, Wishes, Nobody, NoWish)]
    /\ items' \in Seq(MemItem) /\ Len(items') = Len(items)
    /\ \A j \in ItemId : j # i => table'[j] = table[j]
    /\ \A j \in DOMAIN items : j # i => items'[j] = items[j]
    /\ table'[i].source = table[i].source /\ table'[i].user = table[i].user
    /\ table'[i].yt = table[i].yt /\ table'[i].pos = table[i].pos
    /\ items'[i].source = items[i].source /\ items'[i].user = items[i].user
    /\ items'[i].yt = items[i].yt /\ items'[i].created = items[i].created
    /\ table'[i].status = items'[i].status /\ table'[i].attempts = items'[i].attempts
    /\ items'[i].status \in PendingStatus => items[i].status \in PendingStatus
    /\ UNCHANGED <<created, positions>>

LEMMA TouchedRest ==
  ASSUME TInv, NEW i \in DOMAIN items, Touches(i), moment' \in Nat,
         airedAt' \in [ItemId -> Nat], airedAt'[i] = items'[i].airedAt,
         \A j \in ItemId : j # i => airedAt'[j] = airedAt[j]
  PROVE  DOMAIN items' = DOMAIN items /\ TwinTypes' /\ Same' /\ NoRowYet' /\ PositionsApart'
<1>1. TwinTypes /\ Same /\ NoRowYet /\ PositionsApart
  BY DEF TInv
<1>2. /\ DOMAIN items = 1..Len(items) /\ Len(items) \in Nat /\ DOMAIN items \subseteq ItemId
  BY <1>1, ItemTypes
<1>3. DOMAIN items' = DOMAIN items
  BY <1>2 DEF Touches
<1>4. TwinTypes'
  BY <1>1, <1>3 DEF TwinTypes, Touches
<1>5. Same'
  <2> SUFFICES ASSUME NEW j \in DOMAIN items
               PROVE  /\ table'[j].status = items'[j].status /\ table'[j].source = items'[j].source
                      /\ table'[j].user = items'[j].user /\ table'[j].yt = items'[j].yt
                      /\ table'[j].attempts = items'[j].attempts
                      /\ table'[j].pos = IF j \in DOMAIN positions THEN positions[j]
                                         ELSE NoPosition
                      /\ created[j] = items'[j].created /\ airedAt'[j] = items'[j].airedAt
    BY <1>3 DEF Same, Touches
  <2>1. CASE j = i
    BY <1>1, <2>1 DEF Same, Touches
  <2>2. CASE j # i
    BY <1>1, <1>2, <2>2 DEF Same, Touches
  <2> QED
    BY <2>1, <2>2
<1>6. NoRowYet'
  BY <1>1, <1>3 DEF NoRowYet, Touches
<1>8. PositionsApart'
  <2>1. MemPendingIds' \subseteq MemPendingIds
    BY <1>3 DEF MemPendingIds, Touches
  <2> QED
    BY <1>1, <2>1 DEF PositionsApart, Touches
<1> QED
  BY <1>3, <1>4, <1>5, <1>6, <1>8

\* Without a stamp.
LEMMA TouchedKeeps ==
  ASSUME TInv, NEW i \in DOMAIN items, Touches(i),
         UNCHANGED <<airedAt, moment>>, items'[i].airedAt = items[i].airedAt,
         airedAt[i] # 0 => items'[i].status = "aired"
  PROVE  TInv'
<1>1. TwinTypes /\ Same /\ Stamps
  BY DEF TInv
<1>2. airedAt' \in [ItemId -> Nat] /\ airedAt'[i] = items'[i].airedAt /\ moment' \in Nat
  BY <1>1 DEF TwinTypes, Same
<1>3. DOMAIN items' = DOMAIN items /\ TwinTypes' /\ Same' /\ NoRowYet' /\ PositionsApart'
  BY <1>2, TouchedRest
<1>4. Stamps'
  <2>1. \A j \in DOMAIN items : airedAt[j] # 0 => items'[j].status = "aired"
    BY <1>1 DEF Stamps, Touches
  <2> QED
    BY <1>1, <1>3, <2>1 DEF Stamps, Touches
<1> QED
  BY <1>3, <1>4 DEF TInv

\* The statement that sets a status, on both.
LEMMA SetTouches ==
  ASSUME TInv, NEW i \in DOMAIN items, NEW s \in Status \ {"none"},
         table' = SetStatus(table, i, s), MemSet(i, s), UNCHANGED <<created, positions>>,
         s \in PendingStatus => items[i].status \in PendingStatus
  PROVE  /\ Touches(i)
         /\ items'[i].status = s /\ items'[i].airedAt = items[i].airedAt
<1>1. /\ i \in ItemId /\ items[i] \in MemItem
      /\ table \in [ItemId -> Row(Askers, Wishes, Nobody, NoWish)] /\ items \in Seq(MemItem)
      /\ table[i].attempts = items[i].attempts
      /\ table[i] \in Row(Askers, Wishes, Nobody, NoWish)
  BY ItemTypes DEF TInv, TwinTypes, Same
<1>2. /\ table' = [table EXCEPT ![i].status = s]
      /\ items' = [items EXCEPT ![i].status = s]
  BY DEF SetStatus, MemSet
<1>3. /\ [table[i] EXCEPT !.status = s] \in Row(Askers, Wishes, Nobody, NoWish)
      /\ [items[i] EXCEPT !.status = s] \in MemItem
  BY <1>1 DEF Row, MemItem
<1>4. /\ table' \in [ItemId -> Row(Askers, Wishes, Nobody, NoWish)]
      /\ \A j \in ItemId : j # i => table'[j] = table[j]
      /\ table'[i] = [table[i] EXCEPT !.status = s]
  BY <1>1, <1>2, <1>3
<1>5. /\ items' \in Seq(MemItem) /\ Len(items') = Len(items)
      /\ \A j \in DOMAIN items : j # i => items'[j] = items[j]
      /\ items'[i] = [items[i] EXCEPT !.status = s]
  BY <1>1, <1>2, <1>3
<1>6. /\ table'[i].source = table[i].source /\ table'[i].user = table[i].user
      /\ table'[i].yt = table[i].yt /\ table'[i].pos = table[i].pos
      /\ table'[i].status = s /\ table'[i].attempts = table[i].attempts
  BY <1>1, <1>4 DEF Row
<1>7. /\ items'[i].source = items[i].source /\ items'[i].user = items[i].user
      /\ items'[i].yt = items[i].yt /\ items'[i].created = items[i].created
      /\ items'[i].status = s /\ items'[i].attempts = items[i].attempts
      /\ items'[i].airedAt = items[i].airedAt
  BY <1>1, <1>5 DEF MemItem
<1> QED
  BY <1>1, <1>4, <1>5, <1>6, <1>7 DEF Touches

LEMMA Unmoved ==
  ASSUME TInv, UNCHANGED twinVars
  PROVE  TInv'
BY DEF TInv, TwinTypes, Same, NoRowYet, Stamps, PositionsApart, MemPendingIds, twinVars

LEMMA StatusWords ==
  /\ "ready" \in Status \ {"none"} /\ "failed" \in Status \ {"none"}
  /\ "aired" \in Status \ {"none"}
  /\ "failed" \notin PendingStatus /\ "aired" \notin PendingStatus
  /\ "approved" \in PendingStatus /\ "ready" \in PendingStatus
BY DEF Status, PendingStatus, TerminalStatus

LEMMA MarkReadyKeeps ==
  ASSUME TInv, MarkReadyBoth
  PROVE  TInv'
<1>1. PICK i \in DOMAIN items :
        /\ table' = MarkReady(table, i)
        /\ IF items[i].status = "approved" THEN MemSet(i, "ready") ELSE UNCHANGED items
        /\ UNCHANGED <<created, airedAt, positions, moment>>
  BY DEF MarkReadyBoth
<1>2. table[i].status = items[i].status /\ (airedAt[i] # 0 => items[i].status = "aired")
  BY DEF TInv, Same, Stamps
<1>3. CASE items[i].status = "approved"
  <2>1. table' = SetStatus(table, i, "ready") /\ MemSet(i, "ready")
    BY <1>1, <1>2, <1>3 DEF MarkReady
  <2>2. airedAt[i] = 0
    BY <1>2, <1>3
  <2> QED
    BY <1>1, <1>3, <2>1, <2>2, StatusWords, SetTouches, TouchedKeeps
<1>4. CASE items[i].status # "approved"
  BY <1>1, <1>2, <1>4, Unmoved DEF MarkReady, twinVars
<1> QED
  BY <1>3, <1>4

LEMMA MarkFailedKeeps ==
  ASSUME TInv, MarkFailedBoth
  PROVE  TInv'
<1>1. PICK i \in DOMAIN items :
        /\ items[i].status # "aired"
        /\ table' = MarkFailed(table, i) /\ MemSet(i, "failed")
        /\ UNCHANGED <<created, airedAt, positions, moment>>
  BY DEF MarkFailedBoth
<1>2. airedAt[i] = 0
  BY <1>1 DEF TInv, Stamps
<1> QED
  BY <1>1, <1>2, StatusWords, SetTouches, TouchedKeeps DEF MarkFailed

LEMMA FailPendingKeeps ==
  ASSUME TInv, FailPendingBoth
  PROVE  TInv'
<1>1. PICK i \in DOMAIN items :
        /\ table' = FailPending(table, i)
        /\ IF items[i].status \in PendingStatus THEN MemSet(i, "failed") ELSE UNCHANGED items
        /\ UNCHANGED <<created, airedAt, positions, moment>>
  BY DEF FailPendingBoth
<1>2. table[i].status = items[i].status /\ (airedAt[i] # 0 => items[i].status = "aired")
  BY DEF TInv, Same, Stamps
<1>3. CASE items[i].status \in PendingStatus
  <2>1. table' = SetStatus(table, i, "failed") /\ MemSet(i, "failed")
    BY <1>1, <1>2, <1>3 DEF FailPending
  <2>2. airedAt[i] = 0
    BY <1>2, <1>3, StatusWords
  <2> QED
    BY <1>1, <2>1, <2>2, StatusWords, SetTouches, TouchedKeeps
<1>4. CASE items[i].status \notin PendingStatus
  BY <1>1, <1>2, <1>4, Unmoved DEF FailPending, twinVars
<1> QED
  BY <1>3, <1>4

LEMMA BumpAttemptsKeeps ==
  ASSUME TInv, BumpAttemptsBoth
  PROVE  TInv'
<1>1. PICK i \in DOMAIN items :
        /\ \A j \in DOMAIN items : items[j].attempts = 0
        /\ table' = BumpAttempts(table, i)
        /\ items' = [items EXCEPT ![i].attempts = @ + 1]
        /\ UNCHANGED <<created, airedAt, positions, moment>>
  BY DEF BumpAttemptsBoth
<1>2. /\ i \in ItemId /\ items[i] \in MemItem
      /\ table \in [ItemId -> Row(Askers, Wishes, Nobody, NoWish)] /\ items \in Seq(MemItem)
      /\ table[i].attempts = 0 /\ items[i].attempts = 0
      /\ table[i].status = items[i].status
      /\ table[i] \in Row(Askers, Wishes, Nobody, NoWish)
  BY <1>1, ItemTypes DEF TInv, TwinTypes, Same
<1>3. /\ table' = [table EXCEPT ![i].attempts = 1]
      /\ items' = [items EXCEPT ![i].attempts = 1]
  BY <1>1, <1>2 DEF BumpAttempts
<1>4. /\ [table[i] EXCEPT !.attempts = 1] \in Row(Askers, Wishes, Nobody, NoWish)
      /\ [items[i] EXCEPT !.attempts = 1] \in MemItem
  BY <1>2 DEF Row, MemItem
<1>5. /\ table' \in [ItemId -> Row(Askers, Wishes, Nobody, NoWish)]
      /\ \A j \in ItemId : j # i => table'[j] = table[j]
      /\ table'[i] = [table[i] EXCEPT !.attempts = 1]
  BY <1>2, <1>3, <1>4
<1>6. /\ items' \in Seq(MemItem) /\ Len(items') = Len(items)
      /\ \A j \in DOMAIN items : j # i => items'[j] = items[j]
      /\ items'[i] = [items[i] EXCEPT !.attempts = 1]
  BY <1>2, <1>3, <1>4
<1>7. /\ table'[i].source = table[i].source /\ table'[i].user = table[i].user
      /\ table'[i].yt = table[i].yt /\ table'[i].pos = table[i].pos
      /\ table'[i].status = table[i].status /\ table'[i].attempts = 1
  BY <1>2, <1>5 DEF Row
<1>8. /\ items'[i].source = items[i].source /\ items'[i].user = items[i].user
      /\ items'[i].yt = items[i].yt /\ items'[i].created = items[i].created
      /\ items'[i].status = items[i].status /\ items'[i].attempts = 1
      /\ items'[i].airedAt = items[i].airedAt
  BY <1>2, <1>6 DEF MemItem
<1>9. Touches(i)
  BY <1>1, <1>2, <1>5, <1>6, <1>7, <1>8 DEF Touches
<1>10. airedAt[i] # 0 => items'[i].status = "aired"
  BY <1>8 DEF TInv, Stamps
<1> QED
  BY <1>1, <1>8, <1>9, <1>10, TouchedKeeps

\* The later stamp of an aired request is later than every other.
LEMMA MarkAiredKeeps ==
  ASSUME TInv, MarkAiredBoth
  PROVE  TInv'
<1>1. PICK i \in DOMAIN items :
        /\ airedAt[i] = 0 /\ moment' = moment + 1
        /\ table' = MarkAired(table, i)
        /\ airedAt' = [airedAt EXCEPT ![i] = moment']
        /\ items' = [items EXCEPT ![i].status = "aired", ![i].airedAt = moment']
        /\ UNCHANGED <<created, positions>>
  BY DEF MarkAiredBoth
<1>2. /\ i \in ItemId /\ items[i] \in MemItem /\ DOMAIN items \subseteq ItemId
      /\ table \in [ItemId -> Row(Askers, Wishes, Nobody, NoWish)] /\ items \in Seq(MemItem)
      /\ table[i].attempts = items[i].attempts
      /\ table[i] \in Row(Askers, Wishes, Nobody, NoWish)
      /\ moment \in Nat /\ airedAt \in [ItemId -> Nat]
  BY ItemTypes DEF TInv, TwinTypes, Same
<1>3. table' = [table EXCEPT ![i].status = "aired"] /\ moment' \in Nat
  BY <1>1, <1>2 DEF MarkAired, SetStatus
<1>4. [table[i] EXCEPT !.status = "aired"] \in Row(Askers, Wishes, Nobody, NoWish)
  BY <1>2, StatusWords DEF Row
<1>5. /\ table' \in [ItemId -> Row(Askers, Wishes, Nobody, NoWish)]
      /\ \A j \in ItemId : j # i => table'[j] = table[j]
      /\ table'[i] = [table[i] EXCEPT !.status = "aired"]
  BY <1>2, <1>3, <1>4
<1>6. /\ items' \in Seq(MemItem) /\ Len(items') = Len(items)
      /\ \A j \in DOMAIN items : j # i => items'[j] = items[j]
      /\ items'[i].source = items[i].source /\ items'[i].user = items[i].user
      /\ items'[i].yt = items[i].yt /\ items'[i].created = items[i].created
      /\ items'[i].status = "aired" /\ items'[i].attempts = items[i].attempts
      /\ items'[i].airedAt = moment'
  <2> DEFINE aired == [items EXCEPT ![i].status = "aired"]
             item == [items[i] EXCEPT !.status = "aired"]
             stamped == [item EXCEPT !.airedAt = moment']
  <2>1. items' = [aired EXCEPT ![i].airedAt = moment']
    BY <1>1, <1>2
  <2>2. item \in MemItem /\ item.status = "aired" /\ item.source = items[i].source
        /\ item.user = items[i].user /\ item.yt = items[i].yt
        /\ item.created = items[i].created /\ item.attempts = items[i].attempts
    BY <1>2, StatusWords DEF MemItem
  <2>3. aired \in Seq(MemItem) /\ Len(aired) = Len(items) /\ aired[i] = item
        /\ \A j \in DOMAIN items : j # i => aired[j] = items[j]
    BY <1>2, <2>2
  <2> HIDE DEF aired, item
  <2>4. stamped \in MemItem /\ stamped.status = item.status /\ stamped.source = item.source
        /\ stamped.user = item.user /\ stamped.yt = item.yt
        /\ stamped.created = item.created /\ stamped.attempts = item.attempts
        /\ stamped.airedAt = moment'
    BY <1>3, <2>2 DEF MemItem
  <2>5. items' = [aired EXCEPT ![i] = stamped]
    BY <2>1, <2>3
  <2> HIDE DEF stamped
  <2>6. /\ items' \in Seq(MemItem) /\ Len(items') = Len(items) /\ items'[i] = stamped
        /\ \A j \in DOMAIN items : j # i => items'[j] = items[j]
    BY <1>2, <2>3, <2>4, <2>5
  <2> QED
    BY <2>2, <2>4, <2>6
<1>7. /\ table'[i].source = table[i].source /\ table'[i].user = table[i].user
      /\ table'[i].yt = table[i].yt /\ table'[i].pos = table[i].pos
      /\ table'[i].status = "aired" /\ table'[i].attempts = table[i].attempts
  BY <1>2, <1>5 DEF Row
<1>9. Touches(i)
  BY <1>1, <1>2, <1>5, <1>6, <1>7, StatusWords DEF Touches
<1>10. /\ airedAt' \in [ItemId -> Nat] /\ airedAt'[i] = moment'
       /\ \A j \in ItemId : j # i => airedAt'[j] = airedAt[j]
  BY <1>1, <1>2, <1>3
<1>11. DOMAIN items' = DOMAIN items /\ TwinTypes' /\ Same' /\ NoRowYet' /\ PositionsApart'
  BY <1>3, <1>6, <1>9, <1>10, TouchedRest
<1>12. Stamps'
  <2>1. Stamps
    BY DEF TInv
  <2>2. \A j \in DOMAIN items : created'[j] = created[j] /\ created[j] <= moment
    BY <1>1, <2>1 DEF Stamps
  <2>3. \A j \in DOMAIN items :
          /\ created'[j] \in 1..moment' /\ airedAt'[j] \in 0..moment'
          /\ airedAt'[j] # 0 => items'[j].status = "aired"
    BY <1>1, <1>2, <1>6, <1>10, <2>1 DEF Stamps
  <2>4. \A j, k \in DOMAIN items :
          /\ j # k => created'[j] # created'[k]
          /\ created'[j] # airedAt'[k]
          /\ j # k /\ airedAt'[j] # 0 => airedAt'[j] # airedAt'[k]
    BY <1>1, <1>2, <1>10, <2>1 DEF Stamps
  <2>5. \A j, k \in DOMAIN items : j < k => created'[j] < created'[k]
    BY <2>1, <2>2 DEF Stamps
  <2> QED
    BY <1>11, <2>3, <2>4, <2>5 DEF Stamps
<1> QED
  BY <1>11, <1>12 DEF TInv

\* The table's next id is the twin's next index.
LEMMA CreateKeeps ==
  ASSUME TInv, CreateBoth
  PROVE  TInv'
<1>1. PICK i \in ItemId, yt \in Wishes, user \in Askers \cup {Nobody}, status \in PendingStatus :
        LET source == IF user = Nobody THEN "ai" ELSE "listener"
        IN  /\ IsNextId(table, i)
            /\ moment' = moment + 1
            /\ table' = Create(table, i, source, user, yt, status)
            /\ created' = [created EXCEPT ![i] = moment']
            /\ items' = Append(items, [status |-> status, source |-> source, user |-> user,
                                       yt |-> yt, attempts |-> 0, created |-> moment',
                                       airedAt |-> 0])
            /\ UNCHANGED <<airedAt, positions>>
  BY DEF CreateBoth
<1> DEFINE source == IF user = Nobody THEN "ai" ELSE "listener"
           row == [status |-> status, source |-> source, user |-> user,
                   yt |-> yt, pos |-> NoPosition, attempts |-> 0]
           item == [status |-> status, source |-> source, user |-> user, yt |-> yt,
                    attempts |-> 0, created |-> moment', airedAt |-> 0]
<1>2. /\ TwinTypes /\ Same /\ NoRowYet /\ Stamps /\ PositionsApart
  BY DEF TInv
<1>3. /\ DOMAIN items = 1..Len(items) /\ Len(items) \in Nat /\ DOMAIN items \subseteq ItemId
      /\ \A j \in DOMAIN items : items[j] \in MemItem
      /\ table \in [ItemId -> Row(Askers, Wishes, Nobody, NoWish)] /\ items \in Seq(MemItem)
      /\ moment \in Nat /\ moment' = moment + 1
      /\ created \in [ItemId -> Nat] /\ airedAt \in [ItemId -> Nat]
      /\ DOMAIN positions \subseteq DOMAIN items /\ positions \in [DOMAIN positions -> Nat]
  BY <1>1, <1>2, ItemTypes DEF TwinTypes
<1>4. \A j \in DOMAIN items : table[j].status # "none"
  BY <1>2, <1>3 DEF Same, MemItem
<1>5. \A j \in ItemId \ DOMAIN items : table[j].status = "none"
  BY <1>2 DEF NoRowYet, EmptyRow
<1>6. i = Len(items) + 1
  <2>1. table[i].status = "none" /\ \A j \in ItemId : table[j].status = "none" => i <= j
    BY <1>1, <1>3 DEF IsNextId
  <2>2. i \notin DOMAIN items
    BY <1>4, <2>1
  <2>3. Len(items) + 1 \in ItemId /\ Len(items) + 1 \notin DOMAIN items
    BY <1>3, <2>2, TwinsAssumption DEF ItemId
  <2>4. i <= Len(items) + 1
    BY <1>5, <2>1, <2>3
  <2> QED
    BY <1>3, <2>2, <2>4, TwinsAssumption DEF ItemId
<1>7. row \in Row(Askers, Wishes, Nobody, NoWish) /\ item \in MemItem
  <2>1. source \in {"ai", "listener"} /\ status \in Status \ {"none"}
    BY DEF Status, PendingStatus
  <2> QED
    BY <1>3, <2>1 DEF Row, MemItem, Source
<1>8. /\ table' = [table EXCEPT ![i] = row] /\ items' = Append(items, item)
      /\ created' = [created EXCEPT ![i] = moment'] /\ UNCHANGED <<airedAt, positions>>
  BY <1>1 DEF Create
<1>9. /\ row.status = status /\ row.source = source /\ row.user = user /\ row.yt = yt
      /\ row.pos = NoPosition /\ row.attempts = 0
      /\ item.status = status /\ item.source = source /\ item.user = user /\ item.yt = yt
      /\ item.attempts = 0 /\ item.created = moment' /\ item.airedAt = 0
  OBVIOUS
<1> HIDE DEF row, item, source
<1>10. /\ table' \in [ItemId -> Row(Askers, Wishes, Nobody, NoWish)] /\ table'[i] = row
       /\ \A j \in ItemId : j # i => table'[j] = table[j]
  BY <1>3, <1>7, <1>8
<1>11. /\ items' \in Seq(MemItem) /\ Len(items') = i /\ items'[i] = item
       /\ DOMAIN items' = DOMAIN items \cup {i} /\ i \notin DOMAIN items
       /\ \A j \in DOMAIN items : items'[j] = items[j] /\ j # i
  BY <1>3, <1>6, <1>7, <1>8
<1>12. /\ created' \in [ItemId -> Nat] /\ created'[i] = moment'
       /\ \A j \in ItemId : j # i => created'[j] = created[j]
  BY <1>3, <1>8
<1>13. TwinTypes'
  <2>1. Len(items') <= MaxItems
    BY <1>11, TwinsAssumption DEF ItemId
  <2> QED
    BY <1>3, <1>8, <1>10, <1>11, <1>12, <2>1 DEF TwinTypes
<1>14. airedAt[i] = 0 /\ i \notin DOMAIN positions
  BY <1>2, <1>3, <1>11 DEF NoRowYet
<1>15. Same'
  <2> SUFFICES ASSUME NEW j \in DOMAIN items'
               PROVE  /\ table'[j].status = items'[j].status /\ table'[j].source = items'[j].source
                      /\ table'[j].user = items'[j].user /\ table'[j].yt = items'[j].yt
                      /\ table'[j].attempts = items'[j].attempts
                      /\ table'[j].pos = IF j \in DOMAIN positions THEN positions[j]
                                         ELSE NoPosition
                      /\ created'[j] = items'[j].created /\ airedAt[j] = items'[j].airedAt
    BY <1>8 DEF Same
  <2>1. CASE j = i
    BY <1>9, <1>10, <1>11, <1>12, <1>14, <2>1
  <2>2. CASE j # i
    BY <1>2, <1>3, <1>10, <1>11, <1>12, <2>2 DEF Same
  <2> QED
    BY <2>1, <2>2
<1>16. NoRowYet'
  BY <1>2, <1>8, <1>10, <1>11, <1>12 DEF NoRowYet
<1>17. Stamps'
  <2>1. \A j \in DOMAIN items : created'[j] = created[j] /\ created[j] \in 1..moment
                                /\ airedAt[j] \in 0..moment
    BY <1>2, <1>3, <1>11, <1>12 DEF Stamps
  <2>2. \A j \in DOMAIN items' :
          /\ created'[j] \in 1..moment' /\ airedAt'[j] \in 0..moment'
          /\ airedAt'[j] # 0 => items'[j].status = "aired"
    BY <1>2, <1>3, <1>8, <1>11, <1>12, <1>14, <2>1 DEF Stamps
  <2>3. \A j, k \in DOMAIN items' :
          /\ j # k => created'[j] # created'[k]
          /\ created'[j] # airedAt'[k]
          /\ j # k /\ airedAt'[j] # 0 => airedAt'[j] # airedAt'[k]
    BY <1>2, <1>3, <1>8, <1>11, <1>12, <1>14, <2>1 DEF Stamps
  <2>4. ASSUME NEW j \in DOMAIN items', NEW k \in DOMAIN items', j < k
        PROVE  created'[j] < created'[k]
    <3>1. j \in 1..i /\ k \in 1..i /\ i \in Nat /\ DOMAIN items = 1..(i - 1)
      BY <1>3, <1>6, <1>11
    <3>2. j \in DOMAIN items
      BY <2>4, <3>1
    <3>3. CASE k = i
      BY <1>3, <1>12, <2>1, <3>2, <3>3
    <3>4. CASE k # i
      <4>1. k \in DOMAIN items
        BY <3>1, <3>4
      <4> QED
        BY <1>2, <2>1, <2>4, <3>2, <4>1 DEF Stamps
    <3> QED
      BY <3>3, <3>4
  <2> QED
    BY <2>2, <2>3, <2>4 DEF Stamps
<1>18. PositionsApart'
  <2>1. MemPendingIds' \cap DOMAIN positions' \subseteq MemPendingIds \cap DOMAIN positions
    BY <1>3, <1>8, <1>11 DEF MemPendingIds
  <2> QED
    BY <1>2, <1>8, <2>1 DEF PositionsApart
<1> QED
  BY <1>13, <1>15, <1>16, <1>17, <1>18 DEF TInv

-----------------------------------------------------------------------------
(* The reorder.                                                             *)

\* The table's queue is the twin's.
LEMMA SamePending ==
  ASSUME TInv
  PROVE  /\ Pending(table) = MemPendingIds /\ MemPendingIds \subseteq DOMAIN items
         /\ IsFiniteSet(MemPendingIds) /\ Cardinality(MemPendingIds) \in 0..MaxItems
<1>1. TwinTypes /\ Same /\ NoRowYet
  BY DEF TInv
<1>2. /\ DOMAIN items \subseteq ItemId /\ DOMAIN table = ItemId
  BY <1>1, ItemTypes DEF TwinTypes
<1>3. \A i \in ItemId \ DOMAIN items : table[i].status = "none"
  BY <1>1 DEF NoRowYet, EmptyRow
<1>4. Pending(table) = MemPendingIds
  BY <1>1, <1>2, <1>3 DEF Pending, MemPendingIds, Same, PendingStatus
<1>5. MemPendingIds \subseteq DOMAIN items
  BY DEF MemPendingIds
<1>6. IsFiniteSet(1..MaxItems) /\ Cardinality(1..MaxItems) <= MaxItems
  BY TwinsAssumption, FS_Interval
<1>7. /\ IsFiniteSet(MemPendingIds) /\ Cardinality(MemPendingIds) <= Cardinality(1..MaxItems)
      /\ Cardinality(MemPendingIds) \in Nat /\ Cardinality(1..MaxItems) \in Nat
  BY <1>2, <1>5, <1>6, FS_Subset, FS_CardinalityType DEF ItemId
<1> QED
  BY <1>4, <1>5, <1>6, <1>7, TwinsAssumption

\* What an operator may send is a list.
LEMMA OrderedListsAreLists ==
  ASSUME NEW n \in 0..MaxItems, NEW m \in 0..MaxItems, NEW ids \in OrderedLists[n][m]
  PROVE  Len(ids) \in Nat /\ DOMAIN ids = 1..Len(ids) /\ ids \in [DOMAIN ids -> ToSet(ids)]
<1>1. OrderedLists[n][m] =
        {<<>>} \cup {<<i, i>> : i \in 1..n}
               \cup UNION {SetToSeqs(some) : some \in {u \in SUBSET (1..n) : Cardinality(u) = m}}
  BY DEF OrderedLists
<1>5. ASSUME NEW S, ids \in Seq(S)
      PROVE  Len(ids) \in Nat /\ DOMAIN ids = 1..Len(ids) /\ ids \in [DOMAIN ids -> ToSet(ids)]
  <2>1. Len(ids) \in Nat /\ ids \in [1..Len(ids) -> S]
    BY <1>5
  <2>2. DOMAIN ids = 1..Len(ids) /\ ids = [k \in DOMAIN ids |-> ids[k]]
    BY <2>1
  <2> QED
    BY <2>1, <2>2 DEF ToSet
<1>2. CASE ids = <<>>
  <2>1. ids \in Seq({})
    BY <1>2
  <2> QED
    BY <2>1, <1>5
<1>3. CASE \E i \in 1..n : ids = <<i, i>>
  <2>1. ids \in Seq(1..n)
    BY <1>3
  <2> QED
    BY <2>1, <1>5
<1>4. CASE \E some \in SUBSET (1..n) : Cardinality(some) = m /\ ids \in SetToSeqs(some)
  <2>1. PICK some \in SUBSET (1..n) : Cardinality(some) = m /\ ids \in SetToSeqs(some)
    BY <1>4
  <2>2. ids \in [1..m -> some]
    BY <2>1 DEF SetToSeqs
  <2>3. ids \in Seq(some) /\ m \in Nat
    BY <2>2, TwinsAssumption
  <2> QED
    BY <2>3, <1>5
<1> QED
  BY <1>1, <1>2, <1>3, <1>4

\* The position of an id in a list that has it.
LEMMA IndexOfMember ==
  ASSUME NEW ids, NEW i \in ToSet(ids)
  PROVE  IndexIn(ids, i) \in DOMAIN ids /\ ids[IndexIn(ids, i)] = i
<1>1. \E k \in DOMAIN ids : ids[k] = i
  BY DEF ToSet
<1> QED
  BY <1>1 DEF IndexIn

LEMMA CountTo ==
  ASSUME NEW n \in Nat
  PROVE  IsFiniteSet(1..n) /\ Cardinality(1..n) = n
<1>1. 1 \in Int /\ n \in Int
  OBVIOUS
<1>2. /\ IsFiniteSet(1..n)
      /\ Cardinality(1..n) = IF 1 > n THEN 0 ELSE n - 1 + 1
  BY <1>1, FS_Interval, Zenon
<1> QED
  BY <1>2

\* The check of pg.go, set against set, and that of mem.go, length, membership and no
\* duplicate, accept the same lists.
LEMMA SameLists ==
  ASSUME NEW pending, IsFiniteSet(pending), NEW ids, Len(ids) \in Nat,
         DOMAIN ids = 1..Len(ids), ids \in [DOMAIN ids -> ToSet(ids)]
  PROVE  ReorderAccepts(pending, ids)
           <=> /\ Len(ids) = Cardinality(pending) /\ Distinct(ids)
               /\ ToSet(ids) \subseteq pending
<1> DEFINE n == Len(ids)
<1>1. IsFiniteSet(1..n) /\ Cardinality(1..n) = n
  <2>1. n \in Nat
    OBVIOUS
  <2> HIDE DEF n
  <2> QED
    BY <2>1, CountTo
<1>2. ASSUME n = Cardinality(pending), ToSet(ids) = pending
      PROVE  Distinct(ids)
  <2>1. ids \in Surjection(1..n, pending)
    BY <1>2 DEF Surjection, ToSet
  <2>2. ids \in Injection(1..n, pending)
    BY <1>1, <1>2, <2>1, FS_SurjSameCardinalityImpliesInj
  <2> QED
    BY <2>2 DEF Injection, IsInjective, Distinct
<1>3. ASSUME n = Cardinality(pending), Distinct(ids), ToSet(ids) \subseteq pending
      PROVE  ToSet(ids) = pending
  <2>1. ids \in Injection(1..n, pending)
    BY <1>3 DEF Injection, IsInjective, Distinct
  <2>2. ids \in Surjection(1..n, pending)
    BY <1>1, <1>3, <2>1, FS_Injection
  <2> QED
    BY <1>3, <2>2 DEF Surjection, ToSet
<1>4. ReorderAccepts(pending, ids) <=> n = Cardinality(pending) /\ ToSet(ids) = pending
  BY DEF ReorderAccepts, ToSet
<1> QED
  BY <1>2, <1>3, <1>4

\* Both refuse, or both set the positions 0, 1, ... of the whole queue.
LEMMA ReorderKeeps ==
  ASSUME TInv, ReorderBoth
  PROVE  TInv'
<1> DEFINE accepted(ids) == /\ Len(ids) = Cardinality(MemPendingIds) /\ Distinct(ids)
                            /\ ToSet(ids) \subseteq MemPendingIds
           placed(ids) == [i \in ToSet(ids) \cup DOMAIN positions |->
                             IF i \in ToSet(ids) THEN IndexIn(ids, i) - 1 ELSE positions[i]]
<1>1. PICK ids \in OrderedLists[Len(items)][Cardinality(MemPendingIds)] :
        /\ table' = IF ReorderAccepts(Pending(table), ids) THEN Reorder(table, ids) ELSE table
        /\ positions' = IF accepted(ids) THEN placed(ids) ELSE positions
        /\ UNCHANGED <<created, airedAt, items, moment>>
  BY DEF ReorderBoth
<1>2. /\ TwinTypes /\ Same /\ NoRowYet /\ Stamps
  BY DEF TInv
<1>3. /\ DOMAIN items = 1..Len(items) /\ Len(items) \in Nat /\ Len(items) <= MaxItems
      /\ DOMAIN items \subseteq ItemId /\ DOMAIN positions \subseteq DOMAIN items
      /\ table \in [ItemId -> Row(Askers, Wishes, Nobody, NoWish)]
      /\ positions \in [DOMAIN positions -> Nat]
  BY <1>2, ItemTypes DEF TwinTypes
<1>4. Len(ids) \in Nat /\ DOMAIN ids = 1..Len(ids) /\ ids \in [DOMAIN ids -> ToSet(ids)]
  <2>1. Len(items) \in 0..MaxItems /\ Cardinality(MemPendingIds) \in 0..MaxItems
    BY <1>3, SamePending, TwinsAssumption
  <2> QED
    BY <2>1, OrderedListsAreLists
<1>6. ReorderAccepts(Pending(table), ids) <=> accepted(ids)
  BY <1>4, SameLists, SamePending
<1>7. CASE ~accepted(ids)
  BY <1>1, <1>6, <1>7, Unmoved DEF twinVars
<1>8. CASE accepted(ids)
  <2>1. ToSet(ids) = MemPendingIds /\ ToSet(ids) \subseteq DOMAIN items
    BY <1>6, <1>8, SamePending DEF ReorderAccepts, ToSet
  <2>2. /\ table' = [i \in ItemId |-> IF i \in ToSet(ids)
                                      THEN [table[i] EXCEPT !.pos = IndexIn(ids, i) - 1]
                                      ELSE table[i]]
        /\ positions' = placed(ids)
    BY <1>1, <1>3, <1>6, <1>8 DEF Reorder, ToSet
  <2>3. \A i \in ToSet(ids) : IndexIn(ids, i) - 1 \in Nat /\ ids[IndexIn(ids, i)] = i
    BY <1>4, IndexOfMember
  <2>4. \A i \in ToSet(ids) :
          /\ [table[i] EXCEPT !.pos = IndexIn(ids, i) - 1] \in Row(Askers, Wishes, Nobody, NoWish)
          /\ table'[i].pos = IndexIn(ids, i) - 1
          /\ table'[i].status = table[i].status /\ table'[i].source = table[i].source
          /\ table'[i].user = table[i].user /\ table'[i].yt = table[i].yt
          /\ table'[i].attempts = table[i].attempts
    <3> TAKE i \in ToSet(ids)
    <3>1. table[i] \in Row(Askers, Wishes, Nobody, NoWish) /\ i \in ItemId
      BY <1>3, <2>1
    <3>2. table'[i] = [table[i] EXCEPT !.pos = IndexIn(ids, i) - 1]
      BY <2>2, <3>1
    <3>3. IndexIn(ids, i) - 1 \in Nat
      BY <2>3
    <3> QED
      BY <3>1, <3>2, <3>3 DEF Row
  <2>5. \A i \in ItemId \ ToSet(ids) : table'[i] = table[i]
    BY <2>2
  <2>6. /\ DOMAIN positions' = ToSet(ids) \cup DOMAIN positions
        /\ \A i \in ToSet(ids) : positions'[i] = IndexIn(ids, i) - 1
        /\ \A i \in DOMAIN positions \ ToSet(ids) : positions'[i] = positions[i]
    BY <2>2
  <2>7. TwinTypes'
    <3>1. table' \in [ItemId -> Row(Askers, Wishes, Nobody, NoWish)]
      BY <1>3, <2>2, <2>4
    <3>2. positions' \in [DOMAIN positions' -> Nat]
      BY <1>3, <2>2, <2>3
    <3>3. DOMAIN positions' \subseteq DOMAIN items
      BY <1>3, <2>1, <2>6
    <3> QED
      BY <1>1, <1>2, <3>1, <3>2, <3>3 DEF TwinTypes
  <2>8. Same'
    <3> SUFFICES ASSUME NEW i \in DOMAIN items
                 PROVE  /\ table'[i].status = items[i].status /\ table'[i].source = items[i].source
                        /\ table'[i].user = items[i].user /\ table'[i].yt = items[i].yt
                        /\ table'[i].attempts = items[i].attempts
                        /\ table'[i].pos = IF i \in DOMAIN positions' THEN positions'[i]
                                           ELSE NoPosition
                        /\ created[i] = items[i].created /\ airedAt[i] = items[i].airedAt
      BY <1>1 DEF Same
    <3> HIDE DEF placed, accepted
    <3>1. CASE i \in ToSet(ids)
      BY <1>2, <2>4, <2>6, <3>1 DEF Same
    <3>2. CASE i \notin ToSet(ids)
      BY <1>2, <1>3, <2>5, <2>6, <3>2 DEF Same
    <3> QED
      BY <3>1, <3>2
  <2>9. NoRowYet' /\ Stamps'
    BY <1>1, <1>2, <2>1, <2>5 DEF NoRowYet, Stamps
  <2>10. PositionsApart'
    <3>1. MemPendingIds' = ToSet(ids)
      BY <1>1, <2>1 DEF MemPendingIds
    <3>2. \A i, j \in ToSet(ids) : i # j => positions'[i] # positions'[j]
      BY <1>4, <2>3, <2>6, IndexOfMember
    <3> QED
      BY <3>1, <3>2 DEF PositionsApart
  <2> QED
    BY <2>7, <2>8, <2>9, <2>10 DEF TInv
<1> QED
  BY <1>7, <1>8

LEMMA TwinsStart ==
  ASSUME TwinsInit
  PROVE  TInv
BY TwinsAssumption DEF TwinsInit, TInv, TwinTypes, Same, NoRowYet, Stamps, PositionsApart,
   MemPendingIds, Row, EmptyRow, Status, Source, NoPosition

\* After any calls the table and the twin hold the same rows: as many, with the same
\* columns, positions and stamps.
THEOREM TwinsInductive == TwinsSpec => []TInv
<1>1. TwinsInit => TInv
  BY TwinsStart
<1>2. TInv /\ [TwinsNext]_twinVars => TInv'
  BY CreateKeeps, MarkReadyKeeps, MarkAiredKeeps, MarkFailedKeeps, FailPendingKeeps,
     BumpAttemptsKeeps, ReorderKeeps, Unmoved DEF TwinsNext
<1> QED
  BY <1>1, <1>2, PTL DEF TwinsSpec

\* The stamps given out are one for every row and one more for every row that aired.
Second == {i \in ItemId : airedAt[i] # 0}
Counted == moment = Len(items) + Cardinality(Second)

LEMMA SecondFinite ==
  IsFiniteSet(Second) /\ Cardinality(Second) \in 0..MaxItems
<1>1. IsFiniteSet(1..MaxItems) /\ Cardinality(1..MaxItems) = MaxItems
  BY CountTo, TwinsAssumption
<1>2. Second \in SUBSET (1..MaxItems)
  BY DEF Second, ItemId
<1>3. IsFiniteSet(Second) /\ Cardinality(Second) <= MaxItems
  BY <1>1, <1>2, FS_Subset
<1>4. Cardinality(Second) \in Nat
  BY <1>3, FS_CardinalityType
<1> QED
  BY <1>3, <1>4, TwinsAssumption

LEMMA CountedKeeps ==
  ASSUME TInv, Counted, [TwinsNext]_twinVars
  PROVE  Counted'
<1>1. /\ items \in Seq(MemItem) /\ airedAt \in [ItemId -> Nat] /\ moment \in Nat
      /\ DOMAIN items \subseteq ItemId
  BY ItemTypes DEF TInv, TwinTypes
<1>2. ASSUME UNCHANGED <<airedAt, moment>>, Len(items') = Len(items)
      PROVE  Counted'
  BY <1>2 DEF Counted, Second
<1>3. CASE CreateBoth
  <2>1. moment' = moment + 1 /\ airedAt' = airedAt /\ Len(items') = Len(items) + 1
    BY <1>1, <1>3 DEF CreateBoth
  <2>2. Second' = Second
    BY <2>1 DEF Second
  <2> QED
    BY <1>1, <2>1, <2>2, SecondFinite DEF Counted
<1>4. CASE MarkAiredBoth
  <2>1. PICK i \in DOMAIN items :
          /\ airedAt[i] = 0 /\ moment' = moment + 1
          /\ airedAt' = [airedAt EXCEPT ![i] = moment']
          /\ items' = [items EXCEPT ![i].status = "aired", ![i].airedAt = moment']
    BY <1>4 DEF MarkAiredBoth
  <2>2. Len(items') = Len(items)
    BY <1>1, <2>1
  <2>3. Second' = Second \cup {i} /\ i \notin Second
    BY <1>1, <2>1 DEF Second
  <2>4. Cardinality(Second') = Cardinality(Second) + 1
    BY <2>3, SecondFinite, FS_AddElement
  <2> QED
    BY <1>1, <2>1, <2>2, <2>4, SecondFinite DEF Counted
<1>5. CASE MarkReadyBoth \/ MarkFailedBoth \/ FailPendingBoth
  BY <1>1, <1>2, <1>5 DEF MarkReadyBoth, MarkFailedBoth, FailPendingBoth, MemSet
<1>6. CASE BumpAttemptsBoth
  BY <1>1, <1>2, <1>6 DEF BumpAttemptsBoth
<1>7. CASE ReorderBoth
  <2>1. UNCHANGED <<airedAt, items, moment>>
    BY <1>7, Zenon DEF ReorderBoth
  <2> QED
    BY <1>2, <2>1
<1>8. CASE UNCHANGED twinVars
  BY <1>2, <1>8 DEF twinVars
<1> QED
  BY <1>3, <1>4, <1>5, <1>6, <1>7, <1>8 DEF TwinsNext

\* Types, the list of items no longer than the table and no stamp beyond two a row.
THEOREM TwinsTyped == TwinsSpec => []TwinsTypeOK
<1>1. TwinsInit => Counted
  <2> SUFFICES ASSUME TwinsInit PROVE Counted
    OBVIOUS
  <2>1. Second = {} /\ Len(items) = 0 /\ moment = 0
    BY DEF TwinsInit, Second
  <2> QED
    BY <2>1, FS_EmptySet DEF Counted
<1>2. TInv /\ Counted => TwinsTypeOK
  <2> SUFFICES ASSUME TInv, Counted PROVE TwinsTypeOK
    OBVIOUS
  <2>1. /\ Len(items) \in Nat /\ Len(items) <= MaxItems
        /\ Cardinality(Second) \in 0..MaxItems
    BY ItemTypes, SecondFinite DEF TInv, TwinTypes
  <2>2. moment \in 0..(2 * MaxItems)
    BY <2>1, TwinsAssumption DEF Counted
  <2> QED
    BY <2>2 DEF TInv, TwinTypes, TwinsTypeOK
<1> QED
  BY <1>1, <1>2, TwinsInductive, CountedKeeps, PTL DEF TwinsSpec

-----------------------------------------------------------------------------
(* The reads.                                                               *)

\* Which of the twin's three lists an item of the queue is in.
Tier(i) == IF i \in DOMAIN positions THEN 1 ELSE IF items[i].source = "listener" THEN 2 ELSE 3

LEMMA TierIsList ==
  ASSUME TInv, NEW i
  PROVE  /\ DOMAIN MemPending = {1, 2, 3}
         /\ \A k \in {1, 2, 3} : i \in MemPending[k] <=> i \in MemPendingIds /\ Tier(i) = k
<1>1. \A j \in DOMAIN items : items[j].source \in {"listener", "ai"}
  BY ItemTypes DEF TInv, MemItem
<1>2. i \in MemPendingIds => items[i].source \in {"listener", "ai"}
  BY <1>1 DEF MemPendingIds
<1>3. /\ DOMAIN MemPending = {1, 2, 3}
      /\ MemPending[1] = MemPendingIds \cap DOMAIN positions
      /\ MemPending[2] = Natural("listener") /\ MemPending[3] = Natural("ai")
  BY DEF MemPending
<1>4. /\ i \in Natural("listener") <=> i \in MemPendingIds \ DOMAIN positions /\ items[i].source = "listener"
      /\ i \in Natural("ai") <=> i \in MemPendingIds \ DOMAIN positions /\ items[i].source = "ai"
  BY DEF Natural
<1> QED
  BY <1>2, <1>3, <1>4 DEF Tier

\* The twin's queue in terms of the tier.
LEMMA TierOrder ==
  ASSUME TInv, NEW i \in MemPendingIds, NEW j \in MemPendingIds
  PROVE  MemAirsBefore(i, j)
           <=> \/ Tier(i) < Tier(j)
               \/ /\ Tier(i) = Tier(j)
                  /\ IF Tier(i) = 1 /\ positions[i] # positions[j]
                     THEN positions[i] < positions[j] ELSE i < j
<1>1. /\ DOMAIN MemPending = {1, 2, 3}
      /\ \A k \in {1, 2, 3} : i \in MemPending[k] <=> Tier(i) = k
      /\ \A k \in {1, 2, 3} : j \in MemPending[k] <=> Tier(j) = k
  BY TierIsList
<1>2. Tier(i) \in {1, 2, 3} /\ Tier(j) \in {1, 2, 3}
  BY DEF Tier
<1> QED
  BY <1>1, <1>2 DEF MemAirsBefore

LEMMA SameQueue ==
  ASSUME TInv
  PROVE  Answers(UNION {MemPending[k] : k \in DOMAIN MemPending}, MemAirsBefore,
                 Pending(table), LAMBDA i, j : AirsBefore(table, i, j))
<1>1. UNION {MemPending[k] : k \in DOMAIN MemPending} = MemPendingIds
  <2>1. \A i : i \in MemPendingIds <=> \E k \in DOMAIN MemPending : i \in MemPending[k]
    BY TierIsList DEF Tier
  <2> QED
    BY <2>1
<1>2. ASSUME NEW i \in MemPendingIds, NEW j \in MemPendingIds, i # j
      PROVE  /\ MemAirsBefore(i, j) <=> AirsBefore(table, i, j)
             /\ AirsBefore(table, i, j) <=> ~AirsBefore(table, j, i)
  <2>1. TwinTypes /\ Same /\ PositionsApart
    BY DEF TInv
  <2>2. i \in DOMAIN items /\ j \in DOMAIN items /\ i \in Nat /\ j \in Nat
    BY <2>1, ItemTypes DEF MemPendingIds
  <2>3. /\ table[i].source = items[i].source /\ table[j].source = items[j].source
        /\ items[i].source \in {"listener", "ai"} /\ items[j].source \in {"listener", "ai"}
    BY <2>1, <2>2, ItemTypes DEF Same, MemItem
  <2>4. /\ i \in DOMAIN positions => /\ positions[i] \in Nat /\ table[i].pos = positions[i]
                                     /\ table[i].pos # NoPosition
        /\ i \notin DOMAIN positions => table[i].pos = NoPosition
        /\ j \in DOMAIN positions => /\ positions[j] \in Nat /\ table[j].pos = positions[j]
                                     /\ table[j].pos # NoPosition
        /\ j \notin DOMAIN positions => table[j].pos = NoPosition
    BY <2>1, <2>2 DEF TwinTypes, Same, NoPosition
  <2>5. i \in DOMAIN positions /\ j \in DOMAIN positions => positions[i] # positions[j]
    BY <1>2, <2>1 DEF PositionsApart
  <2>6. AirsBefore(table, i, j)
          <=> \/ Tier(i) < Tier(j)
              \/ Tier(i) = Tier(j) /\ IF Tier(i) = 1 THEN positions[i] < positions[j] ELSE i < j
    BY <2>2, <2>3, <2>4, <2>5 DEF AirsBefore, Tier
  <2>7. AirsBefore(table, j, i)
          <=> \/ Tier(j) < Tier(i)
              \/ Tier(i) = Tier(j) /\ IF Tier(i) = 1 THEN positions[j] < positions[i] ELSE j < i
    BY <2>2, <2>3, <2>4, <2>5 DEF AirsBefore, Tier
  <2>8. Tier(i) = 1 /\ Tier(j) = 1 => /\ positions[i] \in Nat /\ positions[j] \in Nat
                                     /\ positions[i] # positions[j]
    BY <2>4, <2>5 DEF Tier
  <2>9. Tier(i) \in {1, 2, 3} /\ Tier(j) \in {1, 2, 3}
    BY DEF Tier
  <2>10. MemAirsBefore(i, j)
          <=> \/ Tier(i) < Tier(j)
              \/ Tier(i) = Tier(j) /\ IF Tier(i) = 1 THEN positions[i] < positions[j] ELSE i < j
    BY <2>8, TierOrder
  <2>11. MemAirsBefore(i, j) <=> AirsBefore(table, i, j)
    BY <2>6, <2>10
  <2>12. AirsBefore(table, i, j) <=> ~AirsBefore(table, j, i)
    BY <1>2, <2>2, <2>6, <2>7, <2>8, <2>9
  <2> QED
    BY <2>11, <2>12
<1> QED
  BY <1>1, <1>2, SamePending DEF Answers

\* Only an aired request has its second stamp, so both order by the same one.
LEMMA SameRecent ==
  ASSUME TInv
  PROVE  Answers(MemTerminal, MemTerminalBefore,
                 {i \in ItemId : table[i].status \in TerminalStatus}, TerminalBefore)
<1>1. TwinTypes /\ Same /\ NoRowYet /\ Stamps /\ DOMAIN items \subseteq ItemId
  BY ItemTypes DEF TInv
<1>2. \A i \in ItemId \ DOMAIN items : table[i].status = "none"
  BY <1>1 DEF NoRowYet, EmptyRow
<1>3. MemTerminal = {i \in ItemId : table[i].status \in TerminalStatus}
  BY <1>1, <1>2 DEF MemTerminal, Same, TerminalStatus
<1>4. ASSUME NEW i \in MemTerminal, NEW j \in MemTerminal, i # j
      PROVE  /\ MemTerminalBefore(i, j) <=> TerminalBefore(i, j)
             /\ TerminalBefore(i, j) <=> ~TerminalBefore(j, i)
  <2>1. i \in DOMAIN items /\ j \in DOMAIN items
    BY DEF MemTerminal
  <2>2. /\ created[i] = items[i].created /\ airedAt[i] = items[i].airedAt
        /\ created[j] = items[j].created /\ airedAt[j] = items[j].airedAt
        /\ airedAt[i] # 0 => items[i].status = "aired"
        /\ airedAt[j] # 0 => items[j].status = "aired"
        /\ created[i] \in Nat /\ created[j] \in Nat /\ airedAt[i] \in Nat /\ airedAt[j] \in Nat
    BY <1>1, <2>1 DEF Same, Stamps, TwinTypes
  <2>3. /\ created[i] # created[j] /\ created[i] # airedAt[j] /\ created[j] # airedAt[i]
        /\ airedAt[i] # 0 => airedAt[i] # airedAt[j]
    BY <1>1, <1>4, <2>1 DEF Stamps
  <2> QED
    BY <2>2, <2>3 DEF MemTerminalBefore, TerminalBefore
<1> QED
  BY <1>3, <1>4 DEF Answers

LEMMA SameOldest ==
  ASSUME TInv, NEW i \in DOMAIN items
  PROVE  IsOldestApproved(table, i) <=> MemOldestApproved(i)
<1>1. TwinTypes /\ Same /\ NoRowYet /\ DOMAIN items \subseteq ItemId /\ DOMAIN table = ItemId
  BY ItemTypes DEF TInv, TwinTypes
<1>2. \A j \in ItemId \ DOMAIN items : table[j].status = "none"
  BY <1>1 DEF NoRowYet, EmptyRow
<1> QED
  BY <1>1, <1>2 DEF IsOldestApproved, MemOldestApproved, Same

\* An asker is not the Nobody of the rows not given out.
LEMMA SameCounts ==
  ASSUME TInv, NEW u \in Askers, NEW since
  PROVE  /\ CountPendingByUser(table, u) = MemCountPendingByUser(u)
         /\ CountSince(u, since) = MemCountSince(u, since)
<1>1. TwinTypes /\ Same /\ NoRowYet /\ DOMAIN items \subseteq ItemId /\ DOMAIN table = ItemId
  BY ItemTypes DEF TInv, TwinTypes
<1>2. \A j \in ItemId \ DOMAIN items : table[j].user = Nobody
  BY <1>1 DEF NoRowYet, EmptyRow
<1>3. u # Nobody
  BY TwinsAssumption
<1>4. PendingOfUser(table, u)
        = {i \in DOMAIN items : items[i].user = u /\ items[i].status \in PendingStatus}
  BY <1>1, <1>2, <1>3 DEF PendingOfUser, Same
<1>5. {i \in ItemId : table[i].user = u /\ created[i] >= since}
        = {i \in DOMAIN items : items[i].user = u /\ items[i].created >= since}
  BY <1>1, <1>2, <1>3 DEF Same
<1> QED
  BY <1>4, <1>5 DEF CountPendingByUser, MemCountPendingByUser, CountSince, MemCountSince

\* Later items have later stamps.
LEMMA SameByUser ==
  ASSUME TInv, NEW u \in Askers
  PROVE  Answers(MemByUser(u), MemByUserBefore, ByUser(u), ByUserBefore)
<1>1. TwinTypes /\ Same /\ NoRowYet /\ Stamps /\ DOMAIN items \subseteq ItemId
  BY ItemTypes DEF TInv
<1>2. \A j \in ItemId \ DOMAIN items : table[j].user # u
  BY <1>1, TwinsAssumption DEF NoRowYet, EmptyRow
<1>3. MemByUser(u) = ByUser(u)
  BY <1>1, <1>2 DEF MemByUser, ByUser, Same
<1>4. ASSUME NEW i \in MemByUser(u), NEW j \in MemByUser(u), i # j
      PROVE  /\ MemByUserBefore(i, j) <=> ByUserBefore(i, j)
             /\ ByUserBefore(i, j) <=> ~ByUserBefore(j, i)
  <2>1. /\ i \in DOMAIN items /\ j \in DOMAIN items /\ i \in Nat /\ j \in Nat
        /\ created[i] \in Nat /\ created[j] \in Nat
    BY <1>1 DEF MemByUser, TwinTypes, ItemId
  <2>2. /\ i < j => created[i] < created[j]
        /\ j < i => created[j] < created[i]
    BY <1>1, <2>1 DEF Stamps
  <2> QED
    BY <1>4, <2>1, <2>2 DEF MemByUserBefore, ByUserBefore
<1> QED
  BY <1>3, <1>4 DEF Answers

LEMMA SameDuplicates ==
  ASSUME TInv, NEW t \in Wishes
  PROVE  HasPendingYTID(table, t) <=> MemHasPendingYTID(t)
<1>1. TwinTypes /\ Same /\ NoRowYet /\ DOMAIN items \subseteq ItemId /\ DOMAIN table = ItemId
  BY ItemTypes DEF TInv, TwinTypes
<1>2. \A j \in ItemId \ DOMAIN items : table[j].status = "none"
  BY <1>1 DEF NoRowYet, EmptyRow
<1> QED
  BY <1>1, <1>2 DEF HasPendingYTID, PendingOfTrack, MemHasPendingYTID, Same, PendingStatus

\* MemAgrees: whatever calls are made on both, for any number of users, tracks and rows,
\* every read of MemStore answers what PGStore's statement answers.
THEOREM TwinsAgree == TwinsSpec => []MemAgrees
<1>1. TInv => MemAgrees
  <2> SUFFICES ASSUME TInv PROVE MemAgrees
    OBVIOUS
  <2>1. \A i \in DOMAIN items :
          /\ table[i].status = items[i].status /\ table[i].attempts = items[i].attempts
          /\ IsOldestApproved(table, i) <=> MemOldestApproved(i)
    BY SameOldest DEF TInv, Same
  <2>2. \A u \in Askers :
          /\ Answers(MemByUser(u), MemByUserBefore, ByUser(u), ByUserBefore)
          /\ CountPendingByUser(table, u) = MemCountPendingByUser(u)
          /\ \A since \in 1..moment : CountSince(u, since) = MemCountSince(u, since)
    BY SameByUser, SameCounts
  <2>3. \A t \in Wishes : HasPendingYTID(table, t) <=> MemHasPendingYTID(t)
    BY SameDuplicates
  <2> QED
    BY <2>1, <2>2, <2>3, SameQueue, SameRecent DEF MemAgrees
<1> QED
  BY <1>1, TwinsInductive, PTL
=============================================================================
