------------------------------ MODULE Library ------------------------------
(***************************************************************************)
(* The library's rows and the object store behind them: the track table     *)
(* names an artifact, and an artifact is two objects, a blob and its meta,  *)
(* with no transaction over the three.  Acquire (the worker's and the lab   *)
(* console's, in one process) writes them, DeleteTrack removes them, and     *)
(* readers (the feeder, DownloadTrack's answer, a render) hold an artifact's *)
(* name while others run.                                                   *)
(***************************************************************************)
EXTENDS Naturals, FiniteSets

CONSTANTS Songs,        \* yt ids
          Callers,      \* concurrent Acquire calls
          Readers,      \* concurrent readers of an artifact
          Deleters,     \* concurrent DeleteTrack calls
          MaxArtifacts, \* bound on artifact ids
          MaxFailures,  \* bound on failed or killed steps
          NoSong        \* the song of an idle caller

ASSUME LibraryAssumption == MaxArtifacts \in Nat /\ MaxFailures \in Nat /\ NoSong \notin Songs

NoArtifact == 0
ArtifactId == 1..MaxArtifacts

VARIABLES tracks,    \* track.artifact_id by yt id, NoArtifact: no row
          blobs,     \* objects blobs/<id>
          metas,     \* objects meta/<id>.json
          acquires,  \* Acquire, per caller
          deletions, \* DeleteTrack, per call
          readers,   \* the artifact a reader is about to fetch
          named,     \* artifact ids given out
          removed,   \* history: artifacts whose row was deleted
          outdone,   \* history: artifacts whose Add found another row
          failed,    \* history: artifacts whose saving or removal was cut short
          failures   \* failures so far

store == <<blobs, metas>>
history == <<removed, outdone, failed, failures>>
libraryVars == <<tracks, store, acquires, deletions, readers, named, history>>

IdleAcquire == [pc |-> "idle", song |-> NoSong, artifact |-> NoArtifact]
IdleDeletion == [pc |-> "idle", artifact |-> NoArtifact]

LibraryInit ==
    /\ tracks = [s \in Songs |-> NoArtifact]
    /\ blobs = {} /\ metas = {}
    /\ acquires = [c \in Callers |-> IdleAcquire]
    /\ deletions = [o \in Deleters |-> IdleDeletion]
    /\ readers = [r \in Readers |-> NoArtifact]
    /\ named = 0
    /\ removed = {} /\ outdone = {} /\ failed = {} /\ failures = 0

Fails(artifacts) ==
    /\ failures < MaxFailures
    /\ failures' = failures + 1
    /\ failed' = failed \cup artifacts
    /\ UNCHANGED <<removed, outdone>>

-----------------------------------------------------------------------------
(* Acquire.                                                                 *)

\* Library.Get: a row found is the answer, otherwise the download begins.
AcquireBegins(c) ==
    /\ acquires[c].pc = "idle"
    /\ \E s \in Songs :
          acquires' = [acquires EXCEPT ![c] =
              [pc |-> IF tracks[s] = NoArtifact THEN "fetch" ELSE "read",
               song |-> s, artifact |-> tracks[s]]]
    /\ UNCHANGED <<tracks, store, deletions, readers, named, history>>

\* The download, probe or loudness pass fails, or shows no song or one too long:
\* nothing has been stored.
AcquireRejected(c) ==
    /\ acquires[c].pc = "fetch"
    /\ acquires' = [acquires EXCEPT ![c] = IdleAcquire]
    /\ UNCHANGED <<tracks, store, deletions, readers, named, history>>

PutBlob(c) ==
    /\ acquires[c].pc = "fetch" /\ named < MaxArtifacts
    /\ named' = named + 1
    /\ blobs' = blobs \cup {named'}
    /\ acquires' = [acquires EXCEPT ![c].pc = "meta", ![c].artifact = named']
    /\ UNCHANGED <<tracks, metas, deletions, readers, history>>

PutMeta(c) ==
    /\ acquires[c].pc = "meta"
    /\ metas' = metas \cup {acquires[c].artifact}
    /\ acquires' = [acquires EXCEPT ![c].pc = "add"]
    /\ UNCHANGED <<tracks, blobs, deletions, readers, named, history>>

\* PutMeta or Library.Add returns an error: the objects stay.  An error of a write
\* that was done all the same, PutBlob's too, is that write and then this.
AcquireFails(c) ==
    /\ acquires[c].pc \in {"meta", "add"}
    /\ Fails({acquires[c].artifact})
    /\ acquires' = [acquires EXCEPT ![c] = IdleAcquire]
    /\ UNCHANGED <<tracks, store, deletions, readers, named>>

AddTrackBug(c) ==
    LET a == acquires[c]
    IN  /\ a.pc = "add"
        /\ tracks' = [tracks EXCEPT ![a.song] = a.artifact]
        /\ acquires' = [acquires EXCEPT ![c].pc = "read"]
        /\ UNCHANGED <<store, deletions, readers, named, history>>

\* Library.Add: a row already there is left as it is, and the blob just stored
\* belongs to no row.
AddTrack(c) ==
    LET a == acquires[c]
        present == tracks[a.song] # NoArtifact
    IN  /\ a.pc = "add"
        /\ tracks' = IF present THEN tracks ELSE [tracks EXCEPT ![a.song] = a.artifact]
        /\ outdone' = IF present THEN outdone \cup {a.artifact} ELSE outdone
        /\ acquires' = [acquires EXCEPT ![c].pc = "read"]
        /\ UNCHANGED <<store, deletions, readers, named, removed, failed, failures>>

\* The caller reads the artifact it was answered (the worker: its feed does later).
AcquireReturns(c) ==
    /\ acquires[c].pc = "read"
    /\ acquires' = [acquires EXCEPT ![c] = IdleAcquire]
    /\ UNCHANGED <<tracks, store, deletions, readers, named, history>>

-----------------------------------------------------------------------------
(* Readers.                                                                 *)

\* The artifact a row names.
ReaderFinds(r) ==
    /\ readers[r] = NoArtifact
    /\ \E s \in Songs :
          tracks[s] # NoArtifact /\ readers' = [readers EXCEPT ![r] = tracks[s]]
    /\ UNCHANGED <<tracks, store, acquires, deletions, named, history>>

\* Store.Get and FetchToFile, served or not found.
ReaderFetches(r) ==
    /\ readers[r] # NoArtifact
    /\ readers' = [readers EXCEPT ![r] = NoArtifact]
    /\ UNCHANGED <<tracks, store, acquires, deletions, named, history>>

-----------------------------------------------------------------------------
(* DeleteTrack: the row, then the blob, then the meta.                      *)

DeleteRow(o) ==
    /\ deletions[o].pc = "idle"
    /\ \E s \in Songs :
          /\ tracks[s] # NoArtifact
          /\ deletions' = [deletions EXCEPT ![o] = [pc |-> "blob", artifact |-> tracks[s]]]
          /\ removed' = removed \cup {tracks[s]}
          /\ tracks' = [tracks EXCEPT ![s] = NoArtifact]
    /\ UNCHANGED <<store, acquires, readers, named, outdone, failed, failures>>

RemoveBlob(o) ==
    /\ deletions[o].pc = "blob"
    /\ blobs' = blobs \ {deletions[o].artifact}
    /\ deletions' = [deletions EXCEPT ![o].pc = "meta"]
    /\ UNCHANGED <<tracks, metas, acquires, readers, named, history>>

RemoveMeta(o) ==
    /\ deletions[o].pc = "meta"
    /\ metas' = metas \ {deletions[o].artifact}
    /\ deletions' = [deletions EXCEPT ![o] = IdleDeletion]
    /\ UNCHANGED <<tracks, blobs, acquires, readers, named, history>>

\* The store's error is logged, and the call answers that the track is gone.  An
\* error after the object was removed is its removal and then this.
RemoveFails(o) ==
    /\ deletions[o].pc # "idle"
    /\ Fails({deletions[o].artifact})
    /\ deletions' = [deletions EXCEPT ![o] = IdleDeletion]
    /\ UNCHANGED <<tracks, store, acquires, readers, named>>

-----------------------------------------------------------------------------
\* Artifacts an Acquire is storing or DeleteTrack is removing.
InHand == {acquires[c].artifact : c \in {d \in Callers : acquires[d].pc \in {"meta", "add"}}}
          \cup ({deletions[o].artifact : o \in Deleters} \ {NoArtifact})

\* The process is killed: what it was doing stays half done.
LibraryKilled ==
    /\ Fails(InHand)
    /\ acquires' = [c \in Callers |-> IdleAcquire]
    /\ deletions' = [o \in Deleters |-> IdleDeletion]
    /\ readers' = [r \in Readers |-> NoArtifact]
    /\ UNCHANGED <<tracks, store, named>>

LibraryNext ==
    \/ \E c \in Callers :
          AcquireBegins(c) \/ AcquireRejected(c) \/ PutBlob(c) \/ PutMeta(c)
          \/ AcquireFails(c) \/ AddTrack(c) \/ AcquireReturns(c)
    \/ \E r \in Readers : ReaderFinds(r) \/ ReaderFetches(r)
    \/ \E o \in Deleters : DeleteRow(o) \/ RemoveBlob(o) \/ RemoveMeta(o) \/ RemoveFails(o)
    \/ LibraryKilled

LibrarySpec == LibraryInit /\ [][LibraryNext]_libraryVars

-----------------------------------------------------------------------------
(* Properties.                                                              *)

Acquire == [pc : {"idle", "fetch", "meta", "add", "read"}, song : Songs \cup {NoSong},
            artifact : ArtifactId \cup {NoArtifact}]
Deletion == [pc : {"idle", "blob", "meta"}, artifact : ArtifactId \cup {NoArtifact}]

\* Types.
LibraryTypeOK ==
    /\ tracks \in [Songs -> ArtifactId \cup {NoArtifact}]
    /\ blobs \subseteq ArtifactId /\ metas \subseteq ArtifactId
    /\ acquires \in [Callers -> Acquire] /\ deletions \in [Deleters -> Deletion]
    /\ readers \in [Readers -> ArtifactId \cup {NoArtifact}]
    /\ named \in 0..MaxArtifacts /\ failures \in 0..MaxFailures
    /\ removed \subseteq ArtifactId /\ outdone \subseteq ArtifactId /\ failed \subseteq ArtifactId

\* A track of the library can be played: its row never names an artifact without
\* blob and meta, whichever calls race, fail or are killed.
RowsStored == \A s \in Songs : tracks[s] # NoArtifact => tracks[s] \in blobs \cap metas

\* Whoever was answered an artifact finds it, unless the track was deleted under it.
ReadersServed ==
    LET wanted == {readers[r] : r \in Readers} \cup
                  {acquires[c].artifact : c \in {d \in Callers : acquires[d].pc = "read"}}
    IN  wanted \ {NoArtifact} \subseteq (blobs \cap metas) \cup removed

\* What is stored is in a row or in someone's hands; an orphan is left only by a
\* race two acquires of one song ran, or by a step that failed.
OrphansExplained ==
    blobs \cup metas \subseteq {tracks[s] : s \in Songs} \cup InHand \cup outdone \cup failed

\* DownloadTrack and the worker may fetch one song at the same time, and an
\* operator delete it meanwhile: the three promises above.
LibraryBacked == RowsStored /\ ReadersServed /\ OrphansExplained
=============================================================================
