--------------------------- MODULE DirectorProofs ---------------------------
(***************************************************************************)
(* Theorems about Director for every set of tracks and requests, every      *)
(* setting of the clock and any number of air-log entries.  One inductive   *)
(* invariant, IInv, says what is true of a break while it is being          *)
(* prepared (Preparation), while it waits (Waiting), and of the feed at a   *)
(* seam (Listening).  That no clip file is lost, that a waiting clip is     *)
(* wanted and owed, and that a seam follows the track it names, follow.     *)
(* A second one, PInv, adds what is true of a promise from its proposal to  *)
(* the seam it airs at; that promises are kept follows from it.             *)
(***************************************************************************)
EXTENDS Director, Integers, TLAPS

\* A break is being prepared.
Preparing == dir.pc \notin {"idle", "gates"}

\* The kind was due when the preparation began; what may have changed since.
StillOwed(c, clip) ==
    Owed(c, clip.kind) \/ clip.kind = DaypartTransition \/ clip.cancelled

\* A seam names the entry it was prepared against.
NamesEntry(clip) == clip.kind = Seam => clip.anchor # NoEntry

\* The slot is empty during a preparation: nothing but Land fills it.
Preparation ==
    /\ dir.pc # "idle" => seen.onAir /\ seen.ai
    /\ Preparing =>
          /\ slot = NoClip
          /\ dir.clip.kind \in Kinds
          /\ dir.pc # "anchor" => NamesEntry(dir.clip)
          /\ StillOwed(cad, dir.clip)

Waiting ==
    slot # NoClip =>
        /\ slot.kind \in Kinds
        /\ seen.onAir /\ seen.ai
        /\ NamesEntry(slot)
        /\ StillOwed(cad, slot)

\* What the listeners heard last, in terms of the feed's own variables.
Listening ==
    /\ f.pc = "announce" => f.yt \in Tracks
    /\ f.pc \in {"mark", "nextup", "pin", "music"} => heard = f.entry
    /\ f.pc \in {"seam", "clip", "plan", "commit", "announce"} /\ f.last # NoEntry
          => heard = f.last

\* TypeOK without the bound on the clip files, which needs ClipsOwned.
Types ==
    /\ station \in [onAir : BOOLEAN, ai : BOOLEAN]
    /\ status \in [Requests -> {"none", "ready", "aired", "failed"}]
    /\ nextUp \in PinType
    /\ log \in [n : Entries, yt : Tracks \cup {NoTrack}, playing : BOOLEAN]
    /\ f \in FeedType
    /\ cad \in CadenceState
    /\ slot \in ClipType
    /\ seen \in [onAir : BOOLEAN, ai : BOOLEAN, day : {"unset", "same", "rolled"}]
    /\ dir \in DirectorType
    /\ heard \in Entries
    /\ spoken \in [promise : PinType, void : BOOLEAN]
    /\ stops \in 0..MaxStops

IInv == Types /\ ClipsOwned /\ Preparation /\ Waiting /\ Listening

-----------------------------------------------------------------------------
(* What is true of a promise, from its proposal to the seam it airs at.     *)

\* The feed's entries are the latest of the air log: the one on the air, and the
\* one a seam follows in the same session.
Logged ==
    /\ f.pc \in {"mark", "nextup", "pin", "music"} => f.entry = log.n
    /\ f.pc \in {"seam", "clip", "plan", "commit", "announce"} /\ f.last # NoEntry
          => f.last = log.n

\* A promise is of a track; of a request, only once that has arrived.
Named(p, requests) ==
    p # NoPin => /\ p.yt # NoTrack
                 /\ p.req => p.yt \in Requests /\ requests[p.yt] # "none"

Pins ==
    /\ Named(nextUp, status)
    /\ Named(slot.promise, status)
    /\ Named(dir.clip.promise, status)
    /\ Named(spoken.promise, status)

\* Only a seam promises, and it backsells an entry of the log.
Promising(clip, n) ==
    /\ clip.promise # NoPin => clip.kind = Seam
    /\ clip.anchor <= n

Backsells ==
    /\ dir.pc \in {"anchor", "peek"} => dir.clip.kind = Seam
    /\ Promising(slot, log.n)
    /\ Promising(dir.clip, log.n)

\* The promise binds: nothing voided it, and its request is still to be aired.
Live(clip, requests) ==
    /\ ~clip.void
    /\ clip.promise # NoPin
    /\ clip.promise.req => requests[clip.promise.yt] = "ready"

\* What comes next is what was promised: it is the pin until the feed's plan
\* consumes it, and then the track the feed is about to air.
Backed(p, g, pin) ==
    /\ g.pc \notin {"mark", "nextup", "pin"}
    /\ g.pc = "announce" \/ pin = p
    /\ g.pc \in {"commit", "announce"} => g.yt = p.yt
    /\ g.pc = "commit" => g.pin

\* A break that waits may have missed its seam: then it backsells an older entry
\* than the latest, is stale for good, and owes nothing.
Kept(clip, requests, n, g, pin) ==
    Live(clip, requests) /\ clip.anchor = n => Backed(clip.promise, g, pin)

\* Until its promise is pinned, a break owes nothing; the break on the air may
\* meet such a preparation only after the feed took the pin.
Promised ==
    /\ dir.pc = "pin" => dir.clip.promise # NoPin
    /\ Kept(slot, status, log.n, f, nextUp)
    /\ dir.pc \in {"write", "land"} => Kept(dir.clip, status, log.n, f, nextUp)
    /\ Live(spoken, status) => Backed(spoken.promise, f, nextUp)
    /\ dir.pc \in {"write and pin", "pin"} /\ dir.clip.promise # NoPin
          /\ Live(spoken, status) => f.pc = "announce"

PInv == IInv /\ Logged /\ Pins /\ Backsells /\ Promised

-----------------------------------------------------------------------------
(* The format clock. *)

\* The clock starts, restarts and advances within its type.
LEMMA ClockTypes ==
  /\ NewCadence \in CadenceState
  /\ \A c \in CadenceState :
        /\ OpenSession(c) \in CadenceState
        /\ ResumeDJ(c) \in CadenceState
        /\ Disarmed(c) \in CadenceState
        /\ AdvanceMusic(c) \in CadenceState
        /\ [c EXCEPT !.daypart = TRUE] \in CadenceState
        /\ \A kind \in Kinds \cup {NoKind} : Advance(c, kind) \in CadenceState
<1>1. NewCadence \in CadenceState
  BY CadenceAssumption DEF NewCadence, CadenceState, Timer
<1>2. ASSUME NEW c \in CadenceState
      PROVE  /\ OpenSession(c) \in CadenceState
             /\ ResumeDJ(c) \in CadenceState
             /\ Disarmed(c) \in CadenceState
             /\ [c EXCEPT !.daypart = TRUE] \in CadenceState
  BY <1>1 DEF OpenSession, ResumeDJ, Disarmed, CadenceState, Timer
<1>3. ASSUME NEW c \in CadenceState
      PROVE  AdvanceMusic(c) \in CadenceState
  <2> DEFINE n == IF c.finished < BreakEvery THEN c.finished + 1 ELSE c.finished
  <2>1. n \in 0..BreakEvery
    BY CadenceAssumption DEF CadenceState
  <2>2. AdvanceMusic(c) = [c EXCEPT !.finished = n, !.music = TRUE]
    BY DEF AdvanceMusic
  <2> HIDE DEF n
  <2>3. QED
    BY <2>1, <2>2 DEF CadenceState
<1>4. ASSUME NEW c \in CadenceState, NEW kind \in Kinds \cup {NoKind}
      PROVE  Advance(c, kind) \in CadenceState
  <2> DEFINE reset == [c EXCEPT !.finished = 0]
  <2>1. reset \in CadenceState
    BY CadenceAssumption DEF CadenceState
  <2>2. Advance(c, kind) \in
           {c, [c EXCEPT !.stationID = "running"], [reset EXCEPT !.forced = FALSE],
            [reset EXCEPT !.musing = "running"], [reset EXCEPT !.daypart = FALSE],
            [reset EXCEPT !.wake = FALSE]}
    BY DEF Advance, Kinds, NoKind, StationID, Seam, Musing, DaypartTransition,
           WakeGreeting
  <2> HIDE DEF reset
  <2>3. QED
    BY <2>1, <2>2 DEF CadenceState, Timer
<1>5. QED
  BY <1>1, <1>2, <1>3, <1>4

\* The kind the ladder names is owed.
LEMMA DueIsOwed ==
  ASSUME NEW c \in CadenceState, DueKind(c) # NoKind
  PROVE  DueKind(c) \in Kinds /\ Owed(c, DueKind(c))
<1> DEFINE owed == {k \in DOMAIN Ladder : Owed(c, Ladder[k])}
<1> DEFINE first == CHOOSE k \in owed : \A l \in owed : k <= l
<1>1. DOMAIN Ladder = 1..5
  BY DEF Ladder
<1>2. owed # {}
  BY DEF DueKind
<1>3. DueKind(c) = Ladder[first]
  BY DEF DueKind
<1>4. \E k \in owed : \A l \in owed : k <= l
  <2> HIDE DEF owed, first
  <2>1. owed \subseteq 1..5
    BY <1>1 DEF owed
  <2>2. SUFFICES ASSUME \A k \in owed : \E l \in owed : ~(k <= l)
                 PROVE  FALSE
    OBVIOUS
  <2>3. 1 \notin owed
    BY <2>1, <2>2
  <2>4. 2 \notin owed
    BY <2>1, <2>2, <2>3
  <2>5. 3 \notin owed
    BY <2>1, <2>2, <2>3, <2>4
  <2>6. 4 \notin owed
    BY <2>1, <2>2, <2>3, <2>4, <2>5
  <2>7. 5 \notin owed
    BY <2>1, <2>2, <2>3, <2>4, <2>5, <2>6
  <2>8. PICK k \in owed : TRUE
    BY <1>2
  <2>9. k \in 1..5
    BY <2>1
  <2>10. QED
    BY <2>3, <2>4, <2>5, <2>6, <2>7, <2>9
<1>5. first \in owed
  <2> HIDE DEF owed
  <2>1. QED
    BY <1>4
<1>6. \A k \in 1..5 : Ladder[k] \in Kinds
  BY DEF Ladder, Kinds
<1>7. QED
  BY <1>1, <1>3, <1>5, <1>6

\* What can only become more owed: nothing the clock has reached is taken back.
Ahead(c, d) ==
    /\ c.music => d.music
    /\ c.finished <= d.finished
    /\ c.stationID = "elapsed" => d.stationID = "elapsed"
    /\ c.musing = "elapsed" => d.musing = "elapsed"
    /\ c.wake => d.wake
    /\ c.forced => d.forced

\* A break owed by a clock is owed by every clock ahead of it, but for the
\* transition, whose window passes.
LEMMA OwedAhead ==
  ASSUME NEW c \in CadenceState, NEW d \in CadenceState, Ahead(c, d),
         NEW clip \in ClipType, clip.kind \in Kinds, StillOwed(c, clip)
  PROVE  StillOwed(d, clip)
BY CadenceAssumption
   DEF Ahead, StillOwed, Owed, CadenceState, Kinds, StationID, Seam, Musing,
       DaypartTransition, WakeGreeting

-----------------------------------------------------------------------------
(* Type correctness. *)

\* A break, a feed and a director keep their types when one field changes.
LEMMA NoneTypes ==
  /\ NoPin \in PinType
  /\ NoClip \in ClipType
  /\ NoPromise \in [promise : PinType, void : BOOLEAN]
  /\ NoSession \in FeedType
  /\ IdleDirector \in DirectorType
  /\ NoEntry \in Entries
<1>1. NoPin \in PinType /\ NoEntry \in Entries
  BY DirectorBounds DEF NoPin, PinType, NoEntry, Entries
<1>2. NoClip \in ClipType /\ NoPromise \in [promise : PinType, void : BOOLEAN]
  BY <1>1 DEF NoClip, ClipType, NoPromise
<1>3. NoSession \in FeedType
  BY <1>1 DEF NoSession, FeedType
<1>4. IdleDirector \in DirectorType
  BY <1>2 DEF IdleDirector, DirectorType
<1>5. QED
  BY <1>1, <1>2, <1>3, <1>4

LEMMA InitTypes == Init => Types
BY NoneTypes, ClockTypes, DirectorBounds
   DEF Init, Types, NoPin, NoEntry, Entries, Unseen

\* One more stop stays within the bound.
LEMMA StopType ==
  ASSUME Types, Stop
  PROVE  stops' \in 0..MaxStops
BY DirectorBounds DEF Types, Stop

\* Marking a promise as lost changes no type.
LEMMA LostTypes ==
  ASSUME Types, NEW t \in Tracks \cup {NoTrack}
  PROVE  /\ Gone(slot, t) \in ClipType
         /\ [dir EXCEPT !.clip = Gone(dir.clip, t)] \in DirectorType
         /\ Gone(spoken, t) \in [promise : PinType, void : BOOLEAN]
<1>1. ASSUME NEW clip \in ClipType
      PROVE  Gone(clip, t) \in ClipType
  BY DEF Gone, ClipType
<1>2. slot \in ClipType /\ dir.clip \in ClipType
  BY DEF Types, DirectorType
<1>3. [dir EXCEPT !.clip = Gone(dir.clip, t)] \in DirectorType
  BY <1>1, <1>2 DEF Types, DirectorType
<1>4. Gone(spoken, t) \in [promise : PinType, void : BOOLEAN]
  BY DEF Types, Gone
<1>5. QED
  BY <1>1, <1>2, <1>3, <1>4

\* The director's steps.
LEMMA RunOnceTypes ==
  ASSUME Types, Preparation, RunOnce
  PROVE  Types'
<1>1. CASE Tick
  <2>1. cad' \in CadenceState
    BY <1>1, ClockTypes DEF Tick, Types
  <2>2. dir' \in DirectorType
    BY <1>1 DEF Tick, Types, DirectorType
  <2>3. slot' \in ClipType
    BY <1>1, NoneTypes DEF Tick, DropClip, Types
  <2>4. seen' \in [onAir : BOOLEAN, ai : BOOLEAN, day : {"unset", "same", "rolled"}]
    BY <1>1 DEF Tick, Types
  <2>5. QED
    BY <1>1, <2>1, <2>2, <2>3, <2>4 DEF Tick, Types, world, feed
<1>2. CASE GatesClosed
  BY <1>2, NoneTypes DEF GatesClosed, Types, world, feed
<1>3. CASE Gates
  <2>1. DueKind(cad) = NoKind \/ DueKind(cad) \in Kinds
    BY DueIsOwed DEF Types
  <2>2. [NoClip EXCEPT !.kind = DueKind(cad)] \in ClipType
    BY <2>1, NoneTypes DEF ClipType
  <2>3. dir' \in DirectorType
    BY <1>3, <2>2, NoneTypes DEF Gates, DirectorType
  <2>4. QED
    BY <1>3, <2>3 DEF Gates, Types, world, feed
<1>4. CASE ReadAnchor
  <2>1. dir' \in DirectorType
    BY <1>4, NoneTypes DEF ReadAnchor, Types, DirectorType, ClipType
  <2>2. QED
    BY <1>4, <2>1 DEF ReadAnchor, Types, world, feed
<1>5. CASE Peek
  <2>1. PICK p \in Proposals \cup {NoPin} :
          dir' = [dir EXCEPT !.pc = IF p = nextUp THEN "write" ELSE "write and pin",
                             !.clip.promise = p, !.clip.void = Starting]
    BY <1>5 DEF Peek
  <2>2. p \in PinType
    <3>1. \A i \in ReadyTracks : [yt |-> i, req |-> TRUE] \in PinType
      BY TracksAssumption DEF ReadyTracks, PinType
    <3>2. p \in {NoPin, nextUp} \/ \E i \in ReadyTracks : p = [yt |-> i, req |-> TRUE]
      BY DEF Proposals
    <3>3. QED
      BY <3>1, <3>2, NoneTypes DEF Types
  <2>3. Starting \in BOOLEAN
    BY DEF Starting
  <2>4. dir' \in DirectorType
    BY <2>1, <2>2, <2>3 DEF Types, DirectorType, ClipType
  <2>5. QED
    BY <1>5, <2>4 DEF Peek, Types, world, feed
<1>6. CASE Write
  <2>1. dir' \in DirectorType
    BY <1>6 DEF Write, Types, DirectorType
  <2>2. QED
    BY <1>6, <2>1 DEF Write, Types, world, feed
<1>7. CASE PinPromise
  <2>1. dir.clip \in ClipType
    BY DEF Types, DirectorType
  <2>2. nextUp' \in PinType
    BY <1>7, <2>1 DEF PinPromise, ClipType
  <2>3. PICK void \in BOOLEAN :
          dir' = [dir EXCEPT !.pc = "land", !.clip.void = void]
    BY <1>7 DEF PinPromise
  <2>4. dir' \in DirectorType
    BY <2>3 DEF Types, DirectorType, ClipType
  <2>5. QED
    BY <1>7, <2>2, <2>4 DEF PinPromise, Types, world, feed
<1>8. CASE PrepareFails
  BY <1>8, NoneTypes DEF PrepareFails, Types, world, feed
<1>9. CASE Land
  <2>1. slot' \in ClipType
    BY <1>9 DEF Land, Types, DirectorType
  <2>2. QED
    BY <1>9, <2>1, NoneTypes DEF Land, Types, world, feed
<1>10. QED
  BY <1>1, <1>2, <1>3, <1>4, <1>5, <1>6, <1>7, <1>8, <1>9 DEF RunOnce

\* The feed's steps.
LEMMA RunSessionTypes ==
  ASSUME Types, Listening, RunSession
  PROVE  Types'
<1>1. CASE SessionStarts
  <2>1. log' \in [n : Entries, yt : Tracks \cup {NoTrack}, playing : BOOLEAN]
    BY <1>1 DEF SessionStarts, Types
  <2>2. heard' \in Entries /\ spoken' \in [promise : PinType, void : BOOLEAN]
    BY <1>1, NoneTypes DEF SessionStarts, Types
  <2>3. \/ f' = [NoSession EXCEPT !.pc = "music", !.yt = log.yt, !.entry = log.n]
        \/ f' = [NoSession EXCEPT !.pc = "seam"]
    BY <1>1 DEF SessionStarts
  <2>4. log.yt \in Tracks \cup {NoTrack} /\ log.n \in Entries
    BY DEF Types
  <2>5. f' \in FeedType
    BY <2>3, <2>4, NoneTypes DEF FeedType
  <2>6. QED
    BY <1>1, <2>1, <2>2, <2>5 DEF SessionStarts, Types, world, director
<1>2. CASE NoBreak
  <2>1. f' \in FeedType
    BY <1>2 DEF NoBreak, Types, FeedType
  <2>2. QED
    BY <1>2, <2>1 DEF NoBreak, Types, world, director
<1>3. CASE DiscardStale
  <2>1. f' \in FeedType /\ slot' \in ClipType
    BY <1>3, NoneTypes DEF DiscardStale, DropClip, Types, FeedType
  <2>2. QED
    BY <1>3, <2>1 DEF DiscardStale, Types, world
<1>4. CASE TakeClip
  <2>1. f' \in FeedType
    BY <1>4 DEF TakeClip, Types, FeedType
  <2>2. cad' \in CadenceState
    BY <1>4, ClockTypes DEF TakeClip, Types, ClipType
  <2>3. spoken' \in [promise : PinType, void : BOOLEAN]
    BY <1>4 DEF TakeClip, Types, ClipType
  <2>4. QED
    BY <1>4, <2>1, <2>2, <2>3, NoneTypes DEF TakeClip, Types, world
<1>5. CASE ClipEnds
  <2>1. f' \in FeedType
    BY <1>5 DEF ClipEnds, Types, FeedType
  <2>2. QED
    BY <1>5, <2>1 DEF ClipEnds, Types, world
<1>6. CASE PlanNext
  <2>1. PICK p \in Plans :
          f' = [f EXCEPT !.pc = "commit", !.yt = p.yt, !.req = p.req, !.pin = p.pin]
    BY <1>6 DEF PlanNext
  <2>2. p \in [yt : Tracks \cup {NoTrack}, req : BOOLEAN, pin : BOOLEAN]
    <3>1. \A i \in ReadyTracks : i \in Tracks
      BY TracksAssumption DEF ReadyTracks
    <3>2. nextUp \in PinType
      BY DEF Types
    <3>3. \/ \E i \in Tracks, b \in BOOLEAN, pin \in BOOLEAN : p = Item(i, b, pin)
          \/ p = Item(NoTrack, FALSE, TRUE)
          \/ p = Item(nextUp.yt, nextUp.req, TRUE)
      BY <3>1 DEF Plans
    <3>4. CASE \E i \in Tracks, b \in BOOLEAN, pin \in BOOLEAN : p = Item(i, b, pin)
      <4>1. PICK i \in Tracks, b \in BOOLEAN, pin \in BOOLEAN : p = Item(i, b, pin)
        BY <3>4
      <4>2. QED
        BY <4>1 DEF Item
    <3>5. CASE p = Item(NoTrack, FALSE, TRUE)
      BY <3>5 DEF Item
    <3>6. CASE p = Item(nextUp.yt, nextUp.req, TRUE)
      <4>1. nextUp.yt \in Tracks \cup {NoTrack} /\ nextUp.req \in BOOLEAN
        BY <3>2 DEF PinType
      <4>2. QED
        BY <3>6, <4>1 DEF Item
    <3>7. QED
      BY <3>3, <3>4, <3>5, <3>6
  <2>3. f' \in FeedType
    BY <2>1, <2>2 DEF Types, FeedType
  <2>4. QED
    BY <1>6, <2>3 DEF PlanNext, Types, world, director
<1>7. CASE Commit
  <2>1. f' \in FeedType /\ nextUp' \in PinType
    BY <1>7, NoneTypes DEF Commit, Types, FeedType
  <2>2. QED
    BY <1>7, <2>1 DEF Commit, Types, world, director
<1>8. CASE OpenFails
  <2>1. f' \in FeedType /\ f.yt \in Tracks \cup {NoTrack}
    BY <1>8 DEF OpenFails, Types, FeedType
  <2>2. slot' \in ClipType /\ dir' \in DirectorType
    BY <1>8, <2>1, LostTypes DEF OpenFails, Lost
  <2>3. spoken' \in [promise : PinType, void : BOOLEAN]
    BY <1>8, <2>1, LostTypes DEF OpenFails
  <2>4. status' \in [Requests -> {"none", "ready", "aired", "failed"}]
    BY <1>8 DEF OpenFails, Types
  <2>5. QED
    BY <1>8, <2>1, <2>2, <2>3, <2>4 DEF OpenFails, Types
<1>9. CASE Announce
  <2>1. log.n + 1 \in Entries
    BY <1>9, DirectorBounds DEF Announce, Types, Entries
  <2>2. f' \in FeedType
    BY <1>9, <2>1 DEF Announce, Types, FeedType
  <2>3. log' \in [n : Entries, yt : Tracks \cup {NoTrack}, playing : BOOLEAN]
    BY <1>9, <2>1 DEF Announce, Types, FeedType
  <2>4. QED
    BY <1>9, <2>1, <2>2, <2>3, NoneTypes DEF Announce, Types, world, director
<1>10. CASE MarkItemAired
  <2>1. f' \in FeedType
    BY <1>10 DEF MarkItemAired, Types, FeedType
  <2>2. status' \in [Requests -> {"none", "ready", "aired", "failed"}]
    BY <1>10 DEF MarkItemAired, Types
  <2>3. QED
    BY <1>10, <2>1, <2>2 DEF MarkItemAired, Types, director
<1>11. CASE CommitNextUpRead
  <2>1. \/ f' = [f EXCEPT !.pc = "pin"]
        \/ \E t \in Tracks : f' = [f EXCEPT !.pc = "pin", !.pick = t]
    BY <1>11 DEF CommitNextUpRead
  <2>2. f' \in FeedType
    <3>1. f \in FeedType
      BY DEF Types
    <3>2. ASSUME NEW t \in Tracks
          PROVE  [f EXCEPT !.pc = "pin", !.pick = t] \in FeedType
      BY <3>1 DEF FeedType
    <3>3. [f EXCEPT !.pc = "pin"] \in FeedType
      BY <3>1 DEF FeedType
    <3>4. QED
      BY <2>1, <3>2, <3>3
  <2>3. QED
    BY <1>11, <2>2 DEF CommitNextUpRead, Types, world, director
<1>12. CASE CommitNextUpWrite
  <2>1. f' \in FeedType
    BY <1>12 DEF CommitNextUpWrite, Types, FeedType
  <2>2. nextUp' \in PinType
    BY <1>12, NoneTypes DEF CommitNextUpWrite, Types, FeedType, PinType
  <2>3. QED
    BY <1>12, <2>1, <2>2 DEF CommitNextUpWrite, Types, world, director
<1>13. CASE MusicEnds
  <2>1. f' \in FeedType
    BY <1>13, NoneTypes DEF MusicEnds, Types, FeedType
  <2>2. cad' \in CadenceState
    BY <1>13, ClockTypes DEF MusicEnds, Types
  <2>3. log' \in [n : Entries, yt : Tracks \cup {NoTrack}, playing : BOOLEAN]
    BY <1>13 DEF MusicEnds, Types
  <2>4. QED
    BY <1>13, <2>1, <2>2, <2>3 DEF MusicEnds, Types, world
<1>14. CASE SessionEnds
  <2>1. f.yt \in Tracks \cup {NoTrack}
    BY DEF Types, FeedType
  <2>2. slot' \in ClipType /\ dir' \in DirectorType
    BY <1>14, <2>1, LostTypes DEF SessionEnds, Lost, Types
  <2>3. stops' \in 0..MaxStops
    BY <1>14, StopType DEF SessionEnds
  <2>4. QED
    BY <1>14, <2>2, <2>3, NoneTypes DEF SessionEnds, Types, world
<1>15. QED
  BY <1>1, <1>2, <1>3, <1>4, <1>5, <1>6, <1>7, <1>8, <1>9, <1>10, <1>11, <1>12,
     <1>13, <1>14 DEF RunSession

\* Everyone else's steps.
LEMMA OthersTypes ==
  ASSUME Types, Others
  PROVE  Types'
<1>1. CASE ForceBreak
  <2>1. cad' \in CadenceState
    BY <1>1 DEF ForceBreak, Types, CadenceState
  <2>2. QED
    BY <1>1, <2>1 DEF ForceBreak, Types, world, feed
<1>2. CASE CancelPrepared
  <2>1. cad' \in CadenceState /\ slot' \in ClipType
    BY <1>2, ClockTypes, NoneTypes DEF CancelPrepared, DropClip, Types
  <2>2. dir' \in DirectorType
    BY <1>2 DEF CancelPrepared, Types, DirectorType, ClipType
  <2>3. QED
    BY <1>2, <2>1, <2>2 DEF CancelPrepared, Types, world, feed
<1>3. ASSUME NEW b \in BOOLEAN, SetOnAir(b) \/ SetAIEnabled(b)
      PROVE  Types'
  <2>1. station' \in [onAir : BOOLEAN, ai : BOOLEAN]
    BY <1>3 DEF SetOnAir, SetAIEnabled, Types
  <2>2. QED
    BY <1>3, <2>1 DEF SetOnAir, SetAIEnabled, Types, director, feed
<1>4. ASSUME NEW i \in Requests, RequestArrives(i) \/ RequestRemoved(i)
      PROVE  Types'
  <2>1. status' \in [Requests -> {"none", "ready", "aired", "failed"}]
    BY <1>4 DEF RequestArrives, RequestRemoved, Types
  <2>2. QED
    BY <1>4, <2>1 DEF RequestArrives, RequestRemoved, Types, director, feed
<1>5. CASE TimerElapses
  <2>1. cad' \in CadenceState
    BY <1>5 DEF TimerElapses, Types, CadenceState, Timer
  <2>2. QED
    BY <1>5, <2>1 DEF TimerElapses, Types, world, feed
<1>6. CASE DaypartRolls
  <2>1. seen' \in [onAir : BOOLEAN, ai : BOOLEAN, day : {"unset", "same", "rolled"}]
    BY <1>6 DEF DaypartRolls, Types
  <2>2. QED
    BY <1>6, <2>1 DEF DaypartRolls, Types, world, feed
<1>7. CASE DaypartExpires
  <2>1. cad' \in CadenceState
    BY <1>7 DEF DaypartExpires, Types, CadenceState
  <2>2. QED
    BY <1>7, <2>1 DEF DaypartExpires, Types, world, feed
<1>8. QED
  BY <1>1, <1>2, <1>3, <1>4, <1>5, <1>6, <1>7, Zenon DEF Others

\* Every step keeps the types.
LEMMA NextTypes ==
  ASSUME Types, Preparation, Listening, [Next]_vars
  PROVE  Types'
<1>1. CASE Restart
  BY <1>1, NoneTypes, ClockTypes, StopType DEF Restart, Types, world, Unseen
<1>2. CASE UNCHANGED vars
  BY <1>2 DEF vars, Types
<1>3. QED
  BY <1>1, <1>2, RunOnceTypes, RunSessionTypes, OthersTypes DEF Next

-----------------------------------------------------------------------------
(* Clip files. *)

\* Marking a promise as lost neither fills nor empties the slot.
LEMMA LostKeepsSlot ==
  ASSUME Types, NEW clip \in ClipType, NEW t \in Tracks
  PROVE  /\ Gone(clip, t) = NoClip <=> clip = NoClip
         /\ Gone(clip, t).kind = clip.kind
         /\ Gone(clip, t).anchor = clip.anchor
         /\ Gone(clip, t).cancelled = clip.cancelled
<1>1. NoClip.promise.yt # t /\ NoClip.void = FALSE
  BY TracksAssumption DEF NoClip, NoPin
<1>2. CASE clip.promise.yt = t
  <2>1. Gone(clip, t) = [clip EXCEPT !.void = TRUE]
    BY <1>2 DEF Gone
  <2>2. clip # NoClip
    BY <1>1, <1>2
  <2>3. Gone(clip, t).void = TRUE
    BY <2>1 DEF ClipType
  <2>4. Gone(clip, t) # NoClip
    BY <1>1, <2>3
  <2>5. QED
    BY <2>1, <2>2, <2>4 DEF ClipType
<1>3. CASE clip.promise.yt # t
  BY <1>3 DEF Gone
<1>4. QED
  BY <1>2, <1>3

\* A clip of some kind is not the empty slot.
LEMMA SomeClip ==
  ASSUME NEW clip, clip.kind \in Kinds
  PROVE  clip # NoClip
BY DEF NoClip, Kinds, NoKind, StationID, Seam, Musing, DaypartTransition, WakeGreeting

\* Dropping the clip removes exactly the file of the slot.
LEMMA DropClipOwner ==
  ASSUME DropClip, clips \in Int
  PROVE  slot' = NoClip /\ clips' = clips - Count(slot # NoClip)
BY DEF DropClip, Count

\* Every step keeps one holder for every clip file.
LEMMA NextClips ==
  ASSUME IInv, [Next]_vars
  PROVE  ClipsOwned'
<1> DEFINE Rendered(d) == d.pc \in {"pin", "land"}
<1>1. clips = Count(slot # NoClip) + Count(f.pc = "clip") + Count(Rendered(dir))
  BY DEF IInv, ClipsOwned
<1>2. slot = NoClip \/ ~Rendered(dir)
  BY DEF IInv, Preparation, Preparing
<1>3. f \in FeedType /\ dir \in DirectorType /\ slot \in ClipType
  BY DEF IInv, Types
<1>4. clips \in Int
  BY <1>1 DEF Count
<1>5. (clips = Count(slot # NoClip) + Count(f.pc = "clip") + Count(Rendered(dir)))'
         => ClipsOwned'
  BY DEF ClipsOwned
<1>6. CASE Tick
  <2>1. f' = f /\ ~Rendered(dir) /\ ~Rendered(dir')
    BY <1>3, <1>6 DEF Tick, feed, DirectorType
  <2>2. DropClip \/ UNCHANGED <<slot, clips>>
    BY <1>6 DEF Tick
  <2>3. QED
    BY <1>1, <1>4, <1>5, <2>1, <2>2, DropClipOwner DEF Count
<1>7. CASE GatesClosed \/ Gates \/ ReadAnchor \/ Peek
  <2>1. UNCHANGED <<f, slot, clips>>
    BY <1>7 DEF GatesClosed, Gates, ReadAnchor, Peek, feed
  <2>2. ~Rendered(dir)
    BY <1>7 DEF GatesClosed, Gates, ReadAnchor, Peek
  <2>3. CASE GatesClosed \/ Gates
    <3>1. ~Rendered(dir')
      BY <2>3 DEF GatesClosed, Gates, IdleDirector
    <3>2. QED
      BY <1>1, <1>5, <2>1, <2>2, <3>1
  <2>4. CASE ReadAnchor
    <3>1. ~Rendered(dir')
      BY <1>3, <2>4 DEF ReadAnchor, IdleDirector, DirectorType
    <3>2. QED
      BY <1>1, <1>5, <2>1, <2>2, <3>1
  <2>5. CASE Peek
    <3>1. PICK p \in Proposals \cup {NoPin} :
            dir' = [dir EXCEPT !.pc = IF p = nextUp THEN "write" ELSE "write and pin",
                               !.clip.promise = p, !.clip.void = Starting]
      BY <2>5 DEF Peek
    <3>2. ~Rendered(dir')
      BY <1>3, <3>1 DEF DirectorType
    <3>3. QED
      BY <1>1, <1>5, <2>1, <2>2, <3>2
  <2>6. QED
    BY <1>7, <2>3, <2>4, <2>5
<1>8. CASE Write
  <2>1. UNCHANGED <<f, slot>> /\ clips' = clips + 1
    BY <1>8 DEF Write, feed
  <2>2. ~Rendered(dir) /\ Rendered(dir')
    BY <1>3, <1>8 DEF Write, DirectorType
  <2>3. QED
    BY <1>1, <1>5, <2>1, <2>2 DEF Count
<1>9. CASE PinPromise
  <2>1. UNCHANGED <<f, slot, clips>>
    BY <1>9 DEF PinPromise, feed
  <2>2. Rendered(dir) /\ Rendered(dir')
    BY <1>3, <1>9 DEF PinPromise, DirectorType
  <2>3. QED
    BY <1>1, <1>5, <2>1, <2>2
<1>10. CASE PrepareFails
  <2>1. UNCHANGED <<f, slot>> /\ ~Rendered(dir')
    BY <1>10 DEF PrepareFails, feed, IdleDirector
  <2>2. CASE dir.pc = "pin"
    <3>1. clips' = clips - 1
      BY <1>10, <2>2 DEF PrepareFails
    <3>2. QED
      BY <1>1, <1>5, <2>1, <2>2, <3>1 DEF Count
  <2>3. CASE dir.pc # "pin"
    <3>1. clips' = clips /\ ~Rendered(dir)
      BY <1>10, <2>3 DEF PrepareFails
    <3>2. QED
      BY <1>1, <1>5, <2>1, <3>1 DEF Count
  <2>4. QED
    BY <2>2, <2>3
<1>11. CASE Land
  <2>1. dir.clip # NoClip
    BY <1>11, SomeClip DEF Land, IInv, Preparation, Preparing
  <2>2. Rendered(dir) /\ ~Rendered(dir')
    BY <1>11 DEF Land, IdleDirector
  <2>3. QED
    BY <1>1, <1>2, <1>5, <1>11, <2>1, <2>2 DEF Land, feed, Count
<1>12. CASE SessionStarts \/ NoBreak \/ PlanNext \/ Commit \/ Announce \/ MarkItemAired
              \/ CommitNextUpRead \/ CommitNextUpWrite \/ MusicEnds
  <2>1. f.pc # "clip" /\ f'.pc # "clip"
    BY <1>3, <1>12
       DEF SessionStarts, NoBreak, PlanNext, Commit, Announce, MarkItemAired,
           CommitNextUpRead, CommitNextUpWrite, MusicEnds, FeedType, NoSession
  <2>2. UNCHANGED <<slot, dir, clips>>
    BY <1>12
       DEF SessionStarts, NoBreak, PlanNext, Commit, Announce, MarkItemAired,
           CommitNextUpRead, CommitNextUpWrite, MusicEnds, director
  <2>3. QED
    BY <1>1, <1>5, <2>1, <2>2
<1>13. CASE DiscardStale
  <2>1. dir' = dir /\ f.pc # "clip" /\ f'.pc # "clip"
    BY <1>3, <1>13 DEF DiscardStale, FeedType
  <2>2. DropClip
    BY <1>13 DEF DiscardStale
  <2>3. QED
    BY <1>1, <1>4, <1>5, <2>1, <2>2, DropClipOwner DEF Count
<1>14. CASE TakeClip
  <2>1. dir' = dir /\ clips' = clips /\ slot # NoClip /\ slot' = NoClip
    BY <1>14 DEF TakeClip
  <2>2. f.pc # "clip" /\ f'.pc = "clip"
    BY <1>3, <1>14 DEF TakeClip, FeedType
  <2>3. QED
    BY <1>1, <1>5, <2>1, <2>2 DEF Count
<1>15. CASE ClipEnds
  <2>1. UNCHANGED <<dir, slot>> /\ clips' = clips - 1
    BY <1>15 DEF ClipEnds
  <2>2. f.pc = "clip" /\ f'.pc # "clip"
    BY <1>3, <1>15 DEF ClipEnds, FeedType
  <2>3. QED
    BY <1>1, <1>5, <2>1, <2>2 DEF Count
<1>16. ASSUME Lost(f.yt), f.pc = "announce"
       PROVE  (slot' # NoClip <=> slot # NoClip) /\ dir'.pc = dir.pc
  <2>1. f.yt \in Tracks
    BY <1>16 DEF IInv, Listening
  <2>2. slot' = Gone(slot, f.yt) /\ dir'.pc = dir.pc
    BY <1>3, <1>16 DEF Lost, DirectorType
  <2>3. QED
    BY <1>3, <2>1, <2>2, LostKeepsSlot DEF IInv
<1>17. CASE OpenFails
  <2>1. f.pc # "clip" /\ f'.pc # "clip" /\ clips' = clips
    BY <1>3, <1>17 DEF OpenFails, FeedType
  <2>2. (slot' # NoClip <=> slot # NoClip) /\ dir'.pc = dir.pc
    BY <1>16, <1>17 DEF OpenFails
  <2>3. QED
    BY <1>1, <1>5, <2>1, <2>2
<1>18. CASE SessionEnds
  <2>1. (slot' # NoClip <=> slot # NoClip) /\ dir'.pc = dir.pc
    BY <1>16, <1>18 DEF SessionEnds
  <2>2. f'.pc # "clip" /\ clips' = clips - Count(f.pc = "clip")
    BY <1>4, <1>18 DEF SessionEnds, NoSession, Count
  <2>3. QED
    BY <1>1, <1>5, <2>1, <2>2 DEF Count
<1>19. CASE ForceBreak \/ TimerElapses \/ DaypartRolls \/ DaypartExpires
               \/ (\E b \in BOOLEAN : SetOnAir(b) \/ SetAIEnabled(b))
               \/ (\E i \in Requests : RequestArrives(i) \/ RequestRemoved(i))
  <2>1. UNCHANGED <<f, slot, dir, clips>>
    BY <1>19
       DEF ForceBreak, TimerElapses, DaypartRolls, DaypartExpires, SetOnAir,
           SetAIEnabled, RequestArrives, RequestRemoved, director, feed
  <2>2. QED
    BY <1>1, <1>5, <2>1
<1>20. CASE CancelPrepared
  <2>1. f' = f /\ dir'.pc = dir.pc /\ DropClip
    BY <1>3, <1>20 DEF CancelPrepared, feed, DirectorType
  <2>2. QED
    BY <1>1, <1>4, <1>5, <2>1, DropClipOwner DEF Count
<1>21. CASE Restart
  BY <1>21 DEF Restart, ClipsOwned, NoSession, IdleDirector, Count
<1>22. CASE UNCHANGED vars
  BY <1>1, <1>5, <1>22 DEF vars
<1>23. QED
  BY <1>6, <1>7, <1>8, <1>9, <1>10, <1>11, <1>12, <1>13, <1>14, <1>15, <1>17, <1>18,
     <1>19, <1>20, <1>21, <1>22 DEF Next, RunOnce, RunSession, Others

-----------------------------------------------------------------------------
(* Breaks in preparation, and the one that waits. *)

\* A clock is ahead of itself, and after every change but an airing or a reset.
LEMMA AheadSteps ==
  ASSUME NEW c \in CadenceState
  PROVE  /\ Ahead(c, c)
         /\ Ahead(c, AdvanceMusic(c))
         /\ Ahead(c, [c EXCEPT !.forced = TRUE])
         /\ Ahead(c, [c EXCEPT !.daypart = TRUE])
         /\ Ahead(c, [c EXCEPT !.daypart = FALSE])
         /\ Ahead(c, [c EXCEPT !.stationID = "elapsed"])
         /\ Ahead(c, [c EXCEPT !.musing = "elapsed"])
<1>1. Ahead(c, AdvanceMusic(c))
  <2> DEFINE n == IF c.finished < BreakEvery THEN c.finished + 1 ELSE c.finished
  <2>1. c.finished <= n
    BY CadenceAssumption DEF CadenceState
  <2>2. AdvanceMusic(c) = [c EXCEPT !.finished = n, !.music = TRUE]
    BY DEF AdvanceMusic
  <2> HIDE DEF n
  <2>3. QED
    BY <2>1, <2>2 DEF Ahead, CadenceState
<1>2. QED
  BY <1>1, CadenceAssumption DEF Ahead, CadenceState

\* The director, the slot and the edges are left alone; the clock moves ahead.
LEMMA Undisturbed ==
  ASSUME IInv, cad' \in CadenceState, Ahead(cad, cad'), UNCHANGED <<slot, dir>>,
         seen'.onAir = seen.onAir, seen'.ai = seen.ai
  PROVE  Preparation' /\ Waiting'
<1>1. cad \in CadenceState /\ slot \in ClipType /\ dir.clip \in ClipType
  BY DEF IInv, Types, DirectorType
<1>2. Preparation'
  BY <1>1, OwedAhead DEF IInv, Preparation, Preparing
<1>3. Waiting'
  BY <1>1, OwedAhead DEF IInv, Waiting
<1>4. QED
  BY <1>2, <1>3

\* The clip in the slot is handed over or thrown away; none is in preparation.
LEMMA Emptied ==
  ASSUME IInv, slot # NoClip, slot' = NoClip, UNCHANGED <<dir, seen>>
  PROVE  Preparation' /\ Waiting'
BY DEF IInv, Preparation, Preparing, Waiting

\* A tick drops the clip, or finds the DJ on as the last tick did.
LEMMA TickKeeps ==
  ASSUME IInv, Tick
  PROVE  Preparation' /\ Waiting'
<1>1. dir \in DirectorType /\ station \in [onAir : BOOLEAN, ai : BOOLEAN]
  BY DEF IInv, Types
<1>2. seen' = [onAir |-> station.onAir, ai |-> station.ai,
               day |-> IF station.onAir THEN "same" ELSE seen.day]
  BY DEF Tick
<1>3. Preparation'
  <2>1. dir'.pc = IF station.onAir /\ station.ai THEN "gates" ELSE "idle"
    BY <1>1 DEF Tick, DirectorType
  <2>2. QED
    BY <1>2, <2>1 DEF Preparation, Preparing
<1>4. CASE slot' = NoClip
  BY <1>3, <1>4 DEF Waiting
<1>5. CASE slot' # NoClip
  <2>1. slot' = slot /\ station.onAir /\ station.ai
    BY <1>5 DEF Tick, DropClip
  <2>2. seen.onAir /\ seen.ai
    BY <1>5, <2>1 DEF IInv, Waiting
  <2>3. cad' = cad \/ cad' = [cad EXCEPT !.daypart = TRUE]
    BY <2>1, <2>2 DEF Tick, SessionEdge, ResumeEdge
  <2>4. cad \in CadenceState /\ slot \in ClipType
    BY DEF IInv, Types
  <2>5. cad' \in CadenceState /\ Ahead(cad, cad')
    BY <2>3, <2>4, ClockTypes, AheadSteps
  <2>6. StillOwed(cad', slot)
    BY <1>5, <2>1, <2>4, <2>5, OwedAhead DEF IInv, Waiting
  <2>7. Waiting'
    BY <1>2, <1>5, <2>1, <2>6 DEF IInv, Waiting
  <2>8. QED
    BY <1>3, <2>7
<1>6. QED
  BY <1>4, <1>5

\* A preparation begins with a kind that is owed and an empty slot.
LEMMA GatesKeeps ==
  ASSUME IInv, Gates
  PROVE  Preparation' /\ Waiting'
<1>1. UNCHANGED <<slot, cad, seen>> /\ seen.onAir /\ seen.ai
  BY DEF Gates, IInv, Preparation
<1>2. Waiting'
  BY <1>1 DEF IInv, Waiting
<1>3. CASE dir' = IdleDirector
  BY <1>2, <1>3 DEF IdleDirector, Preparation, Preparing
<1>4. CASE dir' # IdleDirector
  <2> DEFINE kind == DueKind(cad)
  <2>1. slot = NoClip /\ kind # NoKind
    BY <1>4 DEF Gates
  <2>2. dir' = [pc |-> IF Anchored(kind) THEN "anchor" ELSE "write",
                clip |-> [NoClip EXCEPT !.kind = kind]]
    BY <1>4, <2>1 DEF Gates
  <2>3. kind \in Kinds /\ Owed(cad, kind)
    BY <2>1, DueIsOwed DEF IInv, Types
  <2> HIDE DEF kind
  <2>4. dir'.clip.kind = kind /\ (dir'.pc # "anchor" => kind # Seam)
    BY <2>2 DEF NoClip, Anchored
  <2>5. Owed(cad', dir'.clip.kind)
    BY <1>1, <2>3, <2>4
  <2>6. Preparation'
    BY <1>1, <2>1, <2>3, <2>4, <2>5 DEF Preparation, Preparing, StillOwed, NamesEntry
  <2>7. QED
    BY <1>2, <2>6
<1>5. QED
  BY <1>3, <1>4

\* The steps of a preparation change neither its kind nor its debt.
LEMMA PrepareKeeps ==
  ASSUME IInv, ReadAnchor \/ Peek \/ Write \/ PinPromise
  PROVE  Preparation' /\ Waiting'
<1>1. UNCHANGED <<slot, cad, seen>> /\ Preparing
  BY DEF ReadAnchor, Peek, Write, PinPromise, Preparing
<1>2. Waiting'
  BY <1>1 DEF IInv, Waiting
<1>3. dir \in DirectorType
  BY DEF IInv, Types
<1>4. CASE dir' = IdleDirector
  BY <1>2, <1>4 DEF IdleDirector, Preparation, Preparing
<1>5. ASSUME dir'.clip.kind = dir.clip.kind, dir'.clip.cancelled = dir.clip.cancelled,
             NamesEntry(dir'.clip)
      PROVE  Preparation' /\ Waiting'
  <2>1. StillOwed(cad, dir.clip) /\ slot = NoClip /\ dir.clip.kind \in Kinds
        /\ seen.onAir /\ seen.ai
    BY <1>1 DEF IInv, Preparation, Preparing
  <2>2. StillOwed(cad', dir'.clip)
    BY <1>1, <1>5, <2>1 DEF StillOwed
  <2>3. Preparation'
    BY <1>1, <1>5, <2>1, <2>2 DEF Preparation, Preparing
  <2>4. QED
    BY <1>2, <2>3
<1>6. CASE ReadAnchor
  <2>1. CASE log.n = NoEntry
    BY <1>4, <1>6, <2>1 DEF ReadAnchor
  <2>2. CASE log.n # NoEntry
    <3>1. dir' = [dir EXCEPT !.pc = "peek", !.clip.anchor = log.n]
      BY <1>6, <2>2 DEF ReadAnchor
    <3>2. /\ dir'.clip.kind = dir.clip.kind
          /\ dir'.clip.cancelled = dir.clip.cancelled
          /\ dir'.clip.anchor # NoEntry
      BY <1>3, <2>2, <3>1 DEF DirectorType, ClipType
    <3>3. QED
      BY <1>5, <3>2 DEF NamesEntry
  <2>3. QED
    BY <2>1, <2>2
<1>7. CASE Peek \/ Write \/ PinPromise
  <2>1. /\ dir'.clip.kind = dir.clip.kind
        /\ dir'.clip.cancelled = dir.clip.cancelled
        /\ dir'.clip.anchor = dir.clip.anchor
        /\ dir.pc # "anchor"
    <3>1. CASE Peek
      <4>1. PICK p \in Proposals \cup {NoPin} :
              dir' = [dir EXCEPT !.pc = IF p = nextUp THEN "write" ELSE "write and pin",
                                 !.clip.promise = p, !.clip.void = Starting]
        BY <3>1 DEF Peek
      <4>2. dir.pc # "anchor"
        BY <3>1 DEF Peek
      <4>3. QED
        BY <1>3, <4>1, <4>2 DEF DirectorType, ClipType
    <3>2. CASE Write
      BY <1>3, <3>2 DEF Write, DirectorType, ClipType
    <3>3. CASE PinPromise
      BY <1>3, <3>3 DEF PinPromise, DirectorType, ClipType
    <3>4. QED
      BY <1>7, <3>1, <3>2, <3>3
  <2>2. NamesEntry(dir.clip)
    BY <1>1, <2>1 DEF IInv, Preparation
  <2>3. QED
    BY <1>5, <2>1, <2>2 DEF NamesEntry
<1>8. QED
  BY <1>6, <1>7

\* A preparation that fails, and gates that close, leave nothing behind.
LEMMA GiveUpKeeps ==
  ASSUME IInv, GatesClosed \/ PrepareFails
  PROVE  Preparation' /\ Waiting'
<1>1. UNCHANGED <<slot, cad, seen>> /\ dir' = IdleDirector
  BY DEF GatesClosed, PrepareFails
<1>2. QED
  BY <1>1 DEF IInv, Preparation, Preparing, Waiting, IdleDirector

\* What lands in the slot is what was prepared.
LEMMA LandKeeps ==
  ASSUME IInv, Land
  PROVE  Preparation' /\ Waiting'
<1>1. slot' = dir.clip /\ UNCHANGED <<cad, seen>> /\ dir' = IdleDirector
  BY DEF Land
<1>2. /\ dir.clip.kind \in Kinds
      /\ NamesEntry(dir.clip)
      /\ StillOwed(cad, dir.clip)
      /\ seen.onAir /\ seen.ai
  BY DEF Land, IInv, Preparation, Preparing
<1>3. Preparation'
  BY <1>1 DEF Preparation, Preparing, IdleDirector
<1>4. Waiting'
  BY <1>1, <1>2 DEF Waiting
<1>5. QED
  BY <1>3, <1>4

\* A cancelled preparation is marked, a cancelled clip is gone.
LEMMA CancelKeeps ==
  ASSUME IInv, CancelPrepared
  PROVE  Preparation' /\ Waiting'
<1>1. slot' = NoClip /\ seen' = seen
  BY DEF CancelPrepared, DropClip
<1>2. Waiting'
  BY <1>1 DEF Waiting
<1>3. CASE Preparing
  <2>1. dir.clip.kind \in Kinds /\ seen.onAir /\ seen.ai
        /\ (dir.pc # "anchor" => NamesEntry(dir.clip))
    BY <1>3 DEF IInv, Preparation, Preparing
  <2>2. dir' = [dir EXCEPT !.clip.cancelled = TRUE]
    BY <2>1, SomeClip DEF CancelPrepared
  <2>3. dir'.pc = dir.pc /\ dir'.clip.kind = dir.clip.kind
        /\ dir'.clip.anchor = dir.clip.anchor /\ dir'.clip.cancelled
    BY <2>2 DEF IInv, Types, DirectorType, ClipType
  <2>4. Preparation'
    BY <1>1, <2>1, <2>3 DEF Preparation, Preparing, StillOwed, NamesEntry
  <2>5. QED
    BY <1>2, <2>4
<1>4. CASE ~Preparing
  <2>1. dir'.pc = dir.pc
    BY DEF CancelPrepared, IInv, Types, DirectorType
  <2>2. Preparation'
    BY <1>1, <1>4, <2>1 DEF IInv, Preparation, Preparing
  <2>3. QED
    BY <1>2, <2>2
<1>5. QED
  BY <1>3, <1>4

\* A lost promise changes neither the kind of a break nor what it backsells.
LEMMA LostKeeps ==
  ASSUME IInv, NEW t \in Tracks, Lost(t), UNCHANGED <<cad, seen>>
  PROVE  Preparation' /\ Waiting'
<1>1. slot \in ClipType /\ dir.clip \in ClipType /\ dir \in DirectorType
  BY DEF IInv, Types, DirectorType
<1>2. slot' = Gone(slot, t) /\ dir'.clip = Gone(dir.clip, t) /\ dir'.pc = dir.pc
  BY <1>1 DEF Lost, DirectorType
<1>3. /\ slot' = NoClip <=> slot = NoClip
      /\ slot'.kind = slot.kind /\ slot'.anchor = slot.anchor
      /\ slot'.cancelled = slot.cancelled
  BY <1>1, <1>2, LostKeepsSlot DEF IInv
<1>4. /\ dir'.clip.kind = dir.clip.kind /\ dir'.clip.anchor = dir.clip.anchor
      /\ dir'.clip.cancelled = dir.clip.cancelled
  BY <1>1, <1>2, LostKeepsSlot DEF IInv
<1>5. Waiting'
  BY <1>3 DEF IInv, Waiting, StillOwed, NamesEntry
<1>6. Preparation'
  BY <1>2, <1>3, <1>4 DEF IInv, Preparation, Preparing, StillOwed, NamesEntry
<1>7. QED
  BY <1>5, <1>6

\* Every step keeps what is true of the break in preparation and of the one that
\* waits.
LEMMA NextBreaks ==
  ASSUME IInv, [Next]_vars
  PROVE  Preparation' /\ Waiting'
<1>1. cad \in CadenceState /\ seen' \in [onAir : BOOLEAN, ai : BOOLEAN,
                                          day : {"unset", "same", "rolled"}]
  BY NextTypes DEF IInv, Types
<1>2. CASE RunOnce
  BY <1>2, TickKeeps, GatesKeeps, PrepareKeeps, GiveUpKeeps, LandKeeps DEF RunOnce
<1>3. CASE SessionStarts \/ NoBreak \/ ClipEnds \/ PlanNext \/ Commit \/ Announce
              \/ MarkItemAired \/ CommitNextUpRead \/ CommitNextUpWrite
              \/ (\E b \in BOOLEAN : SetOnAir(b) \/ SetAIEnabled(b))
              \/ (\E i \in Requests : RequestArrives(i) \/ RequestRemoved(i))
              \/ UNCHANGED vars
  <2>1. UNCHANGED <<cad, slot, seen, dir>>
    BY <1>3
       DEF SessionStarts, NoBreak, ClipEnds, PlanNext, Commit, Announce, MarkItemAired,
           CommitNextUpRead, CommitNextUpWrite, SetOnAir, SetAIEnabled,
           RequestArrives, RequestRemoved, director, vars
  <2>2. QED
    BY <1>1, <2>1, AheadSteps, Undisturbed
<1>4. CASE MusicEnds
  BY <1>1, <1>4, AheadSteps, ClockTypes, Undisturbed DEF MusicEnds
<1>5. CASE ForceBreak \/ TimerElapses \/ DaypartRolls \/ DaypartExpires
  <2>1. cad' \in {cad, [cad EXCEPT !.forced = TRUE], [cad EXCEPT !.daypart = FALSE],
                  [cad EXCEPT !.stationID = "elapsed"],
                  [cad EXCEPT !.musing = "elapsed"]}
    BY <1>5 DEF ForceBreak, TimerElapses, DaypartRolls, DaypartExpires
  <2>2. Ahead(cad, cad')
    BY <1>1, <2>1, AheadSteps
  <2>3. cad' \in CadenceState
    BY <1>5, NextTypes DEF IInv, Types
  <2>4. UNCHANGED <<slot, dir>> /\ seen'.onAir = seen.onAir /\ seen'.ai = seen.ai
    BY <1>5 DEF ForceBreak, TimerElapses, DaypartRolls, DaypartExpires, IInv, Types
  <2>5. QED
    BY <2>2, <2>3, <2>4, Undisturbed
<1>6. CASE DiscardStale \/ TakeClip
  <2>1. slot # NoClip /\ slot' = NoClip /\ UNCHANGED <<dir, seen>>
    BY <1>6 DEF DiscardStale, TakeClip, DropClip
  <2>2. QED
    BY <2>1, Emptied
<1>7. CASE OpenFails
  <2>1. f.yt \in Tracks /\ Lost(f.yt) /\ UNCHANGED <<cad, seen>>
    BY <1>7 DEF OpenFails, IInv, Listening
  <2>2. QED
    BY <2>1, LostKeeps
<1>8. CASE SessionEnds
  <2>1. UNCHANGED <<cad, seen>>
    BY <1>8 DEF SessionEnds
  <2>2. CASE f.pc = "announce"
    <3>1. f.yt \in Tracks /\ Lost(f.yt)
      BY <1>8, <2>2 DEF SessionEnds, IInv, Listening
    <3>2. QED
      BY <2>1, <3>1, LostKeeps
  <2>3. CASE f.pc # "announce"
    BY <1>1, <1>8, <2>1, <2>3, AheadSteps, Undisturbed DEF SessionEnds
  <2>4. QED
    BY <2>2, <2>3
<1>9. CASE CancelPrepared
  BY <1>9, CancelKeeps
<1>10. CASE Restart
  BY <1>10 DEF Restart, Preparation, Preparing, Waiting, IdleDirector
<1>11. QED
  BY <1>2, <1>3, <1>4, <1>5, <1>6, <1>7, <1>8, <1>9, <1>10
     DEF Next, RunSession, Others

-----------------------------------------------------------------------------
(* The feed. *)

\* Every step keeps what the feed's variables say of what was heard.
LEMMA NextListening ==
  ASSUME IInv, [Next]_vars
  PROVE  Listening'
<1>1. f \in FeedType
  BY DEF IInv, Types
<1>2. CASE RunOnce \/ Others \/ UNCHANGED vars
  <2>1. UNCHANGED <<f, heard>>
    BY <1>2
       DEF RunOnce, Tick, GatesClosed, Gates, ReadAnchor, Peek, Write, PinPromise,
           PrepareFails, Land, Others, ForceBreak, CancelPrepared, SetOnAir,
           SetAIEnabled, RequestArrives, RequestRemoved, TimerElapses, DaypartRolls,
           DaypartExpires, feed, vars
  <2>2. QED
    BY <2>1 DEF IInv, Listening
<1>3. CASE SessionStarts
  BY <1>3 DEF SessionStarts, Listening, NoSession
<1>4. CASE NoBreak \/ DiscardStale \/ TakeClip \/ ClipEnds \/ Commit \/ OpenFails
  <2>1. /\ heard' = heard /\ f'.last = f.last
        /\ f.pc \in {"seam", "clip", "plan", "commit", "announce"}
        /\ f'.pc \in {"seam", "clip", "plan", "announce"}
        /\ f'.pc = "announce" => f'.yt = f.yt /\ f.yt # NoTrack
    BY <1>1, <1>4
       DEF NoBreak, DiscardStale, TakeClip, ClipEnds, Commit, OpenFails, FeedType
  <2>2. f.yt \in Tracks \cup {NoTrack}
    BY <1>1 DEF FeedType
  <2>3. QED
    BY <2>1, <2>2 DEF IInv, Listening
<1>5. CASE PlanNext
  <2>1. /\ heard' = heard /\ f'.last = f.last
        /\ f.pc = "plan" /\ f'.pc = "commit"
    BY <1>1, <1>5 DEF PlanNext, FeedType
  <2>2. QED
    BY <2>1 DEF IInv, Listening
<1>6. CASE Announce
  <2>1. f'.pc \in {"mark", "nextup"} /\ f'.entry = heard'
    BY <1>1, <1>6 DEF Announce, FeedType
  <2>2. QED
    BY <2>1 DEF Listening
<1>7. CASE MarkItemAired \/ CommitNextUpRead \/ CommitNextUpWrite
  <2>1. /\ heard' = heard /\ f'.entry = f.entry
        /\ f.pc \in {"mark", "nextup", "pin"} /\ f'.pc \in {"nextup", "pin", "music"}
    BY <1>1, <1>7 DEF MarkItemAired, CommitNextUpRead, CommitNextUpWrite, FeedType
  <2>2. QED
    BY <2>1 DEF IInv, Listening
<1>8. CASE MusicEnds
  <2>1. f.pc = "music" /\ f'.pc = "seam" /\ f'.last = f.entry /\ heard' = heard
    BY <1>8 DEF MusicEnds, NoSession
  <2>2. QED
    BY <2>1 DEF IInv, Listening
<1>9. CASE SessionEnds \/ Restart
  BY <1>9 DEF SessionEnds, Restart, Listening, NoSession
<1>10. QED
  BY <1>2, <1>3, <1>4, <1>5, <1>6, <1>7, <1>8, <1>9 DEF Next, RunSession

-----------------------------------------------------------------------------
(* The invariant of breaks and of the feed. *)

LEMMA InitIInv == Init => IInv
<1> SUFFICES ASSUME Init PROVE IInv
  OBVIOUS
<1>1. Types
  BY InitTypes
<1>2. ClipsOwned
  BY DEF Init, ClipsOwned, Count, NoSession, IdleDirector
<1>3. Preparation /\ Waiting
  BY DEF Init, Preparation, Preparing, Waiting, IdleDirector
<1>4. Listening
  BY DEF Init, Listening, NoSession
<1>5. QED
  BY <1>1, <1>2, <1>3, <1>4 DEF IInv

LEMMA NextIInv == IInv /\ [Next]_vars => IInv'
BY NextTypes, NextClips, NextBreaks, NextListening DEF IInv

-----------------------------------------------------------------------------
(* Promises. *)

\* A request that arrived stays known, and never becomes ready again.
LEMMA StatusSteps ==
  ASSUME IInv, [Next]_vars, NEW i \in Requests, status[i] # "none"
  PROVE  status'[i] # "none" /\ (status'[i] = "ready" => status[i] = "ready")
<1>1. status \in [Requests -> {"none", "ready", "aired", "failed"}] /\ f \in FeedType
  BY DEF IInv, Types
<1>2. CASE status' = status
  BY <1>2
<1>3. ASSUME NEW j, NEW s \in {"aired", "failed"}, status' = [status EXCEPT ![j] = s]
      PROVE  status'[i] # "none" /\ (status'[i] = "ready" => status[i] = "ready")
  BY <1>1, <1>3
<1>4. CASE OpenFails
  BY <1>2, <1>3, <1>4 DEF OpenFails
<1>5. CASE MarkItemAired
  BY <1>3, <1>5 DEF MarkItemAired
<1>6. CASE \E j \in Requests : RequestArrives(j) \/ RequestRemoved(j)
  <2>1. PICK j \in Requests : RequestArrives(j) \/ RequestRemoved(j)
    BY <1>6
  <2>2. CASE RequestArrives(j)
    BY <1>1, <2>2 DEF RequestArrives
  <2>3. CASE RequestRemoved(j)
    BY <1>3, <2>3 DEF RequestRemoved
  <2>4. QED
    BY <2>1, <2>2, <2>3
<1>7. CASE RunOnce \/ Restart \/ ForceBreak \/ CancelPrepared \/ TimerElapses
              \/ DaypartRolls \/ DaypartExpires
              \/ (\E b \in BOOLEAN : SetOnAir(b) \/ SetAIEnabled(b)) \/ UNCHANGED vars
  BY <1>2, <1>7
     DEF RunOnce, Tick, GatesClosed, Gates, ReadAnchor, Peek, Write, PinPromise,
         PrepareFails, Land, Restart, ForceBreak, CancelPrepared, TimerElapses,
         DaypartRolls, DaypartExpires, SetOnAir, SetAIEnabled, world, vars
<1>8. CASE SessionStarts \/ NoBreak \/ DiscardStale \/ TakeClip \/ ClipEnds \/ PlanNext
              \/ Commit \/ Announce \/ CommitNextUpRead \/ CommitNextUpWrite \/ MusicEnds
              \/ SessionEnds
  BY <1>2, <1>8
     DEF SessionStarts, NoBreak, DiscardStale, TakeClip, ClipEnds, PlanNext, Commit,
         Announce, CommitNextUpRead, CommitNextUpWrite, MusicEnds, SessionEnds, world
<1>9. QED
  BY <1>4, <1>5, <1>6, <1>7, <1>8 DEF Next, RunSession, Others

\* A named promise stays named; a promise that binds has bound all along.
LEMMA StillNamed ==
  ASSUME IInv, [Next]_vars, NEW p, Named(p, status)
  PROVE  Named(p, status')
BY StatusSteps DEF Named

LEMMA StillLive ==
  ASSUME IInv, [Next]_vars, NEW clip, Named(clip.promise, status), Live(clip, status')
  PROVE  Live(clip, status)
BY StatusSteps DEF Named, Live

\* Every step keeps the feed's entries the latest of the log.
LEMMA NextLogged ==
  ASSUME IInv, Logged, [Next]_vars
  PROVE  Logged'
<1>1. f \in FeedType /\ log.n \in Entries
  BY DEF IInv, Types
<1>2. CASE RunOnce \/ Others \/ UNCHANGED vars
  <2>1. UNCHANGED <<f, log>>
    BY <1>2
       DEF RunOnce, Tick, GatesClosed, Gates, ReadAnchor, Peek, Write, PinPromise,
           PrepareFails, Land, Others, ForceBreak, CancelPrepared, SetOnAir,
           SetAIEnabled, RequestArrives, RequestRemoved, TimerElapses, DaypartRolls,
           DaypartExpires, feed, vars
  <2>2. QED
    BY <2>1 DEF Logged
<1>3. CASE SessionStarts
  <2>1. f'.pc \in {"music", "seam"} /\ f'.last = NoEntry
        /\ (f'.pc = "music" => f'.entry = log.n /\ log' = log)
    BY <1>3 DEF SessionStarts, NoSession
  <2>2. QED
    BY <2>1 DEF Logged
<1>4. CASE NoBreak \/ DiscardStale \/ TakeClip \/ ClipEnds \/ PlanNext \/ Commit \/ OpenFails
  <2>1. log' = log
    BY <1>4 DEF NoBreak, DiscardStale, TakeClip, ClipEnds, PlanNext, Commit, OpenFails
  <2>2. CASE PlanNext
    <3>1. f.pc = "plan" /\ f'.pc = "commit" /\ f'.last = f.last
      BY <1>1, <2>2 DEF PlanNext, FeedType
    <3>2. QED
      BY <2>1, <3>1 DEF Logged
  <2>3. CASE NoBreak \/ DiscardStale \/ TakeClip \/ ClipEnds \/ Commit \/ OpenFails
    <3>1. /\ f.pc \in {"seam", "clip", "plan", "commit", "announce"}
          /\ f'.pc \in {"seam", "clip", "plan", "announce"}
          /\ f'.last = f.last
      BY <1>1, <2>3
         DEF NoBreak, DiscardStale, TakeClip, ClipEnds, Commit, OpenFails, FeedType
    <3>2. QED
      BY <2>1, <3>1 DEF Logged
  <2>4. QED
    BY <1>4, <2>2, <2>3
<1>5. CASE Announce
  <2>1. f'.pc \in {"mark", "nextup"} /\ f'.entry = log.n + 1 /\ log'.n = log.n + 1
    BY <1>1, <1>5 DEF Announce, FeedType
  <2>2. QED
    BY <2>1 DEF Logged
<1>6. CASE MarkItemAired \/ CommitNextUpRead \/ CommitNextUpWrite
  <2>1. /\ log' = log /\ f'.entry = f.entry
        /\ f.pc \in {"mark", "nextup", "pin"} /\ f'.pc \in {"nextup", "pin", "music"}
    BY <1>1, <1>6 DEF MarkItemAired, CommitNextUpRead, CommitNextUpWrite, FeedType
  <2>2. QED
    BY <2>1 DEF Logged
<1>7. CASE MusicEnds
  <2>1. /\ log'.n = log.n
        /\ f.pc = "music" /\ f'.pc = "seam" /\ f'.last = f.entry
    <3>1. log \in [n : Entries, yt : Tracks \cup {NoTrack}, playing : BOOLEAN]
      BY DEF IInv, Types
    <3>2. QED
      BY <1>7, <3>1 DEF MusicEnds, NoSession
  <2>2. QED
    BY <2>1 DEF Logged
<1>8. CASE SessionEnds \/ Restart
  BY <1>8 DEF SessionEnds, Restart, Logged, NoSession
<1>9. QED
  BY <1>2, <1>3, <1>4, <1>5, <1>6, <1>7, <1>8 DEF Next, RunSession

\* What a step leaves of a break's promise: it may only void it.
Unaltered(new, old) ==
    /\ new.promise = old.promise
    /\ old.void => new.void
    /\ new.anchor = old.anchor
    /\ new.kind = old.kind

LEMMA LostUnaltered ==
  ASSUME IInv, NEW t \in Tracks, Lost(t)
  PROVE  /\ Unaltered(slot', slot)
         /\ Unaltered(dir'.clip, dir.clip)
         /\ dir'.pc = dir.pc
         /\ slot.promise.yt = t => slot'.void
         /\ dir.clip.promise.yt = t => dir'.clip.void
<1>1. slot \in ClipType /\ dir.clip \in ClipType /\ dir \in DirectorType
  BY DEF IInv, Types, DirectorType
<1>2. slot' = Gone(slot, t) /\ dir'.clip = Gone(dir.clip, t) /\ dir'.pc = dir.pc
  BY <1>1 DEF Lost, DirectorType
<1>3. ASSUME NEW clip \in ClipType
      PROVE  Unaltered(Gone(clip, t), clip) /\ (clip.promise.yt = t => Gone(clip, t).void)
  BY DEF Gone, Unaltered, ClipType
<1>4. QED
  BY <1>1, <1>2, <1>3

\* The steps of the feed after which the latest entry is the same, the break on
\* the air is, and no track was lost.
Quietly ==
    \/ SessionStarts \/ NoBreak \/ DiscardStale \/ TakeClip \/ ClipEnds \/ PlanNext
    \/ Commit \/ MarkItemAired \/ CommitNextUpRead \/ CommitNextUpWrite \/ MusicEnds
    \/ (SessionEnds /\ f.pc # "announce")

\* The plan takes the pin of a promise that binds, and the commit clears it: from
\* there to the announcement the promised track is the feed's.
LEMMA FeedBacks ==
  ASSUME IInv, Quietly, NEW p \in PinType, p # NoPin, p.yt # NoTrack,
         p.req => status[p.yt] = "ready", Backed(p, f, nextUp)
  PROVE  Backed(p, f', nextUp')
<1>1. f \in FeedType
  BY DEF IInv, Types
<1>2. CASE MarkItemAired \/ CommitNextUpRead \/ CommitNextUpWrite
  BY <1>2 DEF MarkItemAired, CommitNextUpRead, CommitNextUpWrite, Backed
<1>3. CASE SessionStarts \/ NoBreak \/ DiscardStale \/ TakeClip \/ ClipEnds \/ MusicEnds
              \/ (SessionEnds /\ f.pc # "announce")
  <2>1. nextUp' = nextUp
    BY <1>3
       DEF SessionStarts, NoBreak, DiscardStale, TakeClip, ClipEnds, MusicEnds,
           SessionEnds, world
  <2>2. f'.pc \in {"music", "seam", "plan", "clip", "off"}
    <3>1. CASE SessionStarts \/ MusicEnds \/ (SessionEnds /\ f.pc # "announce")
      <4>1. CASE SessionStarts
        BY <4>1 DEF SessionStarts, NoSession
      <4>2. CASE MusicEnds
        BY <4>2 DEF MusicEnds, NoSession
      <4>3. CASE SessionEnds
        BY <4>3 DEF SessionEnds, NoSession
      <4>4. QED
        BY <3>1, <4>1, <4>2, <4>3
    <3>2. CASE NoBreak \/ DiscardStale \/ TakeClip \/ ClipEnds
      BY <1>1, <3>2 DEF NoBreak, DiscardStale, TakeClip, ClipEnds, FeedType
    <3>3. QED
      BY <1>3, <3>1, <3>2
  <2>3. f.pc # "announce"
    BY <1>3
       DEF SessionStarts, NoBreak, DiscardStale, TakeClip, ClipEnds, MusicEnds
  <2>4. QED
    BY <2>1, <2>2, <2>3 DEF Backed
<1>4. CASE PlanNext
  <2>1. nextUp = p /\ nextUp' = nextUp
    BY <1>4 DEF PlanNext, Backed
  <2>2. Plans = {Item(p.yt, p.req, TRUE)}
    BY <2>1 DEF Plans, Usable
  <2>3. PICK item \in Plans :
          f' = [f EXCEPT !.pc = "commit", !.yt = item.yt, !.req = item.req,
                         !.pin = item.pin]
    BY <1>4 DEF PlanNext
  <2>4. item.yt = p.yt /\ item.pin
    BY <2>2 DEF Item
  <2>5. f'.pc = "commit" /\ f'.yt = p.yt /\ f'.pin
    BY <1>1, <2>3, <2>4 DEF FeedType
  <2>6. QED
    BY <2>1, <2>5 DEF Backed
<1>5. CASE Commit
  <2>1. f.yt = p.yt
    BY <1>5 DEF Commit, Backed
  <2>2. f'.pc = "announce" /\ f'.yt = f.yt
    BY <1>1, <1>5, <2>1 DEF Commit, FeedType
  <2>3. QED
    BY <2>1, <2>2 DEF Backed
<1>6. QED
  BY <1>2, <1>3, <1>4, <1>5 DEF Quietly

\* The same of a break.
LEMMA FeedKeeps ==
  ASSUME IInv, [Next]_vars, Quietly, NEW old \in ClipType, NEW new,
         Unaltered(new, old), Named(old.promise, status), log'.n = log.n,
         Kept(old, status, log.n, f, nextUp)
  PROVE  Kept(new, status', log'.n, f', nextUp')
<1> SUFFICES ASSUME Live(new, status'), new.anchor = log'.n
             PROVE  Backed(new.promise, f', nextUp')
  BY DEF Kept
<1>1. Live(old, status')
  BY DEF Live, Unaltered
<1>2. Live(old, status)
  BY <1>1, StillLive
<1>3. Backed(old.promise, f, nextUp)
  BY <1>2 DEF Kept, Unaltered
<1>4. old.promise \in PinType
  BY DEF ClipType
<1>5. Backed(old.promise, f', nextUp')
  BY <1>2, <1>3, <1>4, FeedBacks DEF Live, Named
<1>6. QED
  BY <1>5 DEF Unaltered

\* Outside RunOnce a break is at most thrown away, its preparation goes on.
LEMMA ClipFlow ==
  ASSUME IInv, RunSession \/ Others \/ UNCHANGED vars
  PROVE  /\ Unaltered(slot', slot) \/ slot' = NoClip
         /\ Unaltered(dir'.clip, dir.clip)
         /\ dir'.pc = dir.pc
<1>1. \A clip : Unaltered(clip, clip)
  BY DEF Unaltered
<1>2. CASE SessionStarts \/ NoBreak \/ DiscardStale \/ TakeClip \/ ClipEnds \/ PlanNext
              \/ Commit \/ Announce \/ MarkItemAired \/ CommitNextUpRead
              \/ CommitNextUpWrite \/ MusicEnds
  <2>1. slot' \in {slot, NoClip} /\ dir' = dir
    BY <1>2
       DEF SessionStarts, NoBreak, DiscardStale, TakeClip, ClipEnds, PlanNext, Commit,
           Announce, MarkItemAired, CommitNextUpRead, CommitNextUpWrite, MusicEnds,
           DropClip, director
  <2>2. QED
    BY <1>1, <2>1
<1>3. CASE OpenFails
  <2>1. f.yt \in Tracks /\ Lost(f.yt)
    BY <1>3 DEF OpenFails, IInv, Listening
  <2>2. QED
    BY <2>1, LostUnaltered
<1>4. CASE SessionEnds
  <2>1. CASE f.pc = "announce"
    <3>1. f.yt \in Tracks /\ Lost(f.yt)
      BY <1>4, <2>1 DEF SessionEnds, IInv, Listening
    <3>2. QED
      BY <3>1, LostUnaltered
  <2>2. CASE f.pc # "announce"
    BY <1>1, <1>4, <2>2 DEF SessionEnds
  <2>3. QED
    BY <2>1, <2>2
<1>5. CASE CancelPrepared
  <2>1. slot' = NoClip
    BY <1>5 DEF CancelPrepared, DropClip
  <2>2. dir' \in {dir, [dir EXCEPT !.clip.cancelled = TRUE]}
    BY <1>5 DEF CancelPrepared
  <2>3. dir'.pc = dir.pc /\ Unaltered(dir'.clip, dir.clip)
    <3>1. CASE dir' = dir
      BY <1>1, <3>1
    <3>2. CASE dir' = [dir EXCEPT !.clip.cancelled = TRUE]
      BY <3>2 DEF IInv, Types, DirectorType, ClipType, Unaltered
    <3>3. QED
      BY <2>2, <3>1, <3>2
  <2>4. QED
    BY <2>1, <2>3
<1>6. CASE ForceBreak \/ TimerElapses \/ DaypartRolls \/ DaypartExpires
              \/ (\E b \in BOOLEAN : SetOnAir(b) \/ SetAIEnabled(b))
              \/ (\E i \in Requests : RequestArrives(i) \/ RequestRemoved(i))
              \/ UNCHANGED vars
  <2>1. UNCHANGED <<slot, dir>>
    BY <1>6
       DEF ForceBreak, TimerElapses, DaypartRolls, DaypartExpires, SetOnAir,
           SetAIEnabled, RequestArrives, RequestRemoved, director, vars
  <2>2. QED
    BY <1>1, <2>1
<1>7. QED
  BY <1>2, <1>3, <1>4, <1>5, <1>6 DEF RunSession, Others

\* Only the announcement adds to the log; entries are never taken back.
LEMMA LogFlow ==
  ASSUME IInv, [Next]_vars
  PROVE  log'.n = log.n \/ (Announce /\ log'.n = log.n + 1)
<1>1. log \in [n : Entries, yt : Tracks \cup {NoTrack}, playing : BOOLEAN]
  BY DEF IInv, Types
<1>2. CASE RunOnce \/ Others \/ Restart \/ UNCHANGED vars
  BY <1>2
     DEF RunOnce, Tick, GatesClosed, Gates, ReadAnchor, Peek, Write, PinPromise,
         PrepareFails, Land, Others, ForceBreak, CancelPrepared, SetOnAir,
         SetAIEnabled, RequestArrives, RequestRemoved, TimerElapses, DaypartRolls,
         DaypartExpires, Restart, feed, vars
<1>3. CASE NoBreak \/ DiscardStale \/ TakeClip \/ ClipEnds \/ PlanNext \/ Commit
              \/ OpenFails \/ MarkItemAired \/ CommitNextUpRead \/ CommitNextUpWrite
              \/ SessionEnds
  BY <1>3
     DEF NoBreak, DiscardStale, TakeClip, ClipEnds, PlanNext, Commit, OpenFails,
         MarkItemAired, CommitNextUpRead, CommitNextUpWrite, SessionEnds
<1>4. CASE SessionStarts \/ MusicEnds
  <2>1. log' \in {log, [log EXCEPT !.playing = FALSE]}
    BY <1>4 DEF SessionStarts, MusicEnds
  <2>2. QED
    BY <1>1, <2>1
<1>5. CASE Announce
  BY <1>5 DEF Announce
<1>6. QED
  BY <1>2, <1>3, <1>4, <1>5 DEF Next, RunSession

\* A break that is dropped promises nothing.
LEMMA NothingPromised ==
  ASSUME NEW requests, NEW n \in Nat
  PROVE  /\ Named(NoPin, requests)
         /\ Named(NoClip.promise, requests) /\ Promising(NoClip, n) /\ ~Live(NoClip, requests)
         /\ Named(NoPromise.promise, requests) /\ ~Live(NoPromise, requests)
BY DEF Named, NoClip, NoPromise, Promising, Live, NoEntry

\* How RunOnce moves the break it prepares.
LEMMA GatesFlow ==
  ASSUME IInv, GatesClosed \/ Gates \/ PrepareFails
  PROVE  /\ UNCHANGED <<nextUp, slot, spoken, status, f, log>>
         /\ dir'.pc \in {"idle", "anchor", "write"}
         /\ dir'.clip.promise = NoPin /\ dir'.clip.anchor = NoEntry
         /\ dir'.pc = "anchor" => dir'.clip.kind = Seam
<1>1. UNCHANGED <<nextUp, slot, spoken, status, f, log>>
  BY DEF GatesClosed, Gates, PrepareFails, world, feed
<1>2. CASE dir' = IdleDirector
  BY <1>1, <1>2 DEF IdleDirector, NoClip
<1>3. CASE dir' # IdleDirector
  <2>1. dir' = [pc |-> IF Anchored(DueKind(cad)) THEN "anchor" ELSE "write",
                clip |-> [NoClip EXCEPT !.kind = DueKind(cad)]]
    BY <1>3 DEF GatesClosed, Gates, PrepareFails
  <2>2. dir'.clip = [NoClip EXCEPT !.kind = DueKind(cad)]
        /\ dir'.pc = IF Anchored(DueKind(cad)) THEN "anchor" ELSE "write"
    BY <2>1
  <2>3. dir'.clip.promise = NoPin /\ dir'.clip.anchor = NoEntry
        /\ dir'.clip.kind = DueKind(cad)
    BY <2>2 DEF NoClip
  <2>4. QED
    BY <1>1, <2>2, <2>3 DEF Anchored
<1>4. QED
  BY <1>2, <1>3

LEMMA AnchorFlow ==
  ASSUME IInv, ReadAnchor, dir' # IdleDirector
  PROVE  /\ dir.pc = "anchor" /\ dir'.pc = "peek"
         /\ dir'.clip.anchor = log.n
         /\ dir'.clip.promise = dir.clip.promise /\ dir'.clip.kind = dir.clip.kind
BY DEF ReadAnchor, IInv, Types, DirectorType, ClipType

LEMMA PeekFlow ==
  ASSUME IInv, Peek
  PROVE  /\ dir.pc = "peek"
         /\ \E p \in Proposals \cup {NoPin} :
               /\ dir'.pc = IF p = nextUp THEN "write" ELSE "write and pin"
               /\ dir'.clip.promise = p
               /\ dir'.clip.void = Starting
         /\ dir'.clip.anchor = dir.clip.anchor /\ dir'.clip.kind = dir.clip.kind
<1>1. PICK p \in Proposals \cup {NoPin} :
        dir' = [dir EXCEPT !.pc = IF p = nextUp THEN "write" ELSE "write and pin",
                           !.clip.promise = p, !.clip.void = Starting]
  BY DEF Peek
<1>2. dir.pc = "peek"
  BY DEF Peek
<1>3. QED
  BY <1>1, <1>2 DEF IInv, Types, DirectorType, ClipType

LEMMA PinFlow ==
  ASSUME IInv, PinPromise
  PROVE  /\ dir.pc = "pin" /\ dir'.pc = "land"
         /\ Unaltered(dir'.clip, dir.clip)
         /\ Starting => dir'.clip.void
<1>1. Starting \in BOOLEAN
  BY DEF Starting
<1>2. QED
  BY <1>1 DEF PinPromise, IInv, Types, DirectorType, ClipType, Unaltered

\* Every step keeps what is promised a track, and of requests those that arrived.
LEMMA NextPins ==
  ASSUME IInv, Pins, [Next]_vars
  PROVE  Pins'
<1>1. \A p \in {NoPin, nextUp, slot.promise, dir.clip.promise, spoken.promise} :
         Named(p, status')
  BY StillNamed DEF Pins, Named
<1>2. nextUp \in PinType /\ f \in FeedType
  BY DEF IInv, Types
<1>3. NoClip.promise = NoPin /\ NoPromise.promise = NoPin /\ IdleDirector.clip = NoClip
  BY DEF NoClip, NoPromise, IdleDirector
<1>4. slot'.promise \in {slot.promise, dir.clip.promise, NoPin}
  <2>1. CASE RunOnce
    BY <1>3, <2>1
       DEF RunOnce, Tick, GatesClosed, Gates, ReadAnchor, Peek, Write, PinPromise,
           PrepareFails, Land, DropClip
  <2>2. CASE RunSession \/ Others \/ UNCHANGED vars
    BY <1>3, <2>2, ClipFlow DEF Unaltered
  <2>3. CASE Restart
    BY <1>3, <2>3 DEF Restart
  <2>4. QED
    BY <2>1, <2>2, <2>3 DEF Next
<1>5. Named(dir'.clip.promise, status')
  <2>1. CASE Tick \/ Write
    <3>1. dir'.clip = dir.clip
      BY <2>1 DEF Tick, Write, IInv, Types, DirectorType
    <3>2. QED
      BY <1>1, <3>1
  <2>2. CASE GatesClosed \/ Gates \/ PrepareFails
    BY <1>1, <2>2, GatesFlow
  <2>3. CASE ReadAnchor
    BY <1>1, <1>3, <2>3, AnchorFlow
  <2>4. CASE Peek
    <3>1. PICK p \in Proposals \cup {NoPin} : dir'.clip.promise = p
      BY <2>4, PeekFlow
    <3>2. status' = status
      BY <2>4 DEF Peek, world
    <3>3. CASE p \in {nextUp, NoPin}
      BY <1>1, <3>1, <3>3
    <3>4. CASE p \notin {nextUp, NoPin}
      <4>1. PICK i \in ReadyTracks : p = [yt |-> i, req |-> TRUE]
        BY <3>4 DEF Proposals
      <4>2. i \in Requests /\ i # NoTrack /\ status[i] = "ready"
        BY TracksAssumption DEF ReadyTracks
      <4>3. p.yt = i /\ p.req
        BY <4>1
      <4>4. QED
        BY <3>1, <3>2, <4>2, <4>3 DEF Named
    <3>5. QED
      BY <3>3, <3>4
  <2>5. CASE PinPromise
    BY <1>1, <2>5, PinFlow DEF Unaltered
  <2>6. CASE Land \/ Restart
    BY <1>1, <1>3, <2>6 DEF Land, Restart
  <2>7. CASE RunSession \/ Others \/ UNCHANGED vars
    BY <1>1, <2>7, ClipFlow DEF Unaltered
  <2>8. QED
    BY <2>1, <2>2, <2>3, <2>4, <2>5, <2>6, <2>7 DEF Next, RunOnce
<1>6. spoken'.promise \in {spoken.promise, slot.promise, NoPin}
  <2>1. CASE RunOnce \/ Others \/ UNCHANGED vars
    BY <2>1
       DEF RunOnce, Tick, GatesClosed, Gates, ReadAnchor, Peek, Write, PinPromise,
           PrepareFails, Land, Others, ForceBreak, CancelPrepared, SetOnAir,
           SetAIEnabled, RequestArrives, RequestRemoved, TimerElapses, DaypartRolls,
           DaypartExpires, feed, vars
  <2>2. CASE SessionStarts \/ Announce \/ SessionEnds \/ Restart
    BY <1>3, <2>2 DEF SessionStarts, Announce, SessionEnds, Restart
  <2>3. CASE NoBreak \/ DiscardStale \/ ClipEnds \/ PlanNext \/ Commit \/ MarkItemAired
                \/ CommitNextUpRead \/ CommitNextUpWrite \/ MusicEnds
    BY <2>3
       DEF NoBreak, DiscardStale, ClipEnds, PlanNext, Commit, MarkItemAired,
           CommitNextUpRead, CommitNextUpWrite, MusicEnds
  <2>4. CASE TakeClip
    BY <2>4 DEF TakeClip
  <2>5. CASE OpenFails
    <3>1. spoken' = spoken \/ spoken' = [spoken EXCEPT !.void = TRUE]
      BY <2>5 DEF OpenFails, Gone
    <3>2. QED
      BY <3>1 DEF IInv, Types
  <2>6. QED
    BY <2>1, <2>2, <2>3, <2>4, <2>5 DEF Next, RunSession
<1>7. Named(nextUp', status')
  <2>1. CASE RunOnce
    BY <1>1, <2>1
       DEF RunOnce, Tick, GatesClosed, Gates, ReadAnchor, Peek, Write, PinPromise,
           PrepareFails, Land
  <2>2. CASE CommitNextUpWrite
    <3>1. nextUp' = [NoPin EXCEPT !.yt = f.pick]
      BY <2>2 DEF CommitNextUpWrite
    <3>2. nextUp'.yt = f.pick /\ ~nextUp'.req
      BY <3>1 DEF NoPin
    <3>3. CASE f.pick = NoTrack
      BY <1>1, <3>1, <3>3 DEF NoPin
    <3>4. CASE f.pick # NoTrack
      BY <3>2, <3>4 DEF Named
    <3>5. QED
      BY <3>3, <3>4
  <2>3. CASE SessionStarts \/ NoBreak \/ DiscardStale \/ TakeClip \/ ClipEnds \/ PlanNext
                \/ Commit \/ OpenFails \/ Announce \/ MarkItemAired \/ CommitNextUpRead
                \/ MusicEnds \/ SessionEnds
    BY <1>1, <2>3
       DEF SessionStarts, NoBreak, DiscardStale, TakeClip, ClipEnds, PlanNext, Commit,
           OpenFails, Announce, MarkItemAired, CommitNextUpRead, MusicEnds, SessionEnds
  <2>4. CASE Others \/ Restart \/ UNCHANGED vars
    BY <1>1, <2>4
       DEF Others, ForceBreak, CancelPrepared, SetOnAir, SetAIEnabled, RequestArrives,
           RequestRemoved, TimerElapses, DaypartRolls, DaypartExpires, Restart, vars
  <2>5. QED
    BY <2>1, <2>2, <2>3, <2>4 DEF Next, RunSession
<1>8. QED
  BY <1>1, <1>4, <1>5, <1>6, <1>7 DEF Pins

\* Every step keeps promises to the seams, and what they backsell in the log.
LEMMA NextBacksells ==
  ASSUME IInv, Backsells, [Next]_vars
  PROVE  Backsells'
<1>1. log.n \in Nat /\ log'.n \in Nat /\ log.n <= log'.n
  <2>1. log.n \in Nat
    BY DEF IInv, Types, Entries
  <2>2. QED
    BY <2>1, LogFlow
<1>2. slot \in ClipType /\ dir.clip \in ClipType /\ dir \in DirectorType
  BY DEF IInv, Types, DirectorType
<1>3. ASSUME NEW new, NEW old \in ClipType, Unaltered(new, old), Promising(old, log.n)
      PROVE  Promising(new, log'.n)
  BY <1>1, <1>3 DEF Unaltered, Promising, ClipType, Entries
<1>4. Promising(NoClip, log'.n)
  BY <1>1, NothingPromised
<1>5. Unaltered(slot, slot) /\ Unaltered(dir.clip, dir.clip)
  BY DEF Unaltered
<1>6. CASE RunSession \/ Others \/ UNCHANGED vars
  BY <1>2, <1>3, <1>4, <1>6, ClipFlow DEF Backsells, Unaltered
<1>7. CASE Restart
  BY <1>4, <1>7 DEF Restart, Backsells, IdleDirector
<1>8. CASE Tick \/ Write
  <2>1. slot' \in {slot, NoClip} /\ dir'.clip = dir.clip /\ dir'.pc \notin {"anchor", "peek"}
    BY <1>2, <1>8 DEF Tick, Write, DropClip, DirectorType
  <2>2. QED
    BY <1>2, <1>3, <1>4, <1>5, <2>1 DEF Backsells
<1>9. CASE GatesClosed \/ Gates \/ PrepareFails
  <2>1. Promising(dir'.clip, log'.n)
    BY <1>1, <1>9, GatesFlow DEF Promising, NoEntry
  <2>2. QED
    BY <1>2, <1>3, <1>5, <1>9, <2>1, GatesFlow DEF Backsells
<1>10. CASE ReadAnchor
  <2>1. slot' = slot /\ log' = log
    BY <1>10 DEF ReadAnchor, feed
  <2>2. CASE dir' = IdleDirector
    BY <1>2, <1>3, <1>4, <1>5, <2>1, <2>2 DEF Backsells, IdleDirector
  <2>3. CASE dir' # IdleDirector
    <3>1. Promising(dir'.clip, log'.n)
      BY <1>1, <1>10, <2>1, <2>3, AnchorFlow DEF Promising, Backsells
    <3>2. QED
      BY <1>2, <1>3, <1>5, <1>10, <2>1, <2>3, <3>1, AnchorFlow DEF Backsells
  <2>4. QED
    BY <2>2, <2>3
<1>11. CASE Peek
  <2>1. slot' = slot /\ log' = log
    BY <1>11 DEF Peek, feed
  <2>2. dir.pc = "peek" /\ dir'.pc \notin {"anchor", "peek"}
        /\ dir'.clip.anchor = dir.clip.anchor /\ dir'.clip.kind = dir.clip.kind
    BY <1>11, PeekFlow
  <2>3. Promising(dir'.clip, log'.n)
    BY <2>1, <2>2 DEF Promising, Backsells
  <2>4. QED
    BY <1>2, <1>3, <1>5, <2>1, <2>2, <2>3 DEF Backsells
<1>12. CASE PinPromise
  <2>1. slot' = slot
    BY <1>12 DEF PinPromise
  <2>2. QED
    BY <1>2, <1>3, <1>5, <1>12, <2>1, PinFlow DEF Backsells
<1>13. CASE Land
  <2>1. slot' = dir.clip /\ dir' = IdleDirector
    BY <1>13 DEF Land
  <2>2. QED
    BY <1>2, <1>3, <1>4, <1>5, <2>1 DEF Backsells, IdleDirector
<1>14. QED
  BY <1>6, <1>7, <1>8, <1>9, <1>10, <1>11, <1>12, <1>13 DEF Next, RunOnce

\* The preparation's own steps: nothing is promised before it is pinned.
LEMMA RunOncePromised ==
  ASSUME PInv, RunOnce
  PROVE  Promised'
<1>1. UNCHANGED <<f, log, spoken, status>>
  BY DEF RunOnce, Tick, GatesClosed, Gates, ReadAnchor, Peek, Write, PinPromise,
         PrepareFails, Land, world, feed
<1>2. dir \in DirectorType /\ IInv /\ Promised
  BY DEF PInv, IInv, Types
<1>3. ~Live(NoClip, status) /\ NoClip.promise = NoPin
  BY DEF Live, NoClip
<1>4. CASE Tick
  <2>1. nextUp' = nextUp /\ slot' \in {slot, NoClip} /\ dir'.pc \in {"idle", "gates"}
    BY <1>2, <1>4 DEF Tick, DropClip, DirectorType
  <2>2. QED
    BY <1>1, <1>2, <1>3, <2>1 DEF Promised, Kept
<1>5. CASE GatesClosed \/ Gates \/ PrepareFails
  BY <1>1, <1>2, <1>5, GatesFlow DEF Promised, Kept, Live
<1>6. CASE ReadAnchor
  <2>1. nextUp' = nextUp /\ slot' = slot
    BY <1>6 DEF ReadAnchor
  <2>2. dir'.pc \in {"idle", "peek"}
    BY <1>2, <1>6, AnchorFlow DEF IdleDirector
  <2>3. QED
    BY <1>1, <1>2, <2>1, <2>2 DEF Promised
<1>7. CASE Peek
  <2>1. nextUp' = nextUp /\ slot' = slot
    BY <1>7 DEF Peek
  <2>2. PICK p \in Proposals \cup {NoPin} :
           /\ dir'.pc = IF p = nextUp THEN "write" ELSE "write and pin"
           /\ dir'.clip.promise = p
           /\ dir'.clip.void = Starting
    BY <1>2, <1>7, PeekFlow
  <2>3. CASE p = nextUp
    <3>1. Kept(dir'.clip, status, log.n, f, nextUp)
      <4>1. ASSUME ~Starting
            PROVE  Backed(p, f, nextUp)
        BY <2>3, <4>1 DEF Starting, Backed
      <4>2. QED
        BY <2>2, <4>1 DEF Kept, Live
    <3>2. QED
      BY <1>1, <1>2, <2>1, <2>2, <2>3, <3>1 DEF Promised
  <2>4. CASE p # nextUp
    <3>1. p = NoPin \/ nextUp = NoPin
      BY <2>4 DEF Proposals
    <3>2. ASSUME nextUp = NoPin, Live(spoken, status)
          PROVE  f.pc = "announce"
      BY <1>2, <3>2 DEF Promised, Live, Backed
    <3>3. QED
      BY <1>1, <1>2, <2>1, <2>2, <2>4, <3>1, <3>2 DEF Promised
  <2>5. QED
    BY <2>3, <2>4
<1>8. CASE Write
  <2>1. nextUp' = nextUp /\ slot' = slot
    BY <1>8 DEF Write
  <2>2. /\ dir'.clip = dir.clip
        /\ dir'.pc = IF dir.pc = "write" \/ dir.clip.promise = NoPin THEN "land" ELSE "pin"
        /\ dir.pc \in {"write", "write and pin"}
    BY <1>2, <1>8 DEF Write, DirectorType
  <2>3. dir.clip.promise = NoPin => Kept(dir.clip, status, log.n, f, nextUp)
    BY DEF Kept, Live
  <2>4. QED
    BY <1>1, <1>2, <2>1, <2>2, <2>3 DEF Promised
<1>9. CASE PinPromise
  <2>1. slot' = slot /\ slot = NoClip /\ nextUp' = dir.clip.promise
    BY <1>2, <1>9 DEF PinPromise, IInv, Preparation, Preparing
  <2>2. /\ dir.pc = "pin" /\ dir'.pc = "land"
        /\ dir'.clip.promise = dir.clip.promise
        /\ Starting => dir'.clip.void
    BY <1>2, <1>9, PinFlow DEF Unaltered
  <2>3. Kept(dir'.clip, status, log.n, f, nextUp')
    <3>1. ASSUME ~Starting
          PROVE  Backed(dir'.clip.promise, f, nextUp')
      BY <2>1, <2>2, <3>1 DEF Starting, Backed
    <3>2. QED
      BY <2>2, <3>1 DEF Kept, Live
  <2>4. Live(spoken, status) => Backed(spoken.promise, f, nextUp')
    <3>1. SUFFICES ASSUME Live(spoken, status)
                   PROVE  Backed(spoken.promise, f, nextUp')
      OBVIOUS
    <3>2. Backed(spoken.promise, f, nextUp)
      BY <1>2, <3>1 DEF Promised
    <3>3. f.pc = "announce"
      BY <1>2, <2>2, <3>1 DEF Promised
    <3>4. QED
      BY <3>2, <3>3 DEF Backed
  <2>5. Kept(slot', status, log.n, f, nextUp')
    BY <1>3, <2>1 DEF Kept
  <2>6. QED
    BY <1>1, <2>2, <2>3, <2>4, <2>5 DEF Promised
<1>10. CASE Land
  <2>1. nextUp' = nextUp /\ slot' = dir.clip /\ dir.pc = "land" /\ dir'.pc = "idle"
    BY <1>10 DEF Land, IdleDirector
  <2>2. QED
    BY <1>1, <1>2, <2>1 DEF Promised
<1>11. QED
  BY <1>4, <1>5, <1>6, <1>7, <1>8, <1>9, <1>10 DEF RunOnce

\* Outside RunOnce the preparation goes on as it was, or is cancelled: what is
\* left to show is what becomes of the breaks' promises.
LEMMA HoldersPromised ==
  ASSUME PInv, RunSession \/ Others \/ UNCHANGED vars,
         Kept(slot', status', log'.n, f', nextUp'),
         dir.pc \in {"write", "land"} => Kept(dir'.clip, status', log'.n, f', nextUp'),
         Live(spoken', status') => Backed(spoken'.promise, f', nextUp'),
         dir.pc \in {"write and pin", "pin"} /\ dir.clip.promise # NoPin
            /\ Live(spoken', status') => f'.pc = "announce"
  PROVE  Promised'
<1>1. dir'.pc = dir.pc /\ dir'.clip.promise = dir.clip.promise
  BY ClipFlow DEF PInv, Unaltered
<1>2. QED
  BY <1>1 DEF PInv, Promised

\* The steps that change neither the pin, nor the feed, nor the break on the air.
LEMMA OthersPromised ==
  ASSUME PInv, [Next]_vars, Others \/ UNCHANGED vars
  PROVE  Promised'
<1>1. UNCHANGED <<f, log, spoken, nextUp>>
  BY DEF Others, ForceBreak, CancelPrepared, SetOnAir, SetAIEnabled, RequestArrives,
         RequestRemoved, TimerElapses, DaypartRolls, DaypartExpires, feed, vars
<1>2. IInv /\ Pins /\ Promised
  BY DEF PInv
<1>3. ASSUME NEW old, NEW new, Unaltered(new, old), Named(old.promise, status),
             Kept(old, status, log.n, f, nextUp)
      PROVE  Kept(new, status', log'.n, f', nextUp')
  <2>1. SUFFICES ASSUME Live(new, status'), new.anchor = log.n
                 PROVE  Backed(new.promise, f, nextUp)
    BY <1>1 DEF Kept
  <2>2. Live(old, status')
    BY <1>3, <2>1 DEF Live, Unaltered
  <2>3. Live(old, status)
    BY <1>2, <1>3, <2>2, StillLive
  <2>4. QED
    BY <1>3, <2>1, <2>3 DEF Kept, Unaltered
<1>4. Kept(slot', status', log'.n, f', nextUp')
  <2>1. CASE slot' = NoClip
    BY <2>1 DEF Kept, Live, NoClip
  <2>2. CASE Unaltered(slot', slot)
    BY <1>2, <1>3, <2>2 DEF Pins, Promised
  <2>3. QED
    BY <1>2, <2>1, <2>2, ClipFlow
<1>5. dir.pc \in {"write", "land"} => Kept(dir'.clip, status', log'.n, f', nextUp')
  BY <1>2, <1>3, ClipFlow DEF Pins, Promised
<1>6. Live(spoken', status') => Live(spoken, status)
  BY <1>1, <1>2, StillLive DEF Pins
<1>7. QED
  BY <1>1, <1>2, <1>4, <1>5, <1>6, HoldersPromised DEF Promised

\* The quiet steps of the feed: what was backed stays backed; a break that airs
\* takes its promise with it.
LEMMA QuietlyPromised ==
  ASSUME PInv, [Next]_vars, Quietly
  PROVE  Promised'
<1>1. IInv /\ Pins /\ Promised /\ Logged /\ Backsells
  BY DEF PInv
<1>2. slot \in ClipType /\ dir.clip \in ClipType /\ dir \in DirectorType /\ f \in FeedType
  BY <1>1 DEF IInv, Types, DirectorType
<1>3. log'.n = log.n
  BY <1>1, LogFlow
     DEF Quietly, SessionStarts, NoBreak, DiscardStale, TakeClip, ClipEnds, PlanNext,
         Commit, MarkItemAired, CommitNextUpRead, CommitNextUpWrite, MusicEnds,
         SessionEnds, Announce
<1>4. RunSession
  BY DEF Quietly, RunSession
<1>5. Kept(slot', status', log'.n, f', nextUp')
  <2>1. CASE slot' = NoClip
    BY <2>1 DEF Kept, Live, NoClip
  <2>2. CASE Unaltered(slot', slot)
    BY <1>1, <1>2, <1>3, <2>2, FeedKeeps DEF Pins, Promised
  <2>3. QED
    BY <1>1, <1>4, <2>1, <2>2, ClipFlow
<1>6. dir.pc \in {"write", "land"} => Kept(dir'.clip, status', log'.n, f', nextUp')
  BY <1>1, <1>2, <1>3, <1>4, ClipFlow, FeedKeeps DEF Pins, Promised
<1>7. CASE TakeClip
  <2>1. /\ f.pc = "seam" /\ slot # NoClip /\ Fresh(slot)
        /\ spoken'.promise = slot.promise /\ spoken'.void = slot.void
        /\ status' = status
    BY <1>7 DEF TakeClip, world
  <2>2. ~Preparing
    BY <1>1, <2>1 DEF IInv, Preparation
  <2>3. ASSUME Live(spoken', status')
        PROVE  Backed(spoken'.promise, f', nextUp')
    <3>1. Live(slot, status)
      BY <2>1, <2>3 DEF Live
    <3>2. slot.kind = Seam
      BY <1>1, <3>1 DEF Backsells, Promising, Live
    <3>3. slot.anchor = f.last /\ slot.anchor # NoEntry
      BY <1>1, <2>1, <3>2 DEF Fresh, Anchored, IInv, Waiting, NamesEntry
    <3>4. slot.anchor = log.n
      BY <1>1, <2>1, <3>3 DEF Logged
    <3>5. Backed(slot.promise, f, nextUp)
      BY <1>1, <3>1, <3>4 DEF Promised, Kept
    <3>6. slot.promise \in PinType
      BY <1>2 DEF ClipType
    <3>7. slot.promise.yt # NoTrack
      BY <1>1, <3>1 DEF Pins, Named, Live
    <3>8. Backed(slot.promise, f', nextUp')
      BY <1>1, <3>1, <3>5, <3>6, <3>7, FeedBacks DEF Live
    <3>9. QED
      BY <2>1, <3>8
  <2>4. QED
    BY <1>4, <1>5, <1>6, <2>2, <2>3, HoldersPromised DEF Preparing
<1>8. CASE SessionStarts \/ (SessionEnds /\ f.pc # "announce")
  <2>1. ~Live(spoken', status')
    BY <1>8 DEF SessionStarts, SessionEnds, NoPromise, Live
  <2>2. QED
    BY <1>4, <1>5, <1>6, <2>1, HoldersPromised
<1>9. CASE NoBreak \/ DiscardStale \/ ClipEnds \/ PlanNext \/ Commit \/ MarkItemAired
              \/ CommitNextUpRead \/ CommitNextUpWrite \/ MusicEnds
  <2>1. spoken' = spoken /\ f.pc # "announce"
    BY <1>9
       DEF NoBreak, DiscardStale, ClipEnds, PlanNext, Commit, MarkItemAired,
           CommitNextUpRead, CommitNextUpWrite, MusicEnds
  <2>2. Live(spoken', status') => Live(spoken, status)
    BY <1>1, <2>1, StillLive DEF Pins
  <2>3. Live(spoken', status') => Backed(spoken'.promise, f', nextUp')
    <3>1. SUFFICES ASSUME Live(spoken, status)
                   PROVE  Backed(spoken.promise, f', nextUp')
      BY <2>1, <2>2
    <3>2. Backed(spoken.promise, f, nextUp)
      BY <1>1, <3>1 DEF Promised
    <3>3. spoken.promise \in PinType
      BY <1>1 DEF IInv, Types
    <3>4. spoken.promise.yt # NoTrack
      BY <1>1, <3>1 DEF Pins, Named, Live
    <3>5. QED
      BY <1>1, <3>1, <3>2, <3>3, <3>4, FeedBacks DEF Live
  <2>4. dir.pc \in {"write and pin", "pin"} /\ dir.clip.promise # NoPin
           => ~Live(spoken', status')
    BY <1>1, <2>1, <2>2 DEF Promised
  <2>5. QED
    BY <1>4, <1>5, <1>6, <2>3, <2>4, HoldersPromised
<1>10. QED
  BY <1>7, <1>8, <1>9 DEF Quietly

\* An announcement leaves every waiting break behind; a lost track voids what
\* was promised of it.
LEMMA LoudlyPromised ==
  ASSUME PInv, [Next]_vars,
         Announce \/ OpenFails \/ (SessionEnds /\ f.pc = "announce")
  PROVE  Promised'
<1>1. IInv /\ Pins /\ Promised /\ Backsells
  BY DEF PInv
<1>2. RunSession /\ f.pc = "announce" /\ slot \in ClipType /\ dir.clip \in ClipType
  BY <1>1 DEF Announce, OpenFails, SessionEnds, RunSession, IInv, Types, DirectorType
<1>3. CASE Announce
  <2>1. slot' = slot /\ dir' = dir /\ log'.n = log.n + 1
    BY <1>3 DEF Announce, director
  <2>2. log.n \in Nat /\ slot.anchor \in Nat /\ dir.clip.anchor \in Nat
    BY <1>1, <1>2 DEF IInv, Types, ClipType, Entries
  <2>3. slot.anchor # log'.n /\ dir.clip.anchor # log'.n
    BY <1>1, <2>1, <2>2 DEF Backsells, Promising
  <2>4. ~Live(spoken', status')
    BY <1>3 DEF Announce, NoPromise, Live
  <2>5. QED
    BY <1>2, <2>1, <2>3, <2>4, HoldersPromised DEF Kept
<1>4. CASE OpenFails \/ (SessionEnds /\ f.pc = "announce")
  <2>1. Lost(f.yt) /\ f.yt \in Tracks
    BY <1>1, <1>2, <1>4 DEF OpenFails, SessionEnds, IInv, Listening
  <2>2. /\ Unaltered(slot', slot) /\ Unaltered(dir'.clip, dir.clip)
        /\ slot.promise.yt = f.yt => slot'.void
        /\ dir.clip.promise.yt = f.yt => dir'.clip.void
    BY <1>1, <2>1, LostUnaltered
  <2>3. log' = log
    BY <1>4 DEF OpenFails, SessionEnds
  <2>4. ASSUME NEW old, NEW new, Unaltered(new, old), Named(old.promise, status),
               old.promise.yt = f.yt => new.void, Kept(old, status, log.n, f, nextUp)
        PROVE  Kept(new, status', log'.n, f', nextUp')
    <3>1. SUFFICES ASSUME Live(new, status'), new.anchor = log.n
                   PROVE  FALSE
      BY <2>3 DEF Kept
    <3>2. Live(old, status')
      BY <2>4, <3>1 DEF Live, Unaltered
    <3>3. Live(old, status)
      BY <1>1, <2>4, <3>2, StillLive
    <3>4. Backed(old.promise, f, nextUp)
      BY <2>4, <3>1, <3>3 DEF Kept, Unaltered
    <3>5. QED
      BY <1>2, <2>4, <3>1, <3>4 DEF Backed, Live
  <2>5. Kept(slot', status', log'.n, f', nextUp')
    BY <1>1, <2>2, <2>4 DEF Pins, Promised
  <2>6. dir.pc \in {"write", "land"} => Kept(dir'.clip, status', log'.n, f', nextUp')
    BY <1>1, <2>2, <2>4 DEF Pins, Promised
  <2>7. ~Live(spoken', status')
    <3>1. CASE OpenFails
      <4>1. spoken' = Gone(spoken, f.yt)
        BY <3>1 DEF OpenFails
      <4>2. spoken \in [promise : PinType, void : BOOLEAN]
        BY <1>1 DEF IInv, Types
      <4>3. CASE spoken.promise.yt = f.yt
        <5>1. spoken'.void
          BY <4>1, <4>2, <4>3 DEF Gone
        <5>2. QED
          BY <5>1 DEF Live
      <4>4. CASE spoken.promise.yt # f.yt
        <5>1. spoken' = spoken
          BY <4>1, <4>4 DEF Gone
        <5>2. ~Live(spoken, status)
          BY <1>1, <1>2, <4>4 DEF Promised, Backed
        <5>3. QED
          BY <1>1, <5>1, <5>2, StillLive DEF Pins
      <4>5. QED
        BY <4>3, <4>4
    <3>2. CASE SessionEnds
      BY <3>2 DEF SessionEnds, NoPromise, Live
    <3>3. QED
      BY <1>4, <3>1, <3>2
  <2>8. QED
    BY <1>2, <2>5, <2>6, <2>7, HoldersPromised
<1>5. QED
  BY <1>3, <1>4

\* Every step keeps what is true of promises.
LEMMA NextPInv == PInv /\ [Next]_vars => PInv'
<1> SUFFICES ASSUME PInv, [Next]_vars PROVE PInv'
  OBVIOUS
<1>1. IInv /\ Logged /\ Pins /\ Backsells
  BY DEF PInv
<1>2. Promised'
  <2>1. CASE RunOnce
    BY <2>1, RunOncePromised
  <2>2. CASE Others \/ UNCHANGED vars
    BY <2>2, OthersPromised
  <2>3. CASE RunSession
    BY <2>3, QuietlyPromised, LoudlyPromised DEF RunSession, Quietly
  <2>4. CASE Restart
    BY <2>4
       DEF Restart, Promised, Kept, Live, NoClip, NoPromise, IdleDirector
  <2>5. QED
    BY <2>1, <2>2, <2>3, <2>4 DEF Next
<1>3. IInv' /\ Logged' /\ Pins' /\ Backsells'
  BY <1>1, NextIInv, NextLogged, NextPins, NextBacksells
<1>4. QED
  BY <1>2, <1>3 DEF PInv

LEMMA InitPInv == Init => PInv
<1> SUFFICES ASSUME Init PROVE PInv
  OBVIOUS
<1>1. IInv
  BY InitIInv
<1>2. Logged
  BY DEF Init, Logged, NoSession
<1>3. Pins
  BY DEF Init, Pins, Named, NoClip, NoPromise, IdleDirector
<1>4. Backsells
  BY DEF Init, Backsells, Promising, NoClip, IdleDirector, NoEntry
<1>5. Promised
  BY DEF Init, Promised, Kept, Live, NoClip, NoPromise, IdleDirector
<1>6. QED
  BY <1>1, <1>2, <1>3, <1>4, <1>5 DEF PInv

-----------------------------------------------------------------------------
(* Theorems. *)

\* The inductive invariant holds in every reachable state.
THEOREM Inductive == Spec => []IInv
BY InitIInv, NextIInv, PTL DEF Spec

\* Every variable always has its type; there are at most two clip files.
THEOREM TypeCorrect == Spec => []TypeOK
<1>1. ASSUME IInv PROVE TypeOK
  <2>1. slot = NoClip \/ dir.pc \notin {"pin", "land"}
    BY <1>1 DEF IInv, Preparation, Preparing
  <2>2. clips \in 0..2
    BY <1>1, <2>1 DEF IInv, ClipsOwned, Count
  <2>3. QED
    BY <1>1, <2>2 DEF IInv, Types, TypeOK
<1>2. QED
  BY <1>1, Inductive, PTL

\* Every clip file has one holder: none is lost, none removed twice.
THEOREM ClipFilesOwned == Spec => []ClipsOwned
<1>1. IInv => ClipsOwned
  BY DEF IInv
<1>2. QED
  BY <1>1, Inductive, PTL

\* A clip waits in the slot only while the last tick saw the DJ on and the
\* station on the air: every tick that sees otherwise drops it.
THEOREM ClipOnAir == Spec => []ClipWanted
<1>1. IInv => ClipWanted
  BY DEF IInv, Waiting, ClipWanted
<1>2. QED
  BY <1>1, Inductive, PTL

\* A clip waits in the slot only if the format clock still owes its break.
THEOREM WaitingClip == Spec => []ClipOwed
<1>1. IInv => ClipOwed
  BY DEF IInv, Waiting, ClipOwed, StillOwed
<1>2. QED
  BY <1>1, Inductive, PTL

\* A seam airs right after the track it names, however long it took to prepare.
THEOREM SeamAnchored == Spec => SeamFollowsAnchor
<1>1. ASSUME IInv, [Next]_vars
      PROVE  [f.pc = "seam" /\ f'.pc = "clip" /\ Anchored(slot.kind)
                => slot.anchor = heard /\ heard # NoEntry]_vars
  <2>1. f \in FeedType
    BY <1>1 DEF IInv, Types
  <2>2. CASE f' = f
    BY <2>2
  <2>3. CASE TakeClip
    <3>1. f.pc = "seam" /\ slot # NoClip /\ Fresh(slot)
      BY <2>3 DEF TakeClip
    <3>2. CASE Anchored(slot.kind)
      <4>1. slot.anchor = f.last
        BY <3>1, <3>2 DEF Fresh
      <4>2. slot.anchor # NoEntry
        BY <1>1, <3>1, <3>2 DEF IInv, Waiting, NamesEntry, Anchored
      <4>3. heard = f.last
        BY <1>1, <3>1, <4>1, <4>2 DEF IInv, Listening
      <4>4. QED
        BY <4>1, <4>2, <4>3
    <3>3. QED
      BY <3>2
  <2>4. CASE SessionStarts \/ NoBreak \/ DiscardStale \/ ClipEnds \/ PlanNext
                \/ Commit \/ OpenFails \/ Announce \/ MarkItemAired \/ CommitNextUpRead
                \/ CommitNextUpWrite \/ MusicEnds \/ SessionEnds \/ Restart
    <3>1. CASE SessionStarts \/ ClipEnds \/ PlanNext \/ Commit \/ OpenFails \/ Announce
                  \/ MarkItemAired \/ CommitNextUpRead \/ CommitNextUpWrite \/ MusicEnds
      <4>1. f.pc # "seam"
        BY <3>1
           DEF SessionStarts, ClipEnds, PlanNext, Commit, OpenFails, Announce,
               MarkItemAired, CommitNextUpRead, CommitNextUpWrite, MusicEnds
      <4>2. QED
        BY <4>1
    <3>2. CASE NoBreak \/ DiscardStale
      <4>1. f' = [f EXCEPT !.pc = "plan"]
        BY <3>2 DEF NoBreak, DiscardStale
      <4>2. f'.pc = "plan"
        BY <2>1, <4>1 DEF FeedType
      <4>3. QED
        BY <4>2
    <3>3. CASE SessionEnds \/ Restart
      <4>1. f' = NoSession
        BY <3>3 DEF SessionEnds, Restart
      <4>2. f'.pc = "off"
        BY <4>1 DEF NoSession
      <4>3. QED
        BY <4>2
    <3>4. QED
      BY <2>4, <3>1, <3>2, <3>3
  <2>5. CASE RunOnce \/ Others \/ UNCHANGED vars
    <3>1. f' = f
      BY <2>5
         DEF RunOnce, Tick, GatesClosed, Gates, ReadAnchor, Peek, Write, PinPromise,
             PrepareFails, Land, Others, ForceBreak, CancelPrepared, SetOnAir,
             SetAIEnabled, RequestArrives, RequestRemoved, TimerElapses,
             DaypartRolls, DaypartExpires, feed, vars
    <3>2. QED
      BY <2>2, <3>1
  <2>6. QED
    BY <1>1, <2>3, <2>4, <2>5 DEF Next, RunSession
<1>2. QED
  BY <1>1, Inductive, PTL DEF Spec, SeamFollowsAnchor

\* The invariant of promises holds in every reachable state.
THEOREM PromisesInductive == Spec => []PInv
BY InitPInv, NextPInv, PTL DEF Spec

\* What the break on the air said comes next is the track announced next, unless
\* the promise was voided or its request removed.
THEOREM PromiseAired == Spec => PromiseKept
<1>1. ASSUME PInv, [Next]_vars
      PROVE  [f.pc = "announce" /\ f'.pc \in {"mark", "nextup"} /\ ~spoken.void
                /\ spoken.promise # NoPin /\ Usable(spoken.promise)
                => f.yt = spoken.promise.yt]_vars
  <2>1. SUFFICES ASSUME f.pc = "announce", ~spoken.void, spoken.promise # NoPin,
                        Usable(spoken.promise)
                 PROVE  f.yt = spoken.promise.yt
    OBVIOUS
  <2>2. Live(spoken, status)
    BY <2>1 DEF Live, Usable
  <2>3. QED
    BY <1>1, <2>1, <2>2 DEF PInv, Promised, Backed
<1>2. QED
  BY <1>1, PromisesInductive, PTL DEF Spec, PromiseKept
=============================================================================
