----------------------------- MODULE MCTimeline -----------------------------
(* Snapshots the console may read, in two families around one station. *)
EXTENDS Timeline

MCRows == {1, 2}

Base ==
    [onAir |-> TRUE, present |-> TRUE, ai |-> TRUE, funded |-> TRUE, heard |-> TRUE,
     airing |-> "track", pending |-> [r \in MCRows |-> IF r = 1 THEN "ready" ELSE "none"],
     known |-> MCRows, nextUp |-> NothingNext, clip |-> NoKind, fresh |-> TRUE,
     cad |-> NewCadence]

\* Every queue of two rows, with any of their tracks lost, and every pin.
MCQueues ==
    LET pinned == {[Base EXCEPT !.pending = q, !.known = k, !.airing = a,
                                !.nextUp = [set |-> TRUE, row |-> p,
                                            known |-> p \in k \cup {NoRow}],
                                !.cad.music = TRUE, !.cad.finished = f] :
                      q \in [MCRows -> {"none", "approved", "ready"}], k \in SUBSET MCRows,
                      p \in MCRows \cup {NoRow}, a \in {"none", "track"}, f \in {0, 1}}
    IN  pinned \cup {[s EXCEPT !.nextUp = NothingNext] : s \in pinned}
               \cup {[s EXCEPT !.nextUp.known = FALSE] : s \in pinned}

\* Every clock, every kind of item on the air and of clip in the slot; a clip
\* anchored to a track is fresh only while a track is on the air.
MCClocks ==
    {[Base EXCEPT !.airing = a, !.cad = c, !.heard = h, !.clip = k[1], !.fresh = k[2]] :
        a \in {"none", "track", "break"}, c \in {d \in CadenceState : d.musing = "unset"},
        h \in BOOLEAN,
        k \in {<<NoKind, TRUE>>, <<StationID, TRUE>>, <<Seam, TRUE>>, <<Seam, FALSE>>}}

MCSnapshots ==
    {s \in MCQueues \cup MCClocks \cup {[Base EXCEPT !.onAir = FALSE]} :
        s.fresh /\ s.clip = Seam => s.airing = "track"}
=============================================================================
