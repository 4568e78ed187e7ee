----------------------------- MODULE MCDirector -----------------------------
(* Finite instances of Director. *)
EXTENDS Director, TLC
=============================================================================
