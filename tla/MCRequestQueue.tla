--------------------------- MODULE MCRequestQueue ---------------------------
(* Finite instances of RequestQueue.  The code's 3 pending, 10 a day, 3     *)
(* attempts, depth 3 and 2 picks are scaled down so that every limit is met *)
(* within a table of MaxRows rows.                                          *)
EXTENDS RequestQueue, TLC

CONSTANT MaxRows

MCIds == 1..MaxRows

\* Calls are interchangeable.
HandlerSymmetry == Permutations(Handlers)
=============================================================================
