------------------------------ MODULE MCFeeder ------------------------------
(* Finite instances of Feeder. *)
EXTENDS Feeder

CONSTANTS MaxRows, MaxReaders, MaxDirs

MCIds == 1..MaxRows
MCReaderIds == 1..MaxReaders
MCDirIds == 1..MaxDirs
=============================================================================
