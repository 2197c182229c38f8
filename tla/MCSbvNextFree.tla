---------------------------- MODULE MCSbvNextFree ----------------------------
(* Small instances of SbvNextFree for TLC. *)
EXTENDS SbvNextFree

MCIds   == 0 .. 4
MCHints == {-1, 0, 2, 3, 9}
=============================================================================
