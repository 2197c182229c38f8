------------------------- MODULE MCSbvComputersPanel -------------------------
(* A small instance of SbvComputersPanel for TLC: two computers, one with  *)
(* an SPN that the other may not get and one that is created, and two      *)
(* calls in flight.                                                        *)
EXTENDS SbvComputersPanelProps, TLC

CONSTANTS c1, c2, n1

MCComputer == {c1, c2}
MCSpn == {n1}
MCSpnOf == c1 :> {n1} @@ c2 :> {}
MCNew == {c2}
Joined(spns) == [exists |-> TRUE, spns |-> spns, joined |-> TRUE]
MCDirectories == {c1 :> Joined({n1}) @@ c2 :> Absent}
MCSlot == {1, 2}
=============================================================================
