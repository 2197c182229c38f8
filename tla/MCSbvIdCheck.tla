---------------------------- MODULE MCSbvIdCheck ----------------------------
(* Small instances of SbvIdCheck for TLC. *)
EXTENDS SbvIdCheckProps

CONSTANTS u1, u2

MCUsers == {u1, u2}
MCIds   == {1, 2}

(* The first user holds the first number; the other one holds the same, the *)
(* other number or none.                                                    *)
MCInit     == Init /\ uid[u1] = 1
MCFairSpec == MCInit /\ [][Next]_vars /\ Fairness
=============================================================================
