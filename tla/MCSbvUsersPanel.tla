-------------------------- MODULE MCSbvUsersPanel --------------------------
(* Small instances of SbvUsersPanel for TLC. *)
EXTENDS SbvUsersPanelProps, TLC

CONSTANTS u1, u2, n1, n2, s1, s2

MCUser1 == {u1}
MCUser2 == {u1, u2}
MCCn1 == {n1}
MCCn2 == {n1, n2}
MCSlot1 == {s1}
MCSlot2 == {s1, s2}

Symmetric == Permutations(MCUser2) \cup Permutations(MCSlot2)
=============================================================================
