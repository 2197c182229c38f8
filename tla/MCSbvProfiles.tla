---------------------------- MODULE MCSbvProfiles ----------------------------
(* Small instances of SbvProfiles for TLC. *)
EXTENDS SbvProfilesProps, TLC

CONSTANTS n1, n2, b1, v1, v2

MCNames   == {n1, n2}
MCBad     == {b1}
MCVals    == {v1, v2}

Symmetric == Permutations(MCNames)
=============================================================================
