-------------------------- MODULE MCSbvGroupsPanel --------------------------
(* A small instance of SbvGroupsPanel for TLC: one group that is built in, *)
(* one that is not, and two calls in flight.                               *)
EXTENDS SbvGroupsPanelProps

CONSTANTS g1, g2

MCGroup == {g1, g2}
MCBuiltin == {g1}
MCSlot == {1, 2}
=============================================================================
