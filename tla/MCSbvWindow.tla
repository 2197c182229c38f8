---------------------------- MODULE MCSbvWindow ----------------------------
(* Small instances of SbvWindow for TLC. *)
EXTENDS SbvWindowProps

CONSTANTS c1, c2, c3, p1, p2

MCConn3 == {c1, c2, c3}
MCProfile == {p1, p2}
MCOneKerberos == {p1}
MCOneAdded == {p2}
MCNone == {}
=============================================================================
