--------------------------- MODULE MCSbvConnection ---------------------------
(* Small instances of SbvConnection for TLC. *)
EXTENDS SbvConnectionProps, TLC

CONSTANTS t1, t2, t3, p1, p2, h1, h2, h3

MCTask == {t1, t2, t3}
MCProfile == {p1, p2}
MCTlsProfile == {p2}
MCHandle2 == {h1, h2}
MCHandle3 == {h1, h2, h3}

(* Tasks and handles are interchangeable; the two profiles are not (one    *)
(* uses STARTTLS).  Only for the runs without liveness properties.         *)
Symmetric == Permutations(MCTask) \cup Permutations(MCHandle3)
=============================================================================
