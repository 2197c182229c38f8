--------------------------- MODULE MCSbvLdapBrowser ---------------------------
(* A small instance of SbvLdapBrowser for TLC. *)
EXTENDS SbvLdapBrowserProps, TLC

CONSTANTS root, ou, a1, v1

MCEntries  == {root, ou}
MCParents  == ou :> root
MCAttrs    == {a1}
MCOneValue == {v1}

(* Values that split_values keeps: no semicolon, no white space around. *)
MCPlain    == [v \in Value |-> {v}]

(* The root has one value, the other entry none. *)
MCInit     == Init /\ dir = root :> [a \in Attr |-> {v1}] @@ ou :> NoAttrs
MCFairSpec == MCInit /\ [][Next]_vars /\ Fairness
=============================================================================
