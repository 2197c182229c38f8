-------------------------- MODULE SbvLdapBrowserProps --------------------------
(* Properties of SbvLdapBrowser. *)
EXTENDS SbvLdapBrowser

(* What Save Changes would write to an attribute of the entry loaded is    *)
(* what was done to its row while that entry was loaded: neither a late    *)
(* answer that puts other attributes into the editor, nor another          *)
(* selection, a search or a reload, turns what the directory holds, or     *)
(* what was typed for another entry, into a change.                        *)
WritesOnlyTyped ==
    loaded_dn # NoEntry =>
        \A a \in Changed(loaded_attrs, rows) : rows[a].typed = loaded_dn

(* An entry is in the tree once, however often rows are shown, collapsed   *)
(* and expanded while its children are being asked for.                    *)
NoTwins == \A e \in Entry : tree[e].n <= 1

(* An edited entry can be saved: unless the edits are given up, the button *)
(* that a save has made insensitive comes back, whatever came of it.       *)
Unsaved == loaded_dn # NoEntry /\ Dirty(loaded_attrs, rows, added)
UnsavedCanBeSaved == []<>(save_btn \/ ~Unsaved \/ undefined)
=============================================================================
