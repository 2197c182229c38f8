------------------------- MODULE SbvGroupsPanelProps -------------------------
(* Properties of SbvGroupsPanel. *)
EXTENDS SbvGroupsPanel

(* The dialogs act on selected_group when they are confirmed: that is the  *)
(* group they were opened for, or none, whatever lists, deletions,         *)
(* creations and reconnects have come in between.                          *)
DialogIsAboutSelected ==
    dialog.kind \in {"add", "delete", "warn"} =>
        selected \in {dialog.group, None}

(* The detail that can be clicked is of the selected group, which is in    *)
(* the list: on_group_delete_done clears the selection under the detail of *)
(* another group, but not for long.                                        *)
DetailIsSelected ==
    page = "split" /\ shown => selected \in listed

(* Every path gives back what a call has taken: the loading page, the      *)
(* Delete button and the Save button.                                      *)
PanelReturns ==
    /\ []<>(page # "loading" \/ undefined)
    /\ []<>(delete_btn \/ undefined)
    /\ []<>(rfc_save_btn \/ undefined)
=============================================================================
