----------------------- MODULE SbvComputersPanelProps -----------------------
(* Properties of SbvComputersPanel. *)
EXTENDS SbvComputersPanel

(* A save replaces the whole servicePrincipalName attribute of the         *)
(* selected computer with working_spns, and lists, deletions, selections   *)
(* and reconnects change both: no computer gets an SPN of another.         *)
SpnsOfOwn ==
    /\ \A c \in Computer : dir[c].spns \subseteq SpnOf[c]
    /\ \A s \in Slot : task[s].op = "spns" =>
                           task[s].spns \subseteq SpnOf[task[s].computer]
    /\ shown /\ selected # None => working \subseteq SpnOf[selected]

(* Staged SPNs that differ from the model's can be saved, now or when the  *)
(* save in flight has failed: no path leaves update_spn_dirty's button off *)
(* with edits that only a new edit would bring back.                       *)
UnsavedSpnsCanBeSaved ==
    page = "split" /\ shown /\ listed[selected].joined
        /\ working # listed[selected].spns
    => \/ spn_save_btn
       \/ \E s \in Slot : task[s].op = "spns" /\ task[s].computer = selected

(* Every path gives back what a call has taken: the loading page, the Save *)
(* Changes button and the Delete button.                                   *)
PanelReturns ==
    /\ []<>(page # "loading" \/ undefined)
    /\ []<>(save_btn \/ undefined)
    /\ []<>(delete_btn \/ undefined)
=============================================================================
