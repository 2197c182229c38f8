------------------------- MODULE SbvUsersPanelProps -------------------------
(* Properties of SbvUsersPanel. *)
EXTENDS SbvUsersPanel

(* The detail that shows is of an account in the list, and the model that  *)
(* it edits is the object of its row: reloads replace the rows, and saves  *)
(* change a model, whichever is selected by then.                          *)
SelectionIsRow ==
    detail /\ sel.user # NoUser =>
        rows[sel.user].here /\ rows[sel.user] = sel.model

(* on_confirm_entry_changed: "only when the typed text exactly matches the *)
(* target's sAMAccountName": the account deleted is the one whose name the *)
(* operator typed, whatever was reloaded while the dialog was open.        *)
DeleteAsConfirmed ==
    task["delete"].st # "idle" => task["delete"].user = task["delete"].asked

(* "Enable or disable a user account by modifying userAccountControl":     *)
(* when its worker has read the value, the account changes by the one bit  *)
(* alone.  No other save of this program comes in between and is undone.   *)
(* (When the search has not shown the value, every other flag goes.)       *)
EnableChangesOneFlag ==
    [][\A u \in User :
          task["enable"].st = "half" /\ task["enable"].read
          /\ task["enable"].user = u /\ dir'[u].uac # dir[u].uac
             => dir'[u].uac = [dir[u].uac EXCEPT
                                  !.disabled = ~task["enable"].on]]_vars

(* Each button can be used again in the end, and a reload ends with a list *)
(* or the empty page, unless the program crashed.                          *)
PanelReturns ==
    /\ \A j \in Job : []<>(task[j].st = "idle" \/ crashed)
    /\ []<>(page # "loading" \/ crashed)
=============================================================================
