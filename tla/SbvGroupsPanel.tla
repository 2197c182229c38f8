--------------------------- MODULE SbvGroupsPanel ---------------------------
(* The groups panel (ui/sbv-groups-panel.c), its dialogs (also             *)
(* ui/sbv-create-group-dialog.c) and its workers                           *)
(* (backend/sbv-groups-backend.c).                                         *)
(*                                                                         *)
(* The directory is the set of groups that exist.  Attributes are left     *)
(* out, and so are members: a group that is shown has a member, and adding *)
(* or removing one may succeed or fail.                                    *)
(* Every dialog is modal: while one is open the panel behind it cannot be  *)
(* clicked, but its callbacks run.                                         *)
(*                                                                         *)
(* Contexts freed under a callback are modelled up to their use: what the  *)
(* program does after that is undefined, and `undefined' stops the model.  *)
(* The GID entry's collision check and Suggest button are those of         *)
(* SbvIdCheck.                                                             *)
EXTENDS Naturals

CONSTANTS
    Group,     \* groups that exist or may be created
    Builtin,   \* those with a RID that sensitive_builtin_name knows
    Slot,      \* bound: asynchronous calls in flight
    None, Freed

ASSUME GroupsAssumption ==
    /\ None \notin Group \cup Slot /\ Freed \notin Slot \cup {None}
    /\ Slot \subseteq Nat
    /\ Builtin \subseteq Group

VARIABLES
    dir,         \* the groups in the directory (external)
    page,        \* outer_stack
    listed,      \* the rows of list_box, as the last list found them
    selected,    \* selected_group
    shown,       \* detail_stack shows "detail"
    pending,     \* pending_select_sam
    button,      \* the context of the member row's Remove button: named for
                 \* the first call that uses it, or None before, or Freed
    delete_btn, rfc_save_btn,     \* sensitive
    dialog,      \* the open dialog: its kind, the group shown when it was
                 \* opened, and for Add Member and Create what it allows
    task,        \* the asynchronous calls
    undefined    \* freed memory or NULL has been used

detail == <<listed, selected, shown, button>>
ui     == <<page, detail, pending, delete_btn, rfc_save_btn, dialog>>
vars   == <<dir, ui, task, undefined>>

NoDialog == [kind |-> "none", group |-> None, users |-> FALSE, can |-> FALSE]
Idle == [op |-> "idle", st |-> "sent", group |-> None, ctx |-> None,
         live |-> TRUE, found |-> {}]

(* A call that changes a group names one. *)
DeedsName ==
    \A s \in Slot :
        task[s].op \in {"add", "remove", "delete", "gid", "create"}
            => task[s].group \in Group

TypeOK ==
    /\ dir \subseteq Group
    /\ page \in {"loading", "empty", "split"}
    /\ listed \subseteq Group
    /\ selected \in Group \cup {None}
    /\ shown \in BOOLEAN
    /\ pending \in Group \cup {None}
    /\ button \in Slot \cup {None, Freed}
    /\ delete_btn \in BOOLEAN /\ rfc_save_btn \in BOOLEAN
    /\ dialog \in [kind : {"none", "add", "delete", "warn", "create"},
                   group : Group \cup {None}, users : BOOLEAN, can : BOOLEAN]
    /\ task \in [Slot -> [op : {"idle", "list", "users", "add", "remove",
                                "delete", "gid", "create"},
                          st : {"sent", "ok", "error"},
                          group : Group \cup {None}, ctx : Slot \cup {None},
                          live : BOOLEAN, found : SUBSET Group]]
    /\ DeedsName
    /\ undefined \in BOOLEAN

-----------------------------------------------------------------------------
(* Asynchronous calls.  A slot holds one; the finished call's slot takes   *)
(* the call that its callback starts.                                      *)

Call(op, g) == [Idle EXCEPT !.op = op, !.group = g]

(* The new call takes the first slot that is free. *)
Start(s, t) ==
    /\ task[s].op = "idle"
    /\ \A i \in Slot : i < s => task[i].op # "idle"
    /\ task' = [task EXCEPT ![s] = t]

Begin(t) == \E s \in Slot : Start(s, t)

Ends(s) == task' = [task EXCEPT ![s] = Idle]

(* sbv_groups_panel_load, from the callback of the call in slot s. *)
LoadAfter(s) ==
    /\ page' = "loading"
    /\ task' = [task EXCEPT ![s] = Call("list", None)]

(* The dialog is destroyed: its context is freed under its calls. *)
Orphans(tasks) ==
    [s \in Slot |-> IF tasks[s].op \in {"users", "add", "create"}
                    THEN [tasks[s] EXCEPT !.live = FALSE] ELSE tasks[s]]

Init ==
    /\ dir \in SUBSET Group
    /\ page = "loading"
    /\ listed = {}
    /\ selected = None
    /\ shown = FALSE
    /\ pending = None
    /\ button = None
    /\ delete_btn = TRUE /\ rfc_save_btn = TRUE
    /\ dialog = NoDialog
    /\ \E s \in Slot :
          task = [i \in Slot |-> IF i = s THEN Call("list", None) ELSE Idle]
    /\ undefined = FALSE

(* The window loads the panel again when it has connected: with a dialog   *)
(* open too, as a connect may have been started before.                    *)
Load ==
    /\ ~undefined
    /\ page' = "loading"
    /\ Begin(Call("list", None))
    /\ UNCHANGED <<dir, detail, pending, delete_btn, rfc_save_btn, dialog,
                   undefined>>

-----------------------------------------------------------------------------
(* The workers: the LDAP call of each, on the directory of that moment.    *)

Worker(s) == ~undefined /\ task[s].op # "idle" /\ task[s].st = "sent"

Answer(s, st) == task' = [task EXCEPT ![s].st = st]

(* Faulty: a worker that could not write returns nothing to its task. *)
FailSilently(s) ==
    /\ Worker(s)
    /\ Answer(s, "lost")
    /\ UNCHANGED <<dir, ui, undefined>>

(* A call that fails has changed nothing: an answer lost after the change  *)
(* is left out.                                                            *)
Fail(s) ==
    /\ Worker(s)
    /\ Answer(s, "error")
    /\ UNCHANGED <<dir, ui, undefined>>

ListGroups(s) ==
    /\ Worker(s) /\ task[s].op = "list"
    /\ task' = [task EXCEPT ![s].st = "ok", ![s].found = dir]
    /\ UNCHANGED <<dir, ui, undefined>>

ListUsers(s) ==
    /\ Worker(s) /\ task[s].op = "users"
    /\ Answer(s, "ok")
    /\ UNCHANGED <<dir, ui, undefined>>

ModifyMember(s) ==
    /\ Worker(s) /\ task[s].op \in {"add", "remove"}
    /\ task[s].group \in dir
    /\ Answer(s, "ok")
    /\ UNCHANGED <<dir, ui, undefined>>

SetGid(s) ==
    /\ Worker(s) /\ task[s].op = "gid" /\ task[s].group \in dir
    /\ Answer(s, "ok")
    /\ UNCHANGED <<dir, ui, undefined>>

CreateGroup(s) ==
    /\ Worker(s) /\ task[s].op = "create" /\ task[s].group \notin dir
    /\ dir' = dir \cup {task[s].group}
    /\ Answer(s, "ok")
    /\ UNCHANGED <<ui, undefined>>

DeleteGroup(s) ==
    /\ Worker(s) /\ task[s].op = "delete" /\ task[s].group \in dir
    /\ dir' = dir \ {task[s].group}
    /\ Answer(s, "ok")
    /\ UNCHANGED <<ui, undefined>>

-----------------------------------------------------------------------------
(* The detail of a group: its member row gets a Remove button with a new   *)
(* context.                                                                *)

ShowGroup(g) == selected' = g /\ shown' = TRUE /\ button' = None

Clickable == ~undefined /\ page = "split" /\ dialog.kind = "none"
InDetail == Clickable /\ shown

(* on_row_selected: the row that is selected already does not count. *)
SelectRow(g) ==
    /\ Clickable /\ g \in listed
    /\ ~(shown /\ selected = g)
    /\ ShowGroup(g)
    /\ UNCHANGED <<dir, page, listed, pending, delete_btn, rfc_save_btn,
                   dialog, task, undefined>>

(* on_row_selected without a row: the selection stays, behind the page     *)
(* that asks for one.                                                      *)
UnselectRow ==
    /\ Clickable /\ shown
    /\ shown' = FALSE
    /\ UNCHANGED <<dir, page, listed, selected, button, pending, delete_btn,
                   rfc_save_btn, dialog, task, undefined>>

(* What a callback or a button uses has been freed. *)
UseFreed == undefined' = TRUE /\ UNCHANGED <<dir, ui, task>>

(* on_remove_clicked: every click passes the same context on. *)
ClickRemove ==
    /\ InDetail /\ selected # None
    /\ IF button = Freed THEN UseFreed
       ELSE \E s \in Slot :
              /\ button' = IF button = None THEN s ELSE button
              /\ Start(s, [Call("remove", selected) EXCEPT !.ctx = button'])
              /\ UNCHANGED <<dir, page, listed, selected, shown, pending,
                             delete_btn, rfc_save_btn, dialog, undefined>>

Returned(s, op) == ~undefined /\ task[s].op = op /\ task[s].st # "sent"
Succeeded(s) == task[s].st = "ok"

(* on_remove_done: also after an error, the context goes. *)
RemoveDone(s) ==
    /\ Returned(s, "remove")
    /\ IF ~task[s].live THEN UseFreed
       ELSE LET others == [i \in Slot |-> IF task[i].ctx = task[s].ctx
                                          THEN [task[i] EXCEPT !.live = FALSE]
                                          ELSE task[i]]
            IN /\ button' = IF button = task[s].ctx THEN Freed ELSE button
               /\ IF Succeeded(s)
                  THEN /\ page' = "loading"
                       /\ task' = [others EXCEPT ![s] = Call("list", None)]
                  ELSE /\ task' = [others EXCEPT ![s] = Idle]
                       /\ UNCHANGED page
               /\ UNCHANGED <<dir, listed, selected, shown, pending,
                              delete_btn, rfc_save_btn, dialog, undefined>>

-----------------------------------------------------------------------------
(* The dialogs.  Cancel destroys one, and so does its success. *)

Open(kind) == dialog' = [NoDialog EXCEPT !.kind = kind, !.group = selected]

Cancel ==
    /\ ~undefined /\ dialog.kind # "none"
    /\ dialog' = NoDialog
    /\ task' = Orphans(task)
    /\ UNCHANGED <<dir, page, detail, pending, delete_btn, rfc_save_btn,
                   undefined>>

OpenAddMember ==
    /\ InDetail
    /\ Open("add")
    /\ Begin(Call("users", None))
    /\ UNCHANGED <<dir, page, detail, pending, delete_btn, rfc_save_btn,
                   undefined>>

(* on_add_dialog_users_loaded *)
UsersLoaded(s) ==
    /\ Returned(s, "users")
    /\ IF ~task[s].live THEN UseFreed
       ELSE /\ dialog' = [dialog EXCEPT !.users = Succeeded(s)]
            /\ Ends(s)
            /\ UNCHANGED <<dir, page, detail, pending, delete_btn,
                           rfc_save_btn, undefined>>

(* on_add_dialog_row_selected *)
PickUser ==
    /\ ~undefined /\ dialog.kind = "add" /\ dialog.users
    /\ dialog' = [dialog EXCEPT !.can = TRUE]
    /\ UNCHANGED <<dir, page, detail, pending, delete_btn, rfc_save_btn, task,
                   undefined>>

(* on_add_btn_clicked: the group is the one selected by now. *)
ClickAdd ==
    /\ ~undefined /\ dialog.kind = "add" /\ dialog.can /\ selected # None
    /\ dialog' = [dialog EXCEPT !.can = FALSE]
    /\ Begin(Call("add", selected))
    /\ UNCHANGED <<dir, page, detail, pending, delete_btn, rfc_save_btn,
                   undefined>>

(* on_add_member_done: an error leaves the dialog as it is. *)
AddDone(s) ==
    /\ Returned(s, "add")
    /\ IF Succeeded(s)
       THEN IF ~task[s].live THEN UseFreed
            ELSE /\ dialog' = NoDialog
                 /\ page' = "loading"
                 /\ task' = [Orphans(task) EXCEPT ![s] = Call("list", None)]
                 /\ UNCHANGED <<dir, detail, pending, delete_btn, rfc_save_btn,
                                undefined>>
       ELSE Ends(s) /\ UNCHANGED <<dir, ui, undefined>>

(* show_group_delete_confirm *)
OpenDelete ==
    /\ InDetail /\ delete_btn /\ selected # None
    /\ Open("delete")
    /\ UNCHANGED <<dir, page, detail, pending, delete_btn, rfc_save_btn, task,
                   undefined>>

(* on_confirm_group_delete_clicked, after the name has been typed. *)
ConfirmDelete ==
    /\ ~undefined /\ dialog.kind = "delete"
    /\ dialog' = NoDialog
    /\ IF selected = None THEN UNCHANGED <<task, delete_btn>>
       ELSE delete_btn' = FALSE /\ Begin(Call("delete", selected))
    /\ UNCHANGED <<dir, page, detail, pending, rfc_save_btn, undefined>>

(* on_group_delete_done: the selection goes, whichever group it is. *)
DeleteDone(s) ==
    /\ Returned(s, "delete")
    /\ delete_btn' = TRUE
    /\ IF Succeeded(s) THEN selected' = None /\ LoadAfter(s)
       ELSE Ends(s) /\ UNCHANGED <<selected, page>>
    /\ UNCHANGED <<dir, listed, shown, button, pending, rfc_save_btn,
                   dialog, undefined>>

(* do_rfc_save: sbv_group_get_dn reads through a selection that is NULL. *)
SaveGid ==
    IF selected = None
    THEN undefined' = TRUE /\ UNCHANGED <<task, rfc_save_btn>>
    ELSE /\ rfc_save_btn' = FALSE
         /\ Begin(Call("gid", selected))
         /\ UNCHANGED undefined

(* on_rfc_save_clicked; `number': the entry is not empty. *)
ClickSave(number) ==
    /\ InDetail /\ rfc_save_btn /\ selected # None
    /\ IF number /\ selected \in Builtin
       THEN Open("warn") /\ UNCHANGED <<task, rfc_save_btn, undefined>>
       ELSE SaveGid /\ UNCHANGED dialog
    /\ UNCHANGED <<dir, page, detail, pending, delete_btn>>

(* on_gid_warn_response, "save" *)
SaveAnyway ==
    /\ ~undefined /\ dialog.kind = "warn"
    /\ dialog' = NoDialog
    /\ SaveGid
    /\ UNCHANGED <<dir, page, detail, pending, delete_btn>>

(* Faulty: an error leaves the Save button insensitive. *)
GidDoneIfOk(s) ==
    /\ Returned(s, "gid")
    /\ rfc_save_btn' = Succeeded(s)
    /\ IF Succeeded(s) THEN LoadAfter(s) ELSE Ends(s) /\ UNCHANGED page
    /\ UNCHANGED <<dir, detail, pending, delete_btn, dialog, undefined>>

(* on_rfc_save_done *)
GidDone(s) ==
    /\ Returned(s, "gid")
    /\ rfc_save_btn' = TRUE
    /\ IF Succeeded(s) THEN LoadAfter(s) ELSE Ends(s) /\ UNCHANGED page
    /\ UNCHANGED <<dir, detail, pending, delete_btn, dialog, undefined>>

(* on_add_group_btn_clicked *)
OpenCreate ==
    /\ Clickable
    /\ dialog' = [NoDialog EXCEPT !.kind = "create", !.can = TRUE]
    /\ UNCHANGED <<dir, page, detail, pending, delete_btn, rfc_save_btn, task,
                   undefined>>

ClickCreate(g) ==
    /\ ~undefined /\ dialog.kind = "create" /\ dialog.can
    /\ dialog' = [dialog EXCEPT !.can = FALSE]
    /\ Begin(Call("create", g))
    /\ UNCHANGED <<dir, page, detail, pending, delete_btn, rfc_save_btn,
                   undefined>>

(* on_create_done, with on_group_created *)
CreateDone(s) ==
    /\ Returned(s, "create")
    /\ IF ~task[s].live THEN UseFreed
       ELSE /\ IF Succeeded(s)
               THEN /\ pending' = task[s].group
                    /\ LoadAfter(s)
                    /\ dialog' = NoDialog
               ELSE /\ dialog' = [dialog EXCEPT !.can = TRUE]
                    /\ Ends(s)
                    /\ UNCHANGED <<pending, page>>
            /\ UNCHANGED <<dir, detail, delete_btn, rfc_save_btn, undefined>>

-----------------------------------------------------------------------------
(* on_groups_loaded *)

ListFailed(s) ==
    /\ Returned(s, "list") /\ ~Succeeded(s)
    /\ page' = "empty"
    /\ Ends(s)
    /\ UNCHANGED <<dir, detail, pending, delete_btn, rfc_save_btn, dialog,
                   undefined>>

(* Faulty: a created group that is not found is looked for again later. *)
GroupsLoadedKeepsPending(s) ==
    /\ Returned(s, "list") /\ Succeeded(s)
    /\ LET rows   == task[s].found
           target == IF pending # None THEN pending ELSE selected
       IN /\ listed' = rows
          /\ page' = IF rows = {} THEN "empty" ELSE "split"
          /\ IF target \in rows THEN ShowGroup(target)
             ELSE shown' = FALSE /\ UNCHANGED <<selected, button>>
          /\ pending' = IF pending \in rows THEN None ELSE pending
    /\ Ends(s)
    /\ UNCHANGED <<dir, delete_btn, rfc_save_btn, dialog, undefined>>

(* Faulty: the detail of a group that is not found stays. *)
GroupsLoadedDetailStays(s) ==
    /\ Returned(s, "list") /\ Succeeded(s)
    /\ LET rows   == task[s].found
           target == IF pending # None THEN pending ELSE selected
       IN /\ listed' = rows
          /\ page' = IF rows = {} THEN "empty" ELSE "split"
          /\ IF target \in rows THEN ShowGroup(target)
             ELSE UNCHANGED <<selected, shown, button>>
          /\ pending' = None
    /\ Ends(s)
    /\ UNCHANGED <<dir, delete_btn, rfc_save_btn, dialog, undefined>>

(* The group that was created, or else the selected one, is selected again *)
(* when the list has it.                                                   *)
GroupsLoaded(s) ==
    /\ Returned(s, "list") /\ Succeeded(s)
    /\ LET rows   == task[s].found
           target == IF pending # None THEN pending ELSE selected
       IN /\ listed' = rows
          /\ page' = IF rows = {} THEN "empty" ELSE "split"
          /\ IF target \in rows THEN ShowGroup(target)
             ELSE shown' = FALSE /\ UNCHANGED <<selected, button>>
          /\ pending' = None
    /\ Ends(s)
    /\ UNCHANGED <<dir, delete_btn, rfc_save_btn, dialog, undefined>>

-----------------------------------------------------------------------------
Work(s) ==
    \/ Fail(s) \/ ListGroups(s) \/ ListUsers(s) \/ ModifyMember(s)
    \/ SetGid(s) \/ CreateGroup(s) \/ DeleteGroup(s)

Callback(s) ==
    \/ RemoveDone(s) \/ UsersLoaded(s) \/ AddDone(s) \/ DeleteDone(s)
    \/ GidDone(s) \/ CreateDone(s) \/ ListFailed(s) \/ GroupsLoaded(s)

User ==
    \/ \E g \in Group : SelectRow(g) \/ ClickCreate(g)
    \/ \E number \in BOOLEAN : ClickSave(number)
    \/ UnselectRow \/ ClickRemove \/ Cancel \/ OpenAddMember \/ PickUser \/ ClickAdd
    \/ OpenDelete \/ ConfirmDelete \/ SaveAnyway \/ OpenCreate

Next == User \/ Load \/ \E s \in Slot : Work(s) \/ Callback(s)

Spec == Init /\ [][Next]_vars

(* Every LDAP call returns (at worst with its time limit), and GLib's main *)
(* loop runs every callback that is due.                                   *)
FairSpec == Spec /\ \A s \in Slot : WF_vars(Work(s)) /\ WF_vars(Callback(s))
=============================================================================
