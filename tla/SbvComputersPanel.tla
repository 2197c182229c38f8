-------------------------- MODULE SbvComputersPanel --------------------------
(* The computers panel (ui/sbv-computers-panel.c), its two dialogs (also   *)
(* ui/sbv-create-computer-dialog.c) and its workers                        *)
(* (backend/sbv-computers-backend.c).                                      *)
(*                                                                         *)
(* The directory tells, for each computer, its service principal names and *)
(* whether it has a password (pwdLastSet is not 0).  The description, the  *)
(* host name and the enabled flag are left out: a save is a call that may  *)
(* be followed by a second one.  SPNs are told apart up to case.           *)
(*                                                                         *)
(* Both dialogs are modal: while one is open the panel behind it cannot be *)
(* clicked, but its callbacks run.  A context freed under a callback, or a *)
(* selection that is NULL, is modelled up to its use: what the program     *)
(* does after that is undefined, and `undefined' stops the model.          *)
EXTENDS Naturals

CONSTANTS
    Computer,  \* computers
    New,       \* bound: those whose name the user gives a new one
    Directories,   \* bound: the directories to start from
    Spn,       \* service principal names
    SpnOf,     \* those that belong to a computer: it has, or the user types,
               \* no other
    Slot,      \* bound: asynchronous calls in flight
    None

(* What the directory, or a list of it, says of a computer. *)
Entry == [exists : BOOLEAN, spns : SUBSET Spn, joined : BOOLEAN]

ASSUME ComputersAssumption ==
    /\ Directories \subseteq [Computer -> Entry]
    /\ SpnOf \in [Computer -> SUBSET Spn]
    /\ New \subseteq Computer
    /\ \A d \in Directories, c \in Computer : d[c].spns \subseteq SpnOf[c]
    /\ None \notin Computer
    /\ Slot \subseteq Nat

VARIABLES
    dir,         \* the directory (external)
    page,        \* outer_stack
    listed,      \* the models behind the rows, as the last list found them
    selected,    \* selected_computer
    shown,       \* detail_stack shows "detail"
    working,     \* working_spns
    pending,     \* pending_select_dn
    save_btn, spn_save_btn, delete_btn,   \* sensitive
    dialog,      \* the open dialog, "creating" while its create call runs
    task,        \* the asynchronous calls
    undefined    \* freed memory or NULL has been used

detail  == <<listed, selected, shown, working, spn_save_btn>>
buttons == <<save_btn, delete_btn>>
ui      == <<page, detail, pending, buttons, dialog>>
vars    == <<dir, ui, task, undefined>>

Absent == [exists |-> FALSE, spns |-> {}, joined |-> FALSE]
NoList == [c \in Computer |-> Absent]
Idle == [op |-> "idle", st |-> "sent", computer |-> None, spns |-> {},
         live |-> TRUE, found |-> NoList]

(* A call that changes a computer names one. *)
DeedsName ==
    \A s \in Slot :
        task[s].op \in {"attrs", "enable", "spns", "delete", "create"}
            => task[s].computer \in Computer

TypeOK ==
    /\ dir \in [Computer -> Entry]
    /\ page \in {"loading", "empty", "split"}
    /\ listed \in [Computer -> Entry]
    /\ selected \in Computer \cup {None}
    /\ shown \in BOOLEAN
    /\ working \subseteq Spn
    /\ pending \in Computer \cup {None}
    /\ save_btn \in BOOLEAN /\ spn_save_btn \in BOOLEAN
    /\ delete_btn \in BOOLEAN
    /\ dialog \in {"none", "delete", "create", "creating"}
    /\ task \in [Slot -> [op : {"idle", "list", "attrs", "enable", "spns",
                                "delete", "create"},
                          st : {"sent", "ok", "error"},
                          computer : Computer \cup {None},
                          spns : SUBSET Spn, live : BOOLEAN,
                          found : [Computer -> Entry]]]
    /\ DeedsName
    /\ undefined \in BOOLEAN

-----------------------------------------------------------------------------
(* Asynchronous calls.  A slot holds one; the finished call's slot takes   *)
(* the call that its callback starts.                                      *)

Call(op, c) == [Idle EXCEPT !.op = op, !.computer = c]

(* The new call takes the first slot that is free. *)
Start(s, t) ==
    /\ task[s].op = "idle"
    /\ \A i \in Slot : i < s => task[i].op # "idle"
    /\ task' = [task EXCEPT ![s] = t]

Begin(t) == \E s \in Slot : Start(s, t)

Ends(s) == task' = [task EXCEPT ![s] = Idle]

(* sbv_computers_panel_load, from the callback of the call in slot s. *)
LoadAfter(s) ==
    /\ page' = "loading"
    /\ task' = [task EXCEPT ![s] = Call("list", None)]

Init ==
    /\ dir \in Directories
    /\ page = "loading"
    /\ listed = NoList
    /\ selected = None
    /\ shown = FALSE
    /\ working = {}
    /\ pending = None
    /\ save_btn = TRUE /\ spn_save_btn = FALSE /\ delete_btn = TRUE
    /\ dialog = "none"
    /\ \E s \in Slot :
          /\ \A i \in Slot : s <= i
          /\ task = [i \in Slot |-> IF i = s THEN Call("list", None) ELSE Idle]
    /\ undefined = FALSE

(* The window loads the panel again when it has connected. *)
Load ==
    /\ ~undefined
    /\ page' = "loading"
    /\ Begin(Call("list", None))
    /\ UNCHANGED <<dir, detail, pending, buttons, dialog, undefined>>

-----------------------------------------------------------------------------
(* The workers: the LDAP call of each, on the directory of that moment.    *)

Worker(s) == ~undefined /\ task[s].op # "idle" /\ task[s].st = "sent"

Answer(s, st) == task' = [task EXCEPT ![s].st = st]

(* Faulty: a worker that could not write returns nothing to its task. *)
FailSilently(s) ==
    /\ Worker(s)
    /\ Answer(s, "lost")
    /\ UNCHANGED <<dir, ui, undefined>>

(* A call that fails has changed nothing: an answer lost after the change  *)
(* is left out.                                                            *)
Fail(s) ==
    /\ Worker(s)
    /\ Answer(s, "error")
    /\ UNCHANGED <<dir, ui, undefined>>

ListComputers(s) ==
    /\ Worker(s) /\ task[s].op = "list"
    /\ task' = [task EXCEPT ![s].st = "ok", ![s].found = dir]
    /\ UNCHANGED <<dir, ui, undefined>>

UpdateAttrs(s) ==
    /\ Worker(s) /\ task[s].op = "attrs" /\ dir[task[s].computer].exists
    /\ Answer(s, "ok")
    /\ UNCHANGED <<dir, ui, undefined>>

(* The worker reads userAccountControl and writes it, two requests.  They  *)
(* are one step: no flag is in the model.                                  *)
SetEnabled(s) ==
    /\ Worker(s) /\ task[s].op = "enable" /\ dir[task[s].computer].exists
    /\ Answer(s, "ok")
    /\ UNCHANGED <<dir, ui, undefined>>

(* The whole attribute is replaced. *)
SetSpn(s) ==
    /\ Worker(s) /\ task[s].op = "spns" /\ dir[task[s].computer].exists
    /\ dir' = [dir EXCEPT ![task[s].computer].spns = task[s].spns]
    /\ Answer(s, "ok")
    /\ UNCHANGED <<ui, undefined>>

CreateComputer(s) ==
    /\ Worker(s) /\ task[s].op = "create" /\ ~dir[task[s].computer].exists
    /\ dir' = [dir EXCEPT ![task[s].computer].exists = TRUE]
    /\ Answer(s, "ok")
    /\ UNCHANGED <<ui, undefined>>

DeleteComputer(s) ==
    /\ Worker(s) /\ task[s].op = "delete" /\ dir[task[s].computer].exists
    /\ dir' = [dir EXCEPT ![task[s].computer] = Absent]
    /\ Answer(s, "ok")
    /\ UNCHANGED <<ui, undefined>>

-----------------------------------------------------------------------------
(* Faulty: the SPNs of the computer shown before stay. *)
ShowComputerKeepsSpns(c, models) ==
    /\ selected' = c
    /\ shown' = TRUE
    /\ working' = working
    /\ spn_save_btn' = FALSE

(* load_computer_into_detail: the model's SPNs are copied. *)
ShowComputer(c, models) ==
    /\ selected' = c
    /\ shown' = TRUE
    /\ working' = models[c].spns
    /\ spn_save_btn' = FALSE

Clickable == ~undefined /\ page = "split" /\ dialog = "none"
InDetail == Clickable /\ shown /\ selected # None

(* on_row_selected: the row that is selected already does not count. *)
SelectRow(c) ==
    /\ Clickable /\ listed[c].exists
    /\ ~(shown /\ selected = c)
    /\ ShowComputer(c, listed)
    /\ UNCHANGED <<dir, page, listed, pending, buttons, dialog, task,
                   undefined>>

(* on_row_selected without a row: the selection stays, behind the page     *)
(* that asks for one.                                                      *)
UnselectRow ==
    /\ Clickable /\ shown
    /\ shown' = FALSE
    /\ UNCHANGED <<dir, page, listed, selected, working, spn_save_btn, pending,
                   buttons, dialog, task, undefined>>

(* on_save_clicked *)
ClickSave ==
    /\ InDetail /\ save_btn
    /\ save_btn' = FALSE
    /\ Begin(Call("attrs", selected))
    /\ UNCHANGED <<dir, page, detail, pending, delete_btn, dialog, undefined>>

Returned(s, op) == ~undefined /\ task[s].op = op /\ task[s].st # "sent"
Succeeded(s) == task[s].st = "ok"

(* on_update_attrs_done; `enable': the check box differed from the model   *)
(* (need_enabled_change).  The computer to enable is the one selected by   *)
(* now; sbv_computer_get_dn reads through a selection that is NULL.        *)
UpdateAttrsDone(s, enable) ==
    /\ Returned(s, "attrs")
    /\ IF Succeeded(s) /\ enable
       THEN /\ IF selected = None
               THEN undefined' = TRUE /\ UNCHANGED task
               ELSE /\ task' = [task EXCEPT ![s] = Call("enable", selected)]
                    /\ UNCHANGED undefined
            /\ UNCHANGED <<page, save_btn>>
       ELSE /\ save_btn' = TRUE
            /\ IF Succeeded(s) THEN LoadAfter(s) ELSE Ends(s) /\ UNCHANGED page
            /\ UNCHANGED undefined
    /\ UNCHANGED <<dir, detail, pending, delete_btn, dialog>>

(* Faulty: an error leaves the Save Changes button insensitive. *)
SetEnabledDoneIfOk(s) ==
    /\ Returned(s, "enable")
    /\ save_btn' = Succeeded(s)
    /\ IF Succeeded(s) THEN LoadAfter(s) ELSE Ends(s) /\ UNCHANGED page
    /\ UNCHANGED <<dir, detail, pending, delete_btn, dialog, undefined>>

(* on_set_enabled_after_save *)
SetEnabledDone(s) ==
    /\ Returned(s, "enable")
    /\ save_btn' = TRUE
    /\ IF Succeeded(s) THEN LoadAfter(s) ELSE Ends(s) /\ UNCHANGED page
    /\ UNCHANGED <<dir, detail, pending, delete_btn, dialog, undefined>>

-----------------------------------------------------------------------------
(* The SPN editor, locked for a computer with no password. *)

Editable == InDetail /\ listed[selected].joined

(* on_spn_add_clicked and on_spn_remove_clicked, with update_spn_dirty. *)
Edit(spns) ==
    /\ working' = spns
    /\ spn_save_btn' = (spns # listed[selected].spns)
    /\ UNCHANGED <<dir, page, listed, selected, shown, pending, buttons,
                   dialog, task, undefined>>

AddSpn(n) ==
    /\ Editable
    /\ n \in SpnOf[selected] \ working
    /\ Edit(working \cup {n})

RemoveSpn(n) ==
    /\ Editable
    /\ n \in working
    /\ Edit(working \ {n})

(* on_spn_save_clicked: the button may have come back for a computer that  *)
(* is locked.                                                              *)
ClickSaveSpns ==
    /\ Editable /\ spn_save_btn
    /\ spn_save_btn' = FALSE
    /\ Begin([Call("spns", selected) EXCEPT !.spns = working])
    /\ UNCHANGED <<dir, page, listed, selected, shown, working, pending,
                   buttons, dialog, undefined>>

(* Faulty: an error leaves the Save SPNs button insensitive. *)
SpnSaveDoneIfOk(s) ==
    /\ Returned(s, "spns")
    /\ IF Succeeded(s) THEN LoadAfter(s) ELSE Ends(s) /\ UNCHANGED page
    /\ UNCHANGED <<dir, detail, pending, buttons, dialog, undefined>>

(* on_spn_save_done *)
SpnSaveDone(s) ==
    /\ Returned(s, "spns")
    /\ IF Succeeded(s) THEN LoadAfter(s) /\ UNCHANGED spn_save_btn
       ELSE Ends(s) /\ spn_save_btn' = TRUE /\ UNCHANGED page
    /\ UNCHANGED <<dir, listed, selected, shown, working, pending, buttons,
                   dialog, undefined>>

-----------------------------------------------------------------------------
(* The dialogs.  Cancel destroys one, and so does its success. *)

UseFreed == undefined' = TRUE /\ UNCHANGED <<dir, ui, task>>

(* The create dialog's context is freed under its call. *)
Cancel ==
    /\ ~undefined /\ dialog # "none"
    /\ dialog' = "none"
    /\ task' = [s \in Slot |-> IF task[s].op = "create"
                               THEN [task[s] EXCEPT !.live = FALSE]
                               ELSE task[s]]
    /\ UNCHANGED <<dir, page, detail, pending, buttons, undefined>>

(* show_computer_delete_confirm *)
OpenDelete ==
    /\ InDetail /\ delete_btn
    /\ dialog' = "delete"
    /\ UNCHANGED <<dir, page, detail, pending, buttons, task, undefined>>

(* on_confirm_computer_delete_clicked, after the name has been typed. *)
ConfirmDelete ==
    /\ ~undefined /\ dialog = "delete"
    /\ dialog' = "none"
    /\ IF selected = None THEN UNCHANGED <<task, delete_btn>>
       ELSE delete_btn' = FALSE /\ Begin(Call("delete", selected))
    /\ UNCHANGED <<dir, page, detail, pending, save_btn, undefined>>

(* on_computer_delete_done: the selection goes, whichever it is. *)
DeleteDone(s) ==
    /\ Returned(s, "delete")
    /\ delete_btn' = TRUE
    /\ IF Succeeded(s) THEN selected' = None /\ LoadAfter(s)
       ELSE Ends(s) /\ UNCHANGED <<selected, page>>
    /\ UNCHANGED <<dir, listed, shown, working, spn_save_btn, pending,
                   save_btn, dialog, undefined>>

(* on_add_computer_btn_clicked *)
OpenCreate ==
    /\ Clickable
    /\ dialog' = "create"
    /\ UNCHANGED <<dir, page, detail, pending, buttons, task, undefined>>

(* on_create_clicked, with the Create button insensitive meanwhile. *)
ClickCreate(c) ==
    /\ ~undefined /\ dialog = "create"
    /\ dialog' = "creating"
    /\ Begin(Call("create", c))
    /\ UNCHANGED <<dir, page, detail, pending, buttons, undefined>>

(* on_create_done, with on_computer_created *)
CreateDone(s) ==
    /\ Returned(s, "create")
    /\ IF ~task[s].live THEN UseFreed
       ELSE /\ IF Succeeded(s)
               THEN /\ pending' = task[s].computer
                    /\ LoadAfter(s)
                    /\ dialog' = "none"
               ELSE /\ dialog' = "create"
                    /\ Ends(s)
                    /\ UNCHANGED <<pending, page>>
            /\ UNCHANGED <<dir, detail, buttons, undefined>>

-----------------------------------------------------------------------------
(* on_computers_loaded *)

ListFailed(s) ==
    /\ Returned(s, "list") /\ ~Succeeded(s)
    /\ page' = "empty"
    /\ Ends(s)
    /\ UNCHANGED <<dir, detail, pending, buttons, dialog, undefined>>

(* The computer that was created, or else the selected one, is selected    *)
(* again when the list has it.                                             *)
ComputersLoaded(s) ==
    /\ Returned(s, "list") /\ Succeeded(s)
    /\ LET models == task[s].found
           target == IF pending # None THEN pending ELSE selected
       IN /\ listed' = models
          /\ page' = IF models = NoList THEN "empty" ELSE "split"
          /\ IF target # None /\ models[target].exists
             THEN ShowComputer(target, models)
             ELSE /\ shown' = FALSE
                  /\ UNCHANGED <<selected, working, spn_save_btn>>
    /\ pending' = None
    /\ Ends(s)
    /\ UNCHANGED <<dir, buttons, dialog, undefined>>

-----------------------------------------------------------------------------
Work(s) ==
    \/ Fail(s) \/ ListComputers(s) \/ UpdateAttrs(s) \/ SetEnabled(s)
    \/ SetSpn(s) \/ CreateComputer(s) \/ DeleteComputer(s)

Callback(s) ==
    \/ \E enable \in BOOLEAN : UpdateAttrsDone(s, enable)
    \/ SetEnabledDone(s) \/ SpnSaveDone(s)
    \/ DeleteDone(s) \/ CreateDone(s) \/ ListFailed(s) \/ ComputersLoaded(s)

User ==
    \/ \E c \in Computer : SelectRow(c)
    \/ \E c \in New : ClickCreate(c)
    \/ \E n \in Spn : AddSpn(n) \/ RemoveSpn(n)
    \/ UnselectRow \/ ClickSave \/ ClickSaveSpns \/ Cancel
    \/ OpenDelete \/ ConfirmDelete \/ OpenCreate

Next == User \/ Load \/ \E s \in Slot : Work(s) \/ Callback(s)

Spec == Init /\ [][Next]_vars

(* Every LDAP call returns (at worst with its time limit), and GLib's main *)
(* loop runs every callback that is due.                                   *)
FairSpec == Spec /\ \A s \in Slot : WF_vars(Work(s)) /\ WF_vars(Callback(s))
=============================================================================
