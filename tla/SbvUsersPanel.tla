--------------------------- MODULE SbvUsersPanel ---------------------------
(***************************************************************************)
(* The users panel (src/src/ui/sbv-users-panel.c), the workers it starts   *)
(* (src/src/backend/sbv-users-backend.c) and the directory they change,    *)
(* over one connection.  A worker holds the connection's mutex from its    *)
(* first LDAP call to its last (SbvConnection), so that workers of this    *)
(* program exclude each other; other administrators of the directory do    *)
(* not.  Completions reach the main loop in any order: a worker releases   *)
(* the mutex before it returns its result.                                 *)
(*                                                                         *)
(* Both dialogs, to delete a user and to create one                        *)
(* (src/src/ui/sbv-create-user-dialog.c), are modal: while one is open the *)
(* panel cannot be clicked, but its callbacks run.                         *)
(*                                                                         *)
(* An account is known by its sAMAccountName and addressed by its DN,      *)
(* CN=<cn>,<parent>.  Each account of the model has a parent of its own,   *)
(* so that an account and a cn together stand for a DN.                    *)
(* Of the attributes only those are kept that two operations share.        *)
(***************************************************************************)
EXTENDS Naturals

CONSTANTS
    User,        \* accounts (sAMAccountName)
    Cn,          \* the names an account may be given
    FirstCn,     \* the name it has at first
    Slot,        \* bound: list tasks in flight
    MaxClicks,   \* bound: clicks and edits of the operator
    MaxOthers,   \* bound: writes of other administrators
    NoCn,        \* the empty entry
    NoUser

ASSUME PanelAssumption ==
    /\ FirstCn \in Cn /\ NoCn \notin Cn
    /\ NoUser \notin User
    /\ MaxClicks \in Nat /\ MaxOthers \in Nat

VARIABLES
    dir,       \* the directory (external)
    rows,      \* the SbvUser of each list row
    sel,       \* selected_user: whose model, the model, and whether it is
               \*   the object of a row
    pending,   \* pending_select_dn
    form,      \* the detail form: cn entry and check buttons
    page,      \* outer_stack: loading, empty, split; detail_stack in `detail'
    detail,
    confirm,   \* the account the open delete dialog names
    dialog,    \* the create dialog: open, or waiting for its call
    task,      \* the save, enable, policy, delete and create tasks
    lists,     \* list tasks
    clicks, others,
    crashed    \* the program has used NULL or a freed dialog

ui   == <<rows, sel, pending, form, page, detail, confirm, dialog>>
vars == <<dir, ui, task, lists, clicks, others, crashed>>

CnText == Cn \cup {NoCn}
Uac == [disabled : BOOLEAN, noexp : BOOLEAN]
Entry == [here : BOOLEAN, cn : Cn, uac : Uac]
Model == [here : BOOLEAN, dn : Cn, cn : CnText, uac : Uac,
          enabled : BOOLEAN]
Job == {"save", "enable", "policy", "delete", "create"}

(* UAC_NORMAL_ACCOUNT *)
NormalAccount == [disabled |-> FALSE, noexp |-> FALSE]

NoModel == [here |-> FALSE, dn |-> FirstCn, cn |-> FirstCn,
            uac |-> NormalAccount, enabled |-> TRUE]
NoSel   == [user |-> NoUser, model |-> NoModel, row |-> FALSE]
NoDn    == [user |-> NoUser, dn |-> FirstCn]
Idle    == [st |-> "idle", user |-> NoUser, dn |-> FirstCn, cn |-> FirstCn,
            flip |-> FALSE, on |-> FALSE, read |-> FALSE,
            uac |-> NormalAccount, asked |-> NoUser]

TypeOK ==
    /\ dir \in [User -> Entry]
    /\ rows \in [User -> Model]
    /\ sel \in [user : User \cup {NoUser}, model : Model, row : BOOLEAN]
    /\ pending \in [user : User \cup {NoUser}, dn : Cn]
    /\ form \in [cn : CnText, enabled : BOOLEAN, noexp : BOOLEAN]
    /\ page \in {"loading", "empty", "split"}
    /\ detail \in BOOLEAN
    /\ confirm \in User \cup {NoUser}
    /\ dialog \in {"none", "open", "sent"}
    /\ task \in [Job -> [st : {"idle", "queued", "half", "ok", "error"},
                         user : User \cup {NoUser}, dn : Cn, cn : CnText,
                         flip : BOOLEAN, on : BOOLEAN, read : BOOLEAN,
                         uac : Uac, asked : User \cup {NoUser}]]
    /\ lists \in [Slot -> [st : {"idle", "queued", "ok", "error"},
                           found : [User -> Model]]]
    /\ clicks \in 0 .. MaxClicks /\ others \in 0 .. MaxOthers
    /\ crashed \in BOOLEAN

Nothing == [u \in User |-> NoModel]

(* The panel when its first load has begun; some accounts exist. *)
Init ==
    /\ \E H \in SUBSET User :
          dir = [u \in User |-> [here |-> u \in H, cn |-> FirstCn,
                                uac |-> NormalAccount]]
    /\ rows = Nothing
    /\ sel = NoSel
    /\ pending = NoDn
    /\ form = [cn |-> FirstCn, enabled |-> TRUE, noexp |-> FALSE]
    /\ page = "loading"
    /\ detail = FALSE
    /\ confirm = NoUser
    /\ dialog = "none"
    /\ task = [j \in Job |-> Idle]
    /\ \E s \in Slot :
          lists = [i \in Slot |-> [st |-> IF i = s THEN "queued" ELSE "idle",
                                   found |-> Nothing]]
    /\ clicks = 0 /\ others = 0
    /\ crashed = FALSE

-----------------------------------------------------------------------------
(* load_user_into_detail *)
ShowDetail(u, m) ==
    /\ sel' = [user |-> u, model |-> m, row |-> TRUE]
    /\ form' = [cn |-> m.cn, enabled |-> m.enabled, noexp |-> m.uac.noexp]
    /\ detail' = TRUE

(* sbv_users_panel_load *)
Load ==
    /\ page' = "loading"
    /\ \E s \in Slot : /\ lists[s].st = "idle"
                       /\ lists' = [lists EXCEPT ![s].st = "queued"]

(* A click in the panel: its split page shows and no dialog covers it. *)
Clickable ==
    ~crashed /\ page = "split" /\ confirm = NoUser /\ dialog = "none"

Click == Clickable /\ clicks < MaxClicks /\ clicks' = clicks + 1

(* on_row_selected: the row that is selected already does not count. *)
SelectRow(u) ==
    /\ Clickable /\ rows[u].here
    /\ ~(detail /\ sel.user = u)
    /\ ShowDetail(u, rows[u])
    /\ UNCHANGED <<dir, rows, pending, page, confirm, dialog, task, lists,
                   clicks, others, crashed>>

(* on_row_selected without a row: the selection stays behind the page that *)
(* asks for one.                                                           *)
UnselectRow ==
    /\ Clickable /\ detail
    /\ detail' = FALSE
    /\ UNCHANGED <<dir, rows, sel, pending, form, page, confirm, dialog, task,
                   lists, clicks, others, crashed>>

EditForm(f) ==
    /\ Click /\ detail /\ f # form
    /\ form' = f
    /\ UNCHANGED <<dir, rows, sel, pending, page, detail, confirm, dialog, task,
                   lists, others, crashed>>

Start(j, t) ==
    /\ task[j].st = "idle"
    /\ task' = [task EXCEPT ![j] = t]

ClickSave ==
    /\ Click /\ detail
    /\ task["enable"].st = "idle"
    /\ Start("save", [Idle EXCEPT !.st = "queued", !.user = sel.user,
                                  !.dn = sel.model.dn, !.cn = form.cn,
                                  !.flip = form.enabled # sel.model.enabled,
                                  !.on = form.enabled, !.asked = sel.user])
    /\ UNCHANGED <<dir, ui, lists, others, crashed>>

ClickSavePolicy ==
    /\ Click /\ detail
    /\ Start("policy", [Idle EXCEPT !.st = "queued", !.user = sel.user,
                                    !.dn = sel.model.dn, !.asked = sel.user,
                                    !.uac = [sel.model.uac EXCEPT
                                                !.noexp = form.noexp]])
    /\ UNCHANGED <<dir, ui, lists, others, crashed>>

ClickDelete ==
    /\ Click /\ detail
    /\ task["delete"].st = "idle"
    /\ confirm' = sel.user
    /\ UNCHANGED <<dir, rows, sel, pending, form, page, detail, dialog, task,
                   lists, others, crashed>>

(* The dialog checks the name it was opened for; what is deleted is the    *)
(* selection of this moment.                                               *)
ConfirmDelete ==
    /\ ~crashed /\ confirm # NoUser
    /\ confirm' = NoUser
    /\ IF sel.user = NoUser THEN UNCHANGED task
       ELSE Start("delete", [Idle EXCEPT !.st = "queued", !.user = sel.user,
                                         !.dn = sel.model.dn, !.asked = confirm])
    /\ UNCHANGED <<dir, rows, sel, pending, form, page, detail, dialog, lists,
                   clicks, others, crashed>>

CancelDelete ==
    /\ ~crashed /\ confirm # NoUser
    /\ confirm' = NoUser
    /\ UNCHANGED <<dir, rows, sel, pending, form, page, detail, dialog, task,
                   lists, clicks, others, crashed>>

OpenCreate ==
    /\ Click
    /\ dialog' = "open"
    /\ UNCHANGED <<dir, rows, sel, pending, form, page, detail, confirm, task,
                   lists, others, crashed>>

(* on_create_clicked, with the Create button insensitive meanwhile.  One   *)
(* create call is in flight at a time: with another one, from a dialog     *)
(* that is gone, only the use of the freed dialog is left to come.         *)
ClickCreate(u, n) ==
    /\ ~crashed /\ dialog = "open"
    /\ dialog' = "sent"
    /\ Start("create", [Idle EXCEPT !.st = "queued", !.user = u, !.dn = n,
                                    !.cn = n, !.asked = u])
    /\ UNCHANGED <<dir, rows, sel, pending, form, page, detail, confirm, lists,
                   clicks, others, crashed>>

CancelCreate ==
    /\ ~crashed /\ dialog # "none"
    /\ dialog' = "none"
    /\ UNCHANGED <<dir, rows, sel, pending, form, page, detail, confirm, task,
                   lists, clicks, others, crashed>>

-----------------------------------------------------------------------------
(* Workers.  A request is refused when its DN names no entry, and may be   *)
(* refused for other reasons; a refusal changes nothing.                   *)

MutexFree == \A j \in Job : task[j].st # "half"

At(j, st) == ~crashed /\ task[j].st = st /\ (st = "queued" => MutexFree)

Found(t) == dir[t.user].here /\ dir[t.user].cn = t.dn

Worked == UNCHANGED <<ui, lists, clicks, others, crashed>>

Refused(j) ==
    /\ task' = [task EXCEPT ![j].st = "error"]
    /\ UNCHANGED dir

(* update_attrs_thread: rename first, unless the name is empty, then       *)
(* modify the entry under the new DN, which only the thread knows.         *)
SaveRename ==
    LET t == task["save"] IN
    /\ At("save", "queued")
    /\ \/ /\ t.cn = NoCn
          /\ task' = [task EXCEPT !["save"].st = "half"]
          /\ UNCHANGED dir
       \/ /\ t.cn # NoCn /\ Found(t)
          /\ dir' = [dir EXCEPT ![t.user].cn = t.cn]
          /\ task' = [task EXCEPT !["save"].st = "half", !["save"].dn = t.cn]
       \/ t.cn # NoCn /\ Refused("save")
    /\ Worked

SaveModify ==
    /\ At("save", "half")
    /\ \/ /\ Found(task["save"])
          /\ task' = [task EXCEPT !["save"].st = "ok"]
          /\ UNCHANGED dir
       \/ Refused("save")
    /\ Worked

(* set_enabled_thread: read userAccountControl, change one bit, write it.  *)
(* A search without an entry, or with one that does not show the value, is *)
(* a success: what is changed then are the flags of a normal account.      *)
EnableRead ==
    LET t == task["enable"]
        Holds(read, uac) ==
            task' = [task EXCEPT !["enable"] = [t EXCEPT !.st = "half",
                                                !.read = read, !.uac = uac]]
    IN
    /\ At("enable", "queued")
    /\ \/ Found(t) /\ Holds(TRUE, dir[t.user].uac) /\ UNCHANGED dir
       \/ Holds(FALSE, NormalAccount) /\ UNCHANGED dir
       \/ Refused("enable")
    /\ Worked

EnableWrite ==
    LET t == task["enable"] IN
    /\ At("enable", "half")
    /\ \/ /\ Found(t)
          /\ dir' = [dir EXCEPT ![t.user].uac = [t.uac EXCEPT !.disabled = ~t.on]]
          /\ task' = [task EXCEPT !["enable"].st = "ok"]
       \/ Refused("enable")
    /\ Worked

(* Faulty: the policy worker does not take the mutex. *)
PolicyWriteUnlocked ==
    LET t == task["policy"] IN
    /\ ~crashed /\ t.st = "queued"
    /\ \/ /\ Found(t)
          /\ dir' = [dir EXCEPT ![t.user].uac = t.uac]
          /\ task' = [task EXCEPT !["policy"].st = "ok"]
       \/ Refused("policy")
    /\ Worked

(* set_pw_flags_thread: the flags of the cached model, one bit changed. *)
PolicyWrite ==
    LET t == task["policy"] IN
    /\ At("policy", "queued")
    /\ \/ /\ Found(t)
          /\ dir' = [dir EXCEPT ![t.user].uac = t.uac]
          /\ task' = [task EXCEPT !["policy"].st = "ok"]
       \/ Refused("policy")
    /\ Worked

DeleteEntry ==
    LET t == task["delete"] IN
    /\ At("delete", "queued")
    /\ \/ /\ Found(t)
          /\ dir' = [dir EXCEPT ![t.user].here = FALSE]
          /\ task' = [task EXCEPT !["delete"].st = "ok"]
       \/ Refused("delete")
    /\ Worked

(* create_user_thread: a new account is disabled. *)
CreateEntry ==
    LET t == task["create"] IN
    /\ At("create", "queued")
    /\ \/ /\ ~dir[t.user].here
          /\ dir' = [dir EXCEPT ![t.user] =
                        [here |-> TRUE, cn |-> t.dn,
                         uac |-> [NormalAccount EXCEPT !.disabled = TRUE]]]
          /\ task' = [task EXCEPT !["create"].st = "ok"]
       \/ Refused("create")
    /\ Worked

(* Faulty: list_thread does not set the enabled flag of its models. *)
ModelOfUnset(e) ==
    IF e.here THEN [here |-> TRUE, dn |-> e.cn, cn |-> e.cn, uac |-> e.uac,
                    enabled |-> NoUser]
    ELSE NoModel

(* list_thread: the models of the accounts that exist. *)
ModelOf(e) ==
    IF e.here THEN [here |-> TRUE, dn |-> e.cn, cn |-> e.cn, uac |-> e.uac,
                    enabled |-> ~e.uac.disabled]
    ELSE NoModel

ListSearch(s) ==
    /\ ~crashed /\ lists[s].st = "queued" /\ MutexFree
    /\ \/ lists' = [lists EXCEPT ![s] =
                       [st |-> "ok", found |-> [u \in User |-> ModelOf(dir[u])]]]
       \/ lists' = [lists EXCEPT ![s].st = "error"]
    /\ UNCHANGED <<dir, ui, task, clicks, others, crashed>>

(* Another administrator changes an account's flags or deletes it. *)
OtherWrites(u) ==
    /\ others < MaxOthers /\ others' = others + 1
    /\ dir[u].here
    /\ \/ \E f \in Uac : dir' = [dir EXCEPT ![u].uac = f]
       \/ dir' = [dir EXCEPT ![u].here = FALSE]
    /\ UNCHANGED <<ui, task, lists, clicks, crashed>>

-----------------------------------------------------------------------------
(* Completions, on the main loop. *)

Done(j, st) == ~crashed /\ task[j].st = st

(* Faulty: the panel selects a copy of the row's model. *)
SetModelCopy(m) == sel' = [sel EXCEPT !.model = m] /\ rows' = rows

(* The selected model and the row's are one object, unless its row is gone. *)
SetModel(m) ==
    /\ sel' = [sel EXCEPT !.model = m]
    /\ rows' = IF sel.row THEN [rows EXCEPT ![sel.user] = m] ELSE rows

(* Faulty: on_update_attrs_done forgets the button on the error path. *)
SaveFailedInsensitive ==
    /\ Done("save", "error")
    /\ UNCHANGED vars

SaveFailed ==
    /\ Done("save", "error")
    /\ task' = [task EXCEPT !["save"] = Idle]
    /\ UNCHANGED <<dir, ui, lists, clicks, others, crashed>>

(* on_update_attrs_done: the new values go to the model selected by now,   *)
(* and so does the change of the enabled flag, which reads its DN (a NULL  *)
(* model crashes).                                                         *)
SaveSucceeded ==
    LET t == task["save"] IN
    /\ Done("save", "ok")
    /\ IF sel.user = NoUser THEN UNCHANGED <<sel, rows>>
       ELSE SetModel([sel.model EXCEPT !.cn = form.cn])
    /\ IF ~t.flip
       THEN /\ task' = [task EXCEPT !["save"] = Idle]
            /\ Load
            /\ UNCHANGED crashed
       ELSE /\ task' = [task EXCEPT !["save"] = Idle,
                           !["enable"] = [t EXCEPT !.st = "queued",
                                                   !.user = sel.user,
                                                   !.dn = sel.model.dn]]
            /\ crashed' = (sel.user = NoUser)
            /\ UNCHANGED <<page, lists>>
    /\ UNCHANGED <<dir, pending, form, detail, confirm, dialog, clicks, others>>

(* on_set_enabled_after_save *)
EnableFailed ==
    /\ Done("enable", "error")
    /\ task' = [task EXCEPT !["enable"] = Idle]
    /\ UNCHANGED <<dir, ui, lists, clicks, others, crashed>>

EnableSucceeded ==
    /\ Done("enable", "ok")
    /\ task' = [task EXCEPT !["enable"] = Idle]
    /\ IF sel.user = NoUser THEN UNCHANGED <<sel, rows>>
       ELSE SetModel([sel.model EXCEPT !.enabled = task["enable"].on])
    /\ Load
    /\ UNCHANGED <<dir, pending, form, detail, confirm, dialog, clicks, others,
                   crashed>>

(* on_save_policy_done, on_delete_done: the button again, and a reload. *)
PolicyDone ==
    /\ task["policy"].st \in {"ok", "error"} /\ ~crashed
    /\ task' = [task EXCEPT !["policy"] = Idle]
    /\ IF task["policy"].st = "ok" THEN Load ELSE UNCHANGED <<page, lists>>
    /\ UNCHANGED <<dir, rows, sel, pending, form, detail, confirm, dialog, clicks,
                   others, crashed>>

DeleteDone ==
    /\ task["delete"].st \in {"ok", "error"} /\ ~crashed
    /\ task' = [task EXCEPT !["delete"] = Idle]
    /\ IF task["delete"].st = "ok" THEN Load /\ sel' = NoSel
       ELSE UNCHANGED <<page, lists, sel>>
    /\ UNCHANGED <<dir, rows, pending, form, detail, confirm, dialog, clicks,
                   others, crashed>>

(* on_create_done: it uses the dialog that its Cancel button may have      *)
(* destroyed.  The DN of the new user (on_user_created) is selected by the *)
(* next list that comes in.                                                *)
CreateDone ==
    LET t == task["create"] IN
    /\ t.st \in {"ok", "error"} /\ ~crashed
    /\ IF dialog # "sent"
       THEN crashed' = TRUE /\ UNCHANGED <<task, pending, page, lists, dialog>>
       ELSE /\ task' = [task EXCEPT !["create"] = Idle]
            /\ IF t.st = "ok"
               THEN /\ pending' = [user |-> t.user, dn |-> t.dn]
                    /\ Load
                    /\ dialog' = "none"
               ELSE dialog' = "open" /\ UNCHANGED <<pending, page, lists>>
            /\ UNCHANGED crashed
    /\ UNCHANGED <<dir, rows, sel, form, detail, confirm, clicks, others>>

(* Of the accounts found, the one to select: the new one, by its DN, or    *)
(* the one that was selected, by its name.                                 *)
Target(found) ==
    IF pending.user = NoUser THEN sel.user
    ELSE IF found[pending.user].dn = pending.dn THEN pending.user
    ELSE NoUser

(* Faulty: when the selected account has left the list, another one is     *)
(* selected.                                                               *)
ListDoneSelectsOther(s) ==
    /\ ~crashed /\ lists[s].st = "ok"
    /\ lists' = [lists EXCEPT ![s].st = "idle", ![s].found = Nothing]
    /\ rows' = lists[s].found
    /\ page' = IF rows' = Nothing THEN "empty" ELSE "split"
    /\ IF Target(rows') # NoUser /\ rows'[Target(rows')].here
       THEN ShowDetail(Target(rows'), rows'[Target(rows')])
       ELSE \/ \E u \in User : rows'[u].here /\ ShowDetail(u, rows'[u])
            \/ /\ sel' = [sel EXCEPT !.row = FALSE]
               /\ detail' = FALSE /\ UNCHANGED form
    /\ pending' = NoDn
    /\ UNCHANGED <<dir, confirm, dialog, task, clicks, others, crashed>>

(* on_users_loaded: new rows; the account to select is selected if it is   *)
(* there, otherwise no detail shows, and the selected model has no row.    *)
ListDone(s) ==
    /\ ~crashed /\ lists[s].st = "ok"
    /\ lists' = [lists EXCEPT ![s].st = "idle", ![s].found = Nothing]
    /\ rows' = lists[s].found
    /\ page' = IF rows' = Nothing THEN "empty" ELSE "split"
    /\ LET u == Target(lists[s].found) IN
       IF u # NoUser /\ lists[s].found[u].here
       THEN ShowDetail(u, lists[s].found[u])
       ELSE /\ sel' = [sel EXCEPT !.row = FALSE]
            /\ detail' = FALSE /\ UNCHANGED form
    /\ pending' = NoDn
    /\ UNCHANGED <<dir, confirm, dialog, task, clicks, others, crashed>>

ListFailed(s) ==
    /\ ~crashed /\ lists[s].st = "error"
    /\ lists' = [lists EXCEPT ![s].st = "idle"]
    /\ page' = "empty"
    /\ UNCHANGED <<dir, rows, sel, pending, form, detail, confirm, dialog, task,
                   clicks, others, crashed>>

-----------------------------------------------------------------------------
Operator ==
    \/ \E u \in User : SelectRow(u)
    \/ UnselectRow
    \/ \E f \in [cn : CnText, enabled : BOOLEAN, noexp : BOOLEAN] : EditForm(f)
    \/ ClickSave \/ ClickSavePolicy
    \/ ClickDelete \/ ConfirmDelete \/ CancelDelete
    \/ OpenCreate \/ CancelCreate
    \/ \E u \in User, n \in Cn : ClickCreate(u, n)

SaveStep   == SaveRename \/ SaveModify \/ SaveFailed \/ SaveSucceeded
EnableStep == EnableRead \/ EnableWrite \/ EnableFailed \/ EnableSucceeded
PolicyStep == PolicyWrite \/ PolicyDone
DeleteStep == DeleteEntry \/ DeleteDone
CreateStep == CreateEntry \/ CreateDone
ListStep(s) == ListSearch(s) \/ ListDone(s) \/ ListFailed(s)

Next ==
    \/ Operator
    \/ SaveStep \/ EnableStep \/ PolicyStep \/ DeleteStep \/ CreateStep
    \/ \E s \in Slot : ListStep(s)
    \/ \E u \in User : OtherWrites(u)

Spec == Init /\ [][Next]_vars

(* The threads run and the main loop dispatches their completions; the     *)
(* operator and other administrators may do nothing.                       *)
FairSpec ==
    /\ Spec
    /\ WF_vars(SaveStep) /\ WF_vars(EnableStep)
    /\ WF_vars(PolicyStep) /\ WF_vars(DeleteStep) /\ WF_vars(CreateStep)
    /\ \A s \in Slot : WF_vars(ListStep(s))
=============================================================================
