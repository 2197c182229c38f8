------------------------- MODULE SbvUsersPanelProofs -------------------------
(* Proofs about SbvUsersPanel, for any set of accounts and names, any      *)
(* number of list tasks in flight, and any number of clicks and of writes  *)
(* of other administrators.                                                *)
EXTENDS SbvUsersPanelProps, TLAPS

Tasks == [st : {"idle", "queued", "half", "ok", "error"},
          user : User \cup {NoUser}, dn : Cn, cn : CnText,
          flip : BOOLEAN, on : BOOLEAN, read : BOOLEAN, uac : Uac,
          asked : User \cup {NoUser}]
Selections == [user : User \cup {NoUser}, model : Model, row : BOOLEAN]
Dns == [user : User \cup {NoUser}, dn : Cn]
Searches == [st : {"idle", "queued", "ok", "error"}, found : [User -> Model]]

(* A task is about an account; only the enable task that would have had to *)
(* read the DN of no model is not, and the program has crashed there.      *)
TasksHaveUser ==
    ~crashed => \A j \in Job : task[j].st # "idle" => task[j].user \in User

(* The detail that can be clicked is an account's. *)
DetailHasUser == page = "split" /\ detail => sel.user # NoUser

(* The row of the selected model, if there is one; the detail is a row's.  *)
RowIsSelected ==
    /\ sel.row => /\ sel.user \in User /\ sel.model.here
                  /\ rows[sel.user] = sel.model
    /\ detail /\ sel.user # NoUser => sel.row

(* The new user waits for a list while the panel cannot be clicked, and no *)
(* delete dialog is open: one dialog is open at a time.                    *)
PendingIsAlone == pending.user # NoUser => page # "split" /\ confirm = NoUser
OneDialog == dialog # "none" => confirm = NoUser

(* While the delete dialog is open, no other account can become selected:  *)
(* only the selection can go, with an account that was deleted meanwhile.  *)
DialogIsOfSelected == confirm # NoUser => sel.user \in {confirm, NoUser}

(* The mutex: at most one worker is between two requests. *)
OneAtWork ==
    \A i, j \in Job : task[i].st = "half" /\ task[j].st = "half" => i = j

(* What the enable task has read is what the directory holds, unless       *)
(* another administrator has written.                                      *)
ReadIsCurrent ==
    LET t == task["enable"] IN
    others = 0 /\ t.st = "half" /\ t.read /\ t.user \in User => dir[t.user].uac = t.uac

IInv ==
    /\ TypeOK
    /\ TasksHaveUser /\ DetailHasUser
    /\ DialogIsOfSelected /\ DeleteAsConfirmed
    /\ RowIsSelected /\ PendingIsAlone /\ OneDialog
    /\ OneAtWork /\ ReadIsCurrent

(* No one else changes the directory. *)
Alone == MaxOthers = 0

-----------------------------------------------------------------------------
LEMMA ModelTypes ==
    /\ NormalAccount \in Uac /\ NoModel \in Model /\ NoSel.user = NoUser
    /\ NoSel \in Selections /\ ~NoSel.row
    /\ NoDn \in Dns /\ NoDn.user = NoUser
    /\ Nothing \in [User -> Model]
BY PanelAssumption DEF NormalAccount, Uac, NoModel, Model, CnText, NoSel, NoDn,
   Selections, Dns, Nothing

LEMMA IdleType == Idle \in Tasks /\ Idle.st = "idle"
BY PanelAssumption DEF Idle, Tasks, CnText, NormalAccount, Uac

LEMMA ModelOfType == ASSUME NEW e \in Entry PROVE ModelOf(e) \in Model
BY ModelTypes DEF ModelOf, Entry, Model, CnText, Uac

LEMMA InitKeeps == ASSUME Init PROVE IInv
<1>1. dir \in [User -> Entry]
  <2>1. \A h \in BOOLEAN :
          [here |-> h, cn |-> FirstCn, uac |-> NormalAccount] \in Entry
    BY ModelTypes, PanelAssumption DEF Entry
  <2>2. PICK H \in SUBSET User :
          dir = [u \in User |-> [here |-> u \in H, cn |-> FirstCn,
                                uac |-> NormalAccount]]
    BY DEF Init
  <2>3. \A u \in User : (u \in H) \in BOOLEAN
    OBVIOUS
  <2>4. \A u \in User :
          [here |-> u \in H, cn |-> FirstCn, uac |-> NormalAccount] \in Entry
    BY <2>1, <2>3
  <2> QED BY <2>2, <2>4
<1>2. lists \in [Slot -> Searches]
  BY ModelTypes DEF Init, Searches
<1>3. task \in [Job -> Tasks]
  BY IdleType DEF Init
<1>4. TypeOK
  <2>1. /\ rows \in [User -> Model]
        /\ sel \in Selections
        /\ confirm \in User \cup {NoUser}
        /\ pending \in Dns /\ dialog \in {"none", "open", "sent"}
    BY ModelTypes DEF Init
  <2>2. /\ form \in [cn : CnText, enabled : BOOLEAN, noexp : BOOLEAN]
        /\ page \in {"loading", "empty", "split"}
        /\ detail \in BOOLEAN /\ crashed \in BOOLEAN
    BY PanelAssumption DEF Init, CnText
  <2>3. clicks \in 0 .. MaxClicks /\ others \in 0 .. MaxOthers
    BY PanelAssumption DEF Init
  <2> QED BY <1>1, <1>2, <1>3, <2>1, <2>2, <2>3 DEF TypeOK, Tasks, Searches,
          Selections, Dns
<1>5. \A j \in Job : task[j].st = "idle"
  BY IdleType DEF Init
<1> QED BY <1>4, <1>5, ModelTypes DEF Init, IInv, TasksHaveUser, DetailHasUser,
        DialogIsOfSelected, DeleteAsConfirmed, RowIsSelected, PendingIsAlone, OneDialog,
        OneAtWork, ReadIsCurrent, Job

-----------------------------------------------------------------------------
(* The tasks. *)

TaskInv == /\ task \in [Job -> Tasks]
           /\ TasksHaveUser /\ DeleteAsConfirmed /\ OneAtWork

(* One task takes a step: it is still typed and about the same accounts,   *)
(* and it goes to work only when no other task is at work.                 *)
LEMMA StepKeeps ==
    ASSUME TaskInv, NEW j \in Job, NEW t \in Tasks,
           task' = [task EXCEPT ![j] = t],
           t.st # "idle" => t.user = task[j].user /\ t.asked = task[j].asked
                            /\ task[j].st # "idle",
           t.st = "half" => \A i \in Job \ {j} : task[i].st # "half",
           UNCHANGED crashed
    PROVE  TaskInv'
<1>1. task' \in [Job -> Tasks]
  BY DEF TaskInv
<1>2. \A i \in Job : task'[i] = IF i = j THEN t ELSE task[i]
  BY DEF TaskInv
<1> QED BY <1>1, <1>2 DEF TaskInv, TasksHaveUser, DeleteAsConfirmed, OneAtWork, Job

(* A task is started for the selected account; a deletion, for the account *)
(* that the dialog names.                                                  *)
LEMMA StartKeeps ==
    ASSUME TaskInv, NEW j \in Job, NEW t \in Tasks, Start(j, t),
           t.st = "queued", t.user \in User, j = "delete" => t.user = t.asked,
           UNCHANGED crashed
    PROVE  TaskInv'
<1>1. task' \in [Job -> Tasks]
  BY DEF TaskInv, Start
<1>2. \A i \in Job : task'[i] = IF i = j THEN t ELSE task[i]
  BY DEF TaskInv, Start
<1> QED BY <1>1, <1>2 DEF TaskInv, TasksHaveUser, DeleteAsConfirmed, OneAtWork, Job

LEMMA TaskInvIs == TypeOK /\ TasksHaveUser /\ DeleteAsConfirmed /\ OneAtWork
                     => TaskInv
BY DEF TaskInv, TypeOK, Tasks

LEMMA LoadType ==
    ASSUME TypeOK, Load
    PROVE  page' = "loading" /\ lists' \in [Slot -> Searches]
BY DEF Load, TypeOK, Searches

-----------------------------------------------------------------------------
(* The operator. *)

LEMMA SelectKeeps ==
    ASSUME IInv, NEW u \in User, SelectRow(u) PROVE IInv'
<1>1. /\ sel' = [user |-> u, model |-> rows[u], row |-> TRUE] /\ rows[u].here
      /\ form' = [cn |-> rows[u].cn, enabled |-> rows[u].enabled,
                  noexp |-> rows[u].uac.noexp]
      /\ detail' = TRUE /\ confirm = NoUser
      /\ UNCHANGED <<dir, rows, pending, page, confirm, dialog, task, lists,
                     clicks, others, crashed>>
  BY DEF SelectRow, ShowDetail, Clickable
<1>2. rows[u] \in Model
  BY DEF IInv, TypeOK
<1>3. TypeOK'
  BY <1>1, <1>2 DEF IInv, TypeOK, Model, Uac
<1> QED BY <1>1, <1>3, PanelAssumption DEF IInv, TasksHaveUser, DetailHasUser,
        DialogIsOfSelected, DeleteAsConfirmed, RowIsSelected, PendingIsAlone, OneDialog, OneAtWork,
        ReadIsCurrent

LEMMA UnselectKeeps == ASSUME IInv, UnselectRow PROVE IInv'
<1>1. /\ detail' = FALSE
      /\ UNCHANGED <<dir, rows, sel, pending, form, page, confirm, dialog, task,
                     lists, clicks, others, crashed>>
  BY DEF UnselectRow
<1>2. TypeOK
  BY DEF IInv
<1>3. TypeOK'
  <2>1. detail' \in BOOLEAN
    BY <1>1
  <2> QED BY <1>1, <1>2, <2>1, ZenonT(60) DEF TypeOK
<1>4. TasksHaveUser' /\ DeleteAsConfirmed' /\ OneAtWork' /\ ReadIsCurrent'
  BY <1>1 DEF IInv, TasksHaveUser, DeleteAsConfirmed, OneAtWork, ReadIsCurrent
<1>5. /\ DetailHasUser' /\ RowIsSelected' /\ DialogIsOfSelected'
      /\ PendingIsAlone' /\ OneDialog'
  BY <1>1 DEF IInv, DetailHasUser, RowIsSelected, DialogIsOfSelected,
     PendingIsAlone, OneDialog
<1> QED BY <1>3, <1>4, <1>5 DEF IInv

LEMMA ClickKeeps ==
    ASSUME IInv, Click
    PROVE  /\ clicks' \in 0 .. MaxClicks /\ page = "split"
           /\ confirm = NoUser /\ dialog = "none"
BY PanelAssumption DEF Click, Clickable, IInv, TypeOK

LEMMA EditKeeps ==
    ASSUME IInv, NEW f \in [cn : CnText, enabled : BOOLEAN, noexp : BOOLEAN],
           EditForm(f)
    PROVE  IInv'
<1>1. TypeOK'
  BY ClickKeeps DEF EditForm, IInv, TypeOK
<1> QED BY <1>1 DEF EditForm, IInv, TasksHaveUser, DetailHasUser,
        DialogIsOfSelected, DeleteAsConfirmed, RowIsSelected, PendingIsAlone,
        OneDialog, OneAtWork, ReadIsCurrent

(* A start leaves the panel alone; it may end or go on with a dialog. *)
LEMMA StartedKeeps ==
    ASSUME IInv, TaskInv', clicks' \in 0 .. MaxClicks,
           confirm' \in {confirm, NoUser},
           dialog' \in {"none", "open", "sent"},
           dialog' # "none" => confirm' = NoUser,
           task'["enable"] = task["enable"],
           UNCHANGED <<dir, rows, sel, pending, form, page, detail, lists, others,
                       crashed>>
    PROVE  IInv'
<1>1. TypeOK'
  BY DEF IInv, TypeOK, TaskInv, Tasks
<1> QED BY <1>1 DEF IInv, TaskInv, DetailHasUser, DialogIsOfSelected,
        RowIsSelected, PendingIsAlone, OneDialog, ReadIsCurrent

LEMMA ClickSaveKeeps == ASSUME IInv, ClickSave PROVE IInv'
<1> DEFINE t == [Idle EXCEPT !.st = "queued", !.user = sel.user,
                             !.dn = sel.model.dn, !.cn = form.cn,
                             !.flip = form.enabled # sel.model.enabled,
                             !.on = form.enabled, !.asked = sel.user]
<1>1. sel.user \in User
  BY ClickKeeps DEF ClickSave, IInv, TypeOK, DetailHasUser
<1>2. t \in Tasks /\ t.st = "queued" /\ t.user \in User
  <2>1. /\ form.cn \in CnText /\ sel.model.dn \in Cn
        /\ form.enabled \in BOOLEAN
    BY DEF IInv, TypeOK, Model
  <2> QED BY <1>1, <2>1, IdleType DEF Tasks
<1>3. TaskInv
  BY TaskInvIs DEF IInv
<1>4. TaskInv'
  BY <1>2, <1>3, StartKeeps DEF ClickSave, Job
<1>5. task'["enable"] = task["enable"]
  BY <1>3 DEF ClickSave, Start, TaskInv, Job
<1> QED BY <1>4, <1>5, ClickKeeps, StartedKeeps DEF ClickSave, ui

LEMMA ClickSavePolicyKeeps == ASSUME IInv, ClickSavePolicy PROVE IInv'
<1> DEFINE t == [Idle EXCEPT !.st = "queued", !.user = sel.user,
                             !.dn = sel.model.dn, !.asked = sel.user,
                             !.uac = [sel.model.uac EXCEPT !.noexp = form.noexp]]
<1>1. sel.user \in User
  BY ClickKeeps DEF ClickSavePolicy, IInv, TypeOK, DetailHasUser
<1>2. t \in Tasks /\ t.st = "queued" /\ t.user \in User
  <2>1. sel.model.dn \in Cn /\ [sel.model.uac EXCEPT !.noexp = form.noexp] \in Uac
    BY DEF IInv, TypeOK, Model, Uac
  <2> QED BY <1>1, <2>1, IdleType DEF Idle, Tasks
<1>3. TaskInv
  BY TaskInvIs DEF IInv
<1>4. TaskInv'
  BY <1>2, <1>3, StartKeeps DEF ClickSavePolicy, Job
<1>5. task'["enable"] = task["enable"]
  BY <1>3 DEF ClickSavePolicy, Start, TaskInv, Job
<1> QED BY <1>4, <1>5, ClickKeeps, StartedKeeps DEF ClickSavePolicy, ui

LEMMA ClickDeleteKeeps == ASSUME IInv, ClickDelete PROVE IInv'
<1>1. sel.user \in User /\ clicks' \in 0 .. MaxClicks
  BY ClickKeeps DEF ClickDelete, IInv, TypeOK, DetailHasUser
<1>2. TypeOK'
  BY <1>1 DEF ClickDelete, IInv, TypeOK
<1> QED BY <1>2, ClickKeeps DEF ClickDelete, IInv, TasksHaveUser, DetailHasUser,
        DialogIsOfSelected, DeleteAsConfirmed, RowIsSelected, PendingIsAlone, OneDialog, OneAtWork,
        ReadIsCurrent

(* The selection of this moment is the account that was asked about. *)
LEMMA ConfirmDeleteKeeps == ASSUME IInv, ConfirmDelete PROVE IInv'
<1>1. TaskInv
  BY TaskInvIs DEF IInv
<1>2. CASE sel.user = NoUser
  <2>1. TaskInv'
    BY <1>1, <1>2 DEF ConfirmDelete, TaskInv, TasksHaveUser, DeleteAsConfirmed,
       OneAtWork
  <2> QED BY <1>2, <2>1, StartedKeeps DEF ConfirmDelete, IInv, TypeOK, OneDialog
<1>3. CASE sel.user # NoUser
  <2> DEFINE t == [Idle EXCEPT !.st = "queued", !.user = sel.user,
                               !.dn = sel.model.dn, !.asked = confirm]
  <2>1. sel.user \in User /\ sel.user = confirm
    BY <1>3 DEF ConfirmDelete, IInv, TypeOK, DialogIsOfSelected
  <2>2. t \in Tasks /\ t.st = "queued" /\ t.user \in User /\ t.user = t.asked
    BY <2>1, IdleType DEF IInv, TypeOK, Model, Idle, Tasks
  <2>3. Start("delete", t)
    BY <1>3 DEF ConfirmDelete
  <2>4. TaskInv'
    BY <1>1, <2>2, <2>3, StartKeeps DEF ConfirmDelete, Job
  <2>5. task'["enable"] = task["enable"]
    BY <1>1, <2>3 DEF Start, TaskInv, Job
  <2> QED BY <2>4, <2>5, StartedKeeps DEF ConfirmDelete, IInv, TypeOK, OneDialog
<1> QED BY <1>2, <1>3

(* The create dialog. *)
LEMMA ClickCreateKeeps ==
    ASSUME IInv, NEW u \in User, NEW n \in Cn, ClickCreate(u, n) PROVE IInv'
<1> DEFINE t == [Idle EXCEPT !.st = "queued", !.user = u, !.dn = n,
                             !.cn = n, !.asked = u]
<1>1. t \in Tasks /\ t.st = "queued" /\ t.user \in User
  BY IdleType DEF Idle, Tasks, CnText
<1>2. TaskInv
  BY TaskInvIs DEF IInv
<1>3. TaskInv'
  BY <1>1, <1>2, StartKeeps DEF ClickCreate, Job
<1>4. task'["enable"] = task["enable"]
  BY <1>2 DEF ClickCreate, Start, TaskInv, Job
<1> QED BY <1>3, <1>4, StartedKeeps DEF ClickCreate, IInv, TypeOK, OneDialog

(* Nothing but a dialog is opened or closed. *)
LEMMA DialogKeeps ==
    ASSUME IInv, CancelDelete \/ OpenCreate \/ CancelCreate PROVE IInv'
<1>1. TaskInv'
  BY TaskInvIs DEF CancelDelete, OpenCreate, CancelCreate, IInv, TaskInv,
     TasksHaveUser, DeleteAsConfirmed, OneAtWork
<1>2. /\ clicks' \in 0 .. MaxClicks /\ confirm' \in {confirm, NoUser}
      /\ dialog' \in {"none", "open", "sent"}
      /\ dialog' # "none" => confirm' = NoUser
  BY ClickKeeps DEF CancelDelete, OpenCreate, CancelCreate, IInv, TypeOK, OneDialog
<1>3. UNCHANGED <<dir, rows, sel, pending, form, page, detail, task, lists, others,
                  crashed>>
  BY DEF CancelDelete, OpenCreate, CancelCreate
<1> QED BY <1>1, <1>2, <1>3, StartedKeeps

-----------------------------------------------------------------------------
(* The workers. *)

LEMMA WorkKeeps ==
    ASSUME IInv, NEW j \in Job, NEW t \in Tasks,
           task' = [task EXCEPT ![j] = t],
           task[j].st # "idle", t.user = task[j].user, t.asked = task[j].asked,
           t.st = "half" => \A i \in Job \ {j} : task[i].st # "half",
           dir' \in [User -> Entry], ReadIsCurrent',
           UNCHANGED <<ui, lists, clicks, others, crashed>>
    PROVE  IInv'
<1>1. TaskInv
  BY TaskInvIs DEF IInv
<1>2. TaskInv'
  BY <1>1, StepKeeps
<1>3. TypeOK'
  BY <1>2 DEF ui, IInv, TypeOK, TaskInv, Tasks
<1> QED BY <1>2, <1>3 DEF ui, IInv, TaskInv, DetailHasUser, DialogIsOfSelected,
        RowIsSelected, PendingIsAlone, OneDialog

(* A request changes one field of one entry. *)
LEMMA EntryTypes ==
    ASSUME TypeOK, NEW u \in User
    PROVE  /\ \A f \in Uac : [dir EXCEPT ![u].uac = f] \in [User -> Entry]
           /\ \A n \in Cn : [dir EXCEPT ![u].cn = n] \in [User -> Entry]
           /\ [dir EXCEPT ![u].here = FALSE] \in [User -> Entry]
<1>1. dir \in [User -> Entry] /\ dir[u] \in Entry
  BY DEF TypeOK
<1>2. ASSUME NEW e \in Entry PROVE [dir EXCEPT ![u] = e] \in [User -> Entry]
  BY <1>1, <1>2
<1>3. /\ \A f \in Uac : [dir[u] EXCEPT !.uac = f] \in Entry
      /\ \A n \in Cn : [dir[u] EXCEPT !.cn = n] \in Entry
      /\ [dir[u] EXCEPT !.here = FALSE] \in Entry
  BY <1>1 DEF Entry
<1> QED BY <1>2, <1>3

LEMMA TaskIs ==
    ASSUME IInv, NEW j \in Job
    PROVE  task[j] \in Tasks /\ task \in [Job -> Tasks]
           /\ (~crashed /\ task[j].st # "idle" => task[j].user \in User)
BY DEF IInv, TypeOK, Tasks, TasksHaveUser

(* A worker that begins: no other one is at work, and nothing that was     *)
(* read is held.                                                           *)
LEMMA BeginsAlone ==
    ASSUME IInv, NEW j \in Job, At(j, "queued")
    PROVE  \A i \in Job : task[i].st # "half"
BY DEF At, MutexFree

LEMMA RefusedKeeps ==
    ASSUME IInv, NEW j \in Job, task[j].st \in {"queued", "half"}, Refused(j), Worked
    PROVE  IInv'
<1> DEFINE t == [task[j] EXCEPT !.st = "error"]
<1>1. t \in Tasks /\ t.st = "error" /\ t.user = task[j].user /\ t.asked = task[j].asked
  BY TaskIs DEF Tasks
<1>2. task' = [task EXCEPT ![j] = t]
  BY DEF Refused
<1>3. ReadIsCurrent'
  BY <1>1, <1>2, TaskIs DEF Refused, Worked, IInv, ReadIsCurrent
<1>4. dir' \in [User -> Entry]
  BY DEF Refused, IInv, TypeOK
<1> QED BY <1>1, <1>2, <1>3, <1>4, WorkKeeps DEF Worked

LEMMA SaveRenameKeeps == ASSUME IInv, SaveRename PROVE IInv'
<1> DEFINE s == task["save"]
<1>1. /\ s \in Tasks /\ s.st = "queued" /\ s.user \in User
      /\ \A i \in Job : task[i].st # "half"
  BY TaskIs, BeginsAlone DEF SaveRename, At, Job
<1>2. CASE s.cn # NoCn /\ Refused("save")
  BY <1>1, <1>2, RefusedKeeps DEF SaveRename, Job
<1>3. ASSUME NEW n \in Cn,
             task' = [task EXCEPT !["save"] = [s EXCEPT !.st = "half", !.dn = n]],
             dir' \in [User -> Entry]
      PROVE  IInv'
  <2> DEFINE t == [s EXCEPT !.st = "half", !.dn = n]
  <2>1. t \in Tasks /\ t.user = s.user /\ t.asked = s.asked
    BY <1>1 DEF Tasks
  <2>2. ReadIsCurrent'
    BY <1>1, <1>3, TaskIs DEF ReadIsCurrent, Job
  <2> QED BY <1>1, <1>3, <2>1, <2>2, WorkKeeps DEF SaveRename, Worked, Job
<1>4. CASE s.cn = NoCn /\ task' = [task EXCEPT !["save"].st = "half"]
           /\ UNCHANGED dir
  <2>1. [s EXCEPT !.st = "half"] = [s EXCEPT !.st = "half", !.dn = s.dn]
        /\ s.dn \in Cn
    BY <1>1 DEF Tasks
  <2> QED BY <1>3, <1>4, <2>1 DEF IInv, TypeOK
<1>5. CASE /\ s.cn # NoCn
           /\ dir' = [dir EXCEPT ![s.user].cn = s.cn]
           /\ task' = [task EXCEPT !["save"].st = "half", !["save"].dn = s.cn]
  <2>1. s.cn \in Cn
    BY <1>1, <1>5 DEF Tasks, CnText
  <2>2. dir' \in [User -> Entry]
    BY <1>1, <1>5, <2>1, EntryTypes DEF IInv
  <2>3. task' = [task EXCEPT !["save"] = [s EXCEPT !.st = "half", !.dn = s.cn]]
    BY <1>5, TaskIs DEF Job
  <2> QED BY <1>3, <2>1, <2>2, <2>3
<1> QED BY <1>2, <1>4, <1>5 DEF SaveRename

LEMMA SaveModifyKeeps == ASSUME IInv, SaveModify PROVE IInv'
<1> DEFINE s == task["save"]
<1>1. s \in Tasks /\ s.st = "half"
  BY TaskIs DEF SaveModify, At, Job
<1>2. CASE Refused("save")
  BY <1>1, <1>2, RefusedKeeps DEF SaveModify, Job
<1>3. CASE task' = [task EXCEPT !["save"].st = "ok"] /\ UNCHANGED dir
  <2> DEFINE t == [s EXCEPT !.st = "ok"]
  <2>1. t \in Tasks /\ t.user = s.user /\ t.asked = s.asked /\ t.st = "ok"
    BY <1>1 DEF Tasks
  <2>2. ReadIsCurrent' /\ dir' \in [User -> Entry]
    BY <1>3, TaskIs DEF SaveModify, Worked, IInv, TypeOK, ReadIsCurrent, Job
  <2> QED BY <1>1, <1>3, <2>1, <2>2, WorkKeeps DEF SaveModify, Worked, Job
<1> QED BY <1>2, <1>3 DEF SaveModify

LEMMA EnableReadKeeps == ASSUME IInv, EnableRead PROVE IInv'
<1> DEFINE s == task["enable"]
<1>1. /\ s \in Tasks /\ s.st = "queued" /\ s.user \in User
      /\ \A i \in Job : task[i].st # "half"
  BY TaskIs, BeginsAlone DEF EnableRead, At, Job
<1>2. CASE Refused("enable")
  BY <1>1, <1>2, RefusedKeeps DEF EnableRead, Job
<1>3. ASSUME NEW read \in BOOLEAN, NEW uac \in Uac,
             read => uac = dir[s.user].uac,
             task' = [task EXCEPT !["enable"] = [s EXCEPT !.st = "half",
                                                 !.read = read, !.uac = uac]],
             UNCHANGED dir
      PROVE  IInv'
  <2> DEFINE t == [s EXCEPT !.st = "half", !.read = read, !.uac = uac]
  <2>1. dir' \in [User -> Entry]
    BY <1>3 DEF IInv, TypeOK
  <2>2. t \in Tasks /\ t.user = s.user /\ t.asked = s.asked
        /\ t.uac = uac /\ t.read = read
    BY <1>1 DEF Tasks
  <2>3. ReadIsCurrent'
    BY <1>3, <2>2, TaskIs DEF ReadIsCurrent, Job
  <2> QED BY <1>1, <1>3, <2>1, <2>2, <2>3, WorkKeeps DEF EnableRead, Worked, Job
<1>4. dir[s.user].uac \in Uac /\ NormalAccount \in Uac
  BY <1>1, ModelTypes DEF IInv, TypeOK, Entry
<1> QED BY <1>2, <1>3, <1>4 DEF EnableRead

LEMMA EnableWriteKeeps == ASSUME IInv, EnableWrite PROVE IInv'
<1> DEFINE s == task["enable"]
           f == [s.uac EXCEPT !.disabled = ~s.on]
<1>1. s \in Tasks /\ s.st = "half" /\ s.user \in User
  BY TaskIs DEF EnableWrite, At, Job
<1>2. CASE Refused("enable")
  BY <1>1, <1>2, RefusedKeeps DEF EnableWrite, Job
<1>3. CASE task' = [task EXCEPT !["enable"].st = "ok"]
           /\ dir' = [dir EXCEPT ![s.user].uac = f]
  <2> DEFINE t == [s EXCEPT !.st = "ok"]
  <2>1. f \in Uac
    BY <1>1 DEF Tasks, Uac
  <2>2. dir' \in [User -> Entry]
    BY <1>1, <1>3, <2>1, EntryTypes DEF IInv
  <2>3. t \in Tasks /\ t.user = s.user /\ t.asked = s.asked /\ t.st = "ok"
    BY <1>1 DEF Tasks
  <2>4. ReadIsCurrent'
    BY <1>3, <2>3, TaskIs DEF ReadIsCurrent, Job
  <2> QED BY <1>1, <1>3, <2>2, <2>3, <2>4, WorkKeeps DEF EnableWrite, Worked, Job
<1> QED BY <1>2, <1>3 DEF EnableWrite

LEMMA WriteKeeps ==
    ASSUME IInv, PolicyWrite \/ DeleteEntry PROVE IInv'
<1> SUFFICES ASSUME NEW j \in {"policy", "delete"}, At(j, "queued"), Worked,
                    \/ /\ task' = [task EXCEPT ![j].st = "ok"]
                       /\ \/ dir' = [dir EXCEPT ![task[j].user].uac = task[j].uac]
                          \/ dir' = [dir EXCEPT ![task[j].user].here = FALSE]
                    \/ Refused(j)
             PROVE  IInv'
  BY DEF PolicyWrite, DeleteEntry
<1>1. /\ task[j] \in Tasks /\ task[j].st = "queued" /\ task[j].user \in User
      /\ \A i \in Job : task[i].st # "half"
  BY TaskIs, BeginsAlone DEF At, Job
<1>2. CASE Refused(j)
  BY <1>1, <1>2, RefusedKeeps DEF Job
<1>3. CASE /\ task' = [task EXCEPT ![j].st = "ok"]
           /\ \/ dir' = [dir EXCEPT ![task[j].user].uac = task[j].uac]
              \/ dir' = [dir EXCEPT ![task[j].user].here = FALSE]
  <2> DEFINE t == [task[j] EXCEPT !.st = "ok"]
  <2>1. t \in Tasks /\ t.user = task[j].user /\ t.asked = task[j].asked
        /\ t.st = "ok"
    BY <1>1 DEF Tasks
  <2>2. dir' \in [User -> Entry]
    <3>1. task[j].uac \in Uac
      BY <1>1 DEF Tasks
    <3> QED BY <1>1, <1>3, <3>1, EntryTypes DEF IInv
  <2>3. ReadIsCurrent'
    BY <1>1, <1>3, TaskIs DEF ReadIsCurrent, Job
  <2> QED BY <1>1, <1>3, <2>1, <2>2, <2>3, WorkKeeps DEF Worked, Job
<1> QED BY <1>2, <1>3

LEMMA CreateEntryKeeps == ASSUME IInv, CreateEntry PROVE IInv'
<1> DEFINE s == task["create"]
           e == [here |-> TRUE, cn |-> s.dn,
                 uac |-> [NormalAccount EXCEPT !.disabled = TRUE]]
<1>1. /\ s \in Tasks /\ s.st = "queued" /\ s.user \in User
      /\ \A i \in Job : task[i].st # "half"
  BY TaskIs, BeginsAlone DEF CreateEntry, At, Job
<1>2. CASE Refused("create")
  BY <1>1, <1>2, RefusedKeeps DEF CreateEntry, Job
<1>3. CASE task' = [task EXCEPT !["create"].st = "ok"]
           /\ dir' = [dir EXCEPT ![s.user] = e]
  <2> DEFINE t == [s EXCEPT !.st = "ok"]
  <2>1. e \in Entry
    BY <1>1, ModelTypes DEF Tasks, Entry, Uac
  <2>2. dir' \in [User -> Entry]
    BY <1>1, <1>3, <2>1 DEF IInv, TypeOK
  <2>3. t \in Tasks /\ t.user = s.user /\ t.asked = s.asked /\ t.st = "ok"
    BY <1>1 DEF Tasks
  <2>4. ReadIsCurrent'
    BY <1>1, <1>3, TaskIs DEF ReadIsCurrent, Job
  <2> QED BY <1>1, <1>3, <2>2, <2>3, <2>4, WorkKeeps DEF CreateEntry, Worked, Job
<1> QED BY <1>2, <1>3 DEF CreateEntry

LEMMA ListSearchKeeps ==
    ASSUME IInv, NEW s \in Slot, ListSearch(s) PROVE IInv'
<1>1. lists' \in [Slot -> Searches]
  <2>1. \A u \in User : ModelOf(dir[u]) \in Model
    BY ModelOfType DEF IInv, TypeOK
  <2>2. [u \in User |-> ModelOf(dir[u])] \in [User -> Model]
    BY <2>1
  <2>3. lists \in [Slot -> Searches]
    BY DEF IInv, TypeOK, Searches
  <2>4. PICK l \in Searches : lists' = [lists EXCEPT ![s] = l]
    <3>1. [st |-> "ok", found |-> [u \in User |-> ModelOf(dir[u])]] \in Searches
      BY <2>2 DEF Searches
    <3>2. [lists[s] EXCEPT !.st = "error"] \in Searches
      BY <2>3 DEF Searches
    <3> QED BY <3>1, <3>2 DEF ListSearch
  <2> QED BY <2>3, <2>4
<1>2. TypeOK'
  BY <1>1 DEF ListSearch, ui, IInv, TypeOK, Searches
<1> QED BY <1>2 DEF ListSearch, ui, IInv, TasksHaveUser, DetailHasUser,
        DialogIsOfSelected, DeleteAsConfirmed, RowIsSelected, PendingIsAlone, OneDialog, OneAtWork,
        ReadIsCurrent

LEMMA OtherWritesKeeps ==
    ASSUME IInv, NEW u \in User, OtherWrites(u) PROVE IInv'
<1>1. dir' \in [User -> Entry]
  <2>1. CASE dir' = [dir EXCEPT ![u].here = FALSE]
    BY <2>1, EntryTypes DEF IInv
  <2>2. ASSUME NEW f \in Uac, dir' = [dir EXCEPT ![u].uac = f]
        PROVE  dir' \in [User -> Entry]
    BY <2>2, EntryTypes DEF IInv
  <2> QED BY <2>1, <2>2 DEF OtherWrites
<1>2. others' \in 1 .. MaxOthers
  BY PanelAssumption DEF OtherWrites, IInv, TypeOK
<1>3. TypeOK'
  BY <1>1, <1>2 DEF OtherWrites, ui, IInv, TypeOK
<1>4. others' # 0
  BY <1>2
<1> QED BY <1>3, <1>4 DEF OtherWrites, ui, IInv, TasksHaveUser, DetailHasUser,
        DialogIsOfSelected, DeleteAsConfirmed, RowIsSelected, PendingIsAlone, OneDialog, OneAtWork,
        ReadIsCurrent

-----------------------------------------------------------------------------
(* The completions. *)

(* A task is over, and none begins. *)
LEMMA EndKeeps ==
    ASSUME TaskInv, NEW j \in Job, task' = [task EXCEPT ![j] = Idle],
           UNCHANGED crashed
    PROVE  TaskInv' /\ (task'["enable"].st = "half"
                          => task'["enable"] = task["enable"])
<1>1. \A i \in Job : task'[i] = IF i = j THEN Idle ELSE task[i]
  BY DEF TaskInv
<1>2. TaskInv'
  BY IdleType, StepKeeps
<1> QED BY <1>1, <1>2, IdleType DEF Job

(* The model of a row and the selected one change together. *)
LEMMA SetModelKeeps ==
    ASSUME IInv, NEW m \in Model, SetModel(m), m.here = sel.model.here, UNCHANGED detail
    PROVE  /\ rows' \in [User -> Model]
           /\ sel' \in Selections
           /\ sel'.user = sel.user /\ RowIsSelected'
<1>1. /\ sel \in Selections
      /\ rows \in [User -> Model]
  BY DEF IInv, TypeOK, Selections
<1>2. /\ sel' = [sel EXCEPT !.model = m]
      /\ rows' = IF sel.row THEN [rows EXCEPT ![sel.user] = m] ELSE rows
  BY DEF SetModel
<1>3. /\ sel'.user = sel.user /\ sel'.model = m /\ sel'.row = sel.row
      /\ sel' \in Selections
  BY <1>1, <1>2 DEF Selections
<1>4. sel.row => sel.user \in User /\ sel.model.here
  BY DEF IInv, RowIsSelected
<1>5. rows' \in [User -> Model]
  BY <1>1, <1>2, <1>4
<1>6. RowIsSelected'
  BY <1>1, <1>2, <1>3, <1>4 DEF IInv, RowIsSelected
<1> QED BY <1>3, <1>5, <1>6

(* The rest of the panel after a completion which may have changed the     *)
(* selected model and may have asked for a list.                           *)
LEMMA CompletionKeeps ==
    ASSUME IInv, TaskInv', RowIsSelected',
           rows' \in [User -> Model],
           sel' \in Selections,
           \/ sel'.user = sel.user
           \/ sel'.user = NoUser /\ page' = "loading",
           \/ UNCHANGED <<page, lists>>
           \/ Load,
           crashed' \in BOOLEAN,
           task'["enable"].st = "half" => task'["enable"] = task["enable"],
           \/ UNCHANGED <<pending, dialog>>
           \/ /\ confirm = NoUser /\ dialog' \in {"none", "open", "sent"}
              /\ \/ pending' = pending
                 \/ pending' \in Dns /\ page' = "loading",
           UNCHANGED <<dir, form, detail, confirm, clicks, others>>
    PROVE  IInv'
<1>1. lists' \in [Slot -> Searches] /\ page' \in {page, "loading"}
  BY LoadType DEF IInv, TypeOK, Searches
<1>2. pending' \in Dns /\ dialog' \in {"none", "open", "sent"}
  BY DEF IInv, TypeOK, Dns
<1>3. TypeOK'
  BY <1>1, <1>2 DEF IInv, TypeOK, TaskInv, Tasks, Searches, Selections, Dns
<1>4. PendingIsAlone' /\ OneDialog'
  BY <1>1 DEF IInv, PendingIsAlone, OneDialog
<1> QED BY <1>1, <1>3, <1>4 DEF IInv, TaskInv, DetailHasUser, DialogIsOfSelected,
        ReadIsCurrent

LEMMA SimpleDoneKeeps ==
    ASSUME IInv, SaveFailed \/ EnableFailed \/ PolicyDone PROVE IInv'
<1> PICK j \in Job :
      /\ task' = [task EXCEPT ![j] = Idle]
      /\ Load \/ UNCHANGED <<page, lists>>
      /\ UNCHANGED <<dir, rows, sel, pending, form, detail, confirm, dialog, clicks,
                     others, crashed>>
  BY DEF SaveFailed, EnableFailed, PolicyDone, ui, Job
<1>1. TaskInv'
      /\ (task'["enable"].st = "half" => task'["enable"] = task["enable"])
  BY TaskInvIs, EndKeeps DEF IInv
<1>2. RowIsSelected'
  BY DEF IInv, RowIsSelected
<1>3. /\ rows' \in [User -> Model]
      /\ sel' \in Selections
      /\ sel'.user = sel.user /\ crashed' \in BOOLEAN
  BY DEF IInv, TypeOK, Selections
<1> QED BY <1>1, <1>2, <1>3, CompletionKeeps

LEMMA DeleteDoneKeeps == ASSUME IInv, DeleteDone PROVE IInv'
<1>1. TaskInv'
      /\ (task'["enable"].st = "half" => task'["enable"] = task["enable"])
  BY TaskInvIs, EndKeeps DEF IInv, DeleteDone, Job
<1>0. /\ rows' \in [User -> Model] /\ crashed' \in BOOLEAN
      /\ UNCHANGED <<dir, pending, form, detail, confirm, dialog, clicks, others>>
  BY DEF DeleteDone, IInv, TypeOK
<1>2. CASE UNCHANGED <<page, lists, sel>>
  <2>1. RowIsSelected'
    BY <1>2 DEF DeleteDone, IInv, RowIsSelected
  <2>2. /\ sel' \in Selections
        /\ sel'.user = sel.user /\ UNCHANGED <<page, lists>>
    BY <1>2 DEF IInv, TypeOK, Selections
  <2> QED BY <1>0, <1>1, <2>1, <2>2, CompletionKeeps
<1>3. CASE Load /\ sel' = NoSel
  <2>1. RowIsSelected' /\ sel'.user = NoUser /\ page' = "loading"
    BY <1>3, ModelTypes DEF RowIsSelected, Load
  <2>2. sel' \in Selections
    BY <1>3, ModelTypes
  <2> QED BY <1>0, <1>1, <1>3, <2>1, <2>2, CompletionKeeps
<1> QED BY <1>2, <1>3 DEF DeleteDone

LEMMA EnableSucceededKeeps == ASSUME IInv, EnableSucceeded PROVE IInv'
<1>1. TaskInv'
      /\ (task'["enable"].st = "half" => task'["enable"] = task["enable"])
  BY TaskInvIs, EndKeeps DEF IInv, EnableSucceeded, Job
<1>2. /\ rows' \in [User -> Model]
      /\ sel' \in Selections
      /\ sel'.user = sel.user /\ RowIsSelected'
  <2>1. CASE UNCHANGED <<sel, rows>>
    BY <2>1 DEF EnableSucceeded, IInv, TypeOK, Selections, RowIsSelected
  <2> DEFINE m == [sel.model EXCEPT !.enabled = task["enable"].on]
  <2>2. CASE SetModel(m)
    <3>1. m \in Model /\ m.here = sel.model.here
      <4>1. task["enable"].on \in BOOLEAN /\ sel.model \in Model
        BY TaskIs DEF Tasks, Job, IInv, TypeOK
      <4> QED BY <4>1 DEF Model
    <3> QED BY <2>2, <3>1, SetModelKeeps DEF EnableSucceeded
  <2> QED BY <2>1, <2>2 DEF EnableSucceeded
<1>3. /\ Load /\ crashed' \in BOOLEAN
      /\ UNCHANGED <<dir, pending, form, detail, confirm, dialog, clicks, others>>
  BY DEF EnableSucceeded, IInv, TypeOK
<1> QED BY <1>1, <1>2, <1>3, CompletionKeeps

(* The enable task goes on with the selection of this moment. *)
LEMMA SaveSucceededKeeps == ASSUME IInv, SaveSucceeded PROVE IInv'
<1> DEFINE s == task["save"]
           t == [s EXCEPT !.st = "queued", !.user = sel.user, !.dn = sel.model.dn]
<1>0. UNCHANGED <<dir, pending, form, detail, confirm, dialog, clicks, others>>
  BY DEF SaveSucceeded
<1>1. /\ rows' \in [User -> Model]
      /\ sel' \in Selections
      /\ sel'.user = sel.user /\ RowIsSelected'
  <2>1. CASE UNCHANGED <<sel, rows>>
    BY <2>1 DEF SaveSucceeded, IInv, TypeOK, Selections, RowIsSelected
  <2> DEFINE m == [sel.model EXCEPT !.cn = form.cn]
  <2>2. CASE SetModel(m)
    <3>1. m \in Model /\ m.here = sel.model.here
      BY DEF Model, IInv, TypeOK
    <3> QED BY <2>2, <3>1, SetModelKeeps DEF SaveSucceeded
  <2> QED BY <2>1, <2>2 DEF SaveSucceeded
<1>2. CASE ~s.flip
  <2>1. TaskInv'
        /\ (task'["enable"].st = "half" => task'["enable"] = task["enable"])
    BY <1>2, TaskInvIs, EndKeeps DEF IInv, SaveSucceeded, Job
  <2>2. Load /\ crashed' \in BOOLEAN
    BY <1>2 DEF SaveSucceeded, IInv, TypeOK
  <2> QED BY <1>0, <1>1, <2>1, <2>2, CompletionKeeps
<1>3. CASE s.flip
  <2>1. /\ task' = [task EXCEPT !["save"] = Idle, !["enable"] = t]
        /\ crashed' = (sel.user = NoUser)
        /\ UNCHANGED <<page, lists>>
    BY <1>3 DEF SaveSucceeded
  <2>2. t \in Tasks /\ t.st = "queued" /\ t.user = sel.user
    BY TaskIs DEF Tasks, Job, IInv, TypeOK, Model
  <2>3. /\ task' \in [Job -> Tasks]
        /\ task'["save"] = Idle /\ task'["enable"] = t
        /\ task'["policy"] = task["policy"] /\ task'["delete"] = task["delete"]
        /\ task'["create"] = task["create"]
    BY <2>1, <2>2, TaskIs, IdleType DEF Job
  <2>4. TasksHaveUser'
    BY <2>1, <2>2, <2>3, IdleType DEF TasksHaveUser, Job, IInv, TypeOK,
       SaveSucceeded, Done
  <2>5. DeleteAsConfirmed' /\ OneAtWork'
    <3>1. \A i \in Job : task'[i].st = "half" => task[i].st = "half"
      BY <2>2, <2>3, IdleType DEF Job
    <3>2. OneAtWork'
      BY <3>1 DEF OneAtWork, IInv
    <3> QED BY <3>2, <2>3 DEF DeleteAsConfirmed, IInv
  <2>6. TaskInv'
    BY <2>3, <2>4, <2>5 DEF TaskInv
  <2>7. task'["enable"].st # "half"
    BY <2>2, <2>3
  <2>8. UNCHANGED <<page, lists>> /\ crashed' \in BOOLEAN
    BY <2>1
  <2> QED BY <1>0, <1>1, <2>6, <2>7, <2>8, CompletionKeeps
<1> QED BY <1>2, <1>3

(* The user is created, or the dialog that waited is gone. *)
LEMMA CreateDoneKeeps == ASSUME IInv, CreateDone PROVE IInv'
<1> DEFINE s == task["create"]
<1>1. s \in Tasks /\ s.user \in User /\ TaskInv
  BY TaskIs, TaskInvIs DEF CreateDone, Job, IInv
<1>2. /\ rows' \in [User -> Model] /\ sel' \in Selections
      /\ sel'.user = sel.user /\ RowIsSelected'
      /\ UNCHANGED <<dir, form, detail, confirm, clicks, others>>
  BY DEF CreateDone, IInv, TypeOK, Selections, RowIsSelected
<1>3. CASE dialog # "sent"
  <2>1. /\ crashed' = TRUE
        /\ UNCHANGED <<task, pending, page, lists, dialog>>
    BY <1>3 DEF CreateDone
  <2>2. TaskInv'
    BY <1>1, <2>1 DEF TaskInv, TasksHaveUser, DeleteAsConfirmed, OneAtWork
  <2> QED BY <1>2, <2>1, <2>2, CompletionKeeps
<1>4. CASE dialog = "sent"
  <2>1. task' = [task EXCEPT !["create"] = Idle] /\ UNCHANGED crashed
    BY <1>4 DEF CreateDone
  <2>2. TaskInv'
        /\ (task'["enable"].st = "half" => task'["enable"] = task["enable"])
    BY <1>1, <2>1, EndKeeps DEF Job
  <2>3. confirm = NoUser /\ crashed' \in BOOLEAN
    BY <1>4, <2>1 DEF IInv, TypeOK, OneDialog
  <2>4. CASE s.st = "ok"
    <3>1. Load /\ page' = "loading" /\ pending' \in Dns /\ dialog' = "none"
      BY <1>1, <1>4, <2>4 DEF CreateDone, Load, Tasks, Dns
    <3> QED BY <1>2, <2>2, <2>3, <3>1, CompletionKeeps
  <2>5. CASE s.st # "ok"
    <3>1. dialog' = "open" /\ UNCHANGED <<pending, page, lists>>
      BY <1>4, <2>5 DEF CreateDone
    <3>2. UNCHANGED pending /\ UNCHANGED <<page, lists>>
      BY <3>1
    <3> QED BY <1>2, <2>2, <2>3, <3>1, <3>2, CompletionKeeps
  <2> QED BY <2>4, <2>5
<1> QED BY <1>3, <1>4

(* The account to select is the one selected, while a delete dialog is     *)
(* open.                                                                   *)
LEMMA TargetIs ==
    ASSUME IInv, NEW found \in [User -> Model]
    PROVE  /\ Target(found) \in User \cup {NoUser}
           /\ confirm # NoUser => Target(found) = sel.user
BY DEF Target, IInv, TypeOK, PendingIsAlone

(* New rows; the account to select is selected as its new row. *)
LEMMA ListDoneKeeps == ASSUME IInv, NEW s \in Slot, ListDone(s) PROVE IInv'
<1> DEFINE found == lists[s].found
           u == Target(found)
<1>1. lists \in [Slot -> Searches]
  BY DEF IInv, TypeOK, Searches
<1>2. lists' \in [Slot -> Searches]
  <2> DEFINE l == [lists[s] EXCEPT !.st = "idle", !.found = Nothing]
  <2>1. lists' = [lists EXCEPT ![s] = l]
    BY DEF ListDone
  <2>2. l \in Searches
    BY <1>1, ModelTypes DEF Searches
  <2> QED BY <1>1, <2>1, <2>2
<1>3. /\ found \in [User -> Model] /\ rows' = found
      /\ page' \in {"empty", "split"} /\ pending' = NoDn
      /\ UNCHANGED <<dir, confirm, dialog, task, clicks, others, crashed>>
  BY <1>1 DEF ListDone, Searches
<1>4. u \in User \cup {NoUser} /\ (confirm # NoUser => u = sel.user)
  BY <1>3, TargetIs
<1> HIDE DEF found, u
<1>5. CASE u # NoUser /\ found[u].here
  <2>1. /\ sel' = [user |-> u, model |-> found[u], row |-> TRUE]
        /\ form' = [cn |-> found[u].cn, enabled |-> found[u].enabled,
                    noexp |-> found[u].uac.noexp]
        /\ detail' = TRUE
    BY <1>5 DEF ListDone, ShowDetail, found, u
  <2>2. u \in User /\ found[u] \in Model
    BY <1>3, <1>4, <1>5
  <2>3. sel' \in Selections
        /\ form' \in [cn : CnText, enabled : BOOLEAN, noexp : BOOLEAN]
    BY <2>1, <2>2 DEF Selections, Model, Uac
  <2>4. TypeOK'
    BY <1>2, <1>3, <2>1, <2>3, ModelTypes DEF IInv, TypeOK, Searches, Selections, Dns
  <2>5. RowIsSelected' /\ DetailHasUser' /\ DialogIsOfSelected'
    BY <1>3, <1>4, <1>5, <2>1, <2>2 DEF RowIsSelected, DetailHasUser,
       DialogIsOfSelected, IInv
  <2> QED BY <1>3, <2>4, <2>5, ModelTypes DEF IInv, TasksHaveUser,
          DeleteAsConfirmed, PendingIsAlone, OneDialog, OneAtWork, ReadIsCurrent
<1>6. CASE ~(u # NoUser /\ found[u].here)
  <2>1. detail' = FALSE /\ sel' = [sel EXCEPT !.row = FALSE] /\ UNCHANGED form
    BY <1>6 DEF ListDone, found, u
  <2>2. sel' \in Selections /\ sel'.user = sel.user /\ ~sel'.row
    BY <2>1 DEF IInv, TypeOK, Selections
  <2>3. TypeOK'
    BY <1>2, <1>3, <2>1, <2>2, ModelTypes DEF IInv, TypeOK, Searches, Selections, Dns
  <2> QED BY <1>3, <2>1, <2>2, <2>3, ModelTypes DEF IInv, TasksHaveUser,
          DetailHasUser, DialogIsOfSelected, DeleteAsConfirmed, RowIsSelected,
          PendingIsAlone, OneDialog, OneAtWork, ReadIsCurrent
<1> QED BY <1>5, <1>6

LEMMA ListFailedKeeps == ASSUME IInv, NEW s \in Slot, ListFailed(s) PROVE IInv'
<1>1. TypeOK'
  BY DEF ListFailed, IInv, TypeOK
<1> QED BY <1>1 DEF ListFailed, IInv, TasksHaveUser, DetailHasUser,
        DialogIsOfSelected, DeleteAsConfirmed, RowIsSelected, PendingIsAlone, OneDialog, OneAtWork,
        ReadIsCurrent

-----------------------------------------------------------------------------
LEMMA NextKeeps == ASSUME IInv, [Next]_vars PROVE IInv'
<1>1. CASE Operator
  BY <1>1, SelectKeeps, UnselectKeeps, EditKeeps, ClickSaveKeeps,
     ClickSavePolicyKeeps, ClickDeleteKeeps, ConfirmDeleteKeeps, ClickCreateKeeps,
     DialogKeeps DEF Operator
<1>2. CASE SaveStep \/ EnableStep \/ PolicyStep \/ DeleteStep \/ CreateStep
  BY <1>2, SaveRenameKeeps, SaveModifyKeeps, SaveSucceededKeeps, EnableReadKeeps,
     EnableWriteKeeps, EnableSucceededKeeps, WriteKeeps, SimpleDoneKeeps,
     DeleteDoneKeeps, CreateEntryKeeps, CreateDoneKeeps
     DEF SaveStep, EnableStep, PolicyStep, DeleteStep, CreateStep
<1>3. ASSUME NEW s \in Slot, ListStep(s) PROVE IInv'
  BY <1>3, ListSearchKeeps, ListDoneKeeps, ListFailedKeeps DEF ListStep
<1>4. CASE UNCHANGED vars
  BY <1>4 DEF vars, ui, IInv, TypeOK, TasksHaveUser, DetailHasUser,
     DialogIsOfSelected, DeleteAsConfirmed, RowIsSelected, PendingIsAlone, OneDialog, OneAtWork,
        ReadIsCurrent
<1> QED BY <1>1, <1>2, <1>3, <1>4, OtherWritesKeeps DEF Next

THEOREM Invariant == Spec => []IInv
BY InitKeeps, NextKeeps, PTL DEF Spec

(* The types of the state; a task that runs is typed like its request. *)
THEOREM TypeCorrect == Spec => []TypeOK
<1>1. IInv => TypeOK
  BY DEF IInv
<1> QED BY <1>1, Invariant, PTL

(* load_user_into_detail, on_users_loaded and the completions of a save:   *)
(* the detail is of a listed account, and the row of the account and the   *)
(* selected model stay one object.                                         *)
THEOREM SelectionHolds == Spec => []SelectionIsRow
<1>1. IInv => SelectionIsRow
  BY DEF IInv, RowIsSelected, SelectionIsRow
<1> QED BY <1>1, Invariant, PTL

(* on_delete_dialog_response deletes the selection of its moment: whatever *)
(* was reloaded, saved or deleted while the dialog was open, it is the     *)
(* account whose name was typed.                                           *)
THEOREM DeleteHolds == Spec => []DeleteAsConfirmed
<1>1. IInv => DeleteAsConfirmed
  BY DEF IInv
<1> QED BY <1>1, Invariant, PTL

-----------------------------------------------------------------------------
(* The step of the enable task that writes changes one flag of what it     *)
(* has read; no other worker writes while it is between read and write.    *)
LEMMA FlagsKept ==
    ASSUME Alone, IInv, [Next]_vars, NEW u \in User,
           task["enable"].st = "half", task["enable"].read,
           task["enable"].user = u, dir'[u].uac # dir[u].uac
    PROVE  dir'[u].uac = [dir[u].uac EXCEPT !.disabled = ~task["enable"].on]
<1> DEFINE s == task["enable"]
<1>1. s \in Tasks /\ dir \in [User -> Entry] /\ "enable" \in Job
  BY TaskIs DEF Job, IInv, TypeOK
<1>2. dir[u].uac = s.uac
  <2>1. others = 0
    BY PanelAssumption DEF Alone, IInv, TypeOK
  <2> QED BY <2>1 DEF IInv, ReadIsCurrent
<1>3. ~MutexFree
  BY <1>1 DEF MutexFree
<1>4. CASE EnableWrite
  <2>1. dir' = [dir EXCEPT ![u].uac = [s.uac EXCEPT !.disabled = ~s.on]]
    BY <1>4 DEF EnableWrite, Refused
  <2>2. dir'[u].uac = [s.uac EXCEPT !.disabled = ~s.on]
    BY <1>1, <2>1 DEF Entry
  <2> QED BY <1>2, <2>2
<1>5. CASE SaveRename \/ PolicyWrite \/ DeleteEntry \/ CreateEntry \/ EnableRead
  BY <1>3, <1>5 DEF SaveRename, PolicyWrite, DeleteEntry, CreateEntry, EnableRead, At
<1>6. ASSUME NEW v \in User, OtherWrites(v) PROVE FALSE
  BY <1>6, PanelAssumption DEF OtherWrites, Alone, IInv, TypeOK
<1>7. CASE UNCHANGED dir
  BY <1>7
<1> QED
  <2>1. CASE Operator
    BY <2>1, <1>7 DEF Operator, SelectRow, UnselectRow, EditForm, ClickSave,
       ClickSavePolicy, ClickDelete, ConfirmDelete, CancelDelete, OpenCreate,
       ClickCreate, CancelCreate
  <2>2. CASE SaveModify \/ SaveFailed \/ SaveSucceeded \/ EnableFailed
             \/ EnableSucceeded \/ PolicyDone \/ DeleteDone \/ CreateDone
             \/ UNCHANGED vars
    BY <2>2, <1>7 DEF SaveModify, Refused, SaveFailed, SaveSucceeded, EnableFailed,
       EnableSucceeded, PolicyDone, DeleteDone, CreateDone, vars
  <2>3. ASSUME NEW l \in Slot, ListStep(l) PROVE UNCHANGED dir
    BY <2>3 DEF ListStep, ListSearch, ListDone, ListFailed
  <2> QED BY <1>4, <1>5, <1>6, <1>7, <2>1, <2>2, <2>3
          DEF Next, SaveStep, EnableStep, PolicyStep, DeleteStep, CreateStep

(* set_enabled_thread: when it has read userAccountControl, and without    *)
(* other administrators, writing it back under the mutex changes the one   *)
(* bit: no flag that this program writes meanwhile is lost.  (A search     *)
(* that shows no value is outside: then the flags of a normal account      *)
(* replace the account's.)                                                 *)
THEOREM FlagsHold == Alone /\ Spec => EnableChangesOneFlag
<1>1. ASSUME Alone
      PROVE  IInv /\ [Next]_vars =>
               [\A u \in User :
                  task["enable"].st = "half" /\ task["enable"].read
                  /\ task["enable"].user = u /\ dir'[u].uac # dir[u].uac
                     => dir'[u].uac = [dir[u].uac EXCEPT
                                          !.disabled = ~task["enable"].on]]_vars
  BY <1>1, FlagsKept
<1>2. CASE Alone
  BY <1>1, <1>2, Invariant, PTL DEF Spec, EnableChangesOneFlag
<1> QED BY <1>2
=============================================================================
