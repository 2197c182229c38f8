------------------------ MODULE SbvGroupsPanelProofs ------------------------
(* Proofs about SbvGroupsPanel, for every set of groups and any number of  *)
(* calls in flight: types, and what the dialogs and the detail are about.  *)
EXTENDS SbvGroupsPanelProps, TLAPS

Tasks == [op : {"idle", "list", "users", "add", "remove", "delete", "gid",
                "create"},
          st : {"sent", "ok", "error"},
          group : Group \cup {None}, ctx : Slot \cup {None},
          live : BOOLEAN, found : SUBSET Group]

(* A created group waits to be selected only until a list is shown: no     *)
(* dialog about a group can be open.                                       *)
PendingIsAlone ==
    pending # None => /\ page # "split"
                      /\ dialog.kind \notin {"add", "delete", "warn"}

(* The creation that will tell the panel has its dialog open, waiting for  *)
(* it alone.                                                               *)
Creating(s) == task[s].op = "create" /\ task[s].live
CreateHasDialog ==
    \A s \in Slot :
        Creating(s) => /\ dialog.kind = "create" /\ ~dialog.can
                       /\ \A i \in Slot : Creating(i) => i = s

IInv == /\ TypeOK
        /\ DeedsName
        /\ PendingIsAlone
        /\ CreateHasDialog
        /\ DialogIsAboutSelected
        /\ DetailIsSelected

LEMMA CallType ==
    ASSUME NEW op \in {"list", "users", "add", "remove", "delete", "gid",
                       "create"},
           NEW g \in Group \cup {None}
    PROVE  /\ Call(op, g) \in Tasks
           /\ Call(op, g).op = op /\ Call(op, g).group = g
           /\ Idle \in Tasks
           /\ Idle.op = "idle"
BY DEF Call, Idle, Tasks

LEMMA InitIInv == Init => IInv
<1> SUFFICES ASSUME Init PROVE IInv
  OBVIOUS
<1>1. Idle \in Tasks /\ Call("list", None) \in Tasks
      /\ Idle.op = "idle" /\ Call("list", None).op = "list"
  BY CallType
<1>2. task \in [Slot -> Tasks] /\ \A s \in Slot : task[s].op \in {"idle", "list"}
  BY <1>1 DEF Init
<1>3. DeedsName
  BY <1>2 DEF DeedsName
<1>4. TypeOK
  BY <1>2, <1>3 DEF Init, TypeOK, Tasks, NoDialog
<1> QED
  BY <1>2, <1>3, <1>4 DEF Init, IInv, PendingIsAlone, CreateHasDialog,
     Creating, DialogIsAboutSelected, DetailIsSelected, NoDialog

(* The workers change the directory and their own call. *)
LEMMA WorkKeeps ==
    ASSUME IInv, NEW s \in Slot, Work(s) PROVE IInv'
<1>0. task \in [Slot -> Tasks] /\ dir \subseteq Group
  BY DEF IInv, TypeOK, Tasks
<1>1. UNCHANGED <<ui, undefined>>
  BY DEF Work, Fail, ListGroups, ListUsers, ModifyMember, SetGid, CreateGroup,
     DeleteGroup
<1>2. dir' \subseteq Group
  <2>1. CASE CreateGroup(s)
    BY <2>1, <1>0 DEF CreateGroup, IInv, DeedsName
  <2>2. CASE ~CreateGroup(s)
    BY <2>2, <1>0 DEF Work, Fail, ListGroups, ListUsers, ModifyMember, SetGid,
       DeleteGroup
  <2> QED BY <2>1, <2>2
<1>3. PICK new : /\ task' = [task EXCEPT ![s] = new]
                 /\ \/ new = [task[s] EXCEPT !.st = "ok"]
                    \/ new = [task[s] EXCEPT !.st = "error"]
                    \/ new = [task[s] EXCEPT !.st = "ok", !.found = dir]
  <2>1. CASE ListGroups(s)
    <3> DEFINE new == [task[s] EXCEPT !.st = "ok", !.found = dir]
    <3>1. task[s] \in Tasks
      BY <1>0
    <3>2. task' = [task EXCEPT ![s] = new]
      BY <2>1, <1>0, <3>1 DEF ListGroups, Tasks
    <3> QED BY <3>2
  <2>2. CASE Fail(s)
    <3>1. task' = [task EXCEPT ![s] = [task[s] EXCEPT !.st = "error"]]
      BY <2>2, <1>0 DEF Fail, Answer
    <3> QED BY <3>1
  <2>3. CASE Answer(s, "ok")
    <3>1. task' = [task EXCEPT ![s] = [task[s] EXCEPT !.st = "ok"]]
      BY <2>3, <1>0 DEF Answer
    <3> QED BY <3>1
  <2> QED BY <2>1, <2>2, <2>3 DEF Work, ListUsers, ModifyMember, SetGid,
          CreateGroup, DeleteGroup
<1>4. /\ new \in Tasks
      /\ new.op = task[s].op /\ new.live = task[s].live
      /\ new.group = task[s].group
  <2>1. task[s] \in Tasks
    BY <1>0
  <2> QED BY <2>1, <1>0, <1>3 DEF Tasks
<1>5. /\ task' \in [Slot -> Tasks]
      /\ \A i \in Slot : /\ task'[i].op = task[i].op
                         /\ task'[i].live = task[i].live
                         /\ task'[i].group = task[i].group
  BY <1>0, <1>3, <1>4
<1>6. DeedsName'
  BY <1>5 DEF IInv, DeedsName
<1>7. TypeOK'
  BY <1>1, <1>2, <1>5, <1>6 DEF IInv, TypeOK, Tasks, ui, detail
<1> QED
  BY <1>1, <1>5, <1>6, <1>7 DEF IInv, PendingIsAlone, CreateHasDialog,
     Creating, DialogIsAboutSelected, DetailIsSelected, ui, detail

(* A call that starts or ends: only a new creation needs a dialog. *)
LEMMA ReplaceKeeps ==
    ASSUME IInv, NEW s \in Slot, NEW t \in Tasks,
           task' = [task EXCEPT ![s] = t],
           t.op # "create",
           t.op \in {"add", "remove", "delete", "gid"} => t.group \in Group,
           dialog'.kind = dialog.kind, dialog'.can = dialog.can
    PROVE  task' \in [Slot -> Tasks] /\ DeedsName' /\ CreateHasDialog'
<1>1. task \in [Slot -> Tasks]
  BY DEF IInv, TypeOK, Tasks
<1> QED BY <1>1 DEF IInv, DeedsName, CreateHasDialog, Creating

LEMMA EndKeeps ==
    ASSUME IInv, NEW s \in Slot, Ends(s) \/ LoadAfter(s),
           dialog'.kind = dialog.kind, dialog'.can = dialog.can
    PROVE  task' \in [Slot -> Tasks] /\ DeedsName' /\ CreateHasDialog'
<1>1. /\ Idle \in Tasks /\ Idle.op = "idle"
      /\ Call("list", None) \in Tasks /\ Call("list", None).op = "list"
  BY CallType
<1>2. CASE Ends(s)
  BY <1>1, <1>2, ReplaceKeeps DEF Ends
<1>3. CASE LoadAfter(s)
  BY <1>1, <1>3, ReplaceKeeps DEF LoadAfter
<1> QED BY <1>2, <1>3

LEMMA BeginKeeps ==
    ASSUME IInv, NEW op \in {"list", "users", "add", "delete", "gid"},
           NEW g \in Group \cup {None},
           op \in {"add", "delete", "gid"} => g \in Group, Begin(Call(op, g)),
           dialog.kind # "create"
    PROVE  task' \in [Slot -> Tasks] /\ DeedsName' /\ CreateHasDialog'
<1>1. Call(op, g) \in Tasks /\ Call(op, g).op = op /\ Call(op, g).group = g
  BY CallType
<1>2. PICK s \in Slot : task' = [task EXCEPT ![s] = Call(op, g)]
  BY DEF Begin, Start
<1>3. task \in [Slot -> Tasks]
  BY DEF IInv, TypeOK, Tasks
<1>4. DeedsName'
  BY <1>1, <1>2, <1>3 DEF IInv, DeedsName
<1>5. CreateHasDialog'
  BY <1>1, <1>2, <1>3 DEF IInv, CreateHasDialog, Creating
<1> QED BY <1>1, <1>2, <1>3, <1>4, <1>5

(* Destroying a dialog orphans its creation. *)
LEMMA OrphansType ==
    ASSUME IInv
    PROVE  /\ Orphans(task) \in [Slot -> Tasks]
           /\ \A s \in Slot :
                /\ Orphans(task)[s].op = task[s].op
                /\ Orphans(task)[s].group = task[s].group
                /\ Orphans(task)[s].op = "create" => ~Orphans(task)[s].live
<1>1. task \in [Slot -> Tasks]
  BY DEF IInv, TypeOK, Tasks
<1>2. ASSUME NEW s \in Slot
      PROVE  /\ [task[s] EXCEPT !.live = FALSE] \in Tasks
             /\ [task[s] EXCEPT !.live = FALSE].op = task[s].op
             /\ [task[s] EXCEPT !.live = FALSE].group = task[s].group
             /\ ~[task[s] EXCEPT !.live = FALSE].live
  <2>1. task[s] \in Tasks
    BY <1>1
  <2> QED BY <2>1 DEF Tasks
<1> QED BY <1>1, <1>2 DEF Orphans

LEMMA UseFreedKeeps == ASSUME IInv, UseFreed PROVE IInv'
BY DEF UseFreed, ui, detail, IInv, TypeOK, DeedsName, PendingIsAlone,
   CreateHasDialog, Creating, DialogIsAboutSelected, DetailIsSelected

LEMMA CallbackKeeps ==
    ASSUME IInv, NEW s \in Slot, Callback(s) PROVE IInv'
<1> USE DEF ui, detail
<1>0. task \in [Slot -> Tasks] /\ TypeOK
  BY DEF IInv, TypeOK, Tasks
<1>1. CASE UseFreed
  BY <1>1, UseFreedKeeps
<1>2. CASE RemoveDone(s) /\ ~UseFreed
  <2> DEFINE new == IF Succeeded(s) THEN Call("list", None) ELSE Idle
             others == [i \in Slot |-> IF task[i].ctx = task[s].ctx
                                      THEN [task[i] EXCEPT !.live = FALSE]
                                      ELSE task[i]]
  <2>1. /\ task' = [others EXCEPT ![s] = new]
        /\ button' = IF button = task[s].ctx THEN Freed ELSE button
        /\ page' \in {"loading", page}
        /\ UNCHANGED <<dir, listed, selected, shown, pending, delete_btn,
                       rfc_save_btn, dialog, undefined>>
    BY <1>2 DEF RemoveDone
  <2>2. new \in Tasks /\ new.op \in {"idle", "list"}
    BY CallType
  <2>3. ASSUME NEW i \in Slot
        PROVE  /\ others[i] \in Tasks
               /\ others[i].op = task[i].op /\ others[i].group = task[i].group
               /\ others[i].live => task[i].live
    <3>1. task[i] \in Tasks
      BY <1>0
    <3> QED BY <3>1 DEF Tasks
  <2>4. task' \in [Slot -> Tasks] /\ DeedsName' /\ CreateHasDialog'
    <3>1. task' \in [Slot -> Tasks] /\ DeedsName'
      BY <2>1, <2>2, <2>3 DEF IInv, DeedsName
    <3>2. \A i \in Slot : Creating(i)' => Creating(i)
      BY <2>1, <2>2, <2>3 DEF Creating
    <3> QED BY <2>1, <3>1, <3>2 DEF IInv, CreateHasDialog
  <2>5. TypeOK'
    BY <2>1, <2>4, <1>0 DEF TypeOK, Tasks
  <2> QED BY <2>1, <2>4, <2>5 DEF IInv, PendingIsAlone, DialogIsAboutSelected,
          DetailIsSelected
<1>3. CASE UsersLoaded(s) /\ ~UseFreed
  <2>1. /\ Ends(s)
        /\ dialog' = [dialog EXCEPT !.users = Succeeded(s)]
        /\ UNCHANGED <<dir, page, detail, pending, delete_btn, rfc_save_btn,
                       undefined>>
    BY <1>3 DEF UsersLoaded
  <2>2. /\ dialog'.kind = dialog.kind /\ dialog'.can = dialog.can
        /\ dialog'.group = dialog.group
    BY <2>1, <1>0 DEF TypeOK
  <2>3. task' \in [Slot -> Tasks] /\ DeedsName' /\ CreateHasDialog'
    BY <2>1, <2>2, EndKeeps
  <2>4. TypeOK'
    <3>1. dialog' \in [kind : {"none", "add", "delete", "warn", "create"},
                       group : Group \cup {None}, users : BOOLEAN, can : BOOLEAN]
      BY <2>1, <1>0 DEF TypeOK, Succeeded
    <3> QED BY <2>1, <2>3, <3>1, <1>0 DEF TypeOK, Tasks
  <2> QED BY <2>1, <2>2, <2>3, <2>4 DEF IInv, PendingIsAlone,
          DialogIsAboutSelected, DetailIsSelected
<1>4. CASE AddDone(s) /\ ~UseFreed
  <2>1. CASE Succeeded(s)
    <3>1. /\ task' = [Orphans(task) EXCEPT ![s] = Call("list", None)]
          /\ dialog' = NoDialog /\ page' = "loading"
          /\ UNCHANGED <<dir, detail, pending, delete_btn, rfc_save_btn,
                         undefined>>
      BY <1>4, <2>1 DEF AddDone
    <3>2. Call("list", None) \in Tasks /\ Call("list", None).op = "list"
      BY CallType
    <3>3. task' \in [Slot -> Tasks] /\ DeedsName' /\ CreateHasDialog'
      BY <3>1, <3>2, OrphansType DEF IInv, DeedsName, CreateHasDialog, Creating
    <3>4. TypeOK'
      BY <3>1, <3>3, <1>0 DEF TypeOK, Tasks, NoDialog
    <3> QED BY <3>1, <3>3, <3>4 DEF IInv, PendingIsAlone,
            DialogIsAboutSelected, DetailIsSelected, NoDialog
  <2>2. CASE ~Succeeded(s)
    <3>1. Ends(s) /\ UNCHANGED <<dir, ui, undefined>>
      BY <1>4, <2>2 DEF AddDone
    <3>2. task' \in [Slot -> Tasks] /\ DeedsName' /\ CreateHasDialog'
      BY <3>1, EndKeeps
    <3>3. TypeOK'
      BY <3>1, <3>2, <1>0 DEF TypeOK, Tasks
    <3> QED BY <3>1, <3>2, <3>3 DEF IInv, PendingIsAlone,
            DialogIsAboutSelected, DetailIsSelected
  <2> QED BY <2>1, <2>2
<1>5. CASE DeleteDone(s) \/ GidDone(s)
  <2>1. /\ \/ Ends(s) /\ UNCHANGED <<page, selected>>
           \/ LoadAfter(s) /\ selected' \in {selected, None}
        /\ delete_btn' \in BOOLEAN /\ rfc_save_btn' \in BOOLEAN
        /\ UNCHANGED <<dir, listed, shown, button, pending, dialog, undefined>>
    BY <1>5, <1>0 DEF DeleteDone, GidDone, TypeOK
  <2>2. task' \in [Slot -> Tasks] /\ DeedsName' /\ CreateHasDialog'
    BY <2>1, EndKeeps
  <2>3. TypeOK'
    BY <2>1, <2>2, <1>0 DEF TypeOK, Tasks, LoadAfter
  <2> QED BY <2>1, <2>2, <2>3 DEF IInv, PendingIsAlone,
          DialogIsAboutSelected, DetailIsSelected, LoadAfter
<1>6. CASE CreateDone(s) /\ ~UseFreed
  <2>1. /\ task[s].op = "create" /\ task[s].live
        /\ task[s].group \in Group /\ dialog.kind = "create"
    BY <1>6 DEF CreateDone, Returned, IInv, DeedsName, CreateHasDialog, Creating
  <2>2. CASE Succeeded(s)
    <3>1. /\ pending' = task[s].group /\ LoadAfter(s) /\ dialog' = NoDialog
          /\ UNCHANGED <<dir, detail, delete_btn, rfc_save_btn, undefined>>
      BY <1>6, <2>2 DEF CreateDone
    <3>2. task' \in [Slot -> Tasks] /\ DeedsName' /\ CreateHasDialog'
      <4>1. task' = [task EXCEPT ![s] = Call("list", None)]
        BY <3>1 DEF LoadAfter
      <4>2. Call("list", None) \in Tasks /\ Call("list", None).op = "list"
        BY CallType
      <4>3. \A i \in Slot : ~Creating(i)'
        BY <4>1, <4>2, <2>1, <1>0 DEF IInv, CreateHasDialog, Creating
      <4> QED BY <4>1, <4>2, <4>3, <1>0 DEF IInv, DeedsName, CreateHasDialog, Creating
    <3>3. TypeOK'
      BY <3>1, <3>2, <2>1, <1>0 DEF TypeOK, Tasks, NoDialog, LoadAfter
    <3> QED BY <3>1, <3>2, <3>3 DEF IInv, PendingIsAlone,
            DialogIsAboutSelected, DetailIsSelected, NoDialog, LoadAfter
  <2>3. CASE ~Succeeded(s)
    <3>1. /\ dialog' = [dialog EXCEPT !.can = TRUE] /\ Ends(s)
          /\ UNCHANGED <<dir, page, detail, pending, delete_btn, rfc_save_btn,
                         undefined>>
      BY <1>6, <2>3 DEF CreateDone
    <3>2. dialog'.kind = dialog.kind /\ dialog'.group = dialog.group
      BY <3>1, <1>0 DEF TypeOK
    <3>3. task' \in [Slot -> Tasks] /\ DeedsName' /\ CreateHasDialog'
      <4>1. task' = [task EXCEPT ![s] = Idle] /\ Idle \in Tasks /\ Idle.op = "idle"
        BY <3>1, CallType DEF Ends
      <4>2. \A i \in Slot : ~Creating(i)'
        BY <4>1, <2>1, <1>0 DEF IInv, CreateHasDialog, Creating
      <4> QED BY <4>1, <4>2, <1>0 DEF IInv, DeedsName, CreateHasDialog, Creating
    <3>4. TypeOK'
      BY <3>1, <3>3, <1>0 DEF TypeOK, Tasks
    <3> QED BY <3>1, <3>2, <3>3, <3>4 DEF IInv, PendingIsAlone,
            DialogIsAboutSelected, DetailIsSelected
  <2> QED BY <2>2, <2>3
<1>7. CASE ListFailed(s)
  <2>1. /\ page' = "empty" /\ Ends(s)
        /\ UNCHANGED <<dir, detail, pending, delete_btn, rfc_save_btn, dialog,
                       undefined>>
    BY <1>7 DEF ListFailed
  <2>2. task' \in [Slot -> Tasks] /\ DeedsName' /\ CreateHasDialog'
    BY <2>1, EndKeeps
  <2>3. TypeOK'
    BY <2>1, <2>2, <1>0 DEF TypeOK, Tasks
  <2> QED BY <2>1, <2>2, <2>3 DEF IInv, PendingIsAlone,
          DialogIsAboutSelected, DetailIsSelected
<1>8. CASE GroupsLoaded(s)
  <2> DEFINE rows   == task[s].found
             target == IF pending # None THEN pending ELSE selected
  <2>1. /\ listed' = rows /\ pending' = None
        /\ page' \in {"empty", "split"}
        /\ \/ /\ target \in rows
              /\ selected' = target /\ shown' = TRUE /\ button' = None
           \/ shown' = FALSE /\ UNCHANGED <<selected, button>>
        /\ Ends(s)
        /\ UNCHANGED <<dir, delete_btn, rfc_save_btn, dialog, undefined>>
    BY <1>8 DEF GroupsLoaded, ShowGroup
  <2>2. rows \subseteq Group
    BY <1>0 DEF Tasks
  <2>3. task' \in [Slot -> Tasks] /\ DeedsName' /\ CreateHasDialog'
    BY <2>1, EndKeeps
  <2>4. TypeOK'
    <3>1. /\ pending' \in Group \cup {None} /\ selected' \in Group \cup {None}
          /\ button' \in Slot \cup {None, Freed}
          /\ shown' \in BOOLEAN /\ listed' \subseteq Group
      BY <2>1, <2>2, <1>0 DEF TypeOK
    <3> QED BY <2>1, <2>3, <3>1, <1>0 DEF TypeOK, Tasks
  <2>5. DialogIsAboutSelected'
    BY <2>1 DEF IInv, PendingIsAlone, DialogIsAboutSelected
  <2> QED BY <2>1, <2>3, <2>4, <2>5 DEF IInv, PendingIsAlone, DetailIsSelected
<1> QED
  BY <1>1, <1>2, <1>3, <1>4, <1>5, <1>6, <1>7, <1>8 DEF Callback

LEMMA UserKeeps == ASSUME IInv, User PROVE IInv'
<1> USE DEF ui, detail
<1>0. task \in [Slot -> Tasks] /\ TypeOK
  BY DEF IInv, TypeOK, Tasks
<1>1. CASE UseFreed
  BY <1>1, UseFreedKeeps
<1>2. ASSUME NEW g \in Group, SelectRow(g) PROVE IInv'
  BY <1>2, <1>0 DEF SelectRow, ShowGroup, Clickable, IInv, TypeOK, DeedsName,
     PendingIsAlone, CreateHasDialog, Creating, DialogIsAboutSelected,
     DetailIsSelected
<1>3. CASE ClickRemove /\ ~UseFreed
  <2>1. PICK s \in Slot :
          /\ button' = IF button = None THEN s ELSE button
          /\ Start(s, [Call("remove", selected) EXCEPT !.ctx = button'])
          /\ button # Freed
          /\ UNCHANGED <<dir, page, listed, selected, shown, pending,
                         delete_btn, rfc_save_btn, dialog, undefined>>
    BY <1>3 DEF ClickRemove
  <2>2. button' \in Slot /\ selected \in Group
    BY <1>3, <2>1, <1>0 DEF TypeOK, ClickRemove
  <2> DEFINE new == [Call("remove", selected) EXCEPT !.ctx = button']
  <2>3. new \in Tasks /\ new.op = "remove" /\ new.group \in Group
    BY <2>2 DEF Call, Idle, Tasks
  <2>4. task' = [task EXCEPT ![s] = new]
    BY <2>1 DEF Start
  <2>5. task' \in [Slot -> Tasks] /\ DeedsName' /\ CreateHasDialog'
    BY <2>1, <2>3, <2>4, ReplaceKeeps
  <2>6. TypeOK'
    BY <2>1, <2>2, <2>5, <1>0 DEF TypeOK, Tasks
  <2> QED BY <2>1, <2>5, <2>6 DEF IInv, PendingIsAlone, DialogIsAboutSelected,
          DetailIsSelected
<1>4. CASE Cancel
  <2>1. task' \in [Slot -> Tasks] /\ DeedsName' /\ CreateHasDialog'
    BY <1>4, OrphansType DEF Cancel, IInv, DeedsName, CreateHasDialog, Creating
  <2>2. TypeOK'
    BY <1>4, <2>1, <1>0 DEF Cancel, TypeOK, Tasks, NoDialog
  <2> QED BY <1>4, <2>1, <2>2 DEF Cancel, IInv, PendingIsAlone,
          DialogIsAboutSelected, DetailIsSelected, NoDialog
<1>5. CASE OpenAddMember \/ OpenDelete \/ \E number \in BOOLEAN : ClickSave(number)
  <2>1. /\ page = "split" /\ shown /\ dialog.kind = "none"
        /\ \/ UNCHANGED dialog
           \/ \E kind \in {"add", "delete", "warn"} : Open(kind)
        /\ \/ UNCHANGED task
           \/ Begin(Call("users", None))
           \/ selected # None /\ Begin(Call("gid", selected))
        /\ rfc_save_btn' \in BOOLEAN /\ undefined' \in BOOLEAN
        /\ UNCHANGED <<dir, page, detail, pending, delete_btn>>
    BY <1>5, <1>0 DEF OpenAddMember, OpenDelete, ClickSave, SaveGid, InDetail,
       Clickable, TypeOK
  <2>2. task' \in [Slot -> Tasks] /\ DeedsName'
        /\ \A s \in Slot : ~Creating(s)'
    <3>1. CASE UNCHANGED task
      BY <3>1, <2>1, <1>0 DEF IInv, DeedsName, CreateHasDialog, Creating
    <3>2. ASSUME NEW op \in {"users", "gid"}, NEW g \in Group \cup {None},
                 op = "gid" => g \in Group, Begin(Call(op, g))
          PROVE  /\ task' \in [Slot -> Tasks] /\ DeedsName'
                 /\ \A s \in Slot : ~Creating(s)'
      <4>1. Call(op, g) \in Tasks /\ Call(op, g).op = op /\ Call(op, g).group = g
        BY CallType
      <4>2. DeedsName'
        BY <4>1, <3>2, <1>0 DEF Begin, Start, IInv, DeedsName
      <4>3. \A s \in Slot : ~Creating(s)'
        BY <4>1, <3>2, <2>1, <1>0 DEF Begin, Start, IInv, CreateHasDialog, Creating
      <4> QED BY <4>1, <4>2, <4>3, <3>2, <1>0 DEF Begin, Start
    <3> QED BY <3>1, <3>2, <2>1, <1>0 DEF TypeOK
  <2>3. /\ dialog'.kind \in {"none", "add", "delete", "warn"}
        /\ dialog'.kind # "none" => dialog'.group = selected
    BY <2>1 DEF Open, NoDialog
  <2>4. TypeOK'
    BY <2>1, <2>2, <1>0 DEF TypeOK, Tasks, Open, NoDialog
  <2> QED BY <2>1, <2>2, <2>3, <2>4 DEF IInv, CreateHasDialog, PendingIsAlone,
          DialogIsAboutSelected, DetailIsSelected
<1>6. CASE PickUser
  <2>1. dialog'.kind = dialog.kind /\ dialog'.group = dialog.group
    BY <1>6, <1>0 DEF PickUser, TypeOK
  <2>2. TypeOK'
    BY <1>6, <1>0 DEF PickUser, TypeOK, DeedsName
  <2> QED BY <1>6, <2>1, <2>2 DEF PickUser, IInv, DeedsName, CreateHasDialog,
          Creating, PendingIsAlone, DialogIsAboutSelected, DetailIsSelected
<1>7. CASE ClickAdd
  <2>1. /\ dialog'.kind = dialog.kind /\ dialog'.group = dialog.group
        /\ dialog.kind = "add"
    BY <1>7, <1>0 DEF ClickAdd, TypeOK
  <2>2. task' \in [Slot -> Tasks] /\ DeedsName' /\ CreateHasDialog'
    BY <1>7, <2>1, <1>0, BeginKeeps DEF ClickAdd, TypeOK
  <2>3. TypeOK'
    BY <1>7, <2>2, <1>0 DEF ClickAdd, TypeOK, Tasks
  <2> QED BY <1>7, <2>1, <2>2, <2>3 DEF ClickAdd, IInv, PendingIsAlone,
          DialogIsAboutSelected, DetailIsSelected
<1>8. CASE ConfirmDelete \/ SaveAnyway
  <2>1. /\ dialog.kind \in {"delete", "warn"} /\ dialog' = NoDialog
        /\ \/ UNCHANGED task
           \/ selected # None /\ Begin(Call("delete", selected))
           \/ selected # None /\ Begin(Call("gid", selected))
        /\ delete_btn' \in BOOLEAN /\ rfc_save_btn' \in BOOLEAN
        /\ undefined' \in BOOLEAN
        /\ UNCHANGED <<dir, page, detail, pending>>
    BY <1>8, <1>0 DEF ConfirmDelete, SaveAnyway, SaveGid, TypeOK
  <2>2. task' \in [Slot -> Tasks] /\ DeedsName' /\ CreateHasDialog'
    <3>1. CASE UNCHANGED task
      BY <3>1, <2>1, <1>0 DEF IInv, DeedsName, CreateHasDialog, Creating
    <3>2. CASE ~UNCHANGED task
      BY <3>2, <2>1, <1>0, BeginKeeps DEF TypeOK
    <3> QED BY <3>1, <3>2
  <2>3. TypeOK'
    BY <2>1, <2>2, <1>0 DEF TypeOK, Tasks, NoDialog
  <2> QED BY <2>1, <2>2, <2>3 DEF IInv, PendingIsAlone, DialogIsAboutSelected,
          DetailIsSelected, NoDialog
<1>9. CASE OpenCreate
  <2>1. dialog.kind = "none" /\ dialog'.kind = "create" /\ dialog' \in
          [kind : {"create"}, group : {None}, users : BOOLEAN, can : BOOLEAN]
    BY <1>9 DEF OpenCreate, Clickable, NoDialog
  <2>2. TypeOK'
    BY <1>9, <2>1, <1>0 DEF OpenCreate, TypeOK, DeedsName
  <2> QED BY <1>9, <2>1, <2>2 DEF OpenCreate, IInv, DeedsName,
          CreateHasDialog, Creating, PendingIsAlone, DialogIsAboutSelected,
          DetailIsSelected
<1>10. ASSUME NEW g \in Group, ClickCreate(g) PROVE IInv'
  <2>1. /\ dialog.kind = "create" /\ dialog.can
        /\ dialog'.kind = "create" /\ ~dialog'.can
        /\ dialog' \in [kind : {"create"}, group : Group \cup {None},
                        users : BOOLEAN, can : {FALSE}]
    BY <1>10, <1>0 DEF ClickCreate, TypeOK
  <2>2. Call("create", g) \in Tasks /\ Call("create", g).group = g
    BY DEF Call, Idle, Tasks
  <2>3. PICK s \in Slot : task' = [task EXCEPT ![s] = Call("create", g)]
    BY <1>10 DEF ClickCreate, Begin, Start
  <2>4. \A i \in Slot \ {s} : ~Creating(i)'
    BY <2>1, <2>3, <1>0 DEF IInv, CreateHasDialog, Creating
  <2>5. task' \in [Slot -> Tasks] /\ DeedsName' /\ CreateHasDialog'
    BY <2>1, <2>2, <2>3, <2>4, <1>0 DEF IInv, DeedsName, CreateHasDialog
  <2>6. TypeOK'
    BY <1>10, <2>1, <2>5, <1>0 DEF ClickCreate, TypeOK, Tasks
  <2> QED BY <1>10, <2>1, <2>5, <2>6 DEF ClickCreate, IInv, PendingIsAlone,
          DialogIsAboutSelected, DetailIsSelected
<1>11. CASE UnselectRow
  BY <1>11, <1>0 DEF UnselectRow, Clickable, IInv, TypeOK, DeedsName,
     PendingIsAlone, CreateHasDialog, Creating, DialogIsAboutSelected,
     DetailIsSelected
<1> QED
  BY <1>1, <1>2, <1>3, <1>4, <1>5, <1>6, <1>7, <1>8, <1>9, <1>10, <1>11 DEF User

LEMMA LoadKeeps == ASSUME IInv, Load PROVE IInv'
<1>1. PICK s \in Slot : task' = [task EXCEPT ![s] = Call("list", None)]
  BY DEF Load, Begin, Start
<1>2. Call("list", None) \in Tasks /\ Call("list", None).op = "list"
  BY CallType
<1>3. task' \in [Slot -> Tasks] /\ DeedsName' /\ CreateHasDialog'
  BY <1>1, <1>2, ReplaceKeeps DEF Load
<1>4. TypeOK'
  BY <1>3 DEF Load, IInv, TypeOK, Tasks, detail
<1> QED BY <1>3, <1>4 DEF Load, IInv, PendingIsAlone, DialogIsAboutSelected,
        DetailIsSelected, detail

LEMMA Inductive == IInv /\ [Next]_vars => IInv'
<1> SUFFICES ASSUME IInv, [Next]_vars PROVE IInv'
  OBVIOUS
<1>1. CASE UNCHANGED vars
  BY <1>1 DEF vars, ui, detail, IInv, TypeOK, DeedsName, PendingIsAlone,
     CreateHasDialog, Creating, DialogIsAboutSelected, DetailIsSelected
<1>2. CASE Next
  BY <1>2, UserKeeps, LoadKeeps, WorkKeeps, CallbackKeeps DEF Next
<1> QED BY <1>1, <1>2

(* Every reachable state has its types. *)
THEOREM TypeCorrect == Spec => []TypeOK
<1>1. IInv => TypeOK
  BY DEF IInv
<1> QED BY <1>1, InitIInv, Inductive, PTL DEF Spec

(* A dialog acts on the group that it was opened for, or on none, for any  *)
(* groups and any number of calls in flight.                               *)
THEOREM DialogActsAsShown == Spec => []DialogIsAboutSelected
<1>1. IInv => DialogIsAboutSelected
  BY DEF IInv
<1> QED BY <1>1, InitIInv, Inductive, PTL DEF Spec

(* The detail that can be clicked is of the selected group, which is in    *)
(* the list.                                                               *)
THEOREM DetailActsAsShown == Spec => []DetailIsSelected
<1>1. IInv => DetailIsSelected
  BY DEF IInv
<1> QED BY <1>1, InitIInv, Inductive, PTL DEF Spec
=============================================================================
