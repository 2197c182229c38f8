----------------------- MODULE SbvComputersPanelProofs -----------------------
(* Proofs about SbvComputersPanel, for every set of computers and SPNs and *)
(* any number of calls in flight.                                          *)
EXTENDS SbvComputersPanelProps, TLAPS

Tasks == [op : {"idle", "list", "attrs", "enable", "spns", "delete", "create"},
          st : {"sent", "ok", "error"},
          computer : Computer \cup {None},
          spns : SUBSET Spn, live : BOOLEAN, found : [Computer -> Entry]]

(* A computer's entry, in the directory or in a list of it. *)
Own(entries) == \A c \in Computer : entries[c].spns \subseteq SpnOf[c]

(* What a call will write or put into the panel. *)
TaskOwn(t) ==
    /\ t.op = "spns" => t.spns \subseteq SpnOf[t.computer]
    /\ Own(t.found)

(* A call that changes a computer names one. *)
Names(t) == t.op \in {"attrs", "enable", "spns", "delete", "create"}
                => t.computer \in Computer

TasksOK == /\ task \in [Slot -> Tasks]
           /\ \A s \in Slot : Names(task[s]) /\ TaskOwn(task[s])

(* The detail on the split page is of a computer. *)
DetailIsOfOne == page = "split" /\ shown => selected # None

WorkingOwn == shown /\ selected # None => working \subseteq SpnOf[selected]

IInv == /\ TypeOK
        /\ Own(dir) /\ Own(listed) /\ TasksOK
        /\ WorkingOwn
        /\ DetailIsOfOne
        /\ UnsavedSpnsCanBeSaved

LEMMA NoListType ==
    NoList \in [Computer -> Entry] /\ Own(NoList) /\ Absent \in Entry
BY DEF NoList, Absent, Entry, Own

LEMMA CallType ==
    ASSUME NEW op \in {"list", "attrs", "enable", "spns", "delete", "create"},
           NEW c \in Computer \cup {None}, op # "list" => c \in Computer,
           op # "spns"
    PROVE  /\ Call(op, c) \in Tasks /\ Call(op, c).op = op
           /\ Names(Call(op, c)) /\ TaskOwn(Call(op, c))
<1>1. /\ Idle \in Tasks /\ Idle.found = NoList
  BY NoListType DEF Idle, Tasks
<1>2. Call(op, c) \in Tasks /\ Call(op, c).op = op /\ Call(op, c).computer = c
      /\ Call(op, c).found = NoList
  BY <1>1 DEF Call, Tasks
<1> QED BY <1>2, NoListType DEF Names, TaskOwn

LEMMA IdleType == Idle \in Tasks /\ Idle.op = "idle" /\ Names(Idle) /\ TaskOwn(Idle)
BY NoListType DEF Idle, Tasks, Names, TaskOwn

(* One slot gets another call. *)
LEMMA ReplaceOK ==
    ASSUME TasksOK, NEW s \in Slot, NEW t \in Tasks, Names(t), TaskOwn(t),
           task' = [task EXCEPT ![s] = t]
    PROVE  /\ TasksOK' 
           /\ \A i \in Slot \ {s} : task'[i] = task[i]
           /\ task'[s] = t
<1>1. /\ task' \in [Slot -> Tasks]
      /\ \A i \in Slot \ {s} : task'[i] = task[i]
      /\ task'[s] = t
  BY DEF TasksOK
<1>2. \A i \in Slot : Names(task'[i]) /\ TaskOwn(task'[i])
  BY <1>1 DEF TasksOK
<1> QED BY <1>1, <1>2 DEF TasksOK, Names, TaskOwn, Own

LEMMA EndOK ==
    ASSUME TasksOK, NEW s \in Slot, Ends(s)
    PROVE  TasksOK' /\ \A i \in Slot \ {s} : task'[i] = task[i]
BY IdleType, ReplaceOK DEF Ends

LEMMA LoadAfterOK ==
    ASSUME TasksOK, NEW s \in Slot, LoadAfter(s)
    PROVE  TasksOK' /\ page' = "loading"
BY CallType, ReplaceOK DEF LoadAfter

LEMMA BeginOK ==
    ASSUME TasksOK,
           NEW op \in {"list", "attrs", "enable", "delete", "create"},
           NEW c \in Computer \cup {None}, op # "list" => c \in Computer,
           Begin(Call(op, c))
    PROVE  TasksOK' /\ \A i \in Slot : task[i].op = "spns" => task'[i] = task[i]
<1>1. PICK s \in Slot : /\ task[s].op = "idle"
                        /\ task' = [task EXCEPT ![s] = Call(op, c)]
  BY DEF Begin, Start
<1>2. /\ TasksOK'
      /\ \A i \in Slot \ {s} : task'[i] = task[i]
  BY <1>1, CallType, ReplaceOK
<1> QED BY <1>1, <1>2

(* The invariant speaks of all of the state but the buttons and dialogs. *)
LEMMA Assemble ==
    ASSUME IInv, TasksOK', 
           dir' \in [Computer -> Entry], Own(dir)',
           listed' \in [Computer -> Entry], Own(listed)',
           page' \in {"loading", "empty", "split"},
           selected' \in Computer \cup {None}, shown' \in BOOLEAN,
           working' \subseteq Spn, pending' \in Computer \cup {None},
           save_btn' \in BOOLEAN, spn_save_btn' \in BOOLEAN,
           delete_btn' \in BOOLEAN,
           dialog' \in {"none", "delete", "create", "creating"},
           undefined' \in BOOLEAN,
           WorkingOwn', DetailIsOfOne', UnsavedSpnsCanBeSaved'
    PROVE  IInv'
<1>1. DeedsName'
  BY DEF TasksOK, Names, DeedsName
<1>2. TypeOK'
  BY <1>1 DEF TypeOK, TasksOK, Tasks
<1> QED BY <1>2 DEF IInv

(* What the SPN editor shows does not change, nor do the calls it made. *)
LEMMA DetailStays ==
    ASSUME IInv, UNCHANGED detail, page' = page \/ page' # "split",
           page' = "split" =>
              \A s \in Slot : task[s].op = "spns" =>
                 task'[s].op = "spns" /\ task'[s].computer = task[s].computer
    PROVE  /\ WorkingOwn' /\ DetailIsOfOne' /\ UnsavedSpnsCanBeSaved'
           /\ listed' \in [Computer -> Entry] /\ Own(listed)'
           /\ selected' \in Computer \cup {None} /\ shown' \in BOOLEAN
           /\ working' \subseteq Spn /\ spn_save_btn' \in BOOLEAN
<1>1. UNCHANGED <<listed, selected, shown, working, spn_save_btn>>
  BY DEF detail
<1>2. WorkingOwn' /\ DetailIsOfOne'
  BY <1>1 DEF IInv, WorkingOwn, DetailIsOfOne
<1>3. UnsavedSpnsCanBeSaved'
  BY <1>1 DEF IInv, UnsavedSpnsCanBeSaved
<1>4. Own(listed)'
  BY <1>1 DEF IInv, Own
<1> QED BY <1>1, <1>2, <1>3, <1>4 DEF IInv, TypeOK

(* Steps that leave the directory and the detail as they are. *)
LEMMA AsideKeeps ==
    ASSUME IInv, TasksOK', UNCHANGED <<dir, detail>>,
           page' = page \/ page' \in {"loading", "empty"},
           page' = "split" =>
              \A s \in Slot : task[s].op = "spns" =>
                 task'[s].op = "spns" /\ task'[s].computer = task[s].computer,
           pending' \in Computer \cup {None},
           save_btn' \in BOOLEAN, delete_btn' \in BOOLEAN,
           dialog' \in {"none", "delete", "create", "creating"},
           undefined' \in BOOLEAN
    PROVE  IInv'
<1>1. page' \in {"loading", "empty", "split"}
  BY DEF IInv, TypeOK
<1>2. dir' \in [Computer -> Entry] /\ Own(dir)'
  BY DEF IInv, TypeOK, Own
<1> QED BY <1>1, <1>2, DetailStays, Assemble

-----------------------------------------------------------------------------
LEMMA InitIInv == Init => IInv
<1> SUFFICES ASSUME Init PROVE IInv
  OBVIOUS
<1>1. TasksOK
  <2>1. PICK s \in Slot :
          task = [i \in Slot |-> IF i = s THEN Call("list", None) ELSE Idle]
    BY DEF Init
  <2> QED BY <2>1, IdleType, CallType DEF TasksOK
<1>2. DeedsName
  BY <1>1 DEF TasksOK, Names, DeedsName
<1>3. dir \in [Computer -> Entry] /\ Own(dir)
  BY ComputersAssumption DEF Init, Own
<1>4. TypeOK
  BY <1>1, <1>2, <1>3, NoListType DEF Init, TypeOK, TasksOK, Tasks
<1> QED
  BY <1>1, <1>3, <1>4, NoListType
     DEF Init, IInv, WorkingOwn, DetailIsOfOne, UnsavedSpnsCanBeSaved

(* The workers change the directory and their own call. *)
LEMMA WorkKeeps ==
    ASSUME IInv, NEW s \in Slot, Work(s) PROVE IInv'
<1>0. /\ task \in [Slot -> Tasks] /\ task[s] \in Tasks
      /\ Names(task[s]) /\ TaskOwn(task[s])
      /\ dir \in [Computer -> Entry] /\ Own(dir)
  BY DEF IInv, TypeOK, TasksOK
<1>1. UNCHANGED <<ui, undefined>>
  BY DEF Work, Fail, ListComputers, UpdateAttrs, SetEnabled, SetSpn,
     CreateComputer, DeleteComputer
<1>2. dir' \in [Computer -> Entry] /\ Own(dir)'
  <2>1. CASE UNCHANGED dir
    BY <1>0, <2>1 DEF Own
  <2>2. CASE SetSpn(s)
    <3> DEFINE c == task[s].computer
               e == [dir[c] EXCEPT !.spns = task[s].spns]
    <3>1. c \in Computer /\ task[s].spns \subseteq Spn
          /\ task[s].spns \subseteq SpnOf[c]
      BY <1>0, <2>2 DEF SetSpn, Names, TaskOwn, Tasks
    <3>2. e \in Entry /\ e.spns = task[s].spns
      BY <1>0, <3>1 DEF Entry
    <3>3. dir' = [dir EXCEPT ![c] = e]
      BY <1>0, <3>1, <2>2 DEF SetSpn
    <3> HIDE DEF e, c
    <3> QED BY <1>0, <3>1, <3>2, <3>3 DEF Own
  <2>3. CASE CreateComputer(s)
    <3> DEFINE c == task[s].computer
               e == [dir[c] EXCEPT !.exists = TRUE]
    <3>1. c \in Computer
      BY <1>0, <2>3 DEF CreateComputer, Names
    <3>2. e \in Entry /\ e.spns = dir[c].spns
      BY <1>0, <3>1 DEF Entry
    <3>3. dir' = [dir EXCEPT ![c] = e]
      BY <1>0, <3>1, <2>3 DEF CreateComputer
    <3> HIDE DEF e, c
    <3> QED BY <1>0, <3>1, <3>2, <3>3 DEF Own
  <2>4. CASE DeleteComputer(s)
    BY <1>0, <2>4, NoListType DEF DeleteComputer, Own, Absent
  <2> QED
    BY <2>1, <2>2, <2>3, <2>4 DEF Work, Fail, ListComputers, UpdateAttrs,
       SetEnabled
<1>3. PICK new \in Tasks :
        /\ task' = [task EXCEPT ![s] = new]
        /\ new.op = task[s].op /\ new.computer = task[s].computer
        /\ new.spns = task[s].spns
        /\ new.found = task[s].found \/ new.found = dir
  <2>1. CASE ListComputers(s)
    <3> DEFINE new == [task[s] EXCEPT !.st = "ok", !.found = dir]
    <3>1. task' = [task EXCEPT ![s] = new]
      BY <2>1, <1>0 DEF ListComputers, Tasks
    <3>2. /\ new \in Tasks /\ new.op = task[s].op
          /\ new.computer = task[s].computer /\ new.spns = task[s].spns
          /\ new.found = dir
      BY <1>0 DEF Tasks
    <3> QED BY <3>1, <3>2
  <2>2. ASSUME NEW st \in {"ok", "error"}, Answer(s, st)
        PROVE  \E new \in Tasks :
                 /\ task' = [task EXCEPT ![s] = new]
                 /\ new.op = task[s].op /\ new.computer = task[s].computer
                 /\ new.spns = task[s].spns
                 /\ new.found = task[s].found \/ new.found = dir
    <3> DEFINE new == [task[s] EXCEPT !.st = st]
    <3>1. task' = [task EXCEPT ![s] = new]
      BY <2>2, <1>0 DEF Answer
    <3>2. /\ new \in Tasks /\ new.op = task[s].op
          /\ new.computer = task[s].computer /\ new.spns = task[s].spns
          /\ new.found = task[s].found
      BY <1>0 DEF Tasks
    <3> QED BY <3>1, <3>2
  <2> QED BY <2>1, <2>2 DEF Work, Fail, UpdateAttrs, SetEnabled, SetSpn,
          CreateComputer, DeleteComputer
<1>4. Names(new) /\ TaskOwn(new)
  BY <1>0, <1>3 DEF Names, TaskOwn
<1>5. /\ TasksOK'
      /\ \A i \in Slot : task'[i].op = task[i].op
                         /\ task'[i].computer = task[i].computer
  BY <1>3, <1>4, ReplaceOK DEF IInv
<1>6. UNCHANGED <<detail, page, pending, save_btn, delete_btn, dialog>>
  BY <1>1 DEF ui, buttons
<1>7. /\ WorkingOwn' /\ DetailIsOfOne' /\ UnsavedSpnsCanBeSaved'
      /\ listed' \in [Computer -> Entry] /\ Own(listed)'
      /\ selected' \in Computer \cup {None} /\ shown' \in BOOLEAN
      /\ working' \subseteq Spn /\ spn_save_btn' \in BOOLEAN
  BY <1>5, <1>6, DetailStays
<1> QED
  BY <1>1, <1>2, <1>5, <1>6, <1>7, Assemble DEF IInv, TypeOK

-----------------------------------------------------------------------------
(* The user. *)

LEMMA LoadKeeps == ASSUME IInv, Load PROVE IInv'
<1>1. TasksOK'
  BY BeginOK DEF Load, IInv
<1> QED BY <1>1, AsideKeeps DEF Load, IInv, TypeOK, buttons

(* load_computer_into_detail copies SPNs that are the computer's own. *)
LEMMA ShowKeeps ==
    ASSUME IInv, TasksOK', NEW c \in Computer,
           NEW models \in [Computer -> Entry], Own(models),
           ShowComputer(c, models), listed' = models,
           page' \in {"empty", "split"}, pending' \in Computer \cup {None},
           UNCHANGED <<dir, buttons, dialog, undefined>>
    PROVE  IInv'
<1>1. models[c] \in Entry /\ models[c].spns \subseteq SpnOf[c]
  BY DEF Own
<1>2. /\ selected' = c /\ c # None /\ shown' = TRUE /\ spn_save_btn' = FALSE
      /\ working' = models[c].spns /\ working' \subseteq Spn
  BY <1>1, ComputersAssumption DEF ShowComputer, Entry
<1>3. WorkingOwn' /\ DetailIsOfOne' /\ UnsavedSpnsCanBeSaved'
  BY <1>1, <1>2 DEF WorkingOwn, DetailIsOfOne, UnsavedSpnsCanBeSaved
<1>4. Own(listed)' /\ Own(dir)'
  BY DEF IInv, Own
<1> QED BY <1>2, <1>3, <1>4, Assemble DEF IInv, TypeOK, buttons

LEMMA SelectRowKeeps ==
    ASSUME IInv, NEW c \in Computer, SelectRow(c) PROVE IInv'
<1>1. TasksOK'
  BY DEF SelectRow, IInv, TasksOK, Names, TaskOwn, Own
<1>2. listed \in [Computer -> Entry] /\ Own(listed)
  BY DEF IInv, TypeOK
<1> QED
  BY <1>1, <1>2, ShowKeeps DEF SelectRow, Clickable, IInv, TypeOK

LEMMA UnselectRowKeeps == ASSUME IInv, UnselectRow PROVE IInv'
<1>0. /\ shown' = FALSE
      /\ UNCHANGED <<dir, page, listed, selected, working, spn_save_btn, pending,
                     buttons, dialog, task, undefined>>
  BY DEF UnselectRow
<1>1. TasksOK'
  BY <1>0 DEF IInv, TasksOK, Names, TaskOwn, Own
<1>2. WorkingOwn' /\ DetailIsOfOne' /\ UnsavedSpnsCanBeSaved'
  BY <1>0 DEF WorkingOwn, DetailIsOfOne, UnsavedSpnsCanBeSaved
<1>3. Own(listed)' /\ Own(dir)'
  BY <1>0 DEF IInv, Own
<1>4. /\ dir \in [Computer -> Entry] /\ listed \in [Computer -> Entry]
      /\ page \in {"loading", "empty", "split"}
      /\ selected \in Computer \cup {None} /\ working \subseteq Spn
      /\ pending \in Computer \cup {None}
      /\ dialog \in {"none", "delete", "create", "creating"}
  BY DEF IInv, TypeOK
<1>5. /\ save_btn \in BOOLEAN /\ spn_save_btn \in BOOLEAN
      /\ delete_btn \in BOOLEAN /\ undefined \in BOOLEAN
  BY DEF IInv, TypeOK
<1> QED
  BY <1>0, <1>1, <1>2, <1>3, <1>4, <1>5, Assemble DEF buttons

LEMMA EditKeeps ==
    ASSUME IInv, NEW spns \in SUBSET Spn, Edit(spns),
           shown /\ selected # None => spns \subseteq SpnOf[selected]
    PROVE  IInv'
<1>1. TasksOK'
  BY DEF Edit, IInv, TasksOK, Names, TaskOwn, Own
<1>2. WorkingOwn' /\ DetailIsOfOne'
  BY DEF Edit, IInv, WorkingOwn, DetailIsOfOne
<1>3. UnsavedSpnsCanBeSaved'
  BY DEF Edit, IInv, UnsavedSpnsCanBeSaved
<1>4. Own(listed)' /\ Own(dir)'
  BY DEF Edit, IInv, Own
<1>5. spn_save_btn' \in BOOLEAN
  BY DEF Edit
<1> QED
  BY <1>1, <1>2, <1>3, <1>4, <1>5, Assemble DEF Edit, IInv, TypeOK, buttons

LEMMA EditsKeep ==
    ASSUME IInv, NEW n \in Spn, AddSpn(n) \/ RemoveSpn(n) PROVE IInv'
<1>0. working \subseteq Spn /\ shown /\ selected # None
      /\ working \subseteq SpnOf[selected]
  BY DEF AddSpn, RemoveSpn, Editable, InDetail, IInv, TypeOK, WorkingOwn
<1>1. CASE AddSpn(n)
  <2>1. /\ Edit(working \cup {n}) /\ working \cup {n} \subseteq Spn
        /\ working \cup {n} \subseteq SpnOf[selected]
    BY <1>0, <1>1 DEF AddSpn
  <2> QED BY <2>1, EditKeeps
<1>2. CASE RemoveSpn(n)
  <2>1. /\ Edit(working \ {n}) /\ working \ {n} \subseteq Spn
        /\ working \ {n} \subseteq SpnOf[selected]
    BY <1>0, <1>2 DEF RemoveSpn
  <2> QED BY <2>1, EditKeeps
<1> QED BY <1>1, <1>2

(* The save's call takes over from the button. *)
LEMMA ClickSaveSpnsKeeps == ASSUME IInv, ClickSaveSpns PROVE IInv'
<1> DEFINE t == [Call("spns", selected) EXCEPT !.spns = working]
<1>0. /\ selected \in Computer /\ working \subseteq Spn
      /\ working \subseteq SpnOf[selected]
  BY DEF ClickSaveSpns, Editable, InDetail, IInv, TypeOK, WorkingOwn
<1>1. /\ t \in Tasks /\ t.op = "spns" /\ t.computer = selected
      /\ t.spns = working /\ t.found = NoList
  <2>1. Idle \in Tasks /\ Idle.found = NoList
    BY IdleType DEF Idle
  <2>2. Call("spns", selected) \in Tasks
        /\ Call("spns", selected).op = "spns"
        /\ Call("spns", selected).computer = selected
        /\ Call("spns", selected).found = NoList
    BY <1>0, <2>1 DEF Call, Tasks
  <2> QED BY <1>0, <2>2 DEF Tasks
<1>2. Begin(t)
  BY DEF ClickSaveSpns
<1> HIDE DEF t
<1>3. PICK s \in Slot : task[s].op = "idle" /\ task' = [task EXCEPT ![s] = t]
  BY <1>2 DEF Begin, Start
<1>4. Names(t) /\ TaskOwn(t)
  BY <1>0, <1>1, NoListType DEF Names, TaskOwn
<1>5. TasksOK' /\ task'[s] = t
  BY <1>1, <1>3, <1>4, ReplaceOK DEF IInv
<1>6. UNCHANGED <<dir, page, listed, selected, shown, working, pending,
                  buttons, dialog, undefined>> /\ spn_save_btn' = FALSE
  BY DEF ClickSaveSpns
<1>7. WorkingOwn' /\ DetailIsOfOne' /\ Own(listed)' /\ Own(dir)'
  BY <1>6 DEF IInv, WorkingOwn, DetailIsOfOne, Own
<1>8. UnsavedSpnsCanBeSaved'
  BY <1>1, <1>5, <1>6 DEF UnsavedSpnsCanBeSaved
<1>9. /\ dir' \in [Computer -> Entry] /\ listed' \in [Computer -> Entry]
      /\ page' \in {"loading", "empty", "split"}
      /\ selected' \in Computer \cup {None} /\ shown' \in BOOLEAN
      /\ working' \subseteq Spn /\ pending' \in Computer \cup {None}
  BY <1>6 DEF IInv, TypeOK
<1>10. /\ save_btn' \in BOOLEAN /\ spn_save_btn' \in BOOLEAN
       /\ delete_btn' \in BOOLEAN /\ undefined' \in BOOLEAN
       /\ dialog' \in {"none", "delete", "create", "creating"}
  BY <1>6 DEF IInv, TypeOK, buttons
<1> QED
  BY <1>5, <1>7, <1>8, <1>9, <1>10, Assemble

LEMMA CancelKeeps == ASSUME IInv, Cancel PROVE IInv'
<1>1. \A s \in Slot :
        /\ task'[s] \in Tasks
        /\ task'[s].op = task[s].op /\ task'[s].computer = task[s].computer
        /\ task'[s].spns = task[s].spns /\ task'[s].found = task[s].found
  <2> SUFFICES ASSUME NEW s \in Slot
               PROVE  /\ task'[s] \in Tasks
                      /\ task'[s].op = task[s].op
                      /\ task'[s].computer = task[s].computer
                      /\ task'[s].spns = task[s].spns
                      /\ task'[s].found = task[s].found
    OBVIOUS
  <2>1. task[s] \in Tasks
    BY DEF IInv, TasksOK
  <2>2. task'[s] = task[s] \/ task'[s] = [task[s] EXCEPT !.live = FALSE]
    BY DEF Cancel
  <2> QED BY <2>1, <2>2 DEF Tasks
<1>2. TasksOK'
  <2>1. task' \in [Slot -> Tasks]
    BY <1>1 DEF Cancel
  <2> QED BY <1>1, <2>1 DEF IInv, TasksOK, Names, TaskOwn, Own
<1> QED BY <1>1, <1>2, AsideKeeps DEF Cancel, IInv, TypeOK, buttons

LEMMA DialogsKeep ==
    ASSUME IInv, OpenDelete \/ OpenCreate PROVE IInv'
<1>1. TasksOK' /\ UNCHANGED <<dir, detail, page, task>>
  BY DEF OpenDelete, OpenCreate, IInv, TasksOK, Names, TaskOwn, Own
<1> QED
  BY <1>1, AsideKeeps DEF OpenDelete, OpenCreate, IInv, TypeOK, buttons

LEMMA BeginsKeep ==
    ASSUME IInv, \/ ClickSave \/ ConfirmDelete
                 \/ \E c \in New : ClickCreate(c)
    PROVE  IInv'
<1>1. CASE ClickSave
  <2>1. selected \in Computer /\ Begin(Call("attrs", selected))
    BY <1>1 DEF ClickSave, InDetail, IInv, TypeOK
  <2>2. TasksOK' /\ \A s \in Slot : task[s].op = "spns" => task'[s] = task[s]
    BY <2>1, BeginOK DEF IInv
  <2> QED BY <1>1, <2>2, AsideKeeps DEF ClickSave, IInv, TypeOK
<1>2. CASE ConfirmDelete
  <2>1. TasksOK' /\ \A s \in Slot : task[s].op = "spns" => task'[s] = task[s]
    <3>1. CASE selected = None
      BY <1>2, <3>1 DEF ConfirmDelete, IInv, TasksOK, Names, TaskOwn, Own
    <3>2. CASE selected # None
      <4>1. selected \in Computer /\ Begin(Call("delete", selected))
        BY <1>2, <3>2 DEF ConfirmDelete, IInv, TypeOK
      <4> QED BY <4>1, BeginOK DEF IInv
    <3> QED BY <3>1, <3>2
  <2>2. delete_btn' \in BOOLEAN
    BY <1>2 DEF ConfirmDelete, IInv, TypeOK
  <2> QED BY <1>2, <2>1, <2>2, AsideKeeps DEF ConfirmDelete, IInv, TypeOK
<1>3. ASSUME NEW c \in New, ClickCreate(c) PROVE IInv'
  <2>1. c \in Computer /\ Begin(Call("create", c))
    BY <1>3, ComputersAssumption DEF ClickCreate
  <2>2. TasksOK' /\ \A s \in Slot : task[s].op = "spns" => task'[s] = task[s]
    BY <2>1, BeginOK DEF IInv
  <2> QED BY <1>3, <2>2, AsideKeeps DEF ClickCreate, IInv, TypeOK, buttons
<1> QED BY <1>1, <1>2, <1>3

-----------------------------------------------------------------------------
(* The callbacks. *)

(* The call ends, or the list is asked for again. *)
LEMMA EndsKeep ==
    ASSUME IInv, NEW s \in Slot,
           \/ LoadAfter(s)
           \/ Ends(s) /\ task[s].op # "spns" /\ page' = page
           \/ Ends(s) /\ page' = "empty",
           UNCHANGED <<dir, detail>>,
           pending' \in Computer \cup {None},
           save_btn' \in BOOLEAN, delete_btn' \in BOOLEAN,
           dialog' \in {"none", "delete", "create", "creating"},
           undefined' \in BOOLEAN
    PROVE  IInv'
<1>1. CASE LoadAfter(s)
  <2>1. TasksOK' /\ page' = "loading"
    BY <1>1, LoadAfterOK DEF IInv
  <2> QED BY <2>1, AsideKeeps
<1>2. CASE Ends(s)
  <2>1. TasksOK' /\ \A i \in Slot \ {s} : task'[i] = task[i]
    BY <1>2, EndOK DEF IInv
  <2>2. CASE task[s].op # "spns" /\ page' = page
    BY <2>1, <2>2, AsideKeeps
  <2>3. CASE page' = "empty"
    BY <2>1, <2>3, AsideKeeps
  <2>4. CASE LoadAfter(s)
    BY <2>4, <1>1
  <2> QED BY <2>2, <2>3, <2>4
<1> QED BY <1>1, <1>2

LEMMA UpdateAttrsDoneKeeps ==
    ASSUME IInv, NEW s \in Slot, NEW enable \in BOOLEAN,
           UpdateAttrsDone(s, enable)
    PROVE  IInv'
<1>0. /\ task[s].op = "attrs"
      /\ UNCHANGED <<dir, detail, pending, delete_btn, dialog>>
  BY DEF UpdateAttrsDone, Returned
<1>1. CASE UNCHANGED <<task, page, save_btn>> /\ undefined' = TRUE
  <2>1. TasksOK'
    BY <1>1 DEF IInv, TasksOK, Names, TaskOwn, Own
  <2> QED BY <1>0, <1>1, <2>1, AsideKeeps DEF IInv, TypeOK
<1>2. CASE /\ selected # None
           /\ task' = [task EXCEPT ![s] = Call("enable", selected)]
           /\ UNCHANGED <<page, save_btn, undefined>>
  <2>1. selected \in Computer
    BY <1>2 DEF IInv, TypeOK
  <2>2. TasksOK' /\ \A i \in Slot \ {s} : task'[i] = task[i]
    BY <1>2, <2>1, CallType, ReplaceOK DEF IInv
  <2> QED BY <1>0, <1>2, <2>2, AsideKeeps DEF IInv, TypeOK
<1>3. CASE /\ save_btn' = TRUE /\ UNCHANGED undefined
           /\ LoadAfter(s) \/ (Ends(s) /\ UNCHANGED page)
  <2>1. /\ UNCHANGED <<dir, detail>> /\ pending' \in Computer \cup {None}
        /\ save_btn' \in BOOLEAN /\ delete_btn' \in BOOLEAN
        /\ dialog' \in {"none", "delete", "create", "creating"}
        /\ undefined' \in BOOLEAN
    BY <1>0, <1>3 DEF IInv, TypeOK
  <2> QED BY <1>0, <1>3, <2>1, EndsKeep
<1> QED BY <1>1, <1>2, <1>3 DEF UpdateAttrsDone

LEMMA SetEnabledDoneKeeps ==
    ASSUME IInv, NEW s \in Slot, SetEnabledDone(s) PROVE IInv'
<1>1. /\ task[s].op = "enable" /\ save_btn' = TRUE
      /\ UNCHANGED <<dir, detail, pending, delete_btn, dialog, undefined>>
      /\ LoadAfter(s) \/ (Ends(s) /\ UNCHANGED page)
  BY DEF SetEnabledDone, Returned
<1>2. /\ pending' \in Computer \cup {None}
      /\ save_btn' \in BOOLEAN /\ delete_btn' \in BOOLEAN
      /\ dialog' \in {"none", "delete", "create", "creating"}
      /\ undefined' \in BOOLEAN
  BY <1>1 DEF IInv, TypeOK
<1> QED BY <1>1, <1>2, EndsKeep

LEMMA SpnSaveDoneKeeps ==
    ASSUME IInv, NEW s \in Slot, SpnSaveDone(s) PROVE IInv'
<1>0. UNCHANGED <<dir, listed, selected, shown, working, pending, buttons,
                  dialog, undefined>>
  BY DEF SpnSaveDone
<1>1. CASE LoadAfter(s) /\ UNCHANGED spn_save_btn
  BY <1>0, <1>1, EndsKeep DEF detail, IInv, TypeOK, buttons
<1>2. CASE Ends(s) /\ spn_save_btn' = TRUE /\ UNCHANGED page
  <2>1. TasksOK'
    BY <1>2, EndOK DEF IInv
  <2>2. WorkingOwn' /\ DetailIsOfOne' /\ Own(listed)' /\ Own(dir)'
    BY <1>0, <1>2 DEF IInv, WorkingOwn, DetailIsOfOne, Own
  <2>3. UnsavedSpnsCanBeSaved'
    BY <1>2 DEF UnsavedSpnsCanBeSaved
  <2> QED
    BY <1>0, <1>2, <2>1, <2>2, <2>3, Assemble DEF IInv, TypeOK, buttons
<1> QED BY <1>1, <1>2 DEF SpnSaveDone

LEMMA DeleteDoneKeeps ==
    ASSUME IInv, NEW s \in Slot, DeleteDone(s) PROVE IInv'
<1>0. /\ task[s].op = "delete" /\ delete_btn' = TRUE
      /\ UNCHANGED <<dir, listed, shown, working, spn_save_btn, pending,
                     save_btn, dialog, undefined>>
  BY DEF DeleteDone, Returned
<1>1. CASE selected' = None /\ LoadAfter(s)
  <2>1. TasksOK' /\ page' = "loading"
    BY <1>1, LoadAfterOK DEF IInv
  <2>2. WorkingOwn' /\ DetailIsOfOne' /\ UnsavedSpnsCanBeSaved'
    BY <1>1, <2>1 DEF WorkingOwn, DetailIsOfOne, UnsavedSpnsCanBeSaved
  <2>3. Own(listed)' /\ Own(dir)'
    BY <1>0 DEF IInv, Own
  <2> QED BY <1>0, <1>1, <2>1, <2>2, <2>3, Assemble DEF IInv, TypeOK
<1>2. CASE Ends(s) /\ UNCHANGED <<selected, page>>
  BY <1>0, <1>2, EndsKeep DEF detail, IInv, TypeOK
<1> QED BY <1>1, <1>2 DEF DeleteDone

LEMMA CreateDoneKeeps ==
    ASSUME IInv, NEW s \in Slot, CreateDone(s) PROVE IInv'
<1>0. task[s].op = "create" /\ task[s].computer \in Computer
  BY DEF CreateDone, Returned, IInv, TypeOK, DeedsName
<1>1. CASE UseFreed
  <2>1. TasksOK' /\ UNCHANGED <<dir, detail, page, task, pending, save_btn,
                                delete_btn, dialog>>
    BY <1>1 DEF UseFreed, ui, buttons, IInv, TasksOK, Names, TaskOwn, Own
  <2> QED BY <1>1, <2>1, AsideKeeps DEF UseFreed, IInv, TypeOK
<1>2. CASE ~UseFreed
  BY <1>0, <1>2, EndsKeep DEF CreateDone, IInv, TypeOK, buttons
<1> QED BY <1>1, <1>2

LEMMA ListFailedKeeps ==
    ASSUME IInv, NEW s \in Slot, ListFailed(s) PROVE IInv'
BY EndsKeep DEF ListFailed, IInv, TypeOK, buttons

LEMMA ComputersLoadedKeeps ==
    ASSUME IInv, NEW s \in Slot, ComputersLoaded(s) PROVE IInv'
<1> DEFINE models == task[s].found
           target == IF pending # None THEN pending ELSE selected
<1>1. models \in [Computer -> Entry] /\ Own(models)
  BY DEF IInv, TasksOK, Tasks, TaskOwn
<1>2. TasksOK'
  BY EndOK DEF ComputersLoaded, IInv
<1>3. /\ listed' = models /\ page' \in {"empty", "split"} /\ pending' = None
      /\ UNCHANGED <<dir, buttons, dialog, undefined>>
  BY DEF ComputersLoaded
<1>4. target \in Computer \cup {None}
  BY DEF IInv, TypeOK
<1>5. \/ target # None /\ ShowComputer(target, models)
      \/ shown' = FALSE /\ UNCHANGED <<selected, working, spn_save_btn>>
  BY DEF ComputersLoaded
<1> HIDE DEF models, target
<1>6. CASE target # None /\ ShowComputer(target, models)
  BY <1>1, <1>2, <1>3, <1>4, <1>6, ShowKeeps
<1>7. CASE shown' = FALSE /\ UNCHANGED <<selected, working, spn_save_btn>>
  <2>1. WorkingOwn' /\ DetailIsOfOne' /\ UnsavedSpnsCanBeSaved'
    BY <1>7 DEF WorkingOwn, DetailIsOfOne, UnsavedSpnsCanBeSaved
  <2>2. Own(listed)' /\ Own(dir)'
    BY <1>1, <1>3 DEF IInv, Own
  <2> QED
    BY <1>1, <1>2, <1>3, <1>7, <2>1, <2>2, Assemble DEF IInv, TypeOK, buttons
<1> QED BY <1>5, <1>6, <1>7

-----------------------------------------------------------------------------
LEMMA NextIInv == IInv /\ [Next]_vars => IInv'
<1> SUFFICES ASSUME IInv, [Next]_vars PROVE IInv'
  OBVIOUS
<1>1. CASE User
  BY <1>1, SelectRowKeeps, UnselectRowKeeps, EditsKeep, ClickSaveSpnsKeeps, CancelKeeps,
     DialogsKeep, BeginsKeep DEF User
<1>2. CASE Load
  BY <1>2, LoadKeeps
<1>3. ASSUME NEW s \in Slot, Work(s) PROVE IInv'
  BY <1>3, WorkKeeps
<1>4. ASSUME NEW s \in Slot, Callback(s) PROVE IInv'
  BY <1>4, UpdateAttrsDoneKeeps, SetEnabledDoneKeeps, SpnSaveDoneKeeps,
     DeleteDoneKeeps, CreateDoneKeeps, ListFailedKeeps, ComputersLoadedKeeps
     DEF Callback
<1>5. CASE UNCHANGED vars
  <2>1. UNCHANGED <<dir, ui, task, undefined>>
    BY <1>5 DEF vars
  <2>2. TasksOK'
    BY <2>1 DEF IInv, TasksOK, Names, TaskOwn, Own
  <2> QED BY <2>1, <2>2, AsideKeeps DEF IInv, TypeOK, ui, buttons
<1> QED BY <1>1, <1>2, <1>3, <1>4, <1>5 DEF Next

(* The panel's variables keep their types; in particular every call that   *)
(* changes a computer names one.                                           *)
THEOREM TypeCorrect == Spec => []TypeOK
<1>1. IInv => TypeOK
  BY DEF IInv
<1> QED BY <1>1, InitIInv, NextIInv, PTL DEF Spec

(* No computer gets an SPN of another one, whatever the lists, selections, *)
(* deletions and reloads between an edit and its save.                     *)
THEOREM OwnSpnsOnly == Spec => []SpnsOfOwn
<1>1. IInv => SpnsOfOwn
  BY DEF IInv, SpnsOfOwn, Own, TasksOK, TaskOwn, WorkingOwn
<1> QED BY <1>1, InitIInv, NextIInv, PTL DEF Spec

(* Staged SPNs can be saved, or their save is on its way. *)
THEOREM StagedCanBeSaved == Spec => []UnsavedSpnsCanBeSaved
<1>1. IInv => UnsavedSpnsCanBeSaved
  BY DEF IInv
<1> QED BY <1>1, InitIInv, NextIInv, PTL DEF Spec
=============================================================================
