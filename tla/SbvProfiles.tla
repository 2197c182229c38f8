----------------------------- MODULE SbvProfiles -----------------------------
(***************************************************************************)
(* The saved connection profiles: the list store of the window, the file   *)
(* connections.ini (src/src/backend/sbv-profiles.c), the sidebar           *)
(* (src/src/ui/sbv-window.c) and the Add and Edit dialogs                  *)
(* (src/src/ui/sbv-connect-dialog.c).  A profile is a name and a value     *)
(* that stands for its other fields.  The file is replaced as a whole, so  *)
(* that a crash leaves the old or the new one.                             *)
(***************************************************************************)
EXTENDS Naturals, Sequences, SequencesExt

CONSTANTS
    GroupName,   \* names a key file accepts for a group
    OtherName,   \* names it refuses: "[lab]"
    NoName,      \* the empty name entry
    Val,         \* host, port, base DN, ...
    MaxInitial,  \* bound: profiles in the file at first
    MaxFailures  \* bound: saves and loads that fail

Name == GroupName \cup OtherName

ASSUME ProfilesAssumption ==
    /\ GroupName \cap OtherName = {}
    /\ NoName \notin Name /\ Val # {}
    /\ MaxInitial \in Nat /\ MaxFailures \in Nat

VARIABLES
    store,       \* profiles_store
    disk,        \* connections.ini
    rows,        \* the profiles of the sidebar rows
    dialog,      \* the open dialog: kind, original_name, entries, progress
    failures     \* saves and loads that have failed

vars == <<store, disk, rows, dialog, failures>>

Profile == [name : Name, val : Val]
Value == CHOOSE v \in Val : TRUE
Closed == [kind |-> "none", original |-> NoName, name |-> NoName,
           val |-> Value, step |-> "open"]

TypeOK ==
    /\ store \in Seq(Profile) /\ disk \in Seq(Profile) /\ rows \in Seq(Profile)
    /\ dialog \in [kind : {"none", "add", "edit"}, original : Name \cup {NoName},
                   name : Name \cup {NoName}, val : Val,
                   step : {"open", "busy", "remove", "upsert"}]
    /\ failures \in 0 .. MaxFailures

Names(s) == {s[i].name : i \in DOMAIN s}
Unique(s) == \A i, j \in DOMAIN s : s[i].name = s[j].name => i = j

(* A key file has one group of a name. *)
Files == {s \in UNION {[1 .. n -> [name : GroupName, val : Val]] :
                          n \in 0 .. MaxInitial} : Unique(s)}

Init ==
    /\ disk \in Files
    /\ store = disk /\ rows = disk
    /\ dialog = Closed
    /\ failures = 0

-----------------------------------------------------------------------------
(* sbv_profiles_save writes one profile after the other: those whose name  *)
(* the key file accepts.                                                   *)
WrittenFirst(s) ==
    LET W[i \in 0 .. Len(s)] ==
          IF i = 0 THEN <<>>
          ELSE IF s[i].name \in GroupName THEN Append(W[i - 1], s[i])
          ELSE W[i - 1]
    IN  W
Written(s) == WrittenFirst(s)[Len(s)]

SaveOk(s)  == disk' = Written(s) /\ UNCHANGED failures
Failure    == failures < MaxFailures /\ failures' = failures + 1
SaveFails  == Failure /\ UNCHANGED disk

IndexOf(s, n) == SelectInSeq(s, LAMBDA p : p.name = n)

(* Faulty: the profile of that name is not looked for. *)
UpsertedAppends(s, p) == Append(s, p)

(* sbv_profiles_upsert *)
Upserted(s, p) ==
    LET i == IndexOf(s, p.name) IN
    IF i = 0 THEN Append(s, p) ELSE ReplaceAt(s, i, p)

(* Faulty: the loop has moved on when it removes. *)
RemovedNext(s, n) ==
    LET i == IndexOf(s, n) IN
    IF i = 0 THEN s ELSE RemoveAt(s, IF i < Len(s) THEN i + 1 ELSE i)

(* sbv_profiles_remove *)
Removed(s, n) ==
    LET i == IndexOf(s, n) IN IF i = 0 THEN s ELSE RemoveAt(s, i)

(* rebuild_profiles_list: one row for each profile of the store. *)
Rebuild == rows' = store'

Entered == [name |-> dialog.name, val |-> dialog.val]

-----------------------------------------------------------------------------
NoDialog == dialog.kind = "none"

OpenAdd ==
    /\ NoDialog
    /\ dialog' = [Closed EXCEPT !.kind = "add"]
    /\ UNCHANGED <<store, disk, rows, failures>>

OpenEdit(i) ==
    /\ NoDialog
    /\ dialog' = [kind |-> "edit", original |-> rows[i].name,
                  name |-> rows[i].name, val |-> rows[i].val, step |-> "open"]
    /\ UNCHANGED <<store, disk, rows, failures>>

(* The name entry stays sensitive while the dialog connects. *)
Type(n, v) ==
    /\ ~NoDialog /\ dialog.step \in {"open", "busy"}
    /\ dialog' = [dialog EXCEPT !.name = n, !.val = v]
    /\ UNCHANGED <<store, disk, rows, failures>>

Cancel ==
    /\ ~NoDialog /\ dialog.step = "open"
    /\ dialog' = Closed
    /\ UNCHANGED <<store, disk, rows, failures>>

ClickConnect ==
    /\ dialog.kind = "add" /\ dialog.step = "open"
    /\ dialog' = [dialog EXCEPT !.step = "busy"]
    /\ UNCHANGED <<store, disk, rows, failures>>

ConnectFailed ==
    /\ dialog.step = "busy"
    /\ dialog' = [dialog EXCEPT !.step = "open"]
    /\ UNCHANGED <<store, disk, rows, failures>>

(* Faulty: on_connect_done saves a profile without a name. *)
ConnectedUnnamed ==
    /\ dialog.step = "busy"
    /\ store' = Upserted(store, Entered)
    /\ SaveOk(store')
    /\ Rebuild
    /\ dialog' = Closed

(* on_connect_done: the profile is built from the entries again and saved  *)
(* if it has a name.  When it was not saved the window is given NULL, at   *)
(* which the program crashes (SbvWindow): see Restart.                     *)
Connected ==
    /\ dialog.step = "busy" /\ dialog.name # NoName
    /\ store' = Upserted(store, Entered)
    /\ SaveOk(store')
    /\ Rebuild
    /\ dialog' = Closed

(* on_save_clicked: an edited profile needs a name; a changed name first   *)
(* removes the old entry.                                                  *)
ClickSave ==
    /\ dialog.kind = "edit" /\ dialog.step = "open" /\ dialog.name # NoName
    /\ dialog' = [dialog EXCEPT !.step = IF dialog.original # dialog.name
                                         THEN "remove" ELSE "upsert"]
    /\ UNCHANGED <<store, disk, rows, failures>>

(* A failure to save without the old entry is only logged. *)
RemoveOld ==
    /\ dialog.step = "remove"
    /\ store' = Removed(store, dialog.original)
    /\ IF store' = store THEN UNCHANGED <<disk, failures>>
       ELSE SaveOk(store') \/ SaveFails
    /\ dialog' = [dialog EXCEPT !.step = "upsert"]
    /\ UNCHANGED rows

(* Faulty: the new profile is not written to the file. *)
UpsertNotSaved ==
    /\ dialog.step = "upsert"
    /\ store' = Upserted(store, Entered)
    /\ Rebuild
    /\ dialog' = Closed
    /\ UNCHANGED <<disk, failures>>

(* The dialog closes and on_edit_saved refreshes the sidebar. *)
Upsert ==
    /\ dialog.step = "upsert"
    /\ store' = Upserted(store, Entered)
    /\ SaveOk(store')
    /\ Rebuild
    /\ dialog' = Closed

(* The dialog shows the error; the store keeps the change. *)
UpsertFails ==
    /\ dialog.step = "upsert"
    /\ store' = Upserted(store, Entered)
    /\ SaveFails
    /\ dialog' = [dialog EXCEPT !.step = "open"]
    /\ UNCHANGED rows

(* The program ends, at any point, and starts again: sbv_profiles_load     *)
(* gives the profiles of the file, or none when it cannot be read.         *)
Restart ==
    /\ \/ store' = disk /\ UNCHANGED failures
       \/ Failure /\ store' = <<>>
    /\ Rebuild
    /\ dialog' = Closed
    /\ UNCHANGED disk

(* sbv_window_on_connected: a connection made from the sidebar, or one of  *)
(* a dialog that is not shown here, comes in.                              *)
OnConnected ==
    /\ dialog.step \in {"open", "busy"}
    /\ UNCHANGED <<store, disk, dialog, failures>>
    /\ Rebuild

Next ==
    \/ OpenAdd \/ Cancel \/ ClickConnect \/ ConnectFailed \/ Connected
    \/ ClickSave \/ RemoveOld \/ Upsert \/ UpsertFails
    \/ OnConnected \/ Restart
    \/ \E i \in DOMAIN rows : OpenEdit(i)
    \/ \E n \in Name \cup {NoName}, v \in Val : Type(n, v)

Spec == Init /\ [][Next]_vars
=============================================================================
