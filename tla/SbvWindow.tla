----------------------------- MODULE SbvWindow -----------------------------
(***************************************************************************)
(* The main window (src/src/ui/sbv-window.c) and the two dialogs that hand *)
(* it connections (sbv-password-dialog.c, sbv-connect-dialog.c).  Every    *)
(* action is one callback of the GTK main loop.  Connections are reference *)
(* counted; the tasks that connect, list, save and query id ranges each    *)
(* hold a reference on the connection they run on and complete in any      *)
(* order.  One panel (sbv-users-panel.c) stands for the panels the window  *)
(* loads: all of them keep an unowned connection and load the same way.    *)
(*                                                                         *)
(* What a connection does inside is SbvConnection's business: here it is   *)
(* unused, connecting, up (its connect task succeeded) or failed.          *)
(***************************************************************************)
EXTENDS Integers, FiniteSets

CONSTANTS
    Conn,         \* connection objects (never allocated twice)
    Profile,      \* saved profiles in the sidebar
    Kerberos,     \* those that connect without asking for a password
    Unsaved,      \* profiles typed into the Add dialog and not saved
    Added,        \* profiles typed into the Add dialog and saved on success
    MaxTasks,     \* bound: a save starts with fewer lists on its connection
    NoConn, NoProfile

ASSUME WindowAssumption ==
    /\ Kerberos \subseteq Profile
    /\ Added \subseteq Profile
    /\ Unsaved \cap Profile = {}
    /\ NoProfile \notin Profile \cup Unsaved
    /\ NoConn \notin Conn
    /\ MaxTasks \in Nat \ {0}

VARIABLES
    phase,     \* what each connection is doing
    bound,     \* the profile each connection was created for
    ref,       \* GObject reference counts; a count of 0 frees the object
    conn,      \* window->conn, an owned reference
    active,    \* window->active_profile
    dialog,    \* the modal dialog: kind, profile, pending_conn, busy
    panel,     \* panel->conn (unowned), the page shown, whose rows the list has
    lists, saves, hints,   \* tasks in flight on each connection
    status,    \* status bar: the server shown, whose port and identity
    idmap,     \* status bar: whose id range is shown; NoProfile: none yet
    dot,       \* the sidebar row drawn as active
    crashed    \* the program has dereferenced NULL

tasks  == <<lists, saves, hints>>
labels == <<status, idmap>>
vars   == <<phase, bound, ref, conn, active, dialog, panel, tasks, labels,
            dot, crashed>>

AnyProfile == Profile \cup Unsaved
MaybeConn == Conn \cup {NoConn}
MaybeProfile == AnyProfile \cup {NoProfile}

NoDialog == [kind |-> "none", profile |-> NoProfile, pending |-> NoConn,
             busy |-> FALSE]

TypeOK ==
    /\ phase \in [Conn -> {"unused", "connecting", "up", "failed"}]
    /\ bound \in [Conn -> MaybeProfile]
    /\ ref \in [Conn -> Int]
    /\ conn \in MaybeConn
    /\ active \in Profile \cup {NoProfile}
    /\ dialog \in [kind : {"none", "password", "add"}, profile : MaybeProfile,
                   pending : MaybeConn, busy : BOOLEAN]
    /\ panel \in [conn : MaybeConn, page : {"empty", "loading", "split"},
                  rows : MaybeConn]
    /\ lists \in [Conn -> 0 .. MaxTasks]
    /\ saves \in [Conn -> 0 .. MaxTasks]
    /\ hints \in [Conn -> Profile \cup {NoProfile}]
    /\ status \in [server : MaybeProfile, identity : Profile \cup {NoProfile}]
    /\ idmap \in Profile \cup {NoProfile}
    /\ dot \in Profile \cup {NoProfile}
    /\ crashed \in BOOLEAN

Init ==
    /\ phase = [c \in Conn |-> "unused"]
    /\ bound = [c \in Conn |-> NoProfile]
    /\ ref = [c \in Conn |-> 0]
    /\ conn = NoConn
    /\ active = NoProfile
    /\ dialog = NoDialog
    /\ panel = [conn |-> NoConn, page |-> "empty", rows |-> NoConn]
    /\ lists = [c \in Conn |-> 0]
    /\ saves = [c \in Conn |-> 0]
    /\ hints = [c \in Conn |-> NoProfile]
    /\ status = [server |-> NoProfile, identity |-> NoProfile]
    /\ idmap = NoProfile
    /\ dot = NoProfile
    /\ crashed = FALSE

Alive(c) == c # NoConn /\ ref[c] > 0

(* A handler may run: no dialog covers the window, and the program runs on *)
(* objects that still exist.  What follows the use of a freed object is    *)
(* undefined and not modelled.                                             *)
Runs == ~crashed /\ (conn # NoConn => Alive(conn))
Clickable == Runs /\ dialog.kind = "none"

-----------------------------------------------------------------------------
(* Connecting.  The new object has the reference of its creator, and the   *)
(* connect task's.                                                         *)

StartConnect(c, p) ==
    /\ phase[c] = "unused"
    /\ phase' = [phase EXCEPT ![c] = "connecting"]
    /\ bound' = [bound EXCEPT ![c] = p]

(* A click on a sidebar row: active_profile changes at once, whatever      *)
(* becomes of the connection attempt.                                      *)
ClickKerberos(c, p) ==
    /\ Clickable
    /\ p \in Kerberos
    /\ active' = p
    /\ StartConnect(c, p)
    /\ ref' = [ref EXCEPT ![c] = 2]
    /\ UNCHANGED <<conn, dialog, panel, tasks, labels, dot, crashed>>

ClickSimple(p) ==
    /\ Clickable
    /\ p \in Profile \ Kerberos
    /\ active' = p
    /\ dialog' = [NoDialog EXCEPT !.kind = "password", !.profile = p]
    /\ UNCHANGED <<phase, bound, ref, conn, panel, tasks, labels, dot, crashed>>

ClickAdd(p) ==
    /\ Clickable
    /\ p \in Unsaved \cup Added
    /\ dialog' = [NoDialog EXCEPT !.kind = "add", !.profile = p]
    /\ UNCHANGED <<phase, bound, ref, conn, active, panel, tasks, labels, dot,
                   crashed>>

Cancel ==
    /\ Runs /\ dialog.kind # "none" /\ ~dialog.busy
    /\ dialog' = NoDialog
    /\ ref' = [c \in Conn |-> ref[c] - (IF c = dialog.pending THEN 1 ELSE 0)]
    /\ UNCHANGED <<phase, bound, conn, active, panel, tasks, labels, dot,
                   crashed>>

(* The dialog's Connect button; a failed attempt may be repeated. *)
DialogConnect(c) ==
    /\ Runs /\ dialog.kind # "none" /\ ~dialog.busy
    /\ StartConnect(c, dialog.profile)
    /\ dialog' = [dialog EXCEPT !.pending = c, !.busy = TRUE]
    /\ ref' = [d \in Conn |-> IF d = c THEN 2
                              ELSE ref[d] - (IF d = dialog.pending THEN 1 ELSE 0)]
    /\ UNCHANGED <<conn, active, panel, tasks, labels, dot, crashed>>

-----------------------------------------------------------------------------
(* A panel's load: it forgets which connection it had, shows its loading   *)
(* page and starts a list task.  Rows stay until a list arrives.           *)
Load(c) == panel' = [panel EXCEPT !.conn = c, !.page = "loading"]

(* The sidebar's rows are made again, and one is marked. *)
Rebuild(marked) == dot' = marked

(* status_bar_update_identity does nothing without an active profile. *)
ShowIdentity(c, p) ==
    IF p = NoProfile THEN UNCHANGED labels
    ELSE /\ status' = [server |-> bound[c], identity |-> p]
         /\ idmap' = NoProfile

(* sbv_window_on_connected.  `dropped' references go with the callback.    *)
(* The id-range query reads its defaults from the profile: NULL crashes.   *)
OnConnected(c, p, dropped) ==
    /\ conn' = c
    /\ active' = p
    /\ Rebuild(p)
    /\ Load(c)
    /\ lists' = [lists EXCEPT ![c] = @ + 1]
    /\ ShowIdentity(c, p)
    /\ hints' = [hints EXCEPT ![c] = p]
    /\ crashed' = (p = NoProfile)
    /\ ref' = [d \in Conn |-> IF d = c
                              THEN ref[c] + 3 - dropped
                              ELSE ref[d] - (IF d = conn THEN 1 ELSE 0)]
    /\ UNCHANGED saves

(* Faulty: the failure path forgets g_object_unref. *)
KrbDoneLeaks(c) ==
    /\ Runs /\ phase[c] = "connecting" /\ c # dialog.pending
    /\ \/ /\ phase' = [phase EXCEPT ![c] = "up"]
          /\ OnConnected(c, bound[c], 2)
       \/ /\ phase' = [phase EXCEPT ![c] = "failed"]
          /\ ref' = [ref EXCEPT ![c] = @ - 1]
          /\ UNCHANGED <<conn, active, panel, tasks, labels, dot, crashed>>
    /\ UNCHANGED <<bound, dialog>>

(* on_krb_connect_done: the creator's and the task's reference are gone. *)
KrbDone(c) ==
    /\ Runs /\ phase[c] = "connecting" /\ c # dialog.pending
    /\ \/ /\ phase' = [phase EXCEPT ![c] = "up"]
          /\ OnConnected(c, bound[c], 2)
       \/ /\ phase' = [phase EXCEPT ![c] = "failed"]
          /\ ref' = [ref EXCEPT ![c] = @ - 2]
          /\ UNCHANGED <<conn, active, panel, tasks, labels, dot, crashed>>
    /\ UNCHANGED <<bound, dialog>>

(* Faulty: a failed attempt leaves the dialog's buttons insensitive. *)
DialogFailedBusy(c) ==
    /\ Runs /\ phase[c] = "connecting" /\ c = dialog.pending
    /\ phase' = [phase EXCEPT ![c] = "failed"]
    /\ ref' = [ref EXCEPT ![c] = @ - 1]
    /\ UNCHANGED <<bound, conn, active, dialog, panel, tasks, labels, dot,
                   crashed>>

(* A failed attempt leaves the dialog open, with its pending connection. *)
DialogFailed(c) ==
    /\ Runs /\ phase[c] = "connecting" /\ c = dialog.pending
    /\ phase' = [phase EXCEPT ![c] = "failed"]
    /\ ref' = [ref EXCEPT ![c] = @ - 1]
    /\ dialog' = [dialog EXCEPT !.busy = FALSE]
    /\ UNCHANGED <<bound, conn, active, panel, tasks, labels, dot, crashed>>

(* on_connect_done of either dialog: destroying the dialog drops           *)
(* pending_conn, and the callback is followed by g_object_unref; with the  *)
(* task's that makes three.  The password dialog's callback takes the      *)
(* profile from the window, the Add dialog passes what it saved, if it     *)
(* could.                                                                  *)
PasswordDone(c) ==
    /\ Runs /\ phase[c] = "connecting" /\ c = dialog.pending
    /\ dialog.kind = "password"
    /\ phase' = [phase EXCEPT ![c] = "up"]
    /\ dialog' = NoDialog
    /\ OnConnected(c, active, 3)
    /\ UNCHANGED bound

AddDone(c) ==
    /\ Runs /\ phase[c] = "connecting" /\ c = dialog.pending
    /\ dialog.kind = "add"
    /\ phase' = [phase EXCEPT ![c] = "up"]
    /\ dialog' = NoDialog
    /\ \E p \in {NoProfile} \cup ({dialog.profile} \cap Profile) :
          OnConnected(c, p, 3)
    /\ UNCHANGED bound

-----------------------------------------------------------------------------
(* on_users_loaded: the rows are replaced by what the list found, nobody   *)
(* asks which connection the panel has by now; an error or an empty list   *)
(* shows the empty page.                                                   *)
ListDone(c) ==
    /\ ~crashed /\ lists[c] > 0
    /\ lists' = [lists EXCEPT ![c] = @ - 1]
    /\ ref' = [ref EXCEPT ![c] = @ - 1]
    /\ \/ panel' = [panel EXCEPT !.page = "split", !.rows = c]
       \/ panel' = [panel EXCEPT !.page = "empty"]
    /\ UNCHANGED <<phase, bound, conn, active, dialog, saves, hints, labels,
                   dot, crashed>>

(* A save button: the selected row is saved over the panel's connection. *)
SaveStart(c) ==
    /\ Clickable
    /\ panel.page = "split" /\ panel.conn = c /\ Alive(c)
    /\ lists[c] < MaxTasks /\ \A d \in Conn : saves[d] = 0
    /\ saves' = [saves EXCEPT ![c] = @ + 1]
    /\ ref' = [ref EXCEPT ![c] = @ + 1]
    /\ UNCHANGED <<phase, bound, conn, active, dialog, panel, lists, hints,
                   labels, dot, crashed>>

(* Faulty: one save reloads the panel twice. *)
SaveDoneTwice(c) ==
    /\ ~crashed /\ saves[c] > 0
    /\ saves' = [saves EXCEPT ![c] = @ - 1]
    /\ \/ /\ Load(c)
          /\ lists' = [lists EXCEPT ![c] = @ + 2]
          /\ ref' = [ref EXCEPT ![c] = @ + 1]
       \/ /\ ref' = [ref EXCEPT ![c] = @ - 1]
          /\ UNCHANGED <<panel, lists>>
    /\ UNCHANGED <<phase, bound, conn, active, dialog, hints, labels, dot,
                   crashed>>

(* Its completion reloads the panel over the connection that was saved to: *)
(* the finished task's reference goes, the list task's comes.              *)
SaveDone(c) ==
    /\ ~crashed /\ saves[c] > 0
    /\ saves' = [saves EXCEPT ![c] = @ - 1]
    /\ \/ /\ Load(c)
          /\ lists' = [lists EXCEPT ![c] = @ + 1]
          /\ UNCHANGED ref
       \/ /\ ref' = [ref EXCEPT ![c] = @ - 1]
          /\ UNCHANGED <<panel, lists>>
    /\ UNCHANGED <<phase, bound, conn, active, dialog, hints, labels, dot,
                   crashed>>

(* Faulty: the check that the window still has this connection is gone. *)
HintsDoneUnchecked(c) ==
    /\ ~crashed /\ hints[c] # NoProfile
    /\ hints' = [hints EXCEPT ![c] = NoProfile]
    /\ ref' = [ref EXCEPT ![c] = @ - 1]
    /\ idmap' = hints[c]
    /\ UNCHANGED <<phase, bound, conn, active, dialog, panel, lists, saves,
                   status, dot, crashed>>

(* on_status_idmap_loaded: dropped when the window has another connection  *)
(* by now; a failed query falls back on the window's profile.  It fails    *)
(* only on a connection without a handle, which none that is up is.        *)
HintsDone(c) ==
    /\ ~crashed /\ hints[c] # NoProfile
    /\ hints' = [hints EXCEPT ![c] = NoProfile]
    /\ ref' = [ref EXCEPT ![c] = @ - 1]
    /\ idmap' = IF conn = c THEN hints[c] ELSE idmap
    /\ UNCHANGED <<phase, bound, conn, active, dialog, panel, lists, saves,
                   status, dot, crashed>>

(* An edited profile redraws the sidebar. *)
EditSaved ==
    /\ Clickable
    /\ Rebuild(active)
    /\ UNCHANGED <<phase, bound, ref, conn, active, dialog, panel, tasks,
                   labels, crashed>>

-----------------------------------------------------------------------------
User ==
    \/ \E c \in Conn, p \in Profile : ClickKerberos(c, p)
    \/ \E p \in Profile : ClickSimple(p)
    \/ \E p \in AnyProfile : ClickAdd(p)
    \/ Cancel
    \/ \E c \in Conn : DialogConnect(c) \/ SaveStart(c)
    \/ EditSaved

ConnectDone(c) == KrbDone(c) \/ DialogFailed(c) \/ PasswordDone(c) \/ AddDone(c)

Completion(c) == ConnectDone(c) \/ ListDone(c) \/ SaveDone(c) \/ HintsDone(c)

Next == User \/ \E c \in Conn : Completion(c)

Spec == Init /\ [][Next]_vars

(* Every task completes in the end (SbvConnection: EveryRequestDelivered)  *)
(* and the main loop runs its callback.  The user need not do anything.    *)
FairSpec ==
    /\ Spec
    /\ \A c \in Conn : /\ WF_vars(ConnectDone(c))
                       /\ WF_vars(ListDone(c))
                       /\ WF_vars(SaveDone(c))
                       /\ WF_vars(HintsDone(c))
=============================================================================
