---------------------------- MODULE SbvWindowProofs ----------------------------
(* Proofs about SbvWindow, for any set of connections and profiles, and    *)
(* any number of tasks on a connection.                                    *)
EXTENDS SbvWindowProps, TLAPS

(* Only a connection that came up has work on it, or is kept by the window *)
(* or by the panel.                                                        *)
OnlyUpIsUsed ==
    /\ conn # NoConn => phase[conn] = "up"
    /\ panel.conn # NoConn => phase[panel.conn] = "up"
    /\ \A c \in Conn : phase[c] # "up" =>
          lists[c] = 0 /\ saves[c] = 0 /\ hints[c] = NoProfile

(* A dialog waits for the connection it made for its profile; without a    *)
(* dialog nothing is waited for.                                           *)
DialogWaits ==
    /\ dialog.kind = "none" => dialog.pending = NoConn
    /\ dialog.kind = "password" => dialog.profile \in Profile \ Kerberos
    /\ dialog.kind = "add" => dialog.profile \in Unsaved \cup Added
    /\ dialog.pending # NoConn =>
          /\ phase[dialog.pending] = IF dialog.busy THEN "connecting" ELSE "failed"
          /\ bound[dialog.pending] = dialog.profile

(* A connection attempt that no dialog waits for comes from the sidebar. *)
OthersAreKerberos ==
    \A c \in Conn :
        phase[c] = "connecting" /\ c # dialog.pending => bound[c] \in Kerberos

(* There is one save at a time, started with room for the list after it. *)
SaveHasRoom ==
    \A c \in Conn : saves[c] > 0 => saves[c] = 1 /\ lists[c] < MaxTasks

(* The inductive form of RefExact: no connection has more references than  *)
(* owners; only one that a dialog brought up may have fewer.               *)
Balanced(c) ==
    /\ ref[c] <= Owners(c)
    /\ phase[c] # "up" \/ FromSidebar(bound[c]) => ref[c] = Owners(c)
RefsBalanced == \A c \in Conn : Balanced(c)

(* The id range asked for over a connection from the sidebar is that of    *)
(* its profile.                                                            *)
HintsAreBound ==
    \A c \in Conn : FromSidebar(bound[c]) => hints[c] \in {NoProfile, bound[c]}

Shape == OnlyUpIsUsed /\ DialogWaits /\ OthersAreKerberos /\ SaveHasRoom

IInv ==
    /\ TypeOK /\ Shape
    /\ RefsBalanced
    /\ HintsAreBound /\ StatusDescribesConnection

-----------------------------------------------------------------------------
LEMMA NoDialogType ==
    /\ NoDialog \in [kind : {"none", "password", "add"}, profile : MaybeProfile,
                     pending : MaybeConn, busy : BOOLEAN]
    /\ NoDialog.kind = "none" /\ NoDialog.pending = NoConn
BY DEF NoDialog, MaybeProfile, MaybeConn

LEMMA ProfileTypes ==
    /\ Profile \cup {NoProfile} \subseteq MaybeProfile
    /\ Kerberos \subseteq Profile /\ Added \subseteq Profile
    /\ Unsaved \cup Added \subseteq AnyProfile
    /\ ~FromSidebar(NoProfile)
    /\ \A p \in (Profile \ Kerberos) \cup Unsaved \cup Added : ~FromSidebar(p)
BY WindowAssumption DEF MaybeProfile, AnyProfile, FromSidebar

LEMMA InitKeeps == ASSUME Init PROVE IInv
<1>1. TypeOK
  <2>1. 0 \in 0 .. MaxTasks
    BY WindowAssumption
  <2>2. /\ lists \in [Conn -> 0 .. MaxTasks] /\ saves \in [Conn -> 0 .. MaxTasks]
        /\ hints \in [Conn -> Profile \cup {NoProfile}] /\ ref \in [Conn -> Int]
    BY <2>1 DEF Init
  <2>3. /\ phase \in [Conn -> {"unused", "connecting", "up", "failed"}]
        /\ bound \in [Conn -> MaybeProfile]
        /\ panel \in [conn : MaybeConn, page : {"empty", "loading", "split"},
                      rows : MaybeConn]
        /\ status \in [server : MaybeProfile, identity : Profile \cup {NoProfile}]
    BY DEF Init, MaybeConn, MaybeProfile
  <2> QED BY <2>2, <2>3, NoDialogType DEF Init, TypeOK, MaybeConn
<1>2. Shape
  BY WindowAssumption, NoDialogType
  DEF Init, Shape, OnlyUpIsUsed, DialogWaits, OthersAreKerberos, SaveHasRoom
<1>3. ASSUME NEW c \in Conn PROVE Balanced(c)
  BY WindowAssumption, NoDialogType DEF Init, Balanced, Owners, Count
<1>4. HintsAreBound /\ StatusDescribesConnection
  BY DEF Init, HintsAreBound, StatusDescribesConnection
<1> QED BY <1>1, <1>2, <1>3, <1>4 DEF IInv, RefsBalanced

-----------------------------------------------------------------------------
(* Connecting. *)

LEMMA ClickKerberosKeeps ==
    ASSUME IInv, NEW c \in Conn, NEW p \in Profile, ClickKerberos(c, p)
    PROVE  IInv'
<1>1. /\ p \in Kerberos /\ active' = p /\ phase[c] = "unused"
      /\ phase' = [phase EXCEPT ![c] = "connecting"]
      /\ bound' = [bound EXCEPT ![c] = p]
      /\ ref' = [ref EXCEPT ![c] = 2]
      /\ UNCHANGED <<conn, dialog, panel, lists, saves, hints, status, idmap,
                     dot, crashed>>
  BY DEF ClickKerberos, StartConnect, tasks, labels
<1>2. c # conn /\ c # dialog.pending /\ c # panel.conn
  BY <1>1, WindowAssumption DEF IInv, Shape, OnlyUpIsUsed, DialogWaits
<1>3. TypeOK'
  BY <1>1, ProfileTypes DEF IInv, TypeOK
<1>4. Shape'
  BY <1>1, <1>2 DEF IInv, Shape, OnlyUpIsUsed, DialogWaits, OthersAreKerberos,
     SaveHasRoom, TypeOK, MaybeConn
<1>5. ASSUME NEW d \in Conn PROVE Balanced(d)'
  <2>1. CASE d = c
    BY <1>1, <1>2, <2>1 DEF IInv, TypeOK, Shape, OnlyUpIsUsed, Balanced, Owners,
       Count
  <2>2. CASE d # c
    BY <1>1, <2>2 DEF IInv, TypeOK, RefsBalanced, Balanced, Owners
  <2> QED BY <2>1, <2>2
<1>6. HintsAreBound' /\ StatusDescribesConnection'
  BY <1>1, <1>2 DEF IInv, TypeOK, Shape, OnlyUpIsUsed, HintsAreBound, MaybeConn,
     StatusDescribesConnection
<1> QED BY <1>3, <1>4, <1>5, <1>6 DEF IInv, RefsBalanced

(* A dialog is opened: it waits for nothing yet. *)
LEMMA OpenKeeps ==
    ASSUME IInv, NEW p \in AnyProfile, NEW k \in {"password", "add"},
           dialog.kind = "none",
           dialog' = [NoDialog EXCEPT !.kind = k, !.profile = p],
           k = "password" => p \in Profile \ Kerberos,
           k = "add" => p \in Unsaved \cup Added,
           active' \in Profile \cup {NoProfile},
           UNCHANGED <<phase, bound, ref, conn, panel, tasks, labels, dot, crashed>>
    PROVE  IInv'
<1>1. UNCHANGED <<phase, bound, ref, conn, panel, lists, saves, hints, status,
                  idmap, dot, crashed>>
  BY DEF tasks, labels
<1>2. /\ dialog' \in [kind : {"none", "password", "add"}, profile : MaybeProfile,
                      pending : MaybeConn, busy : BOOLEAN]
      /\ dialog'.kind = k /\ dialog'.profile = p /\ dialog'.pending = NoConn
  BY NoDialogType DEF MaybeProfile
<1>3. dialog.pending = NoConn
  BY DEF IInv, Shape, DialogWaits
<1>4. TypeOK'
  BY <1>1, <1>2 DEF IInv, TypeOK
<1>5. Shape'
  BY <1>1, <1>2, <1>3 DEF IInv, Shape, OnlyUpIsUsed, DialogWaits, OthersAreKerberos,
     SaveHasRoom
<1>6. ASSUME NEW d \in Conn PROVE Balanced(d)'
  BY <1>1, <1>2, <1>3 DEF IInv, RefsBalanced, Balanced, Owners
<1>7. HintsAreBound' /\ StatusDescribesConnection'
  BY <1>1 DEF IInv, HintsAreBound, StatusDescribesConnection
<1> QED BY <1>4, <1>5, <1>6, <1>7 DEF IInv, RefsBalanced

(* A dialog is closed: its connection attempt, if any, has failed. *)
LEMMA CancelKeeps == ASSUME IInv, Cancel PROVE IInv'
<1>1. /\ ~dialog.busy /\ dialog' = NoDialog
      /\ ref' = [c \in Conn |-> ref[c] - (IF c = dialog.pending THEN 1 ELSE 0)]
      /\ UNCHANGED <<phase, bound, conn, active, panel, lists, saves, hints,
                     status, idmap, dot, crashed>>
  BY DEF Cancel, tasks, labels
<1>2. dialog.pending # NoConn => phase[dialog.pending] = "failed"
  BY <1>1 DEF IInv, Shape, DialogWaits
<1>3. TypeOK'
  BY <1>1, NoDialogType DEF IInv, TypeOK
<1>4. Shape'
  BY <1>1, <1>2, NoDialogType, WindowAssumption
  DEF IInv, Shape, OnlyUpIsUsed, DialogWaits, OthersAreKerberos, SaveHasRoom
<1>5. ASSUME NEW d \in Conn PROVE Balanced(d)'
  <2>1. d # NoConn /\ ref[d] \in Int
    BY WindowAssumption DEF IInv, TypeOK
  <2> QED BY <1>1, <1>2, <2>1, NoDialogType
          DEF IInv, TypeOK, RefsBalanced, Balanced, Owners, Count
<1>6. HintsAreBound' /\ StatusDescribesConnection'
  BY <1>1 DEF IInv, HintsAreBound, StatusDescribesConnection
<1> QED BY <1>3, <1>4, <1>5, <1>6 DEF IInv, RefsBalanced

(* A dialog's new attempt releases the failed one before it. *)
LEMMA DialogConnectKeeps ==
    ASSUME IInv, NEW c \in Conn, DialogConnect(c) PROVE IInv'
<1>1. /\ dialog.kind # "none" /\ ~dialog.busy /\ phase[c] = "unused"
      /\ phase' = [phase EXCEPT ![c] = "connecting"]
      /\ bound' = [bound EXCEPT ![c] = dialog.profile]
      /\ dialog' = [dialog EXCEPT !.pending = c, !.busy = TRUE]
      /\ ref' = [d \in Conn |-> IF d = c THEN 2
                                ELSE ref[d] - (IF d = dialog.pending THEN 1 ELSE 0)]
      /\ UNCHANGED <<conn, active, panel, lists, saves, hints, status, idmap,
                     dot, crashed>>
  BY DEF DialogConnect, StartConnect, tasks, labels
<1>2. /\ c # conn /\ c # dialog.pending /\ c # panel.conn
      /\ dialog.pending # NoConn => phase[dialog.pending] = "failed"
  BY <1>1, WindowAssumption DEF IInv, Shape, OnlyUpIsUsed, DialogWaits
<1>3. /\ dialog'.pending = c /\ dialog'.busy = TRUE
      /\ dialog'.kind = dialog.kind /\ dialog'.profile = dialog.profile
      /\ dialog' \in [kind : {"none", "password", "add"}, profile : MaybeProfile,
                      pending : MaybeConn, busy : BOOLEAN]
  BY <1>1 DEF IInv, TypeOK, MaybeConn
<1>4. dialog.profile \in MaybeProfile
  BY DEF IInv, TypeOK
<1>5. TypeOK'
  BY <1>1, <1>3, <1>4 DEF IInv, TypeOK
<1>6. Shape'
  <2>1. OnlyUpIsUsed' /\ SaveHasRoom'
    BY <1>1, <1>2 DEF IInv, Shape, OnlyUpIsUsed, SaveHasRoom, TypeOK, MaybeConn
  <2>2. DialogWaits'
    BY <1>1, <1>3 DEF IInv, Shape, DialogWaits, TypeOK
  <2>3. OthersAreKerberos'
    BY <1>1, <1>2, <1>3, WindowAssumption
    DEF IInv, Shape, OthersAreKerberos, TypeOK, MaybeConn
  <2> QED BY <2>1, <2>2, <2>3 DEF Shape
<1>7. ASSUME NEW d \in Conn PROVE Balanced(d)'
  <2>1. d # NoConn /\ ref[d] \in Int
    BY WindowAssumption DEF IInv, TypeOK
  <2>2. CASE d = c
    BY <1>1, <1>2, <1>3, <2>2
    DEF IInv, TypeOK, Shape, OnlyUpIsUsed, Balanced, Owners, Count
  <2>3. CASE d # c
    BY <1>1, <1>2, <1>3, <2>1, <2>3
    DEF IInv, TypeOK, RefsBalanced, Balanced, Owners, Count
  <2> QED BY <2>2, <2>3
<1>8. HintsAreBound' /\ StatusDescribesConnection'
  BY <1>1, <1>2 DEF IInv, TypeOK, Shape, OnlyUpIsUsed, HintsAreBound, MaybeConn,
     StatusDescribesConnection
<1> QED BY <1>5, <1>6, <1>7, <1>8 DEF IInv, RefsBalanced

-----------------------------------------------------------------------------
(* A connection attempt succeeds.  From the sidebar, the two references of *)
(* the attempt go; from a dialog, three.  The window, the list and the id  *)
(* range query take one each.                                              *)
LEMMA OnConnectedKeeps ==
    ASSUME IInv, NEW c \in Conn, NEW p \in Profile \cup {NoProfile},
           NEW dropped \in {2, 3},
           phase[c] = "connecting", phase' = [phase EXCEPT ![c] = "up"],
           OnConnected(c, p, dropped), UNCHANGED bound,
           \/ /\ dropped = 2 /\ c # dialog.pending /\ UNCHANGED dialog
              /\ p = bound[c] /\ p \in Kerberos
           \/ /\ dropped = 3 /\ c = dialog.pending /\ dialog' = NoDialog
              /\ ~FromSidebar(bound[c])
    PROVE  IInv'
<1>1. /\ conn' = c /\ active' = p /\ dot' = p
      /\ panel' = [panel EXCEPT !.conn = c, !.page = "loading"]
      /\ lists' = [lists EXCEPT ![c] = @ + 1]
      /\ hints' = [hints EXCEPT ![c] = p]
      /\ crashed' = (p = NoProfile)
      /\ ref' = [d \in Conn |-> IF d = c THEN ref[c] + 3 - dropped
                                ELSE ref[d] - (IF d = conn THEN 1 ELSE 0)]
      /\ UNCHANGED saves
  BY DEF OnConnected, Rebuild, Load
<1>2. /\ lists[c] = 0 /\ saves[c] = 0 /\ hints[c] = NoProfile
      /\ c # conn /\ c # NoConn
  BY WindowAssumption DEF IInv, Shape, OnlyUpIsUsed
<1>3. \/ p = NoProfile /\ UNCHANGED <<status, idmap>>
      \/ p # NoProfile /\ status' = [server |-> bound[c], identity |-> p]
                       /\ idmap' = NoProfile
  BY DEF OnConnected, ShowIdentity, labels
<1>4. TypeOK'
  <2>1. lists' \in [Conn -> 0 .. MaxTasks]
    BY <1>1, <1>2, WindowAssumption DEF IInv, TypeOK
  <2>2. status' \in [server : MaybeProfile, identity : Profile \cup {NoProfile}]
    BY <1>3 DEF IInv, TypeOK
  <2>3. ref' \in [Conn -> Int]
    BY <1>1 DEF IInv, TypeOK
  <2>4. dialog' \in [kind : {"none", "password", "add"}, profile : MaybeProfile,
                     pending : MaybeConn, busy : BOOLEAN]
    BY NoDialogType DEF IInv, TypeOK
  <2>5. panel' \in [conn : MaybeConn, page : {"empty", "loading", "split"},
                    rows : MaybeConn]
    BY <1>1 DEF IInv, TypeOK, MaybeConn
  <2>6. /\ phase' \in [Conn -> {"unused", "connecting", "up", "failed"}]
        /\ hints' \in [Conn -> Profile \cup {NoProfile}]
    BY <1>1 DEF IInv, TypeOK
  <2> QED BY <1>1, <1>3, <2>1, <2>2, <2>3, <2>4, <2>5, <2>6
          DEF IInv, TypeOK, MaybeConn
<1>5. Shape'
  <2>1. OnlyUpIsUsed'
    BY <1>1 DEF IInv, TypeOK, Shape, OnlyUpIsUsed, MaybeConn
  <2>2. DialogWaits'
    BY NoDialogType DEF IInv, TypeOK, Shape, DialogWaits, NoDialog, MaybeConn
  <2>3. OthersAreKerberos'
    BY <1>2, NoDialogType DEF IInv, TypeOK, Shape, OthersAreKerberos
  <2>4. SaveHasRoom'
    BY <1>1, <1>2 DEF IInv, TypeOK, Shape, SaveHasRoom
  <2> QED BY <2>1, <2>2, <2>3, <2>4 DEF Shape
<1>6. ASSUME NEW d \in Conn PROVE Balanced(d)'
  <2>1. ref[d] \in Int /\ ref[c] \in Int
    BY DEF IInv, TypeOK
  <2>2. CASE d = c
    <3>1. ref[c] = 2
      BY <1>2 DEF IInv, TypeOK, RefsBalanced, Balanced, Owners, Count
    <3>2. /\ phase'[c] = "up" /\ ref'[c] = 5 - dropped
          /\ conn' = c /\ dialog'.pending # c
          /\ lists'[c] = 1 /\ saves'[c] = 0 /\ hints'[c] = p
      BY <1>1, <1>2, <3>1, NoDialogType DEF IInv, TypeOK
    <3>3. p \in Kerberos => p # NoProfile
      BY WindowAssumption
    <3> QED BY <1>2, <2>2, <3>2, <3>3 DEF Balanced, Owners, Count
  <2>3. CASE d # c
    <3>1. dialog.pending = d <=> dialog'.pending = d
      BY <2>3, NoDialogType, WindowAssumption
      DEF IInv, Shape, OthersAreKerberos, DialogWaits
    <3>2. /\ phase'[d] = phase[d] /\ conn' # d
          /\ lists'[d] = lists[d] /\ saves'[d] = saves[d] /\ hints'[d] = hints[d]
          /\ lists[d] \in Int /\ saves[d] \in Int
          /\ ref'[d] = ref[d] - (IF d = conn THEN 1 ELSE 0)
      BY <1>1, <2>3 DEF IInv, TypeOK
    <3> QED BY <2>1, <3>1, <3>2 DEF IInv, RefsBalanced, Balanced, Owners, Count
  <2> QED BY <2>2, <2>3
<1>7. HintsAreBound'
  BY <1>1 DEF IInv, TypeOK, HintsAreBound
<1>8. StatusDescribesConnection'
  BY <1>1, <1>3, WindowAssumption DEF StatusDescribesConnection
<1> QED BY <1>4, <1>5, <1>6, <1>7, <1>8 DEF IInv, RefsBalanced

(* An attempt fails: the references of `dropped' owners go with it. *)
LEMMA FailedKeeps ==
    ASSUME IInv, NEW c \in Conn, NEW dropped \in {1, 2},
           phase[c] = "connecting", phase' = [phase EXCEPT ![c] = "failed"],
           ref' = [ref EXCEPT ![c] = @ - dropped],
           UNCHANGED <<bound, conn, active, panel, tasks, labels, dot, crashed>>,
           \/ dropped = 2 /\ c # dialog.pending /\ UNCHANGED dialog
           \/ /\ dropped = 1 /\ c = dialog.pending
              /\ dialog' = [dialog EXCEPT !.busy = FALSE]
    PROVE  IInv'
<1>1. UNCHANGED <<bound, conn, active, panel, lists, saves, hints, status,
                  idmap, dot, crashed>>
  BY DEF tasks, labels
<1>2. /\ lists[c] = 0 /\ saves[c] = 0 /\ hints[c] = NoProfile
      /\ c # conn /\ c # panel.conn /\ c # NoConn
  BY WindowAssumption DEF IInv, Shape, OnlyUpIsUsed
<1>3. /\ dialog'.pending = dialog.pending /\ dialog'.kind = dialog.kind
      /\ dialog'.profile = dialog.profile
      /\ dialog' \in [kind : {"none", "password", "add"}, profile : MaybeProfile,
                      pending : MaybeConn, busy : BOOLEAN]
      /\ c = dialog.pending => dialog'.busy = FALSE
      /\ c # dialog.pending => dialog'.busy = dialog.busy
  BY DEF IInv, TypeOK
<1>4. TypeOK'
  BY <1>1, <1>3 DEF IInv, TypeOK
<1>5. Shape'
  <2>1. OnlyUpIsUsed' /\ SaveHasRoom'
    BY <1>1, <1>2 DEF IInv, TypeOK, Shape, OnlyUpIsUsed, SaveHasRoom, MaybeConn
  <2>2. DialogWaits'
    BY <1>1, <1>3 DEF IInv, TypeOK, Shape, DialogWaits, MaybeConn
  <2>3. OthersAreKerberos'
    BY <1>1, <1>3 DEF IInv, TypeOK, Shape, OthersAreKerberos
  <2> QED BY <2>1, <2>2, <2>3 DEF Shape
<1>6. ASSUME NEW d \in Conn PROVE Balanced(d)'
  <2>1. CASE d = c
    <3>1. ref[c] = 2
      BY <1>2 DEF IInv, TypeOK, RefsBalanced, Balanced, Owners, Count
    <3>2. /\ phase'[c] = "failed" /\ ref'[c] = ref[c] - dropped
          /\ lists'[c] = 0 /\ saves'[c] = 0 /\ hints'[c] = NoProfile /\ conn' # c
      BY <1>1, <1>2 DEF IInv, TypeOK
    <3>3. Owners(c)' = IF c = dialog.pending THEN 1 ELSE 0
      BY <1>3, <3>2 DEF Owners, Count
    <3> QED BY <2>1, <3>1, <3>2, <3>3 DEF Balanced
  <2>2. CASE d # c
    BY <1>1, <1>3, <2>2 DEF IInv, TypeOK, RefsBalanced, Balanced, Owners
  <2> QED BY <2>1, <2>2
<1>7. HintsAreBound' /\ StatusDescribesConnection'
  BY <1>1 DEF IInv, HintsAreBound, StatusDescribesConnection
<1> QED BY <1>4, <1>5, <1>6, <1>7 DEF IInv, RefsBalanced

LEMMA ConnectDoneKeeps ==
    ASSUME IInv, NEW c \in Conn, ConnectDone(c) PROVE IInv'
<1>1. CASE KrbDone(c)
  <2>1. phase[c] = "connecting" /\ c # dialog.pending /\ UNCHANGED <<bound, dialog>>
    BY <1>1 DEF KrbDone
  <2>2. bound[c] \in Kerberos /\ bound[c] \in Profile \cup {NoProfile}
    BY <2>1, WindowAssumption DEF IInv, Shape, OthersAreKerberos
  <2>3. CASE phase' = [phase EXCEPT ![c] = "up"] /\ OnConnected(c, bound[c], 2)
    BY <2>1, <2>2, <2>3, OnConnectedKeeps
  <2>4. CASE /\ phase' = [phase EXCEPT ![c] = "failed"]
             /\ ref' = [ref EXCEPT ![c] = @ - 2]
             /\ UNCHANGED <<conn, active, panel, tasks, labels, dot, crashed>>
    BY <2>1, <2>4, FailedKeeps
  <2> QED BY <1>1, <2>3, <2>4 DEF KrbDone
<1>2. CASE DialogFailed(c)
  BY <1>2, FailedKeeps DEF DialogFailed
<1>3. ASSUME c = dialog.pending, dialog.kind # "none" PROVE ~FromSidebar(bound[c])
  <2>1. /\ bound[c] = dialog.profile
        /\ dialog.profile \in (Profile \ Kerberos) \cup Unsaved \cup Added
    BY <1>3, WindowAssumption DEF IInv, TypeOK, Shape, DialogWaits
  <2> QED BY <2>1, ProfileTypes
<1>4. CASE PasswordDone(c)
  <2>1. /\ phase[c] = "connecting" /\ c = dialog.pending /\ dialog.kind = "password"
        /\ phase' = [phase EXCEPT ![c] = "up"] /\ dialog' = NoDialog
        /\ OnConnected(c, active, 3) /\ UNCHANGED bound
    BY <1>4 DEF PasswordDone
  <2>2. active \in Profile \cup {NoProfile}
    BY DEF IInv, TypeOK
  <2> QED BY <1>3, <2>1, <2>2, OnConnectedKeeps
<1>5. CASE AddDone(c)
  <2>1. /\ phase[c] = "connecting" /\ c = dialog.pending /\ dialog.kind = "add"
        /\ phase' = [phase EXCEPT ![c] = "up"] /\ dialog' = NoDialog
        /\ UNCHANGED bound
    BY <1>5 DEF AddDone
  <2>2. PICK p \in {NoProfile} \cup ({dialog.profile} \cap Profile) :
           OnConnected(c, p, 3)
    BY <1>5 DEF AddDone
  <2>3. p \in Profile \cup {NoProfile}
    OBVIOUS
  <2> QED BY <1>3, <2>1, <2>2, <2>3, OnConnectedKeeps
<1> QED BY <1>1, <1>2, <1>4, <1>5 DEF ConnectDone

-----------------------------------------------------------------------------
(* The work of a panel.  Each of these steps moves the number of           *)
(* references on one connection by as much as that of its owners.          *)
LEMMA WorkKeeps ==
    ASSUME IInv, NEW c \in Conn, phase[c] = "up",
           lists' \in [Conn -> 0 .. MaxTasks], saves' \in [Conn -> 0 .. MaxTasks],
           hints' \in [Conn -> Profile \cup {NoProfile}], ref' \in [Conn -> Int],
           \A d \in Conn \ {c} :
              /\ lists'[d] = lists[d] /\ saves'[d] = saves[d]
              /\ hints'[d] = hints[d] /\ ref'[d] = ref[d],
           ref'[c] - ref[c] = (lists'[c] - lists[c]) + (saves'[c] - saves[c])
              + (Count(hints'[c] # NoProfile) - Count(hints[c] # NoProfile)),
           hints'[c] \in {NoProfile, hints[c]},
           SaveHasRoom',
           panel' \in [conn : MaybeConn, page : {"empty", "loading", "split"},
                       rows : MaybeConn],
           panel'.conn \in {c, panel.conn},
           idmap' = idmap \/ (conn = c /\ idmap' = hints[c] /\ hints[c] # NoProfile),
           UNCHANGED <<phase, bound, conn, active, dialog, status, dot, crashed>>
    PROVE  IInv'
<1>1. TypeOK'
  BY DEF IInv, TypeOK
<1>2. Shape'
  BY DEF IInv, Shape, OnlyUpIsUsed, DialogWaits, OthersAreKerberos
<1>3. ASSUME NEW d \in Conn PROVE Balanced(d)'
  <2>1. CASE d = c
    <3>1. /\ ref[c] \in Int /\ ref'[c] \in Int
          /\ lists[c] \in Int /\ lists'[c] \in Int
          /\ saves[c] \in Int /\ saves'[c] \in Int
      BY DEF IInv, TypeOK
    <3> DEFINE held == Count(conn = c) + Count(dialog.pending = c)
                       + Count(phase[c] = "connecting")
                       + Count(phase[c] = "connecting" /\ dialog.pending # c)
               asked == Count(hints[c] # NoProfile)
    <3>2. held \in Int /\ held' = held /\ asked \in Int /\ asked' \in Int
      BY DEF Count
    <3>3. /\ Owners(c) = held + lists[c] + saves[c] + asked
          /\ Owners(c)' = held' + lists'[c] + saves'[c] + asked'
      BY DEF Owners
    <3>4. ref'[c] - ref[c] = (lists'[c] - lists[c]) + (saves'[c] - saves[c])
                             + (asked' - asked)
      OBVIOUS
    <3> HIDE DEF held, asked
    <3>5. Owners(c)' - ref'[c] = Owners(c) - ref[c] /\ Owners(c) \in Int
          /\ Owners(c)' \in Int
      BY <3>1, <3>2, <3>3, <3>4
    <3>6. Balanced(c)
      BY DEF IInv, RefsBalanced
    <3> QED BY <2>1, <3>1, <3>5, <3>6 DEF Balanced
  <2>2. CASE d # c
    BY <2>2 DEF IInv, RefsBalanced, Balanced, Owners
  <2> QED BY <2>1, <2>2
<1>4. HintsAreBound'
  BY DEF IInv, HintsAreBound
<1>5. StatusDescribesConnection'
  BY DEF IInv, HintsAreBound, StatusDescribesConnection
<1> QED BY <1>1, <1>2, <1>3, <1>4, <1>5 DEF IInv, RefsBalanced

LEMMA ListDoneKeeps == ASSUME IInv, NEW c \in Conn, ListDone(c) PROVE IInv'
<1>1. /\ lists[c] > 0
      /\ lists' = [lists EXCEPT ![c] = @ - 1] /\ ref' = [ref EXCEPT ![c] = @ - 1]
      /\ \/ panel' = [panel EXCEPT !.page = "split", !.rows = c]
         \/ panel' = [panel EXCEPT !.page = "empty"]
      /\ UNCHANGED <<phase, bound, conn, active, dialog, saves, hints, status,
                     idmap, dot, crashed>>
  BY DEF ListDone, labels
<1>2. phase[c] = "up"
  BY <1>1 DEF IInv, Shape, OnlyUpIsUsed
<1>3. lists' \in [Conn -> 0 .. MaxTasks] /\ ref' \in [Conn -> Int]
  BY <1>1, WindowAssumption DEF IInv, TypeOK
<1>4. /\ panel' \in [conn : MaybeConn, page : {"empty", "loading", "split"},
                     rows : MaybeConn]
      /\ panel'.conn = panel.conn
  BY <1>1 DEF IInv, TypeOK, MaybeConn
<1>5. SaveHasRoom'
  BY <1>1, WindowAssumption DEF IInv, TypeOK, Shape, SaveHasRoom
<1>6. ref'[c] - ref[c] = (lists'[c] - lists[c]) + (saves'[c] - saves[c])
         + (Count(hints'[c] # NoProfile) - Count(hints[c] # NoProfile))
  BY <1>1 DEF IInv, TypeOK, Count
<1>7. \A d \in Conn \ {c} :
         /\ lists'[d] = lists[d] /\ saves'[d] = saves[d]
         /\ hints'[d] = hints[d] /\ ref'[d] = ref[d]
  BY <1>1 DEF IInv, TypeOK
<1>8. /\ lists' \in [Conn -> 0 .. MaxTasks] /\ saves' \in [Conn -> 0 .. MaxTasks]
      /\ hints' \in [Conn -> Profile \cup {NoProfile}] /\ ref' \in [Conn -> Int]
      /\ hints'[c] \in {NoProfile, hints[c]}
      /\ panel' \in [conn : MaybeConn, page : {"empty", "loading", "split"},
                     rows : MaybeConn]
      /\ panel'.conn \in {c, panel.conn}
      /\ idmap' = idmap \/ (conn = c /\ idmap' = hints[c] /\ hints[c] # NoProfile)
  BY <1>1, <1>2, <1>3, <1>4, <1>5, <1>6 DEF IInv, TypeOK
<1> QED BY <1>1, <1>2, <1>3, <1>4, <1>5, <1>6, <1>7, <1>8, WorkKeeps

LEMMA SaveStartKeeps == ASSUME IInv, NEW c \in Conn, SaveStart(c) PROVE IInv'
<1>1. /\ panel.conn = c /\ lists[c] < MaxTasks /\ \A d \in Conn : saves[d] = 0
      /\ saves' = [saves EXCEPT ![c] = @ + 1] /\ ref' = [ref EXCEPT ![c] = @ + 1]
      /\ UNCHANGED <<phase, bound, conn, active, dialog, panel, lists, hints,
                     status, idmap, dot, crashed>>
  BY DEF SaveStart, labels
<1>2. phase[c] = "up"
  BY <1>1, WindowAssumption DEF IInv, Shape, OnlyUpIsUsed
<1>3. saves' \in [Conn -> 0 .. MaxTasks] /\ ref' \in [Conn -> Int]
  BY <1>1, WindowAssumption DEF IInv, TypeOK
<1>4. SaveHasRoom'
  BY <1>1 DEF IInv, TypeOK, SaveHasRoom
<1>5. ref'[c] - ref[c] = (lists'[c] - lists[c]) + (saves'[c] - saves[c])
         + (Count(hints'[c] # NoProfile) - Count(hints[c] # NoProfile))
  BY <1>1 DEF IInv, TypeOK, Count
<1>6. \A d \in Conn \ {c} :
         /\ lists'[d] = lists[d] /\ saves'[d] = saves[d]
         /\ hints'[d] = hints[d] /\ ref'[d] = ref[d]
  BY <1>1 DEF IInv, TypeOK
<1>7. /\ lists' \in [Conn -> 0 .. MaxTasks] /\ saves' \in [Conn -> 0 .. MaxTasks]
      /\ hints' \in [Conn -> Profile \cup {NoProfile}] /\ ref' \in [Conn -> Int]
      /\ hints'[c] \in {NoProfile, hints[c]}
      /\ panel' \in [conn : MaybeConn, page : {"empty", "loading", "split"},
                     rows : MaybeConn]
      /\ panel'.conn \in {c, panel.conn}
      /\ idmap' = idmap \/ (conn = c /\ idmap' = hints[c] /\ hints[c] # NoProfile)
  BY <1>1, <1>2, <1>3, <1>4, <1>5 DEF IInv, TypeOK
<1> QED BY <1>1, <1>2, <1>3, <1>4, <1>5, <1>6, <1>7, WorkKeeps

(* The list after a save: there is room for it. *)
LEMMA SaveDoneKeeps == ASSUME IInv, NEW c \in Conn, SaveDone(c) PROVE IInv'
<1>1. /\ saves[c] > 0 /\ saves' = [saves EXCEPT ![c] = @ - 1]
      /\ \/ /\ panel' = [panel EXCEPT !.conn = c, !.page = "loading"]
            /\ lists' = [lists EXCEPT ![c] = @ + 1] /\ ref' = ref
         \/ /\ ref' = [ref EXCEPT ![c] = @ - 1] /\ panel' = panel /\ lists' = lists
      /\ UNCHANGED <<phase, bound, conn, active, dialog, hints, status, idmap,
                     dot, crashed>>
  BY DEF SaveDone, Load, labels
<1>2. phase[c] = "up" /\ saves[c] = 1 /\ lists[c] < MaxTasks
  BY <1>1 DEF IInv, Shape, OnlyUpIsUsed, SaveHasRoom
<1>3. /\ lists' \in [Conn -> 0 .. MaxTasks] /\ saves' \in [Conn -> 0 .. MaxTasks]
      /\ ref' \in [Conn -> Int]
  BY <1>1, <1>2, WindowAssumption DEF IInv, TypeOK
<1>4. /\ panel' \in [conn : MaybeConn, page : {"empty", "loading", "split"},
                     rows : MaybeConn]
      /\ panel'.conn \in {c, panel.conn}
  BY <1>1 DEF IInv, TypeOK, MaybeConn
<1>5. SaveHasRoom'
  BY <1>1, <1>2 DEF IInv, TypeOK, Shape, SaveHasRoom
<1>6. ref'[c] - ref[c] = (lists'[c] - lists[c]) + (saves'[c] - saves[c])
         + (Count(hints'[c] # NoProfile) - Count(hints[c] # NoProfile))
  BY <1>1 DEF IInv, TypeOK, Count
<1>7. \A d \in Conn \ {c} :
         /\ lists'[d] = lists[d] /\ saves'[d] = saves[d]
         /\ hints'[d] = hints[d] /\ ref'[d] = ref[d]
  BY <1>1 DEF IInv, TypeOK
<1>8. /\ lists' \in [Conn -> 0 .. MaxTasks] /\ saves' \in [Conn -> 0 .. MaxTasks]
      /\ hints' \in [Conn -> Profile \cup {NoProfile}] /\ ref' \in [Conn -> Int]
      /\ hints'[c] \in {NoProfile, hints[c]}
      /\ panel' \in [conn : MaybeConn, page : {"empty", "loading", "split"},
                     rows : MaybeConn]
      /\ panel'.conn \in {c, panel.conn}
      /\ idmap' = idmap \/ (conn = c /\ idmap' = hints[c] /\ hints[c] # NoProfile)
  BY <1>1, <1>2, <1>3, <1>4, <1>5, <1>6 DEF IInv, TypeOK
<1> QED BY <1>1, <1>2, <1>3, <1>4, <1>5, <1>6, <1>7, <1>8, WorkKeeps

(* The answer is that of the window's connection or is dropped. *)
LEMMA HintsDoneKeeps == ASSUME IInv, NEW c \in Conn, HintsDone(c) PROVE IInv'
<1>1. /\ hints[c] # NoProfile /\ hints' = [hints EXCEPT ![c] = NoProfile]
      /\ ref' = [ref EXCEPT ![c] = @ - 1]
      /\ idmap' = IF conn = c THEN hints[c] ELSE idmap
      /\ UNCHANGED <<phase, bound, conn, active, dialog, panel, lists, saves,
                     status, dot, crashed>>
  BY DEF HintsDone
<1>2. phase[c] = "up"
  BY <1>1 DEF IInv, Shape, OnlyUpIsUsed
<1>3. hints' \in [Conn -> Profile \cup {NoProfile}] /\ ref' \in [Conn -> Int]
  BY <1>1 DEF IInv, TypeOK
<1>4. SaveHasRoom'
  BY <1>1 DEF IInv, Shape, SaveHasRoom
<1>5. ref'[c] - ref[c] = (lists'[c] - lists[c]) + (saves'[c] - saves[c])
         + (Count(hints'[c] # NoProfile) - Count(hints[c] # NoProfile))
  BY <1>1 DEF IInv, TypeOK, Count
<1>6. hints'[c] = NoProfile
  BY <1>1 DEF IInv, TypeOK
<1>7. \A d \in Conn \ {c} :
         /\ lists'[d] = lists[d] /\ saves'[d] = saves[d]
         /\ hints'[d] = hints[d] /\ ref'[d] = ref[d]
  BY <1>1 DEF IInv, TypeOK
<1>8. /\ lists' \in [Conn -> 0 .. MaxTasks] /\ saves' \in [Conn -> 0 .. MaxTasks]
      /\ hints' \in [Conn -> Profile \cup {NoProfile}] /\ ref' \in [Conn -> Int]
      /\ hints'[c] \in {NoProfile, hints[c]}
      /\ panel' \in [conn : MaybeConn, page : {"empty", "loading", "split"},
                     rows : MaybeConn]
      /\ panel'.conn \in {c, panel.conn}
      /\ idmap' = idmap \/ (conn = c /\ idmap' = hints[c] /\ hints[c] # NoProfile)
  BY <1>1, <1>2, <1>3, <1>4, <1>5, <1>6 DEF IInv, TypeOK
<1> QED BY <1>1, <1>2, <1>3, <1>4, <1>5, <1>6, <1>7, <1>8, WorkKeeps

-----------------------------------------------------------------------------
(* IInv is an inductive invariant: every callback of the main loop         *)
(* preserves it.                                                           *)
LEMMA NextKeeps == ASSUME IInv, [Next]_vars PROVE IInv'
<1>1. CASE UNCHANGED vars
  <2>1. UNCHANGED <<phase, bound, ref, conn, active, dialog, panel, lists, saves,
                    hints, status, idmap, dot, crashed>>
    BY <1>1 DEF vars, tasks, labels
  <2> QED BY <2>1 DEF IInv, TypeOK, Shape, OnlyUpIsUsed, DialogWaits,
          OthersAreKerberos, SaveHasRoom, RefsBalanced, Balanced, Owners,
          HintsAreBound, StatusDescribesConnection
<1>2. CASE User
  <2>1. ASSUME NEW p \in Profile, ClickSimple(p) PROVE IInv'
    BY <2>1, OpenKeeps DEF ClickSimple, Clickable, AnyProfile
  <2>2. ASSUME NEW p \in AnyProfile, ClickAdd(p) PROVE IInv'
    BY <2>2, OpenKeeps DEF ClickAdd, Clickable, IInv, TypeOK
  <2>3. CASE EditSaved
    <3>1. /\ dot' = active
          /\ UNCHANGED <<phase, bound, ref, conn, active, dialog, panel, lists,
                         saves, hints, status, idmap, crashed>>
      BY <2>3 DEF EditSaved, Rebuild, tasks, labels
    <3> QED BY <3>1 DEF IInv, TypeOK, Shape, OnlyUpIsUsed, DialogWaits,
            OthersAreKerberos, SaveHasRoom, RefsBalanced, Balanced, Owners,
            HintsAreBound, StatusDescribesConnection
  <2> QED BY <1>2, <2>1, <2>2, <2>3, ClickKerberosKeeps, CancelKeeps,
          DialogConnectKeeps, SaveStartKeeps DEF User
<1>3. ASSUME NEW c \in Conn, Completion(c) PROVE IInv'
  BY <1>3, ConnectDoneKeeps, ListDoneKeeps, SaveDoneKeeps, HintsDoneKeeps
  DEF Completion
<1> QED BY <1>1, <1>2, <1>3 DEF Next

THEOREM Invariant == Spec => []IInv
BY InitKeeps, NextKeeps, PTL DEF Spec

(* Every variable of the window keeps its type; so the bounds on tasks,    *)
(* stated where a save starts, hold at all times.                          *)
THEOREM TypeCorrect == Spec => []TypeOK
<1>1. IInv => TypeOK
  BY DEF IInv
<1> QED BY <1>1, Invariant, PTL

(* Whatever the order of the callbacks, a connection that nobody owns is   *)
(* freed, and one from the sidebar has as many references as owners.       *)
THEOREM RefsHold == Spec => []RefExact
<1>1. IInv => RefExact
  <2> SUFFICES ASSUME IInv, NEW c \in Conn
               PROVE  /\ Owners(c) = 0 => ref[c] <= 0
                      /\ FromSidebar(bound[c]) => ref[c] = Owners(c)
    BY DEF RefExact
  <2> QED BY DEF IInv, RefsBalanced, Balanced
<1> QED BY <1>1, Invariant, PTL

(* The status bar shows the server, the identity and the id range of the   *)
(* profile that the window's connection from the sidebar is bound with.    *)
THEOREM StatusHolds == Spec => []StatusDescribesConnection
<1>1. IInv => StatusDescribesConnection
  BY DEF IInv
<1> QED BY <1>1, Invariant, PTL

(* The window never keeps a connection from the sidebar that was freed. *)
THEOREM SidebarConnAlive ==
    Spec => [](conn # NoConn /\ FromSidebar(bound[conn]) => Alive(conn))
<1>1. IInv => (conn # NoConn /\ FromSidebar(bound[conn]) => Alive(conn))
  <2> SUFFICES ASSUME IInv, conn # NoConn, FromSidebar(bound[conn]) PROVE Alive(conn)
    OBVIOUS
  <2>1. conn \in Conn /\ ref[conn] = Owners(conn)
    BY DEF IInv, TypeOK, MaybeConn, RefsBalanced, Balanced
  <2>2. Owners(conn) > 0
    BY <2>1 DEF IInv, TypeOK, Owners, Count
  <2> QED BY <2>1, <2>2 DEF Alive
<1> QED BY <1>1, Invariant, PTL
=============================================================================
