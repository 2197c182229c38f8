# A TLA+ model of sambervise

Sambervise is a GTK program that administers Samba Active Directory domain
controllers over LDAP. Its C code has three layers: `src/src/backend` (one LDAP
connection object, and functions that run LDAP requests in worker threads),
`src/src/model` (objects with the attributes of users, groups, ...) and
`src/src/ui` (the window, its panels and dialogs). What can go wrong is not in
any one function but in the order in which threads, completions, dialogs and
other administrators act; that is what these modules are about.

Run, for example, `tlc -workers 2 -config MCConnection.cfg MCSbvConnection` and
`tlapm SbvConnectionProofs.tla`.

## 1. Inventory

| component | state it keeps | operations | hard behaviour | what makes it correct |
|---|---|---|---|---|
| LDAP connection (`sbv-connection.c`) | a GMutex, the LDAP handle, profile, host, base DN, reference count | connect, disconnect, acquire and release around each request, finalize, accessors | worker threads against the main thread, error paths, the last reference | no handle is unbound in use, lost or unbound twice; every request is answered |
| main window and connection dialogs (`sbv-window.c`, `sbv-password-dialog.c`, `sbv-connect-dialog.c`) | current connection, active profile, status bar, sidebar dot, a pending connection per dialog | connect (Kerberos, password, Add), load the panels, show identity and id range | overlapping connects and completions for older connections, shared references | counts are exact, the status bar is about one connection, nothing stays busy |
| users panel and backend (`sbv-users-panel.c`, `sbv-create-user-dialog.c`, `sbv-users-backend.c`) | rows, selection, form, tasks in flight; the directory | list, save (rename, modify, enable), password policy, delete, create; reset, RFC2307 attributes | selections and reloads during a task, read-modify-write of userAccountControl | the account meant is the account changed; enabling changes one flag; buttons come back |
| UID and GID checks (`sbv-collisions.c`, the RFC2307 panes) | entry, debounce timer, warning, checks and suggestion in flight | type, check, suggest, load | late answers, a debounce, a scan in two orders at once | a warning is about the entry; a suggestion is free |
| connection profiles (`sbv-profiles.c`, the connect dialog) | the list store, `connections.ini`, sidebar rows, the dialog | load, add, edit, rename, save, restart | failing saves, unreadable files, crashes between two saves | a book of named entries with a saved copy |
| groups panel and backend (`sbv-groups-panel.c`, `sbv-create-group-dialog.c`) | rows, selection, members with a Remove button each, four dialogs, calls in flight | list, add and remove a member, gidNumber with a warning, create, delete | a list that replaces what a dialog or a Remove button was made for; contexts freed under a callback | a dialog acts on the group it was opened for; everything taken is given back |
| computers panel and backend (`sbv-computers-panel.c`, `sbv-create-computer-dialog.c`) | rows, selection, the SPNs being edited, two dialogs, calls in flight | list, save in two steps, edit and save SPNs, create, delete | a whole attribute is replaced with an edited copy while lists and selections change | no computer gets another's SPNs; edits can always be saved |
| LDAP browser (`sbv-ldap-panel.c`, `sbv-ldap-browse.c`) | a lazy tree, search results, the attribute editor, calls in flight | load, expand, search, select, edit, save, refresh | an answer for another entry than the one in the editor; nodes freed under a call | only what was typed is written, to the entry it was typed for |
| contacts panel and backend | as the users panel without flags | list, save, create, delete | as the users panel | not modelled |
| create dialog for contacts | entries, a pending creation | create | closed while it creates | not modelled |
| discovery, probe, idmap hints | none that lasts | asynchronous queries | never cancelled | the hints' effect only, in `SbvNextFree` and `SbvWindow` |
| models, application shell, build, tests | plain properties | setters | none | left out |

How they interact: a panel calls a backend function with the connection; the
function copies what it needs (a DN, attributes) and starts a GTask, which holds
a reference on the connection; the task's worker thread takes the connection's
mutex, runs its LDAP requests, releases the mutex and returns; the main loop
later calls the panel back. As the mutex is released before the task returns,
callbacks may come in another order than the requests were served. The user
interface is one thread: a callback is one atomic step, and steps of the
operator come between callbacks. The window gives its connection to all
panels, which do not own it. Profiles are shared by the window and the dialogs
through one list store. `PROJECT.json` lists 40 hazards at their source lines.

## 2. The modules

| module | what it is |
|---|---|
| `SbvConnection` | the connection object with its threads: each lock, unlock, LDAP call and assignment of `connect_thread`, the workers, disconnect and finalize is a step |
| `SbvConnectionProps` | its properties, the inductive invariant and the refinement mapping |
| `SbvSession` | what a connection promises: requests that are answered at one instant by the session of that instant |
| `SbvConnectionProofs` | proofs: safety, and that `SbvConnection` implements `SbvSession` |
| `SbvWindow`, `SbvWindowProps`, `SbvWindowProofs` | the window and its dialogs: one action per callback, with reference counts; and proofs |
| `SbvUsersPanel`, `SbvUsersPanelProps`, `SbvUsersPanelProofs` | the panel, its workers and the directory, and proofs |
| `SbvIdCheck`, `SbvIdCheckProps` | the UID entry, debounced check, warning, Suggest |
| `SbvNextFree` | the search for the lowest free number |
| `SbvIdCheckProofs` | proofs about both, and that the search carries out `SbvIdCheck`'s scan |
| `SbvProfiles`, `SbvProfilesProps`, `SbvProfileBook`, `SbvProfilesProofs` | the profiles, the book they implement, and proofs |
| `SbvLdapBrowser`, `SbvLdapBrowserProps`, `SbvLdapBrowserProofs` | the browser's tree, search and editor with their workers, and proofs |
| `SbvGroupsPanel`, `SbvGroupsPanelProps`, `SbvGroupsPanelProofs` | the groups panel, its dialogs and workers, and proofs |
| `SbvComputersPanel`, `SbvComputersPanelProps`, `SbvComputersPanelProofs` | the computers panel, its dialogs and workers, and proofs |
| `MCSbv...` | model values and bounds for TLC |

In each module an operator marked *Faulty* is a plausible bug in the definition
after it. It is used by nothing; putting it in the place of that definition
makes TLC report a violation of the property `PROJECT.json` names with it, which
shows that the property depends on the code.

How state and actions correspond to the code:

* `SbvConnection`: `mutex`, `ld`, `connected`, `profile` are the fields of
  `struct _SbvConnection` (the profile stands for host and base DN too, which
  are set with it). `pc[t]` is where the worker is; `mpc` is where the main
  thread is inside disconnect or finalize. The steps from `Initialize` to
  `Unlock` are `connect_thread`; `Acquire`, `Exchange`, `Release` are every
  other worker; kind `"unix"` is the workers which return without a release when there
  is no handle (`set_unix_attrs_thread`, `set_group_unix_thread`). Handles are
  addresses and may be handed out again after an unbind, as by malloc.
  `AppClient` tells whether clients keep the habits of `src/src/ui` (a connection
  is used after its one connect succeeded, and nobody disconnects) or do anything
  the header allows.
* `SbvWindow`: `phase` and `bound` say how far a connection object's connect is
  and with which profile; `ref` is its reference count; `lists`, `saves`,
  `hints` count tasks in flight. One panel stands for the five, since all keep
  an unowned connection and load in the same way. What happens when the window's
  connection has been freed is undefined, and the model stops there (`Runs`).
* `SbvUsersPanel`: the directory `dir` is external. An account is its
  sAMAccountName and a current CN; a DN is that pair, as each account has its own
  container. userAccountControl has two flags, the disabled one and the one for
  passwords that do not expire. A task is idle, queued, half done (between its two
  requests), ok or failed; a worker in the half-done state holds the connection's
  mutex. `pending` is `pending_select_dn`, which the create dialog leaves for the
  next list. `sel.row` tells whether the selected SbvUser is still the object of a
  row. The enabling worker has read the flags, or its search has succeeded without
  showing them (`read`), and then it goes on with those of a normal account.
  Cancel frees the create dialog under its call, and the callback uses it:
  `crashed`.
* `SbvIdCheck`: `checks` is a bag of searches in flight, with the excluded user
  while the search is to come, and the users found after it. An error hides the
  warning just as an empty answer does, and is modelled as one.
* `SbvNextFree`: one step per branch of the walk over the sorted array. `used`
  is any set of numbers, and the answer any sequence of them.
* `SbvProfiles`: store, file and sidebar are sequences of profiles (a name, and one
  value for all other fields). A rename is two steps, as it saves twice; the
  program may end before, between and after. A connection that comes in meanwhile
  rebuilds the sidebar. Names that a key file refuses as a group
  name are written by no save, without an error.
* `SbvLdapBrowser`: the values of an attribute are a set. `split_values` cuts a
  text at semicolons and trims it; `Parts` says into what, for each value. A text
  may also have a value twice (`twice`), which makes its row changed:
  `values_equal_set` compares the numbers of values first, though the comment above
  it says "duplicate-insensitive" (`sbv-ldap-panel.c:233`). A modification may be
  applied and yet reported as failed. `split` is FALSE once a connection without a
  base DN has left the page that says so. `tasks` is a bag of
  calls, a call being queued until its worker has read or changed the directory,
  and done until its callback runs; callbacks come in any order. `tree[e].n`
  counts the nodes of an entry. `gen` counts the loads of the panel: the nodes
  of an earlier one are freed, and a callback that writes to one may do harm
  (`undefined`) or not. `rows[a].typed` is a history: the entry that was in the
  editor when the row was last edited.
* `SbvGroupsPanel`, `SbvComputersPanel`: a slot holds one call in flight, from
  its start to the callback, and then the call that its callback starts. Member
  lists, host names and descriptions are left out, as no step depends on them; the calls
  that change them are there. `dialog.group` is a history: the group a dialog was
  opened for. `button` is the context of the Remove buttons, `Freed` when a list
  has destroyed it. SPNs are compared without case, as LDAP does; the panel's own
  comparison, which decides whether its Save button is sensitive, is with case.
  Reading and writing userAccountControl is one step (`SetEnabled`): no flag of a
  computer is in the model, and the worker has the mutex in between.
* In the users, groups and computers modules a request that fails has changed
  nothing: an answer that is lost after the change is left out.

## 3. Runs, and why their bounds are enough

| run | instance | shows |
|---|---|---|
| `connection` | 3 tasks, 2 profiles (one with STARTTLS), 3 handles, all kinds, any client; symmetric tasks and handles | handle safety, no handle lost, the base DN named is that of the server asked, finalize leaves nothing, `SbvSession` is implemented |
| `connection_app` | 2 handles, clients as in the program, fair | every request is answered, a dropped connection is finalized; deadlock is checked |
| `window` | 3 connections, one Kerberos profile of the sidebar and one of the Add dialog, 1 task of each sort per connection, fair | exact reference counts and no leak, status bar and id range tell the truth, loading ends, a busy dialog returns |
| `users_delete` | 2 accounts, 3 clicks and edits, 1 write by someone else; symmetric | the detail is of a row; only the account whose name was typed is deleted |
| `users_save` | 1 account, 2 names, 4 clicks and edits, fair | a worker that has read the flags changes one; buttons and list return |
| `next_free` | range 1..3, numbers 0..4, up to 4 entries, hints below, in and above the range, fair | the first gap is found and the walk ends |
| `id_check` | 2 users (one with a number at first), 2 numbers, 2 checks in flight, 1 write, failing searches, fair | a lasting warning is about the entry, every typed number is checked, the pane comes to rest and Suggest returns |
| `profiles` | 2 good names, 1 refused, 2 values, 2 in the file at first, 2 failures, any number of crashes; symmetric names | names are unique, file, store and sidebar agree when nothing failed, `SbvProfileBook` is implemented whatever fails |
| `ldap` | root and one child, 1 attribute, 1 value that `split_values` keeps, 4 calls, 1 edit, 2 loads, fair | only what was typed is written, no entry is twice in the tree, an edited entry can be saved |
| `groups` | 2 groups (one built in), 2 calls in flight, any number of operations and reconnects, fair | dialogs and the detail act on the group they show, everything taken is given back |
| `computers` | 2 computers (one with an SPN, one that is created), 2 calls in flight, any number of operations and reconnects, fair | no computer gets another's SPN, staged SPNs can be saved, everything taken is given back |
| `window_password` | 3 connections, one Kerberos and one password profile, 2 tasks | **violated**: see findings |

Three tasks give two that race and one that connects or owns the handle they
race for; three handles let an address be handed out again while another is
installed. Three connections are an old, a current and a next one. Two accounts,
groups or computers are the one meant and the one hit instead. Two checks in
flight are enough for their answers to be exchanged; two numbers, for one of them
to be stale. The lockstep walk has every branch with numbers below, at both ends of, inside and
above the range, and with duplicates. Two failures let a save fail on what an
earlier failure left behind. In the panels two calls in flight are a list and
the deed it overtakes. In the browser four calls are a load, a save, its refresh
and a search or an expansion that one of them overtakes; the refresh itself is not
counted, and one edit is what a wrong answer could turn into a change elsewhere.

The invariants are proved for any such bounds (section 5); the liveness is not.

The runs with `CHECK_DEADLOCK FALSE` may stop: their bounds on clicks, tasks,
handles or connections are used up, undefined behaviour has been reached, or (in
`connection`) the mutex has been kept by a unix worker of a client that uses a
connection which is not connected. In `connection_app` and `profiles` no state
is without a successor.

Symmetry is used only in runs without liveness (the temporal property of
`profiles` and of `connection` is a refinement, without fairness), and only for
values that definitions do not tell apart (the STARTTLS profile is kept apart;
the two values of a profile are too).

Bounds in guards: `MaxTasks` (`ListDone`'s follow-ups and `SaveStart` of
`SbvWindow`), `MaxClicks`, `MaxOthers` and `Slot` (`SbvUsersPanel`),
`MaxChecks`, `MaxWrites` (`SbvIdCheck`), `MaxEntries` (`SbvNextFree`),
`MaxInitial`, `MaxFailures` (`SbvProfiles`), `MaxAsks`, `MaxEdits`, `MaxLoads`
(`SbvLdapBrowser`), `Slot` (`SbvGroupsPanel`, `SbvComputersPanel`), `New` and
`Directories` (`SbvComputersPanel`: whose name the user gives a new computer, and
what is there at first).

## 4. Fairness

Only what the program's own scheduling does is fair: a thread that can run
does, an LDAP call returns (success or error), and the main loop dispatches a
completion and a timer that is due. `connect_thread` sets
`LDAP_OPT_NETWORK_TIMEOUT`; that later calls of a connected server also return is
an assumption. The operator, other administrators, disconnects and crashes are
never fair: they may stop at any time. Weak fairness is enough, except that a
client which disconnects over and over again could starve the others;
`EveryRequestDelivered` excludes it by name (`ClientSettles`). Likewise
`PaneRests` excepts an entry that is changed for ever.

The liveness of the panels ends where undefined behaviour begins: a run in which
freed memory was used promises nothing. What must come back is stated as `[]<>Q`,
which is the same as `~Q ~> Q`: whenever it has been taken, it comes back.

## 5. What is proved

For every number of tasks, profiles and handles, and from `ConstantsAssumption`
alone (no finiteness is assumed):

* `SbvConnectionProofs`. The invariant `HandleSafety` is not inductive: that the
  handle in use is live rests on who may unbind it. `IInv` adds that whoever is
  in a critical section holds the mutex (`LockInv`); that a worker past the NULL
  check has the installed handle (`UseInv`); that private handles are live,
  pairwise distinct and not the installed one (`NoHandleLeak`); what holds while
  `self->ld` dangles between unbind and store, when libldap may hand that very
  address to another task (`DanglingInv`); what finalize may rely on
  (`FinalInv`); and which kinds of task are where (`KindInv`). There is one
  lemma per action, and under it one step per conjunct. From `[]IInv` follow
  `TypeCorrect`, `HandleIsSafe`, `NoHandleIsLost`, `BaseIsOfServer`,
  `FinalizedIsClean` and the action property `SessionIsStable`.
  `ConnectionImplementsSession`: the initial state maps to an initial state of
  `SbvSession`, and under `IInv` every step to a step of it or to a stutter. A
  request is decided where the worker is under the mutex (or gives up), so each
  answer has one instant at which it was true.

For every set of profiles and connections, of accounts and names, of users and
numbers, and for any number of references, tasks, clicks and checks:

* `SbvWindowProofs`. `RefExact` compares the count of a connection with its
  owners, and says nothing of the counts of a dialog's connection as long as it
  is owned; `Balanced` does: it never has more references than owners, and fewer
  only after a dialog has brought it up. That needs to know who can be an owner:
  only a connection that came up has work on it or is kept by the window or the
  panel (`OnlyUpIsUsed`), an attempt that no dialog waits for is from the
  sidebar (`OthersAreKerberos`), and a dialog waits for the connection it made
  for its own profile (`DialogWaits`). `RefsHold`, `StatusHolds` and
  `SidebarConnAlive` follow. The last is the complement of the finding of
  `window_password`: what holds of the window's connection when it comes from
  the sidebar fails only for one from a dialog.
* `SbvUsersPanelProofs`. `DeleteAsConfirmed` rests on `DialogIsOfSelected`:
  while the confirmation is open no other account can become selected, whatever
  is reloaded, though the selection may go. The list after a creation does
  select another account: `PendingIsAlone` says that none is confirmed meanwhile,
  since the two dialogs exclude each other (`OneDialog`) and the panel shows its
  loading page until that list is there. `SelectionHolds` rests on `RowIsSelected`:
  the selected user, unless it has lost its row, is the object of its account's row.
  `FlagsHold` is an action property,
  under the named hypothesis `Alone` (`MaxOthers = 0`: no other administrator
  writes, and the mutex is this program's only): `OneAtWork` and `ReadIsCurrent`
  say that what the enable task has read is still what the directory holds when
  it writes. It is about a task that has read the flags; what happens otherwise
  is among the findings.
* `SbvIdCheckProofs`. `WarningHolds` and `TypedHolds`: a warning or a typed
  number that does not fit the entry has a timer armed or a check of that entry
  in flight, and without a user there is nothing to type for (`EntryHasUser`).
  `FoundCorrect` and `WalkTypeCorrect` are about `SbvNextFree`, for every range,
  set of used numbers, answer and hint: all numbers from the start up to the
  candidate are taken, the array is sorted, and what the index has passed is
  below the candidate. `ScanIsWalk` joins the two modules: a walk that ends over
  the numbers which the users hold has found what the single step `Scan`
  suggests. (That `Min` is the least member, which its `CHOOSE` alone does not
  say, is proved first.)
* `SbvProfilesProofs`, for any names and values and files of any length. What
  `sbv_profiles_save` writes is defined by a recursive function on the length of
  the store: `FirstIsPart` and `WrittenFacts` say that it writes exactly the
  profiles whose names the file accepts, no name twice if the store has none
  twice, and the store as it is if all names are accepted. From this follow
  `NamesHold` and `CopiesHold`; their invariant adds what a dialog holds between
  its two saves (`DialogInv`), and that the sidebar may be behind only there
  (`CopiesInv`). `ProfilesImplementBook`: each step of the program is a step of
  `SbvProfileBook` or a stutter, for which the names must be unique, as lists
  become functions from names to values.

For every set of groups, of computers and SPNs, of entries, and for any number
of calls in flight:

* `SbvGroupsPanelProofs`. `DialogIsAboutSelected` is not inductive: a creation
  that succeeds makes the next list select the new group, under whatever dialog
  is open. `IInv` adds that no dialog about a group is open while a created
  group waits to be selected (`PendingIsAlone`) and, as its reason, that a
  creation which will tell the panel has its own modal dialog open and is alone
  (`CreateHasDialog`). `DetailIsSelected` follows with it.
* `SbvComputersPanelProofs`. `SpnsOfOwn` needs that every copy on the way (the
  rows' models, and the lists in flight) has own SPNs only;
  `UnsavedSpnsCanBeSaved` needs that a detail on the split page is of a computer
  (`DetailIsOfOne`).
* `SbvLdapBrowserProofs`. `WritesOnlyTypedHolds`, under the named hypothesis
  `Plain` (`split_values` keeps each value: no semicolon in it, no white space
  around): `RowsOfLoaded` says that a row nobody edited shows what was loaded,
  and that the others were edited in the entry that is loaded now; `TasksOK`,
  that an answer has the entries its callback looks up. `TwinsHold`, for every
  shape of the tree: `TwinsInv` adds that the calls for the children of this
  tree are at most one for each entry, with nothing below that entry yet, that
  an entry whose children were not asked for has none, and that no answer in
  flight is about a tree still to be loaded.

Each of them also proves its type invariant, in which every call that changes an
object names one.

The assumptions on the constants are those the modules name, and TLC evaluates
them in the runs. Beyond types and distinct null values they say: a number of
tasks, a range or a bound is a natural number; in `SbvProfiles` there is a value
a profile can have (`Val # {}`; without one there are no profiles to speak of).
`Plain` and `Alone` are hypotheses of their theorems; the configurations that
check those properties (`MCLdap.cfg`, `MCUsersSave.cfg`) satisfy them.

Every invariant the passing runs check, the two refinements and the action
property are proved. Only model-checked: all liveness (`EveryRequestDelivered`,
`DroppedIsFinalized`, `WindowReturns`, `PanelReturns` of three panels,
`PaneRests`, `WalkEnds` and `UnsavedCanBeSaved`), since fairness and ENABLED are
not within TLAPS's reach. No module has a RECURSIVE operator, which the provers
could not use. The library's theorems of induction take the property to prove as
an operator, which the installed provers cannot instantiate; where an induction
is needed it goes over a set: the lemma `Induction` of `SbvProfilesProofs` says
that a set of numbers which has 0, and with each number the next, has them all,
because `<` is well founded; `MinIs` and `MinOf` use the least member in the
same way. That `Sorted` can be reached from every answer (sorting is a choice of
a sorted permutation) is not proved but follows from finite sequences being
sortable.

## 6. Findings

One run shows where the code departs from what its comments and documents say:

* `window_password`: `on_connect_done` of the password dialog unreferences the
  connection after the dialog's destroy handler has done so, and takes away the window's
  own reference (`sbv-password-dialog.c:53`; the same in `sbv-connect-dialog.c:641`).
  The connection is freed while the window uses it.

Seen while modelling, in the modules as the code has them, without a run of their own:

* Enabling an account whose userAccountControl the search succeeds in not showing
  (no entry, or no such attribute in it) replaces the value by that of a normal
  account, and all its other flags are lost (`sbv-users-backend.c:229`); the
  computers' worker starts from 0 (`sbv-computers-backend.c:208`).
* Cancel in the create dialog of a user frees its context under the call, whose
  callback uses it: state `crashed` of `SbvUsersPanel` (`sbv-create-user-dialog.c:63`).
* A save that renames an account and enables or disables it sends the second
  request to the old DN, which fails (`sbv-users-panel.c:733`).
* A late answer for the user selected before, who has the same number, replaces
  the right one: the warning names the selected user as a conflict, or a
  collision is hidden (`sbv-users-panel.c:410`). `WarningIsAboutEntry` is
  therefore about the number only.
* An attribute with a semicolon in a value, or white space around one, counts as edited
  as soon as it is loaded, and Save Changes writes its pieces
  (`sbv-ldap-panel.c:100`). Hence `Plain`.
* The refresh after a save fills the editor with the attributes of the entry that
  was loaded when the save ended, whichever is loaded by now
  (`sbv-ldap-panel.c:311`): the editor then shows one entry's values under
  another's name. What is typed next is compared with them. `WritesOnlyTyped` says
  that no attribute is written but those edited then; the other values of an
  edited attribute go with it.
* A load of the browser frees the nodes of the tree under the calls for their
  children and for the root's attributes (`sbv-ldap-panel.c:466`); a list of groups
  frees the Remove buttons' context, and Cancel that of the Add Member and the
  create dialogs, under their calls (`sbv-groups-panel.c:482`).
* Between the two steps of saving a computer the selection can have become NULL,
  or another computer, which is then enabled or disabled (`sbv-computers-panel.c:299`).
* The unix-attributes workers return with the mutex locked when there is no
  handle (`sbv-users-backend.c:650`, `sbv-groups-backend.c:313`), although
  `sbv-connection.h:50` says "Always call release after acquire, even on error."
  The program never uses a connection that way (`connection_app`).
* Connecting from the Add dialog without saving gives the window a NULL profile, whose
  id range it reads (`sbv-window.c:424`): state `crashed` of `SbvWindow`.
* The password dialog's callback reads `active_profile` when it completes; with a
  Kerberos connect in between, the status bar mixes two servers (`sbv-window.c:281`).
  Hence `StatusDescribesConnection` is checked with Kerberos profiles only.
* A list that completes late fills a panel with the previous connection's rows
  (`sbv-users-panel.c:1111`); the sidebar's dot marks a connection that failed
  (`sbv-window.c:287`).
* Saving a password policy writes back the userAccountControl of the last list, and
  undoes an enable or disable since (`sbv-users-backend.c:551`); selecting
  another row while a save runs enables or disables that one (`sbv-users-panel.c:733`).
* A published hint above the lowest free number hides the free numbers below it
  (`sbv-users-panel.c:575`), although `CHANGELOG.md:247` speaks of "the lowest
  unused integer"; hence `FoundIsFirstGap` is about the walk from its start.
  The warning for a number that is loaded, not typed, never appears, because
  loading stops the timer it has just armed (`sbv-users-panel.c:292`).
* A crash between the two saves of a rename, or a failing second save, loses the
  profile (`sbv-connect-dialog.c:717`); a retry under a third name duplicates it; a
  name with a bracket is never written and reported as saved
  (`sbv-profiles.c:107`); after a start that could not read the file the next
  save discards all profiles in it (`sbv-profiles.c:19`). `SbvProfileBook`'s
  saved copy is as weak as that.

## 7. What is not modelled, and what is left

Not modelled: texts, layout, the LDAP wire protocol, the BER and Kerberos
libraries, and attributes no two operations share. In the components modelled
partly: password reset and saving RFC2307 attributes; DNS
discovery and the TLS probe; a dialog that the window manager closes while it is
busy; the toast after an edit; filters of lists. The GID entries are copies of
the UID entry. The contacts panel repeats the computers panel's list, save,
creation and deletion with one request each, and has nothing like the SPNs.

Left, in this order:

1. Lifetimes of the connect dialogs, with discovery and probe.
2. The composition of the window with a panel that saves, over a reconnect.
3. An abstract editor (one entry, its attributes as loaded, its edits) for the
   browser and the SPN editor to implement.

Proofs to come: the same walk for gidNumbers once their pane has a module; that
the abstract editor of item 3 is implemented; and what the composition of item 2
needs of `SidebarConnAlive`.
