------------------------------ MODULE SbvIdCheck ------------------------------
(***************************************************************************)
(* The UID entry of the user pane (src/src/ui/sbv-users-panel.c): the      *)
(* debounced collision check behind it, the warning under it and the       *)
(* Suggest button next to it.  The group pane has a copy of the same for   *)
(* the GID.  The panel has a connection and a list.  The workers of        *)
(* src/src/backend/sbv-collisions.c search the directory at one moment,    *)
(* between the call and the callback; callbacks come in any order.         *)
(***************************************************************************)
EXTENDS Integers, Bags, BagsExt, FiniteSetsExt

CONSTANTS
    User, NoUser,
    Id,          \* numbers of the configured range
    NoId,        \* an empty entry, or an account without a uidNumber
    MayFail,     \* searches may fail
    MaxChecks,   \* bound: checks in flight
    MaxWrites    \* bound: changes of the directory

ASSUME IdCheckAssumption ==
    /\ NoUser \notin User
    /\ Id \subseteq Nat /\ NoId \notin Id
    /\ MayFail \in BOOLEAN /\ MaxChecks \in Nat /\ MaxWrites \in Nat

VARIABLES
    uid,        \* uidNumber of each user in the directory
    rows,       \* the same as the list last read it
    selected,   \* selected_user
    entry,      \* the number in rfc_uid_entry
    typed,      \* the entry was changed since the user was loaded
    timer,      \* uid_check_timer is armed
    label,      \* rfc_uid_collision: the users named, none if it is hidden,
                \*   and the number that the last answer shown was about
    checks,     \* a bag: sbv_collisions_uid_check_async calls in flight
    suggest,    \* the Suggest request in flight; its button is insensitive
    writes

vars == <<uid, rows, selected, entry, typed, timer, label, checks, suggest,
          writes>>

Clear == [about |-> NoId, hits |-> {}]
Idle  == [step |-> "idle", found |-> NoId]
IdOrNone == Id \cup {NoId}

Check == [id : Id, exclude : User, step : {"queued"}]
    \cup [id : Id, hits : SUBSET User, step : {"done"}]

TypeOK ==
    /\ uid \in [User -> IdOrNone] /\ rows \in [User -> IdOrNone]
    /\ selected \in User \cup {NoUser}
    /\ entry \in IdOrNone
    /\ typed \in BOOLEAN /\ timer \in BOOLEAN
    /\ label \in [about : IdOrNone, hits : SUBSET User]
    /\ DOMAIN checks \subseteq Check
    /\ suggest \in [step : {"idle", "hints", "scan", "done"},
                    found : IdOrNone]
    /\ writes \in 0 .. MaxWrites

Init ==
    /\ uid \in [User -> IdOrNone] /\ rows = uid
    /\ selected = NoUser /\ entry = NoId /\ typed = FALSE
    /\ timer = FALSE /\ label = Clear /\ checks = EmptyBag
    /\ suggest = Idle /\ writes = 0

Holders(id) == {u \in User : uid[u] = id}
Directory == <<uid, rows, writes>>
Pane == <<selected, entry, typed, timer, label>>

-----------------------------------------------------------------------------
(* Faulty: a check in flight keeps the timer from being armed. *)
ChangedUnlessBusy(v) ==
    /\ entry' = v /\ typed' = TRUE
    /\ timer' = (timer \/ checks = EmptyBag)

(* The "changed" handler: the debounce starts anew. *)
Changed(v) == entry' = v /\ typed' = TRUE /\ timer' = TRUE

Type(v) ==
    /\ selected # NoUser
    /\ Changed(v)
    /\ UNCHANGED <<Directory, selected, label, checks, suggest>>

(* load_user_into_detail sets the entry, and then stops the timer which    *)
(* the changed handler has armed, and clears the label.                    *)
LoadIntoDetail(u, id) ==
    /\ selected' = u /\ entry' = id /\ typed' = FALSE
    /\ timer' = FALSE /\ label' = Clear

Select(u) ==
    /\ LoadIntoDetail(u, rows[u])
    /\ UNCHANGED <<Directory, checks, suggest>>

(* The list is read again, after a save for one; the row is reselected. *)
Reload ==
    /\ rows' = uid
    /\ IF selected = NoUser THEN UNCHANGED Pane
       ELSE LoadIntoDetail(selected, uid[selected])
    /\ UNCHANGED <<uid, checks, suggest, writes>>

(* This panel's save, or another administrator, gives a user a number. *)
Write(u, id) ==
    /\ writes < MaxWrites /\ uid[u] # id
    /\ uid' = [uid EXCEPT ![u] = id]
    /\ writes' = writes + 1
    /\ UNCHANGED <<rows, Pane, checks, suggest>>

-----------------------------------------------------------------------------
(* fire_uid_check: the selected user's DN is excluded. *)
Fire ==
    /\ timer /\ BagCardinality(checks) < MaxChecks
    /\ timer' = FALSE
    /\ \/ entry = NoId /\ label' = Clear /\ UNCHANGED checks
       \/ /\ entry # NoId
          /\ checks' = BagAdd(checks, [id |-> entry, exclude |-> selected,
                                       step |-> "queued"])
          /\ UNCHANGED label
    /\ UNCHANGED <<Directory, selected, entry, typed, suggest>>

Answered(c, hits) ==
    BagAdd(BagRemove(checks, c), [id |-> c.id, hits |-> hits, step |-> "done"])

(* Faulty: a failed search returns no result to the task. *)
RunCheckNoReturn(c) ==
    /\ c.step = "queued"
    /\ \/ checks' = BagAdd(BagRemove(checks, c), [c EXCEPT !.step = "lost"])
       \/ checks' = Answered(c, Holders(c.id) \ {c.exclude})
    /\ UNCHANGED <<Directory, Pane, suggest>>

(* check_thread: an error shows like an answer without hits. *)
RunCheck(c) ==
    /\ c.step = "queued"
    /\ \/ MayFail /\ checks' = Answered(c, {})
       \/ checks' = Answered(c, Holders(c.id) \ {c.exclude})
    /\ UNCHANGED <<Directory, Pane, suggest>>

(* The label is hidden when there are no hits. *)
Rendered(c) == [about |-> c.id, hits |-> c.hits]

(* Faulty: the answer is shown whatever the entry holds now. *)
CheckDoneAnyway(c) ==
    /\ c.step = "done"
    /\ label' = Rendered(c)
    /\ checks' = BagRemove(checks, c)
    /\ UNCHANGED <<Directory, selected, entry, typed, timer, suggest>>

(* on_collision_done: only if the entry still holds the same number. *)
CheckDone(c) ==
    /\ c.step = "done"
    /\ label' = IF c.id = entry THEN Rendered(c) ELSE label
    /\ checks' = BagRemove(checks, c)
    /\ UNCHANGED <<Directory, selected, entry, typed, timer, suggest>>

-----------------------------------------------------------------------------
(* do_suggest: without cached hints they are asked for first. *)
ClickSuggest ==
    /\ selected # NoUser /\ suggest = Idle
    /\ \E s \in {"hints", "scan"} : suggest' = [Idle EXCEPT !.step = s]
    /\ UNCHANGED <<Directory, Pane, checks>>

(* on_hints_then_suggest goes on with the profile's range if it failed. *)
HintsDone ==
    /\ suggest.step = "hints"
    /\ suggest' = [suggest EXCEPT !.step = "scan"]
    /\ UNCHANGED <<Directory, Pane, checks>>

(* The lowest number from the start on that nobody holds. *)
FreeFrom(start) == {v \in Id : v >= start /\ Holders(v) = {}}
LowestFree(start) ==
    IF FreeFrom(start) = {} THEN NoId ELSE Min(FreeFrom(start))

(* next_free_thread, from the first number of the range or from a hint; it *)
(* finds none if the search fails or all are taken.  The walk itself is    *)
(* module SbvNextFree.                                                     *)
Scan ==
    /\ suggest.step = "scan"
    /\ \/ MayFail /\ suggest' = [step |-> "done", found |-> NoId]
       \/ \E start \in {0} \cup Id :
             suggest' = [step |-> "done", found |-> LowestFree(start)]
    /\ UNCHANGED <<Directory, Pane, checks>>

(* Faulty: the button stays insensitive when there is nothing to suggest. *)
SuggestDoneIfFound ==
    /\ suggest.step = "done" /\ suggest.found # NoId
    /\ suggest' = Idle
    /\ Changed(suggest.found)
    /\ UNCHANGED <<Directory, selected, label, checks>>

(* on_suggest_done fills the entry, whichever user it now belongs to. *)
SuggestDone ==
    /\ suggest.step = "done"
    /\ suggest' = Idle
    /\ IF suggest.found = NoId THEN UNCHANGED <<entry, typed, timer>>
       ELSE Changed(suggest.found)
    /\ UNCHANGED <<Directory, selected, label, checks>>

Next ==
    \/ \E v \in IdOrNone : Type(v)
    \/ \E u \in User : Select(u)
    \/ \E u \in User, id \in IdOrNone : Write(u, id)
    \/ Reload \/ Fire
    \/ \E c \in DOMAIN checks : RunCheck(c) \/ CheckDone(c)
    \/ ClickSuggest \/ HintsDone \/ Scan \/ SuggestDone

(* The debounce timer, the workers and the main loop make progress. *)
Fairness ==
    /\ WF_vars(Fire)
    /\ WF_vars(\E c \in DOMAIN checks : RunCheck(c))
    /\ WF_vars(\E c \in DOMAIN checks : CheckDone(c))
    /\ WF_vars(HintsDone) /\ WF_vars(Scan) /\ WF_vars(SuggestDone)

Spec == Init /\ [][Next]_vars
FairSpec == Spec /\ Fairness
=============================================================================
