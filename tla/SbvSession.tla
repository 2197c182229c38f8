----------------------------- MODULE SbvSession -----------------------------
(***************************************************************************)
(* What a connection promises its clients, without threads, handles or a   *)
(* mutex: there is one current session, a connect request replaces it or   *)
(* is refused, and every other request is answered in one step by the      *)
(* server of the session current at that step, or is told that there is no *)
(* session when there is none.                                             *)
(***************************************************************************)
CONSTANTS Request, Profile, NoProfile

VARIABLES
    session,   \* the profile the connection is bound to, or NoProfile
    goal,      \* the profile a connect request wants; NoProfile otherwise
    status,    \* idle, pending, decided, delivered
    outcome,   \* how a request was decided
    seen       \* the session that answered a request

vars == <<session, goal, status, outcome, seen>>

Init ==
    /\ session = NoProfile
    /\ goal = [r \in Request |-> NoProfile]
    /\ status = [r \in Request |-> "idle"]
    /\ outcome = [r \in Request |-> "none"]
    /\ seen = [r \in Request |-> NoProfile]

Begin(r, p) ==
    /\ status[r] = "idle"
    /\ status' = [status EXCEPT ![r] = "pending"]
    /\ goal' = [goal EXCEPT ![r] = p]
    /\ UNCHANGED <<session, outcome, seen>>

Decide(r, o) ==
    /\ status[r] = "pending"
    /\ status' = [status EXCEPT ![r] = "decided"]
    /\ outcome' = [outcome EXCEPT ![r] = o]
    /\ UNCHANGED goal

Bound(r) ==
    /\ goal[r] # NoProfile
    /\ Decide(r, "bound")
    /\ session' = goal[r]
    /\ UNCHANGED seen

Refused(r) ==
    /\ goal[r] # NoProfile
    /\ Decide(r, "refused")
    /\ UNCHANGED <<session, seen>>

Answered(r) ==
    /\ goal[r] = NoProfile /\ session # NoProfile
    /\ Decide(r, "answered")
    /\ seen' = [seen EXCEPT ![r] = session]
    /\ UNCHANGED session

Absent(r) ==
    /\ goal[r] = NoProfile /\ session = NoProfile
    /\ Decide(r, "absent")
    /\ UNCHANGED <<session, seen>>

Delivered(r) ==
    /\ status[r] = "decided"
    /\ status' = [status EXCEPT ![r] = "delivered"]
    /\ UNCHANGED <<session, goal, outcome, seen>>

Close ==
    /\ session' = NoProfile
    /\ UNCHANGED <<goal, status, outcome, seen>>

Next ==
    \/ \E r \in Request, p \in Profile \cup {NoProfile} : Begin(r, p)
    \/ \E r \in Request : \/ Bound(r) \/ Refused(r) \/ Answered(r)
                          \/ Absent(r) \/ Delivered(r)
    \/ Close

Spec == Init /\ [][Next]_vars
=============================================================================
