------------------------- MODULE SbvConnectionProps -------------------------
(***************************************************************************)
(* Properties of SbvConnection.  The invariants are named parts, so that   *)
(* the runs and the proofs cite the same definitions.                      *)
(***************************************************************************)
EXTENDS SbvConnection

(* A connecting task owns a handle nobody else knows of. *)
Private(t) == pc[t] \in {"tls", "bind", "lock", "replace", "install"}

Using(t) == pc[t] \in {"use", "release"}

InCritical(t) ==
    pc[t] \in {"replace", "install", "unlock", "nold", "use", "release"}

(* Between the unbind of the old handle and the store of the new one,      *)
(* self->ld is a dangling pointer.                                         *)
Dangling == \E t \in Task : pc[t] = "install"

(* A worker between acquire and release works on the handle the object     *)
(* holds, that handle is not unbound yet, and the worker holds the mutex:  *)
(* no connect or disconnect can pull a handle from under an LDAP call.     *)
HandleSafety ==
    \A t \in Task : Using(t) => /\ mutex = t
                                /\ local[t] = ld
                                /\ ld \in live

(* Every handle libldap has out belongs to the object or to exactly one    *)
(* connecting task: the error paths of connect_thread, its replacement of  *)
(* an older handle and disconnect neither leak one nor unbind one twice.   *)
NoHandleLeak ==
    /\ \A h \in live : h = ld \/ \E t \in Task : Private(t) /\ local[t] = h
    /\ \A t \in Task : Private(t) => local[t] \in live
    /\ \A t, u \in Task : Private(t) /\ Private(u) /\ t # u
                             => local[t] # local[u]
    /\ ~Dangling => /\ ld # NoHandle => ld \in live
                    /\ \A t \in Task : Private(t) => local[t] # ld

(* The fields the accessors return (host, port, base_dn, profile) describe *)
(* the server the handle talks to, and connected says if there is one.     *)
FieldsMatchHandle ==
    /\ connected <=> ld # NoHandle
    /\ ld # NoHandle => profile # NoProfile
    /\ ld # NoHandle /\ ~Dangling => server[ld] = profile

(* A request names the base DN of the very server it asks, whatever        *)
(* connects and disconnects run beside it.                                 *)
BaseOfServerAsked == \A t \in Task : asked[t].server = asked[t].base

(* A finalized object left nothing behind: no handle, and no task that     *)
(* could still touch it.                                                   *)
FinalizedClean ==
    mpc = "finalized" => /\ live = {}
                         /\ \A t \in Task : pc[t] \in {"idle", "delivered"}

-----------------------------------------------------------------------------
(* The inductive invariant.  HandleSafety alone is not inductive: that the *)
(* handle a worker uses is live rests on who may unbind it (the holder of  *)
(* the mutex), on private handles being distinct from the installed one,   *)
(* and on what is true while self->ld dangles.                             *)

(* NULL is never used as a handle: acquire is checked before the LDAP call. *)
UseInv == \A t \in Task : Using(t) => local[t] = ld /\ ld # NoHandle

(* Who is in a critical section holds the mutex; a unix worker may hold it *)
(* after it returned, so the converse is false.                            *)
LockInv ==
    /\ \A t \in Task : InCritical(t) => mutex = t
    /\ mpc \in {"unbind", "unlock"} => mutex = Main

KindInv ==
    \A t \in Task :
        /\ Private(t) \/ pc[t] = "unlock" => kind[t] = "connect"
        /\ Using(t) \/ pc[t] = "nold" => kind[t] # "connect"
        /\ IF kind[t] = "connect"
           THEN target[t] \in Profile ELSE target[t] = NoProfile
        /\ pc[t] = "idle" => kind[t] # "connect"
        /\ pc[t] = "release" => result[t] \in {"ok", "error"}
        /\ Private(t) => server[local[t]] = target[t]

(* While self->ld dangles, libldap may have handed its address to another  *)
(* connecting task, and only then is that address live.                    *)
DanglingInv ==
    Dangling /\ ld \in live => \E t \in Task : Private(t) /\ local[t] = ld

FinalInv ==
    /\ mpc # "idle" /\ ~held => \A t \in Task : pc[t] \in {"idle", "delivered"}
    /\ mpc = "finalized" => ~held
    /\ mpc \in {"unlock", "finalized"} => ld = NoHandle

IInv ==
    /\ TypeOK
    /\ UseInv
    /\ LockInv
    /\ KindInv
    /\ NoHandleLeak
    /\ DanglingInv
    /\ FieldsMatchHandle
    /\ BaseOfServerAsked
    /\ FinalInv

-----------------------------------------------------------------------------
(* While a worker is inside its LDAP call the session does not change.     *)
SessionStableInUse ==
    [][\A t \in Task : Using(t) /\ Using(t)' => UNCHANGED object]_vars

(* Disconnect runs on the main thread; a client that calls it over and     *)
(* over again keeps the main loop from everything else.                    *)
ClientSettles == <>[][~Disconnect]_vars

(* Every request's callback is called in the end, failed ones included,    *)
(* unless the client never stops disconnecting.                            *)
EveryRequestDelivered ==
    ClientSettles => \A t \in Task : pc[t] = "init" ~> pc[t] = "delivered"

(* A connection nobody refers to any more is finalized in the end: the     *)
(* main thread never waits for ever in sbv_connection_finalize.            *)
DroppedIsFinalized == ~held ~> mpc = "finalized"

(* What clients observe of a connection, in the terms of SbvSession.        *)
CurrentSession == IF connected THEN profile ELSE NoProfile

Decided(t) == pc[t] \in {"unlock", "nold", "release", "returned"}

StatusOf(t) ==
    IF pc[t] \in {"idle", "delivered"} THEN pc[t]
    ELSE IF Decided(t) THEN "decided" ELSE "pending"

OutcomeOf(t) ==
    CASE ~Decided(t) /\ pc[t] # "delivered" -> "none"
      [] pc[t] = "unlock"                   -> "bound"
      [] pc[t] = "nold"                     -> "absent"
      [] pc[t] = "release"                  -> "answered"
      [] OTHER -> IF result[t] = "not-connected" THEN "absent"
                  ELSE IF kind[t] # "connect" THEN "answered"
                  ELSE IF result[t] = "ok" THEN "bound" ELSE "refused"

Session == INSTANCE SbvSession WITH
    Request <- Task,
    session <- CurrentSession,
    goal    <- target,
    status  <- [t \in Task |-> StatusOf(t)],
    outcome <- [t \in Task |-> OutcomeOf(t)],
    seen    <- [t \in Task |-> asked[t].server]

(* Threads, handles and the mutex are invisible: what clients observe is a *)
(* behaviour of SbvSession, each answer decided at one instant.            *)
ImplementsSession == Session!Spec
=============================================================================
