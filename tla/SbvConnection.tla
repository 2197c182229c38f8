--------------------------- MODULE SbvConnection ---------------------------
(***************************************************************************)
(* One SbvConnection object (src/src/backend/sbv-connection.c): a GMutex,  *)
(* the LDAP handle it guards, and the fields that describe the bound       *)
(* server.  GTask worker threads connect it and run LDAP operations on it; *)
(* the main thread starts the tasks, receives their completions, may       *)
(* disconnect the object, and finalizes it when the last reference goes.   *)
(*                                                                         *)
(* libldap is external: a handle is an address, live from ldap_initialize  *)
(* until ldap_unbind_ext_s, and an address may be handed out again after   *)
(* that.                                                                   *)
(***************************************************************************)
EXTENDS Naturals

CONSTANTS
    Task,         \* GTask worker threads; each runs one request
    Profile,      \* saved servers (SbvProfile)
    TlsProfile,   \* the profiles that ask for STARTTLS
    Handle,       \* addresses ldap_initialize may return
    Kinds,        \* the kinds of request clients make
    AppClient,    \* TRUE: clients behave as src/src/ui does (see Ready)
    NoHandle, NoProfile, Main, NoOne

AllKinds == {"connect", "op", "unix"}

ASSUME ConstantsAssumption ==
    /\ TlsProfile \subseteq Profile
    /\ NoProfile \notin Profile
    /\ NoHandle \notin Handle
    /\ Main \notin Task
    /\ NoOne \notin Task \cup {Main}
    /\ Kinds \subseteq AllKinds
    /\ AppClient \in BOOLEAN

VARIABLES
    mutex,      \* the thread that holds self->mutex, or NoOne
    ld,         \* self->ld
    connected,  \* self->connected
    profile,    \* self->profile, host, port and base_dn: what ld is bound to
    held,       \* the client still holds its reference
    mpc,        \* the main thread: idle, or inside sbv_connection_disconnect
    pc,         \* where each task is
    kind,       \* what each task does
    target,     \* the profile a connecting task was given
    local,      \* the task's own variable `ld'
    result,     \* what the task returned
    asked,      \* the server a finished request went to, and the base DN it named
    live,       \* libldap: handles not unbound yet
    server      \* libldap: the server each handle talks to

object  == <<ld, connected, profile>>
libldap == <<live, server>>
request == <<kind, target, held>>
vars    == <<mutex, object, libldap, request, mpc, pc, local, result, asked>>

Nowhere == [server |-> NoProfile, base |-> NoProfile]

TypeOK ==
    /\ mutex \in Task \cup {Main, NoOne}
    /\ ld \in Handle \cup {NoHandle}
    /\ connected \in BOOLEAN
    /\ profile \in Profile \cup {NoProfile}
    /\ held \in BOOLEAN
    /\ mpc \in {"idle", "lock", "unbind", "unlock", "finalized"}
    /\ pc \in [Task -> {"idle", "init", "tls", "bind", "lock", "replace",
                        "install", "unlock", "nold", "use", "release",
                        "returned", "delivered"}]
    /\ kind \in [Task -> AllKinds]
    /\ target \in [Task -> Profile \cup {NoProfile}]
    /\ local \in [Task -> Handle \cup {NoHandle}]
    /\ result \in [Task -> {"none", "ok", "error", "not-connected"}]
    /\ asked \in [Task -> [server : Profile \cup {NoProfile},
                           base   : Profile \cup {NoProfile}]]
    /\ live \subseteq Handle
    /\ server \in [Handle -> Profile \cup {NoProfile}]

(* sbv_connection_new: a zeroed object and an initialised mutex. *)
Init ==
    /\ mutex = NoOne
    /\ ld = NoHandle
    /\ connected = FALSE
    /\ profile = NoProfile
    /\ held = TRUE
    /\ mpc = "idle"
    /\ pc = [t \in Task |-> "idle"]
    /\ kind = [t \in Task |-> "op"]
    /\ target = [t \in Task |-> NoProfile]
    /\ local = [t \in Task |-> NoHandle]
    /\ result = [t \in Task |-> "none"]
    /\ asked = [t \in Task |-> Nowhere]
    /\ live = {}
    /\ server = [h \in Handle |-> NoProfile]

-----------------------------------------------------------------------------
(* Requests.  The window uses a connection only after its connect callback *)
(* reported success, connects each object once, and never calls disconnect *)
(* itself; AppClient = FALSE drops these habits and keeps only the API.    *)

Ready == \E t \in Task : /\ kind[t] = "connect"
                         /\ pc[t] = "delivered"
                         /\ result[t] = "ok"

StartConnect(t, p) ==
    /\ mpc = "idle" /\ held
    /\ pc[t] = "idle" /\ "connect" \in Kinds
    /\ AppClient => \A u \in Task : pc[u] = "idle"
    /\ pc' = [pc EXCEPT ![t] = "init"]
    /\ kind' = [kind EXCEPT ![t] = "connect"]
    /\ target' = [target EXCEPT ![t] = p]
    /\ UNCHANGED <<mutex, object, libldap, held, mpc, local, result, asked>>

StartOp(t, k) ==
    /\ mpc = "idle" /\ held
    /\ pc[t] = "idle" /\ k \in Kinds \ {"connect"}
    /\ AppClient => Ready
    /\ pc' = [pc EXCEPT ![t] = "init"]
    /\ kind' = [kind EXCEPT ![t] = k]
    /\ UNCHANGED <<mutex, object, libldap, target, held, mpc, local, result,
                   asked>>

(* Faulty variants, one before the definition it replaces, show what the   *)
(* properties notice.  Here: the state and the outcome swapped.            *)
ReturnSwapped(t, r) ==
    /\ pc' = [pc EXCEPT ![t] = r]
    /\ result' = [result EXCEPT ![t] = "returned"]

Return(t, r) ==
    /\ pc' = [pc EXCEPT ![t] = "returned"]
    /\ result' = [result EXCEPT ![t] = r]

(* The completion callback runs on the main loop, which stands still while *)
(* the main thread waits for the mutex in sbv_connection_disconnect.       *)
Deliver(t) ==
    /\ mpc = "idle"
    /\ pc[t] = "returned"
    /\ pc' = [pc EXCEPT ![t] = "delivered"]
    /\ UNCHANGED <<mutex, object, libldap, request, mpc, local, result, asked>>

-----------------------------------------------------------------------------
(* connect_thread *)

(* ldap_initialize: a fresh handle for the profile's URI, or an error. *)
Initialize(t) ==
    /\ pc[t] = "init" /\ kind[t] = "connect"
    /\ \/ \E h \in Handle \ live :
             /\ live' = live \cup {h}
             /\ server' = [server EXCEPT ![h] = target[t]]
             /\ local' = [local EXCEPT ![t] = h]
             /\ pc' = [pc EXCEPT ![t] = IF target[t] \in TlsProfile
                                        THEN "tls" ELSE "bind"]
             /\ UNCHANGED result
       \/ Return(t, "error") /\ UNCHANGED <<libldap, local>>
    /\ UNCHANGED <<mutex, object, request, mpc, asked>>

(* Faulty: an error path without ldap_unbind_ext_s. *)
GiveUpLeaks(t) == Return(t, "error") /\ UNCHANGED libldap

(* A refused STARTTLS or bind unbinds the private handle and gives up. *)
GiveUp(t) ==
    /\ live' = live \ {local[t]}
    /\ Return(t, "error")
    /\ UNCHANGED server

Negotiate(t, from, to) ==
    /\ pc[t] = from
    /\ \/ pc' = [pc EXCEPT ![t] = to] /\ UNCHANGED <<libldap, result>>
       \/ GiveUp(t)
    /\ UNCHANGED <<mutex, object, request, mpc, local, asked>>

StartTls(t) == Negotiate(t, "tls", "bind")

Bind(t) == Negotiate(t, "bind", "lock")

Lock(t) ==
    /\ pc[t] = "lock"
    /\ mutex = NoOne
    /\ mutex' = t
    /\ pc' = [pc EXCEPT ![t] = "replace"]
    /\ UNCHANGED <<object, libldap, request, mpc, local, result, asked>>

(* if (self->ld) ldap_unbind_ext_s (self->ld): ld dangles until Install. *)
Replace(t) ==
    /\ pc[t] = "replace"
    /\ live' = live \ {ld}
    /\ pc' = [pc EXCEPT ![t] = "install"]
    /\ UNCHANGED <<mutex, object, server, request, mpc, local, result, asked>>

(* Faulty: connected is not set. *)
InstallUnconnected(t) ==
    /\ pc[t] = "install"
    /\ ld' = local[t]
    /\ profile' = target[t]
    /\ pc' = [pc EXCEPT ![t] = "unlock"]
    /\ UNCHANGED <<mutex, connected, libldap, request, mpc, local, result, asked>>

Install(t) ==
    /\ pc[t] = "install"
    /\ ld' = local[t]
    /\ connected' = TRUE
    /\ profile' = target[t]
    /\ pc' = [pc EXCEPT ![t] = "unlock"]
    /\ UNCHANGED <<mutex, libldap, request, mpc, local, result, asked>>

Unlock(t) ==
    /\ pc[t] = "unlock"
    /\ mutex' = NoOne
    /\ Return(t, "ok")
    /\ UNCHANGED <<object, libldap, request, mpc, local, asked>>

-----------------------------------------------------------------------------
(* A backend worker: whoami_thread and every *_thread of the backends.     *)
(* Kind "unix" is set_unix_attrs_thread and set_group_unix_thread.         *)

(* Faulty: the handle is read without the mutex. *)
AcquireUnlocked(t) ==
    /\ pc[t] = "init" /\ kind[t] # "connect"
    /\ local' = [local EXCEPT ![t] = ld]
    /\ pc' = [pc EXCEPT ![t] = IF ld = NoHandle THEN "nold" ELSE "use"]
    /\ UNCHANGED <<mutex, object, libldap, request, mpc, result, asked>>

Acquire(t) ==
    /\ pc[t] = "init" /\ kind[t] # "connect"
    /\ mutex = NoOne
    /\ mutex' = t
    /\ local' = [local EXCEPT ![t] = ld]
    /\ pc' = [pc EXCEPT ![t] = IF ld = NoHandle THEN "nold" ELSE "use"]
    /\ UNCHANGED <<object, libldap, request, mpc, result, asked>>

(* "Not connected": release and return; the unix workers return without it. *)
NotConnected(t) ==
    /\ pc[t] = "nold"
    /\ mutex' = IF kind[t] = "unix" THEN mutex ELSE NoOne
    /\ Return(t, "not-connected")
    /\ UNCHANGED <<object, libldap, request, mpc, local, asked>>

(* The synchronous LDAP calls, under the mutex, with the object's base DN. *)
Exchange(t) ==
    /\ pc[t] = "use"
    /\ asked' = [asked EXCEPT ![t] = [server |-> server[local[t]],
                                      base   |-> profile]]
    /\ \E r \in {"ok", "error"} : result' = [result EXCEPT ![t] = r]
    /\ pc' = [pc EXCEPT ![t] = "release"]
    /\ UNCHANGED <<mutex, object, libldap, request, mpc, local>>

(* Faulty: the mutex is released after a successful LDAP call only. *)
ReleaseOnSuccess(t) ==
    /\ pc[t] = "release"
    /\ mutex' = IF result[t] = "ok" THEN NoOne ELSE mutex
    /\ pc' = [pc EXCEPT ![t] = "returned"]
    /\ UNCHANGED <<object, libldap, request, mpc, local, result, asked>>

Release(t) ==
    /\ pc[t] = "release"
    /\ mutex' = NoOne
    /\ pc' = [pc EXCEPT ![t] = "returned"]
    /\ UNCHANGED <<object, libldap, request, mpc, local, result, asked>>

-----------------------------------------------------------------------------
(* The main thread: disconnect, and finalize when nobody holds a reference *)
(* (every task holds one on its source object until it is delivered).      *)

Disconnect ==
    /\ mpc = "idle" /\ held /\ ~AppClient
    /\ mpc' = "lock"
    /\ UNCHANGED <<mutex, object, libldap, request, pc, local, result, asked>>

DropReference ==
    /\ mpc = "idle" /\ held
    /\ held' = FALSE
    /\ UNCHANGED <<mutex, object, libldap, kind, target, mpc, pc, local,
                   result, asked>>

(* Faulty: the tasks hold no reference on the connection. *)
FinalizeEarly ==
    /\ mpc = "idle" /\ ~held
    /\ mpc' = "lock"
    /\ UNCHANGED <<mutex, object, libldap, request, pc, local, result, asked>>

Finalize ==
    /\ mpc = "idle" /\ ~held
    /\ \A t \in Task : pc[t] \in {"idle", "delivered"}
    /\ mpc' = "lock"
    /\ UNCHANGED <<mutex, object, libldap, request, pc, local, result, asked>>

(* Faulty: disconnect does not take the mutex. *)
MainLockWithoutWaiting ==
    /\ mpc = "lock"
    /\ mpc' = "unbind"
    /\ UNCHANGED <<mutex, object, libldap, request, pc, local, result, asked>>

MainLock ==
    /\ mpc = "lock"
    /\ mutex = NoOne
    /\ mutex' = Main
    /\ mpc' = "unbind"
    /\ UNCHANGED <<object, libldap, request, pc, local, result, asked>>

MainUnbind ==
    /\ mpc = "unbind"
    /\ live' = live \ {ld}
    /\ ld' = NoHandle
    /\ connected' = FALSE
    /\ mpc' = "unlock"
    /\ UNCHANGED <<mutex, profile, server, request, pc, local, result, asked>>

MainUnlock ==
    /\ mpc = "unlock"
    /\ mutex' = NoOne
    /\ mpc' = IF held THEN "idle" ELSE "finalized"
    /\ UNCHANGED <<object, libldap, request, pc, local, result, asked>>

-----------------------------------------------------------------------------
Worker(t) ==
    \/ Initialize(t) \/ StartTls(t) \/ Bind(t)
    \/ Lock(t) \/ Replace(t) \/ Install(t) \/ Unlock(t)
    \/ Acquire(t) \/ NotConnected(t) \/ Exchange(t) \/ Release(t)

MainStep == Finalize \/ MainLock \/ MainUnbind \/ MainUnlock

(* A finalized object is gone: nothing happens to it any more. *)
Gone == mpc = "finalized" /\ UNCHANGED vars

Next ==
    \/ \E t \in Task, p \in Profile : StartConnect(t, p)
    \/ \E t \in Task, k \in Kinds : StartOp(t, k)
    \/ \E t \in Task : Worker(t) \/ Deliver(t)
    \/ Disconnect \/ DropReference
    \/ MainStep
    \/ Gone

Spec == Init /\ [][Next]_vars

(* The scheduler runs every thread, every LDAP call returns (the code      *)
(* bounds the connect with LDAP_OPT_NETWORK_TIMEOUT; that the server also  *)
(* answers later calls is an assumption), and the main loop dispatches     *)
(* what is ready.  Nobody has to start, disconnect or drop anything.       *)
FairSpec ==
    /\ Spec
    /\ \A t \in Task : WF_vars(Worker(t)) /\ WF_vars(Deliver(t))
    /\ WF_vars(MainStep)
=============================================================================
