------------------------ MODULE SbvConnectionProofs ------------------------
(***************************************************************************)
(* Machine-checked proofs about SbvConnection, for any number of tasks,    *)
(* profiles and handles, any mix of request kinds and any client.          *)
(***************************************************************************)
EXTENDS SbvConnectionProps, TLAPS

-----------------------------------------------------------------------------
(* Type correctness *)

LEMMA InitTypeOK == Init => TypeOK
<1> SUFFICES ASSUME Init PROVE TypeOK
  OBVIOUS
<1>1. asked \in [Task -> [server : Profile \cup {NoProfile},
                         base   : Profile \cup {NoProfile}]]
  BY DEF Init, Nowhere
<1>2. kind \in [Task -> AllKinds]
  BY DEF Init, AllKinds
<1> QED
  BY <1>1, <1>2 DEF Init, TypeOK

LEMMA StepTypeOK == TypeOK /\ UseInv /\ [Next]_vars => TypeOK'
<1> SUFFICES ASSUME TypeOK, UseInv, [Next]_vars
             PROVE  TypeOK'
  OBVIOUS
<1> USE ConstantsAssumption DEF TypeOK
<1>1. ASSUME NEW t \in Task, NEW p \in Profile, StartConnect(t, p)
      PROVE  TypeOK'
  BY <1>1 DEF StartConnect, object, libldap, AllKinds
<1>2. ASSUME NEW t \in Task, NEW k \in Kinds, StartOp(t, k)
      PROVE  TypeOK'
  BY <1>2 DEF StartOp, object, libldap
<1>3. ASSUME NEW t \in Task, Worker(t)
      PROVE  TypeOK'
  <2>1. CASE Initialize(t)
    <3>1. ASSUME NEW h \in Handle \ live,
                 live' = live \cup {h},
                 server' = [server EXCEPT ![h] = target[t]],
                 local' = [local EXCEPT ![t] = h],
                 pc' = [pc EXCEPT ![t] = IF target[t] \in TlsProfile
                                         THEN "tls" ELSE "bind"],
                 UNCHANGED result
          PROVE  TypeOK'
      BY <2>1, <3>1 DEF Initialize, object, request
    <3>2. CASE Return(t, "error") /\ UNCHANGED <<libldap, local>>
      BY <2>1, <3>2 DEF Initialize, Return, object, request, libldap
    <3> QED
      BY <2>1, <3>1, <3>2 DEF Initialize
  <2>2. ASSUME NEW from \in {"tls", "bind"}, NEW to \in {"bind", "lock"},
               Negotiate(t, from, to)
        PROVE  TypeOK'
    BY <2>2 DEF Negotiate, GiveUp, Return, object, request, libldap
  <2>3. CASE StartTls(t)
    BY <2>2, <2>3 DEF StartTls
  <2>4. CASE Bind(t)
    BY <2>2, <2>4 DEF Bind
  <2>5. CASE Lock(t)
    BY <2>5 DEF Lock, object, request, libldap
  <2>6. CASE Replace(t)
    BY <2>6 DEF Replace, object, request
  <2>7. CASE Install(t)
    BY <2>7 DEF Install, request, libldap
  <2>8. CASE Unlock(t)
    BY <2>8 DEF Unlock, Return, object, request, libldap
  <2>9. CASE Acquire(t)
    BY <2>9 DEF Acquire, object, request, libldap
  <2>10. CASE NotConnected(t)
    BY <2>10 DEF NotConnected, Return, object, request, libldap
  <2>11. CASE Exchange(t)
    <3>1. asked' \in [Task -> [server : Profile \cup {NoProfile},
                              base   : Profile \cup {NoProfile}]]
      <4>1. local[t] \in Handle
        BY <2>11 DEF Exchange, UseInv, Using
      <4> QED
        BY <2>11, <4>1 DEF Exchange
    <3> QED
      BY <2>11, <3>1 DEF Exchange, object, request, libldap
  <2>12. CASE Release(t)
    BY <2>12 DEF Release, object, request, libldap
  <2> QED
    BY <1>3, <2>1, <2>3, <2>4, <2>5, <2>6, <2>7, <2>8, <2>9, <2>10, <2>11,
       <2>12 DEF Worker
<1>4. ASSUME NEW t \in Task, Deliver(t)
      PROVE  TypeOK'
  BY <1>4 DEF Deliver, object, request, libldap
<1>5. CASE Disconnect
  BY <1>5 DEF Disconnect, object, request, libldap
<1>6. CASE DropReference
  BY <1>6 DEF DropReference, object, libldap
<1>7. CASE MainStep
  BY <1>7 DEF MainStep, Finalize, MainLock, MainUnbind, MainUnlock, object,
     request, libldap
<1>8. CASE UNCHANGED vars
  BY <1>8 DEF vars, object, request, libldap
<1> QED
  BY <1>1, <1>2, <1>3, <1>4, <1>5, <1>6, <1>7, <1>8 DEF Next, Gone

-----------------------------------------------------------------------------
(* The inductive invariant of SbvConnectionProps                           *)

LEMMA InitIInv == Init => IInv
<1> SUFFICES ASSUME Init PROVE IInv
  OBVIOUS
<1>1. TypeOK
  BY InitTypeOK
<1>2. \A t \in Task : pc[t] = "idle" /\ kind[t] = "op" /\ asked[t] = Nowhere
  BY DEF Init
<1>3. ~Dangling /\ \A t \in Task : ~Private(t) /\ ~Using(t) /\ ~InCritical(t)
  BY <1>2 DEF Dangling, Private, Using, InCritical
<1>4. UseInv /\ LockInv /\ KindInv
  BY <1>2, <1>3 DEF UseInv, LockInv, KindInv, Init
<1>5. NoHandleLeak /\ DanglingInv /\ FieldsMatchHandle
  BY <1>3 DEF NoHandleLeak, DanglingInv, FieldsMatchHandle, Init
<1>6. BaseOfServerAsked /\ FinalInv
  BY <1>2 DEF BaseOfServerAsked, FinalInv, Nowhere, Init
<1> QED
  BY <1>1, <1>4, <1>5, <1>6 DEF IInv

(* The facts about one moment that most steps need. *)
LEMMA OneInCritical ==
    ASSUME IInv, NEW t \in Task, NEW u \in Task, t # u, InCritical(t)
    PROVE  ~InCritical(u)
BY DEF IInv, LockInv

LEMMA UsedHandleLive ==
    ASSUME IInv, NEW t \in Task, Using(t)
    PROVE  ~Dangling /\ local[t] = ld /\ ld \in live /\ mutex = t
<1>1. InCritical(t)
  BY DEF Using, InCritical
<1>2. ~Dangling
  BY <1>1, OneInCritical DEF Dangling, InCritical, Using
<1> QED
  BY <1>1, <1>2 DEF IInv, UseInv, LockInv, NoHandleLeak

(* One lemma per action: what tasks and mutex, handles, fields, and the    *)
(* finalized object look like after it.                                    *)
LEMMA StartConnectIInv ==
    ASSUME IInv, TypeOK', NEW t \in Task, NEW p \in Profile, StartConnect(t, p)
    PROVE  IInv'
<1> USE DEF IInv, TypeOK, StartConnect, object, libldap
<1>1. UseInv' /\ LockInv' /\ KindInv'
  BY DEF UseInv, LockInv, KindInv, Private, Using, InCritical
<1>2. NoHandleLeak' /\ DanglingInv'
  BY DEF NoHandleLeak, DanglingInv, LockInv, UseInv, Dangling, Private, InCritical
<1>3. FieldsMatchHandle' /\ BaseOfServerAsked'
  BY DEF FieldsMatchHandle, BaseOfServerAsked, NoHandleLeak, KindInv, LockInv, Dangling, Private, InCritical
<1>4. FinalInv'
  BY DEF FinalInv, LockInv, InCritical
<1> QED
  BY <1>1, <1>2, <1>3, <1>4

LEMMA StartOpIInv ==
    ASSUME IInv, TypeOK', NEW t \in Task, NEW k \in Kinds, StartOp(t, k)
    PROVE  IInv'
<1> USE DEF IInv, TypeOK, StartOp, object, libldap
<1>1. UseInv' /\ LockInv' /\ KindInv'
  BY DEF UseInv, LockInv, KindInv, Private, Using, InCritical
<1>2. NoHandleLeak' /\ DanglingInv'
  BY DEF NoHandleLeak, DanglingInv, LockInv, UseInv, Dangling, Private, InCritical
<1>3. FieldsMatchHandle' /\ BaseOfServerAsked'
  BY DEF FieldsMatchHandle, BaseOfServerAsked, NoHandleLeak, KindInv, LockInv, Dangling, Private, InCritical
<1>4. FinalInv'
  BY DEF FinalInv, LockInv, InCritical
<1> QED
  BY <1>1, <1>2, <1>3, <1>4

LEMMA DeliverIInv ==
    ASSUME IInv, TypeOK', NEW t \in Task, Deliver(t)
    PROVE  IInv'
<1> USE DEF IInv, TypeOK, Deliver, object, libldap, request
<1>1. UseInv' /\ LockInv' /\ KindInv'
  BY DEF UseInv, LockInv, KindInv, Private, Using, InCritical
<1>2. NoHandleLeak' /\ DanglingInv'
  BY DEF NoHandleLeak, DanglingInv, LockInv, UseInv, Dangling, Private, InCritical
<1>3. FieldsMatchHandle' /\ BaseOfServerAsked'
  BY DEF FieldsMatchHandle, BaseOfServerAsked, NoHandleLeak, KindInv, LockInv, Dangling, Private, InCritical
<1>4. FinalInv'
  BY DEF FinalInv, LockInv, InCritical
<1> QED
  BY <1>1, <1>2, <1>3, <1>4

LEMMA InitializeIInv ==
    ASSUME IInv, TypeOK', NEW t \in Task, Initialize(t)
    PROVE  IInv'
<1> USE DEF IInv, TypeOK, Initialize, object, libldap, request
<1>0. /\ \A u \in Task : InCritical(u)' <=> InCritical(u)
      /\ \A u \in Task : Using(u)' <=> Using(u)
      /\ Dangling' <=> Dangling
  BY DEF InCritical, Using, Dangling, Return
<1>1. ASSUME NEW h \in Handle \ live,
             live' = live \cup {h},
             server' = [server EXCEPT ![h] = target[t]],
             local' = [local EXCEPT ![t] = h],
             pc' = [pc EXCEPT ![t] = IF target[t] \in TlsProfile
                                     THEN "tls" ELSE "bind"],
             UNCHANGED result
      PROVE  IInv'
  <2>1. /\ Private(t)' /\ ~Private(t) /\ ~Using(t)
        /\ \A u \in Task \ {t} : Private(u)' <=> Private(u)
    BY <1>1 DEF Private, Using
  <2>2. \A u \in Task : Private(u) => local[u] # h
    BY DEF NoHandleLeak
  <2>3. UseInv' /\ LockInv'
    BY <1>0, <1>1, <2>1 DEF UseInv, LockInv
  <2>4. KindInv'
    BY <1>0, <1>1, <2>1, <2>2 DEF KindInv
  <2>5. NoHandleLeak'
    <3>1. /\ local'[t] = h /\ ld' = ld
          /\ \A u \in Task \ {t} : local'[u] = local[u]
      BY <1>1
    <3>2. \A g \in live' : g = ld' \/ \E u \in Task : Private(u)' /\ local'[u] = g
      BY <1>1, <2>1, <3>1 DEF NoHandleLeak
    <3>3. \A u \in Task : Private(u)' => local'[u] \in live'
      BY <1>1, <2>1, <3>1 DEF NoHandleLeak
    <3>4. \A u, v \in Task : Private(u)' /\ Private(v)' /\ u # v
                                => local'[u] # local'[v]
      BY <2>1, <2>2, <3>1 DEF NoHandleLeak
    <3>5. ~Dangling' => /\ ld' # NoHandle => ld' \in live'
                        /\ \A u \in Task : Private(u)' => local'[u] # ld'
      <4>1. ~Dangling => ld # h
        BY ConstantsAssumption DEF NoHandleLeak
      <4> QED
        BY <1>0, <1>1, <2>1, <3>1, <4>1 DEF NoHandleLeak
    <3> QED
      BY <3>2, <3>3, <3>4, <3>5 DEF NoHandleLeak
  <2>6. DanglingInv'
    BY <1>0, <1>1, <2>1, <2>2 DEF DanglingInv
  <2>7. FieldsMatchHandle' /\ BaseOfServerAsked'
    BY <1>0, <1>1 DEF FieldsMatchHandle, BaseOfServerAsked, NoHandleLeak
  <2>8. FinalInv'
    BY <1>1 DEF FinalInv
  <2> QED
    BY <2>3, <2>4, <2>5, <2>6, <2>7, <2>8
<1>2. ASSUME Return(t, "error"), UNCHANGED <<libldap, local>>
      PROVE  IInv'
  <2>1. /\ \A u \in Task : Private(u)' <=> Private(u)
        /\ ~Using(t) /\ pc[t] # "nold"
    BY <1>2 DEF Private, Using, Return
  <2>2. UseInv' /\ LockInv' /\ KindInv'
    BY <1>0, <1>2, <2>1 DEF UseInv, LockInv, KindInv, Return
  <2>3. NoHandleLeak' /\ DanglingInv'
    BY <1>0, <1>2, <2>1 DEF NoHandleLeak, DanglingInv
  <2>4. FieldsMatchHandle' /\ BaseOfServerAsked'
    BY <1>0, <1>2 DEF FieldsMatchHandle, BaseOfServerAsked
  <2>5. FinalInv'
    BY <1>2 DEF FinalInv, Return
  <2> QED
    BY <2>2, <2>3, <2>4, <2>5
<1> QED
  BY <1>1, <1>2

LEMMA NegotiateIInv ==
    ASSUME IInv, TypeOK', NEW t \in Task, StartTls(t) \/ Bind(t)
    PROVE  IInv'
<1> USE DEF IInv, TypeOK, StartTls, Bind, Negotiate, object, libldap, request
<1>0. /\ Private(t) /\ ~Using(t) /\ ~InCritical(t)
      /\ \A u \in Task : InCritical(u)' <=> InCritical(u)
      /\ \A u \in Task : Using(u)' <=> Using(u)
      /\ Dangling' <=> Dangling
      /\ mpc' = mpc /\ mutex' = mutex /\ ld' = ld /\ local' = local
  BY DEF Private, InCritical, Using, Dangling, GiveUp, Return
<1>1. ASSUME UNCHANGED <<libldap, result>>, Private(t)'
      PROVE  IInv'
  <2>1. /\ \A u \in Task : Private(u)' <=> Private(u)
    BY <1>0, <1>1 DEF Private, GiveUp, Return
  <2>2. UseInv' /\ LockInv' /\ KindInv'
    BY <1>0, <1>1, <2>1 DEF UseInv, LockInv, KindInv, Private, Using, GiveUp, Return
  <2>3. NoHandleLeak' /\ DanglingInv'
    BY <1>0, <1>1, <2>1 DEF NoHandleLeak, DanglingInv
  <2>4. FieldsMatchHandle' /\ BaseOfServerAsked' /\ FinalInv'
    BY <1>0, <1>1 DEF FieldsMatchHandle, BaseOfServerAsked, FinalInv
  <2> QED
    BY <2>2, <2>3, <2>4
<1>2. ASSUME GiveUp(t)
      PROVE  IInv'
  <2>1. /\ ~Private(t)'
        /\ \A u \in Task \ {t} : Private(u)' <=> Private(u)
        /\ live' = live \ {local[t]}
        /\ server' = server
    BY <1>2 DEF Private, GiveUp, Return
  <2>2. UseInv' /\ LockInv' /\ KindInv'
    BY <1>0, <1>2, <2>1 DEF UseInv, LockInv, KindInv, Private, GiveUp, Return
  <2>3. NoHandleLeak'
    BY <1>0, <2>1 DEF NoHandleLeak
  <2>4. DanglingInv'
    BY <1>0, <2>1 DEF DanglingInv
  <2>5. FieldsMatchHandle' /\ BaseOfServerAsked' /\ FinalInv'
    BY <1>0, <1>2, <2>1 DEF FieldsMatchHandle, BaseOfServerAsked, FinalInv,
       GiveUp, Return
  <2> QED
    BY <2>2, <2>3, <2>4, <2>5
<1> QED
  BY <1>1, <1>2 DEF Private

LEMMA LockIInv ==
    ASSUME IInv, TypeOK', NEW t \in Task, Lock(t)
    PROVE  IInv'
<1> USE DEF IInv, TypeOK, Lock, object, libldap, request
<1>1. UseInv' /\ LockInv' /\ KindInv'
  BY ConstantsAssumption DEF UseInv, LockInv, KindInv, Private, Using, InCritical
<1>2. NoHandleLeak' /\ DanglingInv'
  BY ConstantsAssumption DEF NoHandleLeak, DanglingInv, LockInv, UseInv, Dangling, Private, InCritical
<1>3. FieldsMatchHandle' /\ BaseOfServerAsked'
  BY ConstantsAssumption DEF FieldsMatchHandle, BaseOfServerAsked, NoHandleLeak, KindInv, LockInv, Dangling, Private, InCritical
<1>4. FinalInv'
  BY ConstantsAssumption DEF FinalInv, LockInv, InCritical
<1> QED
  BY <1>1, <1>2, <1>3, <1>4

LEMMA ReplaceIInv ==
    ASSUME IInv, TypeOK', NEW t \in Task, Replace(t)
    PROVE  IInv'
<1> USE DEF IInv, TypeOK, Replace, object, libldap, request
<1>1. UseInv' /\ LockInv' /\ KindInv'
  BY ConstantsAssumption DEF UseInv, LockInv, KindInv, Private, Using, InCritical
<1>2. NoHandleLeak' /\ DanglingInv'
  BY ConstantsAssumption DEF NoHandleLeak, DanglingInv, LockInv, UseInv, Dangling, Private, InCritical
<1>3. FieldsMatchHandle' /\ BaseOfServerAsked'
  BY ConstantsAssumption DEF FieldsMatchHandle, BaseOfServerAsked, NoHandleLeak, KindInv, LockInv, Dangling, Private, InCritical
<1>4. FinalInv'
  BY ConstantsAssumption DEF FinalInv, LockInv, InCritical
<1> QED
  BY <1>1, <1>2, <1>3, <1>4

LEMMA InstallIInv ==
    ASSUME IInv, TypeOK', NEW t \in Task, Install(t)
    PROVE  IInv'
<1> USE DEF IInv, TypeOK, Install, object, libldap, request
<1>1. UseInv' /\ LockInv' /\ KindInv'
  BY ConstantsAssumption DEF UseInv, LockInv, KindInv, Private, Using, InCritical
<1>2. NoHandleLeak' /\ DanglingInv'
  BY ConstantsAssumption DEF NoHandleLeak, DanglingInv, LockInv, UseInv, Dangling, Private, InCritical
<1>3. FieldsMatchHandle' /\ BaseOfServerAsked'
  BY ConstantsAssumption DEF FieldsMatchHandle, BaseOfServerAsked, NoHandleLeak, KindInv, LockInv, Dangling, Private, InCritical
<1>4. FinalInv'
  BY ConstantsAssumption DEF FinalInv, LockInv, InCritical
<1> QED
  BY <1>1, <1>2, <1>3, <1>4

LEMMA UnlockIInv ==
    ASSUME IInv, TypeOK', NEW t \in Task, Unlock(t)
    PROVE  IInv'
<1> USE DEF IInv, TypeOK, Unlock, Return, object, libldap, request
<1>1. UseInv' /\ LockInv' /\ KindInv'
  BY ConstantsAssumption DEF UseInv, LockInv, KindInv, Private, Using, InCritical
<1>2. NoHandleLeak' /\ DanglingInv'
  BY ConstantsAssumption DEF NoHandleLeak, DanglingInv, LockInv, UseInv, Dangling, Private, InCritical
<1>3. FieldsMatchHandle' /\ BaseOfServerAsked'
  BY ConstantsAssumption DEF FieldsMatchHandle, BaseOfServerAsked, NoHandleLeak, KindInv, LockInv, Dangling, Private, InCritical
<1>4. FinalInv'
  BY ConstantsAssumption DEF FinalInv, LockInv, InCritical
<1> QED
  BY <1>1, <1>2, <1>3, <1>4

LEMMA AcquireIInv ==
    ASSUME IInv, TypeOK', NEW t \in Task, Acquire(t)
    PROVE  IInv'
<1> USE DEF IInv, TypeOK, Acquire, object, libldap, request
<1>1. UseInv' /\ LockInv' /\ KindInv'
  BY ConstantsAssumption DEF UseInv, LockInv, KindInv, Private, Using, InCritical
<1>2. NoHandleLeak' /\ DanglingInv'
  BY ConstantsAssumption DEF NoHandleLeak, DanglingInv, LockInv, UseInv, Dangling, Private, InCritical
<1>3. FieldsMatchHandle' /\ BaseOfServerAsked'
  BY ConstantsAssumption DEF FieldsMatchHandle, BaseOfServerAsked, NoHandleLeak, KindInv, LockInv, Dangling, Private, InCritical
<1>4. FinalInv'
  BY ConstantsAssumption DEF FinalInv, LockInv, InCritical
<1> QED
  BY <1>1, <1>2, <1>3, <1>4

LEMMA NotConnectedIInv ==
    ASSUME IInv, TypeOK', NEW t \in Task, NotConnected(t)
    PROVE  IInv'
<1> USE DEF IInv, TypeOK, NotConnected, Return, object, libldap, request
<1>1. UseInv' /\ LockInv' /\ KindInv'
  BY ConstantsAssumption DEF UseInv, LockInv, KindInv, Private, Using, InCritical
<1>2. NoHandleLeak' /\ DanglingInv'
  BY ConstantsAssumption DEF NoHandleLeak, DanglingInv, LockInv, UseInv, Dangling, Private, InCritical
<1>3. FieldsMatchHandle' /\ BaseOfServerAsked'
  BY ConstantsAssumption DEF FieldsMatchHandle, BaseOfServerAsked, NoHandleLeak, KindInv, LockInv, Dangling, Private, InCritical
<1>4. FinalInv'
  BY ConstantsAssumption DEF FinalInv, LockInv, InCritical
<1> QED
  BY <1>1, <1>2, <1>3, <1>4

LEMMA ExchangeIInv ==
    ASSUME IInv, TypeOK', NEW t \in Task, Exchange(t)
    PROVE  IInv'
<1> USE DEF IInv, TypeOK, Exchange, object, libldap, request
<1>1. UseInv' /\ LockInv' /\ KindInv'
  BY ConstantsAssumption DEF UseInv, LockInv, KindInv, Private, Using, InCritical
<1>2. NoHandleLeak' /\ DanglingInv'
  BY ConstantsAssumption DEF NoHandleLeak, DanglingInv, LockInv, UseInv, Dangling, Private, InCritical
<1>3. FieldsMatchHandle' /\ BaseOfServerAsked'
  <2>1. ~Dangling /\ local[t] = ld /\ ld \in live
    BY UsedHandleLive DEF Using
  <2>2. server[local[t]] = profile
    BY <2>1, ConstantsAssumption DEF FieldsMatchHandle
  <2>3. asked'[t] = [server |-> profile, base |-> profile]
    BY <2>2
  <2>4. BaseOfServerAsked'
    BY <2>3 DEF BaseOfServerAsked
  <2>5. UNCHANGED <<object, server>>
    OBVIOUS
  <2>6. FieldsMatchHandle'
    BY <2>1, <2>5 DEF FieldsMatchHandle
  <2> QED
    BY <2>4, <2>6
<1>4. FinalInv'
  BY ConstantsAssumption DEF FinalInv, LockInv, InCritical
<1> QED
  BY <1>1, <1>2, <1>3, <1>4

LEMMA ReleaseIInv ==
    ASSUME IInv, TypeOK', NEW t \in Task, Release(t)
    PROVE  IInv'
<1> USE DEF IInv, TypeOK, Release, object, libldap, request
<1>1. UseInv' /\ LockInv' /\ KindInv'
  BY ConstantsAssumption DEF UseInv, LockInv, KindInv, Private, Using, InCritical
<1>2. NoHandleLeak' /\ DanglingInv'
  BY ConstantsAssumption DEF NoHandleLeak, DanglingInv, LockInv, UseInv, Dangling, Private, InCritical
<1>3. FieldsMatchHandle' /\ BaseOfServerAsked'
  BY ConstantsAssumption DEF FieldsMatchHandle, BaseOfServerAsked, NoHandleLeak, KindInv, LockInv, Dangling, Private, InCritical
<1>4. FinalInv'
  BY ConstantsAssumption DEF FinalInv, LockInv, InCritical
<1> QED
  BY <1>1, <1>2, <1>3, <1>4

LEMMA MainIInv ==
    ASSUME IInv, TypeOK', Disconnect \/ DropReference \/ MainStep
    PROVE  IInv'
<1> USE DEF IInv, TypeOK, Disconnect, DropReference, MainStep, Finalize,
           MainLock, MainUnbind, MainUnlock, object, libldap, request
<1>1. UseInv' /\ LockInv' /\ KindInv'
  BY ConstantsAssumption DEF UseInv, LockInv, KindInv, Private, Using, InCritical
<1>2. NoHandleLeak' /\ DanglingInv'
  BY ConstantsAssumption DEF NoHandleLeak, DanglingInv, LockInv, UseInv, Dangling, Private, InCritical
<1>3. FieldsMatchHandle' /\ BaseOfServerAsked'
  BY ConstantsAssumption DEF FieldsMatchHandle, BaseOfServerAsked, NoHandleLeak, KindInv, LockInv, Dangling, Private, InCritical
<1>4. FinalInv'
  BY ConstantsAssumption DEF FinalInv, LockInv, InCritical
<1> QED
  BY <1>1, <1>2, <1>3, <1>4


LEMMA StepIInv == IInv /\ [Next]_vars => IInv'
<1> SUFFICES ASSUME IInv, [Next]_vars
             PROVE  IInv'
  OBVIOUS
<1>0. TypeOK'
  BY StepTypeOK DEF IInv
<1>1. ASSUME NEW t \in Task, NEW p \in Profile, StartConnect(t, p)
      PROVE  IInv'
  BY <1>0, <1>1, StartConnectIInv
<1>2. ASSUME NEW t \in Task, NEW k \in Kinds, StartOp(t, k)
      PROVE  IInv'
  BY <1>0, <1>2, StartOpIInv
<1>3. ASSUME NEW t \in Task, Worker(t)
      PROVE  IInv'
  BY <1>0, <1>3, InitializeIInv, NegotiateIInv, LockIInv, ReplaceIInv,
     InstallIInv, UnlockIInv, AcquireIInv, NotConnectedIInv, ExchangeIInv,
     ReleaseIInv DEF Worker
<1>4. ASSUME NEW t \in Task, Deliver(t)
      PROVE  IInv'
  BY <1>0, <1>4, DeliverIInv
<1>5. CASE Disconnect \/ DropReference \/ MainStep
  BY <1>0, <1>5, MainIInv
<1>6. CASE UNCHANGED vars
  BY <1>0, <1>6 DEF vars, object, libldap, request, IInv, UseInv, LockInv,
     KindInv, NoHandleLeak, DanglingInv, FieldsMatchHandle, BaseOfServerAsked,
     FinalInv, Dangling, Private, Using, InCritical
<1> QED
  BY <1>1, <1>2, <1>3, <1>4, <1>5, <1>6 DEF Next, Gone

LEMMA Inductive == Spec => []IInv
BY InitIInv, StepIInv, PTL DEF Spec

-----------------------------------------------------------------------------
(* Every variable keeps its type, whatever the number of tasks, profiles   *)
(* and handles.                                                            *)
THEOREM TypeCorrect == Spec => []TypeOK
<1>1. IInv => TypeOK
  BY DEF IInv
<1> QED
  BY <1>1, Inductive, PTL

(* No LDAP call ever runs on a handle that was unbound or replaced.        *)
THEOREM HandleIsSafe == Spec => []HandleSafety
<1>1. IInv => HandleSafety
  BY UsedHandleLive DEF HandleSafety
<1> QED
  BY <1>1, Inductive, PTL

(* No handle is lost and none is unbound twice.                            *)
THEOREM NoHandleIsLost == Spec => []NoHandleLeak
<1>1. IInv => NoHandleLeak
  BY DEF IInv
<1> QED
  BY <1>1, Inductive, PTL

(* The base DN a request searches is that of the server it asks.           *)
THEOREM BaseIsOfServer == Spec => [](FieldsMatchHandle /\ BaseOfServerAsked)
<1>1. IInv => FieldsMatchHandle /\ BaseOfServerAsked
  BY DEF IInv
<1> QED
  BY <1>1, Inductive, PTL

(* Finalizing an object releases everything it had.                        *)
THEOREM FinalizedIsClean == Spec => []FinalizedClean
<1>1. IInv => FinalizedClean
  <2> SUFFICES ASSUME IInv, mpc = "finalized"
               PROVE  /\ live = {}
                      /\ \A t \in Task : pc[t] \in {"idle", "delivered"}
    BY DEF FinalizedClean
  <2>1. \A t \in Task : pc[t] \in {"idle", "delivered"}
    BY DEF IInv, FinalInv
  <2>2. \A t \in Task : ~Private(t)
    BY <2>1 DEF Private
  <2>3. ld = NoHandle /\ NoHandle \notin live
    BY ConstantsAssumption DEF IInv, FinalInv, TypeOK
  <2> QED
    BY <2>1, <2>2, <2>3 DEF IInv, NoHandleLeak
<1> QED
  BY <1>1, Inductive, PTL

-----------------------------------------------------------------------------
(* While a worker is inside its LDAP call nobody changes the session.      *)
LEMMA StepSessionStable ==
    ASSUME IInv, [Next]_vars, NEW t \in Task, Using(t), Using(t)'
    PROVE  UNCHANGED object
<1> USE DEF IInv
<1>1. InCritical(t) /\ mutex = t /\ mutex # Main
  BY UsedHandleLive, ConstantsAssumption DEF Using, InCritical
<1>2. ASSUME NEW u \in Task, Install(u)
      PROVE  FALSE
  BY <1>1, <1>2, OneInCritical DEF Install, InCritical, Using
<1>3. ~MainUnbind
  BY <1>1 DEF MainUnbind, LockInv
<1> QED
  BY <1>2, <1>3 DEF Next, Worker, MainStep, Gone, StartConnect, StartOp,
     Deliver, Initialize, StartTls, Bind, Negotiate, Lock, Replace, Unlock,
     Acquire, NotConnected, Exchange, Release, Disconnect, DropReference,
     Finalize, MainLock, MainUnlock, object, vars

THEOREM SessionIsStable == Spec => SessionStableInUse
<1>1. IInv /\ [Next]_vars
        => [\A t \in Task : Using(t) /\ Using(t)' => UNCHANGED object]_vars
  BY StepSessionStable
<1> QED
  BY <1>1, Inductive, PTL DEF Spec, SessionStableInUse

-----------------------------------------------------------------------------
(***************************************************************************)
(* SbvConnection implements SbvSession: every step of the threads is a     *)
(* step of the abstract session or invisible.                              *)
(***************************************************************************)

LEMMA InitRefines == Init => Session!Init
BY DEF Init, Session!Init, CurrentSession, StatusOf, OutcomeOf, Decided,
   Nowhere

(* A step that moves only task t changes only t's abstract request. *)
LEMMA OthersUnseen ==
    ASSUME TypeOK, TypeOK', NEW t \in Task, NEW u \in Task, u # t,
           pc'[u] = pc[u], result'[u] = result[u], kind'[u] = kind[u]
    PROVE  StatusOf(u)' = StatusOf(u) /\ OutcomeOf(u)' = OutcomeOf(u)
BY DEF StatusOf, OutcomeOf, Decided

(* A step after which every request looks as before is invisible. *)
LEMMA Invisible ==
    ASSUME UNCHANGED <<CurrentSession, target, asked>>,
           \A u \in Task : StatusOf(u)' = StatusOf(u) /\ OutcomeOf(u)' = OutcomeOf(u)
    PROVE  UNCHANGED Session!vars
BY DEF Session!vars

(* A step that decides request t with outcome o. *)
LEMMA Decides ==
    ASSUME NEW t \in Task, NEW o,
           StatusOf(t) = "pending", StatusOf(t)' = "decided",
           OutcomeOf(t)' = o, target' = target,
           \A u \in Task \ {t} : StatusOf(u)' = StatusOf(u) /\ OutcomeOf(u)' = OutcomeOf(u)
    PROVE  Session!Decide(t, o)
BY DEF Session!Decide

-----------------------------------------------------------------------------
(* One lemma per action that clients can observe. *)

LEMMA StartRefines ==
    ASSUME IInv, IInv', NEW t \in Task, NEW p \in Profile \cup {NoProfile},
           pc[t] = "idle", pc' = [pc EXCEPT ![t] = "init"],
           target' = [target EXCEPT ![t] = p],
           \A u \in Task \ {t} : kind'[u] = kind[u],
           UNCHANGED <<object, result, asked>>
    PROVE  Session!Begin(t, p)
<1> USE DEF IInv, TypeOK
<1>1. \A u \in Task \ {t} :
         StatusOf(u)' = StatusOf(u) /\ OutcomeOf(u)' = OutcomeOf(u)
  BY OthersUnseen
<1>2. /\ StatusOf(t) = "idle" /\ StatusOf(t)' = "pending"
      /\ OutcomeOf(t) = "none" /\ OutcomeOf(t)' = "none"
  BY DEF StatusOf, OutcomeOf, Decided
<1>3. CurrentSession' = CurrentSession
  BY DEF CurrentSession, object
<1>4. [u \in Task |-> StatusOf(u)]'
        = [[u \in Task |-> StatusOf(u)] EXCEPT ![t] = "pending"]
  BY <1>1, <1>2
<1>5. [u \in Task |-> OutcomeOf(u)]' = [u \in Task |-> OutcomeOf(u)]
  BY <1>1, <1>2
<1>6. [u \in Task |-> asked[u].server]' = [u \in Task |-> asked[u].server]
  OBVIOUS
<1> QED
  BY <1>2, <1>3, <1>4, <1>5, <1>6 DEF Session!Begin

LEMMA InstallRefines ==
    ASSUME IInv, IInv', NEW t \in Task, Install(t)
    PROVE  Session!Bound(t)
<1> USE DEF IInv, TypeOK, Install, request, libldap
<1>1. \A u \in Task \ {t} :
         StatusOf(u)' = StatusOf(u) /\ OutcomeOf(u)' = OutcomeOf(u)
  BY OthersUnseen
<1>2. /\ StatusOf(t) = "pending" /\ StatusOf(t)' = "decided"
      /\ OutcomeOf(t)' = "bound"
  BY DEF StatusOf, OutcomeOf, Decided
<1>3. Session!Decide(t, "bound")
  BY <1>1, <1>2, Decides
<1>4. target[t] # NoProfile
  BY ConstantsAssumption DEF KindInv, Private
<1>5. CurrentSession' = target[t]
  BY DEF CurrentSession
<1> QED
  BY <1>3, <1>4, <1>5 DEF Session!Bound

LEMMA RefusalRefines ==
    ASSUME IInv, IInv', NEW t \in Task, Return(t, "error"),
           pc[t] \in {"init", "tls", "bind"}, kind[t] = "connect",
           UNCHANGED <<object, kind, target, asked>>
    PROVE  Session!Refused(t)
<1> USE DEF IInv, TypeOK, Return, object
<1>1. \A u \in Task \ {t} :
         StatusOf(u)' = StatusOf(u) /\ OutcomeOf(u)' = OutcomeOf(u)
  BY OthersUnseen
<1>2. /\ StatusOf(t) = "pending" /\ StatusOf(t)' = "decided"
      /\ OutcomeOf(t)' = "refused"
  BY DEF StatusOf, OutcomeOf, Decided
<1>3. Session!Decide(t, "refused")
  BY <1>1, <1>2, Decides
<1>4. target[t] # NoProfile /\ CurrentSession' = CurrentSession
  BY ConstantsAssumption DEF KindInv, CurrentSession
<1> QED
  BY <1>3, <1>4 DEF Session!Refused

LEMMA AbsenceRefines ==
    ASSUME IInv, IInv', NEW t \in Task, Acquire(t), ld = NoHandle
    PROVE  Session!Absent(t)
<1> USE DEF IInv, TypeOK, Acquire, object, request, libldap
<1>1. \A u \in Task \ {t} :
         StatusOf(u)' = StatusOf(u) /\ OutcomeOf(u)' = OutcomeOf(u)
  BY OthersUnseen
<1>2. /\ StatusOf(t) = "pending" /\ StatusOf(t)' = "decided"
      /\ OutcomeOf(t)' = "absent"
  BY DEF StatusOf, OutcomeOf, Decided
<1>3. Session!Decide(t, "absent")
  BY <1>1, <1>2, Decides
<1>4. target[t] = NoProfile
  BY DEF KindInv
<1>5. CurrentSession = NoProfile /\ CurrentSession' = CurrentSession
  BY DEF FieldsMatchHandle, CurrentSession
<1> QED
  BY <1>3, <1>4, <1>5 DEF Session!Absent

LEMMA ExchangeRefines ==
    ASSUME IInv, IInv', NEW t \in Task, Exchange(t)
    PROVE  Session!Answered(t)
<1> USE DEF Exchange, object, request, libldap
<1>0. TypeOK /\ TypeOK'
  BY DEF IInv
<1>1. \A u \in Task \ {t} :
         StatusOf(u)' = StatusOf(u) /\ OutcomeOf(u)' = OutcomeOf(u)
  BY <1>0, OthersUnseen DEF TypeOK
<1>2. /\ StatusOf(t) = "pending" /\ StatusOf(t)' = "decided"
      /\ OutcomeOf(t)' = "answered"
  BY <1>0 DEF StatusOf, OutcomeOf, Decided, TypeOK
<1>3. Session!Decide(t, "answered")
  BY <1>1, <1>2, Decides
<1>4. target[t] = NoProfile
  BY DEF IInv, KindInv, Using
<1>5. ~Dangling /\ local[t] = ld /\ ld \in Handle
  BY <1>0, UsedHandleLive DEF Using, TypeOK
<1>6. connected /\ profile # NoProfile /\ server[local[t]] = profile
  BY <1>5, ConstantsAssumption DEF IInv, FieldsMatchHandle
<1>7. CurrentSession = profile /\ CurrentSession' = CurrentSession
  BY <1>6 DEF CurrentSession
<1>8. [u \in Task |-> asked'[u].server]
        = [[u \in Task |-> asked[u].server] EXCEPT ![t] = profile]
  <2>1. asked' = [asked EXCEPT ![t] = [server |-> profile, base |-> profile]]
    BY <1>6
  <2>2. asked'[t].server = profile
    BY <1>0, <2>1 DEF TypeOK
  <2>3. \A u \in Task \ {t} : asked'[u].server = asked[u].server
    BY <1>0, <2>1 DEF TypeOK
  <2> HIDE DEF Exchange
  <2> QED
    BY <2>2, <2>3
<1> QED
  BY <1>3, <1>4, <1>6, <1>7, <1>8 DEF Session!Answered

LEMMA DeliverRefines ==
    ASSUME IInv, IInv', NEW t \in Task, Deliver(t)
    PROVE  Session!Delivered(t)
<1> USE DEF IInv, TypeOK, Deliver, object, request, libldap
<1>1. \A u \in Task \ {t} :
         StatusOf(u)' = StatusOf(u) /\ OutcomeOf(u)' = OutcomeOf(u)
  BY OthersUnseen
<1>2. /\ StatusOf(t) = "decided" /\ StatusOf(t)' = "delivered"
      /\ OutcomeOf(t)' = OutcomeOf(t)
  BY DEF StatusOf, OutcomeOf, Decided
<1>3. CurrentSession' = CurrentSession
  BY DEF CurrentSession
<1>4. [u \in Task |-> StatusOf(u)]'
        = [[u \in Task |-> StatusOf(u)] EXCEPT ![t] = "delivered"]
  BY <1>1, <1>2
<1>5. [u \in Task |-> OutcomeOf(u)]' = [u \in Task |-> OutcomeOf(u)]
  BY <1>1, <1>2
<1>6. [u \in Task |-> asked[u].server]' = [u \in Task |-> asked[u].server]
  OBVIOUS
<1> QED
  BY <1>2, <1>3, <1>4, <1>5, <1>6 DEF Session!Delivered

LEMMA UnbindRefines ==
    ASSUME IInv, IInv', MainUnbind
    PROVE  Session!Close
<1> USE DEF MainUnbind, request
<1>1. \A u \in Task : StatusOf(u)' = StatusOf(u) /\ OutcomeOf(u)' = OutcomeOf(u)
  BY DEF StatusOf, OutcomeOf, Decided
<1>2. CurrentSession' = NoProfile
  BY DEF CurrentSession
<1> QED
  BY <1>1, <1>2 DEF Session!Close

-----------------------------------------------------------------------------
(* The steps clients cannot observe. *)

LEMMA SilentTaskStep ==
    ASSUME IInv, IInv', NEW t \in Task,
           \/ Lock(t) \/ Replace(t) \/ Unlock(t)
           \/ NotConnected(t) \/ Release(t)
           \/ Acquire(t) /\ ld # NoHandle
    PROVE  UNCHANGED Session!vars
<1> USE DEF IInv, TypeOK, Lock, Replace, Unlock, NotConnected, Release, Acquire,
           Return, object, request, libldap
<1>1. \A u \in Task \ {t} :
         StatusOf(u)' = StatusOf(u) /\ OutcomeOf(u)' = OutcomeOf(u)
  BY OthersUnseen
<1>2. StatusOf(t)' = StatusOf(t)
  BY DEF StatusOf, Decided
<1>3. OutcomeOf(t)' = OutcomeOf(t)
  BY DEF OutcomeOf, Decided, KindInv, Using, Private
<1>4. UNCHANGED <<CurrentSession, target, asked>>
  BY DEF CurrentSession
<1> QED
  BY <1>1, <1>2, <1>3, <1>4, Invisible

LEMMA SilentAdvance ==
    ASSUME IInv, IInv', NEW t \in Task,
           pc[t] \in {"init", "tls", "bind"},
           \E next \in {"tls", "bind", "lock"} : pc' = [pc EXCEPT ![t] = next],
           UNCHANGED <<object, request, result, asked>>
    PROVE  UNCHANGED Session!vars
<1> USE DEF IInv, TypeOK, object, request
<1>1. \A u \in Task \ {t} :
         StatusOf(u)' = StatusOf(u) /\ OutcomeOf(u)' = OutcomeOf(u)
  BY OthersUnseen
<1>2. StatusOf(t)' = StatusOf(t) /\ OutcomeOf(t)' = OutcomeOf(t)
  BY DEF StatusOf, OutcomeOf, Decided
<1>3. UNCHANGED <<CurrentSession, target, asked>>
  BY DEF CurrentSession
<1> QED
  BY <1>1, <1>2, <1>3, Invisible

LEMMA SilentMainStep ==
    ASSUME UNCHANGED <<object, kind, target, pc, result, asked>>
    PROVE  UNCHANGED Session!vars
<1>1. UNCHANGED <<CurrentSession, target, asked>>
  BY DEF CurrentSession, object
<1>2. \A u \in Task : StatusOf(u)' = StatusOf(u) /\ OutcomeOf(u)' = OutcomeOf(u)
  BY DEF StatusOf, OutcomeOf, Decided
<1> QED
  BY <1>1, <1>2, Invisible

-----------------------------------------------------------------------------
LEMMA StepRefines ==
    ASSUME IInv, IInv', [Next]_vars
    PROVE  [Session!Next]_(Session!vars)
<1>1. ASSUME NEW t \in Task, NEW p \in Profile, StartConnect(t, p)
      PROVE  Session!Next
  <2>1. Session!Begin(t, p)
    <3>1. \A u \in Task \ {t} : kind'[u] = kind[u]
      BY <1>1 DEF StartConnect, IInv, TypeOK
    <3> QED
      BY <1>1, <3>1, StartRefines DEF StartConnect, object
  <2> QED
    BY <2>1 DEF Session!Next
<1>2. ASSUME NEW t \in Task, NEW k \in Kinds, StartOp(t, k)
      PROVE  Session!Next
  <2>1. Session!Begin(t, NoProfile)
    <3>1. \A u \in Task \ {t} : kind'[u] = kind[u]
      BY <1>2 DEF StartOp, IInv, TypeOK
    <3>2. target' = [target EXCEPT ![t] = NoProfile]
      BY <1>2 DEF StartOp, IInv, TypeOK, KindInv
    <3> QED
      BY <1>2, <3>1, <3>2, StartRefines DEF StartOp, object
  <2> QED
    BY <2>1 DEF Session!Next
<1>3. ASSUME NEW t \in Task, Initialize(t)
      PROVE  [Session!Next]_(Session!vars)
  <2>1. CASE Return(t, "error")
    <3>1. Session!Refused(t)
      BY <1>3, <2>1, RefusalRefines DEF Initialize, object, request
    <3> QED
      BY <3>1 DEF Session!Next
  <2>2. CASE ~Return(t, "error")
    BY <1>3, <2>2, SilentAdvance DEF Initialize
  <2> QED
    BY <2>1, <2>2
<1>4. ASSUME NEW t \in Task, StartTls(t) \/ Bind(t)
      PROVE  [Session!Next]_(Session!vars)
  <2>0. kind[t] = "connect"
    BY <1>4 DEF StartTls, Bind, Negotiate, IInv, KindInv, Private
  <2>1. CASE GiveUp(t)
    <3>1. Session!Refused(t)
      BY <1>4, <2>0, <2>1, RefusalRefines
         DEF StartTls, Bind, Negotiate, GiveUp, object, request
    <3> QED
      BY <3>1 DEF Session!Next
  <2>2. CASE ~GiveUp(t)
    BY <1>4, <2>2, SilentAdvance DEF StartTls, Bind, Negotiate
  <2> QED
    BY <2>1, <2>2
<1>5. ASSUME NEW t \in Task, Install(t)
      PROVE  Session!Next
  BY <1>5, InstallRefines DEF Session!Next
<1>6. ASSUME NEW t \in Task, Acquire(t), ld = NoHandle
      PROVE  Session!Next
  BY <1>6, AbsenceRefines DEF Session!Next
<1>7. ASSUME NEW t \in Task, Exchange(t)
      PROVE  Session!Next
  BY <1>7, ExchangeRefines DEF Session!Next
<1>8. ASSUME NEW t \in Task, Deliver(t)
      PROVE  Session!Next
  BY <1>8, DeliverRefines DEF Session!Next
<1>9. ASSUME NEW t \in Task,
             \/ Lock(t) \/ Replace(t) \/ Unlock(t)
             \/ NotConnected(t) \/ Release(t)
             \/ Acquire(t) /\ ld # NoHandle
      PROVE  UNCHANGED Session!vars
  BY <1>9, SilentTaskStep
<1>10. CASE MainUnbind
  BY <1>10, UnbindRefines DEF Session!Next
<1>11. CASE \/ Disconnect \/ DropReference \/ Finalize \/ MainLock
            \/ MainUnlock \/ UNCHANGED vars
  BY <1>11, SilentMainStep DEF Disconnect, DropReference, Finalize, MainLock,
     MainUnlock, vars, object, request
<1> QED
  BY <1>1, <1>2, <1>3, <1>4, <1>5, <1>6, <1>7, <1>8, <1>9, <1>10, <1>11
     DEF Next, Worker, MainStep, Gone

(* For every number of tasks, profiles and handles, any client and any     *)
(* mix of requests: threads, handles and the mutex are invisible, and each *)
(* request is decided at one instant by the session current at it.         *)
THEOREM ConnectionImplementsSession == Spec => ImplementsSession
<1>1. Init => Session!Init
  BY InitRefines
<1>2. IInv /\ IInv' /\ [Next]_vars => [Session!Next]_(Session!vars)
  BY StepRefines
<1> QED
  BY <1>1, <1>2, Inductive, PTL DEF Spec, ImplementsSession, Session!Spec
=============================================================================
