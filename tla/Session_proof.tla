---------------------------- MODULE Session_proof ----------------------------
(***************************************************************************)
(* Proofs about module Session, for every set of threads and ids, every    *)
(* ttl and every length of the run.                                        *)
(***************************************************************************)
EXTENDS Session, TLAPS

\* What the look-up under the shared lock leaves behind: the request's cookie
\* names a session, and the session is in the store.
RInv == \A t \in Threads : pc[t] = "refresh" => cookie[t] \in Ids /\ cookie[t] \in storage

IInv == TypeOK /\ RInv

LEMMA InitIInv == Init => IInv
<1>1. Init => stop_flag \in BOOLEAN
  BY Zenon DEF Init
<1> QED
  BY <1>1, NoIdIsNoId, MaxTimeNat DEF Init, IInv, TypeOK, RInv

LEMMA NextIInv == IInv /\ [Next]_vars => IInv'
<1> SUFFICES ASSUME IInv, [Next]_vars PROVE IInv'
  OBVIOUS
<1> USE NoIdIsNoId, TtlNat, MaxTimeNat DEF IInv, TypeOK, RInv
<1>1. CASE Tick
  BY <1>1 DEF Tick, req
<1>2. ASSUME NEW t \in Threads, Request(t) PROVE IInv'
  <2>1. ASSUME NEW s \in issued \cup {NoId}, Begin(t, s) PROVE IInv'
    BY <2>1 DEF Begin, Goto
  <2>2. CASE Found(t)
    BY <2>2 DEF Found, Goto, Alive
  <2>3. CASE NotFound(t)
    BY <2>3 DEF NotFound, Goto
  <2>4. CASE Refresh(t)
    BY <2>4 DEF Refresh, Goto
  <2>5. ASSUME NEW s \in Ids, Replace(t, s) PROVE IInv'
    \* the unique lock: nobody is between look-up and refresh
    BY <2>5 DEF Replace, CreateSession, ExclusiveFree, Readers, Goto
  <2>6. CASE End(t)
    BY <2>6 DEF End, Goto
  <2> QED
    BY <1>2, <2>1, <2>2, <2>3, <2>4, <2>5, <2>6 DEF Request
<1>3. CASE Cleanup
  <2>1. CASE Sweep
    BY <2>1 DEF Sweep, ExclusiveFree, Readers, req
  <2>2. CASE CleanupTop \/ CleanupWait \/ CleanupTimeout \/ CleanupWoken
    BY <2>2 DEF CleanupTop, CleanupWait, CleanupTimeout, CleanupWoken, req
  <2> QED
    BY <1>3, <2>1, <2>2 DEF Cleanup
<1>4. CASE Shutdown
  BY <1>4 DEF Shutdown, SetStop, Notify, Join, req
<1>5. CASE UNCHANGED vars
  BY <1>5 DEF vars, req
<1> QED
  BY <1>1, <1>2, <1>3, <1>4, <1>5 DEF Next, OutOfIds

LEMMA Invariance == Spec => []IInv
BY InitIInv, NextIInv, PTL DEF Spec

\* Every state of the session store is well typed, and a request has a
\* session exactly while its handlers run.
THEOREM TypeCorrect == Spec => []TypeOK
BY Invariance, PTL DEF IInv

\* Whatever requests, cleanup and shutdown do, the iterator that the
\* middleware found under the shared lock is still valid when it stores the
\* new expiry through it.
THEOREM IteratorStaysValid == Spec => []RefreshingIsStored
<1>1. IInv => RefreshingIsStored
  BY DEF IInv, RInv, RefreshingIsStored
<1> QED
  BY <1>1, Invariance, PTL

-----------------------------------------------------------------------------
(* Sessions are lost to a race of two requests (LiveIsStored does not hold  *)
(* in general).  A pool of one worker does not have that race.              *)

\* A request about to replace its session has an id that was issued, and
\* nobody has refreshed that session since it was found missing or expired.
StaleCookie ==
    \A t \in Threads :
        /\ cookie[t] \in issued \cup {NoId}
        /\ pc[t] = "replace" /\ cookie[t] # NoId => expires[cookie[t]] <= now

LInv == LiveIsStored /\ StaleCookie

\* With a single worker a session that has not expired is in the store, so
\* the race that loses live sessions takes two workers.
THEOREM OneWorkerKeepsSessions ==
    ASSUME NEW t0, Threads = {t0}
    PROVE  Spec => []LiveIsStored
<1> USE NoIdIsNoId, TtlNat, MaxTimeNat DEF LInv, LiveIsStored, StaleCookie
<1>1. Init => LInv
  BY DEF Init
<1>2. IInv /\ LInv /\ [Next]_vars => LInv'
  <2> SUFFICES ASSUME IInv, LInv, [Next]_vars PROVE LInv'
    OBVIOUS
  <2> USE DEF IInv, TypeOK
  <2>1. CASE Tick
    BY <2>1 DEF Tick, req
  <2>2. ASSUME NEW t \in Threads, Request(t) PROVE LInv'
    <3>1. ASSUME NEW s \in issued \cup {NoId}, Begin(t, s) PROVE LInv'
      BY <3>1 DEF Begin, Goto
    <3>2. CASE Found(t)
      BY <3>2 DEF Found, Goto
    <3>3. CASE NotFound(t)
      BY <3>3 DEF NotFound, Goto, Alive
    <3>4. CASE Refresh(t)
      <4>1. cookie[t] \in storage
        BY <3>4 DEF Refresh, RInv
      <4> QED
        BY <3>4, <4>1 DEF Refresh, Goto
    <3>5. ASSUME NEW s \in Ids, Replace(t, s) PROVE LInv'
      BY <3>5 DEF Replace, CreateSession, Goto
    <3>6. CASE End(t)
      BY <3>6 DEF End, Goto
    <3> QED
      BY <2>2, <3>1, <3>2, <3>3, <3>4, <3>5, <3>6 DEF Request
  <2>3. CASE Cleanup
    <3>1. CASE Sweep
      BY <3>1 DEF Sweep, Expired, req
    <3>2. CASE CleanupTop \/ CleanupWait \/ CleanupTimeout \/ CleanupWoken
      BY <3>2 DEF CleanupTop, CleanupWait, CleanupTimeout, CleanupWoken, req
    <3> QED
      BY <2>3, <3>1, <3>2 DEF Cleanup
  <2>4. CASE Shutdown
    BY <2>4 DEF Shutdown, SetStop, Notify, Join, req
  <2>5. CASE UNCHANGED vars
    BY <2>5 DEF vars, req
  <2> QED
    BY <2>1, <2>2, <2>3, <2>4, <2>5 DEF Next, OutOfIds
<1>3. LInv => LiveIsStored
  OBVIOUS
<1> QED
  BY <1>1, <1>2, <1>3, Invariance, PTL DEF Spec
=============================================================================
