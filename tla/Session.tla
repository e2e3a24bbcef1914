------------------------------ MODULE Session ------------------------------
(***************************************************************************)
(* Cookie sessions: the Session middleware, the cleanup thread and         *)
(* session_shutdown of src/security/session.cpp.                           *)
(*                                                                         *)
(* `mutex' is a reader-writer lock.  Requests look a session up, and       *)
(* refresh it, under the shared lock, where other requests run too, so the *)
(* look-up and the refresh are two steps; what is done under the unique    *)
(* lock is one step that needs the lock to be free.  The clock advances at *)
(* any point between steps.                                                *)
(***************************************************************************)
EXTENDS Naturals, FiniteSets

CONSTANTS
    Threads,    \* workers that run the middleware chain
    Ids,        \* session ids random_hex can return (each at most once)
    NoId,       \* no cookie, or one that is not 64 hex digits
    Ttl,        \* seconds a session lives after a request
    MaxTime     \* bound of the model: the clock stops here

ASSUME NoIdIsNoId == NoId \notin Ids
ASSUME TtlNat == Ttl \in Nat
ASSUME MaxTimeNat == MaxTime \in Nat

VARIABLES
    now,        \* std::time
    storage,    \* the ids the map `storage' holds
    expires,    \* expires[s]: expires_at of session s
    issued,     \* history: every id ever given to a client
    pc,         \* where each request is
    cookie,     \* session_id: the id the request came with
    session,    \* req.session
    stop_flag,
    cpc,        \* where the cleanup thread is
    spc         \* where session_shutdown is

req == <<pc, cookie, session>>
vars == <<now, storage, expires, issued, req, stop_flag, cpc, spc>>

Init ==
    /\ now = 0
    /\ storage = {} /\ issued = {}
    /\ expires = [s \in Ids |-> 0]
    /\ pc = [t \in Threads |-> "idle"]
    /\ cookie = [t \in Threads |-> NoId]
    /\ session = [t \in Threads |-> NoId]
    /\ stop_flag = FALSE
    /\ cpc = "top" /\ spc = "none"

Tick ==
    /\ now < MaxTime
    /\ now' = now + 1
    /\ UNCHANGED <<storage, expires, issued, req, stop_flag, cpc, spc>>

-----------------------------------------------------------------------------
(* A request on thread t. *)

\* The threads that hold the shared lock between two steps.
Readers == {t \in Threads : pc[t] = "refresh"}

ExclusiveAlways == TRUE                  \* mutant
ExclusiveFree == Readers = {}

Goto(t, l) == pc' = [pc EXCEPT ![t] = l]

\* The cookie is parsed.  A client sends an id it was given, however old.
Begin(t, s) ==
    /\ pc[t] = "idle"
    /\ cookie' = [cookie EXCEPT ![t] = s]
    /\ Goto(t, "lookup")
    /\ UNCHANGED <<now, storage, expires, issued, session, stop_flag, cpc, spc>>

Alive(s) == s \in storage /\ expires[s] > now

\* Under the shared lock: the session is there and has not expired.
Found(t) ==
    /\ pc[t] = "lookup" /\ cookie[t] # NoId /\ Alive(cookie[t])
    /\ Goto(t, "refresh")
    /\ UNCHANGED <<now, storage, expires, issued, cookie, session, stop_flag, cpc, spc>>

\* The shared lock is released without a session.
NotFound(t) ==
    /\ pc[t] = "lookup" /\ (cookie[t] = NoId \/ ~Alive(cookie[t]))
    /\ Goto(t, "replace")
    /\ UNCHANGED <<now, storage, expires, issued, cookie, session, stop_flag, cpc, spc>>

\* Still under the shared lock: expires_at.store(time + ttl); unlock.
Refresh(t) ==
    /\ pc[t] = "refresh"
    /\ expires' = [expires EXCEPT ![cookie[t]] = now + Ttl]
    /\ session' = [session EXCEPT ![t] = cookie[t]]
    /\ Goto(t, "run")
    /\ UNCHANGED <<now, storage, issued, cookie, stop_flag, cpc, spc>>

\* create_session, with a fresh id, in a store that holds `stored' so far.
CreateSession(t, s, stored) ==
    /\ s \in Ids \ issued
    /\ storage' = stored \cup {s}
    /\ expires' = [expires EXCEPT ![s] = now + Ttl]
    /\ issued' = issued \cup {s}
    /\ session' = [session EXCEPT ![t] = s]

\* Under the unique lock: erase the session the cookie names, whatever has
\* become of it, and create a new one.
Replace(t, s) ==
    /\ pc[t] = "replace" /\ ExclusiveFree
    /\ CreateSession(t, s, storage \ {cookie[t]})
    /\ Goto(t, "run")
    /\ UNCHANGED <<now, cookie, stop_flag, cpc, spc>>

\* next() returns: the handlers are done with req.session.
End(t) ==
    /\ pc[t] = "run"
    /\ cookie' = [cookie EXCEPT ![t] = NoId]
    /\ session' = [session EXCEPT ![t] = NoId]
    /\ Goto(t, "idle")
    /\ UNCHANGED <<now, storage, expires, issued, stop_flag, cpc, spc>>

-----------------------------------------------------------------------------
(* The cleanup thread. *)

\* while(!stop_flag)
CleanupTop ==
    /\ cpc = "top"
    /\ cpc' = IF stop_flag THEN "exited" ELSE "towait"
    /\ UNCHANGED <<now, storage, expires, issued, req, stop_flag, spc>>

\* Enter cv.wait_for.  A notification sent before this is lost: stop_flag is
\* set, and the notification sent, without cleanup_mutex.
CleanupWait ==
    /\ cpc = "towait"
    /\ cpc' = "waiting"
    /\ UNCHANGED <<now, storage, expires, issued, req, stop_flag, spc>>

NoTimeout == FALSE                       \* mutant
TimeoutMayPass == TRUE

\* wait_for returns after 60 seconds, or for no reason.
CleanupTimeout ==
    /\ cpc = "waiting" /\ TimeoutMayPass
    /\ cpc' = "woken"
    /\ UNCHANGED <<now, storage, expires, issued, req, stop_flag, spc>>

\* if(stop_flag) break
CleanupWoken ==
    /\ cpc = "woken"
    /\ cpc' = IF stop_flag THEN "exited" ELSE "sweep"
    /\ UNCHANGED <<now, storage, expires, issued, req, stop_flag, spc>>

NeverExpired(s) == FALSE                        \* mutant
Expired(s) == expires[s] <= now

\* Under the unique lock: erase what has expired.
Sweep ==
    /\ cpc = "sweep" /\ ExclusiveFree
    /\ storage' = {s \in storage : ~Expired(s)}
    /\ cpc' = "top"
    /\ UNCHANGED <<now, expires, issued, req, stop_flag, spc>>

-----------------------------------------------------------------------------
(* session_shutdown. *)

SetStop ==
    /\ spc = "none"
    /\ stop_flag' = TRUE
    /\ spc' = "notify"
    /\ UNCHANGED <<now, storage, expires, issued, req, cpc>>

Notify ==
    /\ spc = "notify"
    /\ spc' = "join"
    /\ cpc' = IF cpc = "waiting" THEN "woken" ELSE cpc
    /\ UNCHANGED <<now, storage, expires, issued, req, stop_flag>>

Join ==
    /\ spc = "join" /\ cpc = "exited"
    /\ spc' = "joined"
    /\ UNCHANGED <<now, storage, expires, issued, req, stop_flag, cpc>>

-----------------------------------------------------------------------------
Request(t) ==
    \/ \E s \in issued \cup {NoId} : Begin(t, s)
    \/ Found(t) \/ NotFound(t) \/ Refresh(t)
    \/ \E s \in Ids : Replace(t, s)
    \/ End(t)

Cleanup == CleanupTop \/ CleanupWait \/ CleanupTimeout \/ CleanupWoken \/ Sweep

Shutdown == SetStop \/ Notify \/ Join

\* Ids of the model used up: a request that needs a new one gets no further.
OutOfIds ==
    /\ \E t \in Threads : pc[t] = "replace" /\ issued = Ids
    /\ UNCHANGED vars

Next == Tick \/ (\E t \in Threads : Request(t)) \/ Cleanup \/ Shutdown \/ OutOfIds

Spec == Init /\ [][Next]_vars

(***************************************************************************)
(* Fairness.  The cleanup thread goes on when it can: wait_for has a       *)
(* timeout, and a thread that finds the lock free again and again gets it. *)
(* A request that has begun goes on, and session_shutdown does once        *)
(* called.  Nothing forces the clock, a request or a shutdown.             *)
(*                                                                         *)
(* std::shared_mutex lets readers in while a writer waits, so under a load *)
(* in which requests overlap without end the cleanup thread starves; the   *)
(* liveness properties are about loads with moments at which no request    *)
(* holds the shared lock.                                                  *)
(***************************************************************************)
QuietMoments == []<>(Readers = {})

Fairness ==
    /\ QuietMoments
    /\ SF_vars(Cleanup)
    /\ \A t \in Threads :
          WF_vars(Found(t) \/ NotFound(t) \/ Refresh(t) \/ End(t))
    /\ WF_vars(Notify \/ Join)

FairSpec == Spec /\ Fairness

-----------------------------------------------------------------------------
(* Properties. *)

\* Types; a request has a session exactly while its handlers run.
TypeOK ==
    /\ now \in 0..MaxTime
    /\ storage \subseteq Ids
    /\ issued \subseteq Ids
    /\ expires \in [Ids -> Nat]
    /\ pc \in [Threads -> {"idle", "lookup", "refresh", "replace", "run"}]
    /\ cookie \in [Threads -> Ids \cup {NoId}]
    /\ session \in [Threads -> Ids \cup {NoId}]
    /\ \A t \in Threads : session[t] # NoId <=> pc[t] = "run"
    /\ stop_flag \in BOOLEAN
    /\ cpc \in {"top", "towait", "waiting", "woken", "sweep", "exited"}
    /\ spc \in {"none", "notify", "join", "joined"}

\* The iterator a request refreshes through stays valid: nobody, neither the
\* cleanup thread nor another request, erases the session between the look-up
\* and the refresh.
RefreshingIsStored ==
    \A t \in Threads : pc[t] = "refresh" => cookie[t] \in storage

\* Sliding expiration: a session that has not expired, counted from the last
\* request that used it, is in the store.
LiveIsStored == \A s \in issued : expires[s] > now => s \in storage

\* An expired session is swept, refreshed or made irrelevant by a shutdown.
ExpiredIsSwept ==
    \A s \in Ids :
        s \in storage /\ expires[s] <= now ~> s \notin storage \/ expires[s] > now \/ stop_flag

\* session_shutdown returns, even when its notification is lost.
ShutdownReturns == stop_flag ~> spc = "joined"
=============================================================================
