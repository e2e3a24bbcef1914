---------------------------- MODULE Server_proof ----------------------------
(***************************************************************************)
(* Proofs about module Server, for every set of connections, descriptors   *)
(* and workers, with and without TLS, and any number of requests.          *)
(***************************************************************************)
EXTENDS Server, SequenceTheorems, TLAPS

-----------------------------------------------------------------------------
(* The inductive invariant. *)

Queued(c) == \E i \in 1..Len(queue) : queue[i].conn = c

\* c is in a queued closure, or in one that a worker still serves.
Served(c) == Queued(c) \/ \E w \in Workers : Serving(w) /\ task[w].conn = c

\* The loop has accepted c and not yet put it into the map.
Inserting(f) == lpc = "insert" /\ lfd = f

\* An event of f may lead, now or later, to a look-up of f.
Armed(f) == f \in interest \/ f \in batch \/ (lpc = "lookup" /\ lfd = f)

\* Two open connections never have the same descriptor.
UniqueFds ==
    \A c, d \in Conns : fdOf[c] = fdOf[d] /\ fdOf[c] # NoFd => c = d

\* Nothing is known of a connection before it is accepted.
AcceptedFirst ==
    \A c \in Conns : Held(c) \/ fdOf[c] # NoFd => phase[c] = "accepted"

\* The connection being inserted is watched, and only the loop has it.
FreshInsert ==
    lpc = "insert" =>
        /\ fdOf[lconn] = lfd /\ lfd \in interest
        /\ \A f \in Fds : connections[f] # lconn
        /\ ~Queued(lconn)
        /\ \A w \in Workers : task[w] # NoTask => task[w].conn # lconn

\* A map entry leads to the connection that has the descriptor, or to one that
\* a WebSocket handler closed, whose descriptor at most the connection that is
\* about to overwrite the entry has got since.
MapAgrees ==
    \A f \in Fds, c \in Conns : connections[f] = c =>
        \/ fdOf[c] = f
        \/ fdOf[c] = NoFd /\ \A d \in Conns : fdOf[d] = f => lconn = d

\* What an event of f can hand to the pool is open, and nobody serves it.
ArmedIsFree ==
    /\ \A f \in Fds, c \in Conns : Armed(f) /\ fdOf[c] = f => ~Served(c)
    /\ \A f \in Fds, c \in Conns :
          Armed(f) /\ ~Inserting(f) /\ connections[f] = c => fdOf[c] = f
    /\ lpc = "lookup" => lfd \notin interest \cup batch

\* A closure has the descriptor of its connection, unless that is closed.
ServesItsFd ==
    \A w \in Workers : Serving(w) => fdOf[task[w].conn] \in {task[w].fd, NoFd}

\* An open connection is held by someone, and if nobody has it in hand then
\* epoll watches it.
OpenIsHeld == \A c \in Conns : fdOf[c] # NoFd => Held(c)
IdleIsWatched ==
    \A f \in Fds, c \in Conns :
        connections[f] = c /\ fdOf[c] = f /\ ~Served(c) =>
            f \in interest \/ (lpc = "lookup" /\ lfd = f)

IInv ==
    /\ TypeOK
    /\ UniqueFds /\ AcceptedFirst /\ FreshInsert /\ MapAgrees /\ ArmedIsFree
    /\ ExclusiveService /\ ServedIsOpen /\ ServesItsFd /\ OpenIsHeld /\ IdleIsWatched

-----------------------------------------------------------------------------
(* Types. *)

USE Distinct, NoTaskIsNoTask, RequestKinds, MaxRequestsNat

LEMMA InitTypeOK == Init => TypeOK
<1> SUFFICES ASSUME Init PROVE TypeOK
  OBVIOUS
<1>1. fin \in [Conns -> BOOLEAN] /\ running \in BOOLEAN /\ listening \in BOOLEAN
  BY Zenon DEF Init
<1>2. queue \in Seq(Task) /\ task \in [Workers -> Task \cup {NoTask}]
  BY DEF Init, Pool!Init
<1> QED
  BY <1>1, <1>2 DEF Init, Pool!Init, TypeOK, Kinds, WorkerPc

LEMMA NextTypeOK == TypeOK /\ [Next]_vars => TypeOK'
<1> SUFFICES ASSUME TypeOK, [Next]_vars PROVE TypeOK'
  OBVIOUS
<1> USE DEF TypeOK, WorkerPc
<1>1. ASSUME NEW c \in Conns, Client(c) PROVE TypeOK'
  <2>1. CASE Connect(c)
    BY <2>1 DEF Connect, loop, pool, stopper
  <2>2. ASSUME NEW k \in Requests, Send(c, k) PROVE TypeOK'
    BY <2>2 DEF Send, loop, pool, stopper
  <2>3. CASE Hello(c)
    BY <2>3 DEF Hello, loop, pool, stopper
  <2>4. CASE Fin(c)
    <3>1. fin' \in [Conns -> BOOLEAN]
      BY <2>4 DEF Fin
    <3> QED
      BY <2>4, <3>1 DEF Fin, loop, pool, stopper
  <2> QED
    BY <1>1, <2>1, <2>2, <2>3, <2>4 DEF Client
<1>2. CASE Loop
  <2>1. CASE LoopTop \/ BatchDone
    BY <2>1 DEF LoopTop, BatchDone, client, pool, stopper
  <2>2. CASE Wait
    <3>1. Ready \subseteq Fds \cup {Listener}
      BY DEF Ready
    <3> QED
      BY <2>2, <3>1 DEF Wait, client, pool, stopper
  <2>3. CASE AcceptFails
    BY <2>3 DEF AcceptFails, client, pool, stopper
  <2>4. CASE Insert
    <3>1. fdOf' \in [Conns -> Fds \cup {NoFd}] /\ interest' \subseteq Fds
      BY <2>4 DEF Insert, Release, CloseAll
    <3> QED
      BY <2>4, <3>1 DEF Insert, client, pool, stopper
  <2>5. CASE Lookup
    <3>1. connections[lfd] # NoConn => [fd |-> lfd, conn |-> connections[lfd]] \in Task
      BY <2>5 DEF Lookup, Task
    <3>2. queue' \in Seq(Task) /\ task' = task
      <4>1. CASE connections[lfd] = NoConn
        BY <2>5, <4>1 DEF Lookup
      <4>2. CASE connections[lfd] # NoConn
        <5>1. queue' = Append(queue, [fd |-> lfd, conn |-> connections[lfd]]) /\ task' = task
          BY <2>5, <4>2 DEF Lookup, Pool!Submit
        <5> QED
          BY <3>1, <4>2, <5>1, AppendProperties
      <4> QED
        BY <4>1, <4>2
    <3> QED
      BY <2>5, <3>2 DEF Lookup, client, stopper
  <2>6. ASSUME NEW f \in Fds, TakeEvent(f) PROVE TypeOK'
    BY <2>6 DEF TakeEvent, Disarm, Remove, client, pool, stopper
  <2>7. ASSUME NEW f \in Fds, NEW c \in Conns, Accept(c, f) PROVE TypeOK'
    BY <2>7 DEF Accept, pool, stopper
  <2> QED
    BY <1>2, <2>1, <2>2, <2>3, <2>4, <2>5, <2>6, <2>7 DEF Loop
<1>3. ASSUME NEW w \in Workers, Worker(w) PROVE TypeOK'
  <2> DEFINE PoolTypes == /\ queue \in Seq(Task) /\ task \in [Workers -> Task \cup {NoTask}]
                          /\ wpc \in [Workers -> WorkerPc]
                          /\ \A v \in Workers : wpc[v] = "idle" <=> task[v] = NoTask
  <2>0. ASSUME NEW pc \in WorkerPc \ {"idle"}, wpc[w] # "idle", Goto(w, pc), UNCHANGED <<queue, task>>
        PROVE  PoolTypes'
    BY <2>0 DEF Goto
  <2>1. CASE StartTask(w)
    <3>1. Head(queue) \in Task /\ Tail(queue) \in Seq(Task) /\ Head(queue) # NoTask
      BY <2>1, HeadTailProperties DEF StartTask, Pool!Start
    <3>2. queue' \in Seq(Task) /\ task' = [task EXCEPT ![w] = Head(queue)]
      BY <2>1, <3>1 DEF StartTask, Pool!Start
    <3>3. \E pc \in {"handshake", "read"} : wpc' = [wpc EXCEPT ![w] = pc]
      BY <2>1 DEF StartTask, Goto
    <3>4. PoolTypes'
      BY <3>1, <3>2, <3>3
    <3>5. UNCHANGED <<client, fdOf, interest, connections, loop, stopper>>
      BY <2>1 DEF StartTask
    <3> QED
      BY <3>4, <3>5 DEF client, loop, stopper
  <2>2. CASE Handshake(w)
    <3>1. PoolTypes'
      BY <2>0, <2>2 DEF Handshake
    <3>2. /\ tls' \in [Conns -> {"none", "hello", "up"}]
          /\ UNCHANGED <<phase, st, kind, nreq, fin, fdOf, interest, connections, loop, stopper>>
      BY <2>2 DEF Handshake
    <3> QED
      BY <3>1, <3>2 DEF loop, stopper
  <2>3. CASE HandshakeFails(w) \/ ReadNothing(w) \/ WsReturn(w)
    <3>1. PoolTypes'
      BY <2>0, <2>3 DEF HandshakeFails, ReadNothing, WsReturn
    <3>2. UNCHANGED <<client, fdOf, interest, connections, loop, stopper>>
      BY <2>3 DEF HandshakeFails, ReadNothing, WsReturn
    <3> QED
      BY <3>1, <3>2 DEF client, loop, stopper
  <2>4. CASE Read(w) \/ Reply(w)
    <3>1. PoolTypes'
      BY <2>0, <2>4 DEF Read, Reply, AfterReply
    <3>2. /\ st' \in [Conns -> {"idle", "sent", "read"}]
          /\ UNCHANGED <<phase, kind, nreq, fin, tls, fdOf, interest, connections, loop, stopper>>
      BY <2>4 DEF Read, Reply
    <3> QED
      BY <3>1, <3>2 DEF loop, stopper
  <2>5. CASE WsClose(w)
    <3>1. fdOf' \in [Conns -> Fds \cup {NoFd}] /\ interest' \subseteq Fds
      BY <2>5 DEF WsClose, CloseAll
    <3> QED
      BY <2>5, <3>1 DEF WsClose, client, loop, pool, stopper
  <2>6. CASE Erase(w)
    <3>1. fdOf' \in [Conns -> Fds \cup {NoFd}] /\ interest' \subseteq Fds
      BY <2>6 DEF Erase, Release, CloseAll
    <3>2. PoolTypes'
      BY <2>0, <2>6 DEF Erase
    <3>3. connections' \in [Fds -> Conns \cup {NoConn}] /\ UNCHANGED <<client, loop, stopper>>
      BY <2>6 DEF Erase, EraseFd
    <3> QED
      BY <3>1, <3>2, <3>3 DEF client, loop, stopper
  <2>7. CASE RearmFd(w)
    <3>1. PoolTypes'
      BY <2>0, <2>7 DEF RearmFd
    <3>2. interest' \subseteq Fds /\ UNCHANGED <<client, fdOf, connections, loop, stopper>>
      BY <2>7 DEF RearmFd, Rearm, Add, OpenFds
    <3> QED
      BY <3>1, <3>2 DEF client, loop, stopper
  <2>8. CASE Drop(w)
    <3>1. fdOf' \in [Conns -> Fds \cup {NoFd}] /\ interest' \subseteq Fds
      BY <2>8 DEF Drop, Release, CloseAll
    <3>2. /\ task' = [task EXCEPT ![w] = NoTask] /\ wpc' = [wpc EXCEPT ![w] = "idle"]
          /\ UNCHANGED <<queue, client, connections, loop, stopper>>
      BY <2>8 DEF Drop, Pool!Finish, Goto
    <3>3. PoolTypes'
      BY <3>2
    <3> QED
      BY <3>1, <3>2, <3>3 DEF client, loop, stopper
  <2> QED
    BY <1>3, <2>1, <2>2, <2>3, <2>4, <2>5, <2>6, <2>7, <2>8 DEF Worker
<1>4. CASE Stop
  <2>1. CASE StopFlag
    <3>1. running' \in BOOLEAN
      BY <2>1, Zenon DEF StopFlag
    <3> QED
      BY <2>1, <3>1 DEF StopFlag, client, loop, pool
  <2>2. CASE StopListener
    <3>1. listening' \in BOOLEAN
      BY <2>2, Zenon DEF StopListener
    <3> QED
      BY <2>2, <3>1 DEF StopListener, client, loop, pool
  <2>3. CASE StopClear
    <3>1. fdOf' \in [Conns -> Fds \cup {NoFd}] /\ interest' \subseteq Fds
      BY <2>3 DEF StopClear, Release, CloseAll
    <3> QED
      BY <2>3, <3>1 DEF StopClear, Clear, client, loop, pool
  <2> QED
    BY <1>4, <2>1, <2>2, <2>3 DEF Stop
<1>5. CASE UNCHANGED vars
  BY <1>5 DEF vars, client, loop, pool, stopper
<1> QED
  BY <1>1, <1>2, <1>3, <1>4, <1>5 DEF Next, Quiet

-----------------------------------------------------------------------------
(* Steps that do not touch descriptors, the map, epoll or the pool. *)

core == <<fdOf, interest, connections, loop, queue, task>>

LEMMA InitIInv == Init => IInv
<1> SUFFICES ASSUME Init PROVE IInv
  OBVIOUS
<1>1. queue = <<>> /\ Len(queue) = 0 /\ task = [w \in Workers |-> NoTask]
  BY DEF Init, Pool!Init
<1>2. \A c \in Conns : ~Held(c) /\ ~Served(c) /\ fdOf[c] = NoFd
  BY <1>1 DEF Init, Held, Served, Queued, Serving
<1> QED
  BY <1>1, <1>2, InitTypeOK DEF Init, IInv, UniqueFds, AcceptedFirst, FreshInsert, MapAgrees,
     ArmedIsFree, Armed, ExclusiveService, Serving, ServedIsOpen, ServesItsFd, OpenIsHeld,
     IdleIsWatched

\* The clients, the listener and the flags: only `phase' matters, and it
\* changes only for a connection that is new.
LEMMA OutsideStep ==
    ASSUME IInv, TypeOK', UNCHANGED <<core, wpc>>,
           \A c \in Conns : phase[c] = "accepted" => phase'[c] = "accepted"
    PROVE  IInv'
<1> USE DEF core, loop
<1>1. \A c : (Held(c)' <=> Held(c)) /\ (Served(c)' <=> Served(c)) /\ (Queued(c)' <=> Queued(c))
  BY DEF Held, Served, Queued, Serving
<1>2. \A f : (Armed(f)' <=> Armed(f)) /\ (Inserting(f)' <=> Inserting(f))
  BY DEF Armed, Inserting
<1>3. UniqueFds' /\ AcceptedFirst' /\ FreshInsert' /\ MapAgrees'
  BY <1>1 DEF IInv, UniqueFds, AcceptedFirst, FreshInsert, MapAgrees
<1>4. ArmedIsFree' /\ OpenIsHeld' /\ IdleIsWatched'
  BY <1>1, <1>2 DEF IInv, ArmedIsFree, OpenIsHeld, IdleIsWatched
<1>5. ExclusiveService' /\ ServedIsOpen' /\ ServesItsFd'
  BY DEF IInv, ExclusiveService, ServedIsOpen, ServesItsFd, Serving
<1> QED
  BY <1>3, <1>4, <1>5 DEF IInv

\* A worker goes on in the closure it serves.
LEMMA ServingStep ==
    ASSUME IInv, TypeOK', UNCHANGED <<core, phase>>,
           NEW w \in Workers, Serving(w), NEW p \in WorkerPc \ {"idle", "drop"}, Goto(w, p),
           wpc[w] \in {"ws", "erase"} => p \in {"ws", "erase"}
    PROVE  IInv'
<1> USE DEF core, loop
<1>1. \A v \in Workers : /\ (Serving(v)' <=> Serving(v))
                         /\ v # w => wpc'[v] = wpc[v]
  BY DEF Goto, Serving, IInv, TypeOK
<1>2. \A c : (Held(c)' <=> Held(c)) /\ (Served(c)' <=> Served(c)) /\ (Queued(c)' <=> Queued(c))
  BY <1>1 DEF Held, Served, Queued
<1>3. \A f : (Armed(f)' <=> Armed(f)) /\ (Inserting(f)' <=> Inserting(f))
  BY DEF Armed, Inserting
<1>4. UniqueFds' /\ AcceptedFirst' /\ FreshInsert' /\ MapAgrees'
  BY <1>2 DEF IInv, UniqueFds, AcceptedFirst, FreshInsert, MapAgrees
<1>5. ArmedIsFree' /\ OpenIsHeld' /\ IdleIsWatched'
  BY <1>2, <1>3 DEF IInv, ArmedIsFree, OpenIsHeld, IdleIsWatched
<1>6. ExclusiveService' /\ ServesItsFd'
  BY <1>1 DEF IInv, ExclusiveService, ServesItsFd
<1>7. ServedIsOpen'
  BY <1>1 DEF IInv, ServedIsOpen, Goto, TypeOK
<1> QED
  BY <1>4, <1>5, <1>6, <1>7 DEF IInv

LEMMA WorkerSteps ==
    ASSUME IInv, TypeOK', NEW w \in Workers,
           Handshake(w) \/ HandshakeFails(w) \/ ReadNothing(w) \/ Read(w) \/ Reply(w) \/ WsReturn(w)
    PROVE  IInv'
<1>1. UNCHANGED <<core, phase>> /\ Serving(w)
  BY DEF Handshake, HandshakeFails, ReadNothing, Read, Reply, WsReturn, core, loop, client, Serving
<1>2. \E p \in WorkerPc \ {"idle", "drop"} :
         Goto(w, p) /\ (wpc[w] \in {"ws", "erase"} => p \in {"ws", "erase"})
  BY DEF Handshake, HandshakeFails, ReadNothing, Read, Reply, WsReturn, WorkerPc, AfterReply
<1> QED
  BY <1>1, <1>2, ServingStep

-----------------------------------------------------------------------------
(* The loop. *)

\* Steps between batches: nothing new is armed.
LEMMA BatchSteps ==
    ASSUME IInv, TypeOK', LoopTop \/ Wait \/ BatchDone \/ AcceptFails
    PROVE  IInv'
<1>1. /\ UNCHANGED <<fdOf, interest, connections, lfd, lconn, queue, task, wpc, phase>>
      /\ lpc \notin {"insert", "lookup"} /\ lpc' \notin {"insert", "lookup"}
  BY DEF LoopTop, Wait, BatchDone, AcceptFails, client, pool
<1>2. \A f \in Fds : f \in batch' => f \in batch \/ f \in interest
  BY DEF LoopTop, Wait, BatchDone, AcceptFails, Ready
<1>3. \A c : (Held(c)' <=> Held(c)) /\ (Served(c)' <=> Served(c))
  BY <1>1 DEF Held, Served, Queued, Serving
<1>4. \A f \in Fds : (Armed(f)' => Armed(f)) /\ ~Inserting(f) /\ ~Inserting(f)'
  BY <1>1, <1>2 DEF Armed, Inserting
<1>5. UniqueFds' /\ AcceptedFirst' /\ FreshInsert' /\ MapAgrees'
  BY <1>1, <1>3 DEF IInv, UniqueFds, AcceptedFirst, FreshInsert, MapAgrees
<1>6. ArmedIsFree' /\ OpenIsHeld' /\ IdleIsWatched'
  BY <1>1, <1>3, <1>4 DEF IInv, ArmedIsFree, OpenIsHeld, IdleIsWatched
<1>7. ExclusiveService' /\ ServedIsOpen' /\ ServesItsFd'
  BY <1>1 DEF IInv, ExclusiveService, ServedIsOpen, ServesItsFd, Serving
<1> QED
  BY <1>5, <1>6, <1>7 DEF IInv

LEMMA TakeEventStep ==
    ASSUME IInv, TypeOK', NEW e \in Fds, TakeEvent(e)
    PROVE  IInv'
<1>1. /\ UNCHANGED <<fdOf, connections, lconn, queue, task, wpc, phase>>
      /\ lpc = "batch" /\ lpc' = "lookup" /\ lfd' = e
      /\ batch' = batch \ {e} /\ interest' = interest \ {e} /\ e \in batch
  BY DEF TakeEvent, client, pool, Disarm, Remove
<1>2. \A c : (Held(c)' <=> Held(c)) /\ (Served(c)' <=> Served(c))
  BY <1>1 DEF Held, Served, Queued, Serving
<1>3. \A f \in Fds : (Armed(f)' => Armed(f)) /\ ~Inserting(f) /\ ~Inserting(f)'
  BY <1>1 DEF Armed, Inserting
<1>4. UniqueFds' /\ AcceptedFirst' /\ FreshInsert' /\ MapAgrees'
  BY <1>1, <1>2 DEF IInv, UniqueFds, AcceptedFirst, FreshInsert, MapAgrees
<1>5. ArmedIsFree' /\ OpenIsHeld' /\ IdleIsWatched'
  BY <1>1, <1>2, <1>3 DEF IInv, ArmedIsFree, OpenIsHeld, IdleIsWatched
<1>6. ExclusiveService' /\ ServedIsOpen' /\ ServesItsFd'
  BY <1>1 DEF IInv, ExclusiveService, ServedIsOpen, ServesItsFd, Serving
<1> QED
  BY <1>4, <1>5, <1>6 DEF IInv

\* A closure is submitted: its connection was served by nobody, and its
\* descriptor is no longer armed.
LEMMA LookupStep ==
    ASSUME IInv, TypeOK', Lookup
    PROVE  IInv'
<1>1. /\ UNCHANGED <<fdOf, interest, connections, batch, lconn, task, wpc, phase>>
      /\ lpc = "lookup" /\ lpc' = "batch" /\ lfd \in Fds
  BY DEF Lookup, Pool!Submit, client, IInv, TypeOK
<1>2. \A f \in Fds : /\ Armed(f)' => Armed(f) /\ f # lfd
                     /\ ~Inserting(f) /\ ~Inserting(f)'
  BY <1>1 DEF Armed, Inserting, IInv, ArmedIsFree
<1>3. UniqueFds'
  BY <1>1 DEF IInv, UniqueFds
<1>4. CASE connections[lfd] = NoConn
  <2>1. UNCHANGED queue
    BY <1>4 DEF Lookup
  <2>2. \A c : (Held(c)' <=> Held(c)) /\ (Served(c)' <=> Served(c))
    BY <1>1, <2>1 DEF Held, Served, Queued, Serving
  <2>3. AcceptedFirst' /\ FreshInsert' /\ MapAgrees'
    BY <1>1, <2>2 DEF IInv, AcceptedFirst, FreshInsert, MapAgrees
  <2>4. ArmedIsFree' /\ OpenIsHeld'
    BY <1>1, <1>2, <2>2 DEF IInv, ArmedIsFree, OpenIsHeld
  <2>5. IdleIsWatched'
    BY <1>1, <1>4, <2>2 DEF IInv, IdleIsWatched, TypeOK
  <2>6. ExclusiveService' /\ ServedIsOpen' /\ ServesItsFd'
    BY <1>1, <2>1 DEF IInv, ExclusiveService, ServedIsOpen, ServesItsFd, Serving
  <2> QED
    BY <1>3, <2>3, <2>4, <2>5, <2>6 DEF IInv
<1>5. CASE connections[lfd] # NoConn
  <2>0. PICK c0 \in Conns : c0 = connections[lfd]
    BY <1>1, <1>5 DEF IInv, TypeOK
  <2>1. PICK t0 \in Task : t0 = [fd |-> lfd, conn |-> c0]
    <3>1. [fd |-> lfd, conn |-> c0] \in Task
      BY <1>1 DEF Task
    <3> QED
      BY <3>1
  <2>2. queue' = Append(queue, t0)
    BY <1>5, <2>0, <2>1 DEF Lookup, Pool!Submit
  <2>3. /\ queue \in Seq(Task) /\ Len(queue) \in Nat /\ Len(queue') = Len(queue) + 1
        /\ \A i \in 1..Len(queue) : queue'[i] = queue[i]
        /\ queue'[Len(queue) + 1] = t0
    BY <2>1, <2>2, AppendProperties DEF IInv, TypeOK
  <2>4. fdOf[c0] = lfd /\ ~Served(c0)
    BY <1>1, <1>2, <2>0 DEF IInv, ArmedIsFree, Armed
  <2>5. \A c : Queued(c)' <=> Queued(c) \/ c = c0
    BY <2>1, <2>3 DEF Queued
  <2>6. \A c : c # c0 => (Served(c)' <=> Served(c))
    BY <1>1, <2>5 DEF Served, Serving
  <2>7. Served(c0)' /\ \A c : Held(c)' <=> Held(c)
    <3>1. Held(c0) /\ Queued(c0)'
      BY <1>1, <2>0, <2>5 DEF Held
    <3>2. \A c : c # c0 => (Held(c)' <=> Held(c))
      <4> SUFFICES ASSUME NEW c, c # c0 PROVE Held(c)' <=> Held(c)
        OBVIOUS
      <4>1. Queued(c)' <=> Queued(c)
        BY <2>5
      <4> QED
        BY <1>1, <4>1 DEF Held, Queued
    <3>3. Held(c0)'
      BY <1>1, <2>0 DEF Held
    <3> QED
      BY <3>1, <3>2, <3>3 DEF Served
  <2>8. AcceptedFirst' /\ FreshInsert' /\ MapAgrees' /\ OpenIsHeld'
    <3>1. AcceptedFirst'
      BY <1>1, <2>6, <2>7 DEF IInv, AcceptedFirst
    <3>2. FreshInsert'
      BY <1>1 DEF IInv, FreshInsert
    <3>3. MapAgrees'
      BY <1>1, <2>6, <2>7 DEF IInv, MapAgrees
    <3>4. OpenIsHeld'
      BY <1>1, <2>6, <2>7 DEF IInv, OpenIsHeld
    <3> QED
      BY <3>1, <3>2, <3>3, <3>4
  <2>9. ArmedIsFree'
    BY <1>1, <1>2, <2>4, <2>6 DEF IInv, ArmedIsFree
  <2>10. IdleIsWatched'
    BY <1>1, <2>0, <2>6, <2>7 DEF IInv, IdleIsWatched
  <2>11. ExclusiveService'
    <3>1. \A i \in 1..Len(queue) : queue[i].conn # c0
      BY <2>4 DEF Served, Queued
    <3>2. \A w \in Workers : Serving(w) => task[w].conn # c0
      BY <2>4 DEF Served
    <3>3. \A i \in 1..Len(queue') : i \in 1..Len(queue) \/ i = Len(queue) + 1
      BY <2>3
    <3> QED
      BY <1>1, <2>1, <2>3, <3>1, <3>2, <3>3 DEF IInv, ExclusiveService, Serving
  <2>12. ServedIsOpen' /\ ServesItsFd'
    BY <1>1, <2>1, <2>3, <2>4 DEF IInv, ServedIsOpen, ServesItsFd, Serving
  <2> QED
    BY <1>3, <2>8, <2>9, <2>10, <2>11, <2>12 DEF IInv
<1> QED
  BY <1>4, <1>5

LEMMA TaskFacts ==
    ASSUME TypeOK
    PROVE  /\ \A i \in 1..Len(queue) : queue[i].conn \in Conns /\ queue[i].fd \in Fds
           /\ \A w \in Workers : task[w] # NoTask => task[w].conn \in Conns /\ task[w].fd \in Fds
           /\ \A w \in Workers : Serving(w) => task[w] # NoTask
<1>1. \A i \in 1..Len(queue) : queue[i] \in Task
  BY DEF TypeOK
<1>2. \A w \in Workers : task[w] # NoTask => task[w] \in Task
  BY DEF TypeOK
<1>3. \A w \in Workers : Serving(w) => task[w] # NoTask
  BY DEF TypeOK, Serving
<1> QED
  BY <1>1, <1>2, <1>3 DEF Task

\* Closing connections takes their descriptors, and no others, out of epoll.
LEMMA CloseFacts ==
    ASSUME TypeOK, UniqueFds, NEW cs \in SUBSET Conns, CloseAll(cs, interest)
    PROVE  /\ \A c \in Conns : c \notin cs => fdOf'[c] = fdOf[c]
           /\ \A c \in Conns : fdOf'[c] # NoFd => c \notin cs /\ fdOf'[c] = fdOf[c]
           /\ interest' \subseteq interest
           /\ \A c \in Conns : c \notin cs /\ fdOf[c] \in interest => fdOf[c] \in interest'
<1>1. /\ \A c \in Conns : fdOf'[c] = IF c \in cs THEN NoFd ELSE fdOf[c]
      /\ interest' = interest \ {fdOf[c] : c \in cs}
  BY DEF CloseAll, TypeOK
<1>2. ASSUME NEW c \in Conns, c \notin cs, fdOf[c] \in interest
      PROVE  fdOf[c] \in interest'
  <2>1. \A d \in cs : fdOf[d] # fdOf[c]
    BY <1>2 DEF TypeOK, UniqueFds
  <2> QED
    BY <1>1, <1>2, <2>1
<1> QED
  BY <1>1, <1>2

\* Destructors close what nobody holds, and nothing else.
LEMMA ReleaseFacts ==
    ASSUME TypeOK, UniqueFds, Release
    PROVE  /\ \A c \in Conns : Held(c)' => fdOf'[c] = fdOf[c]
           /\ \A c \in Conns : fdOf'[c] # NoFd => Held(c)' /\ fdOf'[c] = fdOf[c]
           /\ interest' \subseteq interest
           /\ \A c \in Conns : Held(c)' /\ fdOf[c] \in interest => fdOf[c] \in interest'
<1> DEFINE cs == {c \in Conns : ~Held(c)'}
<1>1. CloseAll(cs, interest)
  BY DEF Release
<1>2. \A c \in Conns : c \in cs <=> ~Held(c)'
  OBVIOUS
<1>3. cs \in SUBSET Conns
  OBVIOUS
<1> HIDE DEF cs
<1> QED
  BY <1>1, <1>2, <1>3, CloseFacts

LEMMA AcceptStep ==
    ASSUME IInv, TypeOK', NEW c0 \in Conns, NEW f0 \in Fds, Accept(c0, f0)
    PROVE  IInv'
<1>1. /\ UNCHANGED <<connections, queue, task, wpc>> /\ lpc = "batch" /\ lpc' = "insert"
      /\ lfd' = f0 /\ lconn' = c0 /\ lconn = NoConn /\ batch' \subseteq batch
      /\ interest' = interest \cup {f0} /\ phase[c0] # "accepted"
      /\ phase' = [phase EXCEPT ![c0] = "accepted"] /\ fdOf' = [fdOf EXCEPT ![c0] = f0]
  BY DEF Accept, pool, IInv, TypeOK
<1>2. ~Held(c0) /\ fdOf[c0] = NoFd /\ ~Served(c0)
  <2>1. ~Held(c0) /\ fdOf[c0] = NoFd
    BY <1>1 DEF IInv, AcceptedFirst
  <2>2. \A w \in Workers : Serving(w) => task[w] # NoTask
    BY DEF IInv, TypeOK, Serving
  <2> QED
    BY <2>1, <2>2 DEF Served, Held, Queued
<1>3. \A d \in Conns : /\ fdOf[d] # f0
                       /\ d # c0 => fdOf'[d] = fdOf[d] /\ phase'[d] = phase[d]
                       /\ fdOf'[c0] = f0 /\ phase'[c0] = "accepted"
  BY <1>1 DEF Accept, OpenFds, IInv, TypeOK
<1>4. /\ \A c \in Conns : c # c0 => (Held(c)' <=> Held(c))
      /\ \A c : (Served(c)' <=> Served(c)) /\ (Queued(c)' <=> Queued(c))
      /\ Held(c0)'
  BY <1>1 DEF Held, Served, Queued, Serving
<1>5. \A f \in Fds : /\ f # f0 /\ Armed(f)' => Armed(f)
                     /\ (Inserting(f)' <=> f = f0)
                     /\ ~Inserting(f)
  BY <1>1 DEF Armed, Inserting
<1>6. UniqueFds' /\ AcceptedFirst' /\ OpenIsHeld'
  BY <1>3, <1>4 DEF IInv, UniqueFds, AcceptedFirst, OpenIsHeld
<1>7. FreshInsert'
  BY <1>1, <1>2, <1>3 DEF FreshInsert, Held, Queued
<1>8. MapAgrees'
  <2>1. \A f \in Fds : connections[f] # c0
    BY <1>2 DEF Held
  <2> QED
    BY <1>1, <1>3, <2>1 DEF IInv, MapAgrees
<1>9. ArmedIsFree'
  <2>1. \A f \in Fds : connections[f] # c0
    BY <1>2 DEF Held
  <2> QED
    BY <1>1, <1>2, <1>3, <1>4, <1>5, <2>1 DEF IInv, ArmedIsFree
<1>10. IdleIsWatched'
  <2>1. \A f \in Fds : connections[f] # c0
    BY <1>2 DEF Held
  <2> QED
    BY <1>1, <1>3, <1>4, <2>1 DEF IInv, IdleIsWatched
<1>11. ExclusiveService'
  BY <1>1 DEF IInv, ExclusiveService, Serving
<1>12. ServedIsOpen' /\ ServesItsFd'
  <2>1. \A i \in 1..Len(queue) : queue[i].conn # c0 /\ queue[i].conn \in Conns
    BY <1>2, TaskFacts DEF Held, IInv
  <2>2. \A w \in Workers : Serving(w) => task[w].conn # c0 /\ task[w].conn \in Conns
    BY <1>2 DEF Served, IInv, TypeOK, Task, Serving
  <2> QED
    BY <1>1, <1>3, <2>1, <2>2 DEF IInv, ServedIsOpen, ServesItsFd, Serving
<1> QED
  BY <1>6, <1>7, <1>8, <1>9, <1>10, <1>11, <1>12 DEF IInv

LEMMA InsertStep ==
    ASSUME IInv, TypeOK', Insert
    PROVE  IInv'
<1>1. /\ UNCHANGED <<phase, batch, queue, task, wpc>> /\ lpc = "insert" /\ lpc' = "batch"
      /\ lconn' = NoConn /\ lfd \in Fds /\ Release
      /\ connections' = [connections EXCEPT ![lfd] = lconn]
  BY DEF Insert, client, pool, IInv, TypeOK
<1>2. PICK l0 \in Conns : l0 = lconn
  BY <1>1 DEF IInv, TypeOK
<1>3. PICK f0 \in Fds : f0 = lfd
  BY <1>1
<1>4. /\ \A f \in Fds : f # f0 => connections'[f] = connections[f]
      /\ connections'[f0] = l0
  BY <1>1, <1>2, <1>3 DEF IInv, TypeOK
<1>5. \A c \in Conns : (Held(c)' => Held(c)) /\ (Served(c)' <=> Served(c))
  BY <1>1, <1>2, <1>3, <1>4 DEF Held, Served, Queued, Serving
<1>6. /\ \A c \in Conns : Held(c)' => fdOf'[c] = fdOf[c]
      /\ \A c \in Conns : fdOf'[c] # NoFd => Held(c)' /\ fdOf'[c] = fdOf[c]
      /\ interest' \subseteq interest
      /\ \A c \in Conns : Held(c)' /\ fdOf[c] \in interest => fdOf[c] \in interest'
  BY <1>1, ReleaseFacts DEF IInv
<1>7. /\ fdOf[l0] = f0 /\ f0 \in interest /\ \A f \in Fds : connections[f] # l0
      /\ ~Served(l0)
  <2>1. \A w \in Workers : Serving(w) => task[w] # NoTask
    BY DEF IInv, TypeOK, Serving
  <2> QED
    BY <1>1, <1>2, <1>3, <2>1 DEF IInv, FreshInsert, Served
<1>8. /\ Held(l0)'
      /\ \A f \in Fds, c \in Conns : connections'[f] = c => Held(c)'
      /\ \A i \in 1..Len(queue) : queue[i].conn \in Conns /\ Held(queue[i].conn)'
      /\ \A w \in Workers : task[w] # NoTask => task[w].conn \in Conns /\ Held(task[w].conn)'
  <2>1. Held(l0)' /\ \A f \in Fds, c \in Conns : connections'[f] = c => Held(c)'
    BY <1>3, <1>4 DEF Held
  <2>2. \A i \in 1..Len(queue) : queue[i].conn \in Conns /\ Held(queue[i].conn)'
    BY <1>1, TaskFacts DEF Held, IInv
  <2>3. \A w \in Workers : task[w] # NoTask => task[w].conn \in Conns /\ Held(task[w].conn)'
    BY <1>1, TaskFacts DEF Held, IInv
  <2> QED
    BY <2>1, <2>2, <2>3
<1>9. \A f \in Fds : (Armed(f)' => Armed(f)) /\ ~Inserting(f)' /\ (f # f0 => ~Inserting(f))
  BY <1>1, <1>3, <1>6 DEF Armed, Inserting
<1>10. UniqueFds' /\ AcceptedFirst' /\ FreshInsert' /\ OpenIsHeld'
  BY <1>1, <1>5, <1>6 DEF IInv, UniqueFds, AcceptedFirst, FreshInsert, OpenIsHeld
<1>11. MapAgrees'
  BY <1>2, <1>4, <1>6, <1>7, <1>8 DEF IInv, MapAgrees
<1>12. ArmedIsFree'
  BY <1>1, <1>4, <1>5, <1>6, <1>7, <1>8, <1>9 DEF IInv, ArmedIsFree
<1>13. IdleIsWatched'
  BY <1>1, <1>4, <1>5, <1>6, <1>7, <1>8 DEF IInv, IdleIsWatched
<1>14. ExclusiveService'
  BY <1>1 DEF IInv, ExclusiveService, Serving
<1>15. ServedIsOpen' /\ ServesItsFd'
  <2>1. \A w \in Workers : Serving(w) => task[w] # NoTask
    BY DEF IInv, TypeOK, Serving
  <2> QED
    BY <1>1, <1>6, <1>8, <2>1 DEF IInv, ServedIsOpen, ServesItsFd, Serving
<1> QED
  BY <1>10, <1>11, <1>12, <1>13, <1>14, <1>15 DEF IInv

-----------------------------------------------------------------------------
(* The workers and stop(). *)

LEMMA StartStep ==
    ASSUME IInv, TypeOK', NEW w \in Workers, StartTask(w)
    PROVE  IInv'
<1>1. /\ UNCHANGED <<phase, fdOf, interest, connections, lpc, batch, lfd, lconn>>
      /\ queue # <<>> /\ queue' = Tail(queue) /\ task' = [task EXCEPT ![w] = Head(queue)]
      /\ task[w] = NoTask /\ wpc[w] = "idle" /\ wpc' = [wpc EXCEPT ![w] = IF UseTls THEN "handshake" ELSE "read"]
  BY DEF StartTask, Pool!Start, Goto, client, loop
<1>2. PICK t0 \in Task : t0 = Head(queue)
  BY <1>1, HeadTailProperties DEF IInv, TypeOK
<1>3. /\ Len(queue) \in Nat /\ Len(queue) >= 1 /\ Len(queue') = Len(queue) - 1
      /\ t0 = queue[1] /\ \A i \in 1..Len(queue') : queue'[i] = queue[i + 1]
  BY <1>1, <1>2, HeadTailProperties DEF IInv, TypeOK
<1>4. /\ task'[w] = t0 /\ Serving(w)' /\ ~Serving(w) /\ wpc'[w] \in {"handshake", "read"}
      /\ t0 # NoTask
      /\ \A v \in Workers : v # w => /\ task'[v] = task[v] /\ wpc'[v] = wpc[v]
                                    /\ (Serving(v)' <=> Serving(v))
  BY <1>1, <1>2 DEF Serving, IInv, TypeOK
<1>5. \A c : Queued(c) <=> (Queued(c)' \/ t0.conn = c)
  <2> SUFFICES ASSUME NEW c PROVE Queued(c) <=> (Queued(c)' \/ t0.conn = c)
    OBVIOUS
  <2>1. Queued(c) => Queued(c)' \/ t0.conn = c
    <3> SUFFICES ASSUME NEW i \in 1..Len(queue), queue[i].conn = c, i # 1 PROVE Queued(c)'
      BY <1>3 DEF Queued
    <3>1. i - 1 \in 1..Len(queue') /\ queue'[i - 1] = queue[(i - 1) + 1] /\ (i - 1) + 1 = i
      BY <1>3
    <3> QED
      BY <3>1 DEF Queued
  <2>2. Queued(c)' => Queued(c)
    <3> SUFFICES ASSUME NEW i \in 1..Len(queue'), queue'[i].conn = c PROVE Queued(c)
      BY DEF Queued
    <3>1. i + 1 \in 1..Len(queue) /\ queue[i + 1].conn = c
      BY <1>3
    <3> QED
      BY <3>1 DEF Queued
  <2>3. t0.conn = c => Queued(c)
    BY <1>3 DEF Queued
  <2> QED
    BY <2>1, <2>2, <2>3
<1>6. \A c : Served(c)' <=> Served(c)
  BY <1>4, <1>5 DEF Served
<1>7. \A c : Held(c)' <=> Held(c)
  <2> SUFFICES ASSUME NEW c PROVE Held(c)' <=> Held(c)
    OBVIOUS
  <2>1. (Queued(c) \/ \E v \in Workers : task[v] # NoTask /\ task[v].conn = c)
        <=> (Queued(c)' \/ \E v \in Workers : task'[v] # NoTask /\ task'[v].conn = c)
    BY <1>1, <1>4, <1>5
  <2> QED
    BY <1>1, <2>1 DEF Held, Queued
<1>8. \A f : (Armed(f)' <=> Armed(f)) /\ (Inserting(f)' <=> Inserting(f))
  BY <1>1 DEF Armed, Inserting
<1>9. UniqueFds' /\ AcceptedFirst' /\ MapAgrees' /\ OpenIsHeld'
  BY <1>1, <1>7 DEF IInv, UniqueFds, AcceptedFirst, MapAgrees, OpenIsHeld
<1>10. FreshInsert'
  BY <1>1, <1>4, <1>5 DEF IInv, FreshInsert
<1>11. ArmedIsFree' /\ IdleIsWatched'
  BY <1>1, <1>6, <1>8 DEF IInv, ArmedIsFree, IdleIsWatched
<1>12. ExclusiveService'
  <2>1. \A i \in 1..Len(queue') : /\ i + 1 \in 1..Len(queue) /\ i + 1 # 1
                                 /\ queue'[i] = queue[i + 1]
    BY <1>3
  <2>2. \A i, j \in 1..Len(queue') : queue'[i].conn = queue'[j].conn => i = j
    <3> SUFFICES ASSUME NEW i \in 1..Len(queue'), NEW j \in 1..Len(queue'),
                        queue'[i].conn = queue'[j].conn
                 PROVE  i = j
      OBVIOUS
    <3>1. i + 1 = j + 1
      BY <2>1 DEF IInv, ExclusiveService
    <3> QED
      BY <1>3, <3>1
  <2>3. \A i \in 1..Len(queue') : queue'[i].conn # t0.conn
    BY <1>3, <2>1 DEF IInv, ExclusiveService
  <2>4. \A v \in Workers : Serving(v) => task[v].conn # t0.conn
    BY <1>3 DEF IInv, ExclusiveService
  <2>5. \A u, v \in Workers : Serving(u)' /\ Serving(v)' /\ task'[u].conn = task'[v].conn => u = v
    BY <1>4, <2>4 DEF IInv, ExclusiveService
  <2>6. \A i \in 1..Len(queue'), v \in Workers : Serving(v)' => queue'[i].conn # task'[v].conn
    BY SMTT(30), <1>4, <2>1, <2>3 DEF IInv, ExclusiveService
  <2> QED
    BY <2>2, <2>5, <2>6 DEF ExclusiveService
<1>13. ServedIsOpen' /\ ServesItsFd'
  <2>1. \A i \in 1..Len(queue') : i + 1 \in 1..Len(queue) /\ queue'[i] = queue[i + 1]
    BY <1>3
  <2>2. fdOf[t0.conn] = t0.fd
    BY <1>3 DEF IInv, ServedIsOpen
  <2> QED
    BY <1>1, <1>4, <2>1, <2>2 DEF IInv, ServedIsOpen, ServesItsFd
<1> QED
  BY <1>9, <1>10, <1>11, <1>12, <1>13 DEF IInv

\* The connection is watched again while its closure still holds it: from
\* here on another worker may serve it.
LEMMA RearmStep ==
    ASSUME IInv, TypeOK', NEW w \in Workers, RearmFd(w)
    PROVE  IInv'
<1>1. /\ UNCHANGED <<phase, fdOf, connections, lpc, batch, lfd, lconn, queue, task>>
      /\ wpc[w] = "rearm" /\ wpc' = [wpc EXCEPT ![w] = "drop"] /\ Serving(w)
  BY DEF RearmFd, Goto, client, loop, Serving
<1>2. PICK c0 \in Conns : c0 = task[w].conn
  BY <1>1, TaskFacts DEF IInv
<1>3. PICK f0 \in Fds : f0 = task[w].fd
  BY <1>1, TaskFacts DEF IInv
<1>4. fdOf[c0] = f0 /\ interest' = interest \cup {f0}
  <2>1. fdOf[c0] = f0
    BY <1>1, <1>2, <1>3 DEF IInv, ServedIsOpen
  <2>2. f0 \in OpenFds
    BY <2>1 DEF OpenFds
  <2> QED
    BY <1>3, <2>1, <2>2 DEF RearmFd, Rearm, Add
<1>5. /\ ~Serving(w)'
      /\ \A v \in Workers : v # w => wpc'[v] = wpc[v] /\ (Serving(v)' <=> Serving(v))
  BY <1>1 DEF Serving, IInv, TypeOK
<1>6. Served(c0) /\ ~Served(c0)'
  <2>1. ~Queued(c0)
    BY <1>1, <1>2 DEF Queued, IInv, ExclusiveService
  <2>2. \A v \in Workers : v # w /\ Serving(v) => task[v].conn # c0
    BY <1>1, <1>2 DEF IInv, ExclusiveService
  <2> QED
    BY <1>1, <1>2, <1>5, <2>1, <2>2 DEF Served, Queued
<1>7. \A c : (Held(c)' <=> Held(c)) /\ (Queued(c)' <=> Queued(c))
  BY <1>1 DEF Held, Queued
<1>8. \A c : c # c0 => (Served(c)' <=> Served(c))
  BY <1>1, <1>2, <1>5, <1>7 DEF Served
<1>9. \A f \in Fds : /\ f # f0 => (Armed(f)' <=> Armed(f))
                     /\ (Inserting(f)' <=> Inserting(f))
  BY <1>1, <1>4 DEF Armed, Inserting
<1>10. UniqueFds' /\ AcceptedFirst' /\ FreshInsert' /\ MapAgrees' /\ OpenIsHeld'
  <2>1. UniqueFds' /\ MapAgrees'
    BY <1>1 DEF IInv, UniqueFds, MapAgrees
  <2>2. AcceptedFirst' /\ OpenIsHeld'
    BY <1>1, <1>7 DEF IInv, AcceptedFirst, OpenIsHeld
  <2>3. FreshInsert'
    BY <1>1, <1>4, <1>7 DEF IInv, FreshInsert
  <2> QED
    BY <2>1, <2>2, <2>3
<1>11. ArmedIsFree'
  <2>1. ~Inserting(f0)
    <3> SUFFICES ASSUME lpc = "insert", lfd = f0 PROVE FALSE
      BY DEF Inserting
    <3>1. lconn \in Conns /\ fdOf[lconn] = f0 /\ task[w].conn # lconn
      BY <1>1, TaskFacts DEF IInv, FreshInsert, TypeOK
    <3> QED
      BY <1>2, <1>4, <3>1 DEF IInv, UniqueFds
  <2>2. \A c \in Conns : connections[f0] = c => fdOf[c] = f0
    <3> SUFFICES ASSUME NEW c \in Conns, connections[f0] = c, fdOf[c] # f0 PROVE FALSE
      OBVIOUS
    <3>1. lconn = c0
      BY <1>4 DEF IInv, MapAgrees
    <3>2. lpc = "insert"
      BY <3>1 DEF IInv, TypeOK
    <3> QED
      BY <1>1, <1>2, <3>1, <3>2, TaskFacts DEF IInv, FreshInsert
  <2>3. \A c \in Conns : fdOf[c] = f0 => c = c0
    BY <1>4 DEF IInv, UniqueFds
  <2>4. lpc = "lookup" => lfd # f0
    BY <1>4, <1>6 DEF IInv, ArmedIsFree, Armed
  <2> QED
    BY <1>1, <1>4, <1>6, <1>8, <1>9, <2>1, <2>2, <2>3, <2>4 DEF IInv, ArmedIsFree
<1>12. IdleIsWatched'
  BY <1>1, <1>4, <1>8 DEF IInv, IdleIsWatched
<1>13. ExclusiveService' /\ ServedIsOpen' /\ ServesItsFd'
  BY <1>1, <1>5 DEF IInv, ExclusiveService, ServedIsOpen, ServesItsFd
<1> QED
  BY <1>10, <1>11, <1>12, <1>13 DEF IInv

\* A WebSocket handler closes the connection under its own closure.
LEMMA WsCloseStep ==
    ASSUME IInv, TypeOK', NEW w \in Workers, WsClose(w)
    PROVE  IInv'
<1>1. /\ UNCHANGED <<phase, connections, lpc, batch, lfd, lconn, queue, task, wpc>>
      /\ wpc[w] = "ws" /\ Serving(w) /\ CloseAll({task[w].conn}, interest)
  BY DEF WsClose, client, loop, pool, Serving
<1>2. PICK c0 \in Conns : c0 = task[w].conn
  BY <1>1, TaskFacts DEF IInv
<1>3. /\ \A c \in Conns : c # c0 => fdOf'[c] = fdOf[c]
      /\ fdOf'[c0] = NoFd /\ fdOf[c0] # NoFd
  BY <1>2 DEF WsClose, CloseAll
<1>4. interest' \subseteq interest
  BY <1>1 DEF CloseAll
<1>5. \A c \in Conns : c # c0 /\ fdOf[c] \in interest => fdOf[c] \in interest'
  BY <1>1, <1>2, <1>3 DEF CloseAll, IInv, UniqueFds
<1>6. \A c : (Held(c)' <=> Held(c)) /\ (Served(c)' <=> Served(c)) /\ (Queued(c)' <=> Queued(c))
  BY <1>1 DEF Held, Served, Queued, Serving
<1>7. \A f : (Armed(f)' => Armed(f)) /\ (Inserting(f)' <=> Inserting(f))
  BY <1>1, <1>4 DEF Armed, Inserting
<1>8. Served(c0)
  BY <1>1, <1>2 DEF Served
<1>9. UniqueFds' /\ AcceptedFirst' /\ OpenIsHeld'
  BY <1>1, <1>3, <1>6 DEF IInv, UniqueFds, AcceptedFirst, OpenIsHeld
<1>10. FreshInsert'
  <2> SUFFICES ASSUME lpc = "insert" PROVE FreshInsert'
    BY <1>1 DEF FreshInsert
  <2>1. lconn \in Conns /\ lconn # c0 /\ fdOf[lconn] = lfd /\ lfd \in interest
    BY <1>1, <1>2, TaskFacts DEF IInv, FreshInsert, TypeOK
  <2> QED
    BY <1>1, <1>3, <1>5, <1>6, <2>1 DEF IInv, FreshInsert
<1>11. MapAgrees'
  BY <1>1, <1>3 DEF IInv, MapAgrees, UniqueFds
<1>12. ArmedIsFree'
  <2>1. \A f \in Fds : Armed(f) /\ ~Inserting(f) => connections[f] # c0
    BY <1>8 DEF IInv, ArmedIsFree
  <2> QED
    BY <1>1, <1>3, <1>4, <1>6, <1>7, <2>1 DEF IInv, ArmedIsFree
<1>13. IdleIsWatched'
  BY <1>1, <1>3, <1>5, <1>6 DEF IInv, IdleIsWatched
<1>14. ExclusiveService'
  BY <1>1 DEF IInv, ExclusiveService, Serving
<1>15. ServedIsOpen' /\ ServesItsFd'
  <2>1. \A i \in 1..Len(queue) : queue[i].conn \in Conns /\ queue[i].conn # c0
    BY <1>1, <1>2, TaskFacts DEF IInv, ExclusiveService
  <2>2. \A v \in Workers : Serving(v) /\ v # w => task[v].conn \in Conns /\ task[v].conn # c0
    BY <1>1, <1>2, TaskFacts DEF IInv, ExclusiveService
  <2> QED
    BY <1>1, <1>2, <1>3, <2>1, <2>2 DEF IInv, ServedIsOpen, ServesItsFd, Serving
<1> QED
  BY <1>9, <1>10, <1>11, <1>12, <1>13, <1>14, <1>15 DEF IInv

\* References are dropped, and what nobody holds any more is closed: a worker
\* that stops serving has taken its entry out of the map.
LEMMA DropReferences ==
    ASSUME IInv, TypeOK', Release,
           UNCHANGED <<phase, lpc, batch, lfd, lconn, queue>>,
           \A f \in Fds : connections'[f] \in {connections[f], NoConn},
           \A v \in Workers : task'[v] \in {task[v], NoTask},
           \A v \in Workers : Serving(v)' => Serving(v) /\ wpc'[v] = wpc[v] /\ task'[v] = task[v],
           \A v \in Workers : Serving(v) /\ ~Serving(v)' => connections'[task[v].fd] = NoConn
    PROVE  IInv'
<1>1. /\ \A c \in Conns : Held(c)' => fdOf'[c] = fdOf[c]
      /\ \A c \in Conns : fdOf'[c] # NoFd => Held(c)' /\ fdOf'[c] = fdOf[c]
      /\ interest' \subseteq interest
      /\ \A c \in Conns : Held(c)' /\ fdOf[c] \in interest => fdOf[c] \in interest'
  BY ReleaseFacts DEF IInv
<1>2. \A c \in Conns : (Held(c)' => Held(c)) /\ (Queued(c)' <=> Queued(c))
  BY DEF Held, Queued
<1>3. \A c \in Conns : Served(c)' => Served(c)
  BY <1>2 DEF Served
<1>4. \A f : (Armed(f)' => Armed(f)) /\ (Inserting(f)' <=> Inserting(f))
  BY <1>1 DEF Armed, Inserting
<1>5. \A f \in Fds, c \in Conns : connections'[f] = c => connections[f] = c /\ Held(c)'
  BY DEF Held
<1>6. UniqueFds' /\ AcceptedFirst' /\ OpenIsHeld'
  BY <1>1, <1>2 DEF IInv, UniqueFds, AcceptedFirst, OpenIsHeld
<1>7. FreshInsert'
  <2> SUFFICES ASSUME lpc = "insert" PROVE FreshInsert'
    BY DEF FreshInsert
  <2>1. lconn \in Conns /\ fdOf[lconn] = lfd /\ lfd \in interest
    BY DEF IInv, FreshInsert, TypeOK
  <2>2. Held(lconn)'
    BY DEF Held
  <2>3. fdOf'[lconn] = lfd /\ lfd \in interest'
    BY <1>1, <2>1, <2>2
  <2>4. /\ \A f \in Fds : connections'[f] # lconn
        /\ ~Queued(lconn)'
        /\ \A v \in Workers : task'[v] # NoTask => task'[v].conn # lconn
    BY <1>2, <1>5, <2>1 DEF IInv, FreshInsert
  <2> QED
    BY <2>3, <2>4 DEF FreshInsert
<1>8. MapAgrees'
  BY <1>1, <1>5 DEF IInv, MapAgrees
<1>9. ArmedIsFree'
  BY <1>1, <1>3, <1>4, <1>5 DEF IInv, ArmedIsFree
<1>10. IdleIsWatched'
  <2> SUFFICES ASSUME NEW f \in Fds, NEW c \in Conns, connections'[f] = c, fdOf'[c] = f, ~Served(c)'
               PROVE  f \in interest' \/ (lpc' = "lookup" /\ lfd' = f)
    BY DEF IdleIsWatched
  <2>1. connections[f] = c /\ Held(c)' /\ fdOf[c] = f
    BY <1>1, <1>5
  <2>2. ~Served(c)
    <3> SUFFICES ASSUME Served(c) PROVE FALSE
      OBVIOUS
    <3>1. PICK v \in Workers : Serving(v) /\ task[v].conn = c /\ ~Serving(v)'
      BY <1>2 DEF Served
    <3>2. f = task[v].fd
      BY <2>1, <3>1 DEF IInv, ServesItsFd
    <3> QED
      BY <3>1, <3>2
  <2> QED
    BY <1>1, <2>1, <2>2 DEF IInv, IdleIsWatched
<1>11. ExclusiveService'
  BY DEF IInv, ExclusiveService
<1>12. ServedIsOpen' /\ ServesItsFd'
  <2>1. \A i \in 1..Len(queue) : queue[i].conn \in Conns /\ Held(queue[i].conn)'
    BY TaskFacts DEF Held, IInv
  <2>2. \A v \in Workers : Serving(v)' => task[v].conn \in Conns /\ Held(task[v].conn)'
    BY TaskFacts DEF Held, IInv
  <2> QED
    BY <1>1, <2>1, <2>2 DEF IInv, ServedIsOpen, ServesItsFd
<1> QED
  BY <1>6, <1>7, <1>8, <1>9, <1>10, <1>11, <1>12 DEF IInv

LEMMA EraseStep ==
    ASSUME IInv, TypeOK', NEW w \in Workers, Erase(w)
    PROVE  IInv'
<1>1. /\ UNCHANGED <<phase, lpc, batch, lfd, lconn, queue, task>> /\ Release /\ wpc[w] = "erase"
      /\ connections' = [connections EXCEPT ![task[w].fd] = NoConn]
      /\ wpc' = [wpc EXCEPT ![w] = "drop"]
  BY DEF Erase, EraseFd, Goto, client, loop
<1>2. task[w].fd \in Fds
  BY <1>1, TaskFacts DEF IInv, TypeOK
<1>3. \A f \in Fds : connections'[f] \in {connections[f], NoConn}
  BY <1>1 DEF IInv, TypeOK
<1>4. connections'[task[w].fd] = NoConn
  BY <1>1, <1>2 DEF IInv, TypeOK
<1>5. \A v \in Workers : v # w => (Serving(v)' <=> Serving(v)) /\ wpc'[v] = wpc[v]
  BY <1>1 DEF Serving, IInv, TypeOK
<1>6. ~Serving(w)'
  BY <1>1 DEF Serving, IInv, TypeOK
<1> QED
  BY <1>1, <1>3, <1>4, <1>5, <1>6, DropReferences

LEMMA DropStep ==
    ASSUME IInv, TypeOK', NEW w \in Workers, Drop(w)
    PROVE  IInv'
<1>1. /\ UNCHANGED <<phase, lpc, batch, lfd, lconn, queue, connections>> /\ Release
      /\ wpc[w] = "drop" /\ wpc' = [wpc EXCEPT ![w] = "idle"]
      /\ task' = [task EXCEPT ![w] = NoTask]
  BY DEF Drop, Pool!Finish, Goto, client, loop
<1>2. \A v \in Workers : task'[v] \in {task[v], NoTask}
  BY <1>1 DEF IInv, TypeOK
<1>3. \A v \in Workers : v # w => /\ (Serving(v)' <=> Serving(v))
                                 /\ wpc'[v] = wpc[v] /\ task'[v] = task[v]
  BY <1>1 DEF Serving, IInv, TypeOK
<1>4. ~Serving(w)' /\ ~Serving(w)
  BY <1>1 DEF Serving, IInv, TypeOK
<1> QED
  BY <1>1, <1>2, <1>3, <1>4, DropReferences

LEMMA StopClearStep ==
    ASSUME IInv, TypeOK', StopClear
    PROVE  IInv'
<1>1. /\ UNCHANGED <<phase, lpc, batch, lfd, lconn, queue, task, wpc>> /\ Release
      /\ connections' = [f \in Fds |-> NoConn]
  BY DEF StopClear, Clear, client, loop, pool
<1>2. \A v \in Workers : Serving(v)' <=> Serving(v)
  BY <1>1 DEF Serving
<1> QED
  BY <1>1, <1>2, DropReferences

-----------------------------------------------------------------------------
LEMMA NextIInv == IInv /\ [Next]_vars => IInv'
<1> SUFFICES ASSUME IInv, [Next]_vars PROVE IInv'
  OBVIOUS
<1>0. TypeOK'
  BY NextTypeOK DEF IInv
<1>1. ASSUME NEW c \in Conns, Client(c) PROVE IInv'
  <2>1. UNCHANGED <<core, wpc>>
    BY <1>1 DEF Client, Connect, Send, Hello, Fin, core, loop, pool
  <2>2. \A d \in Conns : phase[d] = "accepted" => phase'[d] = "accepted"
    BY <1>1 DEF Client, Connect, Send, Hello, Fin, IInv, TypeOK
  <2> QED
    BY <1>0, <2>1, <2>2, OutsideStep
<1>2. CASE Loop
  BY <1>0, <1>2, BatchSteps, InsertStep, LookupStep, TakeEventStep, AcceptStep DEF Loop
<1>3. ASSUME NEW w \in Workers, Worker(w) PROVE IInv'
  BY <1>0, <1>3, StartStep, WorkerSteps, WsCloseStep, EraseStep, RearmStep, DropStep DEF Worker
<1>4. CASE Stop
  <2>1. CASE StopFlag \/ StopListener
    <3>1. UNCHANGED <<core, wpc, phase>>
      BY <2>1 DEF StopFlag, StopListener, core, loop, pool, client
    <3> QED
      BY <1>0, <3>1, OutsideStep
  <2> QED
    BY <1>0, <1>4, <2>1, StopClearStep DEF Stop
<1>5. CASE UNCHANGED vars
  <2>1. UNCHANGED <<core, wpc, phase>>
    BY <1>5 DEF vars, core, loop, pool, client
  <2> QED
    BY <1>0, <2>1, OutsideStep
<1> QED
  BY <1>1, <1>2, <1>3, <1>4, <1>5 DEF Next, Quiet

LEMMA Invariance == Spec => []IInv
BY InitIInv, NextIInv, PTL DEF Spec

\* Every state of the server is well typed, and a worker is idle exactly when
\* it has no closure.
THEOREM TypeCorrect == Spec => []TypeOK
BY Invariance, PTL DEF IInv

\* However many connections, descriptors and workers there are, handleRequest
\* has its connection to itself: no second closure for it is queued or served
\* at the same time, although descriptors are reused and stop() may run.
THEOREM OneWorkerPerConnection == Spec => []ExclusiveService
BY Invariance, PTL DEF IInv

\* A closure's connection is open under the closure's own descriptor until the
\* worker lets it go, so a worker never reads from, answers or re-arms another
\* client's socket.
THEOREM WorkersServeTheirOwn == Spec => []ServedIsOpen
BY Invariance, PTL DEF IInv

\* No open connection is forgotten: one that nobody has in hand is in the map
\* and watched by epoll.
THEOREM NoConnectionIsStranded == Spec => []NoneStranded
<1>1. IInv => NoneStranded
  <2> SUFFICES ASSUME IInv, NEW c \in Conns, fdOf[c] # NoFd,
                      ~(lpc = "lookup" /\ lfd = fdOf[c]), lconn # c, ~Queued(c),
                      \A w \in Workers : task[w] # NoTask => task[w].conn # c
               PROVE  fdOf[c] \in interest /\ connections[fdOf[c]] = c
    BY DEF NoneStranded, Queued
  <2>1. PICK f \in Fds : connections[f] = c
    BY DEF IInv, OpenIsHeld, Held, Queued
  <2>2. fdOf[c] = f
    BY <2>1 DEF IInv, MapAgrees
  <2>3. ~Served(c)
    BY TaskFacts DEF Served, IInv
  <2> QED
    BY <2>1, <2>2, <2>3 DEF IInv, IdleIsWatched
<1> QED
  BY <1>1, Invariance, PTL

-----------------------------------------------------------------------------
(* Keep-alive, in a server without WebSocket routes and without TLS.  (With *)
(* WebSocket requests KeepAliveHonoured does not hold.)                     *)

\* The server may close c: what KeepAliveHonoured allows.
MayClose(c) ==
    fin[c] \/ ~running \/ (st[c] # "sent" /\ kind[c] \in {"bad", "close", "ws"})

HasInput(c) == st[c] = "sent" \/ fin[c]

\* No WebSocket, no handshake; a kind is known once a request was sent.
PlainHttp ==
    /\ \A c \in Conns : kind[c] # "ws" /\ tls[c] = "none" /\ (kind[c] = "none" => st[c] = "idle")
    /\ \A w \in Workers : /\ wpc[w] \notin {"ws", "handshake"}
                           /\ (wpc[w] = "reply" => kind[task[w].conn] # "none")
    /\ spc # "none" => ~running

\* Until stop(): what is armed, queued or served is in the map under its
\* descriptor,
MapComplete ==
    /\ \A f \in Fds : Armed(f) => \/ Inserting(f)
                                  \/ \E c \in Conns : connections[f] = c /\ fdOf[c] = f
    /\ \A i \in 1..Len(queue) : connections[queue[i].fd] = queue[i].conn
    /\ \A w \in Workers : Serving(w) => /\ connections[task[w].fd] = task[w].conn
                                       /\ fdOf[task[w].conn] = task[w].fd

\* an event leads to a connection that has input,
EventsHaveInput ==
    /\ \A f \in Fds : f \in batch \/ (lpc = "lookup" /\ lfd = f) =>
          /\ ~Inserting(f)
          /\ \A c \in Conns : connections[f] = c => HasInput(c)
    /\ \A i \in 1..Len(queue), c \in Conns : queue[i].conn = c => HasInput(c)
    /\ \A w \in Workers, c \in Conns : wpc[w] = "read" /\ task[w].conn = c => HasInput(c)

\* and only connections that may be closed are erased, or out of the map.
ErasedMayClose ==
    /\ \A w \in Workers, c \in Conns : wpc[w] = "erase" /\ task[w].conn = c => MayClose(c)
    /\ \A c \in Conns : fdOf[c] # NoFd =>
          MayClose(c) \/ lconn = c \/ connections[fdOf[c]] = c

UntilStop == MapComplete /\ EventsHaveInput /\ ErasedMayClose

KInv == PlainHttp /\ (running => UntilStop)

OnlyHttp == "ws" \notin Requests /\ UseTls = FALSE

LEMMA PlainHttpStep ==
    ASSUME OnlyHttp, TypeOK, PlainHttp, [Next]_vars
    PROVE  PlainHttp'
<1> USE DEF PlainHttp, TypeOK
<1>1. ASSUME NEW c \in Conns, Client(c) PROVE PlainHttp'
  <2>1. CASE Connect(c) \/ Fin(c)
    BY <2>1 DEF Connect, Fin, loop, pool, stopper
  <2>2. ASSUME NEW k \in Requests, Send(c, k) PROVE PlainHttp'
    BY <2>2 DEF Send, pool, stopper, OnlyHttp, Kinds
  <2>3. ~Hello(c)
    BY DEF Hello, OnlyHttp
  <2> QED
    BY <1>1, <2>1, <2>2, <2>3 DEF Client
<1>2. CASE Loop
  BY <1>2 DEF Loop, LoopTop, Wait, BatchDone, AcceptFails, Insert, Lookup, TakeEvent, Accept,
     client, pool, stopper, Pool!Submit
<1>3. ASSUME NEW w \in Workers, Worker(w) PROVE PlainHttp'
  <2> USE DEF Goto
  <2>1. CASE StartTask(w)
    BY <2>1 DEF StartTask, Pool!Start, client, stopper, OnlyHttp
  <2>2. CASE HandshakeFails(w) \/ ReadNothing(w) \/ Erase(w) \/ RearmFd(w)
    BY <2>2 DEF HandshakeFails, ReadNothing, Erase, RearmFd, client, stopper
  <2>3. CASE Read(w)
    <3>1. task[w].conn \in Conns
      BY <2>3, TaskFacts DEF Read
    <3> QED
      BY <2>3, <3>1 DEF Read, stopper
  <2>4. CASE Reply(w)
    BY <2>4 DEF Reply, AfterReply, stopper
  <2>5. CASE Drop(w)
    BY <2>5 DEF Drop, Pool!Finish, client, stopper
  <2> QED
    BY <1>3, <2>1, <2>2, <2>3, <2>4, <2>5 DEF Worker, Handshake, WsClose, WsReturn
<1>4. CASE Stop
  BY <1>4 DEF Stop, StopFlag, StopListener, StopClear, client, pool
<1>5. CASE UNCHANGED vars
  BY <1>5 DEF vars, client, pool, stopper
<1> QED
  BY <1>1, <1>2, <1>3, <1>4, <1>5 DEF Next, Quiet

\* Input is not lost, and a connection that may be closed stays so, until a
\* worker reads from it.
LEMMA InputStays ==
    ASSUME TypeOK, PlainHttp, [Next]_vars, running'
    PROVE  /\ running
           /\ \A c \in Conns : MayClose(c) => MayClose(c)'
           /\ \A c \in Conns : HasInput(c) =>
                 HasInput(c)' \/ \E w \in Workers : (Read(w) \/ Reply(w)) /\ task[w].conn = c
<1> USE DEF TypeOK, MayClose, HasInput
<1>1. CASE UNCHANGED <<st, kind, fin, running>>
  BY <1>1
<1>2. ASSUME NEW d \in Conns, NEW k \in Requests, Send(d, k)
      PROVE  running /\ \A c \in Conns : (MayClose(c) => MayClose(c)') /\ (HasInput(c) => HasInput(c)')
  BY <1>2 DEF Send, stopper
<1>3. ASSUME NEW d \in Conns, Fin(d)
      PROVE  running /\ \A c \in Conns : (MayClose(c) => MayClose(c)') /\ (HasInput(c) => HasInput(c)')
  BY <1>3 DEF Fin, stopper
<1>4. ASSUME NEW w \in Workers, Read(w) \/ Reply(w)
      PROVE  /\ running /\ \A c \in Conns : MayClose(c) => MayClose(c)'
             /\ \A c \in Conns : task[w].conn # c /\ HasInput(c) => HasInput(c)'
  <2>1. UNCHANGED <<running, kind, fin>>
    BY <1>4 DEF Read, Reply, stopper
  <2>2. PICK s \in {"read", "idle"} : st' = [st EXCEPT ![task[w].conn] = s]
    BY <1>4 DEF Read, Reply
  <2>3. \A c \in Conns : (c # task[w].conn => st'[c] = st[c]) /\ (st[c] # "sent" => st'[c] # "sent")
    BY <2>2
  <2> QED
    BY <2>1, <2>3
<1>5. CASE \E d \in Conns : Client(d)
  BY <1>1, <1>2, <1>3, <1>5 DEF Client, Connect, Hello, stopper
<1>6. CASE Loop
  <2>1. UNCHANGED <<st, kind, fin, running>>
    BY <1>6 DEF Loop, LoopTop, Wait, BatchDone, AcceptFails, Insert, Lookup, TakeEvent, Accept,
       client, stopper
  <2> QED
    BY <1>1, <2>1
<1>7. ASSUME NEW w \in Workers, Worker(w), ~(Read(w) \/ Reply(w))
      PROVE  UNCHANGED <<st, kind, fin, running>>
  BY <1>7 DEF Worker, StartTask, Handshake, HandshakeFails, ReadNothing, WsClose, WsReturn,
     Erase, RearmFd, Drop, client, stopper
<1>8. CASE Stop
  <2>1. UNCHANGED <<st, kind, fin, running>>
    BY <1>8 DEF Stop, StopFlag, StopListener, StopClear, client
  <2> QED
    BY <1>1, <2>1
<1>9. CASE UNCHANGED vars
  BY <1>1, <1>9 DEF vars, client, stopper
<1> HIDE DEF MayClose, HasInput, TypeOK
<1> QED
  BY <1>1, <1>4, <1>5, <1>6, <1>7, <1>8, <1>9 DEF Next, Quiet

\* What is left of these facts after a step, whatever the step is.
LEMMA InputFacts ==
    ASSUME IInv, PlainHttp, UntilStop, [Next]_vars, running'
    PROVE  /\ \A f \in Fds, c \in Conns :
                 (f \in batch \/ (lpc = "lookup" /\ lfd = f)) /\ connections[f] = c => HasInput(c)'
           /\ \A i \in 1..Len(queue), c \in Conns : queue[i].conn = c => HasInput(c)'
           /\ \A w \in Workers, c \in Conns :
                 wpc[w] = "read" /\ wpc'[w] = "read" /\ task[w].conn = c => HasInput(c)'
           /\ \A w \in Workers, c \in Conns : wpc[w] = "erase" /\ task[w].conn = c => MayClose(c)'
           /\ \A c \in Conns : fdOf[c] # NoFd =>
                 MayClose(c)' \/ lconn = c \/ connections[fdOf[c]] = c
<1> USE DEF IInv, UntilStop
<1>1. /\ \A c \in Conns : MayClose(c) => MayClose(c)'
      /\ \A c \in Conns : HasInput(c) =>
            HasInput(c)' \/ \E w \in Workers : (Read(w) \/ Reply(w)) /\ task[w].conn = c
  BY InputStays
<1>2. ASSUME NEW c \in Conns, HasInput(c), ~HasInput(c)'
      PROVE  \E w \in Workers : Serving(w) /\ task[w].conn = c /\ ~(wpc[w] = "read" /\ wpc'[w] = "read")
  <2>1. PICK w \in Workers : (Read(w) \/ Reply(w)) /\ task[w].conn = c
    BY <1>1, <1>2
  <2>2. Serving(w) /\ ~(wpc[w] = "read" /\ wpc'[w] = "read")
    BY <2>1 DEF Read, Reply, Serving, Goto, TypeOK
  <2> QED
    BY <2>1, <2>2
<1>3. \A f \in Fds, c \in Conns :
         (f \in batch \/ (lpc = "lookup" /\ lfd = f)) /\ connections[f] = c => HasInput(c)'
  <2> SUFFICES ASSUME NEW f \in Fds, NEW c \in Conns, connections[f] = c,
                      f \in batch \/ (lpc = "lookup" /\ lfd = f)
               PROVE  HasInput(c)'
    OBVIOUS
  <2>1. HasInput(c) /\ ~Inserting(f) /\ Armed(f)
    BY DEF EventsHaveInput, Armed
  <2>2. ~Served(c)
    BY <2>1 DEF ArmedIsFree
  <2> QED
    BY <1>2, <2>1, <2>2 DEF Served
<1>4. \A i \in 1..Len(queue), c \in Conns : queue[i].conn = c => HasInput(c)'
  <2> SUFFICES ASSUME NEW i \in 1..Len(queue), NEW c \in Conns, queue[i].conn = c PROVE HasInput(c)'
    OBVIOUS
  <2>1. HasInput(c) /\ \A w \in Workers : Serving(w) => task[w].conn # c
    BY DEF EventsHaveInput, ExclusiveService
  <2> QED
    BY <1>2, <2>1
<1>5. \A w \in Workers, c \in Conns :
         wpc[w] = "read" /\ wpc'[w] = "read" /\ task[w].conn = c => HasInput(c)'
  <2> SUFFICES ASSUME NEW w \in Workers, NEW c \in Conns, wpc[w] = "read", wpc'[w] = "read",
                      task[w].conn = c
               PROVE  HasInput(c)'
    OBVIOUS
  <2>1. HasInput(c) /\ Serving(w)
    BY DEF EventsHaveInput, Serving
  <2>2. \A v \in Workers : v # w /\ Serving(v) => task[v].conn # c
    BY <2>1 DEF ExclusiveService
  <2> QED
    BY <1>2, <2>1, <2>2
<1>6. /\ \A w \in Workers, c \in Conns : wpc[w] = "erase" /\ task[w].conn = c => MayClose(c)'
      /\ \A c \in Conns : fdOf[c] # NoFd => MayClose(c)' \/ lconn = c \/ connections[fdOf[c]] = c
  BY <1>1 DEF ErasedMayClose
<1> QED
  BY <1>3, <1>4, <1>5, <1>6

LEMMA UntilStopLoop ==
    ASSUME OnlyHttp, IInv, IInv', PlainHttp, PlainHttp', UntilStop, [Next]_vars, running', Loop
    PROVE  UntilStop'
<1> USE DEF UntilStop
<1>1. CASE LoopTop \/ Wait \/ BatchDone \/ AcceptFails
  <2>1. /\ UNCHANGED <<client, fdOf, interest, connections, lfd, lconn, queue, task, wpc>>
        /\ lpc \notin {"insert", "lookup"} /\ lpc' \notin {"insert", "lookup"}
    BY <1>1 DEF LoopTop, Wait, BatchDone, AcceptFails, pool
  <2>2. \A f \in Fds : Armed(f)' => Armed(f)
    BY <1>1, <2>1 DEF LoopTop, Wait, BatchDone, AcceptFails, Ready, Armed
  <2>3. MapComplete'
    BY <2>1, <2>2 DEF MapComplete, Inserting, Serving
  <2>4. \A f \in Fds, c \in Conns : f \in batch' /\ connections[f] = c => HasInput(c)'
    <3> SUFFICES ASSUME NEW f \in Fds, NEW c \in Conns, f \in batch', connections[f] = c
                 PROVE  HasInput(c)'
      OBVIOUS
    <3>1. CASE f \in batch
      BY <3>1, InputFacts
    <3>2. CASE f \notin batch
      <4>1. PICK d \in Conns : fdOf[d] = f /\ f \in interest /\ Readable(d)
        BY <1>1, <3>2 DEF LoopTop, Wait, BatchDone, AcceptFails, Ready
      <4>2. c = d
        BY <2>1, <4>1 DEF IInv, ArmedIsFree, Armed, Inserting, UniqueFds, TypeOK
      <4> QED
        BY <2>1, <4>1, <4>2 DEF Readable, HasInput, PlainHttp, client
    <3> QED
      BY <3>1, <3>2
  <2>5. EventsHaveInput'
    BY <2>1, <2>4, InputFacts, TaskFacts DEF EventsHaveInput, Inserting, IInv
  <2>6. ErasedMayClose'
    BY <2>1, InputFacts, TaskFacts DEF ErasedMayClose, IInv, TypeOK
  <2> QED
    BY <2>3, <2>5, <2>6
<1>2. ASSUME NEW e \in Fds, TakeEvent(e) PROVE UntilStop'
  <2>1. /\ UNCHANGED <<fdOf, connections, lconn, queue, task, wpc>>
        /\ lpc = "batch" /\ lpc' = "lookup" /\ lfd' = e
        /\ batch' \subseteq batch /\ interest' \subseteq interest /\ e \in batch
    BY <1>2 DEF TakeEvent, pool, Disarm, Remove
  <2>2. \A f \in Fds : Armed(f)' => Armed(f)
    BY <2>1 DEF Armed
  <2>3. MapComplete'
    BY <2>1, <2>2 DEF MapComplete, Inserting, Serving
  <2>4. EventsHaveInput'
    BY <2>1, InputFacts, TaskFacts DEF EventsHaveInput, Inserting, IInv
  <2>5. ErasedMayClose'
    BY <2>1, InputFacts, TaskFacts DEF ErasedMayClose, IInv, TypeOK
  <2> QED
    BY <2>3, <2>4, <2>5
<1>3. CASE Lookup
  <2>1. /\ UNCHANGED <<fdOf, interest, connections, batch, lconn, task, wpc>>
        /\ lpc = "lookup" /\ lpc' = "batch" /\ lfd \in Fds
    BY <1>3 DEF Lookup, Pool!Submit, IInv, TypeOK
  <2>2. \A f \in Fds : Armed(f)' => Armed(f)
    BY <2>1 DEF Armed
  <2>3. \A i \in 1..Len(queue') : \/ i \in 1..Len(queue) /\ queue'[i] = queue[i]
                                 \/ /\ connections[lfd] \in Conns
                                    /\ queue'[i].conn = connections[lfd] /\ queue'[i].fd = lfd
    <3>1. CASE connections[lfd] = NoConn
      BY <1>3, <3>1 DEF Lookup
    <3>2. CASE connections[lfd] # NoConn
      <4>1. queue' = Append(queue, [fd |-> lfd, conn |-> connections[lfd]]) /\ connections[lfd] \in Conns
        BY <1>3, <2>1, <3>2 DEF Lookup, Pool!Submit, IInv, TypeOK
      <4>2. queue \in Seq(Task)
        BY DEF IInv, TypeOK
      <4>3. [fd |-> lfd, conn |-> connections[lfd]] \in Task
        BY <2>1, <4>1 DEF Task
      <4>4. /\ Len(queue) \in Nat /\ Len(queue') = Len(queue) + 1
            /\ \A i \in 1..Len(queue) : queue'[i] = queue[i]
            /\ queue'[Len(queue) + 1] = [fd |-> lfd, conn |-> connections[lfd]]
        BY <4>1, <4>2, <4>3, AppendProperties
      <4> QED
        BY <4>1, <4>4
    <3> QED
      BY <3>1, <3>2
  <2>4. MapComplete'
    BY <2>1, <2>2, <2>3 DEF MapComplete, Inserting, Serving
  <2>5. EventsHaveInput'
    <3>1. \A i \in 1..Len(queue'), c \in Conns : queue'[i].conn = c => HasInput(c)'
      BY <2>1, <2>3, InputFacts, TaskFacts DEF IInv
    <3>2. \A f \in Fds, c \in Conns : f \in batch' /\ connections'[f] = c => HasInput(c)'
      BY <2>1, InputFacts
    <3>3. \A w \in Workers, c \in Conns : wpc'[w] = "read" /\ task'[w].conn = c => HasInput(c)'
      BY <2>1, InputFacts
    <3> QED
      BY <2>1, <3>1, <3>2, <3>3 DEF EventsHaveInput, Inserting
  <2>6. ErasedMayClose'
    BY <2>1, InputFacts, TaskFacts DEF ErasedMayClose, IInv, TypeOK
  <2> QED
    BY <2>4, <2>5, <2>6
<1>4. ASSUME NEW f0 \in Fds, NEW c0 \in Conns, Accept(c0, f0) PROVE UntilStop'
  <2>1. /\ UNCHANGED <<connections, queue, task, wpc>> /\ lpc = "batch" /\ lpc' = "insert"
        /\ lfd' = f0 /\ lconn' = c0 /\ lconn = NoConn /\ batch' \subseteq batch
        /\ interest' = interest \cup {f0} /\ fdOf' = [fdOf EXCEPT ![c0] = f0]
        /\ phase[c0] # "accepted"
    BY <1>4 DEF Accept, pool, IInv, TypeOK
  <2>2. \A d \in Conns : fdOf[d] # f0 /\ (d # c0 => fdOf'[d] = fdOf[d]) /\ fdOf'[c0] = f0
    BY <1>4, <2>1 DEF Accept, OpenFds, IInv, TypeOK
  <2>3. ~Armed(f0) /\ \A f \in Fds : ~Inserting(f)
    BY <2>1, <2>2 DEF MapComplete, Inserting
  <2>4. \A f \in Fds : (f # f0 /\ Armed(f)' => Armed(f)) /\ (Inserting(f)' <=> f = f0)
    BY <2>1 DEF Armed, Inserting
  <2>5. fdOf[c0] = NoFd
    BY <2>1 DEF IInv, AcceptedFirst
  <2>6. MapComplete'
    <3>1. \A w \in Workers : Serving(w) => task[w].conn \in Conns /\ task[w].conn # c0
      BY <2>5, TaskFacts, Distinct DEF MapComplete, IInv
    <3> QED
      BY <2>1, <2>2, <2>3, <2>4, <2>5, <3>1 DEF MapComplete, Serving
  <2>7. EventsHaveInput'
    <3>1. \A f \in Fds : f \in batch => f # f0
      BY <2>3 DEF Armed
    <3> QED
      BY <2>1, <2>4, <3>1, InputFacts DEF EventsHaveInput
  <2>8. ErasedMayClose'
    BY <2>1, <2>2, InputFacts DEF ErasedMayClose
  <2> QED
    BY <2>6, <2>7, <2>8
<1>5. CASE Insert
  <2>1. /\ UNCHANGED <<batch, queue, task, wpc>> /\ lpc = "insert" /\ lpc' = "batch"
        /\ lconn' = NoConn /\ lfd \in Fds /\ Release
        /\ connections' = [connections EXCEPT ![lfd] = lconn]
    BY <1>5 DEF Insert, pool, IInv, TypeOK
  <2>2. PICK l0 \in Conns : l0 = lconn
    BY <2>1 DEF IInv, TypeOK
  <2>3. PICK f0 \in Fds : f0 = lfd
    BY <2>1
  <2>4. /\ \A f \in Fds : f # f0 => connections'[f] = connections[f]
        /\ connections'[f0] = l0
    BY <2>1, <2>2, <2>3 DEF IInv, TypeOK
  <2>5. /\ \A c \in Conns : Held(c)' => fdOf'[c] = fdOf[c]
        /\ \A c \in Conns : fdOf'[c] # NoFd => Held(c)' /\ fdOf'[c] = fdOf[c]
        /\ interest' \subseteq interest
    BY <2>1, ReleaseFacts DEF IInv
  <2>6. \A f \in Fds, c \in Conns : connections'[f] = c => fdOf'[c] = fdOf[c]
    BY <2>5 DEF Held
  <2>7. /\ fdOf[l0] = f0 /\ \A c \in Conns : fdOf[c] = f0 => c = l0
        /\ ~Queued(l0) /\ \A w \in Workers : Serving(w) => task[w].conn # l0
    BY <2>1, <2>2, <2>3, TaskFacts DEF IInv, FreshInsert, UniqueFds
  <2>8. \A f \in Fds : (Armed(f)' => Armed(f)) /\ ~Inserting(f)' /\ (Inserting(f) <=> f = f0)
    BY <2>1, <2>3, <2>5 DEF Armed, Inserting
  <2>9. /\ \A i \in 1..Len(queue) : queue[i].fd \in Fds /\ queue[i].fd # f0
        /\ \A w \in Workers : Serving(w) => task[w].fd \in Fds /\ task[w].fd # f0 /\ task[w].conn \in Conns
    BY <2>7, TaskFacts DEF IInv, ServedIsOpen, MapComplete, Queued
  <2>10. MapComplete'
    <3>1. \A f \in Fds : Armed(f)' => \E c \in Conns : connections'[f] = c /\ fdOf'[c] = f
      <4> SUFFICES ASSUME NEW f \in Fds, Armed(f)'
                   PROVE  \E c \in Conns : connections'[f] = c /\ fdOf'[c] = f
        OBVIOUS
      <4>1. CASE f = f0
        BY <2>4, <2>6, <2>7, <4>1
      <4>2. CASE f # f0
        BY <2>4, <2>6, <2>8, <4>2 DEF MapComplete
      <4> QED
        BY <4>1, <4>2
    <3>2. \A i \in 1..Len(queue) : connections'[queue[i].fd] = queue[i].conn
      BY <2>4, <2>9 DEF MapComplete
    <3>3. \A w \in Workers : Serving(w) => /\ connections'[task[w].fd] = task[w].conn
                                           /\ fdOf'[task[w].conn] = task[w].fd
      BY <2>4, <2>6, <2>9 DEF MapComplete
    <3> QED
      BY <2>1, <3>1, <3>2, <3>3 DEF MapComplete, Serving
  <2>11. EventsHaveInput'
    BY <2>1, <2>4, <2>8, InputFacts DEF EventsHaveInput
  <2>12. ErasedMayClose'
    BY <2>1, <2>2, <2>4, <2>5, <2>7, InputFacts DEF ErasedMayClose, IInv, TypeOK
  <2> QED
    BY <2>10, <2>11, <2>12
<1> QED
  BY <1>1, <1>2, <1>3, <1>4, <1>5 DEF Loop

LEMMA UntilStopWorker ==
    ASSUME OnlyHttp, IInv, IInv', PlainHttp, PlainHttp', UntilStop, [Next]_vars, running',
           NEW w \in Workers, Worker(w)
    PROVE  UntilStop'
<1> USE DEF UntilStop
<1>0. wpc \in [Workers -> WorkerPc] /\ task \in [Workers -> Task \cup {NoTask}]
  BY DEF IInv, TypeOK
<1>1. CASE StartTask(w)
  <2>1. /\ UNCHANGED <<fdOf, interest, connections, lpc, batch, lfd, lconn>>
        /\ queue # <<>> /\ queue' = Tail(queue) /\ task' = [task EXCEPT ![w] = Head(queue)]
        /\ wpc' = [wpc EXCEPT ![w] = "read"]
    BY <1>1 DEF StartTask, Pool!Start, Goto, loop, OnlyHttp
  <2>2. /\ Len(queue) \in Nat /\ Len(queue) >= 1 /\ Len(queue') = Len(queue) - 1
        /\ Head(queue) = queue[1] /\ \A i \in 1..Len(queue') : queue'[i] = queue[i + 1]
    BY <2>1, HeadTailProperties DEF IInv, TypeOK
  <2>3. \A i \in 1..Len(queue') : i + 1 \in 1..Len(queue) /\ queue'[i] = queue[i + 1]
    BY <2>2
  <2>4. \A v \in Workers : /\ v # w => task'[v] = task[v] /\ wpc'[v] = wpc[v] /\ (Serving(v)' <=> Serving(v))
                           /\ task'[w] = queue[1] /\ wpc'[w] = "read"
    BY <1>0, <2>1, <2>2 DEF Serving
  <2>5. \A f \in Fds : (Armed(f)' => Armed(f)) /\ (Inserting(f)' <=> Inserting(f))
    BY <2>1 DEF Armed, Inserting
  <2>6. 1 \in 1..Len(queue)
    BY <2>2
  <2>7. MapComplete'
    <3>1. connections[queue[1].fd] = queue[1].conn /\ fdOf[queue[1].conn] = queue[1].fd
      BY <2>6 DEF MapComplete, IInv, ServedIsOpen
    <3> QED
      BY <2>1, <2>3, <2>4, <2>5, <3>1 DEF MapComplete
  <2>8. EventsHaveInput'
    <3>1. \A f \in Fds : f \in batch' \/ (lpc' = "lookup" /\ lfd' = f) =>
             /\ ~Inserting(f)'
             /\ \A c \in Conns : connections'[f] = c => HasInput(c)'
      BY <2>1, <2>5, InputFacts DEF EventsHaveInput
    <3>2. \A i \in 1..Len(queue'), c \in Conns : queue'[i].conn = c => HasInput(c)'
      BY <2>3, InputFacts
    <3>3. \A v \in Workers, c \in Conns : wpc'[v] = "read" /\ task'[v].conn = c => HasInput(c)'
      BY <2>4, <2>6, InputFacts
    <3> QED
      BY <3>1, <3>2, <3>3 DEF EventsHaveInput
  <2>9. ErasedMayClose'
    BY <2>1, <2>4, InputFacts DEF ErasedMayClose
  <2> QED
    BY <2>7, <2>8, <2>9
<1>2. ASSUME UNCHANGED <<fdOf, interest, connections, loop, queue, task>>, Serving(w),
             NEW p \in {"reply", "rearm", "erase"}, Goto(w, p),
             p = "erase" => \A c \in Conns : task[w].conn = c => MayClose(c)'
      PROVE  UntilStop'
  <2>1. \A v \in Workers : /\ v # w => wpc'[v] = wpc[v]
                           /\ (Serving(v)' <=> Serving(v)) /\ wpc'[w] = p
    BY <1>0, <1>2 DEF Serving, Goto
  <2>2. \A f \in Fds : (Armed(f)' <=> Armed(f)) /\ (Inserting(f)' <=> Inserting(f))
    BY <1>2 DEF Armed, Inserting, loop
  <2>3. MapComplete'
    BY <1>2, <2>1, <2>2 DEF MapComplete
  <2>4. EventsHaveInput'
    BY <1>2, <2>1, <2>2, InputFacts DEF EventsHaveInput, loop
  <2>5. ErasedMayClose'
    BY <1>2, <2>1, InputFacts DEF ErasedMayClose, loop
  <2> QED
    BY <2>3, <2>4, <2>5
<1>3. CASE ReadNothing(w)
  <2>1. /\ UNCHANGED <<fdOf, interest, connections, loop, queue, task, client>> /\ Serving(w)
        /\ Goto(w, "erase") /\ wpc[w] = "read"
    BY <1>3 DEF ReadNothing, Serving
  <2>2. \A c \in Conns : task[w].conn = c => MayClose(c)'
    BY <1>3, <2>1 DEF ReadNothing, EventsHaveInput, HasInput, MayClose, client
  <2> QED
    BY <1>2, <2>1, <2>2
<1>4. CASE Read(w)
  <2>1. /\ UNCHANGED <<fdOf, interest, connections, loop, queue, task>> /\ Serving(w)
        /\ task[w].conn \in Conns
    BY <1>4, TaskFacts DEF Read, Serving, IInv
  <2>2. Goto(w, "reply")
    BY <1>4, <2>1 DEF Read, PlainHttp
  <2> QED
    BY <1>2, <2>1, <2>2
<1>5. CASE Reply(w)
  <2>1. /\ UNCHANGED <<fdOf, interest, connections, loop, queue, task>> /\ Serving(w)
        /\ wpc[w] = "reply" /\ Goto(w, AfterReply(task[w].conn)) /\ UNCHANGED kind
        /\ st' = [st EXCEPT ![task[w].conn] = "idle"]
    BY <1>5 DEF Reply, Serving
  <2>2. AfterReply(task[w].conn) \in {"reply", "rearm", "erase"}
    BY DEF AfterReply
  <2>3. AfterReply(task[w].conn) = "erase" => \A c \in Conns : task[w].conn = c => MayClose(c)'
    <3> SUFFICES ASSUME NEW c \in Conns, task[w].conn = c, kind[c] # "keep" PROVE MayClose(c)'
      BY DEF AfterReply
    <3>1. kind[c] \in {"bad", "close"}
      BY <2>1 DEF PlainHttp, IInv, TypeOK, Kinds
    <3>2. st'[c] = "idle"
      BY <2>1 DEF IInv, TypeOK
    <3> QED
      BY <2>1, <3>1, <3>2 DEF MayClose
  <2> QED
    BY <1>2, <2>1, <2>2, <2>3
<1>6. CASE Erase(w)
  <2>1. /\ UNCHANGED <<lpc, batch, lfd, lconn, queue, task>> /\ Release /\ wpc[w] = "erase" /\ Serving(w)
        /\ connections' = [connections EXCEPT ![task[w].fd] = NoConn]
        /\ wpc' = [wpc EXCEPT ![w] = "drop"]
    BY <1>6 DEF Erase, EraseFd, Goto, loop, Serving
  <2>2. PICK c0 \in Conns : c0 = task[w].conn
    BY <2>1, TaskFacts DEF IInv
  <2>3. PICK f0 \in Fds : f0 = task[w].fd
    BY <2>1, TaskFacts DEF IInv
  <2>4. \A v \in Workers : /\ v # w => wpc'[v] = wpc[v] /\ (Serving(v)' <=> Serving(v))
                           /\ ~Serving(w)' /\ wpc'[w] = "drop"
    BY <1>0, <2>1 DEF Serving
  <2>5. /\ fdOf[c0] = f0 /\ \A c \in Conns : fdOf[c] = f0 => c = c0
        /\ ~Armed(f0)
    <3>1. fdOf[c0] = f0 /\ Served(c0)
      BY <2>1, <2>2, <2>3 DEF MapComplete, Served
    <3> QED
      BY <3>1 DEF IInv, UniqueFds, ArmedIsFree
  <2>6. /\ \A f \in Fds : f # f0 => connections'[f] = connections[f]
        /\ connections'[f0] = NoConn
    BY <2>1, <2>3 DEF IInv, TypeOK
  <2>7. /\ \A c \in Conns : Held(c)' => fdOf'[c] = fdOf[c]
        /\ \A c \in Conns : fdOf'[c] # NoFd => Held(c)' /\ fdOf'[c] = fdOf[c]
        /\ interest' \subseteq interest
    BY <2>1, ReleaseFacts DEF IInv
  <2>8. \A f \in Fds, c \in Conns : connections'[f] = c => fdOf'[c] = fdOf[c]
    BY <2>7 DEF Held
  <2>9. \A f \in Fds : (Armed(f)' => Armed(f)) /\ (Inserting(f)' <=> Inserting(f))
    BY <2>1, <2>7 DEF Armed, Inserting
  <2>10. /\ \A i \in 1..Len(queue) : queue[i].fd \in Fds /\ queue[i].fd # f0
         /\ \A v \in Workers : v # w /\ Serving(v) =>
               task[v].fd \in Fds /\ task[v].fd # f0 /\ task[v].conn \in Conns
    BY <2>1, <2>2, <2>5, TaskFacts DEF IInv, ServedIsOpen, MapComplete, ExclusiveService
  <2>11. MapComplete'
    <3>1. \A f \in Fds : Armed(f)' => Inserting(f)' \/ \E c \in Conns : connections'[f] = c /\ fdOf'[c] = f
      BY <2>5, <2>6, <2>8, <2>9 DEF MapComplete
    <3>2. \A i \in 1..Len(queue) : connections'[queue[i].fd] = queue[i].conn
      BY <2>6, <2>10 DEF MapComplete
    <3>3. \A v \in Workers : Serving(v)' => /\ connections'[task[v].fd] = task[v].conn
                                            /\ fdOf'[task[v].conn] = task[v].fd
      BY <2>4, <2>6, <2>8, <2>10 DEF MapComplete
    <3> QED
      BY <2>1, <3>1, <3>2, <3>3 DEF MapComplete
  <2>12. EventsHaveInput'
    <3>1. \A f \in Fds : f \in batch \/ (lpc = "lookup" /\ lfd = f) => f # f0
      BY <2>5 DEF Armed
    <3> QED
      BY <2>1, <2>4, <2>6, <2>9, <3>1, InputFacts DEF EventsHaveInput
  <2>13. ErasedMayClose'
    <3>1. MayClose(c0)'
      BY <2>1, <2>2, InputFacts
    <3>2. \A c \in Conns : fdOf'[c] # NoFd => MayClose(c)' \/ lconn' = c \/ connections'[fdOf'[c]] = c
      BY <2>1, <2>5, <2>6, <2>7, <3>1, InputFacts DEF IInv, TypeOK
    <3> QED
      BY <2>1, <2>4, <3>2, InputFacts DEF ErasedMayClose
  <2> QED
    BY <2>11, <2>12, <2>13
<1>7. CASE RearmFd(w)
  <2>1. /\ UNCHANGED <<fdOf, connections, lpc, batch, lfd, lconn, queue, task>> /\ Serving(w)
        /\ wpc[w] = "rearm" /\ wpc' = [wpc EXCEPT ![w] = "drop"]
        /\ interest' \subseteq interest \cup {task[w].fd}
    BY <1>7 DEF RearmFd, Rearm, Add, Goto, loop, Serving
  <2>2. PICK f0 \in Fds : f0 = task[w].fd
    BY <2>1, TaskFacts DEF IInv
  <2>3. PICK c0 \in Conns : connections[f0] = c0 /\ fdOf[c0] = f0
    BY <2>1, <2>2, TaskFacts DEF IInv, MapComplete
  <2>4. \A v \in Workers : /\ v # w => wpc'[v] = wpc[v] /\ (Serving(v)' <=> Serving(v))
                           /\ ~Serving(w)' /\ wpc'[w] = "drop"
    BY <1>0, <2>1 DEF Serving
  <2>5. \A f \in Fds : (f # f0 /\ Armed(f)' => Armed(f)) /\ (Inserting(f)' <=> Inserting(f))
    BY <2>1, <2>2 DEF Armed, Inserting
  <2>6. MapComplete'
    BY <2>1, <2>3, <2>4, <2>5 DEF MapComplete
  <2>7. EventsHaveInput'
    BY <2>1, <2>4, <2>5, InputFacts DEF EventsHaveInput
  <2>8. ErasedMayClose'
    BY <2>1, <2>4, InputFacts DEF ErasedMayClose
  <2> QED
    BY <2>6, <2>7, <2>8
<1>8. CASE Drop(w)
  <2>1. /\ UNCHANGED <<lpc, batch, lfd, lconn, queue, connections>> /\ Release
        /\ wpc[w] = "drop" /\ wpc' = [wpc EXCEPT ![w] = "idle"]
        /\ task' = [task EXCEPT ![w] = NoTask]
    BY <1>8 DEF Drop, Pool!Finish, Goto, loop
  <2>2. \A v \in Workers : /\ v # w => wpc'[v] = wpc[v] /\ task'[v] = task[v] /\ (Serving(v)' <=> Serving(v))
                           /\ ~Serving(w)' /\ wpc'[w] = "idle"
    BY <1>0, <2>1 DEF Serving
  <2>3. /\ \A c \in Conns : Held(c)' => fdOf'[c] = fdOf[c]
        /\ \A c \in Conns : fdOf'[c] # NoFd => Held(c)' /\ fdOf'[c] = fdOf[c]
        /\ interest' \subseteq interest
    BY <2>1, ReleaseFacts DEF IInv
  <2>4. \A f \in Fds, c \in Conns : connections[f] = c => fdOf'[c] = fdOf[c]
    BY <2>1, <2>3 DEF Held
  <2>5. \A f \in Fds : (Armed(f)' => Armed(f)) /\ (Inserting(f)' <=> Inserting(f))
    BY <2>1, <2>3 DEF Armed, Inserting
  <2>6. MapComplete'
    <3>1. \A v \in Workers : Serving(v) => task[v].fd \in Fds /\ task[v].conn \in Conns
      BY TaskFacts DEF IInv
    <3> QED
      BY <2>1, <2>2, <2>4, <2>5, <3>1 DEF MapComplete
  <2>7. EventsHaveInput'
    BY <2>1, <2>2, <2>5, InputFacts DEF EventsHaveInput
  <2>8. ErasedMayClose'
    BY <2>1, <2>2, <2>3, InputFacts DEF ErasedMayClose
  <2> QED
    BY <2>6, <2>7, <2>8
<1> QED
  BY <1>1, <1>3, <1>4, <1>5, <1>6, <1>7, <1>8
     DEF Worker, Handshake, HandshakeFails, WsClose, WsReturn, PlainHttp

LEMMA NextKInv == OnlyHttp /\ IInv /\ KInv /\ [Next]_vars => KInv'
<1> SUFFICES ASSUME OnlyHttp, IInv, KInv, [Next]_vars PROVE KInv'
  OBVIOUS
<1>1. IInv' /\ PlainHttp'
  BY NextIInv, PlainHttpStep DEF IInv, KInv
<1> SUFFICES ASSUME running' PROVE UntilStop'
  BY <1>1 DEF KInv
<1>2. PlainHttp /\ running /\ UntilStop
  BY InputStays DEF IInv, KInv
<1>3. CASE UNCHANGED <<core, wpc>>
  <2>1. /\ \A f \in Fds : (Armed(f)' <=> Armed(f)) /\ (Inserting(f)' <=> Inserting(f))
        /\ \A v \in Workers : Serving(v)' <=> Serving(v)
    BY <1>3 DEF Armed, Inserting, Serving, core, loop
  <2>2. MapComplete'
    BY <1>2, <1>3, <2>1 DEF UntilStop, MapComplete, core
  <2>3. EventsHaveInput'
    BY <1>2, <1>3, <2>1, InputFacts DEF UntilStop, EventsHaveInput, core, loop
  <2>4. ErasedMayClose'
    BY <1>2, <1>3, InputFacts DEF ErasedMayClose, core, loop
  <2> QED
    BY <2>2, <2>3, <2>4 DEF UntilStop
<1>4. ASSUME NEW c \in Conns, Client(c) PROVE UNCHANGED <<core, wpc>>
  BY <1>4 DEF Client, Connect, Send, Hello, Fin, core, loop, pool
<1>5. CASE Stop
  BY <1>2, <1>3, <1>5 DEF Stop, StopFlag, StopListener, StopClear, PlainHttp, core, loop, pool
<1>6. CASE UNCHANGED vars
  BY <1>3, <1>6 DEF vars, core, loop, pool
<1> QED
  BY <1>1, <1>2, <1>3, <1>4, <1>5, <1>6, UntilStopLoop, UntilStopWorker DEF Next, Quiet

\* A connection is closed only when MayClose allows it.
LEMMA ClosesWhatItMay ==
    ASSUME OnlyHttp, IInv, KInv, [Next]_vars, NEW c \in Conns, fdOf[c] # NoFd, fdOf'[c] = NoFd
    PROVE  MayClose(c)
<1> SUFFICES ASSUME running, ~MayClose(c) PROVE FALSE
  BY DEF MayClose
<1>1. PlainHttp /\ MapComplete /\ ErasedMayClose
  BY DEF KInv, UntilStop
<1>2. fdOf[c] \in Fds /\ (lconn = c \/ connections[fdOf[c]] = c)
  BY <1>1 DEF ErasedMayClose, IInv, TypeOK
<1>3. ASSUME Release PROVE lconn' # c /\ connections'[fdOf[c]] # c
  BY <1>2, <1>3, ReleaseFacts DEF IInv, Held
<1>4. CASE UNCHANGED fdOf
  BY <1>4
<1>5. CASE Insert
  <2>1. lpc = "insert" /\ Release /\ connections' = [connections EXCEPT ![lfd] = lconn]
    BY <1>5 DEF Insert
  <2>2. lconn \in Conns /\ fdOf[lconn] = lfd /\ lfd \in Fds
    BY <2>1 DEF IInv, FreshInsert, TypeOK
  <2>3. c # lconn => fdOf[c] # lfd
    BY <2>2 DEF IInv, UniqueFds, TypeOK
  <2>4. connections'[fdOf[c]] = c
    BY <1>2, <2>1, <2>2, <2>3 DEF IInv, TypeOK
  <2> QED
    BY <1>3, <2>1, <2>4
<1>6. ASSUME NEW w \in Workers, Erase(w) PROVE FALSE
  <2>1. /\ Serving(w) /\ wpc[w] = "erase" /\ Release /\ UNCHANGED lconn
        /\ connections' = [connections EXCEPT ![task[w].fd] = NoConn]
    BY <1>6 DEF Erase, EraseFd, Serving, loop
  <2>2. fdOf[c] # task[w].fd
    <3>1. fdOf[task[w].conn] = task[w].fd /\ task[w].conn \in Conns
      BY <1>1, <2>1, TaskFacts DEF MapComplete, IInv
    <3>2. task[w].conn # c
      BY <1>1, <2>1 DEF ErasedMayClose
    <3> QED
      BY <3>1, <3>2 DEF IInv, UniqueFds
  <2> QED
    BY <1>2, <1>3, <2>1, <2>2 DEF IInv, TypeOK
<1>7. ASSUME NEW w \in Workers, Drop(w) PROVE FALSE
  BY <1>2, <1>3, <1>7 DEF Drop, loop
<1>8. ~StopClear
  BY <1>1 DEF StopClear, PlainHttp
<1>9. ASSUME NEW d \in Conns, NEW f \in Fds, Accept(d, f) PROVE FALSE
  <2>1. fdOf' = [fdOf EXCEPT ![d] = f]
    BY <1>9 DEF Accept
  <2> QED
    BY <2>1, Distinct DEF IInv, TypeOK
<1>10. CASE \E d \in Conns : Client(d)
  BY <1>4, <1>10 DEF Client, Connect, Send, Hello, Fin
<1>11. CASE Loop
  BY <1>4, <1>5, <1>9, <1>11 DEF Loop, LoopTop, Wait, BatchDone, AcceptFails, Lookup, TakeEvent
<1>12. CASE \E w \in Workers : Worker(w)
  BY <1>1, <1>4, <1>6, <1>7, <1>12 DEF Worker, StartTask, Handshake, HandshakeFails, ReadNothing, Read,
     Reply, WsClose, WsReturn, RearmFd, PlainHttp
<1>13. CASE Stop
  BY <1>4, <1>8, <1>13 DEF Stop, StopFlag, StopListener
<1>14. CASE UNCHANGED vars
  BY <1>4, <1>14 DEF vars
<1> QED
  BY <1>10, <1>11, <1>12, <1>13, <1>14 DEF Next, Quiet

\* Without WebSocket routes and without TLS, the server never closes a
\* connection on a client that may still use it, until it is stopped: not
\* through a stale event, a reused descriptor or another worker's erase.
THEOREM KeepAliveWithoutWebSockets ==
    ASSUME OnlyHttp
    PROVE  Spec => KeepAliveHonoured
<1>1. Init => KInv
  <2> SUFFICES ASSUME Init PROVE KInv
    OBVIOUS
  <2>1. queue = <<>> /\ Len(queue) = 0 /\ task = [w \in Workers |-> NoTask]
    BY DEF Init, Pool!Init
  <2> QED
    BY <2>1 DEF Init, KInv, PlainHttp, UntilStop, MapComplete, EventsHaveInput, ErasedMayClose,
       Armed, Serving
<1>2. IInv /\ KInv /\ [Next]_vars =>
        [\A c \in Conns : fdOf[c] # NoFd /\ fdOf'[c] = NoFd =>
           \/ fin[c] \/ ~running
           \/ st[c] # "sent" /\ kind[c] \in {"bad", "close", "ws"}]_vars
  BY ClosesWhatItMay DEF MayClose
<1>3. IInv /\ KInv /\ [Next]_vars => KInv'
  BY NextKInv
<1> QED
  BY <1>1, <1>2, <1>3, Invariance, PTL DEF Spec, KeepAliveHonoured

-----------------------------------------------------------------------------
(* The server and its pool. *)

\* The loop and the workers use the pool as Executor describes it, and hand it
\* only closures over a descriptor and a connection: what is proved of
\* the pool (module Lifecycle_proof) is all that the server relies on.
THEOREM ServerUsesThePool == Spec => Pool!Spec
<1>1. Init => Pool!Init
  BY DEF Init
<1>2. TypeOK /\ [Next]_vars => [Pool!Next]_Pool!vars
  <2> SUFFICES ASSUME TypeOK, [Next]_vars PROVE [Pool!Next]_Pool!vars
    OBVIOUS
  <2>1. CASE Lookup
    <3>1. CASE connections[lfd] = NoConn /\ UNCHANGED <<queue, task>>
      BY <3>1 DEF Pool!vars
    <3>2. CASE connections[lfd] # NoConn /\ Pool!Submit([fd |-> lfd, conn |-> connections[lfd]])
      <4>1. lfd \in Fds
        BY <2>1 DEF Lookup, TypeOK
      <4>2. connections[lfd] \in Conns
        BY <3>2, <4>1 DEF TypeOK
      <4>3. PICK t \in Task : t = [fd |-> lfd, conn |-> connections[lfd]]
        BY <4>1, <4>2 DEF Task
      <4> QED
        BY <3>2, <4>3 DEF Pool!Next
    <3> QED
      BY <2>1, <3>1, <3>2 DEF Lookup
  <2>2. ASSUME NEW w \in Workers, StartTask(w) PROVE Pool!Next
    BY <2>2 DEF StartTask, Pool!Next
  <2>3. ASSUME NEW w \in Workers, Drop(w) PROVE Pool!Next
    BY <2>3 DEF Drop, Pool!Next
  <2>4. CASE ~Lookup /\ \A w \in Workers : ~StartTask(w) /\ ~Drop(w)
    BY <2>4 DEF Next, Client, Connect, Send, Hello, Fin, Loop, LoopTop, Wait, BatchDone, AcceptFails, Insert,
       TakeEvent, Accept, Worker, Handshake, HandshakeFails, ReadNothing, Read, Reply, WsClose, WsReturn, Erase,
       RearmFd, Stop, StopFlag, StopListener, StopClear, Quiet, vars, pool, Pool!vars
  <2> QED
    BY <2>1, <2>2, <2>3, <2>4
<1> QED
  BY <1>1, <1>2, TypeCorrect, PTL DEF Spec, Pool!Spec
=============================================================================
