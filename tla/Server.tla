------------------------------- MODULE Server -------------------------------
(***************************************************************************)
(* The server: the event loop Server::start, the worker's handleRequest    *)
(* and handleWebSocket, and Server::stop (src/core/server.cpp), with the   *)
(* epoll wrapper, the listener and the Connection objects they work on     *)
(* (src/net/event_loop.cpp, tcp_listener.cpp, connection.cpp).  The thread *)
(* pool appears as the FIFO executor that module ThreadPool implements.    *)
(*                                                                         *)
(* A member of Conns is one TCP connection, from its connect() on, and the *)
(* Connection object made for it; fds are reused, connections are not.     *)
(* Each step ends where another thread can observe or interfere: at a      *)
(* system call, at conn_mtx, at the pool's mutex.                          *)
(*                                                                         *)
(* Left out here: how a request is cut into reads and parsed (a request    *)
(* arrives whole, and "bad" stands for everything the reader and the       *)
(* parser reject), and what handlers compute.                              *)
(***************************************************************************)
EXTENDS Naturals, Sequences, FiniteSets

CONSTANTS
    Conns,          \* client connections
    Fds,            \* descriptors the process may have open for clients
    Workers,        \* threads of the pool
    Requests,       \* what clients send: a subset of Kinds
    UseTls,         \* config.use_tls
    NoConn, NoFd, NoTask,
    Listener,       \* the listening socket's descriptor
    MaxRequests     \* bound of the model: requests per connection

Kinds == {"keep",      \* a request to be answered, connection kept
          "close",     \* the same with "Connection: close"
          "bad",       \* answered with 400 or 413
          "ws"}        \* a WebSocket upgrade

Task == [fd : Fds, conn : Conns]      \* the closure [this, fd, conn_ptr]

ASSUME ConnsFinite == IsFiniteSet(Conns)
ASSUME Distinct == NoConn \notin Conns /\ NoFd \notin Fds /\ Listener \notin Fds
ASSUME NoTaskIsNoTask == NoTask \notin Task
ASSUME RequestKinds == Requests \subseteq Kinds
ASSUME UseTlsBool == UseTls \in BOOLEAN
ASSUME MaxRequestsNat == MaxRequests \in Nat

VARIABLES
    \* the clients and the network
    phase,        \* phase[c]: "new", "backlog" (connected), "accepted"
    st,           \* st[c]: "idle", "sent" (request unread), "read" (unanswered)
    kind,         \* kind[c]: what c sent last
    nreq,         \* nreq[c]: how many requests c has sent
    fin,          \* fin[c]: the client has closed its end
    tls,          \* tls[c]: "none", "hello" (ClientHello sent), "up"
    \* the process
    fdOf,         \* fdOf[c]: client_fd of Connection c, NoFd when closed
    interest,     \* the epoll set, without the listener
    connections,  \* the map `connections'; an absent or null entry is NoConn
    running,      \* the flag `running'
    listening,    \* the listening socket is open
    lpc, batch, lfd, lconn,     \* the loop thread: where it is, the events it
                                \* has yet to handle, its locals fd and conn
    queue, task,  \* the pool: queued closures, the one each worker executes
    wpc,          \* where each worker is in its closure
    spc           \* where the thread that calls stop() is

client == <<phase, st, kind, nreq, fin, tls>>
loop == <<lpc, batch, lfd, lconn>>
pool == <<queue, task, wpc>>
stopper == <<running, listening, spc>>
vars == <<client, fdOf, interest, connections, loop, pool, stopper>>

Pool == INSTANCE Executor WITH Tasks <- Task, running <- task

WorkerPc == {"idle", "handshake", "read", "reply", "ws", "erase", "rearm", "drop"}

Init ==
    /\ phase = [c \in Conns |-> "new"]
    /\ st = [c \in Conns |-> "idle"]
    /\ kind = [c \in Conns |-> "none"]
    /\ nreq = [c \in Conns |-> 0]
    /\ fin = [c \in Conns |-> FALSE]
    /\ tls = [c \in Conns |-> "none"]
    /\ fdOf = [c \in Conns |-> NoFd]
    /\ interest = {}
    /\ connections = [f \in Fds |-> NoConn]
    /\ running = TRUE /\ listening = TRUE /\ spc = "none"
    /\ lpc = "top" /\ batch = {} /\ lfd = NoFd /\ lconn = NoConn
    /\ Pool!Init
    /\ wpc = [w \in Workers |-> "idle"]

-----------------------------------------------------------------------------
(* The kernel's side: descriptors and epoll. *)

OpenFds == {fdOf[c] : c \in Conns} \ {NoFd}

\* epoll_ctl fails on a descriptor that is not open.
Add(f) == interest \cup ({f} \cap OpenFds)
Remove(f) == interest \ {f}

NoRearm(f) == interest                   \* mutant
Rearm(f) == Add(f)

KeepWatching(f) == interest              \* mutant
Disarm(f) == Remove(f)

\* Input on the socket of c that the server has not read: level-triggered.
Readable(c) == st[c] = "sent" \/ fin[c] \/ tls[c] = "hello"

Ready ==
    {fdOf[c] : c \in {d \in Conns : fdOf[d] \in interest /\ Readable(d)}}
        \cup (IF listening /\ \E c \in Conns : phase[c] = "backlog"
              THEN {Listener} ELSE {})

-----------------------------------------------------------------------------
(* Connections are shared_ptrs: one dies, and closes its descriptor, when   *)
(* the map, the queued closures, the running closures and the loop's local  *)
(* have all dropped it.  Closing a descriptor removes it from epoll.        *)

HeldByMap(c) == \E f \in Fds : connections[f] = c          \* mutant

Held(c) ==
    \/ \E f \in Fds : connections[f] = c
    \/ \E i \in 1..Len(queue) : queue[i].conn = c
    \/ \E w \in Workers : task[w] # NoTask /\ task[w].conn = c
    \/ lconn = c

\* Close the connections of cs, the epoll set being es before.
CloseAll(cs, es) ==
    /\ fdOf' = [c \in Conns |-> IF c \in cs THEN NoFd ELSE fdOf[c]]
    /\ interest' = es \ {fdOf[c] : c \in cs}

\* The destructors that run when references have been dropped.
Release == CloseAll({c \in Conns : ~Held(c)'}, interest)

-----------------------------------------------------------------------------
(* Clients. *)

Connect(c) ==
    /\ phase[c] = "new" /\ listening
    /\ phase' = [phase EXCEPT ![c] = "backlog"]
    /\ UNCHANGED <<st, kind, nreq, fin, tls, fdOf, interest, connections, loop, pool, stopper>>

\* A client sees its connection until the server closes it.
Connected(c) == phase[c] = "backlog" \/ (phase[c] = "accepted" /\ fdOf[c] # NoFd)

\* A client waits for an answer before it sends the next request, and sends
\* none after one that ends the connection.
Send(c, k) ==
    /\ Connected(c) /\ ~fin[c]
    /\ st[c] = "idle" /\ nreq[c] < MaxRequests /\ kind[c] \in {"none", "keep"}
    /\ UseTls => tls[c] = "up"
    /\ st' = [st EXCEPT ![c] = "sent"]
    /\ kind' = [kind EXCEPT ![c] = k]
    /\ nreq' = [nreq EXCEPT ![c] = @ + 1]
    /\ UNCHANGED <<phase, fin, tls, fdOf, interest, connections, loop, pool, stopper>>

Hello(c) ==
    /\ UseTls /\ Connected(c) /\ ~fin[c] /\ tls[c] = "none"
    /\ tls' = [tls EXCEPT ![c] = "hello"]
    /\ UNCHANGED <<phase, st, kind, nreq, fin, fdOf, interest, connections, loop, pool, stopper>>

Fin(c) ==
    /\ Connected(c) /\ ~fin[c]
    /\ fin' = [fin EXCEPT ![c] = TRUE]
    /\ UNCHANGED <<phase, st, kind, nreq, tls, fdOf, interest, connections, loop, pool, stopper>>

-----------------------------------------------------------------------------
(* The event loop. *)

\* while(running)
LoopTop ==
    /\ lpc = "top"
    /\ lpc' = IF running THEN "wait" ELSE "exited"
    /\ UNCHANGED <<client, fdOf, interest, connections, batch, lfd, lconn, pool, stopper>>

\* epoll_wait returns every descriptor that is ready.
Wait ==
    /\ lpc = "wait" /\ Ready # {}
    /\ batch' = Ready
    /\ lpc' = "batch"
    /\ UNCHANGED <<client, fdOf, interest, connections, lfd, lconn, pool, stopper>>

BatchDone ==
    /\ lpc = "batch" /\ batch = {}
    /\ lpc' = "top"
    /\ UNCHANGED <<client, fdOf, interest, connections, batch, lfd, lconn, pool, stopper>>

\* The listener's event: accept, and ev.add of the new descriptor.
Accept(c, f) ==
    /\ lpc = "batch" /\ Listener \in batch /\ listening
    /\ phase[c] = "backlog" /\ f \in Fds \ OpenFds
    /\ batch' = batch \ {Listener}
    /\ phase' = [phase EXCEPT ![c] = "accepted"]
    /\ fdOf' = [fdOf EXCEPT ![c] = f]
    /\ interest' = interest \cup {f}
    /\ lconn' = c /\ lfd' = f
    /\ lpc' = "insert"
    /\ UNCHANGED <<st, kind, nreq, fin, tls, connections, pool, stopper>>

\* accept fails: the listener was closed meanwhile, nobody is waiting, or
\* the process is out of descriptors.  (The event of a closed listener is
\* taken for a client's: nothing is registered or mapped under its number.)
AcceptFails ==
    /\ lpc = "batch" /\ Listener \in batch
    /\ ~listening \/ Fds \subseteq OpenFds \/ \A c \in Conns : phase[c] # "backlog"
    /\ batch' = batch \ {Listener}
    /\ UNCHANGED <<client, fdOf, interest, connections, lpc, lfd, lconn, pool, stopper>>

\* connections[fd] = std::move(conn), which drops what the entry held.
Insert ==
    /\ lpc = "insert"
    /\ connections' = [connections EXCEPT ![lfd] = lconn]
    /\ lconn' = NoConn /\ lfd' = NoFd
    /\ lpc' = "batch"
    /\ UNCHANGED <<client, batch, pool, stopper>>
    /\ Release

\* A client's event: ev.remove(fd).
TakeEvent(f) ==
    /\ lpc = "batch" /\ f \in batch \ {Listener}
    /\ batch' = batch \ {f}
    /\ interest' = Disarm(f)
    /\ lfd' = f
    /\ lpc' = "lookup"
    /\ UNCHANGED <<client, fdOf, connections, lconn, pool, stopper>>

\* Look fd up under conn_mtx; hand a closure to the pool if it is there.
Lookup ==
    /\ lpc = "lookup"
    /\ \/ /\ connections[lfd] = NoConn
          /\ UNCHANGED <<queue, task>>
       \/ /\ connections[lfd] # NoConn
          /\ Pool!Submit([fd |-> lfd, conn |-> connections[lfd]])
    /\ lfd' = NoFd
    /\ lpc' = "batch"
    /\ UNCHANGED <<client, fdOf, interest, connections, batch, lconn, wpc, stopper>>

-----------------------------------------------------------------------------
(* Worker w in handleRequest(fd, conn). *)

Goto(w, pc) == wpc' = [wpc EXCEPT ![w] = pc]

StartTask(w) ==
    /\ wpc[w] = "idle"
    /\ Pool!Start(w)
    /\ Goto(w, IF UseTls THEN "handshake" ELSE "read")
    /\ UNCHANGED <<client, fdOf, interest, connections, loop, stopper>>

\* conn.handshake() succeeds: at once if it was done for an earlier request,
\* else with the messages the client sends while the worker polls.
Handshake(w) ==
    LET c == task[w].conn IN
    /\ wpc[w] = "handshake" /\ tls[c] # "none"
    /\ tls' = [tls EXCEPT ![c] = "up"]
    /\ Goto(w, "read")
    /\ UNCHANGED <<phase, st, kind, nreq, fin, fdOf, interest, connections, loop, queue, task, stopper>>

\* conn.handshake() gives up: the client left, stayed silent, or failed it.
HandshakeFails(w) ==
    /\ wpc[w] = "handshake" /\ tls[task[w].conn] # "up"
    /\ Goto(w, "erase")
    /\ UNCHANGED <<client, fdOf, interest, connections, loop, queue, task, stopper>>

\* raw is empty: the peer has closed, or there is nothing to read yet.
ReadNothing(w) ==
    /\ wpc[w] = "read" /\ st[task[w].conn] # "sent"
    /\ Goto(w, "erase")
    /\ UNCHANGED <<client, fdOf, interest, connections, loop, queue, task, stopper>>

\* Read and parse a request.
Read(w) ==
    LET c == task[w].conn IN
    /\ wpc[w] = "read" /\ st[c] = "sent"
    /\ st' = [st EXCEPT ![c] = "read"]
    /\ Goto(w, IF kind[c] = "ws" THEN "ws" ELSE "reply")
    /\ UNCHANGED <<phase, kind, nreq, fin, tls, fdOf, interest, connections, loop, queue, task, stopper>>

EraseAlways(c) == "erase"                \* mutant

\* Only a well-formed request without "Connection: close" keeps its
\* connection, whatever the handler answered.
AfterReply(c) == IF kind[c] = "keep" THEN "rearm" ELSE "erase"

\* The handlers have run; res.send(conn).
Reply(w) ==
    LET c == task[w].conn IN
    /\ wpc[w] = "reply"
    /\ st' = [st EXCEPT ![c] = "idle"]
    /\ Goto(w, AfterReply(c))
    /\ UNCHANGED <<phase, kind, nreq, fin, tls, fdOf, interest, connections, loop, queue, task, stopper>>

\* The WebSocket handler closes the connection (a close frame or an oversized
\* frame in readFrame) and goes on.
WsClose(w) ==
    /\ wpc[w] = "ws" /\ fdOf[task[w].conn] # NoFd
    /\ CloseAll({task[w].conn}, interest)
    /\ UNCHANGED <<client, connections, loop, pool, stopper>>

\* handleWebSocket returns (or there is no such route).
WsReturn(w) ==
    /\ wpc[w] = "ws"
    /\ Goto(w, "erase")
    /\ UNCHANGED <<client, fdOf, interest, connections, loop, queue, task, stopper>>

EraseNothing(f) == connections           \* mutant

\* connections.erase(fd), under conn_mtx.
EraseFd(f) == [connections EXCEPT ![f] = NoConn]

Erase(w) ==
    /\ wpc[w] = "erase"
    /\ connections' = EraseFd(task[w].fd)
    /\ Goto(w, "drop")
    /\ UNCHANGED <<client, loop, queue, task, stopper>>
    /\ Release

\* ev.add(fd, EPOLLIN)
RearmFd(w) ==
    /\ wpc[w] = "rearm"
    /\ interest' = Rearm(task[w].fd)
    /\ Goto(w, "drop")
    /\ UNCHANGED <<client, fdOf, connections, loop, queue, task, stopper>>

\* The closure and its conn_ptr are destroyed.
Drop(w) ==
    /\ wpc[w] = "drop"
    /\ Pool!Finish(w)
    /\ Goto(w, "idle")
    /\ UNCHANGED <<client, connections, loop, stopper>>
    /\ Release

-----------------------------------------------------------------------------
(* Server::stop, called by another thread. *)

StopFlag ==
    /\ spc = "none"
    /\ running' = FALSE
    /\ spc' = "flag"
    /\ UNCHANGED <<client, fdOf, interest, connections, loop, pool, listening>>

\* tcp_listener.close(); session_shutdown() does not touch this state.
StopListener ==
    /\ spc = "flag"
    /\ listening' = FALSE
    /\ spc' = "closed"
    /\ UNCHANGED <<client, fdOf, interest, connections, loop, pool, running>>

Clear == [f \in Fds |-> NoConn]

\* connections.clear(), under conn_mtx.
StopClear ==
    /\ spc = "closed"
    /\ connections' = Clear
    /\ spc' = "stopped"
    /\ UNCHANGED <<client, loop, pool, running, listening>>
    /\ Release

-----------------------------------------------------------------------------
Client(c) == Connect(c) \/ (\E k \in Requests : Send(c, k)) \/ Hello(c) \/ Fin(c)

Loop ==
    \/ LoopTop \/ Wait \/ BatchDone \/ AcceptFails \/ Insert \/ Lookup
    \/ \E f \in Fds : TakeEvent(f) \/ \E c \in Conns : Accept(c, f)

Worker(w) ==
    \/ StartTask(w) \/ Handshake(w) \/ HandshakeFails(w) \/ ReadNothing(w) \/ Read(w)
    \/ Reply(w) \/ WsClose(w) \/ WsReturn(w) \/ Erase(w) \/ RearmFd(w) \/ Drop(w)

Stop == StopFlag \/ StopListener \/ StopClear

\* The loop blocks in epoll_wait, or has ended, and no worker has work.
Quiet ==
    /\ lpc = "exited" \/ (lpc = "wait" /\ Ready = {})
    /\ queue = <<>> /\ \A w \in Workers : wpc[w] = "idle"
    /\ UNCHANGED vars

Next ==
    \/ \E c \in Conns : Client(c)
    \/ Loop
    \/ \E w \in Workers : Worker(w)
    \/ Stop
    \/ Quiet

Spec == Init /\ [][Next]_vars

(***************************************************************************)
(* Fairness.  The loop's thread, the workers' threads and a call of stop() *)
(* that has begun go on when they can, and application handlers return.    *)
(* Clients owe the server nothing.                                         *)
(***************************************************************************)
Fairness ==
    /\ WF_vars(Loop)
    /\ \A w \in Workers : WF_vars(Worker(w))
    /\ WF_vars(StopListener \/ StopClear)

FairSpec == Spec /\ Fairness

-----------------------------------------------------------------------------
(* Properties. *)

\* Types; a worker is idle exactly when it has no closure.
TypeOK ==
    /\ phase \in [Conns -> {"new", "backlog", "accepted"}]
    /\ st \in [Conns -> {"idle", "sent", "read"}]
    /\ kind \in [Conns -> Kinds \cup {"none"}]
    /\ nreq \in [Conns -> 0..MaxRequests]
    /\ fin \in [Conns -> BOOLEAN]
    /\ tls \in [Conns -> {"none", "hello", "up"}]
    /\ fdOf \in [Conns -> Fds \cup {NoFd}]
    /\ interest \subseteq Fds
    /\ connections \in [Fds -> Conns \cup {NoConn}]
    /\ running \in BOOLEAN /\ listening \in BOOLEAN
    /\ spc \in {"none", "flag", "closed", "stopped"}
    /\ lpc \in {"top", "wait", "batch", "insert", "lookup", "exited"}
    /\ batch \subseteq Fds \cup {Listener}
    /\ lfd \in Fds \cup {NoFd} /\ (lfd # NoFd <=> lpc \in {"insert", "lookup"})
    /\ lconn \in Conns \cup {NoConn} /\ (lconn # NoConn <=> lpc = "insert")
    /\ queue \in Seq(Task)
    /\ task \in [Workers -> Task \cup {NoTask}]
    /\ wpc \in [Workers -> WorkerPc]
    /\ \A w \in Workers : wpc[w] = "idle" <=> task[w] = NoTask

\* The part of a closure that uses the connection, before it is let go.
Serving(w) == wpc[w] \notin {"idle", "drop"}

\* A connection is served by one worker at a time: it is in at most one
\* queued closure or worker, although epoll reports it as long as input is
\* unread, workers watch it again before they let it go, and descriptors are
\* reused.  This is what makes handleRequest's unsynchronised use of the
\* Connection (and of its SSL object) safe.
ExclusiveService ==
    /\ \A i, j \in 1..Len(queue) : queue[i].conn = queue[j].conn => i = j
    /\ \A v, w \in Workers :
          Serving(v) /\ Serving(w) /\ task[v].conn = task[w].conn => v = w
    /\ \A i \in 1..Len(queue), w \in Workers :
          Serving(w) => queue[i].conn # task[w].conn

\* A worker reads, answers and re-arms its own connection, open under the
\* descriptor in its closure, even when stop() has cleared the map meanwhile:
\* conn_ptr keeps it alive.  (A WebSocket handler may have closed it.)
ServedIsOpen ==
    /\ \A i \in 1..Len(queue) : fdOf[queue[i].conn] = queue[i].fd
    /\ \A w \in Workers :
          Serving(w) /\ wpc[w] \notin {"ws", "erase"} => fdOf[task[w].conn] = task[w].fd

\* No open connection is forgotten: it is watched by epoll under an entry of
\* the map that leads back to it, or the loop or a worker has it in hand.
NoneStranded ==
    \A c \in Conns : fdOf[c] # NoFd =>
        \/ fdOf[c] \in interest /\ connections[fdOf[c]] = c
        \/ lconn = c
        \/ lpc = "lookup" /\ lfd = fdOf[c]
        \/ \E i \in 1..Len(queue) : queue[i].conn = c
        \/ \E w \in Workers : task[w] # NoTask /\ task[w].conn = c

\* HTTP keep-alive: the server closes a connection only if the client closed
\* its end, or the request it has read last was malformed, asked for it or
\* was a WebSocket upgrade, or the server was stopped.
KeepAliveHonoured ==
    [][\A c \in Conns : fdOf[c] # NoFd /\ fdOf'[c] = NoFd =>
          \/ fin[c] \/ ~running
          \/ st[c] # "sent" /\ kind[c] \in {"bad", "close", "ws"}]_vars

\* Every request a client sends on an accepted connection is eventually read,
\* or the connection is closed, as long as the server is not stopped.
EveryRequestIsRead ==
    \A c \in Conns :
        phase[c] = "accepted" /\ st[c] = "sent" ~> st[c] # "sent" \/ fdOf[c] = NoFd \/ ~running

\* Descriptors are not leaked: after the client has closed its end, the
\* server closes the connection.
FinishedIsClosed ==
    \A c \in Conns :
        phase[c] = "accepted" /\ fin[c] ~> fdOf[c] = NoFd \/ ~running
=============================================================================
