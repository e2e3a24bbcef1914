----------------------------- MODULE Lifecycle ------------------------------
(***************************************************************************)
(* The life of a process that runs a Server: loadConfig, the constructors, *)
(* Server::start, stop, and the destructors, whose order decides what the  *)
(* tasks that the pool still runs can rely on.  The pool is ThreadPool's;  *)
(* its owner is the thread that constructs the Server, runs start() and    *)
(* destroys it.                                                            *)
(*                                                                         *)
(* The Server is a member of an App, which never stops it, or stands by    *)
(* itself, and then another thread may call stop().  What earlier lives    *)
(* have left of the configuration file is in Init: nothing, an empty file  *)
(* (killed while it was being written), the generated one, or an edited    *)
(* one.                                                                    *)
(***************************************************************************)
EXTENDS ThreadPool, ConfigParser

CONSTANTS
    Edited,     \* files as operators write them: sequences of lines
    Absent      \* no file

VARIABLES
    life,       \* where the owner is, outside the pool's calls
    app,        \* the Server belongs to an App
    file,       \* config/<directory>.conf
    edited,     \* history: an operator wrote it
    place,      \* started in "build", or where the file can neither be written
                \* nor opened ("denied"), or neither ("normal")
    config,     \* the set of loadConfig's result
    running,    \* Server::running
    gone        \* how many members have been destroyed

lvars == <<life, app, file, edited, place, config, running, gone>>
allvars == <<vars, lvars>>

PoolFirst ==                             \* mutant
    <<"running", "error_handlers", "static_files", "ws_routes", "conn_mtx", "connections", "tp",
      "ev", "tls_ctx", "middlewares", "tcp_listener", "router", "server_config">>

\* Members in the order of their destruction: an App's after the server, the
\* server's from last to first, the App's before it.
ServerMembers ==
    <<"running", "error_handlers", "static_files", "ws_routes", "conn_mtx", "tp",
      "connections", "ev", "tls_ctx", "middlewares", "tcp_listener", "router", "server_config">>

Members ==
    IF app THEN <<"path_guard">> \o ServerMembers \o <<"app_router", "cache", "config">> ELSE ServerMembers

Dead == {Members[i] : i \in 1..gone}

LInit ==
    /\ Init
    /\ life = "load" /\ app \in BOOLEAN /\ running = TRUE /\ gone = 0 /\ config = {}
    /\ \/ file \in {Absent, <<>>, Generated} /\ edited = FALSE
       \/ file \in Edited /\ edited = TRUE
    /\ place \in {"normal", "build", "denied"}

-----------------------------------------------------------------------------
(* From main to start. *)

\* The file that exists when loadConfig reads; only in a build directory none
\* is generated.
FileRead == IF file = Absent /\ place = "normal" THEN Generated ELSE file

\* A call of the file system throws, and nobody catches: current_path, an
\* exists of what may not be looked at, or create_directories, where config/
\* cannot be made.
FileSystemThrows ==
    /\ life = "load"
    /\ life' = "refused"
    /\ UNCHANGED <<vars, app, file, edited, place, config, running, gone>>

\* Otherwise config/ exists now.  A value that is no number throws: nobody
\* catches.
loadConfig ==
    /\ life = "load"
    /\ file' = FileRead
    /\ config' = IF FileRead = Absent \/ place = "denied" THEN {Defaults} ELSE ParseLines(FileRead)
    /\ life' = IF config' = {} THEN "aborted" ELSE "construct"
    /\ UNCHANGED <<vars, app, edited, place, running, gone>>

Conf == CHOOSE c \in config : TRUE

\* Server(config): the pool's threads start; with TLS the certificate or the
\* key may not load, and the constructor throws.
Construct ==
    /\ life = "construct"
    /\ life' \in {"constructed"} \cup IF Conf.use_tls THEN {"aborted"} ELSE {}
    /\ UNCHANGED <<vars, app, file, edited, place, config, running, gone>>

\* bind() or listen() fails: the address may be taken, or is none.
StartFails ==
    /\ life = "constructed"
    /\ life' = "returned"
    /\ UNCHANGED <<vars, app, file, edited, place, config, running, gone>>

\* start, on the one address of the model that inet_pton takes: a vector of
\* max_connections events, which throws if that is negative.
Start ==
    /\ life = "constructed" /\ Conf.bind_addr = Defaults.bind_addr
    /\ life' = IF Conf.max_connections < 0 THEN "aborted" ELSE "serving"
    /\ UNCHANGED <<vars, app, file, edited, place, config, running, gone>>

\* The loop's calls of submit; `running' is looked at only between batches of
\* events, so some may follow stop().  With room for no event, epoll_wait
\* fails, and the loop does nothing, without pause.
Serve ==
    /\ life = "serving" /\ Conf.max_connections > 0
    /\ (\E t \in Tasks : Submit(t)) \/ NotifyOne
    /\ UNCHANGED lvars

\* Server::stop; what it does to listener and connections is Server's matter.
Stop ==
    /\ life = "serving" /\ ~app /\ running
    /\ running' = FALSE
    /\ UNCHANGED <<vars, life, app, file, edited, place, config, gone>>

StartReturns ==
    /\ life = "serving" /\ ~running /\ opc = "run"
    /\ life' = "returned"
    /\ UNCHANGED <<vars, app, file, edited, place, config, running, gone>>

-----------------------------------------------------------------------------
(* The destructors. *)

DestroyMember ==
    /\ life = "returned" /\ gone < Len(Members) /\ Members[gone + 1] # "tp"
    /\ gone' = gone + 1
    /\ UNCHANGED <<vars, life, app, file, edited, place, config, running>>

DestroyPool ==
    /\ life = "returned" /\ gone < Len(Members) /\ Members[gone + 1] = "tp"
    /\ Destroy \/ NotifyAll \/ Join
    /\ gone' = IF opc' = "destroyed" THEN gone + 1 ELSE gone
    /\ UNCHANGED <<life, app, file, edited, place, config, running>>

PoolWorker(w) == life \notin {"load", "refused", "construct", "aborted"} /\ Worker(w) /\ UNCHANGED lvars

Main ==
    \/ FileSystemThrows \/ loadConfig \/ Construct \/ StartFails \/ Start \/ Serve \/ StartReturns
    \/ DestroyMember \/ DestroyPool

Over == (Terminated \/ life \in {"refused", "aborted"} \/ gone = Len(Members)) /\ UNCHANGED allvars

LNext ==
    \/ ~Terminated /\ (Main \/ Stop \/ \E w \in Workers : PoolWorker(w))
    \/ Over

(***************************************************************************)
(* Fairness.  A worker that can go on does: the operating system runs it   *)
(* and it gets the mutex, which nobody holds for more than a few           *)
(* instructions.  A task ends, by returning or by an exception, unless it  *)
(* serves a WebSocket: nothing makes its client leave, not even stop(),    *)
(* since the closure keeps the connection open.  The loop finishes the     *)
(* submit() it is in, and the destructors run.  Nothing makes a request    *)
(* arrive or somebody call stop(), and nothing causes spurious wake-ups.   *)
(***************************************************************************)
LFairness ==
    /\ \A w \in Workers :
          /\ WF_allvars(~Terminated /\ PoolWorker(w) /\ wpc[w] = "ready")
          /\ WF_allvars(~Terminated /\ PoolWorker(w) /\ wpc[w] = "running" /\ cur[w] \notin Lasting)
    /\ WF_allvars(~Terminated /\ Serve /\ opc = "notify")
    /\ WF_allvars(~Terminated /\ (DestroyMember \/ DestroyPool))

LSpec == LInit /\ [][LNext]_allvars /\ LFairness

-----------------------------------------------------------------------------
(* Properties. *)

Paths == {"cert_path", "key_path"}

\* As long as nobody has edited the file, every start that the file system
\* does not stop uses the values of Config{}, whether it generates the file,
\* finds it, finds what a killed process left of it, or cannot write one: the
\* text that loadConfig writes and the initial values of the struct, two lists
\* in two files, agree.  Only the paths of certificate and key, which Config{}
\* leaves empty, may differ.  (The documentation shows another file:
\* FirstRunAsDocumented.)
UneditedIsDefault ==
    life \notin {"load", "refused"} /\ ~edited =>
        \E c \in config : \A field \in DOMAIN Defaults \ Paths : c[field] = Defaults[field]

\* "On the first run, config/<project-name>.conf is automatically generated."
\* The documentation shows it, with these settings.
Documented ==
    [i \in DOMAIN Generated |-> IF Generated[i].key = "tls" THEN Line("tls", Word("on")) ELSE Generated[i]]

\* A first run uses the settings that the documentation shows.
FirstRunAsDocumented ==
    life = "construct" /\ ~edited /\ place = "normal" /\ file = Generated => config = ParseLines(Documented)

\* What the headers declare behind the pool.
BehindPool == {"running", "error_handlers", "static_files", "ws_routes", "conn_mtx"}

\* While a task runs, an App has lost no member: its Server is destroyed only
\* if it never served.  A Server that was stopped, and drains its queue in the
\* destructor of the pool, has lost at most what is declared behind the pool;
\* a task that needs one of these (conn_mtx, error_handlers, static_files,
\* ws_routes) uses it after its destruction.
TasksSeeTheServer ==
    At("running") # {} => Dead \subseteq IF app THEN {} ELSE BehindPool

\* When start has returned, the process gets through all destructors, whatever
\* the queue holds, unless a task throws, or from some moment on there is
\* always a worker that a WebSocket's client keeps: stop() does not end
\* WebSockets, and join() waits for them.
ShutdownCompletes ==
    life = "returned" ~> (gone = Len(Members) \/ Terminated \/ [](Kept # {}))
=============================================================================
