------------------------------ MODULE Gateway ------------------------------
(***************************************************************************)
(* The way of a request's path: Request::parse decodes and normalises it   *)
(* (Url), PathGuard judges it (PathGuard), Router::resolve finds its       *)
(* handler (Router).                                                       *)
(*                                                                         *)
(* Clients mean a path and spell it as they like: bytes escaped once or    *)
(* twice, detours over ".", ".." and empty segments.  A request for an     *)
(* upgrade to a WebSocket does not come to PathGuard, nor does any to a    *)
(* server without a router.  The other steps of the exchange are in        *)
(* HttpExchange, WebSocket and Pipeline.                                   *)
(***************************************************************************)
EXTENDS PathGuard, Router

CONSTANTS
    Asks,       \* what clients ask for: [method, path, fields, upgrade]
    Routes,     \* what the application may register: [method, path, handler]
    MaxRoutes,  \* and how many of them (a bound)
    WsPaths,    \* the paths it may register for WebSockets
    ExactPaths, PrefixPaths, BlockedExts      \* what it may give to PathGuard

VARIABLES
    routes,     \* the router's table
    mounted,    \* the server has the router
    ws_routes,  \* the paths of the server's ws_routes
    ask,        \* per worker: what the client of its request meant
    query,      \* per worker: what parseQuery made of the query
    reply       \* the answer just given, NoReply if the last step gave none

NoReply == [status |-> 0]
tables == <<routes, mounted, ws_routes>>
gate == <<tables, ask, query>>
gvars == <<vars, gate, reply>>

GInit ==
    /\ Init
    /\ routes = [key \in {} |-> "none"] /\ mounted = FALSE /\ ws_routes = {}
    /\ ask = [t \in Threads |-> NoPath]
    /\ query = [t \in Threads |-> {}]
    /\ reply = NoReply

-----------------------------------------------------------------------------
(* Set-up: addExact, addPrefix, addExt by what check() compares them with. *)

Ending(ext, p) == Len(p) >= Len(ext) /\ SubSeq(p, Len(p) - Len(ext) + 1, Len(p)) = ext

AddExact(exact) == AddPattern({p \in Paths : p = exact})
AddPrefix(prefix) == AddPattern({p \in Paths : IsPrefix(prefix, p)})
AddExt(ext) == AddPattern({p \in Paths : Ending(ext, p)})

\* Route::html, json, file, handle.
AddRoute(r) ==
    /\ ~serving /\ Cardinality(DOMAIN routes) < MaxRoutes
    /\ routes' = addRoute(routes, r.method, r.path, r.handler)
    /\ UNCHANGED <<vars, mounted, ws_routes, ask, query, reply>>

\* Server::mount, which App::listen calls.
Mount ==
    /\ ~serving /\ mounted' = TRUE
    /\ UNCHANGED <<vars, routes, ws_routes, ask, query, reply>>

\* Server::ws
Ws(p) ==
    /\ ~serving /\ ws_routes' = ws_routes \cup {p}
    /\ UNCHANGED <<vars, routes, mounted, ask, query, reply>>

Configure ==
    \/ \E r \in Routes : AddRoute(r)
    \/ Mount
    \/ \E p \in WsPaths : Ws(p)
    \/ /\ \/ \E e \in ExactPaths : AddExact(e)
          \/ \E p \in PrefixPaths : AddPrefix(p)
          \/ \E e \in BlockedExts : AddExt(e)
          \/ \E i \in Ips : AddWhitelist(i)
          \/ Serve
       /\ UNCHANGED <<gate, reply>>

-----------------------------------------------------------------------------
(* Clients. *)

EscapedTwice(c) == <<Percent, 50, 53>> \o Tail(Escaped(c))     \* %25..

\* Every byte plain or escaped once; or all of them escaped twice.
Encodings(p) ==
    {FlattenSeq([i \in DOMAIN p |-> IF i \in e THEN Escaped(p[i]) ELSE <<p[i]>>]) :
        e \in SUBSET DOMAIN p}
    \cup {FlattenSeq([i \in DOMAIN p |-> EscapedTwice(p[i])])}

\* Detours before and after the path; the segments may be escaped as well.
Detours(p) ==
    LET up == <<Dot, Dot>>
    IN  {p, <<Slash>> \o p, <<Slash, Dot>> \o p, <<Slash, 97, Slash>> \o up \o p,
         <<Slash>> \o up \o p, p \o <<Slash>>, p \o <<Slash, 97, Slash>> \o up}

Spellings(p) == UNION {Encodings(d) : d \in Detours(p)}

\* A form's fields as a client sends them.
QueryText(fields) ==
    LET fs == SetToSeq(fields)
        pair(f) == urlEncode(f[1]) \o <<Equals>> \o urlEncode(f[2])
    IN  IF fs = <<>> THEN <<>>
        ELSE Tail(FlattenSeq([i \in DOMAIN fs |-> <<Ampersand>> \o pair(fs[i])]))

-----------------------------------------------------------------------------
(* Request::parse, for what clients send. *)

\* The paths that the spellings of p become, and whether one is rejected.
Parsed == [p \in Paths |-> {ParsedPath(raw) : raw \in {r \in Spellings(p) : ~RejectsPath(r)}}]
Rejected == [p \in Paths |-> \E raw \in Spellings(p) : RejectsPath(raw)]

Fields == [a \in Asks |-> parseQuery(QueryText(a.fields))]

-----------------------------------------------------------------------------
(* Worker t. *)

Answered(t, status, found) ==
    [status |-> status, found |-> found, ask |-> ask[t], query |-> query[t], late |-> late[t]]

\* Request::parse reports an error on a path that still holds an escape: 400.
BadRequest(t, a) ==
    /\ serving /\ pc[t] = "idle" /\ Rejected[a.path]
    /\ reply' = [status |-> 400, found |-> NotFound, ask |-> a, query |-> {}, late |-> FALSE]
    /\ UNCHANGED <<vars, gate>>

\* An answer to a request of i that no middleware has seen.
AtOnce(t, i, a, status) ==
    /\ serving /\ pc[t] = "idle"
    /\ reply' = [status |-> status, found |-> NotFound, ask |-> a, query |-> Fields[a], late |-> i \in refused]
    /\ UNCHANGED <<vars, gate>>

\* WebSocket::isUpgrade, handleWebSocket: the route's handler (101), or 404.
Upgrade(t, i, a) ==
    /\ a.upgrade
    /\ \E p \in Parsed[a.path] : AtOnce(t, i, a, IF p \in ws_routes THEN 101 ELSE 404)

NoRouter(t, i, a) == ~a.upgrade /\ ~mounted /\ Parsed[a.path] # {} /\ AtOnce(t, i, a, 404)

\* The chain of middlewares begins.
Arrive(t, i, a) ==
    /\ ~a.upgrade /\ mounted
    /\ \E p \in Parsed[a.path] : Begin(t, i, p)
    /\ ask' = [ask EXCEPT ![t] = a]
    /\ query' = [query EXCEPT ![t] = Fields[a]]
    /\ reply' = NoReply
    /\ UNCHANGED tables

\* The handlers of Route: a file that is missing or empty is answered with 500.
Statuses(handler) == IF handler = "file" THEN {200, 500} ELSE {200}

\* next() leads to resolve and the handler; a refused request ends with 403.
Answer(t) ==
    /\ Leave(t)
    /\ \/ pc[t] = "refuse" /\ reply' = Answered(t, 403, NotFound)
       \/ /\ pc[t] = "pass"
          /\ \E r \in resolve(routes, ask[t].method, path[t]) :
                IF r = NotFound THEN reply' = Answered(t, 404, r)
                ELSE \E s \in Statuses(r.handler) : reply' = Answered(t, s, r)
    /\ ask' = [ask EXCEPT ![t] = NoPath]
    /\ query' = [query EXCEPT ![t] = {}]
    /\ UNCHANGED tables

Judge(t) == (IsBlocked(t) \/ Match(t) \/ Insert(t)) /\ reply' = NoReply /\ UNCHANGED gate

Request(t) ==
    \/ \E a \in Asks :
          \/ BadRequest(t, a)
          \/ \E i \in Ips : Upgrade(t, i, a) \/ NoRouter(t, i, a) \/ Arrive(t, i, a)
    \/ Judge(t) \/ Answer(t)

GNext == Configure \/ \E t \in Threads : Request(t)

GSpec == GInit /\ [][GNext]_gvars

-----------------------------------------------------------------------------
(* Properties. *)

\* A client that has been refused for a path gets nothing but 400 and 403 from
\* then on, not even for legitimate paths and on other workers, unless it asks
\* for an upgrade: handleRequest serves those before the middlewares run.
RefusedStaysOut ==
    reply.status \in {101, 200, 404, 500} /\ reply.late => reply.ask.upgrade

\* "Blacklisted IPs are blocked on all subsequent requests."
BlockedOnAllRequests == reply.status \in {101, 200, 404, 500} => ~reply.late

\* No spelling of a blocked path gets through PathGuard to a handler: whatever a
\* client that is not whitelisted escapes (once or twice) or inserts, the
\* request is refused with 400 or 403.  (A request for an upgrade does not come
\* to PathGuard at all; no handler of a route sees it.)
NoSpellingGetsThrough ==
    \A t \in Threads : pc[t] = "pass" /\ ask[t].path \in patterns => ip[t] \in whitelist

\* A handler runs for a path exactly when a route of its method stands for the
\* path the client meant; a route registered with that very text is preferred,
\* and the parameters, put back into the route, give the path.  A WebSocket's
\* handler runs exactly for the path it was registered for.
HandlerFitsPath ==
    /\ reply.status \in {101, 404} /\ reply.ask.upgrade =>
          (reply.status = 101 <=> reply.ask.path \in ws_routes)
    /\ reply.status \in {200, 404, 500} /\ ~reply.ask.upgrade /\ mounted =>
        LET a == reply.ask
            mine == {key \in DOMAIN routes : key[1] = a.method}
        IN  /\ reply.found.found <=> \E key \in mine : StandsFor(key[2], a.path)
            /\ reply.found.found =>
                  \E key \in mine :
                     /\ routes[key] = reply.found.handler
                     /\ <<a.method, a.path>> \in DOMAIN routes => key[2] = a.path
                     /\ Substituted(key[2], reply.found.params) = a.path

\* The handler sees the fields that the client sent, whatever bytes their names
\* and values are made of.
FieldsArrive == reply.status \in {101, 200, 404, 500} => reply.query = reply.ask.fields
=============================================================================
