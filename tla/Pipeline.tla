------------------------------ MODULE Pipeline ------------------------------
(***************************************************************************)
(* What happens to a parsed request in Server::handleRequest: the chain of *)
(* middlewares in the order of Server::use, the handler Router::resolve    *)
(* found, static files or the 404 handler, and the 500 handler when        *)
(* something throws (src/core/server.cpp), with the built-in middlewares'  *)
(* decisions (src/security/, src/util/logger.cpp).                         *)
(*                                                                         *)
(* `res' is one object that the middlewares fill before they call next(),  *)
(* and that error responses replace.  Of the headers only those that a     *)
(* middleware sets are kept, by name.                                      *)
(***************************************************************************)
EXTENDS Naturals, Sequences

CONSTANT Chains     \* the chains of middlewares an application may register

Kinds == {"session", "csrf", "secureHeaders", "cors",
          "guard",      \* RateLimiter, PathGuard, Sanitizer: refuse or pass
          "plain"}      \* Logger, or the application's own: passes or throws

ASSUME ChainsOfKinds == \A ch \in Chains : ch \in Seq(Kinds)

VARIABLES
    chain,      \* the application: its middlewares, and the codes for which
    pages,      \* it has called onError(code).html(...)
    method, target,     \* the request: its method, what its path leads to
    cookie,     \* it carries the cookie of a live session
    token,      \* the CSRF token it carries: "good", that session's, or "bad"
    pc,         \* "chain", "caught", "send", "done", "crashed"
    pos,        \* the middleware to run next
    session,    \* req.session is set
    created,    \* history: a session was created for this request
    handled,    \* history: the route's handler was entered
    threw,      \* history: an exception was caught
    res         \* the response: status and headers

request == <<chain, pages, method, target, token, cookie>>
vars == <<request, pc, pos, session, created, handled, threw, res>>

Methods == {"GET", "POST", "PATCH", "OPTIONS"}   \* POST stands for PUT, DELETE too

Init ==
    /\ chain \in Chains /\ pages \in SUBSET {404, 500}
    /\ method \in Methods
    /\ target \in {"route", "static", "missing"}
    /\ cookie \in BOOLEAN
    /\ token \in {"bad"} \cup (IF cookie THEN {"good"} ELSE {})
    /\ pc = "chain" /\ pos = 1
    /\ session = FALSE /\ created = FALSE /\ handled = FALSE /\ threw = FALSE
    /\ res = [status |-> 200, headers |-> {}]

-----------------------------------------------------------------------------
At(k) == pc = "chain" /\ pos <= Len(chain) /\ chain[pos] = k

PassAlone(hs) ==                         \* mutant
    /\ pos' = pos + 1
    /\ res' = [res EXCEPT !.headers = hs]
    /\ UNCHANGED pc

\* next(): on to the next middleware, the response having gained headers.
Pass(hs) ==
    /\ pos' = pos + 1
    /\ res' = [res EXCEPT !.headers = @ \cup hs]
    /\ UNCHANGED pc

\* Return without next(): the chain unwinds and the response is sent.
Answer(status) ==
    /\ pc' = "send"
    /\ res' = [res EXCEPT !.status = status]
    /\ UNCHANGED pos

SessionFoundOnly ==                      \* mutant
    /\ At("session")
    /\ session' = cookie
    /\ created' = ~cookie
    /\ Pass(IF cookie THEN {} ELSE {"Set-Cookie"})
    /\ UNCHANGED <<request, handled, threw>>

\* The session of the cookie, or a new one (module Session has the details).
Session ==
    /\ At("session")
    /\ session' = TRUE
    /\ created' = ~cookie
    /\ Pass(IF cookie THEN {} ELSE {"Set-Cookie"})
    /\ UNCHANGED <<request, handled, threw>>

TokenIgnored == TRUE                     \* mutant
TokenMatches == token = "good"

\* Csrf: GET gets a token, POST, PUT and DELETE must bring it, and any other
\* method returns here.
Csrf ==
    /\ At("csrf") /\ session
    /\ \/ method = "GET" /\ Pass({"X-CSRF-Token"})
       \/ method = "POST" /\ TokenMatches /\ Pass({})
       \/ method = "POST" /\ ~TokenMatches /\ Answer(403)
       \/ method \notin {"GET", "POST"} /\ Answer(res.status)
    /\ UNCHANGED <<request, session, created, handled, threw>>

\* req.session is a null pointer.
CsrfWithoutSession ==
    /\ At("csrf") /\ ~session /\ method \in {"GET", "POST"}
    /\ pc' = "crashed"
    /\ UNCHANGED <<request, pos, session, created, handled, threw, res>>

CsrfSkips ==
    /\ At("csrf") /\ ~session /\ method \notin {"GET", "POST"}
    /\ Answer(res.status)
    /\ UNCHANGED <<request, session, created, handled, threw>>

SecureHeaders ==
    /\ At("secureHeaders")
    /\ Pass({"Content-Security-Policy"})
    /\ UNCHANGED <<request, session, created, handled, threw>>

\* Only an allowed origin gets its header; a preflight is answered here, and
\* what headers it gets nobody downstream can see.
Cors ==
    /\ At("cors")
    /\ \/ method = "OPTIONS" /\ Answer(204)
       \/ /\ method # "OPTIONS"
          /\ Pass({}) \/ Pass({"Access-Control-Allow-Origin"})
    /\ UNCHANGED <<request, session, created, handled, threw>>

\* 429 of the rate limiter, 403 of PathGuard, 400 of the sanitizer.
Guard ==
    /\ At("guard")
    /\ Pass({}) \/ \E s \in {400, 403, 429} : Answer(s)
    /\ UNCHANGED <<request, session, created, handled, threw>>

Plain ==
    /\ At("plain")
    /\ Pass({})
    /\ UNCHANGED <<request, session, created, handled, threw>>

AtEnd == pc = "chain" /\ pos > Len(chain)

\* A middleware throws a std::exception, before or after its next(), or the
\* handler does.
Throw ==
    /\ \/ At("plain")
       \/ AtEnd /\ target = "route"
       \/ pc = "send" /\ ~threw /\ \E i \in 1..(pos - 1) : chain[i] = "plain"
    /\ pc' = "caught"
    /\ threw' = TRUE
    /\ handled' = (handled \/ AtEnd)
    /\ UNCHANGED <<request, pos, session, created, res>>

-----------------------------------------------------------------------------
(* The innermost next(). *)

Handle ==
    /\ AtEnd /\ target = "route"
    /\ handled' = TRUE
    /\ \E s \in {200, 302} : Answer(s)
    /\ UNCHANGED <<request, session, created, threw>>

\* StaticFileServer::tryServe: the file, or 413 if it is too large.
ServeStatic ==
    /\ AtEnd /\ target = "static"
    /\ \E s \in {200, 413} : Answer(s)
    /\ UNCHANGED <<request, session, created, handled, threw>>

\* Response::error(code)
StatusOfError(code) == code

\* The page of onError(code).html or Response::error(code) replaces the whole
\* response; Response::html leaves its status 200.
ErrorResponse(code) ==
    [status |-> IF code \in pages THEN 200 ELSE StatusOfError(code), headers |-> {}]

NotFound ==
    /\ AtEnd /\ target = "missing"
    /\ res' = ErrorResponse(404)
    /\ pc' = "send"
    /\ UNCHANGED <<request, pos, session, created, handled, threw>>

Caught ==
    /\ pc = "caught"
    /\ res' = ErrorResponse(500)
    /\ pc' = "send"
    /\ UNCHANGED <<request, pos, session, created, handled, threw>>

Send ==
    /\ pc = "send"
    /\ pc' = "done"
    /\ UNCHANGED <<request, pos, session, created, handled, threw, res>>

Ended == pc \in {"done", "crashed"} /\ UNCHANGED vars

Next ==
    \/ Session \/ Csrf \/ CsrfWithoutSession \/ CsrfSkips \/ SecureHeaders \/ Cors
    \/ Guard \/ Plain \/ Throw \/ Handle \/ ServeStatic \/ NotFound \/ Caught
    \/ Send \/ Ended

Spec == Init /\ [][Next]_vars

-----------------------------------------------------------------------------
(* Properties. *)

AtLast == pos > Len(chain)     \* every middleware has called next()
Has(k) == \E i \in 1..Len(chain) : chain[i] = k

\* Every csrf() comes after a session().
SessionFirst ==
    \A i \in 1..Len(chain) :
        chain[i] = "csrf" => \E j \in 1..(i - 1) : chain[j] = "session"

\* In an application that registers session() before csrf() no request makes
\* csrf() dereference a null req.session, whatever else is in the chain.
CrashOnlyUnordered == SessionFirst => pc # "crashed"

\* Wherever csrf() is in the chain, a handler that changes something runs
\* only for a request that brought the token of the session it came with: a
\* session made for this very request has none.
WritesNeedToken ==
    handled /\ method = "POST" /\ Has("csrf") => token = "good" /\ session /\ ~created

\* A client for which a session was created is told its id, whatever the rest
\* of the chain answers, unless the response is replaced: after an exception,
\* and for a path that leads nowhere, the new session is lost to the client.
NewSessionIsAnnounced ==
    pc = "done" /\ created /\ ~threw /\ ~(AtLast /\ target = "missing")
        => "Set-Cookie" \in res.headers
=============================================================================
