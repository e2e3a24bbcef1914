----------------------------- MODULE PathGuard -----------------------------
(***************************************************************************)
(* PathGuard (src/security/path_guard.cpp): requests for paths that match  *)
(* a pattern put their client's address on a blacklist.                    *)
(*                                                                         *)
(* The application adds patterns and whitelisted addresses while it sets   *)
(* up; nothing but the blacklist changes after that.  Workers run check()  *)
(* at the same time; `mtx' protects each access to the blacklist but is    *)
(* not held between isBlocked and the insertion, so these are two steps.   *)
(* How a pattern matches (whole path, prefix or ending) is left out: a     *)
(* path is in `patterns' if one of the three lists matches it.             *)
(***************************************************************************)
CONSTANTS
    Threads,    \* workers that run the middleware
    Ips,        \* client addresses
    Paths,      \* decoded, normalised paths
    NoIp, NoPath

ASSUME NoIpIsNoIp == NoIp \notin Ips
ASSUME NoPathIsNoPath == NoPath \notin Paths

VARIABLES
    patterns,   \* the paths that exact_paths, prefix_paths, blocked_exts match
    whitelist,
    blacklist,
    serving,    \* the server has been started
    pc,         \* where each worker is in check()
    ip, path,   \* its request
    late,       \* history: when the request began, its client had been refused
    offered,    \* history: <<client, path>> of the requests begun
    refused     \* history: clients refused for a path

config == <<patterns, whitelist, serving>>
request == <<ip, path, late>>
vars == <<config, blacklist, pc, request, offered, refused>>

Init ==
    /\ patterns = {} /\ whitelist = {} /\ blacklist = {}
    /\ serving = FALSE
    /\ pc = [t \in Threads |-> "idle"]
    /\ ip = [t \in Threads |-> NoIp] /\ path = [t \in Threads |-> NoPath]
    /\ late = [t \in Threads |-> FALSE]
    /\ offered = {} /\ refused = {}

-----------------------------------------------------------------------------
(* Set-up. *)

\* addExact, addPrefix, addExt: one more pattern, which matches the paths ps.
AddPattern(ps) ==
    /\ ~serving
    /\ patterns' = patterns \cup ps
    /\ UNCHANGED <<whitelist, serving, blacklist, pc, request, offered, refused>>

AddWhitelist(i) ==
    /\ ~serving
    /\ whitelist' = whitelist \cup {i}
    /\ UNCHANGED <<patterns, serving, blacklist, pc, request, offered, refused>>

Serve ==
    /\ ~serving
    /\ serving' = TRUE
    /\ UNCHANGED <<patterns, whitelist, blacklist, pc, request, offered, refused>>

-----------------------------------------------------------------------------
(* check() on worker t. *)

Goto(t, l) == pc' = [pc EXCEPT ![t] = l]

Unlisted(i) == FALSE                     \* mutant
Whitelisted(i) == i \in whitelist

\* A request of i for p; whitelisted clients pass at once.
Begin(t, i, p) ==
    /\ serving /\ pc[t] = "idle"
    /\ ip' = [ip EXCEPT ![t] = i]
    /\ path' = [path EXCEPT ![t] = p]
    /\ late' = [late EXCEPT ![t] = i \in refused]
    /\ offered' = offered \cup {<<i, p>>}
    /\ Goto(t, IF Whitelisted(i) THEN "pass" ELSE "isBlocked")
    /\ UNCHANGED <<config, blacklist, refused>>

\* isBlocked(ip), under mtx.
IsBlocked(t) ==
    /\ pc[t] = "isBlocked"
    /\ Goto(t, IF ip[t] \in blacklist THEN "refuse" ELSE "match")
    /\ UNCHANGED <<config, blacklist, request, offered, refused>>

\* The three loops over the patterns.
Match(t) ==
    /\ pc[t] = "match"
    /\ Goto(t, IF path[t] \in patterns THEN "insert" ELSE "pass")
    /\ UNCHANGED <<config, blacklist, request, offered, refused>>

KeepBlacklist(i) == blacklist            \* mutant
Blacklisted(i) == blacklist \cup {i}

\* blacklist.insert(ip), under mtx; return true.
Insert(t) ==
    /\ pc[t] = "insert"
    /\ blacklist' = Blacklisted(ip[t])
    /\ refused' = refused \cup {ip[t]}
    /\ Goto(t, "refuse")
    /\ UNCHANGED <<config, request, offered>>

\* next(), or status 403: the middleware is left.
Leave(t) ==
    /\ pc[t] \in {"pass", "refuse"}
    /\ Goto(t, "idle")
    /\ ip' = [ip EXCEPT ![t] = NoIp]
    /\ path' = [path EXCEPT ![t] = NoPath]
    /\ late' = [late EXCEPT ![t] = FALSE]
    /\ UNCHANGED <<config, blacklist, offered, refused>>

Check(t) ==
    \/ \E i \in Ips, p \in Paths : Begin(t, i, p)
    \/ IsBlocked(t) \/ Match(t) \/ Insert(t) \/ Leave(t)

SetUp == (\E ps \in SUBSET Paths : AddPattern(ps)) \/ (\E i \in Ips : AddWhitelist(i)) \/ Serve

Next == SetUp \/ \E t \in Threads : Check(t)

Spec == Init /\ [][Next]_vars

-----------------------------------------------------------------------------
(* Properties. *)

\* Types; a worker has a client and a path exactly while it is in check().
TypeOK ==
    /\ patterns \subseteq Paths /\ whitelist \subseteq Ips /\ blacklist \subseteq Ips
    /\ serving \in BOOLEAN
    /\ pc \in [Threads -> {"idle", "isBlocked", "match", "insert", "pass", "refuse"}]
    /\ ip \in [Threads -> Ips \cup {NoIp}]
    /\ path \in [Threads -> Paths \cup {NoPath}]
    /\ \A t \in Threads : ip[t] = NoIp <=> pc[t] = "idle"
    /\ \A t \in Threads : path[t] = NoPath <=> pc[t] = "idle"
    /\ late \in [Threads -> BOOLEAN]
    /\ offered \subseteq Ips \X Paths /\ refused \subseteq Ips

\* A client that has been refused for a path gets nothing through any more,
\* not even legitimate paths on another worker, although the blacklist is
\* looked at and extended in separate critical sections.
OffenderShutOut ==
    \A t \in Threads : pc[t] \in {"match", "insert", "pass"} => ~late[t]

\* Nobody is shut out without cause: every client on the blacklist has asked
\* for a blocked path, and no whitelisted client is ever refused.
OnlyOffendersRefused ==
    /\ \A i \in blacklist : \E p \in patterns : <<i, p>> \in offered
    /\ \A t \in Threads : pc[t] = "refuse" => ip[t] \notin whitelist /\ ip[t] \in blacklist
=============================================================================
