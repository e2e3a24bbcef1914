----------------------------- MODULE MCGateway -----------------------------
(* Gateway with two workers and two clients.  The paths are "/.e" and       *)
(* "/.e/a"; the routes overlap, one has a slash at its end, and one field   *)
(* is made of the bytes that have a meaning in a query.                     *)
EXTENDS Gateway, TLC

E == <<Slash, Dot, 101>>
EA == E \o <<Slash, 97>>
X == <<Slash, Colon, 120>>
Y == <<Slash, Colon, 121>>

MCPaths == {E, EA}

Special == {<<<<97, Percent>>, <<Equals, Ampersand, 255>>>>, <<<<>>, <<Plus, Space>>>>}

MCAsks ==
    {[method |-> "GET", path |-> E, fields |-> Special, upgrade |-> FALSE],
     [method |-> "GET", path |-> EA, fields |-> {<<<<97>>, <<>>>>}, upgrade |-> FALSE],
     [method |-> "GET", path |-> E, fields |-> {}, upgrade |-> TRUE]}

On(method, p, handler) == [method |-> method, path |-> p, handler |-> handler]

MCRoutes ==
    {On("GET", E, "html"), On("GET", X, "file"), On("POST", Y, "y"),
     On("GET", X \o Y, "xy"), On("GET", E \o Y \o <<Slash>>, "ey")}
MCWsPaths == {E}
MCExactPaths == {E}
MCPrefixPaths == {E}
MCBlockedExts == {Tail(E)}

Symmetry == Permutations(Threads) \cup Permutations(Ips)
=============================================================================
