------------------------------- MODULE Router -------------------------------
(***************************************************************************)
(* Router (src/core/router.cpp): from a method and a normalised path to a  *)
(* handler and the path's parameters.                                      *)
(*                                                                         *)
(* A table maps <<method, path>> to a handler; the key the code uses is    *)
(* method + ":" + path, and a method holds no colon.  The loop over the    *)
(* unordered_map visits parameter routes in any order, so resolve is a set *)
(* of results.                                                             *)
(***************************************************************************)
EXTENDS Url, Functions

Colon == 58

NotFound == [found |-> FALSE]
Found(handler, params) == [found |-> TRUE, handler |-> handler, params |-> params]

\* The texts between slashes after the first character; an empty last one is
\* not pushed.
Parts(path) ==
    LET all == Split(Tail(path), Slash)
    IN  IF Last(all) = <<>> THEN Front(all) ELSE all

HasParameter(routePath) == Contains(routePath, Colon)
IsParameter(part) == part # <<>> /\ Head(part) = Colon

AllowMore(routeParts, pathParts) == Len(routeParts) <= Len(pathParts)    \* mutant
SameLength(routeParts, pathParts) == Len(routeParts) = Len(pathParts)

Matches(routeParts, pathParts) ==
    /\ SameLength(routeParts, pathParts)
    /\ \A i \in DOMAIN routeParts :
          /\ routeParts[i] # <<>>
          /\ IsParameter(routeParts[i]) \/ routeParts[i] = pathParts[i]

\* temp_params: of two parameters with one name the later stays.
Bindings(routeParts, pathParts) ==
    LET named == {i \in DOMAIN routeParts : IsParameter(routeParts[i])}
    IN  {<<Tail(routeParts[i]), pathParts[i]>> :
            i \in {j \in named : \A k \in named : k > j => routeParts[k] # routeParts[j]}}

resolve(routes, method, path) ==
    LET hit(key) == /\ key[1] = method /\ HasParameter(key[2])
                    /\ Matches(Parts(key[2]), Parts(path))
        hits == {key \in DOMAIN routes : hit(key)}
    IN  CASE <<method, path>> \in DOMAIN routes -> {Found(routes[<<method, path>>], {})}
          [] <<method, path>> \notin DOMAIN routes /\ hits # {} ->
                {Found(routes[key], Bindings(Parts(key[2]), Parts(path))) : key \in hits}
          [] OTHER -> {NotFound}

addRoute(routes, method, path, handler) ==
    [key \in DOMAIN routes \cup {<<method, path>>} |->
        IF key = <<method, path>> THEN handler ELSE routes[key]]

-----------------------------------------------------------------------------
(* What a route stands for, independently of how resolve looks for it.     *)

\* The path that a route's path becomes when its parameters have values.
Substituted(routePath, params) ==
    LET value(part) == IF IsParameter(part) /\ \E b \in params : b[1] = Tail(part)
                       THEN (CHOOSE b \in params : b[1] = Tail(part))[2]
                       ELSE part
        parts == Parts(routePath)
    IN  Join([i \in DOMAIN parts |-> value(parts[i])])

\* Whether some values make the route's path that path; a route without
\* parameters stands for its own text only.
StandsFor(routePath, path) ==
    \/ routePath = path
    \/ /\ HasParameter(routePath)
       /\ LET names == {Tail(p) : p \in {q \in Range(Parts(routePath)) : IsParameter(q)}}
          IN  \E values \in [names -> Range(Parts(path))] :
                 Substituted(routePath, {<<n, values[n]>> : n \in names}) = path
=============================================================================
