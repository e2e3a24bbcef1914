------------------------------- MODULE Render -------------------------------
(***************************************************************************)
(* A handler that answers with res.render(file, parse(body)): the text of  *)
(* its variables is parsed (Json), and the template is rendered            *)
(* (Template), with each file it needs coming out of the shared cache      *)
(* (Loads), while other handlers use the cache and other programs edit the *)
(* files.                                                                  *)
(***************************************************************************)
EXTENDS Loads, Template

CONSTANTS
    Source(_, _),       \* Source(p, n): the nodes in file p when its stamp is n
    Values              \* the values clients send as variables

VARIABLES
    sentval,    \* the value sent
    body,       \* its text, or what arrived of it
    stack,      \* calls of renderString, the innermost first
    page        \* result

tvars == <<sentval, body, stack, page>>

\* The request's body, all of it or what arrived.
RInit ==
    /\ LInit
    /\ sentval \in Values
    /\ \E n \in 1..Len(stringify(sentval)) : body = SubSeq(stringify(sentval), 1, n)
    /\ stack = <<>> /\ page = <<>>

-----------------------------------------------------------------------------
\* parse(body): an exception leaves the handler.
ParseBody ==
    /\ Prepare
    /\ LET r == parse(body)
       IN  IF r.ok THEN rpc' = "begin" /\ stack' = <<Frame(<<>>, r.val)>>
           ELSE rpc' = "refused" /\ UNCHANGED stack
    /\ UNCHANGED <<sentval, body, page>>

\* The file's text goes on top of the stack, with the variables of the call
\* that wanted it.
Push(stamp) ==
    /\ stack' = <<Frame(TextOf(Source(want, stamp)), Head(stack).vars)>> \o stack
    /\ UNCHANGED <<sentval, body, page>>

Load ==
    \/ LoadHit /\ Push(content[want])
    \/ LoadReturns /\ Push(got)
    \/ (LoadMiss \/ LoadThrows) /\ UNCHANGED tvars

\* One round of the innermost renderString's loop, or its return.
RenderRound ==
    /\ rpc = "render" /\ stack # <<>>
    /\ IF Head(stack).rest = <<>>
       THEN stack' = Tail(stack) /\ UNCHANGED <<vars, lvars, page>>
       ELSE LET r == Round(Head(stack))
            IN  /\ page' = page \o r.out
                /\ stack' = r.frames \o Tail(stack)
                /\ \/ r.kind = "go" /\ UNCHANGED <<vars, lvars>>
                   \/ r.kind = "load" /\ Include(r.file[1])
                   \/ r.kind = "throw" /\ Leave /\ rpc' = "threw"
    /\ UNCHANGED <<sentval, body>>

RenderReturns ==
    /\ stack = <<>> /\ Leave /\ rpc' = "page"
    /\ UNCHANGED tvars

Handler == ParseBody \/ (Begin /\ UNCHANGED tvars) \/ Load \/ RenderRound \/ RenderReturns

\* Parsing and the rounds between two loads touch nothing that is shared: that
\* others move in between makes no difference, and the model leaves it out.
Meanwhile == rpc \in {"begin", "load", "call"} /\ Others /\ UNCHANGED tvars

Answered == rpc \in {"page", "threw", "refused"} \/ accesses = MaxAccesses
Idle == Answered /\ UNCHANGED <<vars, lvars, tvars>>

RNext == Handler \/ Meanwhile \/ Idle

RSpec == RInit /\ [][RNext]_<<vars, lvars, tvars>>

-----------------------------------------------------------------------------
(* Properties. *)

RECURSIVE DepthOf(_)
DepthOf(v) ==
    IF v[1] \notin {"array", "object"} THEN 0
    ELSE Max({0} \cup {1 + DepthOf(v[2][x]) : x \in DOMAIN v[2]})

\* What stringify writes, parse reads back as the same value, if it is not
\* nested deeper than parse allows; and no text that was cut short is taken
\* for a value (numbers apart, whose beginnings are numbers).
ReadsWhatItWrites ==
    rpc # "parse" =>
        IF body = stringify(sentval) /\ DepthOf(sentval) <= MaxDepth
        THEN rpc # "refused" /\ (rpc = "begin" => Head(stack).vars = sentval)
        ELSE rpc = "refused"

WellFormed(nodes) == \A i \in DOMAIN nodes : nodes[i][1] \notin {"open", "blank"}

\* If the files do not change meanwhile, the page is what its template
\* describes: values escaped so that they show as what they are, conditions and
\* loops (not nested in one of the same kind) and includes in their places.
PageAsDeclared ==
    rpc = "page" /\ edits = start.edits /\ (\A p \in Paths : WellFormed(Source(p, file[p]))) =>
        [i \in DOMAIN page |-> Shown(page[i])] =
            Meaning(Source(Main, file[Main]), sentval, [p \in Paths |-> Source(p, file[p])])
=============================================================================
