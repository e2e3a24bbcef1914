------------------------------ MODULE Template ------------------------------
(***************************************************************************)
(* TemplateEngine (src/util/template_engine.cpp): one round of             *)
(* renderString's loop, and what a template means.                         *)
(*                                                                         *)
(* A template's text is a sequence of tokens: <<"text", c>>, the tags      *)
(* <<"var", k>>, <<"raw", k>>, <<"if", k>>, <<"/if">>, <<"each", k>>,      *)
(* <<"/each">>, <<"include", p>>, a tag of blanks <<"blank">>, and braces  *)
(* that nothing closes, <<"open">>.                                        *)
(***************************************************************************)
EXTENDS Json

Entities == [lt |-> "<", gt |-> ">", amp |-> "&", quot |-> Quote, apos |-> "'"]

HasEntity(c) == \E e \in DOMAIN Entities : Entities[e] = c

htmlEscape(text) ==
    [i \in DOMAIN text |-> IF HasEntity(text[i])
                           THEN <<"entity", CHOOSE e \in DOMAIN Entities : Entities[e] = text[i]>>
                           ELSE <<"char", text[i]>>]

isTruthy(val) ==
    CASE val[1] = "null" -> FALSE
      [] val[1] = "bool" -> val[2]
      [] val[1] = "int" -> val[2] # 0
      [] OTHER -> val[2] # <<>>

-----------------------------------------------------------------------------
(* renderString.  A call in progress is [rest, since, vars]: the tokens to  *)
(* come, the text since the last tag, and the variables.                    *)

Frame(tokens, vars) == [rest |-> tokens, since |-> <<>>, vars |-> vars]

\* Where a block that was just opened ends: at the first tag that closes its
\* kind; 0 if there is none.
LastClose(rest, tag) ==                  \* mutant
    LET closes == {i \in DOMAIN rest : rest[i] = <<tag>>} IN IF closes = {} THEN 0 ELSE Max(closes)
CloseOf(rest, tag) ==
    LET closes == {i \in DOMAIN rest : rest[i] = <<tag>>} IN IF closes = {} THEN 0 ELSE Min(closes)

\* What one round does: emit output, replace the call by others, ask for a
\* file, or throw.
Emits(out, frames) == [kind |-> "go", out |-> out, frames |-> frames, file |-> <<>>]
Asks(p, frame) == [kind |-> "load", out |-> <<>>, frames |-> <<frame>>, file |-> <<p>>]
Throws == [kind |-> "throw", out |-> <<>>, frames |-> <<>>, file |-> <<>>]

\* The loop is left for good; what comes after pos, the position after the last
\* tag, is copied.  That includes the text already emitted since then.
Breaks(f) == Emits(f.since \o f.rest, <<>>)

Round(f) ==
    LET tag == Head(f.rest)
        after == Tail(f.rest)
        next == [f EXCEPT !.rest = after, !.since = <<>>]
        isObject == f.vars[1] = "object"
        has(k) == k \in DOMAIN f.vars[2]
        close == IF tag[1] = "if" THEN CloseOf(after, "/if") ELSE CloseOf(after, "/each")
        inside == SubSeq(after, 1, close - 1)
        behind == [next EXCEPT !.rest = SubSeq(after, close + 1, Len(after))]
    IN  CASE tag[1] = "text" -> Emits(<<tag>>, <<[f EXCEPT !.rest = after, !.since = Append(f.since, tag)]>>)
          [] tag[1] = "open" -> Breaks(f)
          [] tag[1] # "text" /\ tag[1] # "open" /\ ~isObject -> Throws
          [] isObject /\ tag[1] = "raw" ->
                Emits(IF has(tag[2]) THEN <<<<"raw", toText(f.vars[2][tag[2]])>>>> ELSE <<>>, <<next>>)
          [] isObject /\ tag[1] = "var" ->
                Emits(IF has(tag[2]) THEN <<<<"value", htmlEscape(toText(f.vars[2][tag[2]]))>>>> ELSE <<>>, <<next>>)
          [] isObject /\ tag[1] \in {"if", "each"} /\ close = 0 -> Breaks(f)
          [] isObject /\ tag[1] = "if" /\ close > 0 ->
                Emits(<<>>, IF has(tag[2]) /\ isTruthy(f.vars[2][tag[2]]) THEN <<Frame(inside, f.vars), behind>>
                            ELSE <<behind>>)
          [] isObject /\ tag[1] = "each" /\ close > 0 ->
                IF ~has(tag[2]) THEN Emits(<<>>, <<behind>>)
                ELSE LET list == f.vars[2][tag[2]]
                     IN  IF list[1] # "array" THEN Throws
                         ELSE Emits(<<>>, [i \in DOMAIN list[2] |-> Frame(inside, list[2][i])] \o <<behind>>)
          [] isObject /\ tag[1] = "include" -> Asks(tag[2], next)
          [] isObject /\ tag[1] \in {"/if", "/each"} -> Emits(<<>>, <<next>>)     \* a variable nobody has
          [] isObject /\ tag[1] = "blank" -> Throws                               \* trim("")

-----------------------------------------------------------------------------
(* What templates mean.  A template is written as a sequence of nodes: the   *)
(* tokens, with blocks <<"if", k, nodes>> and <<"each", k, nodes>>.          *)

RECURSIVE TextOf(_)
TextOf(nodes) ==
    FlattenSeq([i \in DOMAIN nodes |->
        IF nodes[i][1] = "if" THEN <<<<"if", nodes[i][2]>>>> \o TextOf(nodes[i][3]) \o <<<<"/if">>>>
        ELSE IF nodes[i][1] = "each" THEN <<<<"each", nodes[i][2]>>>> \o TextOf(nodes[i][3]) \o <<<<"/each">>>>
        ELSE <<nodes[i]>>])

\* The page that nodes describe, if file p holds source[p]: a variable shows
\* its text, a block its contents once, not at all, or per item.
RECURSIVE Meaning(_, _, _)
Meaning(nodes, vars, source) ==
    LET value(k) == IF k \in DOMAIN vars[2] THEN vars[2][k] ELSE Null
        of(n) ==
            CASE n[1] = "text" -> <<n>>
              [] n[1] \in {"var", "raw"} /\ n[2] \in DOMAIN vars[2] ->
                    <<<<IF n[1] = "var" THEN "value" ELSE "raw", toText(value(n[2]))>>>>
              [] n[1] = "if" /\ isTruthy(value(n[2])) -> Meaning(n[3], vars, source)
              [] n[1] = "each" /\ value(n[2])[1] = "array" ->
                    FlattenSeq([i \in DOMAIN value(n[2])[2] |-> Meaning(n[3], value(n[2])[2][i], source)])
              [] n[1] = "include" -> Meaning(source[n[2]], vars, source)
              [] OTHER -> <<>>
    IN  FlattenSeq([i \in DOMAIN nodes |-> of(nodes[i])])

\* How a browser reads a page: an escaped value shows as what it was if no
\* character of it that HTML knows is left as it is.
Shown(chunk) ==
    IF chunk[1] # "value" THEN chunk
    ELSE <<"value", [i \in DOMAIN chunk[2] |->
            IF chunk[2][i][1] = "entity" THEN Entities[chunk[2][i][2]]
            ELSE IF HasEntity(chunk[2][i][2]) THEN "markup" ELSE chunk[2][i][2]]>>
=============================================================================
