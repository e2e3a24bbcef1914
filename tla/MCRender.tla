------------------------------ MODULE MCRender ------------------------------
(* Render with a page, a part that it includes and a file of other          *)
(* requests; every edit changes what a file says.                           *)
EXTENDS Render

CONSTANTS main, part, other

MCKeys == <<"k", "on", "xs">>

T(c) == <<"text", c>>
Str(chars) == <<"string", chars>>
In(v) == <<"array", <<v>>>>
Item(v) == <<"object", [k |-> v]>>

MCValues ==
    {<<"object", [k |-> Str(<<"a", "<", "&", Quote, Backslash, Newline>>), on |-> <<"bool", TRUE>>,
                  xs |-> <<"array", <<Item(<<"int", -3>>), Item(Null)>>>>]>>,
     <<"object", [on |-> <<"bool", FALSE>>, xs |-> <<"array", <<>>>>]>>,
     <<"object", [k |-> <<"int", 0>>, on |-> Str(<<>>), xs |-> Null]>>,
     In(In(In(<<"array", <<>>>>))),
     In(In(In(In(Null))))}

MCSource(p, n) ==
    CASE n = 0 -> <<>>
      [] p = main /\ n % 3 = 1 ->
            <<T("a"), <<"var", "k">>, <<"if", "on", <<T("b"), <<"include", part>>>>>>,
              <<"each", "xs", <<<<"var", "k">>, T("c"), <<"if", "k", <<<<"raw", "k">>>>>>>>>>, <<"raw", "k">>>>
      [] p = main /\ n % 3 = 2 -> <<<<"include", part>>, <<"if", "k", <<<<"each", "xs", <<T("d")>>>>>>>>, <<"include", part>>>>
      [] p = main /\ n % 3 = 0 -> <<T("e"), <<"var", "on">>, T("f"), <<"open">>, T("g")>>
      [] p = part /\ n % 2 = 1 -> <<T("h"), <<"var", "k">>>>
      [] p = part /\ n % 2 = 0 -> <<<<"if", "on", <<T("i")>>>>, <<"blank">>>>
      [] OTHER -> <<T("j")>>
=============================================================================
