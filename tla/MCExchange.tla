----------------------------- MODULE MCExchange -----------------------------
(* Exchange with frames at the boundaries of the format, and with forms     *)
(* that mix files, fields and files without data.                           *)
EXTENDS Exchange

CONSTANTS u1, u2, u3

F(op, len, masked) == [op |-> op, len |-> len, masked |-> masked]

MCFrames ==
    {F("text", 65536, FALSE), F("text", MaxPayload + 1, TRUE), F("text", 0, TRUE),
     F("ping", 125, TRUE), F("ping", 126, TRUE), F("close", 2, TRUE)}

MCForms == {<<"field", u1, "blank", u2, "field">>, <<"blank">>}
MCPads == {<<>>, <<NL, NL, Dashes, <<"name", "x">>, NL>>}
=============================================================================
