------------------------------ MODULE Exchange ------------------------------
(***************************************************************************)
(* Server::handleRequest from the first byte to the last: reading, limits  *)
(* and response as in HttpExchange; for a request that asks for an upgrade *)
(* the handshake and the WebSocket's loop, and for a form the parser and   *)
(* the handler that stores its files, all on the same worker.              *)
(***************************************************************************)
EXTENDS HttpExchange, WebSocket, Upload

\* Sizes of a request for an upgrade or with a form, and of their answers.
CONSTANTS UpgradeLen, FormLen, AnswerLen

\* "page"; "ws", an upgrade on a path of ws_routes; "nowhere", on another
\* path; "form".
VARIABLE kind

xvars == <<vars, wsvars, upvars, kind>>

Kinds ==
    {"page"} \cup
    IF hlen = UpgradeLen /\ wellformed /\ whole /\ rlen = AnswerLen
    THEN CASE blen = 0 /\ cl = "absent" -> {"ws", "nowhere"}
           [] blen = FormLen /\ cl = "length" -> {"form"}
           [] OTHER -> {}
    ELSE {}

XInit ==
    /\ Init /\ WsInit
    /\ kind \in Kinds
    /\ IF kind = "form" THEN AForm ELSE NoForm

\* handleWebSocket: one write of the response, then the handler; without a
\* Sec-WebSocket-Key the response is empty, and the handler runs all the same.
Upgrade ==
    /\ pc = "parse" /\ raw > 0 /\ Parses /\ kind \in {"ws", "nowhere"}
    /\ verdict' = "handled" /\ pc' = "done"
    /\ \/ out' = Chunk
       \/ kind = "ws" /\ out' = 0
    /\ space' = space - out'
    /\ wpc' = IF kind = "ws" THEN "open" ELSE "none"
    /\ UNCHANGED <<request, arrived, raw, reads, rlen, stream, took, insync, messages, replies, upvars, kind>>

ReceiveForm ==
    /\ kind = "form" /\ Parses /\ Parse /\ ParseForm
    /\ UNCHANGED <<wsvars, kind>>

\* handleRequest as HttpExchange describes it; the handler has returned when
\* the response is sent.
Http ==
    /\ \/ ReadHeader \/ Limits \/ ReadBody
       \/ (kind = "page" \/ ~Parses) /\ Parse
       \/ Saved /\ Send
    /\ UNCHANGED <<wsvars, upvars, kind>>

HandleRequest ==
    \/ Http \/ Upgrade \/ ReceiveForm
    \/ Run /\ UNCHANGED <<vars, upvars, kind>>
    \/ Saving /\ UNCHANGED <<vars, wsvars, kind>>

Peer ==
    \/ (Arrive \/ Drain) /\ UNCHANGED <<wsvars, upvars, kind>>
    \/ Client /\ UNCHANGED <<vars, upvars, kind>>

Ended == pc = "done" /\ wpc \in {"none", "done"} /\ UNCHANGED xvars

XNext ==
    \/ Peer \/ HandleRequest \/ Ended
    \/ Elsewhere /\ UNCHANGED <<vars, wsvars, kind>>

\* The worker's thread runs.  Clients and other workers owe nothing.
XSpec == XInit /\ [][XNext]_xvars /\ WF_xvars(HandleRequest)
=============================================================================
