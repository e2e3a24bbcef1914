---------------------------- MODULE HttpExchange ----------------------------
(***************************************************************************)
(* One run of Server::handleRequest on one connection, seen as bytes:      *)
(* reading the request from a non-blocking socket, the size limits,        *)
(* Request::parse and Response::send.                                      *)
(*                                                                         *)
(* A request is a header block of hlen bytes (its blank line included) and *)
(* a body of blen bytes; only lengths matter, so `arrived' counts the      *)
(* bytes the client's side has delivered so far and `raw' those the worker *)
(* has read.  Sizes are scaled down; Buf stands for the 4096 bytes of one  *)
(* read, Slack for the 10 extra reads.  Whether its text is acceptable     *)
(* (start line, method, version, number of headers, boundary) is one bit.  *)
(* Error responses are short: they fit the kernel's buffer.                *)
(***************************************************************************)
EXTENDS Naturals

CONSTANTS
    HeaderLens, BodyLens, ResponseLens, \* the sizes that are tried
    Buf, Slack,
    MaxHeader, MaxBody, MaxUpload,      \* the limits of Config
    SockBuf         \* bytes the kernel buffers for a slow reader

ASSUME SizesNat ==
    /\ HeaderLens \subseteq Nat \ {0} /\ BodyLens \subseteq Nat
    /\ ResponseLens \subseteq Nat \ {0}
    /\ Buf \in Nat \ {0} /\ Slack \in Nat /\ SockBuf \in Nat
    /\ MaxHeader \in Nat /\ MaxBody \in Nat /\ MaxUpload \in Nat

VARIABLES
    hlen, blen,     \* the request
    wellformed,     \* nothing in its text makes Request::parse reject it
    cl,             \* how its Content-Length is written (Spellings)
    whole,          \* history: it had arrived before the worker began to read
    arrived,        \* bytes delivered to the socket
    raw,            \* bytes read by the worker
    reads,          \* reads of the body loop
    pc, verdict,
    rlen,           \* the response
    out,            \* bytes of it accepted by the kernel
    space           \* room in the kernel's send buffer

request == <<hlen, blen, wellformed, cl, whole>>
vars == <<request, arrived, raw, reads, pc, verdict, rlen, out, space>>

Total == hlen + blen
Least(a, b) == IF a <= b THEN a ELSE b

\* The length of the body in the header: "length" as handleRequest looks for it
\* ("Content-Length: n"); "tight" without the space, which only Request::parse
\* finds; "absent" for both, because there is none, its name is in lower case or
\* the body is chunked; "unparsable", no number.
Spellings == {"length", "tight", "absent", "unparsable"}

\* The worker runs because epoll has reported at least one byte.
Init ==
    /\ hlen \in HeaderLens /\ blen \in BodyLens
    /\ wellformed \in BOOLEAN
    /\ cl \in Spellings
    /\ arrived \in 1..Total /\ whole = (arrived = Total)
    /\ raw = 0 /\ reads = 0 /\ pc = "header" /\ verdict = "none"
    /\ rlen \in ResponseLens /\ out = 0 /\ space = SockBuf

-----------------------------------------------------------------------------
(* The client. *)

Arrive ==
    /\ arrived < Total
    /\ \E n \in 1..(Total - arrived) : arrived' = arrived + n
    /\ UNCHANGED <<request, raw, reads, pc, verdict, rlen, out, space>>

\* The client takes bytes of the response off the connection.
Drain ==
    /\ pc = "send" /\ space < SockBuf
    /\ space' = SockBuf
    /\ UNCHANGED <<request, arrived, raw, reads, pc, verdict, rlen, out>>

-----------------------------------------------------------------------------
(* The worker. *)

\* What one conn.read returns; 0 stands for `nothing now' (EAGAIN).
Readable == Least(Buf, arrived - raw)

NeverBreak(here, next) == here           \* mutant
BreakWhenEmpty(here, next) == next

\* The loop that looks for the blank line.
ReadHeader ==
    /\ pc = "header"
    /\ raw' = raw + Readable
    /\ pc' = IF Readable = 0 THEN BreakWhenEmpty("header", "limits")
             ELSE IF raw' >= hlen THEN "limits" ELSE "header"
    /\ UNCHANGED <<request, arrived, reads, verdict, rlen, out, space>>

content_length == IF cl = "length" THEN blen ELSE 0

MaxReads == content_length \div Buf + Slack

OverUpload == content_length > MaxUpload

Finish(v) == verdict' = v /\ pc' = "done"

\* The checks between header and body.
Limits ==
    /\ pc = "limits"
    /\ \/ raw < hlen /\ pc' = "parse" /\ UNCHANGED verdict
       \/ raw >= hlen /\ cl = "unparsable" /\ Finish("400")
       \/ raw >= hlen /\ cl # "unparsable" /\ OverUpload /\ Finish("413")
       \/ raw >= hlen /\ cl # "unparsable" /\ ~OverUpload /\ pc' = "body" /\ UNCHANGED verdict
    /\ UNCHANGED <<request, arrived, raw, reads, rlen, out, space>>

\* The loop that reads the body.
ReadBody ==
    /\ pc = "body"
    /\ \/ /\ raw - hlen >= content_length \/ Readable = 0
          /\ pc' = "parse"
          /\ UNCHANGED <<raw, reads>>
       \/ /\ raw - hlen < content_length /\ Readable > 0
          /\ raw' = raw + Readable
          /\ reads' = reads + 1
          /\ pc' = IF reads' > MaxReads THEN "parse" ELSE "body"
    /\ UNCHANGED <<request, arrived, verdict, rlen, out, space>>

LengthUnchecked == TRUE                  \* mutant
LengthMatches == cl \in {"length", "tight"} => raw - hlen = blen

StrictTotal == raw < MaxHeader + MaxBody    \* mutant
TotalWithin == raw <= MaxHeader + MaxBody

\* Request::parse accepts what is complete, within the limits, well-formed,
\* and has the length it declares.
Parses ==
    /\ TotalWithin
    /\ raw >= hlen
    /\ hlen <= MaxHeader + 4
    /\ raw - hlen <= MaxBody
    /\ wellformed
    /\ LengthMatches

\* An empty read ends the connection; a parse error is answered with 400.
Parse ==
    /\ pc = "parse"
    /\ \/ raw = 0 /\ Finish("closed")
       \/ raw > 0 /\ ~Parses /\ Finish("400")
       \/ raw > 0 /\ Parses /\ verdict' = "handled" /\ pc' = "send"
    /\ UNCHANGED <<request, arrived, raw, reads, rlen, out, space>>

Chunk == Least(space, rlen - out)

\* Response::send: write until everything is out or a write returns -1.
Send ==
    LET n == Chunk IN
    /\ pc = "send"
    /\ out' = out + n
    /\ space' = space - n
    /\ pc' = IF n = 0 \/ out' = rlen THEN "done" ELSE "send"
    /\ UNCHANGED <<request, arrived, raw, reads, verdict, rlen>>

-----------------------------------------------------------------------------
(* Properties. *)

WithinLimits ==
    /\ wellformed /\ hlen <= MaxHeader /\ blen <= MaxBody
    /\ cl \in {"length", "absent"} \/ (cl = "tight" /\ blen = 0)

\* A request within the limits that has arrived before the worker reads it is
\* handled: the read loops reach its end whatever its size is relative to the
\* buffer, and none of the checks is off by one.  (If it arrives in pieces, a
\* read that finds nothing ends it; header_timeout and body_timeout, which
\* would wait for the rest, are not used by the code.  And if the length of a
\* body is written without the space, the body is not waited for, and missed.)
WithinLimitsIsHandled ==
    pc \in {"send", "done"} /\ WithinLimits /\ whole => verdict = "handled"

\* Only well-formed requests within the limits reach the handlers, in whatever
\* pieces they arrive: an oversized one never does, nor one whose header is cut,
\* nor one whose body is cut if Request::parse knows the length of it.  (If not,
\* the handler gets what came with the header: see BodyIsWhole.)
HandledIsComplete ==
    verdict = "handled" =>
        /\ wellformed /\ raw >= hlen /\ hlen <= MaxHeader + 4 /\ raw - hlen <= MaxBody
        /\ cl # "absent" => raw = Total

\* "getBody(): Raw body": the handler gets the body that the client sent.  It
\* does not if the name Content-Length is not spelled as the code looks for it.
BodyIsWhole == verdict = "handled" => raw = Total

\* The worker gets done with the request, even if the client stops sending
\* or reading half-way: nothing in it waits for the client.
WorkerFinishes == <>(pc = "done")
=============================================================================
