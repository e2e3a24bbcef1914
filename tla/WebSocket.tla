----------------------------- MODULE WebSocket -----------------------------
(***************************************************************************)
(* WebSocket::run, readFrame and sendFrame (src/net/websocket.cpp) on a    *)
(* plain, non-blocking connection.                                         *)
(*                                                                         *)
(* A frame on the wire is a row of fields: header, extended length, mask   *)
(* and payload, each present or not.  What matters of a field is whether a *)
(* read finds nothing, a part or all of it, so a field counts two units    *)
(* and the network delivers units.  Lengths are real.  A short read is not *)
(* noticed by the code: bytes that were never written are used, and every  *)
(* later field is taken for another one.  From there on (~insync) the      *)
(* model allows whatever a frame could do.                                 *)
(***************************************************************************)
EXTENDS Naturals, Sequences

CONSTANTS
    Frames,     \* what clients send: [op, len, masked]
    MaxFrames   \* frames per connection (a bound)

ASSUME LengthsNat == \A f \in Frames : f.len \in Nat

VARIABLES
    sent,       \* frames the client has sent, each with the unit where it ends
    came,       \* units that have arrived
    took,       \* units read
    aligned,    \* history: every delivery so far ended at the end of a frame
    fin,        \* the client has closed its end, after its frames
    wpc,        \* where the worker is
    insync,     \* no read was short so far
    messages,   \* frames passed to on_message, by number; 0 for garbage
    replies     \* frames sent: [to, op, head], `to' the number of the frame that is answered

stream == <<sent, came, aligned, fin>>
wsvars == <<stream, took, wpc, insync, messages, replies>>

WsInit ==
    /\ sent = <<>> /\ came = 0 /\ took = 0 /\ aligned = TRUE /\ fin = FALSE
    /\ wpc = "none" /\ insync = TRUE
    /\ messages = <<>> /\ replies = <<>>

-----------------------------------------------------------------------------
(* Frames. *)

MaxPayload == 16 * 1024 * 1024

\* RFC 6455: the 7-bit length and the extended length (0 if there is none).
RfcHeader(n) ==
    CASE n <= 125 -> [len7 |-> n, ext |-> 0]
      [] 126 <= n /\ n <= 65535 -> [len7 |-> 126, ext |-> n]
      [] OTHER -> [len7 |-> 127, ext |-> n]

SmallUpTo126(n) == n <= 126              \* mutant
IsSmall(n) == n <= 125

\* The header that sendFrame writes for n bytes.
SentHeader(n) ==
    CASE IsSmall(n) -> [len7 |-> n, ext |-> 0]
      [] ~IsSmall(n) /\ n <= 65535 -> [len7 |-> 126, ext |-> n]
      [] OTHER -> [len7 |-> 127, ext |-> n]

HasExt(f) == RfcHeader(f.len).len7 \in {126, 127}
\* The payload_len that readFrame computes.
PayloadLen(f) == IF HasExt(f) THEN RfcHeader(f.len).ext ELSE RfcHeader(f.len).len7

Units(f) ==
    2 + (IF HasExt(f) THEN 2 ELSE 0) + (IF f.masked THEN 2 ELSE 0) + (IF f.len > 0 THEN 2 ELSE 0)

\* Where the i-th frame ends in the stream.
EndOf(i) == IF i = 0 THEN 0 ELSE sent[i].end

-----------------------------------------------------------------------------
(* The client and the network. *)

ClientSends(f) ==
    /\ wpc # "none" /\ ~fin /\ Len(sent) < MaxFrames
    /\ sent' = Append(sent, [op |-> f.op, len |-> f.len, masked |-> f.masked, end |-> EndOf(Len(sent)) + Units(f)])
    /\ UNCHANGED <<came, aligned, fin, took, wpc, insync, messages, replies>>

Deliver(n) ==
    /\ came + n <= EndOf(Len(sent))
    /\ came' = came + n
    /\ aligned' = (aligned /\ \E i \in DOMAIN sent : EndOf(i) = came')
    /\ UNCHANGED <<sent, fin, took, wpc, insync, messages, replies>>

ClientCloses ==
    /\ wpc # "none" /\ ~fin /\ came = EndOf(Len(sent))
    /\ fin' = TRUE
    /\ UNCHANGED <<sent, came, aligned, took, wpc, insync, messages, replies>>

Client == (\E f \in Frames : ClientSends(f)) \/ (\E n \in 1..8 : Deliver(n)) \/ ClientCloses

-----------------------------------------------------------------------------
(* The worker. *)

Avail == came - took
Current == sent[Len(messages) + 1]

\* epoll_create, epoll_ctl and on_open; if one of the two fails, run returns.
RunOpen ==
    /\ wpc = "open"
    /\ wpc' \in {"wait", "done"}
    /\ UNCHANGED <<stream, took, insync, messages, replies>>

WakeOnHangup == fin                      \* mutant
Wakes == Avail > 0 \/ fin

EpollWait ==
    /\ wpc = "wait" /\ Wakes
    /\ wpc' = IF insync THEN "head" ELSE "lost"
    /\ UNCHANGED <<stream, took, insync, messages, replies>>

\* One conn->read of a field: nothing (the frame is "" and the loop ends), a
\* part of it, or all of it.
ReadField(here, next) ==
    /\ wpc = here
    /\ \/ Avail = 0 /\ wpc' = "close" /\ UNCHANGED <<took, insync>>
       \/ Avail = 1 /\ wpc' = "garbled" /\ took' = took + 1 /\ insync' = FALSE
       \/ Avail >= 2 /\ wpc' = next /\ took' = took + 2 /\ UNCHANGED insync
    /\ UNCHANGED <<stream, messages, replies>>

AfterLength == IF Current.masked THEN "mask" ELSE "payload"

ReadHead == ReadField("head", IF HasExt(Current) THEN "ext" ELSE "limit")
ReadExt == ReadField("ext", "limit")
ReadMask == ReadField("mask", "payload")

NoLimit == FALSE                         \* mutant
TooLong == PayloadLen(Current) > MaxPayload

CheckLimit ==
    /\ wpc = "limit"
    /\ wpc' = IF TooLong THEN "close" ELSE AfterLength
    /\ UNCHANGED <<stream, took, insync, messages, replies>>

\* A read of 0 bytes returns 0: a frame without payload ends the loop.
ReadPayload ==
    /\ wpc = "payload"
    /\ IF PayloadLen(Current) > 0 THEN ReadField("payload", "opcode")
       ELSE wpc' = "close" /\ UNCHANGED <<stream, took, insync, messages, replies>>

ReplyFrame(op, n) == Append(replies, [to |-> Len(messages) + 1, op |-> op, head |-> SentHeader(n)])

\* Close is answered and ends the loop; ping is answered, and then passed to
\* on_message as every other frame is.
HandleOpcode ==
    /\ wpc = "opcode"
    /\ \/ /\ Current.op = "close"
          /\ replies' = ReplyFrame("close", 0)
          /\ wpc' = "close"
          /\ UNCHANGED messages
       \/ /\ Current.op # "close"
          /\ replies' = IF Current.op = "ping" THEN ReplyFrame("pong", PayloadLen(Current)) ELSE replies
          /\ messages' = Append(messages, Len(messages) + 1)
          /\ wpc' = "wait"
    /\ UNCHANGED <<stream, took, insync>>

\* Out of step, the next bytes are taken for a header.
ReadLost ==
    /\ wpc = "lost"
    /\ took' = IF Avail = 0 THEN took ELSE took + 1
    /\ wpc' = IF Avail = 0 THEN "close" ELSE "garbled"
    /\ UNCHANGED <<stream, insync, messages, replies>>

\* The rest of readFrame on bytes of the wrong fields: any of its outcomes.
Garbled ==
    /\ wpc = "garbled"
    /\ took' \in took..came
    /\ \/ wpc' = "close" /\ UNCHANGED messages
       \/ wpc' = "wait" /\ messages' = Append(messages, 0)
    /\ UNCHANGED <<stream, insync, replies>>

\* on_close; handleRequest then erases the connection.
RunClose ==
    /\ wpc = "close"
    /\ wpc' = "done"
    /\ UNCHANGED <<stream, took, insync, messages, replies>>

Run ==
    \/ RunOpen \/ EpollWait \/ ReadHead \/ ReadExt \/ CheckLimit \/ ReadMask
    \/ ReadPayload \/ HandleOpcode \/ ReadLost \/ Garbled \/ RunClose

-----------------------------------------------------------------------------
(* Properties. *)

\* While no read has been short, on_message gets the client's frames, each
\* once and in order; every ping of them, and nothing else, has been answered
\* by a pong, in the same order and with the header that RFC 6455 asks for.
FramesInOrder ==
    insync =>
        /\ messages = [i \in 1..Len(messages) |-> i]
        /\ \A i, j \in DOMAIN replies : i < j => replies[i].to < replies[j].to
        /\ \A i \in DOMAIN replies : replies[i].op = "pong" =>
              LET n == replies[i].to
              IN  n \in DOMAIN messages /\ sent[n].op = "ping" /\ replies[i].head = RfcHeader(sent[n].len)
        /\ \A n \in DOMAIN messages : sent[n].op = "ping" =>
              \E i \in DOMAIN replies : replies[i].to = n /\ replies[i].op = "pong"

EndsLoop(f) == f.op = "close" \/ f.len = 0 \/ f.len > MaxPayload

\* If frames arrive whole, no read is ever short, and the connection ends only
\* when the client has closed it, or after a frame that is a close frame, is
\* empty, or is longer than 16 MiB; that frame is not passed to on_message.
WholeFramesAreServed ==
    aligned =>
        /\ insync
        /\ \A i \in DOMAIN messages : ~EndsLoop(sent[i])
        /\ wpc = "close" => IF Len(messages) = Len(sent) THEN fin ELSE EndsLoop(Current)

\* The loop sleeps over nothing: a frame that has arrived is read, although
\* several may wait behind one readiness event, unless the loop has ended or
\* lost its step before; and a client that leaves gives the worker back to the
\* pool.
NothingSleptOver ==
    /\ \A i \in 1..MaxFrames :
          (i <= Len(sent) /\ came >= EndOf(i)) ~> (Len(messages) >= i \/ ~insync \/ wpc = "done")
    /\ fin ~> wpc = "done"
=============================================================================
