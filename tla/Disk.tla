-------------------------------- MODULE Disk --------------------------------
(***************************************************************************)
(* What a handler that renders files may rely on: each load reads its file *)
(* from the disk, as it is at one moment of the call.  There is no cache,  *)
(* and no other handler makes a difference.  Loads implements this.        *)
(***************************************************************************)
EXTENDS Naturals

CONSTANTS Paths, Main, MaxEdits

VARIABLES
    file, edits,                \* the files' stamps, and the last one given out
    rpc, want, start, loads,    \* the handler, as in Loads
    fetched                     \* what the load in progress has read, if anything

vars == <<file, edits, rpc, want, start, loads, fetched>>

Init ==
    /\ file \in [Paths -> {1}] /\ edits = 1
    /\ rpc = "parse" /\ want = Main
    /\ start = [file |-> file, edits |-> edits] /\ loads = {} /\ fetched = {}

\* Other programs.
Write(p) ==
    /\ edits <= MaxEdits
    /\ edits' = edits + 1
    /\ \E n \in {0, edits + 1} : file' = [file EXCEPT ![p] = n]
    /\ UNCHANGED <<rpc, want, start, loads, fetched>>

Prepare ==
    /\ rpc = "parse" /\ rpc' \in {"begin", "refused"}
    /\ UNCHANGED <<file, edits, want, start, loads, fetched>>

Begin ==
    /\ rpc = "begin" /\ rpc' = "load"
    /\ start' = [file |-> file, edits |-> edits]
    /\ UNCHANGED <<file, edits, want, loads, fetched>>

\* A load that reads at once, and one that takes its time.
ReadNow ==
    /\ rpc = "load" /\ file[want] # 0
    /\ rpc' = "render" /\ loads' = loads \cup {<<want, file[want]>>}
    /\ UNCHANGED <<file, edits, want, start, fetched>>

Call ==
    /\ rpc = "load" /\ file[want] # 0
    /\ rpc' = "call"
    /\ UNCHANGED <<file, edits, want, start, loads, fetched>>

Fetch ==
    /\ rpc = "call" /\ fetched = {}
    /\ fetched' = {file[want]}
    /\ UNCHANGED <<file, edits, rpc, want, start, loads>>

Return ==
    /\ rpc = "call" /\ fetched # {}
    /\ rpc' = "render" /\ loads' = loads \cup ({want} \X fetched) /\ fetched' = {}
    /\ UNCHANGED <<file, edits, want, start>>

\* There is no such file.
Throw ==
    /\ rpc = "load" /\ file[want] = 0
    /\ rpc' = "threw"
    /\ UNCHANGED <<file, edits, want, start, loads, fetched>>

Include(p) ==
    /\ rpc = "render" /\ rpc' = "load" /\ want' = p
    /\ UNCHANGED <<file, edits, start, loads, fetched>>

Leave ==
    /\ rpc = "render" /\ rpc' \in {"page", "threw"}
    /\ UNCHANGED <<file, edits, want, start, loads, fetched>>

Next ==
    \/ \E p \in Paths : Write(p) \/ Include(p)
    \/ Prepare \/ Begin \/ ReadNow \/ Call \/ Fetch \/ Return \/ Throw \/ Leave

Spec == Init /\ [][Next]_vars
=============================================================================
