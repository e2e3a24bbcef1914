------------------------------- MODULE Loads -------------------------------
(***************************************************************************)
(* A handler that puts its page together from files of the shared cache    *)
(* (Cache), while other handlers use the cache and other programs edit the *)
(* files: what Response::render and TemplateEngine::render do with         *)
(* Cache::loadFile, whatever the files say.  Render adds the text: which   *)
(* file a template includes next, and what the page becomes.               *)
(***************************************************************************)
EXTENDS Cache

CONSTANT Main           \* the file that is rendered

ASSUME MainIsFile == Main \in Paths

VARIABLES
    rpc,        \* the handler: "parse", "begin", "load", "call", "render", and at
                \* the end "page", "threw" or "refused"
    want,       \* the file that render is about to load
    start,      \* history: the file system when rendering began
    loads       \* history: the files and versions that were rendered

lvars == <<rpc, want, start, loads>>

Now == [file |-> file, edits |-> edits]

LInit ==
    /\ Init /\ path = Main
    /\ rpc = "parse" /\ want = Main
    /\ start = Now /\ loads = {}

-----------------------------------------------------------------------------
\* The handler has the variables of its page, or an exception leaves it.
Prepare ==
    /\ rpc = "parse"
    /\ rpc' \in {"begin", "refused"}
    /\ UNCHANGED <<vars, want, start, loads>>

\* Response::render: the engine on the shared cache.
Begin ==
    /\ rpc = "begin"
    /\ rpc' = "load"
    /\ start' = Now
    /\ UNCHANGED <<vars, want, loads>>

\* loadFile returns the file's text.
Loaded(stamp) ==
    /\ loads' = loads \cup {<<want, stamp>>}
    /\ rpc' = "render"
    /\ UNCHANGED <<want, start>>

LoadHit == rpc = "load" /\ Hit(want) /\ Loaded(content[want])

LoadMiss ==
    /\ rpc = "load" /\ Miss(want)
    /\ rpc' = "call"
    /\ UNCHANGED <<want, start, loads>>

LoadThrows ==
    /\ rpc = "load" /\ Throw(want)
    /\ rpc' = "threw"
    /\ UNCHANGED <<want, start, loads>>

LoadReturns == rpc = "call" /\ Store /\ Loaded(got)

\* The text includes a file.
Include(p) ==
    /\ rpc = "render"
    /\ rpc' = "load" /\ want' = p
    /\ UNCHANGED <<vars, start, loads>>

\* The page is complete, or an exception leaves renderString.
Leave ==
    /\ rpc = "render"
    /\ rpc' \in {"page", "threw"}
    /\ UNCHANGED <<vars, want, start, loads>>

\* Other handlers' calls of the cache, and other programs.
Others ==
    /\ \/ \E p \in Paths : Edit(p) \/ Delete(p) \/ Hit(p) \/ Miss(p)
       \/ ReadFile \/ Clear
       \/ rpc # "call" /\ Store
    /\ UNCHANGED lvars

LNext ==
    \/ Prepare \/ Begin \/ LoadHit \/ LoadMiss \/ LoadThrows \/ LoadReturns
    \/ \E p \in Paths : Include(p)
    \/ Leave \/ Others

LSpec == LInit /\ [][LNext]_<<vars, lvars>>

-----------------------------------------------------------------------------
\* A page is made of files as they are: no file is rendered in a version that
\* had been replaced or deleted before rendering began, whatever the cache
\* held and however edits and evictions fall between the loads.
LoadsAreCurrent ==
    \A l \in loads :
        \/ l[2] = start.file[l[1]] \/ l[2] > start.edits       \* then, or since
        \/ l[2] = 0 /\ edits > start.edits                     \* deleted since

-----------------------------------------------------------------------------
\* What the cache promises the handler: there might as well be none.  The call
\* of loadFile has read its file once ReadFile is done.
NoCache == INSTANCE Disk
    WITH fetched <- IF rpc = "call" /\ pc = "store" THEN {got} ELSE {}
=============================================================================
