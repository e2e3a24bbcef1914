------------------------------- MODULE Upload -------------------------------
(***************************************************************************)
(* A multipart form on its way to the disk: Request::parse runs the        *)
(* parser (Multipart), and the handler stores the files of the form with   *)
(* saveFile (FileSaver), as the documentation's example does.              *)
(*                                                                         *)
(* A Part's data is a string_view into the copy of the body that           *)
(* Request::parse made.  The copy belongs to the parser, which is gone     *)
(* when parse returns: the handler reads freed memory, which may hold the  *)
(* bytes still or others.                                                  *)
(*                                                                         *)
(* Meanwhile handlers of other requests store files in the same directory. *)
(***************************************************************************)
EXTENDS FileSaver, Multipart

CONSTANTS
    Handler,    \* the worker of this request
    Theirs,     \* the uploads of other requests
    Forms,      \* what clients upload: sequences of uploads, "field" and "blank"
    Pads        \* tokens around the bytes of a file

ASSUME HandlerIsThread == Handler \in Threads
ASSUME TheirsAreUploads == Theirs \subseteq Uploads

VARIABLES
    form,       \* the parts the client sends
    nameFirst,  \* in which order their attributes are
    boundary,   \* "last" in its Content-Type, or "followed" by other parameters
    parts,      \* getParts(): data is a view into the copy of the body
    form_data,
    body,       \* the copy of the body: "none", "alive", "freed"
    todo,       \* parts the handler has not looked at, as they were parsed
    overwritten \* history: uploads stored from memory that held other bytes

sentform == <<form, nameFirst, boundary>>
formvars == <<sentform, parts, form_data>>
upvars == <<fsvars, formvars, body, todo, overwritten>>

\* The part that an item of a form stands for.
PartOf(item, names, pad) ==
    IF item \in Uploads
    THEN [name |-> "file", filename |-> names[item], content_type |-> "text",
          data |-> pad \o <<<<"data", item>>>> \o pad]
    ELSE IF item = "field"
    THEN [name |-> "field", filename |-> NoFile, content_type |-> "text", data |-> pad]
    ELSE [name |-> "file", filename |-> CHOOSE n \in Names : TRUE, content_type |-> "text", data |-> <<>>]

FormOf(items, names, pad) == [i \in DOMAIN items |-> PartOf(items[i], names, pad)]

AllForms == {FormOf(items, names, pad) : items \in Forms, names \in [Uploads -> Names], pad \in Pads}
Boundaries == {"last", "followed"}

\* What Request::parse makes of each form.
Parsed ==
    {<<f, first, b, parse(Body(f, first), b)>> : f \in AllForms, first \in BOOLEAN, b \in Boundaries}

NotParsed == parts = <<>> /\ form_data = {} /\ body = "none" /\ todo = <<>> /\ overwritten = {}

\* No form; or a client's form, and a directory as other programs left it.
NoForm == form = <<>> /\ nameFirst = TRUE /\ boundary = "last" /\ NotParsed /\ FsInit
AForm ==
    /\ FsStart
    /\ \E items \in Forms, pad \in Pads : form = FormOf(items, name, pad)
    /\ nameFirst \in BOOLEAN /\ boundary \in Boundaries
    /\ NotParsed

-----------------------------------------------------------------------------
\* Request::parse of the form.
ParseForm ==
    /\ \E p \in Parsed : <<p[1], p[2], p[3]>> = sentform /\ parts' = p[4]
    /\ form_data' = formData(parts')
    /\ body' = "alive" /\ todo' = parts'
    /\ UNCHANGED <<fsvars, sentform, overwritten>>

\* Parts whose data point to freed memory; the other members are std::strings.
Dangling == <<<<"freed", "">>>>
Dangle(ps) == [i \in DOMAIN ps |-> [ps[i] EXCEPT !.data = Dangling]]

\* The parser goes out of scope, and the copy of the body with it.
ParseReturns ==
    /\ body = "alive"
    /\ body' = "freed" /\ parts' = Dangle(parts)
    /\ UNCHANGED <<fsvars, sentform, form_data, todo, overwritten>>

\* The upload whose bytes a part holds.
UploadOf(part) == part.data[FirstOf(part.data, {"data"})][2]

\* The handler's loop: files go to saveFile, whose result is not looked at.
NextPart ==
    /\ body = "freed" /\ spc[Handler] = "idle" /\ todo # <<>>
    /\ IF Head(todo).filename = NoFile THEN UNCHANGED fsvars
       ELSE \E u \in Uploads : u = UploadOf(Head(todo)) /\ Begin(Handler, u)
    /\ todo' = Tail(todo)
    /\ UNCHANGED <<formvars, body, overwritten>>

\* A step of saveFile; its write reads the freed copy.  An exception ends the
\* handler.
Save(t) ==
    /\ Step(t)
    /\ overwritten' \in IF spc[t] = "write" THEN {overwritten, overwritten \cup {upload[t]}} ELSE {overwritten}
    /\ todo' = IF t = Handler /\ result'[upload[t]] = "threw" THEN <<>> ELSE todo
    /\ UNCHANGED <<formvars, body>>

Saving == ParseReturns \/ NextPart \/ Save(Handler)

\* The handlers of other requests.  (What they do before this handler looks at
\* its parts they may as well do then.)
Elsewhere ==
    /\ body = "freed"
    /\ \E t \in Threads \ {Handler} :
          \/ Save(t)
          \/ \E u \in Theirs : Begin(t, u) /\ UNCHANGED <<formvars, body, todo, overwritten>>

\* The handler has returned (or was never called).
Saved == body # "alive" /\ todo = <<>> /\ spc[Handler] = "idle"

-----------------------------------------------------------------------------
(* Properties. *)

\* What of a part is expected to arrive: it, unless it is a file without data.
Wanted(part) == IF part.filename = NoFile \/ part.data # <<>> THEN <<part>> ELSE <<>>

\* The parser recovers the parts that the client sent, with their names and
\* their data, byte for byte, whatever line breaks and dashes the data holds and
\* in whatever order the attributes are, except files without data.  The handler
\* gets their names and the fields' values; the parts' data are gone by then, of
\* fields and of files (see StoredAsSent).  (If parameters follow the boundary,
\* there is no part.)
PartsRecovered ==
    boundary # "followed" /\ body # "none" =>
        LET kept == FlattenSeq([i \in DOMAIN form |-> Wanted(form[i])])
        IN  /\ parts = IF body = "alive" THEN kept ELSE Dangle(kept)
            /\ form_data = formData(kept)

\* "File Upload: File storage": a file that saveFile reported as stored holds
\* the bytes that the client sent.
StoredAsSent == \A u \in Uploads : result[u] = "true" => u \notin overwritten
=============================================================================
