----------------------------- MODULE Multipart -----------------------------
(***************************************************************************)
(* MultipartParser (src/util/multipart_parser.cpp) and the bodies that     *)
(* clients make for it.                                                    *)
(*                                                                         *)
(* A body is a sequence of tokens <<kind, value>>: the delimiter           *)
(* ("--" + boundary), a line break, two dashes, an attribute name="..",    *)
(* filename="..", the header Content-Type, or data.  A line break and two  *)
(* dashes are both two bytes long, which is what the parser skips after a  *)
(* delimiter and drops before one.  The boundary occurs nowhere else in a  *)
(* body; that is the client's choice.                                      *)
(***************************************************************************)
EXTENDS Naturals, Sequences, SequencesExt

B == <<"delimiter", "">>
NL == <<"newline", "">>
Dashes == <<"dashes", "">>

NoFile == ""        \* the filename of a part that is no file

-----------------------------------------------------------------------------
(* The client. *)

\* The attributes of a part, the name first or last.
Attributes(part, first) ==
    LET n == <<"name", part.name>>
        f == <<"filename", part.filename>>
    IN  IF part.filename = NoFile THEN <<n>> ELSE IF first THEN <<n, f>> ELSE <<f, n>>

PartText(part, first) ==
    <<B, NL>> \o Attributes(part, first) \o <<NL, <<"type", part.content_type>>, NL, NL>>
        \o part.data \o <<NL>>

Body(ps, first) ==
    FlattenSeq([i \in DOMAIN ps |-> PartText(ps[i], first)]) \o <<B, Dashes, NL>>

-----------------------------------------------------------------------------
(* The parser. *)

\* extractBoundary takes everything after "boundary=" if it does not begin with
\* a quote: parameters that follow become part of the boundary.
Delimiters(text, b) == IF b = "followed" THEN {} ELSE {i \in DOMAIN text : text[i] = B}

\* Where a header has one of the attributes first; 0 if nowhere.
FirstOf(header, attributes) ==
    LET at == {i \in DOMAIN header : header[i][1] \in attributes}
    IN  IF at = {} THEN 0 ELSE CHOOSE i \in at : \A j \in at : i <= j

\* find("name=\"") also finds the end of filename=": then the next one is taken.
NameAt(header) == FirstOf(header, {"name"})

\* parsePart: the part, or nothing if it has no blank line or no name, or is a
\* file without data.
parsePart(chunk) ==
    LET blank == {i \in 1..(Len(chunk) - 1) : chunk[i] = NL /\ chunk[i + 1] = NL}
        sep == CHOOSE i \in blank : \A j \in blank : i <= j
        header == SubSeq(chunk, 1, sep - 1)
        valueAt(i, none) == IF i = 0 THEN none ELSE header[i][2]
        part == [name |-> valueAt(NameAt(header), ""),
                 filename |-> valueAt(FirstOf(header, {"filename"}), NoFile),
                 content_type |-> valueAt(FirstOf(header, {"type"}), ""),
                 data |-> SubSeq(chunk, sep + 2, Len(chunk))]
    IN  IF blank = {} THEN <<>>
        ELSE IF NameAt(header) = 0 \/ (part.filename # NoFile /\ part.data = <<>>) THEN <<>>
        ELSE <<part>>

UpToDelimiter(next) == next - 1          \* mutant
EndBefore(next) == next - 2

\* The search goes on behind each delimiter; what is between it and the next
\* one is a part.
NextDelimiter(ds, i) == CHOOSE j \in ds : j > i /\ \A k \in ds : k > i => j <= k

PartBehind(text, ds, i) ==
    IF i \in ds /\ \E j \in ds : j > i
    THEN parsePart(SubSeq(text, i + 2, EndBefore(NextDelimiter(ds, i))))
    ELSE <<>>

parse(text, b) == FlattenSeq([i \in DOMAIN text |-> PartBehind(text, Delimiters(text, b), i)])

\* Request::parse: form_data, in which a later part replaces an earlier one.
formData(ps) ==
    LET fields == SelectSeq(ps, LAMBDA p : p.filename = NoFile)
    IN  {<<fields[i].name, fields[i].data>> :
            i \in {j \in DOMAIN fields : \A k \in DOMAIN fields : k > j => fields[k].name # fields[j].name}}
=============================================================================
