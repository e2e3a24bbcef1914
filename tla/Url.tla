-------------------------------- MODULE Url --------------------------------
(***************************************************************************)
(* URL encoding, decoding and normalisation (src/util/url.cpp) and what    *)
(* Request::parse makes of a request's path (src/core/request.cpp).        *)
(*                                                                         *)
(* A text is a sequence of bytes.  The functions are pure, and the hazards *)
(* are at the ends of texts and where one function's output is another's   *)
(* input, so they are modelled byte by byte.                               *)
(***************************************************************************)
EXTENDS Integers, Sequences, SequencesExt, FiniteSets

Nul == 0
Space == 32
Percent == 37
Ampersand == 38
Plus == 43
Dot == 46
Slash == 47
Equals == 61

IsDigit(c) == c \in 48..57
IsAlnum(c) == IsDigit(c) \/ c \in 65..90 \/ c \in 97..122
IsXDigit(c) == IsDigit(c) \/ c \in 65..70 \/ c \in 97..102
IsSpace(c) == c = Space \/ c \in 9..13

\* The value of a hexadecimal digit, and the digit (upper case) of a value.
HexValue(c) == IF IsDigit(c) THEN c - 48 ELSE IF c <= 70 THEN c - 55 ELSE c - 87
HexDigit(v) == IF v < 10 THEN v + 48 ELSE v + 55

Unreserved(c) == IsAlnum(c) \/ c \in {45, 95, Dot, 126}    \* - _ . ~

Escaped(c) == <<Percent, HexDigit(c \div 16), HexDigit(c % 16)>>

urlEncode(str) ==
    FlattenSeq([i \in DOMAIN str |-> IF Unreserved(str[i]) THEN <<str[i]>> ELSE Escaped(str[i])])

Throws == -1

\* std::stoi of two characters in base 16, cast to char: it skips white space,
\* takes a sign, and stops at the first character that is no digit.
Stoi(c, d) ==
    CASE IsXDigit(c) /\ IsXDigit(d) -> 16 * HexValue(c) + HexValue(d)
      [] IsXDigit(c) /\ ~IsXDigit(d) -> HexValue(c)
      [] (IsSpace(c) \/ c = Plus) /\ IsXDigit(d) -> HexValue(d)
      [] c = 45 /\ IsXDigit(d) -> (256 - HexValue(d)) % 256
      [] OTHER -> Throws

PastEnd(str, i) == i + 2 < Len(str)      \* mutant
HasTwoMore(str, i) == i + 2 <= Len(str)

\* The loop at index i: the byte it appends, and the index it goes on at.
IsEscape(str, i) ==
    str[i] = Percent /\ HasTwoMore(str, i) /\ Stoi(str[i + 1], str[i + 2]) # Throws

Decoded(str, i) ==
    IF IsEscape(str, i) THEN Stoi(str[i + 1], str[i + 2])
    ELSE IF str[i] = Plus THEN Space ELSE str[i]

Following(str, i) == IF IsEscape(str, i) THEN i + 3 ELSE i + 1

urlDecode(str) ==
    LET from[i \in 1..(Len(str) + 1)] ==
            IF i > Len(str) THEN <<>> ELSE <<Decoded(str, i)>> \o from[Following(str, i)]
    IN  from[1]

isDoubleEncoded(str) ==
    \/ Contains(str, Nul)
    \/ \E i \in DOMAIN str :
          /\ str[i] = Percent /\ i + 2 <= Len(str)
          /\ IsXDigit(str[i + 1]) /\ IsXDigit(str[i + 2])

-----------------------------------------------------------------------------
\* std::getline up to `sep', over and over: the pieces of a text between its
\* separators.  A byte ends the piece that is being read or makes it longer.
NextPieces(pieces, c, sep) ==
    IF c = sep THEN Append(pieces, <<>>) ELSE Append(Front(pieces), Append(Last(pieces), c))

Split(str, sep) ==
    LET pieces[n \in 0..Len(str)] ==
            IF n = 0 THEN <<<<>>>> ELSE NextPieces(pieces[n - 1], str[n], sep)
    IN  pieces[Len(str)]

IsUp(token) == token = <<Dot, Dot>>
Skipped(token) == token = <<>> \/ token = <<Dot>>

Popped(seg) == IF seg = <<>> THEN <<>> ELSE Front(seg)

\* The vector `seg' after one more token.
NextSeg(seg, token) ==
    IF Skipped(token) THEN seg ELSE IF IsUp(token) THEN Popped(seg) ELSE Append(seg, token)

Join(seg) ==
    IF seg = <<>> THEN <<Slash>> ELSE FlattenSeq([i \in DOMAIN seg |-> <<Slash>> \o seg[i]])

\* The vector after the loop over the tokens.
Segments(tokens) ==
    LET seg[n \in 0..Len(tokens)] == IF n = 0 THEN <<>> ELSE NextSeg(seg[n - 1], tokens[n])
    IN  seg[Len(tokens)]

normalizePath(str) == Join(Segments(Split(str, Slash)))

\* Up to the first `sep'; the whole text if there is none.
Before(str, sep) == Head(Split(str, sep))
\* What follows the first `sep'; empty if there is none.
After(str, sep) == SubSeq(str, Len(Before(str, sep)) + 2, Len(str))

\* The map as a set of <<key, value>>: later tokens replace earlier ones.
\* The loop ends with the text, so an empty last token is not seen.
parseQuery(query) ==
    LET all == Split(query, Ampersand)
        tokens == IF Last(all) = <<>> THEN Front(all) ELSE all
        key(i) == urlDecode(Before(tokens[i], Equals))
    IN  {<<key(i), urlDecode(After(tokens[i], Equals))>> :
            i \in {j \in DOMAIN tokens : \A k \in DOMAIN tokens : k > j => key(k) # key(j)}}

-----------------------------------------------------------------------------
(* Request::parse: the path of a request, before '?'. *)

RejectsPath(raw) == isDoubleEncoded(urlDecode(raw))

DecodeLast(raw) == urlDecode(normalizePath(raw))     \* mutant
ParsedPath(raw) == normalizePath(urlDecode(raw))
=============================================================================
