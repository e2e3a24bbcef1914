-------------------------------- MODULE Json --------------------------------
(***************************************************************************)
(* parse, stringify and toText of src/util/json.cpp.                       *)
(*                                                                         *)
(* A JsonValue is a pair of its alternative and its contents:              *)
(* <<"null">>, <<"bool", b>>, <<"int", n>>, <<"string", characters>>,      *)
(* <<"array", values>>, <<"object", function from keys>>.  A text is a     *)
(* sequence of characters; three of the eight escaped characters stand for *)
(* all.  Doubles (whose text has six decimals and need not read back),     *)
(* blanks and \u escapes are left out.  A parser returns the value and the *)
(* index it has reached (1 is the first character), or Refused.            *)
(***************************************************************************)
EXTENDS Integers, Sequences, SequencesExt, FiniteSetsExt

CONSTANTS
    MaxDepth,   \* 64
    KeyOrder    \* the keys, as std::map sorts them

Quote == "Q"           \* the double quote
Backslash == "B"
Newline == "NL"

Escapes == [x \in {Quote, Backslash, Newline} |-> IF x = Newline THEN "n" ELSE x]

Digits == <<"0", "1", "2", "3", "4", "5", "6", "7", "8", "9">>

Null == <<"null">>
True == <<"t", "r", "u", "e">>
False == <<"f", "a", "l", "s", "e">>

-----------------------------------------------------------------------------
(* stringify *)

EscapeNothing(c) == <<c>>                \* mutant
EscapeChar(c) == IF c \in DOMAIN Escapes THEN <<Backslash, Escapes[c]>> ELSE <<c>>

escapeString(s) == <<Quote>> \o FlattenSeq([i \in DOMAIN s |-> EscapeChar(s[i])]) \o <<Quote>>

\* std::to_string, of one digit.
IntText(n) == IF n < 0 THEN <<"-", Digits[1 - n]>> ELSE <<Digits[n + 1]>>

\* Texts with a comma between them.
Commas(texts) ==
    FlattenSeq([i \in DOMAIN texts |-> IF i < Len(texts) THEN texts[i] \o <<",">> ELSE texts[i]])

RECURSIVE stringify(_)
stringify(val) ==
    CASE val[1] = "null" -> <<"n", "u", "l", "l">>
      [] val[1] = "bool" -> IF val[2] THEN True ELSE False
      [] val[1] = "int" -> IntText(val[2])
      [] val[1] = "string" -> escapeString(val[2])
      [] val[1] = "array" -> <<"[">> \o Commas([i \in DOMAIN val[2] |-> stringify(val[2][i])]) \o <<"]">>
      [] val[1] = "object" ->
            LET keys == SelectSeq(KeyOrder, LAMBDA k : k \in DOMAIN val[2])
            IN  <<"{">> \o Commas([i \in DOMAIN keys |-> escapeString(<<keys[i]>>) \o <<":">> \o stringify(val[2][keys[i]])])
                  \o <<"}">>

\* The text a template shows; containers have none.
toText(val) ==
    CASE val[1] = "string" -> val[2]
      [] val[1] \in {"bool", "int"} -> stringify(val)
      [] OTHER -> <<>>

-----------------------------------------------------------------------------
(* parse *)

Refused == [ok |-> FALSE]
Reached(val, i) == [ok |-> TRUE, val |-> val, i |-> i]

\* s[i]; behind the end there is a 0, and behind that anything, of which no
\* outcome depends.
At(s, i) == IF i \in DOMAIN s THEN s[i] ELSE "0x00"

SkipOver(s, i, c) == IF At(s, i) = c THEN i + 1 ELSE i

RECURSIVE StringFrom(_, _, _)
StringFrom(s, i, data) ==
    CASE i > Len(s) \/ At(s, i) = Quote -> Reached(<<"string", data>>, i + 1)
      [] At(s, i) = Backslash /\ \E c \in DOMAIN Escapes : Escapes[c] = At(s, i + 1) ->
            StringFrom(s, i + 2, Append(data, CHOOSE c \in DOMAIN Escapes : Escapes[c] = s[i + 1]))
      [] At(s, i) = Backslash -> Refused
      [] OTHER -> StringFrom(s, i + 1, Append(data, s[i]))

parseString(s, i) == StringFrom(s, i + 1, <<>>)

NumberChars == Range(Digits) \cup {"-"}
DigitValue(c) == CHOOSE n \in 0..9 : Digits[n + 1] = c

\* The longest row of digits and dashes, a dash only in front; stoll throws if
\* there is no digit, or if the number is out of range (here: two digits).
parseNumber(s, i) ==
    LET stop == Min({j \in i..(Len(s) + 1) : At(s, j) \notin NumberChars})
        data == SubSeq(s, i, stop - 1)
        digits == SelectSeq(data, LAMBDA c : c # "-")
        n == DigitValue(digits[1])
    IN  IF Len(digits) # 1 \/ Len(data) > 2 \/ data[Len(data)] = "-" THEN Refused
        ELSE Reached(<<"int", IF data[1] = "-" THEN 0 - n ELSE n>>, stop)

RECURSIVE parseValue(_, _, _), ArrayFrom(_, _, _, _), ObjectFrom(_, _, _, _)

ArrayFrom(s, i, depth, datas) ==
    IF i > Len(s) \/ At(s, i) = "]"
    THEN IF i > Len(s) THEN Refused ELSE Reached(<<"array", datas>>, i + 1)
    ELSE LET r == parseValue(s, i, depth + 1)
         IN  IF r.ok THEN ArrayFrom(s, SkipOver(s, r.i, ","), depth, Append(datas, r.val)) ELSE Refused

ObjectFrom(s, i, depth, datas) ==
    IF i > Len(s) \/ At(s, i) = "}"
    THEN IF i > Len(s) THEN Refused ELSE Reached(<<"object", datas>>, i + 1)
    ELSE LET key == parseString(s, i)
             r == parseValue(s, SkipOver(s, key.i, ":"), depth + 1)
         IN  IF At(s, i) # Quote \/ ~key.ok \/ ~r.ok THEN Refused
             ELSE LET k == key.val[2][1]
                  IN  ObjectFrom(s, SkipOver(s, r.i, ","), depth,
                                 [x \in DOMAIN datas \cup {k} |-> IF x = k THEN r.val ELSE datas[x]])

\* A literal is known by its first letter; the others are skipped unread.
parseValue(s, i, depth) ==
    IF depth > MaxDepth \/ i > Len(s) THEN Refused
    ELSE CASE s[i] = Quote -> parseString(s, i)
           [] s[i] \in NumberChars -> parseNumber(s, i)
           [] s[i] = "[" -> ArrayFrom(s, i + 1, depth, <<>>)
           [] s[i] = "{" -> ObjectFrom(s, i + 1, depth, [x \in {} |-> Null])
           [] s[i] = "t" -> Reached(<<"bool", TRUE>>, i + 4)
           [] s[i] = "f" -> Reached(<<"bool", FALSE>>, i + 5)
           [] s[i] = "n" -> Reached(Null, i + 4)
           [] OTHER -> Refused

parse(s) ==
    LET r == parseValue(s, 1, 0)
    IN  IF r.ok /\ r.i = Len(s) + 1 THEN r ELSE Refused
=============================================================================
