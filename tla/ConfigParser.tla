---------------------------- MODULE ConfigParser ----------------------------
(***************************************************************************)
(* loadConfig and parseSize (src/util/config_parser.cpp).                  *)
(*                                                                         *)
(* A line of the file is a key and the text after its `=', if it has one.  *)
(* A text is its leading number (if the library can convert one) and the   *)
(* word that follows.  Sizes are size_t, scaled: Kilo stands for 1024 and  *)
(* SizeMod for 2^64.  Loading gives a set: the one configuration, or       *)
(* nothing if std::stoi or std::stoul throws.                              *)
(***************************************************************************)
EXTENDS Integers, Sequences

CONSTANTS Kilo, SizeMod     \* 1024 and 2^64, scaled

ASSUME ScalePositive == Kilo \in Nat \ {0} /\ SizeMod \in Nat \ {0}

PortMod == 65536            \* port is a uint16_t

Word(w) == [number |-> FALSE, n |-> 0, word |-> w]
Size(k, unit) == [number |-> TRUE, n |-> k, word |-> unit]
Num(k) == Size(k, "")

Line(key, text) == [key |-> key, equals |-> TRUE, text |-> text]
Bare(key) == [key |-> key, equals |-> FALSE, text |-> Word(key)]
Comment == Bare("#")

\* Config's initial values (core/config.h).
Defaults ==
    [port |-> 8080, bind_addr |-> "0.0.0.0", use_tls |-> FALSE, cert_path |-> <<>>, key_path |-> <<>>,
     max_body_size |-> Kilo * Kilo, max_upload_size |-> 10 * Kilo * Kilo, max_header_size |-> 8 * Kilo,
     max_headers |-> 64, header_timeout_ms |-> 5000, body_timeout_ms |-> 10000,
     max_connections |-> 1024, max_cache_entries |-> 1024]

SmallUpload == Line("max_upload", Size(1, "MB"))          \* mutant
UploadLine == Line("max_upload", Size(10, "MB"))

\* The file that a first run writes.
Generated ==
    <<Comment, Line("port", Num(8080)), Line("bind", Word("0.0.0.0")), Line("tls", Word("off")),
      Line("cert", Word("cert.pem")), Line("key", Word("key.pem")),
      Line("max_body", Size(1, "MB")), UploadLine, Line("max_header", Size(8, "KB")),
      Line("max_headers", Num(64)), Line("header_timeout", Num(5000)), Line("body_timeout", Num(10000)),
      Line("max_connections", Num(1024)), Line("max_cache", Num(1024))>>

-----------------------------------------------------------------------------
\* std::stoi ignores what follows the number.
stoi(text) == IF text.number THEN {text.n} ELSE {}

\* An unknown unit is as good as none; products wrap.
parseSize(text) ==
    LET factor == CASE text.word = "KB" -> Kilo
                    [] text.word = "MB" -> Kilo * Kilo
                    [] text.word = "GB" -> Kilo * Kilo * Kilo
                    [] OTHER -> 1
    IN  IF text.number /\ text.n >= 0 THEN {(text.n * factor) % SizeMod} ELSE {}

\* The field that a key is for.
FieldOf ==
    [port |-> "port", bind |-> "bind_addr", tls |-> "use_tls", cert |-> "cert_path", key |-> "key_path",
     max_body |-> "max_body_size", max_upload |-> "max_upload_size", max_header |-> "max_header_size",
     max_headers |-> "max_headers", header_timeout |-> "header_timeout_ms", body_timeout |-> "body_timeout_ms",
     max_connections |-> "max_connections", max_cache |-> "max_cache_entries"]

\* What is stored in it.
Values(key, text) ==
    CASE key = "port" -> {n % PortMod : n \in stoi(text)}
      [] key = "bind" -> {text.word}
      [] key = "tls" -> {text.word = "on"}
      [] key \in {"cert", "key"} -> {<<"config", text.word>>}
      [] key \in {"max_body", "max_upload", "max_header"} -> parseSize(text)
      [] key = "max_cache" -> {n % SizeMod : n \in stoi(text)}
      [] OTHER -> stoi(text)

\* One round of the loop.  Without `=' both key and value are the whole line.
Assign(config, line) ==
    LET value == IF line.equals THEN line.text ELSE Word(line.key)
    IN  IF line.key \in DOMAIN FieldOf
        THEN {[config EXCEPT ![FieldOf[line.key]] = v] : v \in Values(line.key, value)}
        ELSE {config}

NextLine(configs, line) == UNION {Assign(c, line) : c \in configs}

ParseLines(lines) ==
    LET read[i \in 0..Len(lines)] == IF i = 0 THEN {Defaults} ELSE NextLine(read[i - 1], lines[i])
    IN  read[Len(lines)]
=============================================================================
