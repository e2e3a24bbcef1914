--------------------------- MODULE Exchange_proof ---------------------------
(***************************************************************************)
(* Proofs about handleRequest: what is read and handed to the handlers,    *)
(* for all sizes of requests, buffers and limits, and what the parser      *)
(* makes of a form, for all parts and whatever bytes they hold.            *)
(***************************************************************************)
EXTENDS Exchange, SequenceTheorems, WellFoundedInduction, TLAPS

-----------------------------------------------------------------------------
(* Induction, and loops over sequences. *)

\* A set of natural numbers has a least element.
LEMMA LeastOf ==
    ASSUME NEW T, T \subseteq Nat, T # {}
    PROVE  \E n \in T : \A m \in T : n <= m
<1> DEFINE R == OpToRel(<, Nat)
<1>1. IsWellFoundedOn(R, Nat)
  BY NatLessThanWellFounded
<1> HIDE DEF R
<1>2. PICK n \in T : \A m \in T : ~(<<m, n>> \in R)
  BY <1>1, WFMin
<1>3. \A m \in T : ~(<<m, n>> \in {ss \in Nat \X Nat : ss[1] < ss[2]})
  BY <1>2 DEF R, OpToRel
<1>4. \A m \in T : ~(m < n)
  BY <1>3
<1> QED
  BY <1>4

\* Induction: a set that holds 0, and n + 1 with every n, holds all numbers.
LEMMA Induction ==
    ASSUME NEW S, 0 \in S, \A n \in Nat : n \in S => n + 1 \in S
    PROVE  Nat \subseteq S
<1> SUFFICES ASSUME Nat \ S # {} PROVE FALSE
  OBVIOUS
<1>1. PICK n \in Nat \ S : \A m \in Nat \ S : n <= m
  BY LeastOf
<1>2. n # 0
  OBVIOUS
<1>3. n - 1 \in Nat /\ n - 1 \notin Nat \ S
  BY <1>1, <1>2
<1> QED
  BY <1>3

\* g holds the states that f goes through from b on while it reads s.
Folds(g, S, b, f, s) ==
    /\ g \in [0..Len(s) -> S]
    /\ g[0] = b /\ \A n \in 1..Len(s) : g[n] = f[<<g[n - 1], s[n]>>]

\* There is a function that holds the states of a loop over a sequence.
LEMMA FoldExists ==
    ASSUME NEW S, NEW A, NEW b \in S, NEW f \in [S \X A -> S], NEW s \in Seq(A)
    PROVE  \E g : Folds(g, S, b, f, s)
<1> DEFINE Upto(k) == \E g \in [0..k -> S] :
                         g[0] = b /\ \A n \in 1..k : g[n] = f[<<g[n - 1], s[n]>>]
           T == {k \in Nat : k <= Len(s) => Upto(k)}
<1>0. Len(s) \in Nat /\ \A n \in 1..Len(s) : s[n] \in A
  BY LenProperties, ElementOfSeq
<1>1. 0 \in T
  <2> DEFINE g == [n \in 0..0 |-> b]
  <2>1. g \in [0..0 -> S] /\ g[0] = b /\ \A n \in 1..0 : g[n] = f[<<g[n - 1], s[n]>>]
    OBVIOUS
  <2>2. Upto(0)
    BY <2>1, Zenon
  <2> QED
    BY <2>2
<1>2. ASSUME NEW k \in Nat, k \in T PROVE k + 1 \in T
  <2> SUFFICES ASSUME k + 1 <= Len(s) PROVE Upto(k + 1)
    OBVIOUS
  <2>1. PICK g \in [0..k -> S] : g[0] = b /\ \A n \in 1..k : g[n] = f[<<g[n - 1], s[n]>>]
    BY <1>0, <1>2
  <2> DEFINE h == [n \in 0..(k + 1) |-> IF n = k + 1 THEN f[<<g[k], s[k + 1]>>] ELSE g[n]]
  <2>2. f[<<g[k], s[k + 1]>>] \in S
    BY <1>0
  <2>3. h \in [0..(k + 1) -> S]
    <3>1. \A n \in 0..(k + 1) : n # k + 1 => n \in 0..k
      OBVIOUS
    <3> QED
      BY <2>2, <3>1
  <2>4. h[0] = b
    BY <2>1
  <2>5. ASSUME NEW n \in 1..(k + 1) PROVE h[n] = f[<<h[n - 1], s[n]>>]
    <3>1. h[n - 1] = g[n - 1]
      OBVIOUS
    <3>2. CASE n = k + 1
      <4>1. h[n] = f[<<g[k], s[k + 1]>>] /\ n - 1 = k
        BY <3>2
      <4> HIDE DEF h
      <4> QED
        BY <3>1, <3>2, <4>1
    <3>3. CASE n # k + 1
      BY <2>1, <3>1, <3>3
    <3> QED
      BY <3>2, <3>3
  <2> QED
    BY <2>3, <2>4, <2>5
<1> HIDE DEF T
<1>3. Len(s) \in T
  BY <1>0, <1>1, <1>2, Induction
<1> QED
  BY <1>0, <1>3 DEF T, Folds

\* g and h start alike, and stay alike at each of N steps.
StayAlike(g, h, N) == g[0] = h[0] /\ \A n \in 1..N : g[n - 1] = h[n - 1] => g[n] = h[n]
Alike(g, h, N) == \A n \in 0..N : g[n] = h[n]

\* There is only one: what starts alike and stays alike is alike.
LEMMA FoldUnique ==
    ASSUME NEW N \in Nat, NEW g, NEW h, StayAlike(g, h, N)
    PROVE  Alike(g, h, N)
<1> USE DEF StayAlike, Alike
<1> DEFINE T == {k \in Nat : k <= N => g[k] = h[k]}
<1>1. 0 \in T
  OBVIOUS
<1>2. ASSUME NEW k \in Nat, k \in T PROVE k + 1 \in T
  BY <1>2
<1> HIDE DEF T
<1>3. Nat \subseteq T
  BY <1>1, <1>2, Induction
<1> QED
  BY <1>3 DEF T

\* Sequences that can be put together, and the states of putting them together.
Monoid(T) == <<>> \in T /\ (\A x, y \in T : x \o y \in T) /\ \A x \in T : <<>> \o x = x
Sums(g, T, ss) ==
    /\ g \in [0..Len(ss) -> T]
    /\ g[0] = <<>> /\ \A n \in 1..Len(ss) : g[n] = g[n - 1] \o ss[n]
    /\ FlattenSeq(ss) = g[Len(ss)]

\* FlattenSeq goes through its states from the empty sequence on.
LEMMA FlatSums ==
    ASSUME NEW T, Monoid(T), NEW ss \in Seq(T)
    PROVE  \E g : Sums(g, T, ss)
<1>b. /\ <<>> \in T /\ \A x, y \in T : x \o y \in T
      /\ \A x \in T : <<>> \o x = x
  BY DEF Monoid
<1> DEFINE f == [x \in T \X T |-> x[1] \o x[2]]
<1>0. Len(ss) \in Nat /\ \A n \in 1..Len(ss) : ss[n] \in T
  BY LenProperties, ElementOfSeq
<1>1. <<>> \in T
  BY <1>b
<1>2. f \in [T \X T -> T]
  BY <1>b
<1> HIDE DEF f
<1>3. PICK g \in [0..Len(ss) -> T] :
         g[0] = <<>> /\ \A n \in 1..Len(ss) : g[n] = f[<<g[n - 1], ss[n]>>]
  <2> DEFINE b == <<>>
  <2>1. b \in T
    BY <1>1
  <2> HIDE DEF b
  <2>2. \E g : Folds(g, T, b, f, ss)
    BY <1>2, <2>1, FoldExists
  <2> QED
    BY <2>2 DEF Folds, b
<1>4. ASSUME NEW n \in 1..Len(ss) PROVE g[n] = g[n - 1] \o ss[n]
  <2>1. g[n - 1] \in T /\ ss[n] \in T
    BY <1>0
  <2>2. f[<<g[n - 1], ss[n]>>] = g[n - 1] \o ss[n]
    BY <2>1 DEF f
  <2> QED
    BY <1>3, <2>2
<1>5. ASSUME Len(ss) = 0 PROVE \E h : Sums(h, T, ss)
  <2>1. ss = <<>>
    BY <1>5, EmptySeq
  <2>2. FlattenSeq(ss) = ss
    BY <1>5 DEF FlattenSeq
  <2> QED
    BY <1>3, <1>4, <1>5, <2>1, <2>2 DEF Sums
<1>6. ASSUME Len(ss) # 0 PROVE \E h : Sums(h, T, ss)
  <2> DEFINE Rec(h) == h = [i \in 1..Len(ss) |-> IF i = 1 THEN ss[i] ELSE h[i - 1] \o ss[i]]
             F == CHOOSE h : Rec(h)
             k == [i \in 1..Len(ss) |-> g[i]]
  <2>0. g[1] = ss[1]
    <3>1. g[1] = g[0] \o ss[1]
      <4>1. PICK m \in 1..Len(ss) : m = 1 /\ m - 1 = 0
        BY <1>0, <1>6
      <4>2. g[m] = g[m - 1] \o ss[m]
        BY <1>4
      <4> QED
        BY <4>1, <4>2
    <3> QED
      BY <1>0, <1>3, <1>6, <1>b, <3>1
  <2>1. Rec(k)
    <3>1. \A i \in 1..Len(ss) : k[i] = IF i = 1 THEN ss[i] ELSE k[i - 1] \o ss[i]
      BY <1>0, <1>4, <2>0
    <3> QED
      BY <3>1
  <2>2. Rec(F)
    <3> HIDE DEF Rec
    <3> QED
      BY <2>1
  <2>3. FlattenSeq(ss) = F[Len(ss)]
    BY <1>6 DEF FlattenSeq
  <2> HIDE DEF F
  <2>4. \A i \in 1..Len(ss) : F[i] = IF i = 1 THEN ss[i] ELSE F[i - 1] \o ss[i]
    BY <2>2
  <2> DEFINE G == [i \in 0..Len(ss) |-> IF i = 0 THEN <<>> ELSE F[i]]
  <2>5. StayAlike(G, g, Len(ss))
    <3>1. ASSUME NEW n \in 1..Len(ss), G[n - 1] = g[n - 1] PROVE G[n] = g[n]
      <4>1. CASE n = 1
        BY <1>0, <2>0, <2>4, <4>1
      <4>2. CASE n # 1
        <5>1. G[n] = F[n] /\ G[n - 1] = F[n - 1]
          BY <1>0, <4>2
        <5>2. F[n] = F[n - 1] \o ss[n]
          BY <2>4, <4>2
        <5>3. g[n] = g[n - 1] \o ss[n]
          BY <1>4
        <5> HIDE DEF G
        <5> QED
          BY <3>1, <5>1, <5>2, <5>3
      <4> QED
        BY <4>1, <4>2
    <3>2. G[0] = g[0]
      BY <1>0, <1>3
    <3> HIDE DEF G
    <3> QED
      BY <3>1, <3>2 DEF StayAlike
  <2>6. Alike(G, g, Len(ss))
    <3> HIDE DEF G
    <3> QED
      BY <1>0, <2>5, FoldUnique
  <2>7. F[Len(ss)] = g[Len(ss)]
    BY <1>0, <1>6, <2>6 DEF Alike
  <2> QED
    BY <1>3, <1>4, <2>3, <2>7 DEF Sums
<1> QED
  BY <1>5, <1>6

\* In particular with sequences over any set.
LEMMA FlatDef == ASSUME NEW S, NEW ss \in Seq(Seq(S)) PROVE \E g : Sums(g, Seq(S), ss)
<1>1. PICK T : T = Seq(S)
  OBVIOUS
<1>2. Monoid(T)
  BY <1>1, EmptySeq, ConcatProperties, ConcatEmptySeq DEF Monoid
<1>3. ss \in Seq(T)
  BY <1>1
<1> QED
  BY <1>1, <1>2, <1>3, FlatSums

-----------------------------------------------------------------------------
(* One part. *)

\* Parts and the tokens of their bodies: values from V, data from D.
PartsOf(V, D) == [name : V, filename : V, content_type : V, data : Seq(D)]
Attribute(V) == {"name", "filename", "type"} \X V
Tokens(V, D) == D \cup {B, NL, Dashes} \cup Attribute(V)

\* h begins a header: attributes of p.
LEMMA AttributesAre ==
    ASSUME NEW V, NEW D, NEW p \in PartsOf(V, D), NEW first \in BOOLEAN, NEW h, h = Attributes(p, first)
    PROVE  /\ h \in Seq(Attribute(V)) /\ Len(h) \in {1, 2}
           /\ \A i \in 1..Len(h) : h[i] # NL /\ h[i] # B /\ h[i][1] # "type"
           /\ \/ Len(h) = 1 /\ h[1] = <<"name", p.name>> /\ p.filename = NoFile
              \/ Len(h) = 2 /\ h[1] = <<"name", p.name>> /\ h[2] = <<"filename", p.filename>> /\ p.filename # NoFile
              \/ Len(h) = 2 /\ h[2] = <<"name", p.name>> /\ h[1] = <<"filename", p.filename>> /\ p.filename # NoFile
<1>1. p.name \in V /\ p.filename \in V
  BY DEF PartsOf
<1>2. PICK n, f : n = <<"name", p.name>> /\ f = <<"filename", p.filename>>
  OBVIOUS
<1>3. /\ n \in Attribute(V) /\ n # NL /\ n # B /\ n[1] # "type"
      /\ f \in Attribute(V) /\ f # NL /\ f # B /\ f[1] # "type"
  BY <1>1, <1>2 DEF Attribute, NL, B
<1>4. \/ h = <<n>> /\ p.filename = NoFile
      \/ h = <<n, f>> /\ p.filename # NoFile
      \/ h = <<f, n>> /\ p.filename # NoFile
  BY <1>2 DEF Attributes
<1>5. CASE h = <<n>> /\ p.filename = NoFile
  BY <1>2, <1>3, <1>5
<1>6. CASE h = <<n, f>> /\ p.filename # NoFile
  <2>1. h \in Seq(Attribute(V)) /\ Len(h) = 2 /\ h[1] = n /\ h[2] = f
    BY <1>3, <1>6
  <2> QED
    BY <1>2, <1>3, <1>6, <2>1
<1>7. CASE h = <<f, n>> /\ p.filename # NoFile
  <2>1. h \in Seq(Attribute(V)) /\ Len(h) = 2 /\ h[1] = f /\ h[2] = n
    BY <1>3, <1>7
  <2> QED
    BY <1>2, <1>3, <1>7, <2>1
<1> QED
  BY <1>4, <1>5, <1>6, <1>7

\* c is the text of part p without its delimiter and the line breaks that the
\* parser drops.
IsChunk(c, h, p, S) ==
    /\ c \in Seq(S) /\ Len(c) = Len(h) + 4 + Len(p.data)
    /\ \A i \in 1..Len(h) : c[i] = h[i]
    /\ c[Len(h) + 1] = NL /\ c[Len(h) + 2] = <<"type", p.content_type>>
    /\ c[Len(h) + 3] = NL /\ c[Len(h) + 4] = NL
    /\ \A j \in 1..Len(p.data) : c[Len(h) + 4 + j] = p.data[j]

\* A header has one token of a kind, and there.
OnlyAt(hd, k, i) == i \in DOMAIN hd /\ hd[i][1] = k /\ \A j \in DOMAIN hd : hd[j][1] = k => j = i

\* Then that is the first one.
LEMMA FirstIs == ASSUME NEW hd, NEW k, NEW i \in Nat, OnlyAt(hd, k, i) PROVE FirstOf(hd, {k}) = i
<1>1. {j \in DOMAIN hd : hd[j][1] \in {k}} = {i}
  BY DEF OnlyAt
<1>2. i <= i
  OBVIOUS
<1> QED
  BY <1>1, <1>2 DEF FirstOf

\* A header without such a token.
LEMMA NoneIs ==
    ASSUME NEW hd, NEW k, \A j \in DOMAIN hd : hd[j][1] # k
    PROVE  FirstOf(hd, {k}) = 0
BY DEF FirstOf

\* The parser finds in it the part again, or nothing if it is a file without
\* data.
LEMMA ChunkParsed ==
    ASSUME NEW V, NEW D, NEW p \in PartsOf(V, D), NEW first \in BOOLEAN, NEW h, h = Attributes(p, first),
           NEW S, NEW c, IsChunk(c, h, p, S)
    PROVE  parsePart(c) = Wanted(p)
<1> DEFINE blank == {i \in 1..(Len(c) - 1) : c[i] = NL /\ c[i + 1] = NL}
           sep == CHOOSE i \in blank : \A j \in blank : i <= j
           header == SubSeq(c, 1, sep - 1)
           valueAt(i, none) == IF i = 0 THEN none ELSE header[i][2]
           part == [name |-> valueAt(NameAt(header), ""),
                    filename |-> valueAt(FirstOf(header, {"filename"}), NoFile),
                    content_type |-> valueAt(FirstOf(header, {"type"}), ""),
                    data |-> SubSeq(c, sep + 2, Len(c))]
<1>1. p.data \in Seq(D) /\ p = [name |-> p.name, filename |-> p.filename, content_type |-> p.content_type, data |-> p.data]
  BY DEF PartsOf
<1>2. Len(p.data) \in Nat
  BY <1>1, LenProperties
<1>3. PICK a \in {1, 2} : a = Len(h)
  BY AttributesAre
<1>4. PICK d \in Nat : d = Len(p.data)
  BY <1>2
<1>5. /\ c \in Seq(S) /\ Len(c) = a + 4 + d
      /\ \A i \in 1..a : c[i] = h[i]
      /\ c[a + 1] = NL /\ c[a + 2] = <<"type", p.content_type>>
      /\ c[a + 3] = NL /\ c[a + 4] = NL
      /\ \A j \in 1..d : c[a + 4 + j] = p.data[j]
  BY <1>3, <1>4 DEF IsChunk
<1>6. \A i \in 1..a : h[i] # NL /\ h[i][1] # "type"
  BY <1>3, AttributesAre
<1>7. a + 3 \in blank /\ \A j \in blank : a + 3 <= j
  <2>1. a + 3 \in blank
    <3>1. a + 3 \in 1..(Len(c) - 1) /\ (a + 3) + 1 = a + 4
      BY <1>5
    <3> QED
      BY <1>5, <3>1
  <2>2. ASSUME NEW j \in blank PROVE a + 3 <= j
    <3>1. j \in 1..(Len(c) - 1) /\ c[j] = NL /\ c[j + 1] = NL /\ j \in Nat
      BY <1>5
    <3>2. j \notin 1..a
      BY <1>5, <1>6, <3>1
    <3>3. <<"type", p.content_type>> # NL
      BY DEF NL
    <3>4. j # a + 1 /\ j # a + 2
      <4>1. j = a + 1 => j + 1 = a + 2
        BY <1>3
      <4> QED
        BY <1>5, <3>1, <3>3, <4>1
    <3> QED
      BY <3>1, <3>2, <3>4
  <2> QED
    BY <2>1, <2>2
<1>8. sep = a + 3
  <2>1. \A j \in blank : j \in Nat
    BY <1>5
  <2>2. sep \in blank /\ \A j \in blank : sep <= j
    <3> HIDE DEF blank
    <3> QED
      BY <1>7
  <2> HIDE DEF blank, sep
  <2>3. sep <= a + 3 /\ a + 3 <= sep /\ sep \in Nat
    BY <1>7, <2>1, <2>2
  <2> QED
    BY <2>3, <1>3
<1> HIDE DEF blank, sep
<1>9. /\ DOMAIN header = 1..(a + 2) /\ \A i \in 1..a : header[i] = h[i]
      /\ header[a + 1] = NL /\ header[a + 2] = <<"type", p.content_type>>
  <2>1. header = [i \in 1..(a + 2) |-> c[i]]
    BY <1>3, <1>5, <1>8
  <2> HIDE DEF header
  <2> QED
    BY <1>3, <1>5, <2>1
<1>10. part.data = p.data
  <2>1. PICK q : q = SubSeq(c, a + 5, Len(c))
    OBVIOUS
  <2>2. q \in Seq(S) /\ Len(q) = d /\ \A j \in 1..d : q[j] = c[a + 4 + j]
    <3>1. q = [j \in 1..d |-> c[a + 4 + j]]
      BY <1>3, <1>5, <2>1
    <3> QED
      BY <1>3, <1>5, <3>1
  <2>3. q = p.data
    <3>1. PICK e \in Seq(D) : e = p.data
      BY <1>1
    <3>2. Len(e) = d /\ \A j \in 1..d : e[j] = q[j]
      BY <1>4, <1>5, <2>2, <3>1
    <3>3. e = [j \in 1..d |-> e[j]] /\ q = [j \in 1..d |-> q[j]]
      BY <2>2, <3>2
    <3> QED
      BY <3>1, <3>2, <3>3
  <2>4. sep + 2 = a + 5
    BY <1>8, <1>3
  <2> QED
    BY <2>1, <2>3, <2>4
<1> HIDE DEF header
<1>11. NL[1] \notin {"name", "filename", "type"}
  BY DEF NL
<1>12. part.content_type = p.content_type
  <2>1. a + 2 \in DOMAIN header /\ header[a + 2][1] = "type" /\ header[a + 2][2] = p.content_type
    BY <1>3, <1>9
  <2>2. ASSUME NEW j \in DOMAIN header, header[j][1] = "type" PROVE j = a + 2
    BY <1>3, <1>6, <1>9, <1>11, <2>2
  <2>3. PICK m \in Nat : m = a + 2 /\ m # 0
    BY <1>3
  <2>4. FirstOf(header, {"type"}) = m
    BY <2>1, <2>2, <2>3, FirstIs DEF OnlyAt
  <2>5. valueAt(m, "") = p.content_type
    BY <2>1, <2>3
  <2> HIDE DEF valueAt
  <2> QED
    BY <2>4, <2>5
<1>13. NameAt(header) # 0 /\ part.name = p.name /\ part.filename = p.filename
  <2>0. /\ DOMAIN header \subseteq Nat
        /\ \A j \in DOMAIN header : j \in 1..a \/ header[j][1] \notin {"name", "filename"}
    BY <1>3, <1>9, <1>11
  <2>a. /\ \A i \in 1..a : header[i] = h[i] /\ i \in DOMAIN header
    BY <1>3, <1>9
  <2>1. CASE a = 1 /\ h[1] = <<"name", p.name>> /\ p.filename = NoFile
    <3>1. header[1] = <<"name", p.name>> /\ 1 \in DOMAIN header
      BY <2>1, <2>a
    <3>2. \A j \in DOMAIN header : (header[j][1] = "name" => j = 1) /\ header[j][1] # "filename"
      BY <2>0, <2>1, <3>1
    <3>3. NameAt(header) = 1
      <4>1. OnlyAt(header, "name", 1)
        BY <3>1, <3>2 DEF OnlyAt
      <4> QED
        BY <4>1, FirstIs DEF NameAt
    <3>4. FirstOf(header, {"filename"}) = 0
      BY <3>2, NoneIs
    <3> QED
      <4>1. header[1][2] = p.name
        BY <3>1
      <4>2. part.name = p.name
        BY <3>3, <4>1
      <4>3. part.filename = p.filename
        BY <2>1, <3>4
      <4> QED
        BY <3>3, <4>2, <4>3
  <2>2. ASSUME NEW i \in {1, 2}, NEW j \in {1, 2}, i # j, a = 2, h[i] = <<"name", p.name>>, h[j] = <<"filename", p.filename>>
        PROVE  NameAt(header) # 0 /\ part.name = p.name /\ part.filename = p.filename
    <3>1. header[i] = <<"name", p.name>> /\ i \in DOMAIN header /\ header[j] = <<"filename", p.filename>> /\ j \in DOMAIN header
      BY <2>2, <2>a
    <3>2. \A k \in DOMAIN header : (header[k][1] = "name" => k = i) /\ (header[k][1] = "filename" => k = j)
      <4>1. \A k \in 1..a : k = i \/ k = j
        BY <2>2
      <4> QED
        BY <2>0, <3>1, <4>1
    <3>3. OnlyAt(header, "name", i) /\ OnlyAt(header, "filename", j) /\ i \in Nat /\ j \in Nat /\ i # 0 /\ j # 0
      BY <3>1, <3>2 DEF OnlyAt
    <3>4. NameAt(header) = i
      BY <3>3, FirstIs DEF NameAt
    <3>5. FirstOf(header, {"filename"}) = j
      BY <3>3, FirstIs
    <3>6. header[i][2] = p.name /\ header[j][2] = p.filename
      BY <3>1
    <3>7. part.name = p.name
      BY <3>3, <3>4, <3>6
    <3>8. part.filename = p.filename
      BY <3>3, <3>5, <3>6
    <3> QED
      BY <3>3, <3>4, <3>7, <3>8
  <2>3. \/ a = 1 /\ h[1] = <<"name", p.name>> /\ p.filename = NoFile
        \/ a = 2 /\ h[1] = <<"name", p.name>> /\ h[2] = <<"filename", p.filename>> /\ p.filename # NoFile
        \/ a = 2 /\ h[2] = <<"name", p.name>> /\ h[1] = <<"filename", p.filename>> /\ p.filename # NoFile
    BY <1>3, AttributesAre
  <2> HIDE DEF part
  <2>4. CASE a = 2 /\ h[1] = <<"name", p.name>> /\ h[2] = <<"filename", p.filename>>
    BY <2>2, <2>4
  <2>5. CASE a = 2 /\ h[2] = <<"name", p.name>> /\ h[1] = <<"filename", p.filename>>
    BY <2>2, <2>5
  <2> QED
    BY <2>1, <2>3, <2>4, <2>5
<1>14. part = p
  <2>1. part = [name |-> part.name, filename |-> part.filename, content_type |-> part.content_type, data |-> part.data]
    OBVIOUS
  <2> HIDE DEF part
  <2> QED
    BY <1>1, <1>10, <1>12, <1>13, <2>1
<1>15. parsePart(c) = IF blank = {} THEN <<>>
                      ELSE IF NameAt(header) = 0 \/ (part.filename # NoFile /\ part.data = <<>>) THEN <<>>
                      ELSE <<part>>
  BY DEF parsePart, blank, sep, header
<1> HIDE DEF part
<1> QED
  BY <1>7, <1>13, <1>14, <1>15 DEF Wanted

-----------------------------------------------------------------------------
(* The body: part after part. *)

\* Two sequences, one after the other.
IsJoined(u, s, t, S) ==
    /\ u \in Seq(S) /\ Len(u) = Len(s) + Len(t)
    /\ \A i \in 1..Len(s) : u[i] = s[i]
    /\ \A i \in 1..Len(t) : u[Len(s) + i] = t[i]

LEMMA Joined == ASSUME NEW S, NEW s \in Seq(S), NEW t \in Seq(S) PROVE IsJoined(s \o t, s, t, S)
<1>0. PICK u : u = s \o t
  OBVIOUS
<1>1. Len(s) \in Nat /\ Len(t) \in Nat
  BY LenProperties
<1>2. u \in Seq(S) /\ Len(u) = Len(s) + Len(t)
  BY <1>0, ConcatProperties
<1>3. \A i \in 1..(Len(s) + Len(t)) : u[i] = IF i <= Len(s) THEN s[i] ELSE t[i - Len(s)]
  BY <1>0, ConcatProperties
<1>4. ASSUME NEW i \in 1..Len(t) PROVE u[Len(s) + i] = t[i]
  <2>1. PICK j \in 1..(Len(s) + Len(t)) : j = Len(s) + i /\ ~(j <= Len(s)) /\ j - Len(s) = i
    BY <1>1
  <2>2. u[j] = t[j - Len(s)]
    BY <1>3, <2>1
  <2> QED
    BY <2>1, <2>2
<1>5. ASSUME NEW i \in 1..Len(s) PROVE u[i] = s[i]
  BY <1>1, <1>3
<1> QED
  BY <1>0, <1>2, <1>4, <1>5 DEF IsJoined

\* t is the text of part p, with attributes h.
IsText(t, h, p, S) ==
    /\ t \in Seq(S) /\ Len(t) = Len(h) + Len(p.data) + 7
    /\ t[1] = B /\ \A i \in 2..Len(t) : t[i] # B
    /\ \A i \in 1..Len(h) : t[2 + i] = h[i]
    /\ t[Len(h) + 3] = NL /\ t[Len(h) + 4] = <<"type", p.content_type>>
    /\ t[Len(h) + 5] = NL /\ t[Len(h) + 6] = NL
    /\ \A j \in 1..Len(p.data) : t[Len(h) + 6 + j] = p.data[j]

LEMMA TextIs ==
    ASSUME NEW V, NEW D, B \notin D, NEW p \in PartsOf(V, D), NEW first \in BOOLEAN
    PROVE  IsText(PartText(p, first), Attributes(p, first), p, Tokens(V, D))
<1>1. PICK h : h = Attributes(p, first)
  OBVIOUS
<1>2. PICK S : S = Tokens(V, D)
  OBVIOUS
<1>3. PICK ty : ty = <<"type", p.content_type>>
  OBVIOUS
<1>4. PICK e \in Seq(D) : e = p.data
  BY DEF PartsOf
<1>5. D \subseteq S /\ Attribute(V) \subseteq S /\ B \in S /\ NL \in S /\ Dashes \in S
  BY <1>2 DEF Tokens
<1>6. ty \in S /\ ty # B /\ NL # B
  <2>1. p.content_type \in V
    BY DEF PartsOf
  <2>2. ty \in Attribute(V)
    BY <1>3, <2>1 DEF Attribute
  <2> QED
    BY <1>3, <1>5, <2>2 DEF B, NL
<1>7. /\ h \in Seq(Attribute(V)) /\ Len(h) \in {1, 2} /\ \A i \in 1..Len(h) : h[i] # B
  BY <1>1, AttributesAre
<1>8. h \in Seq(S) /\ e \in Seq(S) /\ <<NL, ty, NL, NL>> \in Seq(S) /\ <<NL>> \in Seq(S) /\ <<B, NL>> \in Seq(S)
  <2>1. h \in Seq(S)
    BY <1>5, <1>7
  <2>2. e \in Seq(S)
    BY <1>5
  <2> QED
    BY <1>5, <1>6, <2>1, <2>2
<1>9. PICK a \in {1, 2} : a = Len(h)
  BY <1>7
<1>10. PICK d \in Nat : d = Len(e)
  BY LenProperties
<1>11. \A j \in 1..d : e[j] # B
  BY <1>10
<1>12. PICK x1 : x1 = <<B, NL>> \o h
  OBVIOUS
<1>13. x1 \in Seq(S) /\ Len(x1) = a + 2 /\ x1[1] = B /\ x1[2] = NL /\ \A i \in 1..a : x1[2 + i] = h[i]
  <2>1. PICK b \in Seq(S) : b = <<B, NL>>
    BY <1>8
  <2>2. Len(b) = 2 /\ b[1] = B /\ b[2] = NL
    BY <2>1
  <2>3. /\ x1 \in Seq(S) /\ Len(x1) = Len(b) + Len(h) /\ (\A i \in 1..Len(b) : x1[i] = b[i])
        /\ \A i \in 1..Len(h) : x1[Len(b) + i] = h[i]
    BY <1>8, <1>12, <2>1, Joined DEF IsJoined
  <2> QED
    BY <1>9, <2>2, <2>3
<1>14. PICK x2 : x2 = x1 \o <<NL, ty, NL, NL>>
  OBVIOUS
<1>15. /\ x2 \in Seq(S) /\ Len(x2) = a + 6 /\ \A i \in 1..(a + 2) : x2[i] = x1[i]
       /\ x2[a + 3] = NL /\ x2[a + 4] = ty /\ x2[a + 5] = NL /\ x2[a + 6] = NL
  <2>1. PICK b \in Seq(S) : b = <<NL, ty, NL, NL>>
    BY <1>8
  <2>2. Len(b) = 4 /\ b[1] = NL /\ b[2] = ty /\ b[3] = NL /\ b[4] = NL
    BY <2>1
  <2>3. /\ x2 \in Seq(S) /\ Len(x2) = Len(x1) + Len(b) /\ (\A i \in 1..Len(x1) : x2[i] = x1[i])
        /\ \A i \in 1..Len(b) : x2[Len(x1) + i] = b[i]
    <3>1. x1 \in Seq(S) /\ x2 = x1 \o b
      BY <1>13, <1>14, <2>1
    <3> QED
      BY <3>1, Joined DEF IsJoined
  <2>4. \A i \in {1, 2, 3, 4} : x2[a + 2 + i] = b[i]
    BY <1>13, <2>2, <2>3
  <2>5. x2[a + 3] = b[1] /\ x2[a + 4] = b[2] /\ x2[a + 5] = b[3] /\ x2[a + 6] = b[4]
    BY <1>9, <2>4
  <2> QED
    BY <1>13, <2>2, <2>3, <2>5
<1>16. PICK x3 : x3 = x2 \o e
  OBVIOUS
<1>17. /\ x3 \in Seq(S) /\ Len(x3) = a + 6 + d /\ \A i \in 1..(a + 6) : x3[i] = x2[i]
       /\ \A j \in 1..d : x3[a + 6 + j] = e[j]
  BY <1>8, <1>10, <1>15, <1>16, Joined DEF IsJoined
<1>18. PICK t : t = x3 \o <<NL>>
  OBVIOUS
<1>19. t \in Seq(S) /\ Len(t) = a + d + 7 /\ t[a + d + 7] = NL /\ \A i \in 1..(a + 6 + d) : t[i] = x3[i]
  <2>1. PICK b \in Seq(S) : b = <<NL>>
    BY <1>8
  <2>2. Len(b) = 1 /\ b[1] = NL
    BY <2>1
  <2>3. /\ t \in Seq(S) /\ Len(t) = Len(x3) + Len(b) /\ (\A i \in 1..Len(x3) : t[i] = x3[i])
        /\ \A i \in 1..Len(b) : t[Len(x3) + i] = b[i]
    <3>1. x3 \in Seq(S) /\ t = x3 \o b
      BY <1>17, <1>18, <2>1
    <3> QED
      BY <3>1, Joined DEF IsJoined
  <2>4. t[Len(x3) + 1] = NL
    BY <2>2, <2>3
  <2>5. Len(x3) + 1 = a + d + 7
    BY <1>9, <1>10, <1>17
  <2> QED
    BY <1>9, <1>10, <1>17, <2>2, <2>3, <2>4, <2>5
<1>20. /\ \A i \in 1..(a + 2) : t[i] = x1[i]
       /\ t[a + 3] = NL /\ t[a + 4] = ty /\ t[a + 5] = NL /\ t[a + 6] = NL
       /\ \A j \in 1..d : t[a + 6 + j] = e[j]
  <2>1. \A i \in 1..(a + 6) : i \in 1..(a + 6 + d) /\ t[i] = x2[i]
    BY <1>9, <1>10, <1>17, <1>19
  <2>2. \A i \in 1..(a + 2) : i \in 1..(a + 6) /\ t[i] = x1[i]
    BY <1>9, <1>15, <2>1
  <2>3. \A j \in 1..d : a + 6 + j \in 1..(a + 6 + d)
    BY <1>9, <1>10
  <2>4. \A j \in 1..d : t[a + 6 + j] = e[j]
    BY <1>17, <1>19, <2>3
  <2>5. a + 3 \in 1..(a + 6) /\ a + 4 \in 1..(a + 6) /\ a + 5 \in 1..(a + 6) /\ a + 6 \in 1..(a + 6)
    BY <1>9
  <2> QED
    BY <1>15, <2>1, <2>2, <2>4, <2>5
<1>21. t[1] = B /\ t[2] = NL /\ \A i \in 1..a : t[2 + i] = h[i]
  <2>1. \A i \in 1..a : 2 + i \in 1..(a + 2)
    BY <1>9
  <2>2. 1 \in 1..(a + 2) /\ 2 \in 1..(a + 2)
    BY <1>9
  <2> QED
    BY <1>13, <1>20, <2>1, <2>2
<1>22. ASSUME NEW i \in 2..(a + d + 7) PROVE t[i] # B
  <2>1. CASE i \in {2, a + 3, a + 4, a + 5, a + 6, a + d + 7}
    BY <1>6, <1>19, <1>20, <1>21, <2>1
  <2>2. CASE i \in 3..(a + 2)
    <3>1. PICK j \in 1..a : i = 2 + j
      BY <1>9, <2>2
    <3> QED
      BY <1>7, <1>9, <1>21, <3>1
  <2>3. CASE i \in (a + 7)..(a + 6 + d)
    <3>1. PICK j \in 1..d : i = a + 6 + j
      <4>1. i - (a + 6) \in 1..d /\ i = a + 6 + (i - (a + 6))
        BY <1>9, <1>10, <2>3
      <4> QED
        BY <4>1
    <3> QED
      BY <1>11, <1>20, <3>1
  <2> QED
    BY <1>9, <1>10, <2>1, <2>2, <2>3
<1>23. PartText(p, first) = t
  BY <1>1, <1>3, <1>4, <1>12, <1>14, <1>16, <1>18 DEF PartText
<1> QED
  BY <1>1, <1>2, <1>3, <1>4, <1>9, <1>10, <1>19, <1>20, <1>21, <1>22, <1>23 DEF IsText

\* The text of a body is laid out part after part, and the last delimiter is
\* followed by two dashes and a line break.
Laid(text, off, f, first, S) ==
    /\ off \in [0..Len(f) -> Nat] /\ off[0] = 0
    /\ text \in Seq(S) /\ Len(text) = off[Len(f)] + 3
    /\ text[off[Len(f)] + 1] = B /\ text[off[Len(f)] + 2] # B /\ text[off[Len(f)] + 3] # B
    /\ \A n \in 1..Len(f) :
          /\ off[n] = off[n - 1] + Len(PartText(f[n], first)) /\ off[n] <= off[Len(f)]
          /\ \A j \in 1..Len(PartText(f[n], first)) : text[off[n - 1] + j] = PartText(f[n], first)[j]

\* x begins with y.
Begins(x, y) == Len(y) <= Len(x) /\ \A i \in 1..Len(y) : x[i] = y[i]

LEMMA BodyLaid ==
    ASSUME NEW V, NEW D, B \notin D, NEW f \in Seq(PartsOf(V, D)), NEW first \in BOOLEAN
    PROVE  \E off : Laid(Body(f, first), off, f, first, Tokens(V, D))
<1>1. PICK S : S = Tokens(V, D)
  OBVIOUS
<1>2. PICK N \in Nat : N = Len(f) /\ DOMAIN f = 1..N
  BY LenProperties
<1> DEFINE t(i) == PartText(f[i], first)
<1>3. \A i \in 1..N : t(i) \in Seq(S)
  <2>1. ASSUME NEW i \in 1..N PROVE t(i) \in Seq(S)
    <3>1. f[i] \in PartsOf(V, D)
      BY <1>2, ElementOfSeq
    <3> QED
      BY <1>1, <3>1, TextIs DEF IsText
  <2> QED
    BY <2>1
<1>4. PICK ts : ts = [i \in DOMAIN f |-> t(i)]
  OBVIOUS
<1> HIDE DEF t
<1>5. ts \in Seq(Seq(S)) /\ Len(ts) = N /\ \A i \in 1..N : ts[i] = t(i)
  <2>1. PICK T : T = Seq(S)
    OBVIOUS
  <2>2. \A i \in 1..N : t(i) \in T
    BY <1>3, <2>1
  <2>3. ts = [i \in 1..N |-> t(i)]
    BY <1>2, <1>4
  <2>4. ts \in Seq(T) /\ Len(ts) = N
    BY <1>2, <2>2, <2>3
  <2> QED
    BY <2>1, <2>3, <2>4
<1>6. PICK g : Sums(g, Seq(S), ts)
  BY <1>5, FlatDef
<1>7. /\ g \in [0..N -> Seq(S)] /\ g[0] = <<>> /\ FlattenSeq(ts) = g[N]
      /\ \A n \in 1..N : g[n] = g[n - 1] \o t(n)
  BY <1>5, <1>6 DEF Sums
<1>8. \A n \in 1..N : IsJoined(g[n], g[n - 1], t(n), S)
  <2>1. ASSUME NEW n \in 1..N PROVE IsJoined(g[n], g[n - 1], t(n), S)
    <3>1. n \in 0..N /\ n - 1 \in 0..N
      BY <1>2
    <3>2. g[n - 1] \in Seq(S) /\ t(n) \in Seq(S) /\ g[n] = g[n - 1] \o t(n)
      BY <1>3, <1>7, <3>1
    <3> QED
      BY <3>2, Joined
  <2> QED
    BY <2>1
<1>9. PICK x : x = g[N] \o <<B, Dashes, NL>>
  OBVIOUS
<1>10. x = Body(f, first)
  BY <1>4, <1>7, <1>9 DEF Body, t
<1>11. \A n \in 0..N : Len(g[n]) \in Nat
  BY <1>7, LenProperties
<1>12. /\ x \in Seq(S) /\ Len(x) = Len(g[N]) + 3 /\ Begins(x, g[N])
       /\ x[Len(g[N]) + 1] = B /\ x[Len(g[N]) + 2] # B /\ x[Len(g[N]) + 3] # B
  <2>1. PICK b : b = <<B, Dashes, NL>>
    OBVIOUS
  <2>2. b \in Seq(S) /\ Len(b) = 3 /\ b[1] = B /\ b[2] # B /\ b[3] # B
    <3>1. B \in S /\ Dashes \in S /\ NL \in S /\ Dashes # B /\ NL # B
      BY <1>1 DEF Tokens, B, Dashes, NL
    <3> QED
      BY <2>1, <3>1
  <2>3. N \in 0..N
    BY <1>2
  <2>4. PICK z \in Seq(S) : z = g[N]
    BY <1>7, <2>3
  <2>5. IsJoined(x, z, b, S)
    BY <1>9, <2>1, <2>2, <2>4, Joined
  <2>6. Len(z) \in Nat
    BY <2>4, LenProperties
  <2>7. /\ x \in Seq(S) /\ Len(x) = Len(z) + 3 /\ (\A i \in 1..Len(z) : x[i] = z[i])
        /\ \A i \in 1..3 : x[Len(z) + i] = b[i]
    BY <2>2, <2>5 DEF IsJoined
  <2>8. x[Len(z) + 1] = B /\ x[Len(z) + 2] # B /\ x[Len(z) + 3] # B
    BY <2>2, <2>7
  <2>9. Len(z) <= Len(x)
    BY <2>6, <2>7
  <2> QED
    BY <2>4, <2>7, <2>8, <2>9 DEF Begins
<1>13. \A n \in 0..N : Begins(x, g[n]) /\ Len(g[n]) <= Len(g[N])
  <2> DEFINE Q == {k \in Nat : k <= N => Begins(x, g[N - k]) /\ Len(g[N - k]) <= Len(g[N])}
  <2>1. 0 \in Q
    <3>1. N - 0 = N /\ N \in 0..N
      BY <1>2
    <3> QED
      BY <1>11, <1>12, <3>1
  <2>2. ASSUME NEW k \in Nat, k \in Q PROVE k + 1 \in Q
    <3> SUFFICES ASSUME k + 1 <= N PROVE Begins(x, g[N - (k + 1)]) /\ Len(g[N - (k + 1)]) <= Len(g[N])
      OBVIOUS
    <3>1. PICK n \in 1..N : n = N - k /\ n - 1 = N - (k + 1)
      BY <1>2
    <3>2. n \in 0..N /\ n - 1 \in 0..N /\ N \in 0..N
      BY <1>2
    <3>3. Begins(x, g[n]) /\ Len(g[n]) <= Len(g[N])
      BY <1>2, <2>2, <3>1
    <3>4. PICK y \in Seq(S), z \in Seq(S) : y = g[n] /\ z = g[n - 1] /\ IsJoined(y, z, t(n), S)
      BY <1>7, <1>8, <3>2
    <3>5. Len(y) \in Nat /\ Len(z) \in Nat /\ Len(t(n)) \in Nat
      BY <1>3, LenProperties
    <3>6. Len(y) = Len(z) + Len(t(n)) /\ \A i \in 1..Len(z) : y[i] = z[i]
      BY <3>4 DEF IsJoined
    <3>7. Begins(x, y)
      BY <3>3, <3>4
    <3>8. Begins(x, z)
      <4>1. Len(x) \in Nat
        BY <1>12, LenProperties
      <4>2. Len(y) <= Len(x) /\ \A i \in 1..Len(y) : x[i] = y[i]
        BY <3>7 DEF Begins
      <4>3. Len(z) <= Len(x) /\ \A i \in 1..Len(z) : i \in 1..Len(y)
        BY <3>5, <3>6, <4>1, <4>2
      <4>4. \A i \in 1..Len(z) : x[i] = z[i]
        BY <3>6, <4>2, <4>3
      <4> QED
        BY <4>3, <4>4 DEF Begins
    <3>9. Len(z) <= Len(g[N])
      BY <1>11, <3>2, <3>3, <3>4, <3>5, <3>6
    <3> QED
      BY <3>1, <3>4, <3>8, <3>9
  <2> HIDE DEF Q
  <2>3. Nat \subseteq Q
    BY <2>1, <2>2, Induction
  <2>4. ASSUME NEW n \in 0..N PROVE Begins(x, g[n]) /\ Len(g[n]) <= Len(g[N])
    <3>1. PICK k \in Nat : k = N - n /\ k <= N /\ N - k = n
      <4>1. N - n \in Nat /\ N - n <= N /\ N - (N - n) = n
        BY <1>2
      <4> QED
        BY <4>1
    <3>2. k \in Q
      BY <2>3
    <3> QED
      BY <3>1, <3>2 DEF Q
  <2> QED
    BY <2>4
<1>14. PICK off : off = [n \in 0..N |-> Len(g[n])]
  OBVIOUS
<1>15. off \in [0..N -> Nat] /\ off[0] = 0 /\ off[N] = Len(g[N])
  <2>1. Len(g[0]) = 0
    BY <1>7
  <2> QED
    BY <1>2, <1>11, <1>14, <2>1
<1>16. ASSUME NEW n \in 1..N
       PROVE  /\ off[n] = off[n - 1] + Len(t(n)) /\ off[n] <= off[N]
              /\ \A j \in 1..Len(t(n)) : x[off[n - 1] + j] = t(n)[j]
  <2>1. n \in 0..N /\ n - 1 \in 0..N
    BY <1>2
  <2>2. PICK y \in Seq(S), z \in Seq(S) : y = g[n] /\ z = g[n - 1] /\ IsJoined(y, z, t(n), S)
    BY <1>7, <1>8, <2>1
  <2>3. Len(y) \in Nat /\ Len(z) \in Nat /\ Len(t(n)) \in Nat
    BY <1>3, LenProperties
  <2>4. off[n] = Len(y) /\ off[n - 1] = Len(z)
    BY <1>14, <2>1, <2>2
  <2>5. Len(y) = Len(z) + Len(t(n)) /\ \A j \in 1..Len(t(n)) : y[Len(z) + j] = t(n)[j]
    BY <2>2 DEF IsJoined
  <2>6. \A i \in 1..Len(y) : x[i] = y[i]
    BY <1>13, <2>1, <2>2 DEF Begins
  <2>7. \A j \in 1..Len(t(n)) : Len(z) + j \in 1..Len(y)
    BY <2>3, <2>5
  <2>8. \A j \in 1..Len(t(n)) : x[Len(z) + j] = t(n)[j]
    BY <2>5, <2>6, <2>7
  <2>9. off[n] <= off[N]
    BY <1>13, <1>15, <2>1, <2>2, <2>4
  <2> QED
    BY <2>4, <2>5, <2>8, <2>9
<1>17. Laid(x, off, f, first, S)
  BY <1>2, <1>12, <1>15, <1>16 DEF Laid, t
<1> QED
  BY <1>1, <1>10, <1>17

\* Every part's text begins at a delimiter, and after the last part there is
\* another one.
LEMMA DelimiterAt ==
    ASSUME NEW V, NEW D, B \notin D, NEW f \in Seq(PartsOf(V, D)), NEW first \in BOOLEAN,
           NEW text, NEW off, Laid(text, off, f, first, Tokens(V, D)), NEW n \in 0..Len(f)
    PROVE  off[n] \in Nat /\ off[n] + 1 <= Len(text) /\ text[off[n] + 1] = B
<1>1. PICK N \in Nat : N = Len(f)
  BY LenProperties
<1>2. off \in [0..N -> Nat] /\ off[0] = 0 /\ Len(text) = off[N] + 3 /\ text[off[N] + 1] = B
  BY <1>1 DEF Laid
<1>3. CASE n = N
  BY <1>1, <1>2, <1>3
<1>4. CASE n # N
  <2>1. PICK m \in 1..N : m = n + 1 /\ m - 1 = n
    BY <1>1, <1>4
  <2>2. f[m] \in PartsOf(V, D)
    BY <1>1, ElementOfSeq
  <2>3. PICK t : t = PartText(f[m], first)
    OBVIOUS
  <2>4. IsText(t, Attributes(f[m], first), f[m], Tokens(V, D))
    BY <2>2, <2>3, TextIs
  <2>5. t \in Seq(Tokens(V, D)) /\ t[1] = B /\ Len(t) \in Nat
    BY <2>4, LenProperties DEF IsText
  <2>6. Len(t) >= 1
    <3>1. Len(Attributes(f[m], first)) \in {1, 2}
      BY <2>2, AttributesAre
    <3>2. f[m].data \in Seq(D)
      BY <2>2 DEF PartsOf
    <3>3. Len(f[m].data) \in Nat
      BY <3>2, LenProperties
    <3>4. PICK x \in Nat, y \in Nat : x = Len(Attributes(f[m], first)) /\ y = Len(f[m].data)
      BY <3>1, <3>3
    <3>5. Len(t) = x + y + 7
      BY <2>4, <3>4 DEF IsText
    <3> QED
      BY <3>5
  <2>7. /\ off[m] = off[n] + Len(t) /\ off[m] <= off[N]
        /\ \A j \in 1..Len(t) : text[off[n] + j] = t[j]
    <3>1. \A k \in 1..N : /\ off[k] = off[k - 1] + Len(PartText(f[k], first)) /\ off[k] <= off[N]
                           /\ \A j \in 1..Len(PartText(f[k], first)) : text[off[k - 1] + j] = PartText(f[k], first)[j]
      BY <1>1 DEF Laid
    <3> QED
      BY <2>1, <2>3, <3>1
  <2>8. 1 \in 1..Len(t)
    BY <2>5, <2>6
  <2>9. text[off[n] + 1] = B
    BY <2>5, <2>7, <2>8
  <2>10. off[n] \in Nat /\ off[m] \in Nat /\ off[N] \in Nat
    <3>1. n \in 0..N /\ m \in 0..N /\ N \in 0..N
      BY <1>1, <2>1
    <3> QED
      BY <1>2, <3>1
  <2> QED
    BY <1>2, <2>5, <2>6, <2>7, <2>9, <2>10
<1> QED
  BY <1>3, <1>4

\* The delimiters of a body.
Marks(text) == {i \in DOMAIN text : text[i] = B}

\* Between the delimiters before and after its text a part is found again, and
\* none begins inside of it.
LEMMA PartFound ==
    ASSUME NEW V, NEW D, B \notin D, NEW f \in Seq(PartsOf(V, D)), NEW first \in BOOLEAN,
           NEW text, NEW off, Laid(text, off, f, first, Tokens(V, D)), NEW n \in 1..Len(f)
    PROVE  /\ off[n - 1] \in Nat /\ off[n] \in Nat /\ off[n - 1] + 1 <= off[n] /\ off[n] <= Len(text)
           /\ PartBehind(text, Marks(text), off[n - 1] + 1) = Wanted(f[n])
           /\ \A i \in (off[n - 1] + 2)..off[n] : PartBehind(text, Marks(text), i) = <<>>
<1>1. PICK N \in Nat : N = Len(f)
  BY LenProperties
<1>2. PICK p \in PartsOf(V, D) : p = f[n]
  BY ElementOfSeq
<1>3. PICK S : S = Tokens(V, D)
  OBVIOUS
<1>4. PICK h : h = Attributes(p, first)
  OBVIOUS
<1>5. PICK t : t = PartText(p, first)
  OBVIOUS
<1>6. PICK a \in {1, 2} : a = Len(h)
  BY <1>4, AttributesAre
<1>7. PICK d \in Nat : d = Len(p.data)
  <2>1. p.data \in Seq(D)
    BY DEF PartsOf
  <2> QED
    BY <2>1, LenProperties
<1>a. a \in Nat /\ (a = 1 \/ a = 2) /\ d \in Nat
  OBVIOUS
<1>8. /\ t \in Seq(S) /\ Len(t) = a + d + 7
      /\ t[1] = B /\ \A i \in 2..(a + d + 7) : t[i] # B
      /\ \A i \in 1..a : t[2 + i] = h[i]
      /\ t[a + 3] = NL /\ t[a + 4] = <<"type", p.content_type>>
      /\ t[a + 5] = NL /\ t[a + 6] = NL
      /\ \A j \in 1..d : t[a + 6 + j] = p.data[j]
  <2>1. IsText(t, h, p, S)
    BY <1>3, <1>4, <1>5, TextIs
  <2> QED
    BY <1>6, <1>7, <2>1 DEF IsText
<1>9. n \in 0..N /\ n - 1 \in 0..N
  BY <1>1
<1>10. PICK o \in Nat, q \in Nat : o = off[n - 1] /\ q = off[n]
  BY <1>1, <1>9, DelimiterAt
<1>11. text[o + 1] = B /\ text[q + 1] = B /\ o + 1 <= Len(text) /\ q + 1 <= Len(text)
  BY <1>1, <1>9, <1>10, DelimiterAt
<1>12. q = o + (a + d + 7) /\ \A j \in 1..(a + d + 7) : text[o + j] = t[j]
  BY <1>2, <1>5, <1>8, <1>10 DEF Laid
<1>13. text \in Seq(S) /\ Len(text) \in Nat /\ DOMAIN text = 1..Len(text)
  BY <1>3, LenProperties DEF Laid
<1>14. PICK ds : ds = Marks(text)
  OBVIOUS
<1>15. o + 1 \in ds /\ q + 1 \in ds /\ q + 1 > o + 1 /\ \A k \in ds : k \in Nat
  BY <1>a, <1>11, <1>12, <1>13, <1>14 DEF Marks
<1>16. \A i \in (o + 2)..q : i \notin ds
  <2>1. ASSUME NEW i \in (o + 2)..q PROVE text[i] # B
    <3>1. PICK j \in 2..(a + d + 7) : i = o + j
      <4>1. i - o \in 2..(a + d + 7) /\ i = o + (i - o)
        BY <1>a, <1>12
      <4> QED
        BY <4>1
    <3>2. j \in 1..(a + d + 7)
      BY <1>a
    <3>3. t[j] # B
      BY <1>8
    <3>4. text[o + j] = t[j]
      BY <1>12, <3>2
    <3> QED
      BY <3>1, <3>3, <3>4
  <2> QED
    BY <1>14, <2>1 DEF Marks
<1>17. NextDelimiter(ds, o + 1) = q + 1
  <2>1. \A k \in ds : k > o + 1 => q + 1 <= k
    BY <1>15, <1>16
  <2>2. \E j \in ds : j > o + 1 /\ \A k \in ds : k > o + 1 => j <= k
    BY <1>15, <2>1
  <2>3. PICK j : j = NextDelimiter(ds, o + 1)
    OBVIOUS
  <2>4. j \in ds /\ j > o + 1 /\ \A k \in ds : k > o + 1 => j <= k
    BY <2>2, <2>3 DEF NextDelimiter
  <2>5. j <= q + 1 /\ q + 1 <= j /\ j \in Nat
    BY <1>15, <2>1, <2>4
  <2> QED
    BY <2>3, <2>5
<1>18. PICK c : c = SubSeq(text, (o + 1) + 2, EndBefore(q + 1))
  OBVIOUS
<1>19. IsChunk(c, h, p, S)
  <2>1. EndBefore(q + 1) = q - 1 /\ (o + 1) + 2 = o + 3
    BY DEF EndBefore
  <2>2. q - 1 = o + (a + d + 6) /\ q - 1 <= Len(text)
    <3>1. q = o + (a + d + 7)
      BY <1>12
    <3>2. q + 1 <= Len(text) /\ Len(text) \in Nat
      BY <1>11, <1>13
    <3> QED
      BY <1>a, <3>1, <3>2
  <2>3. PICK m \in Nat : m = a + 4 + d
    BY <1>a
  <2>4. c = [i \in 1..m |-> text[(o + 2) + i]] /\ c \in Seq(S) /\ Len(c) = m
    <3>1. c = SubSeq(text, o + 3, q - 1) /\ q - 1 = o + 2 + m /\ o + 3 \in 1..(Len(text) + 1) /\ q - 1 \in 0..Len(text)
      BY <1>a, <1>13, <1>18, <2>1, <2>2, <2>3
    <3>2. c \in Seq(S)
      BY <1>13, <3>1
    <3>3. Len(c) = m
      BY <1>13, <2>3, <3>1
    <3>4. \A i \in 1..m : c[i] = text[(o + 2) + i]
      BY <1>13, <2>3, <3>1
    <3>5. c = [i \in 1..m |-> c[i]]
      BY <3>2, <3>3
    <3> QED
      BY <3>2, <3>3, <3>4, <3>5
  <2>5. \A i \in 1..m : c[i] = t[2 + i]
    <3>1. ASSUME NEW i \in 1..m PROVE c[i] = t[2 + i]
      <4>1. PICK j \in 1..(a + d + 7) : j = 2 + i /\ o + j = (o + 2) + i
        BY <1>a, <2>3
      <4> QED
        BY <1>12, <2>4, <4>1
    <3> QED
      BY <3>1
  <2>6. \A i \in 1..a : i \in 1..m
    BY <1>a, <2>3
  <2>7. c[a + 1] = t[a + 3] /\ c[a + 2] = t[a + 4] /\ c[a + 3] = t[a + 5] /\ c[a + 4] = t[a + 6]
    <3>1. /\ a + 1 \in 1..m /\ a + 2 \in 1..m /\ a + 3 \in 1..m /\ a + 4 \in 1..m
          /\ 2 + (a + 1) = a + 3 /\ 2 + (a + 2) = a + 4 /\ 2 + (a + 3) = a + 5 /\ 2 + (a + 4) = a + 6
      BY <1>a, <2>3
    <3> QED
      BY <2>5, <3>1
  <2>8. \A j \in 1..d : c[a + 4 + j] = p.data[j]
    <3>1. ASSUME NEW j \in 1..d PROVE c[a + 4 + j] = p.data[j]
      <4>1. a + 4 + j \in 1..m /\ 2 + (a + 4 + j) = a + 6 + j
        BY <1>a, <2>3
      <4>2. c[a + 4 + j] = t[2 + (a + 4 + j)]
        BY <2>5, <4>1
      <4>3. t[a + 6 + j] = p.data[j]
        BY <1>8
      <4> QED
        BY <4>1, <4>2, <4>3
    <3> QED
      BY <3>1
  <2>9. \A i \in 1..a : c[i] = h[i]
    BY <1>8, <2>5, <2>6
  <2> QED
    BY <1>6, <1>7, <1>8, <2>3, <2>4, <2>7, <2>8, <2>9 DEF IsChunk
<1>20. parsePart(c) = Wanted(p)
  BY <1>4, <1>19, ChunkParsed
<1>21. PartBehind(text, ds, o + 1) = Wanted(p)
  BY <1>15, <1>17, <1>18, <1>20 DEF PartBehind
<1>22. \A i \in (o + 2)..q : PartBehind(text, ds, i) = <<>>
  BY <1>16 DEF PartBehind
<1>23. o + 1 <= q /\ q <= Len(text)
  BY <1>a, <1>11, <1>12, <1>13
<1> QED
  BY <1>2, <1>10, <1>14, <1>21, <1>22, <1>23

\* After the last part there is nothing more to be found.
Exhausted(text, o) ==
    o \in Nat /\ Len(text) = o + 3 /\ \A i \in (o + 1)..Len(text) : PartBehind(text, Marks(text), i) = <<>>

LEMMA NothingBehind ==
    ASSUME NEW S, NEW f, Len(f) \in Nat, NEW first, NEW text, NEW off, Laid(text, off, f, first, S)
    PROVE  Exhausted(text, off[Len(f)])
<1>0. PICK N \in Nat : N = Len(f)
  OBVIOUS
<1>1. PICK o \in Nat : o = off[N]
  <2>1. off \in [0..N -> Nat] /\ N \in 0..N
    BY <1>0 DEF Laid
  <2> QED
    BY <2>1
<1>2. text \in Seq(S) /\ Len(text) = o + 3 /\ text[o + 1] = B /\ text[o + 2] # B /\ text[o + 3] # B
  BY <1>0, <1>1 DEF Laid
<1>3. PICK ds : ds = Marks(text)
  OBVIOUS
<1>4. \A i \in ds : i \in 1..(o + 3) /\ text[i] = B
  BY <1>2, <1>3 DEF Marks
<1>5. ASSUME NEW i \in (o + 1)..(o + 3) PROVE PartBehind(text, ds, i) = <<>>
  <2>1. ~\E j \in ds : j > i
    <3> SUFFICES ASSUME NEW j \in ds, j > i PROVE FALSE
      OBVIOUS
    <3>1. j \in 1..(o + 3) /\ text[j] = B
      BY <1>4
    <3>2. j = o + 2 \/ j = o + 3
      BY <3>1
    <3> QED
      BY <1>2, <3>1, <3>2
  <2> QED
    BY <2>1 DEF PartBehind
<1> QED
  BY <1>0, <1>1, <1>2, <1>3, <1>5 DEF Exhausted

\* What stays the same at each step stays the same.
Steady(g, a, b) == \A i \in (a + 1)..b : g[i] = g[i - 1]

LEMMA SteadyIs == ASSUME NEW g, NEW a \in Nat, NEW b \in Nat, a <= b, Steady(g, a, b) PROVE g[b] = g[a]
<1> DEFINE Q == {k \in Nat : a + k <= b => g[a + k] = g[a]}
<1>1. 0 \in Q
  OBVIOUS
<1>2. ASSUME NEW k \in Nat, k \in Q PROVE k + 1 \in Q
  <2> SUFFICES ASSUME a + (k + 1) <= b PROVE g[a + (k + 1)] = g[a]
    OBVIOUS
  <2>1. PICK i \in (a + 1)..b : i = a + (k + 1) /\ i - 1 = a + k
    OBVIOUS
  <2>2. g[i] = g[i - 1]
    BY DEF Steady
  <2> QED
    BY <1>2, <2>1, <2>2
<1> HIDE DEF Q
<1>3. Nat \subseteq Q
  BY <1>1, <1>2, Induction
<1>4. PICK k \in Nat : k = b - a /\ a + k = b
  <2>1. b - a \in Nat /\ a + (b - a) = b
    OBVIOUS
  <2> QED
    BY <2>1
<1> QED
  BY <1>3, <1>4 DEF Q

\* The parser finds the parts of every form again, as they were sent, except
\* files without data.
THEOREM FormRoundTrip ==
    ASSUME NEW V, NEW D, B \notin D, NEW f \in Seq(PartsOf(V, D)), NEW first \in BOOLEAN, NEW b, b # "followed"
    PROVE  parse(Body(f, first), b) = FlattenSeq([i \in DOMAIN f |-> Wanted(f[i])])
<1>1. PICK P : P = PartsOf(V, D)
  OBVIOUS
<1>2. PICK N \in Nat : N = Len(f) /\ DOMAIN f = 1..N
  BY LenProperties
<1>3. PICK text, off : text = Body(f, first) /\ Laid(text, off, f, first, Tokens(V, D))
  BY BodyLaid
<1>4. PICK o \in [0..N -> Nat] : o = off /\ o[0] = 0
  BY <1>2, <1>3 DEF Laid
<1>5. PICK L \in Nat : L = Len(text) /\ DOMAIN text = 1..L
  <2>1. text \in Seq(Tokens(V, D))
    BY <1>3 DEF Laid
  <2> QED
    BY <2>1, LenProperties
<1> DEFINE found(i) == PartBehind(text, Marks(text), i)
<1>6. \A n \in 1..N : /\ o[n - 1] + 1 <= o[n] /\ o[n] <= L
                      /\ found(o[n - 1] + 1) = Wanted(f[n])
                      /\ \A i \in (o[n - 1] + 2)..o[n] : found(i) = <<>>
  BY <1>2, <1>3, <1>4, <1>5, PartFound
<1>7. L = o[N] + 3 /\ \A i \in (o[N] + 1)..L : found(i) = <<>>
  <2>1. Len(f) \in Nat
    BY <1>2
  <2>2. Exhausted(text, off[Len(f)])
    BY <1>3, <2>1, NothingBehind
  <2> QED
    BY <1>2, <1>4, <1>5, <2>2 DEF Exhausted
<1>8. PICK fs : fs = [i \in 1..L |-> found(i)]
  OBVIOUS
<1>9. parse(Body(f, first), b) = FlattenSeq(fs)
  <2>1. Delimiters(text, b) = Marks(text)
    BY DEF Delimiters, Marks
  <2> QED
    BY <1>3, <1>5, <1>8, <2>1 DEF parse
<1>10. \A n \in 1..N : Wanted(f[n]) \in Seq(P)
  <2>1. \A n \in 1..N : f[n] \in P
    BY <1>1, <1>2, ElementOfSeq
  <2>2. \A p \in P : Wanted(p) \in Seq(P)
    BY DEF Wanted
  <2> QED
    BY <2>1, <2>2
<1>11. \A i \in 1..L : found(i) \in Seq(P)
  <2>1. <<>> \in Seq(P)
    BY EmptySeq
  <2> DEFINE Q == {n \in Nat : n <= N => \A i \in 1..o[n] : found(i) \in Seq(P)}
  <2>2. 0 \in Q
    BY <1>4
  <2>3. ASSUME NEW k \in Nat, k \in Q PROVE k + 1 \in Q
    <3> SUFFICES ASSUME k + 1 <= N, NEW i \in 1..o[k + 1] PROVE found(i) \in Seq(P)
      OBVIOUS
    <3>1. PICK n \in 1..N : n = k + 1 /\ n - 1 = k
      BY <1>2
    <3>2. PICK x \in Nat, y \in Nat : x = o[k] /\ y = o[k + 1]
      <4>1. k \in 0..N /\ k + 1 \in 0..N
        BY <1>2
      <4> QED
        BY <1>4, <4>1
    <3>3. /\ found(x + 1) = Wanted(f[n]) /\ \A j \in (x + 2)..y : found(j) = <<>>
      BY <1>6, <3>1, <3>2
    <3>4. \A j \in 1..x : found(j) \in Seq(P)
      BY <1>2, <2>3, <3>2
    <3> HIDE DEF found
    <3>5. i \in 1..x \/ i = x + 1 \/ i \in (x + 2)..y
      BY <3>2
    <3>6. CASE i \in 1..x
      BY <3>4, <3>6
    <3>7. CASE i = x + 1
      BY <1>10, <3>3, <3>7
    <3>8. CASE i \in (x + 2)..y
      BY <2>1, <3>3, <3>8
    <3> QED
      BY <3>5, <3>6, <3>7, <3>8
  <2> HIDE DEF Q
  <2>4. N \in Q
    BY <2>2, <2>3, Induction
  <2> HIDE DEF found
  <2>5. \A i \in 1..o[N] : found(i) \in Seq(P)
    BY <2>4 DEF Q
  <2>6. PICK x \in Nat : x = o[N]
    <3>1. N \in 0..N
      BY <1>2
    <3> QED
      BY <1>4, <3>1
  <2>7. ASSUME NEW i \in 1..L PROVE found(i) \in Seq(P)
    <3>1. i \in 1..x \/ i \in (x + 1)..L
      BY <1>7, <2>6
    <3> QED
      BY <1>7, <2>1, <2>5, <2>6, <3>1
  <2> QED
    BY <2>7
<1> HIDE DEF found
<1>12. PICK ws : ws = [i \in DOMAIN f |-> Wanted(f[i])]
  OBVIOUS
<1>13. PICK T : T = Seq(P)
  OBVIOUS
<1>14. fs \in Seq(T) /\ Len(fs) = L /\ \A i \in 1..L : fs[i] = found(i)
  <2>1. \A i \in 1..L : found(i) \in T
    BY <1>11, <1>13
  <2> QED
    BY <1>5, <1>8, <2>1
<1>15. ws \in Seq(T) /\ Len(ws) = N /\ \A i \in 1..N : ws[i] = Wanted(f[i])
  <2>1. \A i \in 1..N : Wanted(f[i]) \in T
    BY <1>10, <1>13
  <2>2. ws = [i \in 1..N |-> Wanted(f[i])]
    BY <1>2, <1>12
  <2> QED
    BY <1>2, <2>1, <2>2
<1>16. PICK g : /\ g \in [0..L -> T] /\ g[0] = <<>> /\ FlattenSeq(fs) = g[L]
                /\ \A i \in 1..L : g[i] = g[i - 1] \o found(i)
  <2>1. PICK g : Sums(g, T, fs)
    BY <1>13, <1>14, FlatDef
  <2> QED
    BY <1>14, <2>1 DEF Sums
<1>17. PICK w : /\ w \in [0..N -> T] /\ w[0] = <<>> /\ FlattenSeq(ws) = w[N]
                /\ \A n \in 1..N : w[n] = w[n - 1] \o Wanted(f[n])
  <2>1. PICK w : Sums(w, T, ws)
    BY <1>13, <1>15, FlatDef
  <2> QED
    BY <1>15, <2>1 DEF Sums
<1>18. \A i \in 1..L : found(i) = <<>> => g[i] = g[i - 1]
  <2>1. ASSUME NEW i \in 1..L, found(i) = <<>> PROVE g[i] = g[i - 1]
    <3>1. i - 1 \in 0..L
      BY <1>5
    <3>2. PICK y \in Seq(P) : y = g[i - 1]
      BY <1>13, <1>16, <3>1
    <3>3. y \o <<>> = y
      BY ConcatEmptySeq
    <3>4. g[i] = g[i - 1] \o <<>>
      BY <1>16, <2>1
    <3> QED
      BY <3>2, <3>3, <3>4
  <2> QED
    BY <2>1
<1> DEFINE Q == {n \in Nat : n <= N => g[o[n]] = w[n]}
<1>19. 0 \in Q
  BY <1>4, <1>16, <1>17
<1>20. ASSUME NEW k \in Nat, k \in Q PROVE k + 1 \in Q
  <2> SUFFICES ASSUME k + 1 <= N PROVE g[o[k + 1]] = w[k + 1]
    OBVIOUS
  <2>1. PICK n \in 1..N : n = k + 1 /\ n - 1 = k
    BY <1>2
  <2>2. PICK x \in Nat, y \in Nat : x = o[k] /\ y = o[k + 1]
    <3>1. k \in 0..N /\ k + 1 \in 0..N
      BY <1>2
    <3> QED
      BY <1>4, <3>1
  <2>3. x + 1 <= y /\ y <= L /\ found(x + 1) = Wanted(f[n]) /\ \A j \in (x + 2)..y : found(j) = <<>>
    BY <1>6, <2>1, <2>2 DEF found
  <2>4. g[x] = w[k]
    BY <1>20, <2>2, <1>2
  <2>5. g[x + 1] = g[x] \o Wanted(f[n])
    <3>1. PICK i \in 1..L : i = x + 1 /\ i - 1 = x
      BY <1>5, <2>3
    <3> QED
      BY <1>16, <2>3, <3>1
  <2>6. w[n] = w[k] \o Wanted(f[n])
    BY <1>17, <2>1
  <2>7. g[x + 1] = w[n]
    BY <2>4, <2>5, <2>6
  <2>8. Steady(g, x + 1, y)
    <3>1. ASSUME NEW i \in ((x + 1) + 1)..y PROVE g[i] = g[i - 1]
      <4>1. i \in (x + 2)..y /\ i \in 1..L
        BY <1>5, <2>3
      <4> QED
        BY <1>18, <2>3, <4>1
    <3> QED
      BY <3>1 DEF Steady
  <2>9. g[y] = g[x + 1]
    <3>1. x + 1 \in Nat /\ x + 1 <= y
      BY <2>3
    <3> QED
      BY <2>8, <3>1, SteadyIs
  <2> QED
    BY <2>1, <2>2, <2>7, <2>9
<1> HIDE DEF Q
<1>21. N \in Q
  BY <1>19, <1>20, Induction
<1>22. g[L] = w[N]
  <2>1. PICK x \in Nat : x = o[N]
    <3>1. N \in 0..N
      BY <1>2
    <3> QED
      BY <1>4, <3>1
  <2>2. g[x] = w[N]
    BY <1>21, <2>1 DEF Q
  <2>3. Steady(g, x, L)
    <3>1. ASSUME NEW i \in (x + 1)..L PROVE g[i] = g[i - 1]
      <4>1. i \in 1..L
        OBVIOUS
      <4> QED
        BY <1>7, <1>18, <2>1, <4>1
    <3> QED
      BY <3>1 DEF Steady
  <2>4. x <= L
    BY <1>7, <2>1
  <2> QED
    BY <2>2, <2>3, <2>4, SteadyIs
<1> QED
  BY <1>9, <1>12, <1>16, <1>17, <1>22

-----------------------------------------------------------------------------
(* The forms of an exchange. *)

\* What the parts of a form are made of: values, and data around the bytes of
\* the uploads.
PartValues == Names \cup {CHOOSE n \in Names : TRUE, "file", "field", "text", NoFile}
PartData(Data) == Data \cup {<<"data", u>> : u \in Uploads}

\* What a client makes of uploads, fields and blanks is a form.
LEMMA FormType ==
    ASSUME NEW Items, NEW Data, NEW items \in Seq(Items), NEW names \in [Uploads -> Names], NEW pad \in Seq(Data)
    PROVE  FormOf(items, names, pad) \in Seq(PartsOf(PartValues, PartData(Data)))
<1>1. PICK E : E = PartData(Data)
  OBVIOUS
<1>2. pad \in Seq(E) /\ \A u \in Uploads : <<"data", u>> \in E
  BY <1>1 DEF PartData
<1>3. PICK P : P = PartsOf(PartValues, E)
  OBVIOUS
<1>4. ASSUME NEW item PROVE PartOf(item, names, pad) \in P
  <2>1. \A n \in Names : n \in PartValues
    BY DEF PartValues
  <2>2. "file" \in PartValues /\ "field" \in PartValues /\ "text" \in PartValues /\ NoFile \in PartValues
        /\ (CHOOSE n \in Names : TRUE) \in PartValues
    BY DEF PartValues
  <2>3. \A n, v \in PartValues, e \in Seq(E) : [name |-> n, filename |-> v, content_type |-> "text", data |-> e] \in P
    BY <1>3, <2>2 DEF PartsOf
  <2>4. CASE item \in Uploads
    <3>1. PICK x \in Seq(E) : x = <<<<"data", item>>>>
      <4>1. PICK z \in E : z = <<"data", item>>
        BY <1>2, <2>4
      <4>2. <<z>> \in Seq(E)
        OBVIOUS
      <4> QED
        BY <4>1, <4>2
    <3>2. pad \o x \in Seq(E)
      BY <1>2, <3>1, ConcatProperties
    <3>3. PICK e \in Seq(E) : e = pad \o x \o pad
      BY <1>2, <3>2, ConcatProperties
    <3>4. PICK v \in PartValues : v = names[item]
      BY <2>1, <2>4
    <3>5. PartOf(item, names, pad) = [name |-> "file", filename |-> v, content_type |-> "text", data |-> e]
      <4>1. PartOf(item, names, pad) = [name |-> "file", filename |-> names[item], content_type |-> "text",
                                        data |-> pad \o <<<<"data", item>>>> \o pad]
        BY <2>4 DEF PartOf
      <4> QED
        BY <3>1, <3>3, <3>4, <4>1
    <3> QED
      BY <2>2, <2>3, <3>5
  <2>5. CASE item \notin Uploads /\ item = "field"
    <3>1. PartOf(item, names, pad) = [name |-> "field", filename |-> NoFile, content_type |-> "text", data |-> pad]
      BY <2>5 DEF PartOf
    <3> QED
      BY <1>2, <2>2, <2>3, <3>1
  <2>6. CASE item \notin Uploads /\ item # "field"
    <3>1. PICK v \in PartValues : v = CHOOSE n \in Names : TRUE
      BY <2>2
    <3>2. PICK e \in Seq(E) : e = <<>>
      BY EmptySeq
    <3>3. PartOf(item, names, pad) = [name |-> "file", filename |-> v, content_type |-> "text", data |-> e]
      BY <2>6, <3>1, <3>2 DEF PartOf
    <3> QED
      BY <2>2, <2>3, <3>3
  <2> QED
    BY <2>4, <2>5, <2>6
<1>5. PICK n \in Nat : DOMAIN items = 1..n
  BY LenProperties
<1>6. FormOf(items, names, pad) = [i \in 1..n |-> PartOf(items[i], names, pad)]
  BY <1>5 DEF FormOf
<1>7. FormOf(items, names, pad) \in [1..n -> P]
  BY <1>4, <1>6
<1>8. FormOf(items, names, pad) \in Seq(P)
  BY <1>7
<1> QED
  BY <1>1, <1>3, <1>8

\* A form that has been parsed: what the parser and formData made of it.
FormInv(P) ==
    /\ form \in Seq(P) /\ nameFirst \in BOOLEAN
    /\ body = "alive" => parts = parse(Body(form, nameFirst), boundary)
    /\ body \notin {"none", "alive"} => parts = Dangle(parse(Body(form, nameFirst), boundary))
    /\ body # "none" => form_data = formData(parse(Body(form, nameFirst), boundary))

\* Only Request::parse and its return touch the parts.
LEMMA FormSteps ==
    ASSUME [XNext]_xvars
    PROVE  \/ ParseForm \/ ParseReturns
           \/ UNCHANGED <<sentform, parts, form_data, body>>
BY DEF XNext, Peer, HandleRequest, Http, ReceiveForm, Upgrade, Saving, NextPart, Save, Elsewhere,
       Ended, xvars, upvars, formvars

\* Whatever a client uploads, in whatever order the attributes are and whatever
\* its data holds except the boundary, the parser recovers the parts that were
\* sent, byte for byte, except files without data; the handler gets their names
\* and the fields' values, but no longer their data: the invariant
\* PartsRecovered of the run Exchange.
THEOREM FormsRecovered ==
    ASSUME NEW Items, NEW Data, B \notin Data, Forms \subseteq Seq(Items), Pads \subseteq Seq(Data)
    PROVE  XSpec => []PartsRecovered
<1>1. PICK P : P = PartsOf(PartValues, PartData(Data))
  OBVIOUS
<1>2. XInit => FormInv(P)
  <2> SUFFICES ASSUME XInit PROVE FormInv(P)
    OBVIOUS
  <2>1. CASE NoForm
    <3>1. form = <<>> /\ nameFirst = TRUE /\ body = "none"
      BY <2>1 DEF NoForm, NotParsed
    <3>2. nameFirst \in BOOLEAN
      BY <3>1, Zenon
    <3>3. <<>> \in Seq(P)
      BY EmptySeq
    <3> QED
      BY <3>1, <3>2, <3>3 DEF FormInv
  <2>2. CASE AForm
    <3>1. PICK items \in Forms, pad \in Pads : form = FormOf(items, name, pad)
      BY <2>2 DEF AForm
    <3>2. name \in [Uploads -> Names] /\ body = "none"
      BY <2>2 DEF AForm, FsStart, NotParsed
    <3>3. nameFirst \in BOOLEAN
      BY <2>2, Zenon DEF AForm
    <3>4. form \in Seq(P)
      BY <1>1, <3>1, <3>2, FormType
    <3> QED
      BY <3>2, <3>3, <3>4 DEF FormInv
  <2> QED
    BY <2>1, <2>2 DEF XInit
<1>3. FormInv(P) /\ [XNext]_xvars => FormInv(P)'
  <2> SUFFICES ASSUME FormInv(P), [XNext]_xvars PROVE FormInv(P)'
    OBVIOUS
  <2>1. CASE ParseForm
    <3>1. /\ form' = form /\ nameFirst' = nameFirst /\ boundary' = boundary /\ form_data' = formData(parts')
          /\ body' = "alive"
      BY <2>1 DEF ParseForm, sentform
    <3>2. parts' = parse(Body(form, nameFirst), boundary)
      <4>1. PICK f \in AllForms, first \in BOOLEAN, b \in Boundaries :
               <<f, first, b>> = sentform /\ parts' = parse(Body(f, first), b)
        <5>1. PICK q \in Parsed : <<q[1], q[2], q[3]>> = sentform /\ parts' = q[4]
          BY <2>1 DEF ParseForm
        <5>2. PICK f \in AllForms, first \in BOOLEAN, b \in Boundaries : q = <<f, first, b, parse(Body(f, first), b)>>
          BY <5>1 DEF Parsed
        <5>3. q[1] = f /\ q[2] = first /\ q[3] = b /\ q[4] = parse(Body(f, first), b)
          BY <5>2, Zenon
        <5> QED
          BY <5>1, <5>3, Zenon
      <4>2. f = form /\ first = nameFirst /\ b = boundary
        BY <4>1, Zenon DEF sentform
      <4> QED
        BY <4>1, <4>2, Zenon
    <3> QED
      BY <3>1, <3>2, Zenon DEF FormInv
  <2>2. CASE UNCHANGED <<sentform, parts, form_data, body>>
    <3>1. /\ form' = form /\ nameFirst' = nameFirst /\ boundary' = boundary
          /\ parts' = parts /\ form_data' = form_data /\ body' = body
      BY <2>2, Zenon DEF sentform
    <3> QED
      BY <3>1, Zenon DEF FormInv
  <2>3. CASE ParseReturns
    <3>1. /\ form' = form /\ nameFirst' = nameFirst /\ boundary' = boundary /\ form_data' = form_data
          /\ body = "alive" /\ body' = "freed" /\ parts' = Dangle(parts)
      BY <2>3, Zenon DEF ParseReturns, sentform
    <3>2. body # "none" /\ body' # "alive"
      BY <3>1
    <3> QED
      BY <3>1, <3>2, Zenon DEF FormInv
  <2> QED
    BY <2>1, <2>2, <2>3, FormSteps
<1>4. FormInv(P) => PartsRecovered
  <2> SUFFICES ASSUME FormInv(P), boundary # "followed", body # "none"
               PROVE  \A kept : kept = FlattenSeq([i \in DOMAIN form |-> Wanted(form[i])]) =>
                                     /\ parts = IF body = "alive" THEN kept ELSE Dangle(kept)
                                     /\ form_data = formData(kept)
    BY Zenon DEF PartsRecovered
  <2>1. B \notin PartData(Data)
    BY DEF PartData, B
  <2>2. form \in Seq(PartsOf(PartValues, PartData(Data))) /\ nameFirst \in BOOLEAN
    BY <1>1, Zenon DEF FormInv
  <2>3. parse(Body(form, nameFirst), boundary) = FlattenSeq([i \in DOMAIN form |-> Wanted(form[i])])
    BY <2>1, <2>2, FormRoundTrip, Zenon
  <2>4. CASE body = "alive"
    BY <2>3, <2>4, Zenon DEF FormInv
  <2>5. CASE body # "alive"
    <3>1. body \notin {"none", "alive"}
      BY <2>5
    <3> QED
      BY <2>3, <2>5, <3>1, Zenon DEF FormInv
  <2> QED
    BY <2>4, <2>5
<1> QED
  BY <1>2, <1>3, <1>4, PTL DEF XSpec

-----------------------------------------------------------------------------
(* Reading a request. *)

USE SizesNat

\* The values of HttpExchange's variables; what a client sends never exceeds
\* the request, and the worker has read no more than has arrived.
HttpTypes ==
    /\ hlen \in Nat \ {0} /\ blen \in Nat
    /\ arrived \in Nat /\ raw \in Nat /\ reads \in Nat
    /\ raw <= arrived /\ arrived <= hlen + blen
    /\ cl \in Spellings
    /\ pc \in {"header", "limits", "body", "parse", "send", "done"}

\* How far the worker has come at each point of handleRequest.
Progress ==
    /\ pc = "header" => raw < hlen
    /\ pc \in {"header", "limits"} => reads = 0
    /\ pc = "body" => raw >= hlen /\ cl # "unparsable"
    /\ pc = "parse" /\ cl = "unparsable" => raw < hlen
    /\ pc = "send" => verdict = "handled"
    /\ pc \notin {"send", "done"} => verdict = "none"

\* A request that is there when the worker begins is read to its end: every
\* read of the body loop but the last fills the buffer, and the loop gives up
\* only after more reads than that takes.
WholeIsRead ==
    whole =>
        /\ arrived = hlen + blen
        /\ pc = "limits" => raw >= hlen
        /\ pc = "body" => reads <= MaxReads /\ (raw - hlen >= reads * Buf \/ raw = hlen + blen)
        /\ pc = "parse" => raw >= hlen /\ (cl = "length" => raw = hlen + blen)

HttpInv == HttpTypes /\ Progress /\ HandledIsComplete

\* One more than the whole buffers that n bytes fill is enough for n bytes.
LEMMA ReadsSuffice ==
    ASSUME NEW n \in Nat, NEW b \in Nat \ {0}, NEW s \in Nat, NEW r \in Nat, r > n \div b + s
    PROVE  n < r * b
<1>1. n \div b \in Nat /\ n < (n \div b + 1) * b
  OBVIOUS
<1>2. PICK q \in Nat : q = n \div b
  BY <1>1
<1>3. \E d \in Nat : r = (q + 1) + d
  <2>1. r - (q + 1) \in Nat /\ r = (q + 1) + (r - (q + 1))
    BY <1>2
  <2> QED
    BY <2>1
<1>4. PICK d \in Nat : r = (q + 1) + d
  BY <1>3
<1>5. r * b = (q + 1) * b + d * b /\ d * b >= 0
  BY <1>4
<1> QED
  BY <1>1, <1>2, <1>5

\* What a step of the exchange is for the variables of HttpExchange.
LEMMA HttpSteps ==
    ASSUME [XNext]_xvars
    PROVE  \/ Arrive \/ Drain
           \/ ReadHeader \/ Limits \/ ReadBody \/ Parse \/ Send
           \/ Upgrade
           \/ UNCHANGED vars
BY DEF XNext, Peer, HandleRequest, Http, ReceiveForm, Ended, xvars

LEMMA XInitHttp == XInit => HttpInv /\ WholeIsRead
<1> SUFFICES ASSUME XInit PROVE HttpInv /\ WholeIsRead
  OBVIOUS
<1> USE DEF XInit, Init, Total
<1>1. hlen \in Nat \ {0} /\ blen \in Nat /\ hlen + blen \in Nat
  OBVIOUS
<1>2. HttpTypes
  BY <1>1 DEF HttpTypes
<1>3. Progress
  BY <1>1 DEF Progress
<1>4. HandledIsComplete
  BY DEF HandledIsComplete
<1>5. WholeIsRead
  <2>1. whole => arrived = Total
    BY Zenon
  <2> QED
    BY <2>1 DEF WholeIsRead
<1> QED
  BY <1>2, <1>3, <1>4, <1>5 DEF HttpInv

\* Only a complete request within the limits parses.
LEMMA ParsesIsComplete ==
    ASSUME HttpInv, pc = "parse", Parses
    PROVE  /\ wellformed /\ raw >= hlen /\ hlen <= MaxHeader + 4 /\ raw - hlen <= MaxBody
           /\ cl # "absent" => raw = Total
<1>1. wellformed
  BY Zenon DEF Parses
<1>2. raw >= hlen /\ hlen <= MaxHeader + 4 /\ raw - hlen <= MaxBody /\ (cl \in {"length", "tight"} => raw - hlen = blen)
  BY DEF Parses, LengthMatches
<1>3. cl # "absent" => raw = hlen + blen
  BY <1>2 DEF HttpInv, HttpTypes, Progress, Spellings
<1> QED
  BY <1>1, <1>2, <1>3 DEF Total, HttpInv, HttpTypes

LEMMA HttpInvStep ==
    ASSUME HttpInv, [XNext]_xvars
    PROVE  HttpInv'
<1> USE DEF HttpInv, request
<1>0. Readable \in Nat /\ Readable <= arrived - raw
  BY DEF HttpTypes, Readable, Least
<1>1. CASE Arrive
  <2>1. arrived' \in Nat /\ arrived <= arrived' /\ arrived' <= hlen + blen
    BY <1>1 DEF Arrive, Total, HttpTypes
  <2> QED
    BY <1>1, <2>1 DEF Arrive, HttpTypes, Progress, HandledIsComplete, Total
<1>2. CASE Drain
  BY <1>2 DEF Drain, HttpTypes, Progress, HandledIsComplete, Total
<1>3. CASE ReadHeader
  BY <1>0, <1>3 DEF ReadHeader, BreakWhenEmpty, HttpTypes, Progress, HandledIsComplete, Total
<1>4. CASE Limits
  BY <1>4 DEF Limits, Finish, HttpTypes, Progress, HandledIsComplete, Total
<1>5. CASE ReadBody
  BY <1>0, <1>5 DEF ReadBody, HttpTypes, Progress, HandledIsComplete, Total
<1>6. CASE Parse
  <2>1. UNCHANGED <<hlen, blen, wellformed, cl, arrived, raw, reads>> /\ pc = "parse"
    BY <1>6 DEF Parse
  <2>2. HttpTypes' /\ Progress'
    BY <1>6, <2>1 DEF Parse, Finish, HttpTypes, Progress
  <2>3. verdict' = "handled" => Parses
    BY <1>6 DEF Parse, Finish
  <2>4. HandledIsComplete'
    BY <2>1, <2>3, ParsesIsComplete DEF HandledIsComplete, Total
  <2> QED
    BY <2>2, <2>4
<1>7. CASE Send
  BY <1>7 DEF Send, HttpTypes, Progress, HandledIsComplete, Total
<1>8. CASE Upgrade
  <2>1. /\ UNCHANGED <<hlen, blen, wellformed, cl, arrived, raw, reads>>
        /\ pc = "parse" /\ Parses /\ pc' = "done" /\ verdict' = "handled"
    BY <1>8 DEF Upgrade
  <2>2. HttpTypes' /\ Progress'
    BY <2>1 DEF HttpTypes, Progress
  <2>3. HandledIsComplete'
    BY <2>1, ParsesIsComplete DEF HandledIsComplete, Total
  <2> QED
    BY <2>2, <2>3
<1>9. CASE UNCHANGED vars
  BY <1>9 DEF vars, HttpTypes, Progress, HandledIsComplete, Total
<1> QED
  BY HttpSteps, <1>1, <1>2, <1>3, <1>4, <1>5, <1>6, <1>7, <1>8, <1>9

\* Only well-formed requests within the limits reach the handlers, with their
\* whole header, and with their whole body if Request::parse finds its length,
\* whatever the sizes are and in whatever pieces they arrive: the invariant
\* HandledIsComplete of the run Exchange.  What makes it inductive is that a
\* request whose Content-Length std::stoul rejects gets past the limits only
\* while its header is incomplete, and that raw never exceeds the request.
THEOREM HandlersSeeWholeRequests == XSpec => []HandledIsComplete
<1>1. HttpInv => HandledIsComplete
  BY DEF HttpInv
<1> QED
  BY <1>1, XInitHttp, HttpInvStep, PTL DEF XSpec

LEMMA WholeIsReadStep ==
    ASSUME HttpInv, WholeIsRead, [XNext]_xvars
    PROVE  WholeIsRead'
<1> SUFFICES ASSUME whole' PROVE WholeIsRead'
  BY Zenon DEF WholeIsRead
<1>0. whole /\ UNCHANGED <<hlen, blen, cl>>
  BY HttpSteps DEF Arrive, Drain, ReadHeader, Limits, ReadBody, Parse, Send, Upgrade, vars, request
<1> USE DEF HttpInv, HttpTypes, Progress
<1>1. arrived = hlen + blen /\ arrived' = arrived
  <2>1. arrived = hlen + blen
    BY <1>0 DEF WholeIsRead
  <2>2. ~Arrive
    BY <2>1 DEF Arrive, Total
  <2> QED
    BY <2>1, <2>2, HttpSteps DEF Drain, ReadHeader, Limits, ReadBody, Parse, Send, Upgrade, vars, request
<1> DEFINE Whole ==
             /\ pc = "limits" => raw >= hlen
             /\ pc = "body" => reads <= MaxReads /\ (raw - hlen >= reads * Buf \/ raw = hlen + blen)
             /\ pc = "parse" => raw >= hlen /\ (cl = "length" => raw = hlen + blen)
<1>2. Whole
  BY <1>0 DEF WholeIsRead
<1>3. MaxReads \in Nat /\ MaxReads' = MaxReads /\ content_length \in Nat
  BY <1>0, SizesNat DEF MaxReads, content_length
<1>4. /\ Readable = Least(Buf, hlen + blen - raw)
      /\ Readable \in Nat /\ (Readable = 0 <=> raw = hlen + blen)
      /\ Readable = Buf \/ raw + Readable = hlen + blen
  BY <1>1 DEF Readable, Least
<1>5. ASSUME Drain \/ Send \/ Parse \/ Upgrade \/ Arrive \/ UNCHANGED vars PROVE Whole'
  <2>1. (pc' \in {"send", "done"}) \/ UNCHANGED <<pc, raw, reads>>
    BY <1>5 DEF Drain, Send, Parse, Finish, Upgrade, Arrive, vars
  <2> QED
    BY <1>0, <1>2, <1>3, <2>1
<1>6. ASSUME ReadHeader PROVE Whole'
  <2>1. pc' \in {"header", "limits"} /\ (pc' = "limits" => raw' >= hlen)
    BY <1>4, <1>6 DEF ReadHeader, BreakWhenEmpty
  <2> QED
    BY <1>0, <2>1
<1>7. ASSUME Limits PROVE Whole'
  <2>1. pc = "limits" /\ raw >= hlen /\ UNCHANGED <<raw, reads>> /\ reads = 0
    BY <1>2, <1>7 DEF Limits
  <2>2. pc' \in {"done", "body"}
    BY <1>7, <2>1 DEF Limits, Finish
  <2>3. reads * Buf = 0
    BY <2>1
  <2> QED
    BY <1>0, <1>3, <2>1, <2>2, <2>3
<1>8. ASSUME ReadBody PROVE Whole'
  <2>1. /\ pc = "body" /\ raw >= hlen
        /\ \/ cl = "length" /\ content_length = blen
           \/ cl # "length" /\ content_length = 0
    <3>1. pc = "body"
      BY <1>8 DEF ReadBody
    <3> QED
      BY <3>1 DEF content_length
  <2>2. CASE raw - hlen >= content_length \/ Readable = 0
    BY <1>0, <1>4, <1>8, <2>1, <2>2 DEF ReadBody
  <2>3. CASE raw - hlen < content_length /\ Readable > 0
    <3>1. /\ raw' = raw + Readable /\ reads' = reads + 1
          /\ pc' = IF reads' > MaxReads THEN "parse" ELSE "body"
      BY <1>3, <1>8, <2>3 DEF ReadBody
    <3>0. content_length = blen
      BY <2>1, <2>3
    <3>2. raw - hlen >= reads * Buf
      BY <1>2, <2>1, <2>3, <3>0
    <3>3. reads' * Buf = reads * Buf + Buf /\ reads * Buf \in Nat
      BY <3>1
    <3>4. raw' - hlen >= reads' * Buf \/ raw' = hlen + blen
      BY <1>4, <3>1, <3>2, <3>3
    <3>5. reads' > MaxReads => raw' = hlen + blen
      <4>1. reads' > MaxReads => blen < reads' * Buf
        BY <3>0, <3>1, ReadsSuffice DEF MaxReads
      <4>2. raw' <= hlen + blen
        BY <1>4, <3>1 DEF Least
      <4> QED
        BY <3>1, <3>3, <3>4, <4>1, <4>2
    <3> QED
      BY <1>0, <1>3, <1>4, <2>1, <3>1, <3>4, <3>5
  <2> QED
    BY <1>8, <2>2, <2>3 DEF ReadBody
<1>9. Whole'
  BY HttpSteps, <1>5, <1>6, <1>7, <1>8
<1> QED
  BY <1>0, <1>1, <1>9 DEF WholeIsRead

\* A request within the limits that has arrived before the worker reads it is
\* handled, whatever its size is relative to the buffer: the invariant
\* WithinLimitsIsHandled of the run Exchange.  The limit of uploads is checked
\* for every body, so it must not be below that of bodies, as it is not in
\* Config{}.
THEOREM LegalRequestsAreHandled ==
    ASSUME MaxBody <= MaxUpload
    PROVE  XSpec => []WithinLimitsIsHandled
<1>1. Init => WithinLimitsIsHandled
  BY DEF Init, WithinLimitsIsHandled
<1>2. HttpInv /\ WholeIsRead /\ WithinLimitsIsHandled /\ [XNext]_xvars => WithinLimitsIsHandled'
  <2> SUFFICES ASSUME HttpInv, WholeIsRead, WithinLimitsIsHandled, [XNext]_xvars,
                      pc' \in {"send", "done"}, WithinLimits', whole'
               PROVE  verdict' = "handled"
    BY DEF WithinLimitsIsHandled
  <2>1. WithinLimits /\ whole
    <3>1. UNCHANGED <<hlen, blen, cl, wellformed, whole>>
      BY HttpSteps DEF Arrive, Drain, ReadHeader, Limits, ReadBody, Parse, Send, Upgrade, vars, request
    <3> QED
      BY <3>1, Zenon DEF WithinLimits
  <2>2. /\ hlen <= MaxHeader /\ blen <= MaxBody /\ cl # "unparsable"
        /\ cl = "tight" => blen = 0
    BY <2>1 DEF WithinLimits
  <2>3. wellformed
    BY <2>1, Zenon DEF WithinLimits
  <2> USE DEF HttpInv, HttpTypes, Progress
  <2>4. ~OverUpload
    BY <2>2 DEF OverUpload, content_length
  <2>5. ASSUME pc = "parse" PROVE Parses /\ raw > 0
    <3>1. raw >= hlen /\ raw <= hlen + blen /\ (cl = "length" => raw = hlen + blen)
      BY <2>1, <2>5 DEF WholeIsRead
    <3>2. TotalWithin /\ raw >= hlen /\ hlen <= MaxHeader + 4 /\ raw - hlen <= MaxBody /\ LengthMatches
      BY <2>2, <3>1 DEF TotalWithin, LengthMatches
    <3>3. Parses
      BY <2>3, <3>2, Zenon DEF Parses
    <3> QED
      BY <3>1, <3>3
  <2>6. CASE Arrive \/ Drain \/ UNCHANGED vars
    BY <2>1, <2>6 DEF Arrive, Drain, vars, WithinLimitsIsHandled
  <2>7. CASE Send
    BY <2>7 DEF Send
  <2>8. CASE ReadHeader \/ ReadBody
    BY <2>8 DEF ReadHeader, ReadBody, BreakWhenEmpty
  <2>9. CASE Limits
    <3>1. cl # "unparsable" /\ ~OverUpload
      BY <2>2, <2>4
    <3> QED
      BY <2>9, <3>1 DEF Limits, Finish
  <2>10. CASE Parse
    BY <2>5, <2>10 DEF Parse, Finish
  <2>11. CASE Upgrade
    BY <2>11 DEF Upgrade
  <2> QED
    BY HttpSteps, <2>6, <2>7, <2>8, <2>9, <2>10, <2>11
<1>3. XInit => Init
  BY DEF XInit
<1> QED
  BY <1>1, <1>2, <1>3, XInitHttp, HttpInvStep, WholeIsReadStep, PTL DEF XSpec
-----------------------------------------------------------------------------
(* Storing uploads. *)

USE NoUploadIsNone, DotlessAreNames, MaxCountNat, ContentsDiffer

SaverTypes ==
    /\ name \in [Uploads -> Names]
    /\ disk \in [Files -> Uploads \cup {Absent, Empty, Other}]
    /\ spc \in [Threads -> {"idle", "resolve", "exists", "open", "write"}]
    /\ upload \in [Threads -> Uploads \cup {NoUpload}]
    /\ count \in [Threads -> 0..MaxCount]
    /\ result \in [Uploads -> {"none", "true", "false", "threw"}]
    /\ crossed \subseteq Uploads

\* A part is stored by one call at most, and has no result before it returns.
OwnUploads ==
    /\ \A t \in Threads : spc[t] # "idle" => upload[t] \in Uploads
    /\ \A t \in Threads : spc[t] = "idle" => upload[t] = NoUpload
    /\ \A s, t \in Threads : spc[s] # "idle" /\ upload[s] = upload[t] => s = t

\* Two calls for one name that are under way at the same time have met.
MeetingsNoted ==
    \A s, t \in Threads :
        s # t /\ spc[s] # "idle" /\ spc[t] # "idle" /\ name[upload[s]] = name[upload[t]] => upload[s] \in crossed

\* A call has a name of its own from the moment it found it free.
Claims(t, f) == spc[t] \in {"open", "write"} /\ Target(t) = f

\* A file that was stored, and that no call under way is going to open or write.
Safe(u, f) == disk[f] = u /\ \A t \in Threads : ~Claims(t, f)

StoredIsSafe == \A u \in Uploads \ crossed : result[u] = "true" => \E f \in Files : Safe(u, f)

SaverInv == SaverTypes /\ OwnUploads /\ MeetingsNoted /\ StoredIsSafe

LEMMA SaverSteps ==
    ASSUME [XNext]_xvars
    PROVE  \/ \E t \in Threads : Step(t) \/ \E u \in Uploads : Begin(t, u)
           \/ UNCHANGED fsvars
BY HandlerIsThread, TheirsAreUploads
   DEF XNext, Peer, HandleRequest, Http, ReceiveForm, ParseForm, Upgrade, Saving, ParseReturns, NextPart, Save,
       Elsewhere, Ended, xvars, upvars

LEMMA XInitSaver == XInit => SaverInv
<1> SUFFICES ASSUME XInit PROVE SaverInv
  OBVIOUS
<1>1. (FsInit \/ FsStart) /\ NoCalls
  BY DEF XInit, NoForm, AForm, FsInit, FsStart
<1>2. (CHOOSE n \in Names : TRUE) \in Names
  OBVIOUS
<1>3. name \in [Uploads -> Names] /\ disk \in [Files -> {Absent, Other}]
  BY <1>1, <1>2 DEF FsInit, FsStart
<1>4. SaverTypes
  BY <1>1, <1>3 DEF SaverTypes, NoCalls
<1>5. OwnUploads /\ MeetingsNoted /\ StoredIsSafe
  BY <1>1 DEF NoCalls, OwnUploads, MeetingsNoted, StoredIsSafe
<1> QED
  BY <1>4, <1>5 DEF SaverInv

LEMMA TargetIsFile ==
    ASSUME SaverInv, NEW t \in Threads, spc[t] # "idle"
    PROVE  Target(t) \in Files
BY DEF SaverInv, SaverTypes, OwnUploads, Target, Files

\* A step that stores nothing new leaves stored files safe: it changes no file
\* but one that a call holds, and a call gets hold of no file but a free one.
LEMMA SafeStays ==
    ASSUME StoredIsSafe, crossed \subseteq crossed',
           \A u \in Uploads : result'[u] = "true" => result[u] = "true",
           \A f \in Files : disk'[f] # disk[f] => \E t \in Threads : Claims(t, f),
           \A t \in Threads, f \in Files : Claims(t, f)' => Claims(t, f) \/ disk[f] \notin Uploads
    PROVE  StoredIsSafe'
<1> SUFFICES ASSUME NEW u \in Uploads, u \notin crossed', result'[u] = "true"
             PROVE  \E f \in Files : Safe(u, f)'
  BY DEF StoredIsSafe
<1>1. PICK f \in Files : Safe(u, f)
  BY DEF StoredIsSafe
<1>2. disk'[f] = u /\ \A t \in Threads : ~Claims(t, f)'
  BY <1>1 DEF Safe
<1> QED
  BY <1>2 DEF Safe

LEMMA SaverInvStep == SaverInv /\ [XNext]_xvars => SaverInv'
<1> SUFFICES ASSUME SaverInv, [XNext]_xvars PROVE SaverInv'
  OBVIOUS
<1>1. ASSUME NEW t \in Threads, NEW u \in Uploads, Begin(t, u) PROVE SaverInv'
  <2>1. /\ spc[t] = "idle" /\ result[u] = "none" /\ \A s \in Threads : upload[s] # u
        /\ upload' = [upload EXCEPT ![t] = u] /\ count' = [count EXCEPT ![t] = 0]
        /\ spc' = [spc EXCEPT ![t] = "resolve"]
        /\ crossed' = IF Meets(u) = {} THEN crossed ELSE crossed \cup Meets(u) \cup {u}
        /\ UNCHANGED <<name, disk, result>>
    BY <1>1 DEF Begin, Pending
  <2>2. SaverTypes'
    <3>1. Meets(u) \subseteq Uploads
      BY DEF Meets
    <3> QED
      BY <2>1, <3>1 DEF SaverInv, SaverTypes
  <2>3. OwnUploads'
    BY <2>1 DEF SaverInv, SaverTypes, OwnUploads
  <2>4. \A s \in Threads : s # t => spc'[s] = spc[s] /\ upload'[s] = upload[s] /\ count'[s] = count[s]
    BY <2>1 DEF SaverInv, SaverTypes
  <2>5. spc'[t] = "resolve" /\ upload'[t] = u
    BY <2>1 DEF SaverInv, SaverTypes
  <2>6. crossed \subseteq crossed'
    BY <2>1
  <2>7. MeetingsNoted'
    <3> SUFFICES ASSUME NEW r \in Threads, NEW s \in Threads, r # s, spc'[r] # "idle", spc'[s] # "idle",
                        name[upload'[r]] = name[upload'[s]]
                 PROVE  upload'[r] \in crossed'
      BY <2>1 DEF MeetingsNoted
    <3>1. CASE r = t
      <4>1. s # t /\ upload[s] \in Meets(u)
        BY <2>4, <2>5, <3>1 DEF Meets, SaverInv, OwnUploads
      <4> QED
        BY <2>1, <2>5, <3>1, <4>1
    <3>2. CASE s = t
      <4>1. r # t /\ upload[r] \in Meets(u)
        BY <2>4, <2>5, <3>2 DEF Meets, SaverInv, OwnUploads
      <4> QED
        BY <2>1, <2>4, <4>1
    <3>3. CASE r # t /\ s # t
      BY <2>4, <2>6, <3>3 DEF MeetingsNoted, SaverInv
    <3> QED
      BY <3>1, <3>2, <3>3
  <2>8. \A s \in Threads, f \in Files : Claims(s, f)' => Claims(s, f)
    BY <2>1, <2>4, <2>5 DEF Claims, Target
  <2>9. StoredIsSafe'
    BY <2>1, <2>6, <2>8, SafeStays DEF SaverInv
  <2> QED
    BY <2>2, <2>3, <2>7, <2>9 DEF SaverInv
<1>2. ASSUME NEW t \in Threads, NEW r \in {"false", "threw"}, spc[t] # "idle", Return(t, r),
             UNCHANGED <<name, disk, crossed>>
      PROVE  SaverInv'
  <2>1. upload[t] \in Uploads
    BY <1>2 DEF SaverInv, OwnUploads
  <2>2. SaverTypes'
    BY <1>2, <2>1 DEF SaverInv, SaverTypes, Return
  <2>3. OwnUploads' /\ MeetingsNoted'
    BY <1>2 DEF SaverInv, SaverTypes, OwnUploads, MeetingsNoted, Return
  <2>4. \A s \in Threads, f \in Files : Claims(s, f)' => Claims(s, f)
    BY <1>2 DEF Claims, Target, Return, SaverInv, SaverTypes
  <2>5. \A u \in Uploads : result'[u] = "true" => result[u] = "true"
    BY <1>2 DEF Return, SaverInv, SaverTypes
  <2>6. StoredIsSafe'
    BY <1>2, <2>4, <2>5, SafeStays DEF SaverInv
  <2> QED
    BY <2>2, <2>3, <2>6 DEF SaverInv
<1>3. ASSUME NEW t \in Threads, Step(t) PROVE SaverInv'
  <2>0. UNCHANGED crossed
    BY <1>3 DEF Step
  <2>1. CASE Reject(t) \/ ThrowsDotless(t) \/ OpenFails(t) \/ WriteFails(t)
    BY <1>2, <2>0, <2>1 DEF Reject, ThrowsDotless, OpenFails, WriteFails
  <2>2. CASE Resolve(t) \/ TryNext(t) \/ Free(t)
    <3>1. UNCHANGED <<name, disk, upload, result>> /\ spc[t] \in {"resolve", "exists"}
      BY <2>2 DEF Resolve, TryNext, Free
    <3>2. \E pc1 \in {"exists", "open"} : spc' = [spc EXCEPT ![t] = pc1]
      BY <2>2 DEF Resolve, TryNext, Free, SaverInv, SaverTypes
    <3>3. \E k \in 0..MaxCount : count' = [count EXCEPT ![t] = k]
      BY <2>2 DEF Resolve, TryNext, Free, NextCount, SaverInv, SaverTypes
    <3>4. SaverTypes' /\ OwnUploads' /\ MeetingsNoted'
      BY <2>0, <3>1, <3>2, <3>3 DEF SaverInv, SaverTypes, OwnUploads, MeetingsNoted
    <3>5. \A s \in Threads : s # t => spc'[s] = spc[s] /\ Target(s)' = Target(s)
      BY <3>1, <3>2, <3>3 DEF Target, SaverInv, SaverTypes
    <3>6. spc'[t] # "write" /\ (spc'[t] = "open" => disk[Target(t)'] = Absent)
      BY <2>2 DEF Resolve, TryNext, Free, Taken, Target, SaverInv, SaverTypes
    <3>7. \A s \in Threads, f \in Files : Claims(s, f)' => Claims(s, f) \/ disk[f] \notin Uploads
      BY <3>5, <3>6 DEF Claims
    <3>8. StoredIsSafe'
      BY <2>0, <3>1, <3>7, SafeStays DEF SaverInv
    <3> QED
      BY <3>4, <3>8 DEF SaverInv
  <2>3. CASE Open(t)
    <3>1. Claims(t, Target(t)) /\ Target(t) \in Files
      BY <2>3, TargetIsFile DEF Open, Claims
    <3>2. SaverTypes' /\ OwnUploads' /\ MeetingsNoted'
      BY <2>0, <2>3, <3>1 DEF Open, SaverInv, SaverTypes, OwnUploads, MeetingsNoted
    <3>3. \A f \in Files : f # Target(t) => disk'[f] = disk[f]
      BY <2>3 DEF Open, SaverInv, SaverTypes
    <3>4. \A s \in Threads, f \in Files : Claims(s, f)' => Claims(s, f)
      BY <2>3 DEF Open, Claims, Target, SaverInv, SaverTypes
    <3>5. StoredIsSafe'
      BY <2>0, <2>3, <3>1, <3>3, <3>4, SafeStays DEF Open, SaverInv
    <3> QED
      BY <3>2, <3>5 DEF SaverInv
  <2>4. CASE Write(t)
    <3>1. Claims(t, Target(t)) /\ Target(t) \in Files /\ upload[t] \in Uploads
      BY <2>4, TargetIsFile DEF Write, Claims, SaverInv, OwnUploads
    <3>2. SaverTypes'
      BY <2>0, <2>4, <3>1 DEF Write, Return, SaverInv, SaverTypes
    <3>3. OwnUploads' /\ MeetingsNoted'
      BY <2>0, <2>4 DEF Write, Return, SaverInv, SaverTypes, OwnUploads, MeetingsNoted
    <3>4. /\ disk'[Target(t)] = upload[t]
          /\ \A f \in Files : f # Target(t) => disk'[f] = disk[f]
          /\ \A u \in Uploads : u # upload[t] => result'[u] = result[u]
      BY <2>4, <3>1 DEF Write, Return, SaverInv, SaverTypes
    <3>5. \A s \in Threads, f \in Files : Claims(s, f)' => s # t /\ Claims(s, f)
      BY <2>4 DEF Write, Return, Claims, Target, SaverInv, SaverTypes
    <3>6. ASSUME NEW u \in Uploads, u \notin crossed, result'[u] = "true" PROVE \E f \in Files : Safe(u, f)'
      <4>1. CASE u = upload[t]
        <5>1. PICK f \in Files : f = Target(t)
          BY <3>1
        <5>2. \A s \in Threads : s # t => ~Claims(s, f)
          BY <2>4, <3>6, <4>1, <5>1 DEF Claims, Target, Write, SaverInv, MeetingsNoted
        <5>3. disk'[f] = u /\ \A s \in Threads : ~Claims(s, f)'
          BY <3>4, <3>5, <4>1, <5>1, <5>2
        <5> QED
          BY <5>3 DEF Safe
      <4>2. CASE u # upload[t]
        <5>1. PICK f \in Files : Safe(u, f)
          BY <3>4, <3>6, <4>2 DEF SaverInv, StoredIsSafe
        <5>2. f # Target(t)
          BY <3>1, <5>1 DEF Safe
        <5>3. disk'[f] = u /\ \A s \in Threads : ~Claims(s, f)'
          BY <3>4, <3>5, <5>1, <5>2 DEF Safe
        <5> QED
          BY <5>3 DEF Safe
      <4> QED
        BY <4>1, <4>2
    <3>7. StoredIsSafe'
      BY <2>0, <3>6 DEF StoredIsSafe
    <3> QED
      BY <3>2, <3>3, <3>7 DEF SaverInv
  <2> QED
    BY <1>3, <2>1, <2>2, <2>3, <2>4 DEF Step
<1>4. CASE UNCHANGED fsvars
  <2>1. SaverTypes' /\ OwnUploads' /\ MeetingsNoted'
    BY <1>4 DEF fsvars, call, SaverInv, SaverTypes, OwnUploads, MeetingsNoted
  <2>2. \A s \in Threads, f \in Files : Claims(s, f)' => Claims(s, f)
    BY <1>4 DEF fsvars, call, Claims, Target
  <2>3. StoredIsSafe'
    BY <1>4, <2>2, SafeStays DEF fsvars, SaverInv
  <2> QED
    BY <2>1, <2>3 DEF SaverInv
<1> QED
  BY SaverSteps, <1>1, <1>3, <1>4

\* What saveFile reported as stored stays on the disk, whatever the directory
\* held and however many workers store however many uploads, if no other call
\* for its name was under way at the same time: the invariant StoredIsKept of
\* the run Exchange.  What makes it inductive is that a stored file is one that
\* no call under way has found free.
THEOREM StoredFilesStay == XSpec => []StoredIsKept
<1>1. SaverInv => StoredIsKept
  BY DEF SaverInv, StoredIsSafe, Safe, StoredIsKept
<1> QED
  BY <1>1, XInitSaver, SaverInvStep, PTL DEF XSpec
-----------------------------------------------------------------------------
(* The WebSocket's loop. *)

ExtUnits(f) == IF HasExt(f) THEN 2 ELSE 0
MaskUnits(f) == IF f.masked THEN 2 ELSE 0

SentFrame ==
    [op : {f.op : f \in Frames}, len : Nat, masked : {f.masked : f \in Frames}, end : Nat]
ReplyHeader == [to : Nat, op : {"pong", "close"}, head : {SentHeader(n) : n \in Nat}]

WsTypes ==
    /\ sent \in Seq(SentFrame) /\ messages \in Seq(Nat) /\ replies \in Seq(ReplyHeader)
    /\ came \in Nat /\ took \in Nat

\* Frames follow one another in the stream, the worker is behind the network,
\* and the network behind the client.
Stream ==
    /\ \A i \in 1..Len(sent) : EndOf(i) = EndOf(i - 1) + Units(sent[i])
    /\ \A i, j \in 0..Len(sent) : i < j => EndOf(i) < EndOf(j)
    /\ took <= came /\ came <= EndOf(Len(sent))
    /\ fin => came = EndOf(Len(sent))
    /\ aligned => \E k \in 0..Len(sent) : came = EndOf(k)

Fields == {"ext", "limit", "mask", "payload", "opcode"}

\* Where in its frame the worker is when it has read no field short.
Place ==
    /\ pc # "done" => wpc = "none"
    /\ wpc \in {"none", "open", "head"} \cup Fields => insync
    /\ insync =>
          /\ wpc \notin {"lost", "garbled"}
          /\ Len(messages) <= Len(sent)
          /\ messages = [i \in 1..Len(messages) |-> i]
          /\ wpc \in {"none", "open", "wait", "head"} => took = EndOf(Len(messages))
          /\ wpc \in Fields => Len(messages) < Len(sent)
          /\ wpc = "ext" => took = EndOf(Len(messages)) + 2 /\ HasExt(Current)
          /\ wpc \in {"limit", "mask"} => took = EndOf(Len(messages)) + 2 + ExtUnits(Current)
          /\ wpc = "mask" => MaskUnits(Current) = 2
          /\ wpc = "payload" => took = EndOf(Len(messages)) + 2 + ExtUnits(Current) + MaskUnits(Current)
          /\ wpc \in {"mask", "payload", "opcode"} => Current.len <= MaxPayload
          /\ wpc = "opcode" => took = EndOf(Len(messages) + 1) /\ Current.len > 0
          /\ \A i \in 1..Len(messages) : ~EndsLoop(sent[i])

\* Why the loop ends.
Endings ==
    /\ wpc = "head" => came > took \/ fin
    /\ aligned => insync
    /\ aligned /\ wpc = "close" => IF Len(messages) = Len(sent) THEN fin ELSE EndsLoop(Current)

\* What has been answered.
Answered ==
    /\ insync => FramesInOrder
    /\ wpc \notin {"close", "done"} => \A i \in 1..Len(replies) : replies[i].to <= Len(messages)

WsInv == WsTypes /\ Stream /\ Place /\ Endings /\ Answered

USE LengthsNat

LEMMA FrameFacts ==
    ASSUME NEW f, f.len \in Nat
    PROVE  /\ Units(f) = 2 + ExtUnits(f) + MaskUnits(f) + (IF f.len > 0 THEN 2 ELSE 0)
           /\ ExtUnits(f) \in {0, 2} /\ MaskUnits(f) \in {0, 2}
           /\ HasExt(f) => ExtUnits(f) = 2
           /\ ~HasExt(f) => ExtUnits(f) = 0
           /\ f.masked => MaskUnits(f) = 2
           /\ ~f.masked => MaskUnits(f) = 0
<1>1. Units(f) = 2 + ExtUnits(f) + MaskUnits(f) + (IF f.len > 0 THEN 2 ELSE 0)
  BY DEF Units, ExtUnits, MaskUnits
<1>2. ExtUnits(f) \in {0, 2} /\ (HasExt(f) => ExtUnits(f) = 2) /\ (~HasExt(f) => ExtUnits(f) = 0)
  BY DEF ExtUnits
<1>3. MaskUnits(f) \in {0, 2} /\ (f.masked => MaskUnits(f) = 2) /\ (~f.masked => MaskUnits(f) = 0)
  BY DEF MaskUnits
<1> QED
  BY <1>1, <1>2, <1>3

\* readFrame finds the length that the client has put in, and sendFrame writes
\* the header that RFC 6455 asks for, whatever the length.
LEMMA LengthsRoundTrip ==
    /\ \A f : f.len \in Nat => PayloadLen(f) = f.len
    /\ \A n \in Nat : SentHeader(n) = RfcHeader(n)
<1>1. ASSUME NEW n \in Nat
      PROVE  /\ n <= 125 => RfcHeader(n) = [len7 |-> n, ext |-> 0]
             /\ n > 125 /\ n <= 65535 => RfcHeader(n) = [len7 |-> 126, ext |-> n]
             /\ n > 65535 => RfcHeader(n) = [len7 |-> 127, ext |-> n]
  <2>1. CASE n <= 125
    BY <2>1 DEF RfcHeader
  <2>2. CASE n > 125 /\ n <= 65535
    BY <2>2 DEF RfcHeader
  <2>3. CASE n > 65535
    BY <2>3 DEF RfcHeader
  <2> QED
    BY <2>1, <2>2, <2>3
<1>2. ASSUME NEW n \in Nat PROVE SentHeader(n) = RfcHeader(n)
  BY <1>1 DEF SentHeader, IsSmall
<1>3. ASSUME NEW f, f.len \in Nat PROVE PayloadLen(f) = f.len
  BY <1>1, <1>3 DEF PayloadLen, HasExt
<1> QED
  BY <1>2, <1>3

LEMMA EndsAreNumbers ==
    ASSUME WsTypes
    PROVE  \A i \in 0..Len(sent) : EndOf(i) \in Nat
<1> SUFFICES ASSUME NEW i \in 0..Len(sent) PROVE EndOf(i) \in Nat
  OBVIOUS
<1>1. CASE i = 0
  BY <1>1 DEF EndOf
<1>2. CASE i # 0
  <2>1. sent[i] \in SentFrame
    BY <1>2 DEF WsTypes
  <2> QED
    BY <1>2, <2>1 DEF EndOf, SentFrame
<1> QED
  BY <1>1, <1>2

\* The frame that the worker is at.
LEMMA CurrentFrame ==
    ASSUME WsTypes, Stream, Len(messages) < Len(sent)
    PROVE  /\ Len(messages) \in Nat /\ Len(messages) + 1 \in 1..Len(sent)
           /\ Current = sent[Len(messages) + 1] /\ Current.len \in Nat
           /\ EndOf(Len(messages)) \in Nat
           /\ EndOf(Len(messages) + 1) = EndOf(Len(messages)) + Units(Current)
           /\ PayloadLen(Current) = Current.len
<1>1. Len(messages) \in Nat /\ Len(sent) \in Nat /\ Len(messages) + 1 \in 1..Len(sent)
  BY DEF WsTypes
<1>2. Current \in SentFrame
  BY <1>1 DEF WsTypes, Current
<1>3. Current.len \in Nat
  BY <1>2 DEF SentFrame
<1>4. EndOf(Len(messages)) \in Nat
  BY <1>1, EndsAreNumbers
<1> QED
  BY <1>1, <1>3, <1>4, LengthsRoundTrip DEF Stream, Current

\* What has arrived of the frame that the worker is at: all of it, if frames
\* arrive whole.
LEMMA Behind ==
    ASSUME WsTypes, Stream, Len(messages) <= Len(sent), came > EndOf(Len(messages))
    PROVE  /\ Len(messages) < Len(sent)
           /\ aligned => came >= EndOf(Len(messages) + 1)
<1>1. Len(messages) \in Nat /\ Len(sent) \in Nat
  BY DEF WsTypes
<1>2. \A i \in 0..Len(sent) : EndOf(i) \in Nat
  BY EndsAreNumbers
<1>3. Len(messages) # Len(sent)
  BY <1>1, <1>2 DEF WsTypes, Stream
<1>4. ASSUME aligned PROVE came >= EndOf(Len(messages) + 1)
  <2>1. PICK k \in 0..Len(sent) : came = EndOf(k)
    BY <1>4 DEF Stream
  <2>2. k > Len(messages)
    <3>1. ~(k < Len(messages)) /\ k # Len(messages)
      BY <1>1, <1>2, <2>1 DEF Stream
    <3> QED
      BY <1>1, <3>1
  <2>3. k = Len(messages) + 1 \/ Len(messages) + 1 < k
    BY <1>1, <2>2
  <2> QED
    BY <1>1, <1>2, <1>3, <2>1, <2>3 DEF Stream
<1> QED
  BY <1>1, <1>3, <1>4
\* What a step of the exchange is for the variables of WebSocket.
LEMMA WsSteps ==
    ASSUME [XNext]_xvars
    PROVE  \/ Client /\ pc' = pc
           \/ Run /\ pc' = pc
           \/ Upgrade
           \/ UNCHANGED wsvars /\ (pc = "done" => pc' = "done")
<1>1. CASE Peer
  BY <1>1 DEF Peer, Arrive, Drain, vars
<1>2. CASE Http
  BY <1>2 DEF Http, ReadHeader, Limits, ReadBody, Parse, Send
<1>3. CASE ReceiveForm
  BY <1>3 DEF ReceiveForm, Parse
<1>4. CASE HandleRequest
  BY <1>2, <1>3, <1>4 DEF HandleRequest, vars
<1>5. CASE Ended \/ UNCHANGED xvars \/ (Elsewhere /\ UNCHANGED <<vars, wsvars, kind>>)
  BY <1>5 DEF Ended, xvars, vars
<1> QED
  BY <1>1, <1>4, <1>5 DEF XNext

LEMMA XInitWs == XInit => WsInv
<1> SUFFICES ASSUME XInit PROVE WsInv
  OBVIOUS
<1> USE DEF XInit, WsInit, Init
<1>1. WsTypes
  BY EmptySeq DEF WsTypes
<1>2. Stream
  <2>1. 0 \in 0..Len(sent) /\ came = EndOf(0) /\ Len(sent) = 0 /\ ~fin
    BY DEF EndOf
  <2> QED
    BY <2>1 DEF Stream
<1>3. Place
  <2>1. Len(messages) = 0 /\ messages = [i \in 1..0 |-> i]
    OBVIOUS
  <2>2. insync
    BY Zenon
  <2> QED
    BY <2>1, <2>2 DEF Place, Fields, EndOf
<1>4. Endings /\ Answered
  <2>1. insync
    BY Zenon
  <2>2. Len(messages) = 0 /\ messages = [i \in 1..0 |-> i] /\ DOMAIN messages = {} /\ DOMAIN replies = {}
    OBVIOUS
  <2> QED
    BY <2>1, <2>2 DEF Endings, Answered, FramesInOrder
<1> QED
  BY <1>1, <1>2, <1>3, <1>4 DEF WsInv

-----------------------------------------------------------------------------
\* What does not touch the stream's contents keeps what has been answered.
LEMMA AnsweredKept ==
    ASSUME WsTypes, Place, Answered, insync' => insync,
           wpc \in {"close", "done"} => wpc' \in {"close", "done"},
           UNCHANGED <<messages, replies>>,
           insync => \A i \in 1..Len(messages) : sent'[i] = sent[i]
    PROVE  Answered'
<1>1. ASSUME insync' PROVE FramesInOrder'
  <2>1. insync /\ FramesInOrder
    BY <1>1 DEF Answered
  <2>2. DOMAIN messages = 1..Len(messages) /\ \A i \in 1..Len(messages) : sent'[i] = sent[i]
    BY <2>1 DEF WsTypes
  <2>3. /\ messages = [i \in 1..Len(messages) |-> i]
        /\ \A i, j \in DOMAIN replies : i < j => replies[i].to < replies[j].to
        /\ \A i \in DOMAIN replies : replies[i].op = "pong" =>
              /\ replies[i].to \in DOMAIN messages /\ sent[replies[i].to].op = "ping"
              /\ replies[i].head = RfcHeader(sent[replies[i].to].len)
        /\ \A n \in DOMAIN messages : sent[n].op = "ping" =>
              \E i \in DOMAIN replies : replies[i].to = n /\ replies[i].op = "pong"
    BY <2>1 DEF FramesInOrder
  <2> QED
    BY <2>2, <2>3 DEF FramesInOrder
<1>2. wpc' \notin {"close", "done"} => \A i \in 1..Len(replies') : replies'[i].to <= Len(messages')
  BY DEF Answered
<1> QED
  BY <1>1, <1>2 DEF Answered

\* What only adds to the stream leaves the worker where it is in its frame.
LEMMA PlaceKept ==
    ASSUME WsTypes, Place, UNCHANGED <<pc, took, wpc, insync, messages>>,
           Len(sent') \in Nat, Len(sent) <= Len(sent'), \A i \in 1..Len(sent) : sent'[i] = sent[i]
    PROVE  Place'
<1>0. Len(sent) \in Nat /\ Len(messages) \in Nat
  BY DEF WsTypes
<1>1. /\ pc' # "done" => wpc' = "none"
      /\ wpc' \in {"none", "open", "head"} \cup Fields => insync'
  BY DEF Place
<1>2. ASSUME insync'
      PROVE  /\ wpc' \notin {"lost", "garbled"}
             /\ Len(messages') <= Len(sent')
             /\ messages' = [i \in 1..Len(messages') |-> i]
             /\ wpc' \in {"none", "open", "wait", "head"} => took' = EndOf(Len(messages))'
             /\ wpc' \in Fields => Len(messages') < Len(sent')
             /\ wpc' = "ext" => took' = EndOf(Len(messages))' + 2 /\ HasExt(Current')
             /\ wpc' \in {"limit", "mask"} => took' = EndOf(Len(messages))' + 2 + ExtUnits(Current')
             /\ wpc' = "mask" => MaskUnits(Current') = 2
             /\ wpc' = "payload" => took' = EndOf(Len(messages))' + 2 + ExtUnits(Current') + MaskUnits(Current')
             /\ wpc' \in {"mask", "payload", "opcode"} => Current'.len <= MaxPayload
             /\ wpc' = "opcode" => took' = EndOf(Len(messages) + 1)' /\ Current'.len > 0
             /\ \A i \in 1..Len(messages') : ~EndsLoop(sent'[i])
  <2>1. insync
    BY <1>2
  <2>2. Len(messages) <= Len(sent)
    BY <2>1 DEF Place
  <2>3. EndOf(Len(messages))' = EndOf(Len(messages))
    BY <1>0, <2>2 DEF EndOf
  <2>4. wpc \in Fields => Current' = Current /\ EndOf(Len(messages) + 1)' = EndOf(Len(messages) + 1)
    BY <1>0, <2>1 DEF EndOf, Current, Place
  <2>5. wpc \in {"ext", "limit", "mask", "payload", "opcode"} => wpc \in Fields
    BY DEF Fields
  <2>6. \A i \in 1..Len(messages) : sent'[i] = sent[i]
    BY <1>0, <2>2
  <2> QED
    BY <1>0, <2>1, <2>2, <2>3, <2>4, <2>5, <2>6 DEF Place
<1> QED
  BY <1>1, <1>2 DEF Place

LEMMA WsClientStep ==
    ASSUME WsInv, Client, pc' = pc
    PROVE  WsInv'
<1> USE DEF WsInv
<1>0. Len(sent) \in Nat /\ Len(messages) \in Nat /\ \A i \in 0..Len(sent) : EndOf(i) \in Nat
  BY EndsAreNumbers DEF WsTypes
<1>1. ASSUME NEW f \in Frames, ClientSends(f) PROVE WsInv'
  <2>1. PICK g : g = [op |-> f.op, len |-> f.len, masked |-> f.masked, end |-> EndOf(Len(sent)) + Units(f)]
    OBVIOUS
  <2>2. g \in SentFrame /\ Units(g) = Units(f) /\ Units(g) \in Nat /\ Units(g) >= 2
    <3>1. f.len \in Nat /\ Units(f) \in Nat /\ Units(f) >= 2
      BY FrameFacts
    <3>2. g.len = f.len /\ g.masked = f.masked
      BY <2>1
    <3>3. Units(g) = Units(f)
      BY <3>2 DEF Units, HasExt
    <3> QED
      BY <1>0, <2>1, <3>1, <3>3 DEF SentFrame
  <2>3. /\ sent' = Append(sent, g) /\ ~fin
        /\ UNCHANGED <<came, aligned, fin, took, wpc, insync, messages, replies>>
    BY <1>1, <2>1 DEF ClientSends
  <2>4. /\ sent' \in Seq(SentFrame) /\ Len(sent') = Len(sent) + 1
        /\ \A i \in 1..Len(sent) : sent'[i] = sent[i]
        /\ sent'[Len(sent) + 1] = g
    BY <2>2, <2>3, AppendProperties DEF WsTypes
  <2>5. \A i \in 0..Len(sent) : EndOf(i)' = EndOf(i)
    BY <1>0, <2>4 DEF EndOf
  <2>6. PICK m \in Nat : m = Len(sent)
    BY <1>0
  <2>7. EndOf(m + 1)' = EndOf(m) + Units(g)
    <3>1. g.end = EndOf(m) + Units(g)
      BY <2>1, <2>2, <2>6
    <3> QED
      BY <2>4, <2>6, <3>1 DEF EndOf
  <2>8. WsTypes'
    BY <2>3, <2>4 DEF WsTypes
  <2>9. Stream'
    <3>1. \A i \in 1..(m + 1) : EndOf(i)' = EndOf(i - 1)' + Units(sent'[i])
      <4>1. ASSUME NEW i \in 1..m PROVE EndOf(i)' = EndOf(i - 1)' + Units(sent'[i])
        <5>1. i \in 1..Len(sent) /\ i \in 0..Len(sent) /\ i - 1 \in 0..Len(sent)
          BY <2>6
        <5>2. EndOf(i) = EndOf(i - 1) + Units(sent[i])
          BY <5>1 DEF Stream
        <5> QED
          BY <2>4, <2>5, <5>1, <5>2
      <4>2. EndOf(m + 1)' = EndOf(m)' + Units(sent'[m + 1])
        BY <2>4, <2>5, <2>6, <2>7
      <4>3. \A i \in 1..(m + 1) : i \in 1..m \/ i = m + 1
        OBVIOUS
      <4>4. (m + 1) - 1 = m
        OBVIOUS
      <4> QED
        BY <4>1, <4>2, <4>3, <4>4
    <3>2. \A i, j \in 0..(m + 1) : i < j => EndOf(i)' < EndOf(j)'
      <4>1. \A i, j \in 0..m : i < j => EndOf(i)' < EndOf(j)'
        BY <2>5, <2>6 DEF Stream
      <4>2. \A i \in 0..m : EndOf(i)' <= EndOf(m)' /\ EndOf(i)' \in Nat
        BY <1>0, <2>5, <2>6, <4>1
      <4>3. \A i \in 0..m : EndOf(i)' < EndOf(m + 1)'
        BY <1>0, <2>2, <2>5, <2>6, <2>7, <4>2
      <4> QED
        BY <4>1, <4>3
    <3>3. came' <= EndOf(m + 1)'
      <4>1. came <= EndOf(m) /\ EndOf(m) \in Nat /\ came \in Nat
        BY <1>0, <2>6 DEF Stream, WsTypes
      <4> QED
        BY <2>2, <2>3, <2>7, <4>1
    <3>4. aligned' => \E k \in 0..(m + 1) : came' = EndOf(k)'
      BY <2>3, <2>5, <2>6 DEF Stream
    <3>5. Len(sent') = m + 1 /\ took' <= came' /\ ~fin'
      BY <2>3, <2>4, <2>6 DEF Stream
    <3> QED
      BY <3>1, <3>2, <3>3, <3>4, <3>5 DEF Stream
  <2>10. Place'
    BY <1>0, <2>3, <2>4, PlaceKept
  <2>11. Endings'
    <3>1. ASSUME aligned', wpc' = "close" PROVE Len(messages') # Len(sent') /\ EndsLoop(Current')
      <4>1. insync /\ Len(messages) # Len(sent) /\ EndsLoop(Current)
        BY <2>3, <3>1 DEF Endings
      <4>2. Len(messages) < Len(sent)
        BY <1>0, <4>1 DEF Place
      <4>3. Current' = Current
        BY <1>0, <2>3, <2>4, <4>2 DEF Current
      <4> QED
        BY <1>0, <2>3, <2>4, <4>1, <4>2, <4>3
    <3>2. (wpc' = "head" => came' > took' \/ fin') /\ (aligned' => insync')
      BY <2>3 DEF Endings
    <3> QED
      BY <3>1, <3>2 DEF Endings
  <2>12. Answered'
    BY <2>3, <2>4, AnsweredKept DEF Place
  <2> QED
    BY <2>8, <2>9, <2>10, <2>11, <2>12
<1>2. ASSUME NEW n \in 1..8, Deliver(n) PROVE WsInv'
  <2>1. /\ UNCHANGED <<sent, fin, took, wpc, insync, messages, replies>> /\ came' = came + n
        /\ came + n <= EndOf(Len(sent)) /\ ~fin
    BY <1>2 DEF Deliver, Stream, WsTypes
  <2>2. aligned' => aligned /\ \E k \in 0..Len(sent) : EndOf(k) = came'
    <3>1. aligned' => aligned /\ \E k \in DOMAIN sent : EndOf(k) = came'
      BY <1>2, Zenon DEF Deliver
    <3>2. DOMAIN sent \subseteq 0..Len(sent)
      BY DEF WsTypes
    <3> QED
      BY <3>1, <3>2
  <2>3. WsTypes'
    BY <2>1 DEF WsTypes
  <2>4. Stream'
    <3>1. \A k \in 0..Len(sent) : EndOf(k)' = EndOf(k)
      BY <2>1 DEF EndOf
    <3>2. EndOf(Len(sent))' = EndOf(Len(sent))
      BY <2>1 DEF EndOf
    <3>3. aligned' => \E k \in 0..Len(sent') : came' = EndOf(k)'
      BY <2>1, <2>2, <3>1
    <3>4. /\ \A i \in 1..Len(sent') : EndOf(i)' = EndOf(i - 1)' + Units(sent'[i])
          /\ \A i, j \in 0..Len(sent') : i < j => EndOf(i)' < EndOf(j)'
      BY <2>1 DEF Stream, EndOf
    <3>5. took' <= came' /\ came' <= EndOf(Len(sent))' /\ ~fin'
      BY <2>1, <3>2 DEF Stream, WsTypes
    <3> QED
      BY <3>3, <3>4, <3>5 DEF Stream
  <2>5. Place'
    BY <1>0, <2>1, PlaceKept
  <2>6. Endings'
    <3>1. wpc' = "head" => came' > took' \/ fin'
      BY <2>1 DEF Stream, WsTypes
    <3>2. /\ aligned' => insync'
          /\ aligned' /\ wpc' = "close" => IF Len(messages') = Len(sent') THEN fin' ELSE EndsLoop(Current')
      BY <2>1, <2>2 DEF Endings, Current
    <3> QED
      BY <3>1, <3>2 DEF Endings
  <2>7. Answered'
    BY <2>1, AnsweredKept
  <2> QED
    BY <2>3, <2>4, <2>5, <2>6, <2>7
<1>3. CASE ClientCloses
  <2>1. /\ UNCHANGED <<sent, came, aligned, took, wpc, insync, messages, replies>>
        /\ came = EndOf(Len(sent)) /\ ~fin
    BY <1>3 DEF ClientCloses
  <2>2. fin'
    BY <1>3, Zenon DEF ClientCloses
  <2>3. WsTypes'
    BY <2>1 DEF WsTypes
  <2>4. Stream'
    BY <2>1 DEF Stream, EndOf
  <2>5. Place'
    BY <1>0, <2>1, PlaceKept
  <2>6. Endings'
    BY <2>1, <2>2 DEF Endings, Current
  <2>7. Answered'
    BY <2>1, AnsweredKept
  <2> QED
    BY <2>3, <2>4, <2>5, <2>6, <2>7
<1> QED
  BY <1>1, <1>2, <1>3 DEF Client
-----------------------------------------------------------------------------
\* Steps of the worker read on in a stream that stays as it is.
LEMMA StreamKept ==
    ASSUME WsTypes, Stream, UNCHANGED stream, took' \in Nat, took' <= came
    PROVE  Stream'
BY DEF Stream, stream, EndOf

\* A read that finds nothing or a part of a field: with frames that arrive
\* whole it only happens at the end of the stream.
LEMMA ShortRead ==
    ASSUME WsInv, wpc \in {"head", "ext", "mask", "payload"},
           wpc = "payload" => Current.len > 0, Avail \in {0, 1}
    PROVE  aligned => Avail = 0 /\ fin /\ Len(messages) = Len(sent)
<1> USE DEF WsInv
<1> SUFFICES ASSUME aligned PROVE Avail = 0 /\ fin /\ Len(messages) = Len(sent)
  OBVIOUS
<1>0. /\ Len(sent) \in Nat /\ Len(messages) \in Nat /\ Len(messages) <= Len(sent)
      /\ EndOf(Len(messages)) \in Nat /\ EndOf(Len(sent)) \in Nat
  BY EndsAreNumbers DEF WsTypes, Place, Endings
<1>1. insync
  BY DEF Endings
<1>2. took \in Nat /\ came \in Nat /\ took <= came /\ Avail = came - took
  BY DEF WsTypes, Stream, Avail
<1>3. CASE wpc = "head"
  <2>1. took = EndOf(Len(messages))
    BY <1>1, <1>3 DEF Place
  <2>2. came = took
    <3> SUFFICES ASSUME came > took PROVE FALSE
      BY <1>2
    <3>1. Len(messages) < Len(sent) /\ came >= EndOf(Len(messages) + 1)
      BY <1>0, <2>1, Behind
    <3>2. came >= EndOf(Len(messages)) + Units(Current) /\ Units(Current) \in Nat /\ Units(Current) >= 2
      BY <3>1, CurrentFrame, FrameFacts
    <3> QED
      BY <1>0, <1>2, <2>1, <3>2
  <2>3. fin
    BY <1>3, <2>2, <1>2 DEF Endings
  <2>4. EndOf(Len(messages)) = EndOf(Len(sent))
    BY <2>1, <2>2, <2>3 DEF Stream
  <2>5. Len(messages) = Len(sent)
    <3>1. Len(messages) \in 0..Len(sent) /\ Len(sent) \in 0..Len(sent)
      BY <1>0
    <3> QED
      BY <1>0, <2>4, <3>1 DEF Stream
  <2> QED
    BY <1>2, <2>2, <2>3, <2>5
<1>4. CASE wpc # "head"
  <2>1. /\ Len(messages) < Len(sent)
        /\ wpc = "ext" => took = EndOf(Len(messages)) + 2 /\ HasExt(Current)
        /\ wpc = "mask" => took = EndOf(Len(messages)) + 2 + ExtUnits(Current) /\ MaskUnits(Current) = 2
        /\ wpc = "payload" => took = EndOf(Len(messages)) + 2 + ExtUnits(Current) + MaskUnits(Current)
    BY <1>1, <1>4 DEF Place, Fields
  <2>2. /\ Current.len \in Nat
        /\ EndOf(Len(messages) + 1) = EndOf(Len(messages)) + Units(Current)
    BY <2>1, CurrentFrame
  <2>3. /\ Units(Current) = 2 + ExtUnits(Current) + MaskUnits(Current) + (IF Current.len > 0 THEN 2 ELSE 0)
        /\ ExtUnits(Current) \in {0, 2} /\ MaskUnits(Current) \in {0, 2}
        /\ HasExt(Current) => ExtUnits(Current) = 2
    BY <2>2, FrameFacts
  <2>4. took > EndOf(Len(messages)) /\ took + 2 <= EndOf(Len(messages) + 1)
    BY <1>0, <1>2, <1>4, <2>1, <2>2, <2>3, SMTT(60)
  <2>5. came >= EndOf(Len(messages) + 1)
    <3>1. came > EndOf(Len(messages))
      BY <1>0, <1>2, <2>4
    <3> QED
      BY <1>0, <3>1, Behind
  <2> QED
    BY <1>0, <1>2, <2>2, <2>3, <2>4, <2>5, SMTT(60)
<1> QED
  BY <1>3, <1>4

\* The place of a worker that is in step, with one frame at hand.
At(n, f) ==
    /\ wpc = "ext" => took = EndOf(n) + 2 /\ HasExt(f)
    /\ wpc \in {"limit", "mask"} => took = EndOf(n) + 2 + ExtUnits(f)
    /\ wpc = "mask" => MaskUnits(f) = 2
    /\ wpc = "payload" => took = EndOf(n) + 2 + ExtUnits(f) + MaskUnits(f)
    /\ wpc \in {"mask", "payload", "opcode"} => f.len <= MaxPayload
    /\ wpc = "opcode" => took = EndOf(n + 1) /\ f.len > 0

LEMMA NextField ==
    ASSUME WsInv, insync, Len(messages) < Len(sent), UNCHANGED <<stream, pc, insync, messages>>,
           wpc' \in Fields, pc = "done",
           NEW n \in Nat, n = Len(messages), NEW f, f = Current,
           At(n, f)'
    PROVE  Place'
<1>1. UNCHANGED sent
  BY DEF stream
<1>2. EndOf(Len(messages))' = EndOf(n)' /\ EndOf(Len(messages) + 1)' = EndOf(n + 1)' /\ Current' = f
  BY <1>1 DEF EndOf, Current
<1>3. /\ wpc' \notin {"lost", "garbled", "none", "open", "wait", "head"}
      /\ Len(messages') < Len(sent') /\ Len(messages') <= Len(sent')
  BY <1>1 DEF Fields, WsInv, WsTypes
<1>4. messages' = [i \in 1..Len(messages') |-> i] /\ \A i \in 1..Len(messages') : ~EndsLoop(sent'[i])
  BY <1>1 DEF WsInv, Place
<1>5. /\ wpc' = "ext" => took' = EndOf(n)' + 2 /\ HasExt(f)
      /\ wpc' \in {"limit", "mask"} => took' = EndOf(n)' + 2 + ExtUnits(f)
      /\ wpc' = "mask" => MaskUnits(f) = 2
      /\ wpc' = "payload" => took' = EndOf(n)' + 2 + ExtUnits(f) + MaskUnits(f)
      /\ wpc' \in {"mask", "payload", "opcode"} => f.len <= MaxPayload
      /\ wpc' = "opcode" => took' = EndOf(n + 1)' /\ f.len > 0
  BY DEF At
<1> QED
  BY <1>2, <1>3, <1>4, <1>5 DEF Place

\* A read of a field, if a whole one leads to the right place.
LEMMA ReadFieldStep ==
    ASSUME WsInv, pc' = pc, NEW here \in {"head", "ext", "mask", "payload"},
           NEW next \in Fields, ReadField(here, next),
           here = "payload" => Current.len > 0,
           Avail >= 2 /\ wpc' = next /\ took' = took + 2 /\ insync' = insync => Place'
    PROVE  WsInv'
<1> USE DEF WsInv
<1>0. wpc = here /\ insync /\ UNCHANGED <<sent, came, aligned, fin, messages, replies>> /\ UNCHANGED stream
  <2>1. wpc = here /\ UNCHANGED <<sent, came, aligned, fin, messages, replies>> /\ UNCHANGED stream
    BY DEF ReadField, stream
  <2>2. insync
    BY <2>1 DEF Place, Fields
  <2> QED
    BY <2>1, <2>2
<1>1. took \in Nat /\ came \in Nat /\ took <= came /\ Avail = came - took
  BY DEF WsTypes, Stream, Avail
<1>2. took' \in Nat /\ took' <= came
  BY <1>1 DEF ReadField
<1>3. WsTypes' /\ Stream'
  BY <1>0, <1>2, StreamKept DEF WsTypes
<1>4. Answered'
  BY <1>0, AnsweredKept
<1>5. CASE Avail = 0
  <2>1. wpc' = "close" /\ UNCHANGED <<took, insync>>
    BY <1>5 DEF ReadField
  <2>2. Place'
    BY <1>0, <2>1 DEF Place, Fields, EndOf
  <2>3. aligned => fin /\ Len(messages) = Len(sent)
    BY <1>0, <1>5, ShortRead
  <2>4. Endings'
    BY <1>0, <2>1, <2>3 DEF Endings
  <2> QED
    BY <1>3, <1>4, <2>2, <2>4
<1>6. CASE Avail = 1
  <2>1. wpc' = "garbled"
    BY <1>6 DEF ReadField
  <2>2. ~insync'
    BY <1>6, <1>1 DEF ReadField
  <2>3. pc = "done"
    BY <1>0 DEF Place
  <2>4. Place'
    BY <2>1, <2>2, <2>3 DEF Place, Fields
  <2>5. ~aligned
    BY <1>0, <1>6, ShortRead
  <2>6. Endings'
    BY <1>0, <2>1, <2>5 DEF Endings
  <2> QED
    BY <1>3, <1>4, <2>4, <2>6
<1>7. CASE Avail >= 2
  <2>1. wpc' = next /\ took' = took + 2 /\ insync' = insync
    BY <1>1, <1>7 DEF ReadField
  <2>2. Endings'
    BY <1>0, <2>1 DEF Endings, Fields
  <2> QED
    BY <1>3, <1>4, <1>7, <2>1, <2>2
<1> QED
  BY <1>1, <1>5, <1>6, <1>7

LEMMA WsRunStep ==
    ASSUME WsInv, Run, pc' = pc
    PROVE  WsInv'
<1> USE DEF WsInv
<1>0. /\ Len(sent) \in Nat /\ Len(messages) \in Nat /\ took \in Nat /\ came \in Nat /\ took <= came
      /\ Avail = came - took
  BY DEF WsTypes, Stream, Avail
<1>1. PICK n \in Nat : n = Len(messages)
  BY <1>0
<1>2. CASE RunOpen \/ RunClose
  <2>1. /\ UNCHANGED <<stream, sent, came, aligned, fin, took, insync, messages, replies>>
        /\ wpc \in {"open", "close"} /\ wpc' \in {"wait", "done"} /\ (wpc = "close" => wpc' = "done")
    BY <1>2 DEF RunOpen, RunClose, stream
  <2>2. WsTypes' /\ Stream'
    BY <1>0, <2>1, StreamKept DEF WsTypes
  <2>3. Place'
    BY <2>1 DEF Place, Fields, EndOf
  <2>4. Endings'
    BY <2>1 DEF Endings
  <2>5. Answered'
    BY <2>1, AnsweredKept
  <2> QED
    BY <2>2, <2>3, <2>4, <2>5
<1>3. CASE EpollWait
  <2>1. /\ UNCHANGED <<stream, sent, came, aligned, fin, took, insync, messages, replies>>
        /\ wpc = "wait" /\ wpc' = IF insync THEN "head" ELSE "lost"
        /\ came > took \/ fin
    BY <1>0, <1>3 DEF EpollWait, stream, Wakes
  <2>2. WsTypes' /\ Stream'
    BY <1>0, <2>1, StreamKept DEF WsTypes
  <2>3. Place'
    BY <2>1 DEF Place, Fields, EndOf
  <2>4. Endings'
    BY <2>1 DEF Endings
  <2>5. Answered'
    BY <2>1, AnsweredKept
  <2> QED
    BY <2>2, <2>3, <2>4, <2>5
<1>4. CASE ReadLost \/ Garbled
  <2>1. /\ UNCHANGED <<stream, sent, came, aligned, fin, insync, replies>>
        /\ wpc \in {"lost", "garbled"} /\ wpc' \in {"close", "garbled", "wait"}
    BY <1>4 DEF ReadLost, Garbled, stream
  <2>2. ~insync /\ ~insync' /\ ~aligned /\ pc = "done"
    BY <2>1 DEF Place, Endings
  <2>3. took' \in Nat /\ took' <= came
    BY <1>0, <1>4 DEF ReadLost, Garbled
  <2>4. messages' = messages \/ messages' = Append(messages, 0)
    BY <1>4 DEF ReadLost, Garbled
  <2>5. messages' \in Seq(Nat) /\ Len(messages') \in Nat /\ Len(messages') >= Len(messages)
    <3>1. CASE messages' = messages
      BY <3>1 DEF WsTypes
    <3>2. CASE messages' = Append(messages, 0)
      BY <3>2, AppendProperties DEF WsTypes
    <3> QED
      BY <2>4, <3>1, <3>2
  <2>6. WsTypes' /\ Stream'
    BY <1>0, <2>1, <2>3, <2>5, StreamKept DEF WsTypes
  <2>7. Place' /\ Endings'
    BY <2>1, <2>2 DEF Place, Endings, Fields
  <2>8. Answered'
    <3>1. \A i \in 1..Len(replies) : replies[i].to <= Len(messages) /\ replies[i].to \in Nat
      <4>1. \A i \in 1..Len(replies) : replies[i] \in ReplyHeader
        BY DEF WsTypes
      <4> QED
        BY <2>1, <4>1 DEF Answered, ReplyHeader
    <3> QED
      BY <1>0, <2>1, <2>2, <2>5, <3>1 DEF Answered
  <2> QED
    BY <2>6, <2>7, <2>8
<1>5. ASSUME wpc \in {"head"} \cup Fields
      PROVE  insync /\ pc = "done" /\ Len(messages) <= Len(sent) /\ EndOf(n) \in Nat
  BY <1>0, <1>1, <1>5, EndsAreNumbers DEF Place, Fields
<1>6. ASSUME wpc \in Fields
      PROVE  /\ Len(messages) < Len(sent) /\ Current.len \in Nat /\ PayloadLen(Current) = Current.len
             /\ EndOf(n + 1) = EndOf(n) + Units(Current) /\ At(n, Current)
  <2>1. Len(messages) < Len(sent)
    BY <1>5, <1>6 DEF Place
  <2>2. At(n, Current)
    BY <1>1, <1>5, <1>6 DEF Place, At
  <2> QED
    BY <1>1, <2>1, <2>2, CurrentFrame
<1>7. PICK f : f = Current
  OBVIOUS
<1>8. ASSUME UNCHANGED stream
      PROVE  EndOf(n)' = EndOf(n) /\ EndOf(n + 1)' = EndOf(n + 1)
  BY <1>8 DEF stream, EndOf
<1>9. ASSUME NEW here \in {"head", "ext", "mask", "payload"}, NEW next \in Fields, ReadField(here, next),
             here = "payload" => Current.len > 0,
             wpc' = next /\ took' = took + 2 /\ Avail >= 2 => Len(messages) < Len(sent) /\ At(n, f)'
      PROVE  WsInv'
  <2>1. wpc = here /\ UNCHANGED <<stream, messages>> /\ wpc \in {"head"} \cup Fields
    BY <1>9 DEF ReadField, Fields
  <2>2. Avail >= 2 /\ wpc' = next /\ took' = took + 2 /\ insync' = insync => Place'
    BY <1>1, <1>5, <1>7, <1>9, <2>1, NextField
  <2> QED
    BY <1>9, <2>2, ReadFieldStep
<1>10. CASE ReadHead
  <2>1. PICK next \in {"ext", "limit"} : next = IF HasExt(f) THEN "ext" ELSE "limit"
    OBVIOUS
  <2>2. ReadField("head", next) /\ wpc = "head" /\ UNCHANGED stream
    BY <1>7, <1>10, <2>1 DEF ReadHead, ReadField
  <2>3. took = EndOf(n) /\ EndOf(n) \in Nat /\ Len(messages) <= Len(sent)
    BY <1>1, <1>5, <2>2 DEF Place
  <2>4. ASSUME wpc' = next, took' = took + 2, Avail >= 2
        PROVE  Len(messages) < Len(sent) /\ At(n, f)'
    <3>1. Len(messages) < Len(sent)
      <4>1. came > EndOf(Len(messages))
        BY <1>0, <1>1, <2>3, <2>4
      <4> QED
        BY <2>3, <4>1, Behind
    <3>2. f.len \in Nat
      BY <1>7, <3>1, CurrentFrame
    <3>3. HasExt(f) => ExtUnits(f) = 2
      BY <3>2, FrameFacts
    <3>4. ~HasExt(f) => ExtUnits(f) = 0
      BY <3>2, FrameFacts
    <3>5. took' = EndOf(n)' + 2
      BY <1>8, <2>2, <2>3, <2>4
    <3> QED
      BY <1>8, <2>1, <2>2, <2>3, <2>4, <3>1, <3>3, <3>4, <3>5 DEF At
  <2> QED
    BY <1>9, <2>1, <2>2, <2>4 DEF Fields
<1>11. CASE ReadExt
  <2>1. ReadField("ext", "limit") /\ wpc = "ext" /\ UNCHANGED stream
    BY <1>11 DEF ReadExt, ReadField
  <2>2. /\ Len(messages) < Len(sent) /\ took = EndOf(n) + 2 /\ HasExt(f) /\ f.len \in Nat /\ EndOf(n) \in Nat
    BY <1>5, <1>6, <1>7, <2>1 DEF Fields, At
  <2>3. ExtUnits(f) = 2
    BY <2>2, FrameFacts
  <2>4. ASSUME wpc' = "limit", took' = took + 2 PROVE At(n, f)'
    BY <1>8, <2>1, <2>2, <2>3, <2>4 DEF At
  <2> QED
    BY <1>9, <2>1, <2>2, <2>4 DEF Fields
<1>12. CASE ReadMask
  <2>1. ReadField("mask", "payload") /\ wpc = "mask" /\ UNCHANGED stream
    BY <1>12 DEF ReadMask, ReadField
  <2>2. /\ Len(messages) < Len(sent) /\ took = EndOf(n) + 2 + ExtUnits(f) /\ MaskUnits(f) = 2
        /\ f.len \in Nat /\ f.len <= MaxPayload /\ EndOf(n) \in Nat
    BY <1>5, <1>6, <1>7, <2>1 DEF Fields, At
  <2>3. ExtUnits(f) \in Nat
    BY <2>2, FrameFacts
  <2>4. ASSUME wpc' = "payload", took' = took + 2 PROVE At(n, f)'
    BY <1>8, <2>1, <2>2, <2>3, <2>4 DEF At
  <2> QED
    BY <1>9, <2>1, <2>2, <2>4 DEF Fields
<1>13. ASSUME wpc \in Fields, UNCHANGED <<stream, took, insync, messages>>, wpc' = "close",
              EndsLoop(Current), WsTypes', Answered'
       PROVE  WsInv'
  <2>1. UNCHANGED <<sent, came, aligned, fin>>
    BY <1>13 DEF stream
  <2>2. insync /\ Len(messages) < Len(sent)
    BY <1>5, <1>6, <1>13
  <2>3. Stream'
    BY <1>0, <1>13, StreamKept
  <2>4. Place'
    BY <1>13, <2>1, <2>2 DEF Place, Fields
  <2>5. Endings'
    <3>1. Current' = Current /\ Len(messages') # Len(sent') /\ insync'
      BY <1>0, <1>13, <2>1, <2>2 DEF Current
    <3> QED
      BY <1>13, <3>1 DEF Endings
  <2> QED
    BY <1>13, <2>3, <2>4, <2>5
<1>14. CASE CheckLimit
  <2>1. /\ wpc = "limit" /\ UNCHANGED <<stream, took, insync, messages, replies>>
        /\ UNCHANGED <<sent, came, aligned, fin>>
        /\ wpc' = IF TooLong THEN "close" ELSE AfterLength
    BY <1>14 DEF CheckLimit, stream
  <2>2. WsTypes' /\ Stream' /\ Answered'
    <3>1. WsTypes' /\ Stream'
      BY <1>0, <2>1, StreamKept DEF WsTypes
    <3>2. Answered'
      BY <2>1, AnsweredKept
    <3> QED
      BY <3>1, <3>2
  <2>3. wpc \in Fields
    BY <2>1 DEF Fields
  <2>4. Len(messages) < Len(sent) /\ took = EndOf(n) + 2 + ExtUnits(f) /\ f.len \in Nat /\ EndOf(n) \in Nat
    BY <1>5, <1>6, <1>7, <2>1, <2>3 DEF At
  <2>5. TooLong <=> f.len > MaxPayload
    BY <1>6, <1>7, <2>3 DEF TooLong
  <2>6. MaxPayload \in Nat
    BY DEF MaxPayload
  <2>7. CASE f.len > MaxPayload
    BY <1>7, <1>13, <2>1, <2>2, <2>3, <2>5, <2>7 DEF EndsLoop
  <2>8. CASE ~(f.len > MaxPayload)
    <3>1. wpc' = AfterLength /\ AfterLength \in {"mask", "payload"}
      BY <2>1, <2>5, <2>8 DEF AfterLength
    <3>2. AfterLength = "mask" => MaskUnits(f) = 2
      BY <1>7 DEF AfterLength, MaskUnits
    <3>3. AfterLength = "payload" => MaskUnits(f) = 0
      BY <1>7 DEF AfterLength, MaskUnits
    <3>4. ExtUnits(f) \in Nat
      BY <2>4, FrameFacts
    <3>5. At(n, f)'
      BY <1>8, <2>1, <2>4, <2>6, <2>8, <3>1, <3>2, <3>3, <3>4 DEF At
    <3>6. Place'
      BY <1>1, <1>5, <1>7, <2>1, <2>3, <2>4, <3>1, <3>5, NextField DEF Fields
    <3>7. Endings'
      BY <1>5, <2>1, <2>3, <3>1 DEF Endings
    <3> QED
      BY <2>2, <3>6, <3>7
  <2> QED
    BY <2>7, <2>8
<1>15. CASE ReadPayload
  <2>1. wpc = "payload" /\ wpc \in Fields
    BY <1>15 DEF ReadPayload, Fields
  <2>2. /\ Len(messages) < Len(sent) /\ took = EndOf(n) + 2 + ExtUnits(f) + MaskUnits(f)
        /\ f.len \in Nat /\ f.len <= MaxPayload /\ EndOf(n) \in Nat /\ EndOf(n + 1) = EndOf(n) + Units(f)
    BY <1>5, <1>6, <1>7, <2>1 DEF At
  <2>3. PayloadLen(Current) = f.len
    BY <1>6, <1>7, <2>1
  <2>4. CASE f.len > 0
    <3>1. ReadField("payload", "opcode") /\ UNCHANGED stream
      BY <1>15, <2>3, <2>4 DEF ReadPayload, ReadField
    <3>2. Units(f) = 2 + ExtUnits(f) + MaskUnits(f) + 2 /\ ExtUnits(f) \in Nat /\ MaskUnits(f) \in Nat
      <4>1. /\ Units(f) = 2 + ExtUnits(f) + MaskUnits(f) + (IF f.len > 0 THEN 2 ELSE 0)
            /\ ExtUnits(f) \in {0, 2} /\ MaskUnits(f) \in {0, 2}
        BY <2>2, FrameFacts
      <4> QED
        BY <2>4, <4>1
    <3>3. ASSUME wpc' = "opcode", took' = took + 2 PROVE At(n, f)'
      BY <1>8, <2>2, <2>4, <3>1, <3>2, <3>3, SMTT(60) DEF At
    <3> QED
      BY <1>7, <1>9, <2>2, <2>4, <3>1, <3>3 DEF Fields
  <2>5. CASE ~(f.len > 0)
    <3>1. f.len = 0
      BY <2>2, <2>5
    <3>2. /\ wpc' = "close" /\ UNCHANGED <<stream, took, insync, messages, replies>>
          /\ UNCHANGED <<sent, came>>
      BY <1>15, <2>3, <3>1 DEF ReadPayload, stream
    <3>3. WsTypes'
      BY <3>2 DEF WsTypes
    <3>4. Answered'
      BY <2>1, <3>2, AnsweredKept
    <3> QED
      BY <1>7, <1>13, <2>1, <3>1, <3>2, <3>3, <3>4 DEF EndsLoop
  <2> QED
    BY <2>4, <2>5
<1>16. CASE HandleOpcode
  <2>1. /\ wpc = "opcode" /\ wpc \in Fields /\ UNCHANGED <<stream, took, insync>>
        /\ UNCHANGED <<sent, came, aligned, fin>>
    BY <1>16 DEF HandleOpcode, stream, Fields
  <2>2. /\ Len(messages) < Len(sent) /\ took = EndOf(n + 1) /\ f.len \in Nat /\ f.len > 0 /\ f.len <= MaxPayload
        /\ insync /\ f = sent[n + 1] /\ PayloadLen(f) = f.len /\ n + 1 <= Len(sent)
    BY <1>0, <1>1, <1>5, <1>6, <1>7, <2>1 DEF At, Current
  <2>3. FramesInOrder /\ \A i \in 1..Len(replies) : replies[i].to <= n
    BY <1>1, <2>1, <2>2 DEF Answered
  <2>4. /\ messages = [i \in 1..n |-> i] /\ DOMAIN messages = 1..n /\ DOMAIN replies = 1..Len(replies)
        /\ Len(replies) \in Nat
    <3>1. messages = [i \in 1..Len(messages) |-> i]
      BY <2>2, <2>3 DEF FramesInOrder
    <3>2. DOMAIN replies = 1..Len(replies) /\ Len(replies) \in Nat
      BY DEF WsTypes
    <3> QED
      BY <1>1, <3>1, <3>2
  <2>5. /\ \A i, j \in 1..Len(replies) : i < j => replies[i].to < replies[j].to
        /\ \A i \in 1..Len(replies) : replies[i].op = "pong" =>
              /\ replies[i].to \in 1..n /\ sent[replies[i].to].op = "ping"
              /\ replies[i].head = RfcHeader(sent[replies[i].to].len)
        /\ \A k \in 1..n : sent[k].op = "ping" =>
              \E i \in 1..Len(replies) : replies[i].to = k /\ replies[i].op = "pong"
    BY <2>2, <2>3, <2>4, SMTT(60) DEF FramesInOrder
  <2>6. \A i \in 1..Len(replies) : replies[i].to \in Nat
    <3>1. \A i \in 1..Len(replies) : replies[i] \in ReplyHeader
      BY DEF WsTypes
    <3> QED
      BY <3>1 DEF ReplyHeader
  <2>7. ASSUME NEW op \in {"pong", "close"}, NEW k \in Nat, NEW r, r = [to |-> n + 1, op |-> op, head |-> SentHeader(k)],
               replies' = Append(replies, r)
        PROVE  /\ replies' \in Seq(ReplyHeader) /\ Len(replies') = Len(replies) + 1
               /\ \A i \in 1..Len(replies) : replies'[i] = replies[i]
               /\ replies'[Len(replies) + 1] = r
               /\ \A i, j \in 1..Len(replies') : i < j => replies'[i].to < replies'[j].to
    <3>1. r \in ReplyHeader
      BY <2>7 DEF ReplyHeader
    <3>2. /\ replies' \in Seq(ReplyHeader) /\ Len(replies') = Len(replies) + 1
          /\ \A i \in 1..Len(replies) : replies'[i] = replies[i]
          /\ replies'[Len(replies) + 1] = r
      BY <2>7, <3>1, AppendProperties DEF WsTypes
    <3>3. \A i, j \in 1..Len(replies') : i < j =>
             i \in 1..Len(replies) /\ (j \in 1..Len(replies) \/ j = Len(replies) + 1)
      BY <2>4, <3>2
    <3>4. \A i \in 1..Len(replies) : replies[i].to < n + 1
      BY <2>3, <2>6
    <3> QED
      BY <2>5, <2>7, <3>2, <3>3, <3>4, SMTT(60)
  <2>8. CASE f.op = "close"
    <3>1. replies' = ReplyFrame("close", 0) /\ wpc' = "close" /\ messages' = messages
      BY <1>7, <1>16, <2>8 DEF HandleOpcode
    <3>2. PICK r : r = [to |-> n + 1, op |-> "close", head |-> SentHeader(0)]
      OBVIOUS
    <3>3. replies' = Append(replies, r)
      BY <1>1, <3>1, <3>2 DEF ReplyFrame
    <3>4. /\ replies' \in Seq(ReplyHeader) /\ Len(replies') = Len(replies) + 1
          /\ \A i \in 1..Len(replies) : replies'[i] = replies[i]
          /\ replies'[Len(replies) + 1] = r
          /\ \A i, j \in 1..Len(replies') : i < j => replies'[i].to < replies'[j].to
      BY <2>7, <3>2, <3>3
    <3>5. WsTypes'
      BY <2>1, <3>1, <3>4 DEF WsTypes
    <3>6. DOMAIN replies' = 1..Len(replies') /\ r.op = "close"
      BY <3>2, <3>4
    <3>7. \A i \in 1..Len(replies') : replies'[i].op = "pong" => i \in 1..Len(replies) /\ replies'[i] = replies[i]
      BY <2>4, <3>4, <3>6
    <3>8. \A i \in 1..Len(replies) : i \in 1..Len(replies') /\ replies'[i] = replies[i]
      BY <2>4, <3>4
    <3>9. FramesInOrder'
      <4>1. Len(messages') = n /\ messages' = [i \in 1..Len(messages') |-> i] /\ DOMAIN messages' = 1..n
        BY <1>1, <2>4, <3>1
      <4>2. \A i \in 1..Len(replies') : replies'[i].op = "pong" =>
               /\ replies'[i].to \in 1..n /\ sent'[replies'[i].to].op = "ping"
               /\ replies'[i].head = RfcHeader(sent'[replies'[i].to].len)
        BY <2>1, <2>5, <3>7
      <4>3. \A k \in 1..n : sent'[k].op = "ping" =>
               \E i \in 1..Len(replies') : replies'[i].to = k /\ replies'[i].op = "pong"
        BY <2>1, <2>5, <3>8
      <4> QED
        BY <3>4, <3>6, <4>1, <4>2, <4>3, SMTT(60) DEF FramesInOrder
    <3>10. Answered'
      BY <3>1, <3>9 DEF Answered
    <3> QED
      BY <1>7, <1>13, <2>1, <2>8, <3>1, <3>5, <3>10 DEF EndsLoop
  <2>9. CASE f.op # "close"
    <3>1. /\ wpc' = "wait" /\ messages' = Append(messages, n + 1)
          /\ replies' = IF f.op = "ping" THEN ReplyFrame("pong", f.len) ELSE replies
      BY <1>1, <1>7, <1>16, <2>2, <2>9 DEF HandleOpcode
    <3>2. /\ messages' \in Seq(Nat) /\ Len(messages') = n + 1 /\ DOMAIN messages' = 1..(n + 1)
          /\ messages'[n + 1] = n + 1 /\ \A i \in 1..n : messages'[i] = i
      BY <1>1, <2>4, <3>1, AppendProperties DEF WsTypes
    <3>3. messages' = [i \in 1..(n + 1) |-> i]
      <4>1. \A i \in 1..(n + 1) : messages'[i] = i
        BY <3>2
      <4>2. messages' = [i \in DOMAIN messages' |-> messages'[i]]
        BY <3>2
      <4> QED
        BY <3>2, <4>1, <4>2
    <3>4. Stream'
      BY <1>0, <2>1, StreamKept
    <3>5. Place'
      <4>1. ~EndsLoop(f)
        BY <2>2, <2>9 DEF EndsLoop, MaxPayload
      <4>2. \A i \in 1..(n + 1) : ~EndsLoop(sent'[i])
        BY <1>1, <2>1, <2>2, <4>1 DEF Place
      <4>3. took' = EndOf(Len(messages))'
        BY <1>8, <2>1, <2>2, <3>2 DEF EndOf
      <4> QED
        BY <1>5, <2>1, <2>2, <3>1, <3>2, <3>3, <4>2, <4>3 DEF Place, Fields
    <3>6. Endings'
      BY <2>1, <2>2, <3>1 DEF Endings
    <3>7. CASE f.op = "ping"
      <4>1. PICK r : r = [to |-> n + 1, op |-> "pong", head |-> SentHeader(f.len)]
        OBVIOUS
      <4>2. replies' = Append(replies, r)
        BY <1>1, <3>1, <3>7, <4>1 DEF ReplyFrame
      <4>3. /\ replies' \in Seq(ReplyHeader) /\ Len(replies') = Len(replies) + 1
            /\ \A i \in 1..Len(replies) : replies'[i] = replies[i]
            /\ replies'[Len(replies) + 1] = r
            /\ \A i, j \in 1..Len(replies') : i < j => replies'[i].to < replies'[j].to
        BY <2>2, <2>7, <4>1, <4>2
      <4>4. WsTypes'
        BY <2>1, <3>2, <4>3 DEF WsTypes
      <4>5. r.to = n + 1 /\ r.op = "pong" /\ r.head = RfcHeader(f.len)
        BY <2>2, <4>1, LengthsRoundTrip
      <4>6. DOMAIN replies' = 1..Len(replies')
        BY <4>3
      <4>7. \A i \in 1..Len(replies') : i \in 1..Len(replies) \/ i = Len(replies) + 1
        BY <2>4, <4>3
      <4>8. \A i \in 1..Len(replies') : replies'[i].op = "pong" =>
               /\ replies'[i].to \in 1..(n + 1) /\ sent'[replies'[i].to].op = "ping"
               /\ replies'[i].head = RfcHeader(sent'[replies'[i].to].len)
        <5>1. \A i \in 1..Len(replies) : replies'[i].op = "pong" =>
               /\ replies'[i].to \in 1..(n + 1) /\ sent'[replies'[i].to].op = "ping"
               /\ replies'[i].head = RfcHeader(sent'[replies'[i].to].len)
          BY <2>1, <2>5, <4>3
        <5>2. /\ r.to \in 1..(n + 1) /\ sent'[r.to].op = "ping" /\ r.head = RfcHeader(sent'[r.to].len)
          BY <2>1, <2>2, <3>7, <4>5
        <5> QED
          BY <4>3, <4>7, <5>1, <5>2
      <4>9. \A k \in 1..(n + 1) : sent'[k].op = "ping" =>
               \E i \in 1..Len(replies') : replies'[i].to = k /\ replies'[i].op = "pong"
        <5>1. \A i \in 1..Len(replies) : i \in 1..Len(replies')
          BY <2>4, <4>3
        <5>2. \A k \in 1..n : sent'[k].op = "ping" =>
               \E i \in 1..Len(replies') : replies'[i].to = k /\ replies'[i].op = "pong"
          BY <2>1, <2>5, <4>3, <5>1, SMTT(60)
        <5>3. Len(replies) + 1 \in 1..Len(replies') /\ replies'[Len(replies) + 1].to = n + 1
              /\ replies'[Len(replies) + 1].op = "pong"
          BY <2>4, <4>3, <4>5
        <5> QED
          BY <5>2, <5>3
      <4>10. FramesInOrder'
        BY <3>2, <3>3, <4>3, <4>6, <4>8, <4>9, SMTT(60) DEF FramesInOrder
      <4>11. \A i \in 1..Len(replies') : replies'[i].to <= Len(messages')
        BY <2>3, <2>6, <3>2, <4>3, <4>5, <4>7, SMTT(60)
      <4> QED
        BY <3>4, <3>5, <3>6, <4>4, <4>10, <4>11 DEF Answered
    <3>8. CASE f.op # "ping"
      <4>1. replies' = replies
        BY <3>1, <3>8
      <4>2. WsTypes'
        BY <2>1, <3>2, <4>1 DEF WsTypes
      <4>3. \A k \in 1..(n + 1) : sent'[k].op = "ping" => k \in 1..n
        BY <2>1, <2>2, <3>8
      <4>4. FramesInOrder'
        <5>1. \A i \in 1..Len(replies') : replies'[i].op = "pong" =>
                 /\ replies'[i].to \in 1..(n + 1) /\ sent'[replies'[i].to].op = "ping"
                 /\ replies'[i].head = RfcHeader(sent'[replies'[i].to].len)
          BY <2>1, <2>5, <4>1, SMTT(60)
        <5>2. \A k \in 1..(n + 1) : sent'[k].op = "ping" =>
                 \E i \in 1..Len(replies') : replies'[i].to = k /\ replies'[i].op = "pong"
          BY <2>1, <2>5, <4>1, <4>3, SMTT(60)
        <5>3. /\ DOMAIN replies' = 1..Len(replies')
              /\ \A i, j \in 1..Len(replies') : i < j => replies'[i].to < replies'[j].to
          BY <2>4, <2>5, <4>1
        <5> QED
          BY <3>2, <3>3, <5>1, <5>2, <5>3, SMTT(60) DEF FramesInOrder
      <4>5. \A i \in 1..Len(replies') : replies'[i].to <= Len(messages')
        BY <2>3, <2>6, <3>2, <4>1
      <4> QED
        BY <3>4, <3>5, <3>6, <4>2, <4>4, <4>5 DEF Answered
    <3> QED
      BY <3>7, <3>8
  <2> QED
    BY <2>8, <2>9
<1> QED
  BY <1>2, <1>3, <1>4, <1>10, <1>11, <1>12, <1>14, <1>15, <1>16 DEF Run

LEMMA WsInvStep == WsInv /\ [XNext]_xvars => WsInv'
<1> SUFFICES ASSUME WsInv, [XNext]_xvars PROVE WsInv'
  OBVIOUS
<1> USE DEF WsInv
<1>1. CASE Upgrade
  <2>1. /\ UNCHANGED <<stream, sent, came, aligned, fin, took, insync, messages, replies>>
        /\ pc = "parse" /\ pc' = "done" /\ wpc' \in {"open", "none"}
    BY <1>1 DEF Upgrade, stream
  <2>2. wpc = "none"
    BY <2>1 DEF Place
  <2>3. WsTypes' /\ Stream'
    <3>1. took' \in Nat /\ took' <= came
      BY <2>1 DEF WsTypes, Stream
    <3> QED
      BY <2>1, <3>1, StreamKept DEF WsTypes
  <2>4. Place'
    BY <2>1, <2>2 DEF Place, Fields, EndOf
  <2>5. Endings'
    BY <2>1 DEF Endings
  <2>6. Answered'
    BY <2>1, <2>2, AnsweredKept
  <2> QED
    BY <2>3, <2>4, <2>5, <2>6
<1>2. CASE UNCHANGED wsvars /\ (pc = "done" => pc' = "done")
  <2>1. UNCHANGED <<stream, sent, came, aligned, fin, took, wpc, insync, messages, replies>>
    BY <1>2 DEF wsvars, stream
  <2>2. WsTypes' /\ Stream'
    <3>1. took' \in Nat /\ took' <= came
      BY <2>1 DEF WsTypes, Stream
    <3> QED
      BY <2>1, <3>1, StreamKept DEF WsTypes
  <2>3. Place'
    BY <1>2, <2>1 DEF Place, Fields, EndOf, Current
  <2>4. Endings'
    BY <2>1 DEF Endings, Current
  <2>5. Answered'
    BY <2>1, AnsweredKept
  <2> QED
    BY <2>2, <2>3, <2>4, <2>5
<1> QED
  BY <1>1, <1>2, WsSteps, WsClientStep, WsRunStep

\* on_message gets the client's frames, each once and in order, and every ping
\* is answered by the pong that RFC 6455 asks for, for all frames and however
\* many, as long as no read was short: the invariant FramesInOrder of the run
\* Exchange.  The worker is in step with the stream at every field.
THEOREM MessagesInOrder == XSpec => []FramesInOrder
<1>1. WsInv => FramesInOrder
  BY DEF WsInv, Answered, FramesInOrder
<1> QED
  BY <1>1, XInitWs, WsInvStep, PTL DEF XSpec

\* If frames arrive whole, every read finds a whole field, and the connection
\* ends only when the client has closed it or after a frame that ends it: the
\* invariant WholeFramesAreServed of the run Exchange.
THEOREM WholeFramesKeepTheConnection == XSpec => []WholeFramesAreServed
<1>1. WsInv => WholeFramesAreServed
  <2> SUFFICES ASSUME WsInv, aligned
               PROVE  /\ insync
                      /\ \A i \in DOMAIN messages : ~EndsLoop(sent[i])
                      /\ wpc = "close" => IF Len(messages) = Len(sent) THEN fin ELSE EndsLoop(Current)
    BY DEF WholeFramesAreServed
  <2>1. insync
    BY DEF WsInv, Endings
  <2>2. DOMAIN messages = 1..Len(messages)
    BY DEF WsInv, WsTypes
  <2>3. \A i \in 1..Len(messages) : ~EndsLoop(sent[i])
    BY <2>1 DEF WsInv, Place
  <2>4. wpc = "close" => IF Len(messages) = Len(sent) THEN fin ELSE EndsLoop(Current)
    BY DEF WsInv, Endings
  <2> QED
    BY <2>1, <2>2, <2>3, <2>4
<1> QED
  BY <1>1, XInitWs, WsInvStep, PTL DEF XSpec
=============================================================================
