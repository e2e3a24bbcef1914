--------------------------- MODULE Gateway_proof ----------------------------
(***************************************************************************)
(* PathGuard keeps its promises for any number of workers, clients and     *)
(* paths, alone and between Request::parse and the router; and what a      *)
(* client sends arrives, for all paths, forms and routes: Request::parse   *)
(* undoes every spelling of a path and of a form's fields, and resolve     *)
(* finds the handler that stands for the path.                             *)
(*                                                                         *)
(* The second part is by induction over texts.  The functions of Url are   *)
(* loops; each has a lemma that says what one more byte, token or piece    *)
(* does, and the lemmas about whole texts follow by SeqInduction.          *)
(***************************************************************************)
EXTENDS Gateway, SequenceTheorems, FiniteSetTheorems, WellFoundedInduction, TLAPS

-----------------------------------------------------------------------------
(* PathGuard. *)

\* Who is on record is on the blacklist, and was not whitelisted.
Records ==
    /\ refused \subseteq blacklist
    /\ blacklist \cap whitelist = {}
    /\ blacklist # {} => serving

\* What holds of worker t's request at its program point.
Knows(t) ==
    /\ pc[t] # "idle" => serving /\ <<ip[t], path[t]>> \in offered
    /\ pc[t] \in {"isBlocked", "match", "insert", "refuse"} => ip[t] \notin whitelist
    /\ pc[t] = "insert" => path[t] \in patterns
    /\ late[t] => ip[t] \in refused

IInv ==
    /\ TypeOK
    /\ Records
    /\ \A t \in Threads : Knows(t)
    /\ OffenderShutOut
    /\ OnlyOffendersRefused

\* The invariant holds at the start.
LEMMA InitIInv == Init => IInv
  BY NoIpIsNoIp, NoPathIsNoPath
     DEF Init, IInv, TypeOK, Records, Knows, OffenderShutOut, OnlyOffendersRefused

\* Every step keeps the types.
LEMMA NextTypeOK == TypeOK /\ [Next]_vars => TypeOK'
<1> SUFFICES ASSUME TypeOK, [Next]_vars PROVE TypeOK'
  OBVIOUS
<1> USE NoIpIsNoIp, NoPathIsNoPath DEF TypeOK, config, request
<1>1. ASSUME NEW ps \in SUBSET Paths, AddPattern(ps) PROVE TypeOK'
  BY <1>1 DEF AddPattern
<1>2. ASSUME NEW i \in Ips, AddWhitelist(i) PROVE TypeOK'
  BY <1>2 DEF AddWhitelist
<1>3. CASE Serve
  BY <1>3 DEF Serve
<1>4. ASSUME NEW t \in Threads, NEW i \in Ips, NEW p \in Paths, Begin(t, i, p)
      PROVE TypeOK'
  BY <1>4 DEF Begin, Goto
<1>5. ASSUME NEW t \in Threads, IsBlocked(t) PROVE TypeOK'
  BY <1>5 DEF IsBlocked, Goto
<1>6. ASSUME NEW t \in Threads, Match(t) PROVE TypeOK'
  BY <1>6 DEF Match, Goto
<1>7. ASSUME NEW t \in Threads, Insert(t) PROVE TypeOK'
  BY <1>7 DEF Insert, Goto, Blacklisted
<1>8. ASSUME NEW t \in Threads, Leave(t) PROVE TypeOK'
  BY <1>8 DEF Leave, Goto
<1>9. CASE UNCHANGED vars
  BY <1>9 DEF vars
<1> QED
  BY <1>1, <1>2, <1>3, <1>4, <1>5, <1>6, <1>7, <1>8, <1>9 DEF Next, SetUp, Check

\* Every step keeps the invariant.
LEMMA NextIInv == IInv /\ [Next]_vars => IInv'
<1> SUFFICES ASSUME IInv, [Next]_vars PROVE IInv'
  OBVIOUS
<1>0. TypeOK /\ TypeOK'
  BY NextTypeOK DEF IInv
<1> DEFINE Rest == Records /\ (\A t \in Threads : Knows(t))
                     /\ OffenderShutOut /\ OnlyOffendersRefused
<1> SUFFICES Rest'
  BY <1>0 DEF IInv
<1> USE <1>0 DEF IInv, TypeOK, Records, Knows, OffenderShutOut, OnlyOffendersRefused,
                 config, request
<1>1. ASSUME NEW ps \in SUBSET Paths, AddPattern(ps) PROVE Rest'
  BY <1>1 DEF AddPattern
<1>2. ASSUME NEW i \in Ips, AddWhitelist(i) PROVE Rest'
  BY <1>2 DEF AddWhitelist
<1>3. CASE Serve
  BY <1>3 DEF Serve
<1>4. ASSUME NEW t \in Threads, NEW i \in Ips, NEW p \in Paths, Begin(t, i, p)
      PROVE Rest'
  BY ZenonT(60), <1>4 DEF Begin, Goto, Whitelisted
<1>5. ASSUME NEW t \in Threads, IsBlocked(t) PROVE Rest'
  BY ZenonT(60), <1>5 DEF IsBlocked, Goto
<1>6. ASSUME NEW t \in Threads, Match(t) PROVE Rest'
  BY <1>6 DEF Match, Goto
<1>7. ASSUME NEW t \in Threads, Insert(t) PROVE Rest'
  <2>1. /\ ip[t] \notin whitelist /\ path[t] \in patterns
        /\ <<ip[t], path[t]>> \in offered /\ serving
        /\ blacklist' = blacklist \cup {ip[t]} /\ refused' = refused \cup {ip[t]}
        /\ pc' = [pc EXCEPT ![t] = "refuse"]
        /\ UNCHANGED <<patterns, whitelist, serving, ip, path, late, offered>>
    BY <1>7 DEF Insert, Goto, Blacklisted
  <2>2. Records'
    BY <2>1
  <2>3. \A u \in Threads : Knows(u)'
    BY <2>1
  <2>4. OffenderShutOut'
    BY <2>1
  <2>5. \A i \in blacklist' : \E p \in patterns' : <<i, p>> \in offered'
    BY <2>1
  <2>6. \A u \in Threads : pc'[u] = "refuse" => ip'[u] \notin whitelist' /\ ip'[u] \in blacklist'
    BY <2>1
  <2> QED
    BY <2>2, <2>3, <2>4, <2>5, <2>6
<1>8. ASSUME NEW t \in Threads, Leave(t) PROVE Rest'
  BY <1>8 DEF Leave, Goto
<1>9. CASE UNCHANGED vars
  BY <1>9 DEF vars
<1> QED
  BY <1>1, <1>2, <1>3, <1>4, <1>5, <1>6, <1>7, <1>8, <1>9 DEF Next, SetUp, Check

\* PathGuard's invariant holds in every reachable state.
THEOREM Invariant == Spec => []IInv
  BY InitIInv, NextIInv, PTL DEF Spec

\* Once check() has refused a client for a path, no request of that client
\* that begins later gets through, on any worker.
THEOREM ShutOut == Spec => []OffenderShutOut
<1>1. IInv => OffenderShutOut
  BY DEF IInv
<1> QED
  BY <1>1, Invariant, PTL

\* check() blacklists only clients that asked for a blocked path, and never
\* refuses a whitelisted one.
THEOREM NoInnocents == Spec => []OnlyOffendersRefused
<1>1. IInv => OnlyOffendersRefused
  BY DEF IInv
<1> QED
  BY <1>1, Invariant, PTL

-----------------------------------------------------------------------------
(* Induction, and loops over sequences. *)

\* A set of natural numbers has a least element.
LEMMA Least ==
    ASSUME NEW T, T \subseteq Nat, T # {}
    PROVE  \E n \in T : \A m \in T : n <= m
<1> DEFINE R == OpToRel(<, Nat)
<1>1. IsWellFoundedOn(R, Nat)
  BY NatLessThanWellFounded
<1> HIDE DEF R
<1>2. PICK n \in T : \A m \in T : ~(<<m, n>> \in R)
  BY <1>1, WFMin
<1>3. \A m \in T : ~(<<m, n>> \in {ss \in Nat \X Nat : ss[1] < ss[2]})
  BY <1>2 DEF R, OpToRel
<1>4. \A m \in T : ~(m < n)
  BY <1>3
<1> QED
  BY <1>4

\* Induction: a set that holds 0, and n + 1 with every n, holds all numbers.
LEMMA Induction ==
    ASSUME NEW S, 0 \in S, \A n \in Nat : n \in S => n + 1 \in S
    PROVE  Nat \subseteq S
<1> SUFFICES ASSUME Nat \ S # {} PROVE FALSE
  OBVIOUS
<1>1. PICK n \in Nat \ S : \A m \in Nat \ S : n <= m
  BY Least
<1>2. n # 0
  OBVIOUS
<1>3. n - 1 \in Nat /\ n - 1 \notin Nat \ S
  BY <1>1, <1>2
<1> QED
  BY <1>3

\* g holds the states that f goes through from b on while it reads s.
Folds(g, S, b, f, s) ==
    /\ g \in [0..Len(s) -> S]
    /\ g[0] = b /\ \A n \in 1..Len(s) : g[n] = f[<<g[n - 1], s[n]>>]

\* There is a function that holds the states of a loop over a sequence.
LEMMA FoldExists ==
    ASSUME NEW S, NEW A, NEW b \in S, NEW f \in [S \X A -> S], NEW s \in Seq(A)
    PROVE  \E g : Folds(g, S, b, f, s)
<1> DEFINE Upto(k) == \E g \in [0..k -> S] :
                         g[0] = b /\ \A n \in 1..k : g[n] = f[<<g[n - 1], s[n]>>]
           T == {k \in Nat : k <= Len(s) => Upto(k)}
<1>0. Len(s) \in Nat /\ \A n \in 1..Len(s) : s[n] \in A
  BY LenProperties, ElementOfSeq
<1>1. 0 \in T
  <2> DEFINE g == [n \in 0..0 |-> b]
  <2>1. g \in [0..0 -> S] /\ g[0] = b /\ \A n \in 1..0 : g[n] = f[<<g[n - 1], s[n]>>]
    OBVIOUS
  <2>2. Upto(0)
    BY <2>1, Zenon
  <2> QED
    BY <2>2
<1>2. ASSUME NEW k \in Nat, k \in T PROVE k + 1 \in T
  <2> SUFFICES ASSUME k + 1 <= Len(s) PROVE Upto(k + 1)
    OBVIOUS
  <2>1. PICK g \in [0..k -> S] : g[0] = b /\ \A n \in 1..k : g[n] = f[<<g[n - 1], s[n]>>]
    BY <1>0, <1>2
  <2> DEFINE h == [n \in 0..(k + 1) |-> IF n = k + 1 THEN f[<<g[k], s[k + 1]>>] ELSE g[n]]
  <2>2. f[<<g[k], s[k + 1]>>] \in S
    BY <1>0
  <2>3. h \in [0..(k + 1) -> S]
    <3>1. \A n \in 0..(k + 1) : n # k + 1 => n \in 0..k
      OBVIOUS
    <3> QED
      BY <2>2, <3>1
  <2>4. h[0] = b
    BY <2>1
  <2>5. ASSUME NEW n \in 1..(k + 1) PROVE h[n] = f[<<h[n - 1], s[n]>>]
    <3>1. h[n - 1] = g[n - 1]
      OBVIOUS
    <3>2. CASE n = k + 1
      <4>1. h[n] = f[<<g[k], s[k + 1]>>] /\ n - 1 = k
        BY <3>2
      <4> HIDE DEF h
      <4> QED
        BY <3>1, <3>2, <4>1
    <3>3. CASE n # k + 1
      BY <2>1, <3>1, <3>3
    <3> QED
      BY <3>2, <3>3
  <2> QED
    BY <2>3, <2>4, <2>5
<1> HIDE DEF T
<1>3. Len(s) \in T
  BY <1>0, <1>1, <1>2, Induction
<1> QED
  BY <1>0, <1>3 DEF T, Folds

\* g and h start alike, and stay alike at each of N steps.
StayAlike(g, h, N) == g[0] = h[0] /\ \A n \in 1..N : g[n - 1] = h[n - 1] => g[n] = h[n]
Alike(g, h, N) == \A n \in 0..N : g[n] = h[n]

\* There is only one: what starts alike and stays alike is alike.
LEMMA FoldUnique ==
    ASSUME NEW N \in Nat, NEW g, NEW h, StayAlike(g, h, N)
    PROVE  Alike(g, h, N)
<1> USE DEF StayAlike, Alike
<1> DEFINE T == {k \in Nat : k <= N => g[k] = h[k]}
<1>1. 0 \in T
  OBVIOUS
<1>2. ASSUME NEW k \in Nat, k \in T PROVE k + 1 \in T
  BY <1>2
<1> HIDE DEF T
<1>3. Nat \subseteq T
  BY <1>1, <1>2, Induction
<1> QED
  BY <1>3 DEF T

-----------------------------------------------------------------------------
(* Texts, and their pieces between separators. *)

Byte == 0..255
Text == Seq(Byte)
Pieces == Seq(Text) \ {<<>>}

\* A text of two bytes is put together from two of one byte.
LEMMA TwoBytes == ASSUME NEW a \in Byte, NEW b \in Byte PROVE <<a>> \o <<b>> = <<a, b>>
<1>1. <<a>> \in Seq(Byte) /\ <<b>> \in Seq(Byte) /\ <<a, b>> \in Seq(Byte) /\ Len(<<a>>) = 1 /\ Len(<<b>>) = 1 /\ Len(<<a, b>>) = 2
  OBVIOUS
<1>2. /\ <<a>> \o <<b>> \in Seq(Byte) /\ Len(<<a>> \o <<b>>) = 2 
      /\ (<<a>> \o <<b>>)[1] = a /\ (<<a>> \o <<b>>)[2] = b
  BY <1>1, ConcatProperties
<1>3. \A i \in 1..2 : (<<a>> \o <<b>>)[i] = <<a, b>>[i]
  BY <1>2
<1> QED
  BY <1>1, <1>2, <1>3, SeqEqual

\* A sequence that is not empty is its front and its last element.
LEMMA FrontLast ==
    ASSUME NEW S, NEW s \in Seq(S), s # <<>>
    PROVE  /\ Front(s) \in Seq(S) /\ Last(s) \in S /\ s = Append(Front(s), Last(s))
           /\ Len(Front(s)) = Len(s) - 1
           /\ \A i \in 1..(Len(s) - 1) : Front(s)[i] = s[i]
<1>1. Len(s) \in Nat \ {0} /\ \A i \in 1..Len(s) : s[i] \in S
  BY EmptySeq, ElementOfSeq
<1>2. /\ Front(s) \in Seq(S) /\ Len(Front(s)) = Len(s) - 1
      /\ \A i \in 1..(Len(s) - 1) : Front(s)[i] = s[i]
  <2>1. PICK n \in Nat : n = Len(s) - 1
    BY <1>1
  <2>2. \A i \in 1..n : s[i] \in S
    BY <1>1, <2>1
  <2>3. /\ SubSeq(s, 1, n) \in Seq(S)
        /\ Len(SubSeq(s, 1, n)) = IF 1 <= n THEN n - 1 + 1 ELSE 0
        /\ \A i \in 1..(n - 1 + 1) : SubSeq(s, 1, n)[i] = s[1 + i - 1]
    BY <2>2, SubSeqProperties
  <2>4. /\ SubSeq(s, 1, n) \in Seq(S) /\ Len(SubSeq(s, 1, n)) = n
        /\ \A i \in 1..n : SubSeq(s, 1, n)[i] = s[i]
    BY <2>3
  <2> QED
    BY <2>1, <2>4 DEF Front
<1>3. Last(s) \in S
  BY <1>1 DEF Last
<1>4. /\ Append(Front(s), Last(s)) \in Seq(S) /\ Len(Append(Front(s), Last(s))) = Len(s)
      /\ \A i \in 1..Len(s) : Append(Front(s), Last(s))[i] = s[i]
  BY <1>1, <1>2, <1>3, AppendProperties DEF Last
<1>5. s = Append(Front(s), Last(s))
  BY <1>4, SeqEqual
<1> QED
  BY <1>2, <1>3, <1>5

\* Front and Last undo Append.
LEMMA FrontLastAppend ==
    ASSUME NEW S, NEW s \in Seq(S), NEW e \in S
    PROVE  Front(Append(s, e)) = s /\ Last(Append(s, e)) = e
<1>1. Append(s, e) \in Seq(S) /\ Append(s, e) # <<>>
  BY AppendProperties
<1>2. Append(s, e) = Append(Front(Append(s, e)), Last(Append(s, e)))
  BY <1>1, FrontLast
<1>3. Front(Append(s, e)) \in Seq(S) /\ Last(Append(s, e)) \in S
  BY <1>1, FrontLast
<1> QED
  BY <1>2, <1>3, AppendInjective

\* One more byte leaves pieces: one text or more.
LEMMA NextPiecesType ==
    ASSUME NEW p \in Pieces, NEW c \in Byte, NEW sep
    PROVE  NextPieces(p, c, sep) \in Pieces
<1>1. CASE c = sep
  <2>1. <<>> \in Text
    BY EmptySeq DEF Text
  <2> QED
    BY <1>1, <2>1, AppendProperties DEF NextPieces, Pieces
<1>2. CASE c # sep
  <2>1. Front(p) \in Seq(Text) /\ Last(p) \in Text
    BY FrontLast DEF Pieces
  <2>2. Append(Last(p), c) \in Text
    BY <2>1, AppendProperties DEF Text
  <2> QED
    BY SMTT(30), <1>2, <2>1, <2>2, AppendProperties DEF NextPieces, Pieces
<1> QED
  BY <1>1, <1>2

\* Split goes through its states from one empty piece on.
LEMMA SplitDef ==
    ASSUME NEW s \in Text, NEW sep
    PROVE  \E g \in [0..Len(s) -> Pieces] :
              /\ g[0] = <<<<>>>> /\ \A n \in 1..Len(s) : g[n] = NextPieces(g[n - 1], s[n], sep)
              /\ Split(s, sep) = g[Len(s)]
<1> DEFINE f == [x \in Pieces \X Byte |-> NextPieces(x[1], x[2], sep)]
           b == <<<<>>>>
<1>0. Len(s) \in Nat /\ \A n \in 1..Len(s) : s[n] \in Byte
  BY LenProperties, ElementOfSeq DEF Text
<1>1. b \in Pieces
  <2>1. <<>> \in Text
    BY EmptySeq DEF Text
  <2> QED
    BY <2>1 DEF Pieces
<1>2. f \in [Pieces \X Byte -> Pieces]
  BY NextPiecesType
<1> HIDE DEF f, b
<1>3. PICK g \in [0..Len(s) -> Pieces] :
         g[0] = b /\ \A n \in 1..Len(s) : g[n] = f[<<g[n - 1], s[n]>>]
  <2>1. s \in Seq(Byte)
    BY DEF Text
  <2>2. \E g : Folds(g, Pieces, b, f, s)
    BY <1>1, <1>2, <2>1, FoldExists
  <2> QED
    BY <2>2 DEF Folds
<1>4. ASSUME NEW n \in 1..Len(s) PROVE g[n] = NextPieces(g[n - 1], s[n], sep)
  <2>1. g[n - 1] \in Pieces /\ s[n] \in Byte
    BY <1>0
  <2>2. f[<<g[n - 1], s[n]>>] = NextPieces(g[n - 1], s[n], sep)
    BY <2>1 DEF f
  <2> QED
    BY <1>3, <2>2
<1> DEFINE Rec(h) == h = [n \in 0..Len(s) |->
                            IF n = 0 THEN b ELSE NextPieces(h[n - 1], s[n], sep)]
           F == CHOOSE h : Rec(h)
<1>5. Rec(g)
  <2>1. \A n \in 0..Len(s) : g[n] = IF n = 0 THEN b ELSE NextPieces(g[n - 1], s[n], sep)
    BY <1>0, <1>3, <1>4
  <2> QED
    BY <2>1
<1>6. Rec(F)
  <2> HIDE DEF Rec
  <2> QED
    BY <1>5
<1>7. Split(s, sep) = F[Len(s)]
  BY DEF Split, b
<1> HIDE DEF F
<1>8. F[0] = b /\ \A n \in 1..Len(s) : F[n] = NextPieces(F[n - 1], s[n], sep)
  BY <1>0, <1>6
<1>9. \A n \in 0..Len(s) : F[n] = g[n]
  <2>1. \A n \in 1..Len(s) : F[n - 1] = g[n - 1] => F[n] = g[n]
    BY <1>4, <1>8
  <2>2. StayAlike(F, g, Len(s))
    BY <1>3, <1>8, <2>1 DEF StayAlike
  <2> QED
    BY <1>0, <2>2, FoldUnique DEF Alike
<1> QED
  BY <1>0, <1>3, <1>4, <1>7, <1>9 DEF b

\* The empty text is one empty piece.
LEMMA SplitEmpty == ASSUME NEW sep PROVE Split(<<>>, sep) = <<<<>>>>
<1>1. <<>> \in Text /\ Len(<<>>) = 0
  BY EmptySeq DEF Text
<1> QED
  BY <1>1, SplitDef

\* Split gives one text or more.
LEMMA SplitType == ASSUME NEW s \in Text, NEW sep PROVE Split(s, sep) \in Pieces
<1>1. Len(s) \in Nat
  BY LenProperties DEF Text
<1> QED
  BY <1>1, SplitDef

\* A byte at the end of a text changes its pieces as NextPieces says.
LEMMA SplitAppend ==
    ASSUME NEW s \in Text, NEW c \in Byte, NEW sep
    PROVE  Split(Append(s, c), sep) = NextPieces(Split(s, sep), c, sep)
<1>0. /\ Append(s, c) \in Text /\ Len(s) \in Nat /\ Len(Append(s, c)) = Len(s) + 1
      /\ Append(s, c)[Len(s) + 1] = c /\ \A n \in 1..Len(s) : Append(s, c)[n] = s[n]
  BY LenProperties, AppendProperties DEF Text
<1>1. PICK g : /\ g[0] = <<<<>>>> /\ \A n \in 1..Len(s) : g[n] = NextPieces(g[n - 1], s[n], sep)
               /\ Split(s, sep) = g[Len(s)]
  BY SplitDef
<1>2. PICK h : /\ h[0] = <<<<>>>>
               /\ \A n \in 1..Len(Append(s, c)) : h[n] = NextPieces(h[n - 1], Append(s, c)[n], sep)
               /\ Split(Append(s, c), sep) = h[Len(Append(s, c))]
  BY <1>0, SplitDef
<1>3. \A n \in 1..Len(s) : h[n] = NextPieces(h[n - 1], s[n], sep)
  BY <1>0, <1>2
<1>4. \A n \in 0..Len(s) : g[n] = h[n]
  <2>1. \A n \in 1..Len(s) : g[n - 1] = h[n - 1] => g[n] = h[n]
    BY <1>1, <1>3
  <2>2. g[0] = h[0]
    BY <1>1, <1>2
  <2>3. StayAlike(g, h, Len(s))
    BY <2>1, <2>2 DEF StayAlike
  <2> QED
    BY <1>0, <2>3, FoldUnique DEF Alike
<1>5. h[Len(s) + 1] = NextPieces(h[Len(s)], c, sep)
  BY <1>0, <1>2
<1> QED
  BY <1>0, <1>1, <1>2, <1>4, <1>5

\* Induction over sequences: a set that holds the empty one, and with every
\* sequence all those that are longer by one element, holds all of them.
LEMMA SeqInduction ==
    ASSUME NEW A, NEW T, <<>> \in T,
           \A s \in Seq(A), e \in A : s \in T => Append(s, e) \in T
    PROVE  Seq(A) \subseteq T
<1> DEFINE N == {n \in Nat : \A s \in Seq(A) : Len(s) = n => s \in T}
<1>1. 0 \in N
  <2>1. ASSUME NEW s \in Seq(A), Len(s) = 0 PROVE s \in T
    BY <2>1, EmptySeq
  <2> QED
    BY <2>1
<1>2. ASSUME NEW n \in Nat, n \in N PROVE n + 1 \in N
  <2>1. ASSUME NEW s \in Seq(A), Len(s) = n + 1 PROVE s \in T
    <3>1. s # <<>>
      BY <2>1, EmptySeq
    <3>2. Front(s) \in Seq(A) /\ Last(s) \in A /\ s = Append(Front(s), Last(s)) /\ Len(Front(s)) = Len(s) - 1
      BY <3>1, FrontLast
    <3>3. Front(s) \in T
      BY <1>2, <2>1, <3>2
    <3> QED
      BY <3>2, <3>3
  <2> QED
    BY <2>1
<1> HIDE DEF N
<1>3. Nat \subseteq N
  BY <1>1, <1>2, Induction
<1> QED
  <2>1. ASSUME NEW s \in Seq(A) PROVE s \in T
    <3>1. Len(s) \in Nat
      BY LenProperties
    <3>2. Len(s) \in N
      BY <1>3, <3>1
    <3> QED
      BY <3>2 DEF N
  <2> QED
    BY <2>1

\* Appending to the second of two sequences appends to both together.
LEMMA ConcatAppend ==
    ASSUME NEW A, NEW s \in Seq(A), NEW t \in Seq(A), NEW e \in A
    PROVE  s \o Append(t, e) = Append(s \o t, e)
<1>1. Append(t, e) = t \o <<e>> /\ <<e>> \in Seq(A) /\ s \o t \in Seq(A)
  BY AppendIsConcat, ConcatProperties
<1>2. Append(s \o t, e) = (s \o t) \o <<e>>
  BY <1>1, AppendIsConcat
<1> QED
  BY <1>1, <1>2, ConcatAssociative

Free(t, sep) == \A i \in 1..Len(t) : t[i] # sep

\* A text is free of a byte if its front and its last byte are.
LEMMA FreeAppend ==
    ASSUME NEW t \in Text, NEW c \in Byte, NEW sep
    PROVE  Free(Append(t, c), sep) <=> Free(t, sep) /\ c # sep
<1>1. /\ Len(t) \in Nat /\ Len(Append(t, c)) = Len(t) + 1
      /\ Append(t, c)[Len(t) + 1] = c /\ \A n \in 1..Len(t) : Append(t, c)[n] = t[n]
  BY LenProperties, AppendProperties DEF Text
<1> QED
  BY <1>1 DEF Free

\* A text without separators makes the last piece longer.
Longer(pieces, t) == Append(Front(pieces), Last(pieces) \o t)

\* Reading a text without separators makes the last piece longer by it.
LEMMA SplitFree ==
    ASSUME NEW s \in Text, NEW sep
    PROVE  \A t \in Text : Free(t, sep) => Split(s \o t, sep) = Longer(Split(s, sep), t)
<1> DEFINE T == {t \in Text : Free(t, sep) => Split(s \o t, sep) = Longer(Split(s, sep), t)}
<1>0. /\ Split(s, sep) \in Seq(Text) /\ Front(Split(s, sep)) \in Seq(Text) /\ Last(Split(s, sep)) \in Text
      /\ Split(s, sep) = Append(Front(Split(s, sep)), Last(Split(s, sep)))
  BY SplitType, FrontLast DEF Pieces
<1>1. <<>> \in T
  <2>1. <<>> \in Text /\ s \o <<>> = s /\ Last(Split(s, sep)) \o <<>> = Last(Split(s, sep))
    BY <1>0, EmptySeq, ConcatEmptySeq DEF Text
  <2> QED
    BY <1>0, <2>1 DEF Longer
<1>2. ASSUME NEW t \in Text, NEW c \in Byte, t \in T PROVE Append(t, c) \in T
  <2>1. Append(t, c) \in Text /\ s \o t \in Text /\ s \o Append(t, c) = Append(s \o t, c)
    BY AppendProperties, ConcatProperties, ConcatAppend DEF Text
  <2>2. ASSUME Free(Append(t, c), sep) PROVE Split(s \o Append(t, c), sep) = Longer(Split(s, sep), Append(t, c))
    <3>1. Free(t, sep) /\ c # sep
      BY <2>2, FreeAppend
    <3>2. Split(s \o t, sep) = Longer(Split(s, sep), t)
      BY <1>2, <3>1
    <3>3. Split(s \o Append(t, c), sep) = NextPieces(Longer(Split(s, sep), t), c, sep)
      BY <2>1, <3>2, SplitAppend
    <3>4. Last(Split(s, sep)) \o t \in Text
      BY <1>0, ConcatProperties DEF Text
    <3>5. Front(Longer(Split(s, sep), t)) = Front(Split(s, sep)) /\ Last(Longer(Split(s, sep), t)) = Last(Split(s, sep)) \o t
      BY <1>0, <3>4, FrontLastAppend DEF Longer
    <3>6. Append(Last(Split(s, sep)) \o t, c) = Last(Split(s, sep)) \o Append(t, c)
      <4>1. PICK l \in Seq(Byte) : l = Last(Split(s, sep))
        BY <1>0 DEF Text
      <4>2. l \o Append(t, c) = Append(l \o t, c)
        BY ConcatAppend DEF Text
      <4> QED
        BY <4>1, <4>2
    <3> QED
      BY <3>1, <3>3, <3>5, <3>6 DEF NextPieces, Longer
  <2>3. Free(Append(t, c), sep) => Split(s \o Append(t, c), sep) = Longer(Split(s, sep), Append(t, c))
    BY <2>2
  <2> QED
    BY <2>1, <2>3, Zenon
<1> HIDE DEF T
<1>3. Seq(Byte) \subseteq T
  BY <1>1, <1>2, SeqInduction DEF Text
<1> QED
  BY <1>3 DEF T, Text

\* A separator, and a text without one, add that text as a piece.
LEMMA SplitAtSep ==
    ASSUME NEW s \in Text, NEW t \in Text, NEW sep \in Byte, Free(t, sep)
    PROVE  Split(s \o (<<sep>> \o t), sep) = Append(Split(s, sep), t)
<1>1. <<sep>> \in Text /\ Append(s, sep) = s \o <<sep>> /\ Append(s, sep) \in Text
  BY AppendIsConcat, AppendProperties DEF Text
<1>2. s \o (<<sep>> \o t) = Append(s, sep) \o t
  BY <1>1, ConcatAssociative DEF Text
<1>3. Split(Append(s, sep) \o t, sep) = Longer(Split(Append(s, sep), sep), t)
  BY <1>1, SplitFree
<1>4. Split(Append(s, sep), sep) = Append(Split(s, sep), <<>>)
  BY SplitAppend DEF NextPieces
<1>5. Split(s, sep) \in Seq(Text) /\ <<>> \in Text /\ <<>> \o t = t
  BY SplitType, EmptySeq, ConcatEmptySeq DEF Pieces, Text
<1>6. Front(Append(Split(s, sep), <<>>)) = Split(s, sep) /\ Last(Append(Split(s, sep), <<>>)) = <<>>
  BY <1>5, FrontLastAppend
<1> QED
  BY <1>2, <1>3, <1>4, <1>5, <1>6 DEF Longer

-----------------------------------------------------------------------------
(* Texts put together. *)

\* FlattenSeq goes through its states from the empty text on.
LEMMA FlatDef ==
    ASSUME NEW ss \in Seq(Text)
    PROVE  \E g \in [0..Len(ss) -> Text] :
              /\ g[0] = <<>> /\ \A n \in 1..Len(ss) : g[n] = g[n - 1] \o ss[n]
              /\ FlattenSeq(ss) = g[Len(ss)]
<1> DEFINE f == [x \in Text \X Text |-> x[1] \o x[2]]
<1>0. Len(ss) \in Nat /\ \A n \in 1..Len(ss) : ss[n] \in Text
  BY LenProperties, ElementOfSeq
<1>1. <<>> \in Text
  BY EmptySeq DEF Text
<1>2. f \in [Text \X Text -> Text]
  BY ConcatProperties DEF Text
<1> HIDE DEF f
<1>3. PICK g \in [0..Len(ss) -> Text] :
         g[0] = <<>> /\ \A n \in 1..Len(ss) : g[n] = f[<<g[n - 1], ss[n]>>]
  <2> DEFINE b == <<>>
  <2>1. b \in Text
    BY <1>1
  <2> HIDE DEF b
  <2>2. \E g : Folds(g, Text, b, f, ss)
    BY <1>2, <2>1, FoldExists
  <2> QED
    BY <2>2 DEF Folds, b
<1>4. ASSUME NEW n \in 1..Len(ss) PROVE g[n] = g[n - 1] \o ss[n]
  <2>1. g[n - 1] \in Text /\ ss[n] \in Text
    BY <1>0
  <2>2. f[<<g[n - 1], ss[n]>>] = g[n - 1] \o ss[n]
    BY <2>1 DEF f
  <2> QED
    BY <1>3, <2>2
<1>5. CASE Len(ss) = 0
  <2>1. ss = <<>>
    BY <1>5, EmptySeq
  <2>2. FlattenSeq(ss) = ss
    BY <1>5 DEF FlattenSeq
  <2> QED
    BY <1>3, <1>4, <1>5, <2>1, <2>2
<1>6. CASE Len(ss) # 0
  <2> DEFINE Rec(h) == h = [i \in 1..Len(ss) |-> IF i = 1 THEN ss[i] ELSE h[i - 1] \o ss[i]]
             F == CHOOSE h : Rec(h)
             k == [i \in 1..Len(ss) |-> g[i]]
  <2>0. g[1] = ss[1]
    <3>1. g[1] = g[0] \o ss[1]
      <4>1. PICK m \in 1..Len(ss) : m = 1 /\ m - 1 = 0
        BY <1>0, <1>6
      <4>2. g[m] = g[m - 1] \o ss[m]
        BY <1>4
      <4> QED
        BY <4>1, <4>2
    <3> QED
      BY <1>0, <1>3, <3>1, ConcatEmptySeq DEF Text
  <2>1. Rec(k)
    <3>1. \A i \in 1..Len(ss) : k[i] = IF i = 1 THEN ss[i] ELSE k[i - 1] \o ss[i]
      BY <1>0, <1>4, <2>0
    <3> QED
      BY <3>1
  <2>2. Rec(F)
    <3> HIDE DEF Rec
    <3> QED
      BY <2>1
  <2>3. FlattenSeq(ss) = F[Len(ss)]
    BY <1>6 DEF FlattenSeq
  <2> HIDE DEF F
  <2>4. \A i \in 1..Len(ss) : F[i] = IF i = 1 THEN ss[i] ELSE F[i - 1] \o ss[i]
    BY <2>2
  <2> DEFINE G == [i \in 0..Len(ss) |-> IF i = 0 THEN <<>> ELSE F[i]]
  <2>5. StayAlike(G, g, Len(ss))
    <3>1. ASSUME NEW n \in 1..Len(ss), G[n - 1] = g[n - 1] PROVE G[n] = g[n]
      <4>1. CASE n = 1
        BY <1>0, <2>0, <2>4, <4>1
      <4>2. CASE n # 1
        <5>1. G[n] = F[n] /\ G[n - 1] = F[n - 1]
          BY <1>0, <4>2
        <5>2. F[n] = F[n - 1] \o ss[n]
          BY <2>4, <4>2
        <5>3. g[n] = g[n - 1] \o ss[n]
          BY <1>4
        <5> HIDE DEF G
        <5> QED
          BY <3>1, <5>1, <5>2, <5>3
      <4> QED
        BY <4>1, <4>2
    <3>2. G[0] = g[0]
      BY <1>0, <1>3
    <3> HIDE DEF G
    <3> QED
      BY <3>1, <3>2 DEF StayAlike
  <2>6. Alike(G, g, Len(ss))
    <3> HIDE DEF G
    <3> QED
      BY <1>0, <2>5, FoldUnique
  <2>7. F[Len(ss)] = g[Len(ss)]
    BY <1>0, <1>6, <2>6 DEF Alike
  <2> QED
    BY <1>3, <1>4, <2>3, <2>7
<1> QED
  BY <1>5, <1>6

\* No texts make the empty text.
LEMMA FlatEmpty == FlattenSeq(<<>>) = <<>>
<1>1. <<>> \in Seq(Text) /\ Len(<<>>) = 0
  BY EmptySeq
<1> QED
  BY <1>1, FlatDef

\* Texts, one after the other, are a text.
LEMMA FlatType == ASSUME NEW ss \in Seq(Text) PROVE FlattenSeq(ss) \in Text
<1>1. Len(ss) \in Nat
  BY LenProperties
<1>2. PICK g \in [0..Len(ss) -> Text] : FlattenSeq(ss) = g[Len(ss)]
  BY FlatDef
<1> QED
  BY <1>1, <1>2

\* One more text comes after the others.
LEMMA FlatAppend ==
    ASSUME NEW ss \in Seq(Text), NEW x \in Text
    PROVE  FlattenSeq(Append(ss, x)) = FlattenSeq(ss) \o x
<1>0. PICK a \in Seq(Text) : a = Append(ss, x)
  BY AppendProperties
<1>1. /\ Len(ss) \in Nat /\ Len(a) = Len(ss) + 1
      /\ a[Len(ss) + 1] = x /\ \A n \in 1..Len(ss) : a[n] = ss[n]
  BY <1>0, LenProperties, AppendProperties
<1>2. PICK g : /\ g[0] = <<>> /\ \A n \in 1..Len(ss) : g[n] = g[n - 1] \o ss[n]
               /\ FlattenSeq(ss) = g[Len(ss)]
  BY FlatDef
<1>3. PICK h : /\ h[0] = <<>> /\ \A n \in 1..Len(a) : h[n] = h[n - 1] \o a[n]
               /\ FlattenSeq(a) = h[Len(a)]
  BY FlatDef
<1>4. ASSUME NEW n \in 1..Len(ss), g[n - 1] = h[n - 1] PROVE g[n] = h[n]
  <2>1. n \in 1..Len(a) /\ a[n] = ss[n]
    BY <1>1
  <2>2. g[n] = g[n - 1] \o ss[n] /\ h[n] = h[n - 1] \o a[n]
    BY <1>2, <1>3, <2>1
  <2> QED
    BY <1>4, <2>1, <2>2
<1>5. StayAlike(g, h, Len(ss))
  BY <1>2, <1>3, <1>4 DEF StayAlike
<1>6. g[Len(ss)] = h[Len(ss)]
  BY <1>1, <1>5, FoldUnique DEF Alike
<1>7. h[Len(ss) + 1] = h[Len(ss)] \o x
  <2>1. PICK n \in 1..Len(a) : n = Len(ss) + 1 /\ n - 1 = Len(ss)
    BY <1>1
  <2>2. h[n] = h[n - 1] \o a[n]
    BY <1>3
  <2> QED
    BY <1>1, <2>1, <2>2
<1> QED
  BY <1>0, <1>1, <1>2, <1>3, <1>6, <1>7

\* Each segment after a separator.
Chain(sep, segs) == FlattenSeq([i \in DOMAIN segs |-> <<sep>> \o segs[i]])

\* One more text at the end of a chain comes after a separator.
LEMMA ChainAppend ==
    ASSUME NEW sep \in Byte, NEW segs \in Seq(Text), NEW x \in Text
    PROVE  /\ Chain(sep, Append(segs, x)) = Chain(sep, segs) \o (<<sep>> \o x)
           /\ Chain(sep, segs) \in Text
<1> DEFINE d(s) == [i \in DOMAIN s |-> <<sep>> \o s[i]]
<1>0. /\ Append(segs, x) \in Seq(Text) /\ Len(segs) \in Nat /\ Len(Append(segs, x)) = Len(segs) + 1
      /\ Append(segs, x)[Len(segs) + 1] = x /\ \A n \in 1..Len(segs) : Append(segs, x)[n] = segs[n]
      /\ DOMAIN segs = 1..Len(segs) /\ DOMAIN Append(segs, x) = 1..(Len(segs) + 1)
  BY LenProperties, AppendProperties
<1>1. \A y \in Text : <<sep>> \o y \in Text
  BY ConcatProperties DEF Text
<1>2. d(segs) \in Seq(Text) /\ Len(d(segs)) = Len(segs)
  <2>1. \A i \in 1..Len(segs) : <<sep>> \o segs[i] \in Text
    BY <1>1, ElementOfSeq
  <2>2. d(segs) \in [1..Len(segs) -> Text]
    BY <1>0, <2>1
  <2> QED
    BY <1>0, <2>2
<1>3. d(Append(segs, x)) \in Seq(Text) /\ Len(d(Append(segs, x))) = Len(segs) + 1
  <2>1. \A i \in 1..(Len(segs) + 1) : <<sep>> \o Append(segs, x)[i] \in Text
    BY <1>0, <1>1, ElementOfSeq
  <2>2. d(Append(segs, x)) \in [1..(Len(segs) + 1) -> Text]
    BY <1>0, <2>1
  <2> QED
    BY <1>0, <2>2
<1>4. d(Append(segs, x)) = Append(d(segs), <<sep>> \o x)
  <2>1. PICK y \in Text : y = <<sep>> \o x
    BY <1>1
  <2>2. /\ Append(d(segs), y) \in Seq(Text) /\ Len(Append(d(segs), y)) = Len(segs) + 1
        /\ \A i \in 1..Len(segs) : Append(d(segs), y)[i] = d(segs)[i]
        /\ Append(d(segs), y)[Len(segs) + 1] = y
    <3> HIDE DEF d
    <3> QED
      BY <1>2, AppendProperties
  <2>3. \A i \in 1..Len(segs) : d(Append(segs, x))[i] = d(segs)[i]
    BY <1>0
  <2>4. d(Append(segs, x))[Len(segs) + 1] = y
    BY <1>0, <2>1
  <2>5. \A i \in 1..(Len(segs) + 1) : d(Append(segs, x))[i] = Append(d(segs), y)[i]
    <3> HIDE DEF d
    <3> QED
      BY <1>0, <2>2, <2>3, <2>4
  <2> HIDE DEF d
  <2> QED
    BY <1>3, <2>1, <2>2, <2>5, SeqEqual
<1>5. Chain(sep, segs) = FlattenSeq(d(segs)) /\ Chain(sep, Append(segs, x)) = FlattenSeq(d(Append(segs, x)))
  BY DEF Chain
<1> HIDE DEF d
<1>6. <<sep>> \o x \in Text
  BY <1>1
<1> QED
  BY <1>2, <1>4, <1>5, <1>6, FlatAppend, FlatType

\* The chain of no texts is empty.
LEMMA ChainEmpty == ASSUME NEW sep PROVE Chain(sep, <<>>) = <<>>
<1>1. [i \in DOMAIN <<>> |-> <<sep>> \o <<>>[i]] = <<>>
  OBVIOUS
<1> QED
  BY <1>1, FlatEmpty DEF Chain

\* The texts without separator.
FreeTexts(sep) == {t \in Text : Free(t, sep)}

\* Texts without separators are texts.
LEMMA FreeSeq ==
    ASSUME NEW sep, NEW segs \in Seq(FreeTexts(sep))
    PROVE  segs \in Seq(Text)
<1>1. FreeTexts(sep) \subseteq Text
  BY DEF FreeTexts
<1> QED
  BY <1>1, SeqMonotonic

\* A chain is a text.
LEMMA ChainType ==
    ASSUME NEW sep \in Byte, NEW segs \in Seq(Text)
    PROVE  Chain(sep, segs) \in Text
<1>1. <<>> \in Text
  BY EmptySeq DEF Text
<1> QED
  BY <1>1, ChainAppend

\* Reading a chain adds its texts to the pieces.
LEMMA SplitChain ==
    ASSUME NEW s \in Text, NEW sep \in Byte
    PROVE  \A segs \in Seq(FreeTexts(sep)) : Split(s \o Chain(sep, segs), sep) = Split(s, sep) \o segs
<1> DEFINE T == {segs \in Seq(FreeTexts(sep)) : Split(s \o Chain(sep, segs), sep) = Split(s, sep) \o segs}
<1>0. Split(s, sep) \in Seq(Text)
  BY SplitType DEF Pieces
<1>1. <<>> \in T
  <2>1. <<>> \in Seq(FreeTexts(sep)) /\ Split(s, sep) \o <<>> = Split(s, sep) /\ s \o <<>> = s
    BY <1>0, EmptySeq, ConcatEmptySeq DEF Text
  <2> QED
    BY <2>1, ChainEmpty
<1>2. ASSUME NEW segs \in Seq(FreeTexts(sep)), NEW x \in FreeTexts(sep), segs \in T
      PROVE  Append(segs, x) \in T
  <2>1. Append(segs, x) \in Seq(FreeTexts(sep)) /\ segs \in Seq(Text) /\ x \in Text /\ Free(x, sep)
    BY FreeSeq, AppendProperties DEF FreeTexts
  <2>2. PICK c \in Text : c = Chain(sep, segs)
    BY <2>1, ChainType
  <2>3. Chain(sep, Append(segs, x)) = c \o (<<sep>> \o x)
    BY <2>1, <2>2, ChainAppend
  <2>4. s \o (c \o (<<sep>> \o x)) = (s \o c) \o (<<sep>> \o x) /\ s \o c \in Text
    <3>1. <<sep>> \o x \in Text
      BY <2>1, ConcatProperties DEF Text
    <3> QED
      BY SMTT(30), <3>1, ConcatAssociative, ConcatProperties DEF Text
  <2>5. Split((s \o c) \o (<<sep>> \o x), sep) = Append(Split(s \o c, sep), x)
    BY <2>1, <2>4, SplitAtSep
  <2>6. Split(s \o c, sep) = Split(s, sep) \o segs
    BY <1>2, <2>2
  <2>7. Split(s, sep) \o Append(segs, x) = Append(Split(s, sep) \o segs, x)
    BY <1>0, <2>1, ConcatAppend
  <2> QED
    BY <2>1, <2>3, <2>4, <2>5, <2>6, <2>7
<1> HIDE DEF T
<1>3. Seq(FreeTexts(sep)) \subseteq T
  BY <1>1, <1>2, SeqInduction
<1> QED
  BY <1>3 DEF T

-----------------------------------------------------------------------------
\* One more token leaves a vector of texts.
LEMMA NextSegType ==
    ASSUME NEW seg \in Seq(Text), NEW t \in Text
    PROVE  NextSeg(seg, t) \in Seq(Text)
<1>1. Popped(seg) \in Seq(Text)
  BY FrontLast, EmptySeq DEF Popped
<1> QED
  BY <1>1, AppendProperties DEF NextSeg

\* The loop of normalizePath goes through its states from no segment on.
LEMMA SegmentsDef ==
    ASSUME NEW ts \in Seq(Text)
    PROVE  \E g \in [0..Len(ts) -> Seq(Text)] :
              /\ g[0] = <<>> /\ \A n \in 1..Len(ts) : g[n] = NextSeg(g[n - 1], ts[n])
              /\ Segments(ts) = g[Len(ts)]
<1> DEFINE f == [x \in Seq(Text) \X Text |-> NextSeg(x[1], x[2])]
           b == <<>>
<1>0. Len(ts) \in Nat /\ \A n \in 1..Len(ts) : ts[n] \in Text
  BY LenProperties, ElementOfSeq
<1>1. b \in Seq(Text)
  BY EmptySeq
<1>2. f \in [Seq(Text) \X Text -> Seq(Text)]
  BY NextSegType
<1> HIDE DEF f, b
<1>3. PICK g \in [0..Len(ts) -> Seq(Text)] :
         g[0] = b /\ \A n \in 1..Len(ts) : g[n] = f[<<g[n - 1], ts[n]>>]
  <2>2. \E g : Folds(g, Seq(Text), b, f, ts)
    BY <1>1, <1>2, FoldExists
  <2> QED
    BY <2>2 DEF Folds
<1>4. ASSUME NEW n \in 1..Len(ts) PROVE g[n] = NextSeg(g[n - 1], ts[n])
  <2>1. g[n - 1] \in Seq(Text) /\ ts[n] \in Text
    BY <1>0
  <2>2. f[<<g[n - 1], ts[n]>>] = NextSeg(g[n - 1], ts[n])
    BY <2>1 DEF f
  <2> QED
    BY <1>3, <2>2
<1> DEFINE Rec(h) == h = [n \in 0..Len(ts) |-> IF n = 0 THEN b ELSE NextSeg(h[n - 1], ts[n])]
           F == CHOOSE h : Rec(h)
<1>5. Rec(g)
  <2>1. \A n \in 0..Len(ts) : g[n] = IF n = 0 THEN b ELSE NextSeg(g[n - 1], ts[n])
    BY <1>0, <1>3, <1>4
  <2> QED
    BY <2>1
<1>6. Rec(F)
  <2> HIDE DEF Rec
  <2> QED
    BY <1>5
<1>7. Segments(ts) = F[Len(ts)]
  BY DEF Segments, b
<1> HIDE DEF F
<1>8. F[0] = b /\ \A n \in 1..Len(ts) : F[n] = NextSeg(F[n - 1], ts[n])
  BY <1>0, <1>6
<1>9. F[Len(ts)] = g[Len(ts)]
  <2>1. \A n \in 1..Len(ts) : F[n - 1] = g[n - 1] => F[n] = g[n]
    BY <1>4, <1>8
  <2>2. StayAlike(F, g, Len(ts))
    BY <1>3, <1>8, <2>1 DEF StayAlike
  <2> QED
    BY <1>0, <2>2, FoldUnique DEF Alike
<1> QED
  BY <1>3, <1>4, <1>7, <1>9 DEF b

\* Without tokens there are no segments.
LEMMA SegmentsEmpty == Segments(<<>>) = <<>>
<1>1. <<>> \in Seq(Text) /\ Len(<<>>) = 0
  BY EmptySeq
<1> QED
  BY <1>1, SegmentsDef

\* Segments are texts.
LEMMA SegmentsType == ASSUME NEW ts \in Seq(Text) PROVE Segments(ts) \in Seq(Text)
<1>1. Len(ts) \in Nat
  BY LenProperties
<1>2. PICK g \in [0..Len(ts) -> Seq(Text)] : Segments(ts) = g[Len(ts)]
  BY SegmentsDef
<1> QED
  BY <1>1, <1>2

\* One more token changes the segments as NextSeg says.
LEMMA SegmentsAppend ==
    ASSUME NEW ts \in Seq(Text), NEW x \in Text
    PROVE  Segments(Append(ts, x)) = NextSeg(Segments(ts), x)
<1>0. PICK a \in Seq(Text) : a = Append(ts, x)
  BY AppendProperties
<1>1. /\ Len(ts) \in Nat /\ Len(a) = Len(ts) + 1
      /\ a[Len(ts) + 1] = x /\ \A n \in 1..Len(ts) : a[n] = ts[n]
  BY <1>0, LenProperties, AppendProperties
<1>2. PICK g : /\ g[0] = <<>> /\ \A n \in 1..Len(ts) : g[n] = NextSeg(g[n - 1], ts[n])
               /\ Segments(ts) = g[Len(ts)]
  BY SegmentsDef
<1>3. PICK h : /\ h[0] = <<>> /\ \A n \in 1..Len(a) : h[n] = NextSeg(h[n - 1], a[n])
               /\ Segments(a) = h[Len(a)]
  BY SegmentsDef
<1>4. ASSUME NEW n \in 1..Len(ts), g[n - 1] = h[n - 1] PROVE g[n] = h[n]
  <2>1. n \in 1..Len(a) /\ a[n] = ts[n]
    BY <1>1
  <2>2. g[n] = NextSeg(g[n - 1], ts[n]) /\ h[n] = NextSeg(h[n - 1], a[n])
    BY <1>2, <1>3, <2>1
  <2> QED
    BY <1>4, <2>1, <2>2
<1>5. StayAlike(g, h, Len(ts))
  BY <1>2, <1>3, <1>4 DEF StayAlike
<1>6. g[Len(ts)] = h[Len(ts)]
  BY <1>1, <1>5, FoldUnique DEF Alike
<1>7. h[Len(ts) + 1] = NextSeg(h[Len(ts)], x)
  <2>1. PICK n \in 1..Len(a) : n = Len(ts) + 1 /\ n - 1 = Len(ts)
    BY <1>1
  <2>2. h[n] = NextSeg(h[n - 1], a[n])
    BY <1>3
  <2> QED
    BY <1>1, <2>1, <2>2
<1> QED
  BY <1>0, <1>1, <1>2, <1>3, <1>6, <1>7

-----------------------------------------------------------------------------
(* normalizePath. *)

\* Segments that mean a file or directory of their own.
PlainSeg == {t \in FreeTexts(Slash) : ~Skipped(t) /\ ~IsUp(t)}

\* Plain segments are texts without slashes.
LEMMA PlainSeqs ==
    ASSUME NEW segs \in Seq(PlainSeg)
    PROVE  segs \in Seq(Text) /\ segs \in Seq(FreeTexts(Slash))
<1>1. PlainSeg \subseteq Text /\ PlainSeg \subseteq FreeTexts(Slash)
  BY DEF PlainSeg, FreeTexts
<1> QED
  BY <1>1, SeqMonotonic

\* Plain segments are kept as they are.
LEMMA SegmentsPlain ==
    ASSUME NEW ts \in Seq(Text)
    PROVE  \A segs \in Seq(PlainSeg) : Segments(ts \o segs) = Segments(ts) \o segs
<1> DEFINE T == {segs \in Seq(PlainSeg) : Segments(ts \o segs) = Segments(ts) \o segs}
<1>0. Segments(ts) \in Seq(Text)
  BY SegmentsType
<1>1. <<>> \in T
  <2>1. <<>> \in Seq(PlainSeg) /\ Segments(ts) \o <<>> = Segments(ts) /\ ts \o <<>> = ts
    BY <1>0, EmptySeq, ConcatEmptySeq
  <2> QED
    BY <2>1
<1>2. ASSUME NEW segs \in Seq(PlainSeg), NEW x \in PlainSeg, segs \in T
      PROVE  Append(segs, x) \in T
  <2>1. Append(segs, x) \in Seq(PlainSeg) /\ segs \in Seq(Text) /\ x \in Text
    BY PlainSeqs, AppendProperties DEF PlainSeg, FreeTexts
  <2>2. ts \o Append(segs, x) = Append(ts \o segs, x) /\ ts \o segs \in Seq(Text)
    BY <2>1, ConcatAppend, ConcatProperties
  <2>3. Segments(Append(ts \o segs, x)) = NextSeg(Segments(ts \o segs), x)
    BY <2>1, <2>2, SegmentsAppend
  <2>4. NextSeg(Segments(ts \o segs), x) = Append(Segments(ts) \o segs, x)
    BY <1>2 DEF NextSeg, PlainSeg
  <2>5. Segments(ts) \o Append(segs, x) = Append(Segments(ts) \o segs, x)
    BY <1>0, <2>1, ConcatAppend
  <2> QED
    BY <2>1, <2>2, <2>3, <2>4, <2>5
<1> HIDE DEF T
<1>3. Seq(PlainSeg) \subseteq T
  BY <1>1, <1>2, SeqInduction
<1> QED
  BY <1>3 DEF T

\* The segments of a text.
Segs(s) == Segments(Split(s, Slash))

\* The characters of detours are bytes, and only one is a slash.
LEMMA SlashIsByte == Slash \in Byte /\ Dot \in Byte /\ 97 \in Byte /\ Dot # Slash /\ 97 # Slash
BY DEF Slash, Dot, Byte

\* The empty path has no segments.
LEMMA SegsEmpty == Segs(<<>>) = <<>>
<1>1. <<>> \in Seq(Text) /\ <<>> \in Text /\ Append(<<>>, <<>>) = <<<<>>>>
  BY EmptySeq DEF Text
<1>2. Segments(Append(<<>>, <<>>)) = NextSeg(<<>>, <<>>)
  BY <1>1, SegmentsAppend, SegmentsEmpty
<1> QED
  BY <1>1, <1>2, SplitEmpty DEF Segs, NextSeg, Skipped

\* A slash and a segment change the segments as NextSeg says.
LEMMA SegsEnter ==
    ASSUME NEW s \in Text, NEW t \in FreeTexts(Slash)
    PROVE  Segs(s \o (<<Slash>> \o t)) = NextSeg(Segs(s), t)
<1>1. t \in Text /\ Free(t, Slash) /\ Split(s, Slash) \in Seq(Text)
  BY SplitType DEF FreeTexts, Pieces
<1>2. Split(s \o (<<Slash>> \o t), Slash) = Append(Split(s, Slash), t)
  BY <1>1, SlashIsByte, SplitAtSep
<1> QED
  BY <1>1, <1>2, SegmentsAppend DEF Segs

\* What normalizePath joins is a text.
LEMMA JoinType == ASSUME NEW segs \in Seq(Text) PROVE Join(segs) \in Text
<1>1. <<Slash>> \in Text /\ Chain(Slash, segs) \in Text
  BY SlashIsByte, ChainType DEF Text
<1> QED
  BY <1>1 DEF Join, Chain

\* A normalised path adds its segments to those of what stands before it.
LEMMA SegsJoin ==
    ASSUME NEW s \in Text, NEW segs \in Seq(PlainSeg)
    PROVE  Segs(s \o Join(segs)) = Segs(s) \o segs
<1>0. Split(s, Slash) \in Seq(Text) /\ Segs(s) \in Seq(Text)
  BY SplitType, SegmentsType DEF Pieces, Segs
<1>1. CASE segs = <<>>
  <2>1. <<>> \in FreeTexts(Slash) /\ <<Slash>> \o <<>> = <<Slash>> /\ Segs(s) \o <<>> = Segs(s)
    BY <1>0, SlashIsByte, EmptySeq, ConcatEmptySeq DEF FreeTexts, Free, Text
  <2>2. Segs(s \o <<Slash>>) = NextSeg(Segs(s), <<>>)
    BY <2>1, SegsEnter
  <2> QED
    BY <1>1, <2>1, <2>2 DEF NextSeg, Skipped, Join
<1>2. CASE segs # <<>>
  <2>1. Join(segs) = Chain(Slash, segs)
    BY <1>2 DEF Join, Chain
  <2>2. Split(s \o Chain(Slash, segs), Slash) = Split(s, Slash) \o segs
    BY PlainSeqs, SlashIsByte, SplitChain
  <2> QED
    BY <1>0, <2>1, <2>2, SegmentsPlain DEF Segs
<1> QED
  BY <1>1, <1>2

\* normalizePath finds the way back from every detour.
LEMMA NormalizeUndoes ==
    ASSUME NEW segs \in Seq(PlainSeg), NEW d \in Detours(Join(segs))
    PROVE  d \in Text /\ normalizePath(d) = Join(segs)
<1> DEFINE p == Join(segs)
           up == <<Dot, Dot>>
<1>0. /\ p \in Text /\ segs \in Seq(Text) /\ <<>> \in Text
      /\ <<>> \o segs = segs
  BY PlainSeqs, JoinType, EmptySeq, ConcatEmptySeq DEF Text
<1>1. <<>> \in FreeTexts(Slash) /\ <<Dot>> \in FreeTexts(Slash) /\ up \in FreeTexts(Slash) /\ <<97>> \in FreeTexts(Slash)
  BY SlashIsByte DEF FreeTexts, Text, Free
<1>2. ASSUME NEW u \in Text, Segs(u) = <<>> PROVE normalizePath(u \o p) = p /\ u \o p \in Text
  BY <1>0, <1>2, SegsJoin, ConcatProperties DEF normalizePath, Segs, Text
<1>3. NextSeg(<<>>, <<>>) = <<>> /\ NextSeg(<<>>, <<Dot>>) = <<>> /\ NextSeg(<<>>, up) = <<>>
  BY DEF NextSeg, Skipped, IsUp, Popped
<1>4. CASE d = p
  <2>1. <<>> \o p = p
    BY <1>0, ConcatEmptySeq DEF Text
  <2> QED
    BY <1>0, <1>2, <1>4, <2>1, SegsEmpty
<1>5. <<Slash>> \in Text /\ Segs(<<Slash>>) = <<>>
  <2>1. <<>> \o (<<Slash>> \o <<>>) = <<Slash>> /\ <<Slash>> \in Text
    BY SlashIsByte DEF Text
  <2> QED
    BY <1>0, <1>1, <1>3, <2>1, SegsEmpty, SegsEnter
<1>6. <<Slash, Dot>> \in Text /\ Segs(<<Slash, Dot>>) = <<>>
  <2>1. <<>> \o (<<Slash>> \o <<Dot>>) = <<Slash, Dot>> /\ <<Slash, Dot>> \in Text
    <3>1. <<Slash>> \o <<Dot>> = <<Slash, Dot>>
      BY SlashIsByte, TwoBytes
    <3>2. <<Slash>> \o <<Dot>> \in Seq(Byte)
      BY SlashIsByte, ConcatProperties
    <3>3. <<>> \o (<<Slash>> \o <<Dot>>) = <<Slash>> \o <<Dot>>
      BY <3>2, ConcatEmptySeq
    <3> QED
      BY <3>1, <3>2, <3>3 DEF Text
  <2> QED
    BY <1>0, <1>1, <1>3, <2>1, SegsEmpty, SegsEnter
<1>7. <<Slash>> \o up \in Text /\ Segs(<<Slash>> \o up) = <<>>
  <2>0. up \in Text
    BY <1>1 DEF FreeTexts
  <2>1. <<>> \o (<<Slash>> \o up) = <<Slash>> \o up /\ <<Slash>> \o up \in Text
    <3> HIDE DEF up
    <3>1. <<Slash>> \o up \in Seq(Byte)
      BY <1>5, <2>0, ConcatProperties DEF Text
    <3> QED
      BY <3>1, ConcatEmptySeq DEF Text
  <2> QED
    BY <1>0, <1>1, <1>3, <2>1, SegsEmpty, SegsEnter
<1>8. NextSeg(segs, <<>>) = segs /\ NextSeg(segs, <<97>>) = Append(segs, <<97>>) /\ NextSeg(Append(segs, <<97>>), up) = segs
  <2>1. Append(segs, <<97>>) # <<>> /\ Front(Append(segs, <<97>>)) = segs
    BY <1>0, <1>1, AppendProperties, FrontLastAppend DEF FreeTexts
  <2> QED
    BY <2>1 DEF NextSeg, Skipped, IsUp, Popped, Dot
<1>9. <<Slash, 97, Slash>> \o up \in Text /\ Segs(<<Slash, 97, Slash>> \o up) = <<>>
  <2>1. <<>> \o (<<Slash>> \o <<97>>) = <<Slash, 97>> /\ <<Slash, 97>> \in Text
    <3>1. <<Slash>> \o <<97>> = <<Slash, 97>>
      BY SlashIsByte, TwoBytes
    <3>2. <<Slash>> \o <<97>> \in Seq(Byte)
      BY SlashIsByte, ConcatProperties
    <3>3. <<>> \o (<<Slash>> \o <<97>>) = <<Slash>> \o <<97>>
      BY <3>2, ConcatEmptySeq
    <3> QED
      BY <3>1, <3>2, <3>3 DEF Text
  <2>2. Segs(<<Slash, 97>>) = NextSeg(<<>>, <<97>>)
    BY ZenonT(60), <1>0, <1>1, <2>1, SegsEmpty, SegsEnter
  <2>3. <<Slash, 97, Slash>> \o up = <<Slash, 97>> \o (<<Slash>> \o up) /\ <<Slash, 97, Slash>> \o up \in Text
    <3>1. <<Slash, 97, Slash>> \o up = <<Slash, 97>> \o (<<Slash>> \o up)
      OBVIOUS
    <3> HIDE DEF up
    <3>2. <<Slash, 97>> \o (<<Slash>> \o up) \in Text
      BY <1>7, <2>1, ConcatProperties DEF Text
    <3> QED
      BY <3>1, <3>2
  <2>4. Segs(<<Slash, 97, Slash>> \o up) = NextSeg(NextSeg(<<>>, <<97>>), up)
    BY ZenonT(60), <1>1, <2>1, <2>2, <2>3, SegsEnter
  <2>5. NextSeg(<<>>, <<97>>) = <<<<97>>>> /\ NextSeg(<<<<97>>>>, up) = <<>>
    <3>1. Front(<<<<97>>>>) = <<>>
      BY DEF Front
    <3> QED
      BY <3>1 DEF NextSeg, Skipped, IsUp, Popped, Dot
  <2> QED
    BY <2>3, <2>4, <2>5
<1>10. Segs(p) = segs
  <2>1. <<>> \o p = p
    BY <1>0, ConcatEmptySeq DEF Text
  <2>2. Segs(<<>> \o p) = Segs(<<>>) \o segs
    BY <1>0, SegsJoin
  <2> QED
    BY <1>0, <2>1, <2>2, SegsEmpty
<1>11. p \o <<Slash>> \in Text /\ normalizePath(p \o <<Slash>>) = p
  <2>1. <<Slash>> \o <<>> = <<Slash>> /\ p \o <<Slash>> \in Text
    BY <1>0, <1>5, ConcatEmptySeq, ConcatProperties DEF Text
  <2>2. Segs(p \o <<Slash>>) = segs
    BY ZenonT(60), <1>0, <1>1, <1>8, <1>10, <2>1, SegsEnter
  <2> QED
    BY <2>1, <2>2 DEF normalizePath, Segs
<1>12. p \o <<Slash, 97, Slash>> \o up \in Text /\ normalizePath(p \o <<Slash, 97, Slash>> \o up) = p
  <2>1. /\ p \o (<<Slash>> \o <<97>>) \in Text /\ <<Slash>> \o up \in Text /\ <<Slash, 97, Slash>> \in Text
        /\ up \in Text /\ <<Slash>> \o <<97>> \in Text
    BY <1>0, <1>7, SlashIsByte, ConcatProperties DEF Text
  <2>2. <<Slash, 97, Slash>> \o up = (<<Slash>> \o <<97>>) \o (<<Slash>> \o up)
    OBVIOUS
  <2>3. p \o <<Slash, 97, Slash>> \o up = (p \o (<<Slash>> \o <<97>>)) \o (<<Slash>> \o up)
    BY SMTT(30), <1>0, <2>1, <2>2, ConcatAssociative DEF Text
  <2>4. Segs(p \o (<<Slash>> \o <<97>>)) = Append(segs, <<97>>)
    BY <1>0, <1>1, <1>8, <1>10, SegsEnter
  <2>5. Segs(p \o <<Slash, 97, Slash>> \o up) = segs
    <3>1. PICK w \in Text : w = p \o (<<Slash>> \o <<97>>)
      BY <2>1
    <3>2. Segs(w \o (<<Slash>> \o up)) = NextSeg(Segs(w), up)
      BY <1>1, SegsEnter
    <3> HIDE DEF up, p
    <3> QED
      BY <1>8, <2>3, <2>4, <3>1, <3>2
  <2>6. p \o <<Slash, 97, Slash>> \o up \in Text
    BY <2>1, <2>3, ConcatProperties DEF Text
  <2> QED
    BY <2>5, <2>6 DEF normalizePath, Segs
<1> HIDE DEF p, up
<1>13. d \in {p, <<Slash>> \o p, <<Slash, Dot>> \o p, <<Slash, 97, Slash>> \o up \o p,
              <<Slash>> \o up \o p, p \o <<Slash>>, p \o <<Slash, 97, Slash>> \o up}
  BY DEF Detours, p, up
<1> QED
  <2>1. d \in Text /\ normalizePath(d) = p
    <3>1. CASE d = p
      BY <1>4, <3>1 DEF p
    <3>2. CASE d = <<Slash>> \o p \/ d = <<Slash, Dot>> \o p
      BY <1>2, <1>5, <1>6, <3>2
    <3>3. CASE d = <<Slash, 97, Slash>> \o up \o p \/ d = <<Slash>> \o up \o p
      BY <1>2, <1>7, <1>9, <3>3
    <3>4. CASE d = p \o <<Slash>> \/ d = p \o <<Slash, 97, Slash>> \o up
      BY <1>11, <1>12, <3>4
    <3> QED
      BY <1>13, <3>1, <3>2, <3>3, <3>4
  <2> QED
    BY <2>1 DEF p

-----------------------------------------------------------------------------
(* urlDecode. *)

\* g holds what is read from each index on.
Reads(g, N, out, next) ==
    /\ g \in [1..(N + 1) -> Text] /\ g[N + 1] = <<>>
    /\ \A i \in 1..N : g[i] = <<out[i]>> \o g[next[i]]

\* There is a function that holds what a loop reads from each index on.
LEMMA ReadsExists ==
    ASSUME NEW N \in Nat, NEW out \in [1..N -> Byte], NEW next \in [1..N -> 1..(N + 1)],
           \A i \in 1..N : next[i] > i
    PROVE  \E g : Reads(g, N, out, next)
<1> DEFINE From(g, k) == \A i \in 1..N : i > N - k => g[i] = <<out[i]>> \o g[next[i]]
           T == {k \in Nat : k <= N => \E g \in [1..(N + 1) -> Text] : g[N + 1] = <<>> /\ From(g, k)}
<1>1. 0 \in T
  <2> DEFINE g == [i \in 1..(N + 1) |-> <<>>]
  <2>1. g \in [1..(N + 1) -> Text] /\ g[N + 1] = <<>>
    BY EmptySeq DEF Text
  <2>2. From(g, 0)
    OBVIOUS
  <2> HIDE DEF g, From
  <2> QED
    BY <2>1, <2>2
<1>2. ASSUME NEW k \in Nat, k \in T PROVE k + 1 \in T
  <2> SUFFICES ASSUME k + 1 <= N
               PROVE  \E g \in [1..(N + 1) -> Text] : g[N + 1] = <<>> /\ From(g, k + 1)
    OBVIOUS
  <2>1. PICK g \in [1..(N + 1) -> Text] : g[N + 1] = <<>> /\ From(g, k)
    BY <1>2
  <2>2. PICK m \in 1..N : m = N - k
    OBVIOUS
  <2>3. PICK w : w = <<out[m]>> \o g[next[m]]
    OBVIOUS
  <2>4. w \in Text
    <3>1. out[m] \in Byte /\ next[m] \in 1..(N + 1)
      OBVIOUS
    <3>2. PICK r \in Seq(Byte) : r = g[next[m]]
      BY <3>1 DEF Text
    <3>3. <<out[m]>> \in Seq(Byte)
      <4>1. PICK b \in Byte : b = out[m]
        BY <3>1
      <4>2. <<b>> \in Seq(Byte)
        OBVIOUS
      <4> QED
        BY <4>1, <4>2
    <3> QED
      BY <2>3, <3>2, <3>3, ConcatProperties DEF Text
  <2> DEFINE h == [i \in 1..(N + 1) |-> IF i = m THEN w ELSE g[i]]
  <2>5. h \in [1..(N + 1) -> Text] /\ h[N + 1] = <<>>
    BY <2>1, <2>2, <2>4
  <2>6. ASSUME NEW i \in 1..N, i > N - (k + 1) PROVE h[i] = <<out[i]>> \o h[next[i]]
    <3>1. next[i] \in 1..(N + 1) /\ next[i] # m
      BY <2>2, <2>6
    <3>2. h[next[i]] = g[next[i]]
      BY <3>1
    <3>3. CASE i = m
      BY <2>3, <3>2, <3>3
    <3>4. CASE i # m
      <4>1. i > N - k /\ h[i] = g[i]
        BY <2>2, <2>6, <3>4
      <4>2. g[i] = <<out[i]>> \o g[next[i]]
        BY <2>1, <4>1
      <4> QED
        BY <3>2, <4>1, <4>2
    <3> QED
      BY <3>3, <3>4
  <2>7. From(h, k + 1)
    BY <2>6
  <2> HIDE DEF h, From
  <2> QED
    BY <2>5, <2>7
<1> HIDE DEF T
<1>3. N \in T
  BY <1>1, <1>2, Induction
<1>4. PICK g \in [1..(N + 1) -> Text] : g[N + 1] = <<>> /\ From(g, N)
  BY <1>3 DEF T
<1>5. Reads(g, N, out, next)
  BY <1>4 DEF Reads
<1> QED
  BY <1>5

\* g and h are alike at the end, and at an index if they are so after it.
AlikeBackwards(g, h, N) ==
    /\ g[N + 1] = h[N + 1]
    /\ \A i \in 1..N : (\A j \in 1..(N + 1) : j > i => g[j] = h[j]) => g[i] = h[i]

\* There is only one: what is alike backwards is alike at the start.
LEMMA ReadsUnique ==
    ASSUME NEW N \in Nat, NEW g, NEW h, AlikeBackwards(g, h, N)
    PROVE  g[1] = h[1]
<1> DEFINE T == {k \in Nat : k <= N => \A i \in 1..(N + 1) : i > N - k => g[i] = h[i]}
<1>1. 0 \in T
  BY DEF AlikeBackwards
<1>2. ASSUME NEW k \in Nat, k \in T PROVE k + 1 \in T
  <2> SUFFICES ASSUME k + 1 <= N, NEW i \in 1..(N + 1), i > N - (k + 1)
               PROVE  g[i] = h[i]
    OBVIOUS
  <2>1. \A j \in 1..(N + 1) : j > N - k => g[j] = h[j]
    BY <1>2
  <2>2. CASE i > N - k
    BY <2>1, <2>2
  <2>3. CASE i = N - k
    BY <2>1, <2>3 DEF AlikeBackwards
  <2> QED
    BY <2>2, <2>3
<1> HIDE DEF T
<1>3. N \in T
  BY <1>1, <1>2, Induction
<1> QED
  BY <1>3 DEF T

-----------------------------------------------------------------------------
\* std::stoi, cast to char, gives a byte unless it throws.
LEMMA StoiByte ==
    ASSUME NEW c \in Byte, NEW d \in Byte, Stoi(c, d) # Throws
    PROVE  Stoi(c, d) \in Byte
<1>1. ASSUME NEW e \in Byte, IsXDigit(e) PROVE HexValue(e) \in 0..15
  BY <1>1 DEF IsXDigit, IsDigit, HexValue, Byte
<1>2. \A v \in 0..15 : (256 - v) % 256 \in Byte
  BY DEF Byte
<1>3. \A v, w \in 0..15 : 16 * v + w \in Byte
  BY DEF Byte
<1>4. \A v \in 0..15 : v \in Byte
  BY DEF Byte
<1>5. CASE IsXDigit(c) /\ IsXDigit(d)
  BY <1>1, <1>3, <1>5 DEF Stoi
<1>6. CASE IsXDigit(c) /\ ~IsXDigit(d)
  BY <1>1, <1>4, <1>6 DEF Stoi
<1>7. CASE ~IsXDigit(c) /\ (IsSpace(c) \/ c = Plus) /\ IsXDigit(d)
  BY <1>1, <1>4, <1>7 DEF Stoi, IsSpace, Space, Plus
<1>8. CASE c = 45 /\ IsXDigit(d)
  BY <1>1, <1>2, <1>8 DEF Stoi, IsXDigit, IsDigit, IsSpace, Space, Plus
<1> QED
  BY <1>5, <1>6, <1>7, <1>8 DEF Stoi

\* urlDecode goes through the text by Decoded and Following.
LEMMA DecodeDef ==
    ASSUME NEW s \in Text
    PROVE  \E g \in [1..(Len(s) + 1) -> Text] :
              /\ g[Len(s) + 1] = <<>>
              /\ \A i \in 1..Len(s) : /\ Following(s, i) \in 1..(Len(s) + 1) /\ Following(s, i) > i
                                      /\ g[i] = <<Decoded(s, i)>> \o g[Following(s, i)]
              /\ urlDecode(s) = g[1]
<1> DEFINE out == [i \in 1..Len(s) |-> Decoded(s, i)]
           next == [i \in 1..Len(s) |-> Following(s, i)]
           N == Len(s)
<1>0. N \in Nat /\ \A i \in 1..N : s[i] \in Byte
  BY LenProperties, ElementOfSeq DEF Text
<1>1. ASSUME NEW i \in 1..N PROVE Decoded(s, i) \in Byte /\ Following(s, i) \in 1..(N + 1) /\ Following(s, i) > i
  <2>1. CASE IsEscape(s, i)
    <3>1. i + 2 <= N /\ Stoi(s[i + 1], s[i + 2]) # Throws
      BY <2>1 DEF IsEscape, HasTwoMore
    <3>2. s[i + 1] \in Byte /\ s[i + 2] \in Byte
      BY <1>0, <3>1
    <3>3. Stoi(s[i + 1], s[i + 2]) \in Byte
      BY <3>1, <3>2, StoiByte
    <3> QED
      BY <1>0, <2>1, <3>1, <3>3 DEF Decoded, Following
  <2>2. CASE ~IsEscape(s, i)
    <3>1. Space \in Byte
      BY DEF Space, Byte
    <3> QED
      BY <1>0, <2>2, <3>1 DEF Decoded, Following
  <2> QED
    BY <2>1, <2>2
<1>2. out \in [1..N -> Byte] /\ next \in [1..N -> 1..(N + 1)] /\ \A i \in 1..N : next[i] > i
  BY <1>1
<1>3. PICK g : Reads(g, N, out, next)
  <2> HIDE DEF out, next, N
  <2> QED
    BY <1>0, <1>2, ReadsExists
<1>4. /\ g \in [1..(N + 1) -> Text] /\ g[N + 1] = <<>>
      /\ \A i \in 1..N : g[i] = <<Decoded(s, i)>> \o g[Following(s, i)]
  <2>1. \A i \in 1..N : out[i] = Decoded(s, i) /\ next[i] = Following(s, i)
    OBVIOUS
  <2> HIDE DEF out, next, N
  <2> QED
    BY <1>3, <2>1 DEF Reads
<1> DEFINE Rec(h) == h = [i \in 1..(N + 1) |->
                            IF i > N THEN <<>> ELSE <<Decoded(s, i)>> \o h[Following(s, i)]]
           F == CHOOSE h : Rec(h)
<1>5. Rec(g)
  <2>1. \A i \in 1..(N + 1) : g[i] = IF i > N THEN <<>> ELSE <<Decoded(s, i)>> \o g[Following(s, i)]
    <3> HIDE DEF N
    <3> QED
      BY <1>0, <1>4
  <2> HIDE DEF N
  <2> QED
    BY <1>4, <2>1
<1>6. Rec(F)
  <2> HIDE DEF Rec
  <2> QED
    BY <1>5
<1>7. urlDecode(s) = F[1]
  BY DEF urlDecode
<1> HIDE DEF F, N
<1>8. F[N + 1] = <<>> /\ \A i \in 1..N : F[i] = <<Decoded(s, i)>> \o F[Following(s, i)]
  <2>1. \A i \in 1..(N + 1) : F[i] = IF i > N THEN <<>> ELSE <<Decoded(s, i)>> \o F[Following(s, i)]
    BY <1>6
  <2>2. N + 1 \in 1..(N + 1) /\ N + 1 > N /\ \A i \in 1..N : i \in 1..(N + 1) /\ ~(i > N)
    BY <1>0
  <2> HIDE DEF Rec
  <2> QED
    BY <2>1, <2>2
<1>9. F[1] = g[1]
  <2>1. ASSUME NEW i \in 1..N, \A j \in 1..(N + 1) : j > i => F[j] = g[j] PROVE F[i] = g[i]
    <3>1. F[Following(s, i)] = g[Following(s, i)]
      BY <1>1, <2>1
    <3> QED
      BY <1>4, <1>8, <3>1
  <2>2. AlikeBackwards(F, g, N)
    BY <1>4, <1>8, <2>1 DEF AlikeBackwards
  <2> QED
    BY <1>0, <2>2, ReadsUnique
<1> QED
  BY <1>1, <1>4, <1>7, <1>9 DEF N

\* A decoded text is a text.
LEMMA DecodeType == ASSUME NEW s \in Text PROVE urlDecode(s) \in Text
<1>1. Len(s) \in Nat
  BY LenProperties DEF Text
<1>2. PICK g \in [1..(Len(s) + 1) -> Text] : urlDecode(s) = g[1]
  BY DecodeDef
<1> QED
  BY <1>1, <1>2

\* Nothing is decoded to nothing.
LEMMA DecodeEmpty == urlDecode(<<>>) = <<>>
<1>1. <<>> \in Text /\ Len(<<>>) = 0
  BY EmptySeq DEF Text
<1> QED
  BY <1>1, DecodeDef

\* What follows the first byte that is decoded, is decoded for itself.
LEMMA DecodeFirst ==
    ASSUME NEW u \in Text, NEW v \in Text, u # <<>>, Following(u \o v, 1) = Len(u) + 1
    PROVE  urlDecode(u \o v) = <<Decoded(u \o v, 1)>> \o urlDecode(v)
<1>0. PICK s \in Text : s = u \o v
  BY ConcatProperties DEF Text
<1>1. PICK m \in Nat, n \in Nat : m = Len(u) /\ n = Len(v)
  BY LenProperties DEF Text
<1>2. m > 0 /\ Len(s) = m + n /\ \A i \in 1..n : s[m + i] = v[i]
  <2>1. m > 0
    BY <1>1, EmptySeq DEF Text
  <2>2. /\ Len(s) = m + n
        /\ \A i \in 1..(m + n) : s[i] = IF i <= m THEN u[i] ELSE v[i - m]
    BY <1>0, <1>1, ConcatProperties DEF Text
  <2>3. ASSUME NEW i \in 1..n PROVE s[m + i] = v[i]
    <3>1. PICK j \in 1..(m + n) : j = m + i /\ j - m = i /\ ~(j <= m)
      OBVIOUS
    <3> QED
      BY <2>2, <3>1
  <2> QED
    BY <2>1, <2>2, <2>3
<1>3. ASSUME NEW i \in 1..n PROVE Decoded(s, m + i) = Decoded(v, i) /\ Following(s, m + i) = m + Following(v, i)
  <2>1. HasTwoMore(s, m + i) <=> HasTwoMore(v, i)
    BY <1>1, <1>2 DEF HasTwoMore
  <2>2. s[m + i] = v[i]
    BY <1>2
  <2>3. HasTwoMore(v, i) => s[(m + i) + 1] = v[i + 1] /\ s[(m + i) + 2] = v[i + 2]
    <3> SUFFICES ASSUME i + 2 <= n PROVE s[(m + i) + 1] = v[i + 1] /\ s[(m + i) + 2] = v[i + 2]
      BY <1>1 DEF HasTwoMore
    <3>1. PICK j \in 1..n, k \in 1..n : j = i + 1 /\ k = i + 2 /\ m + j = (m + i) + 1 /\ m + k = (m + i) + 2
      OBVIOUS
    <3> QED
      BY <1>2, <3>1
  <2>4. IsEscape(s, m + i) <=> IsEscape(v, i)
    BY <2>1, <2>2, <2>3 DEF IsEscape
  <2>5. IsEscape(v, i) => HasTwoMore(v, i)
    BY DEF IsEscape
  <2> QED
    BY <2>2, <2>3, <2>4, <2>5 DEF Decoded, Following
<1>4. PICK g \in [1..(n + 1) -> Text] :
         /\ g[n + 1] = <<>> /\ urlDecode(v) = g[1]
         /\ \A i \in 1..n : /\ Following(v, i) \in 1..(n + 1) /\ Following(v, i) > i
                            /\ g[i] = <<Decoded(v, i)>> \o g[Following(v, i)]
  BY <1>1, DecodeDef
<1>5. PICK h \in [1..(Len(s) + 1) -> Text] :
         /\ h[Len(s) + 1] = <<>> /\ urlDecode(s) = h[1]
         /\ \A i \in 1..Len(s) : h[i] = <<Decoded(s, i)>> \o h[Following(s, i)]
  BY DecodeDef
<1> DEFINE k == [i \in 1..(n + 1) |-> h[m + i]]
<1>6. k[n + 1] = <<>>
  <2>1. n + 1 \in 1..(n + 1) /\ m + (n + 1) = Len(s) + 1
    BY <1>2
  <2> QED
    BY <1>5, <2>1
<1>7. ASSUME NEW i \in 1..n PROVE k[i] = <<Decoded(v, i)>> \o k[Following(v, i)]
  <2>1. PICK j \in 1..Len(s) : j = m + i
    BY <1>2
  <2>2. h[j] = <<Decoded(s, j)>> \o h[Following(s, j)]
    BY <1>5
  <2>3. k[i] = h[j] /\ k[Following(v, i)] = h[m + Following(v, i)]
    <3>1. i \in 1..(n + 1) /\ Following(v, i) \in 1..(n + 1)
      <4>1. i \in 1..(n + 1)
        OBVIOUS
      <4>2. Following(v, i) \in 1..(n + 1)
        BY <1>4
      <4> QED
        BY <4>1, <4>2
    <3>2. \A x \in 1..(n + 1) : k[x] = h[m + x]
      OBVIOUS
    <3> HIDE DEF k
    <3> QED
      BY <2>1, <3>1, <3>2
  <2>4. Decoded(s, j) = Decoded(v, i) /\ Following(s, j) = m + Following(v, i)
    BY <1>3, <2>1
  <2> HIDE DEF k
  <2> QED
    BY <2>2, <2>3, <2>4
<1>8. k[1] = h[m + 1]
  OBVIOUS
<1> HIDE DEF k
<1>9. k[1] = g[1]
  <2>1. ASSUME NEW i \in 1..n, \A j \in 1..(n + 1) : j > i => k[j] = g[j] PROVE k[i] = g[i]
    <3>1. k[Following(v, i)] = g[Following(v, i)]
      BY <1>4, <2>1
    <3>2. g[i] = <<Decoded(v, i)>> \o g[Following(v, i)]
      BY <1>4
    <3> QED
      BY <1>7, <3>1, <3>2
  <2>2. AlikeBackwards(k, g, n)
    BY <1>4, <1>6, <2>1 DEF AlikeBackwards
  <2> QED
    BY <2>2, ReadsUnique
<1>10. h[1] = <<Decoded(s, 1)>> \o h[m + 1]
  <2>1. 1 \in 1..Len(s)
    BY <1>2
  <2>2. h[1] = <<Decoded(s, 1)>> \o h[Following(s, 1)]
    BY <1>5, <2>1
  <2> QED
    BY <1>0, <1>1, <2>2
<1> QED
  BY <1>0, <1>4, <1>5, <1>8, <1>9, <1>10

\* A byte as itself, or escaped.
Spells(x, c) == (x = <<c>> /\ c # Percent /\ c # Plus) \/ x = Escaped(c)

\* Concatenation of texts is associative.
LEMMA TextAssoc ==
    ASSUME NEW s \in Text, NEW t \in Text, NEW u \in Text
    PROVE  (s \o t) \o u = s \o (t \o u)
BY ConcatAssociative DEF Text

\* std::stoi reads the two digits that urlEncode writes for a byte.
LEMMA HexRoundTrip ==
    ASSUME NEW c \in Byte
    PROVE  /\ HexDigit(c \div 16) \in Byte /\ HexDigit(c % 16) \in Byte
           /\ IsXDigit(HexDigit(c \div 16)) /\ IsXDigit(HexDigit(c % 16))
           /\ Stoi(HexDigit(c \div 16), HexDigit(c % 16)) = c
<1>1. PICK v \in 0..15, w \in 0..15 : v = c \div 16 /\ w = c % 16 /\ c = 16 * v + w
  <2>1. c \div 16 \in 0..15 /\ (c % 16) \in 0..15 /\ c = 16 * (c \div 16) + (c % 16)
    BY DEF Byte
  <2> QED
    BY <2>1
<1>2. ASSUME NEW x \in 0..15
      PROVE  HexDigit(x) \in Byte /\ IsXDigit(HexDigit(x)) /\ HexValue(HexDigit(x)) = x
  BY DEF HexDigit, IsXDigit, IsDigit, HexValue, Byte
<1>3. ASSUME NEW a \in Byte, NEW b \in Byte, IsXDigit(a), IsXDigit(b)
      PROVE  Stoi(a, b) = 16 * HexValue(a) + HexValue(b)
  BY <1>3 DEF Stoi, IsXDigit, IsDigit, IsSpace, HexValue, Plus, Space, Byte
<1>4. Stoi(HexDigit(v), HexDigit(w)) = 16 * v + w
  BY <1>2, <1>3
<1> QED
  BY <1>1, <1>2, <1>4

\* An escaped byte is three bytes, and std::stoi reads it back.
LEMMA EscapedIs ==
    ASSUME NEW c \in Byte
    PROVE  /\ Escaped(c) \in Text /\ Len(Escaped(c)) = 3 /\ Escaped(c)[1] = Percent
           /\ Escaped(c)[2] = HexDigit(c \div 16) /\ Escaped(c)[3] = HexDigit(c % 16)
           /\ Stoi(Escaped(c)[2], Escaped(c)[3]) = c
<1>1. PICK h \in Byte, l \in Byte : h = HexDigit(c \div 16) /\ l = HexDigit(c % 16) /\ Stoi(h, l) = c
  BY HexRoundTrip
<1>2. Percent \in Byte
  BY DEF Percent, Byte
<1>3. Escaped(c) = <<Percent, h, l>>
  BY <1>1 DEF Escaped
<1>4. <<Percent, h, l>> \in Seq(Byte) /\ Len(<<Percent, h, l>>) = 3
  BY <1>2
<1> QED
  BY <1>1, <1>3, <1>4 DEF Text

\* Whichever way the first byte is spelled, it is decoded, and then the rest.
LEMMA SpelledFirst ==
    ASSUME NEW c \in Byte, NEW x, NEW v \in Text, Spells(x, c)
    PROVE  x \in Text /\ urlDecode(x \o v) = <<c>> \o urlDecode(v)
<1>1. x \in Text /\ x # <<>> /\ Len(x) \in {1, 3} /\ Len(x) \in Nat /\ Len(v) \in Nat
  <2>1. <<c>> \in Text /\ Len(<<c>>) = 1
    BY DEF Text
  <2>2. x \in Text /\ Len(x) \in {1, 3}
    <3>1. CASE x = <<c>>
      BY <2>1, <3>1
    <3>2. CASE x = Escaped(c)
      BY <3>2, EscapedIs
    <3> QED
      BY <3>1, <3>2 DEF Spells
  <2>3. Len(x) \in Nat /\ Len(v) \in Nat
    BY <2>2, LenProperties DEF Text
  <2>4. x # <<>>
    BY <2>2, EmptySeq
  <2> QED
    BY <2>2, <2>3, <2>4
<1>2. PICK s \in Text : s = x \o v
  BY <1>1, ConcatProperties DEF Text
<1>3. Len(s) = Len(x) + Len(v) /\ \A i \in 1..Len(x) : s[i] = x[i]
  <2>1. /\ Len(s) = Len(x) + Len(v)
        /\ \A i \in 1..(Len(x) + Len(v)) : s[i] = IF i <= Len(x) THEN x[i] ELSE v[i - Len(x)]
    BY <1>1, <1>2, ConcatProperties DEF Text
  <2> QED
    BY <1>1, <2>1
<1>4. CASE x = <<c>> /\ c # Percent /\ c # Plus
  <2>1. Len(x) = 1 /\ s[1] = c
    BY <1>3, <1>4
  <2>2. ~IsEscape(s, 1)
    BY <1>4, <2>1 DEF IsEscape
  <2>3. Decoded(s, 1) = c /\ Following(s, 1) = Len(x) + 1
    BY <1>4, <2>1, <2>2 DEF Decoded, Following
  <2> QED
    BY <1>1, <1>2, <2>3, DecodeFirst
<1>5. CASE x = Escaped(c)
  <2>1. Len(x) = 3 /\ s[1] = Percent /\ s[2] = x[2] /\ s[3] = x[3] /\ Stoi(x[2], x[3]) = c
    BY <1>3, <1>5, EscapedIs
  <2>2. Stoi(s[1 + 1], s[1 + 2]) = c /\ c # Throws
    BY <2>1 DEF Byte, Throws
  <2>3. HasTwoMore(s, 1)
    BY <1>1, <1>3, <2>1 DEF HasTwoMore
  <2>4. IsEscape(s, 1)
    BY <2>1, <2>2, <2>3 DEF IsEscape
  <2>5. Decoded(s, 1) = c /\ Following(s, 1) = Len(x) + 1
    BY <2>1, <2>2, <2>4 DEF Decoded, Following
  <2> QED
    BY <1>1, <1>2, <2>5, DecodeFirst
<1> QED
  BY <1>1, <1>4, <1>5 DEF Spells

\* The pieces ss spell p, byte by byte.
SpelledBy(p, ss) == Len(p) = Len(ss) /\ \A i \in 1..Len(p) : Spells(ss[i], p[i])

\* Whichever way some bytes are spelled, they are decoded, and then the rest.
LEMMA DecodeSpelled ==
    \A ss \in Seq(Text) : \A p \in Text, v \in Text :
        SpelledBy(p, ss) => urlDecode(FlattenSeq(ss) \o v) = p \o urlDecode(v)
<1> DEFINE Good(ss, p, v) == SpelledBy(p, ss) => urlDecode(FlattenSeq(ss) \o v) = p \o urlDecode(v)
           T == {ss \in Seq(Text) : \A p \in Text, v \in Text : Good(ss, p, v)}
<1>1. <<>> \in T
  <2>1. ASSUME NEW p \in Text, NEW v \in Text, SpelledBy(p, <<>>)
        PROVE  urlDecode(FlattenSeq(<<>>) \o v) = p \o urlDecode(v)
    <3>1. p = <<>>
      BY <2>1, EmptySeq DEF SpelledBy, Text
    <3>2. <<>> \o v = v /\ <<>> \o urlDecode(v) = urlDecode(v)
      BY DecodeType, ConcatEmptySeq DEF Text
    <3> QED
      BY <3>1, <3>2, FlatEmpty
  <2> QED
    BY <2>1, EmptySeq
<1>2. ASSUME NEW ss \in Seq(Text), NEW x \in Text, ss \in T PROVE Append(ss, x) \in T
  <2>1. ASSUME NEW p \in Text, NEW v \in Text, SpelledBy(p, Append(ss, x))
        PROVE  urlDecode(FlattenSeq(Append(ss, x)) \o v) = p \o urlDecode(v)
    <3>1. PICK a \in Seq(Text) : a = Append(ss, x)
      BY AppendProperties
    <3>2. /\ Len(ss) \in Nat /\ Len(a) = Len(ss) + 1
          /\ a[Len(ss) + 1] = x /\ \A n \in 1..Len(ss) : a[n] = ss[n]
      BY <3>1, LenProperties, AppendProperties
    <3>3. Len(p) = Len(ss) + 1 /\ \A i \in 1..Len(p) : Spells(a[i], p[i])
      BY <2>1, <3>1, <3>2 DEF SpelledBy
    <3>4. p # <<>>
      BY <3>2, <3>3, EmptySeq DEF Text
    <3>5. PICK q \in Text, c \in Byte : /\ p = Append(q, c) /\ Len(q) = Len(p) - 1 /\ c = p[Len(p)]
                                        /\ \A i \in 1..(Len(p) - 1) : q[i] = p[i]
      BY <3>4, FrontLast DEF Text, Last
    <3>6. SpelledBy(q, ss)
      <4>1. Len(q) = Len(ss)
        BY <3>2, <3>3, <3>5
      <4>2. ASSUME NEW i \in 1..Len(q) PROVE Spells(ss[i], q[i])
        <5>1. i \in 1..Len(p) /\ i \in 1..(Len(p) - 1) /\ i \in 1..Len(ss)
          BY <3>2, <3>3, <4>1
        <5> QED
          BY <3>2, <3>3, <3>5, <5>1
      <4> QED
        BY <4>1, <4>2 DEF SpelledBy
    <3>7. Spells(x, c)
      BY <3>2, <3>3, <3>5
    <3>8. x \o v \in Text /\ FlattenSeq(ss) \in Text /\ urlDecode(v) \in Text
      BY FlatType, DecodeType, ConcatProperties DEF Text
    <3>9. FlattenSeq(a) \o v = FlattenSeq(ss) \o (x \o v)
      <4>1. FlattenSeq(a) = FlattenSeq(ss) \o x
        BY <3>1, FlatAppend
      <4>2. PICK f \in Text : f = FlattenSeq(ss)
        BY <3>8
      <4>3. (f \o x) \o v = f \o (x \o v)
        BY TextAssoc
      <4> QED
        BY <4>1, <4>2, <4>3
    <3>10. urlDecode(FlattenSeq(ss) \o (x \o v)) = q \o urlDecode(x \o v)
      BY <1>2, <3>6, <3>8
    <3>11. urlDecode(x \o v) = <<c>> \o urlDecode(v)
      BY <3>7, SpelledFirst
    <3>12. q \o (<<c>> \o urlDecode(v)) = Append(q, c) \o urlDecode(v)
      <4>1. <<c>> \in Text /\ Append(q, c) = q \o <<c>>
        BY AppendIsConcat DEF Text
      <4>2. PICK u \in Text, b \in Text : u = urlDecode(v) /\ b = <<c>>
        BY <3>8, <4>1
      <4>3. (q \o b) \o u = q \o (b \o u)
        BY TextAssoc, ZenonT(60)
      <4> QED
        BY <4>1, <4>2, <4>3
    <3> QED
      BY <3>1, <3>5, <3>9, <3>10, <3>11, <3>12
  <2>2. \A p \in Text, v \in Text : Good(Append(ss, x), p, v)
    BY <2>1
  <2>3. Append(ss, x) \in Seq(Text)
    BY AppendProperties
  <2> HIDE DEF Good
  <2> QED
    BY <2>2, <2>3
<1> HIDE DEF T
<1>3. Seq(Text) \subseteq T
  BY <1>1, <1>2, SeqInduction
<1> QED
  BY <1>3 DEF T

\* Decoding undoes every way to escape.
LEMMA DecodeUndoes ==
    ASSUME NEW ss \in Seq(Text), NEW p \in Text, SpelledBy(p, ss)
    PROVE  urlDecode(FlattenSeq(ss)) = p
<1>1. /\ <<>> \in Text /\ FlattenSeq(ss) \in Text
      /\ FlattenSeq(ss) \o <<>> = FlattenSeq(ss) /\ p \o <<>> = p
  BY FlatType, EmptySeq, ConcatEmptySeq DEF Text
<1>2. urlDecode(FlattenSeq(ss) \o <<>>) = p \o urlDecode(<<>>)
  BY <1>1, DecodeSpelled
<1> QED
  BY <1>1, <1>2, DecodeEmpty

-----------------------------------------------------------------------------
(* Request::parse of a path. *)

\* The bytes that mean themselves in a path.
PlainByte == Byte \ {Percent, Plus}

\* The paths a client can mean: normalised, and made of such bytes.
Meanable == {Join(segs) : segs \in Seq(PlainSeg)} \cap Seq(PlainByte)

\* Detours are made of bytes that mean themselves.
LEMMA DetourBytes ==
    ASSUME NEW p \in Seq(PlainByte), NEW d \in Detours(p)
    PROVE  d \in Seq(PlainByte) /\ (p # <<>> => d # <<>>)
<1> DEFINE up == <<Dot, Dot>>
<1>1. Slash \in PlainByte /\ Dot \in PlainByte /\ 97 \in PlainByte
  BY DEF PlainByte, Byte, Slash, Dot, Percent, Plus
<1>2. /\ <<Slash>> \in Seq(PlainByte) /\ <<Slash, Dot>> \in Seq(PlainByte)
      /\ <<Slash, 97, Slash>> \in Seq(PlainByte) /\ up \in Seq(PlainByte)
  BY <1>1
<1>3. /\ \A s, t \in Seq(PlainByte) : s \o t \in Seq(PlainByte)
      /\ \A s, t \in Seq(PlainByte) : s \o t = <<>> => s = <<>> /\ t = <<>>
  BY ConcatProperties, ConcatEqualIffEmpty
<1>4. d \in {p, <<Slash>> \o p, <<Slash, Dot>> \o p, (<<Slash, 97, Slash>> \o up) \o p,
             (<<Slash>> \o up) \o p, p \o <<Slash>>, (p \o <<Slash, 97, Slash>>) \o up}
  BY DEF Detours
<1> HIDE DEF up
<1>5. PICK a \in Seq(PlainByte), b \in Seq(PlainByte), c \in Seq(PlainByte) :
         a = <<Slash>> /\ b = <<Slash, Dot>> /\ c = <<Slash, 97, Slash>>
  BY <1>2
<1>6. d \in {p, a \o p, b \o p, (c \o up) \o p, (a \o up) \o p, p \o a, (p \o c) \o up}
  BY <1>4, <1>5
<1>7. c \o up \in Seq(PlainByte) /\ a \o up \in Seq(PlainByte) /\ p \o c \in Seq(PlainByte)
  BY <1>2, <1>3
<1>8. \E x \in Seq(PlainByte), y \in Seq(PlainByte) : d = p \/ d = x \o p \/ d = p \o y \/ (d = x \o y /\ x = p \o c)
  BY <1>2, <1>6, <1>7, Zenon
<1>9. PICK x \in Seq(PlainByte), y \in Seq(PlainByte) : d = p \/ d = x \o p \/ d = p \o y \/ (d = x \o y /\ x = p \o c)
  BY <1>8
<1>10. d \in Seq(PlainByte)
  <2>1. CASE d = p
    BY <2>1
  <2>2. CASE d = x \o p
    BY <1>3, <2>2
  <2>3. CASE d = p \o y
    BY <1>3, <2>3
  <2>4. CASE d = x \o y
    BY <1>3, <2>4
  <2> QED
    BY <1>9, <2>1, <2>2, <2>3, <2>4
<1>11. d = <<>> => p = <<>>
  BY <1>3, <1>9
<1> QED
  BY <1>10, <1>11

\* The first of some texts is where they begin.
LEMMA FlatFirst ==
    \A ss \in Seq(Text) : ss # <<>> => \E w \in Text : FlattenSeq(ss) = ss[1] \o w
<1> DEFINE T == {ss \in Seq(Text) : ss # <<>> => \E w \in Text : FlattenSeq(ss) = ss[1] \o w}
<1>0. <<>> \in Text /\ \A x \in Text : x \o <<>> = x /\ <<>> \o x = x
  BY EmptySeq, ConcatEmptySeq DEF Text
<1>1. <<>> \in T
  BY EmptySeq
<1>2. ASSUME NEW ss \in Seq(Text), NEW x \in Text, ss \in T PROVE Append(ss, x) \in T
  <2>1. Append(ss, x) \in Seq(Text)
    BY AppendProperties
  <2>2. FlattenSeq(Append(ss, x)) = FlattenSeq(ss) \o x
    BY FlatAppend
  <2>3. CASE ss = <<>>
    <3>1. Append(ss, x)[1] = x
      BY <2>3
    <3>2. FlattenSeq(Append(ss, x)) = Append(ss, x)[1] \o <<>>
      BY <1>0, <2>2, <2>3, <3>1, FlatEmpty
    <3> QED
      BY <1>0, <2>1, <3>2
  <2>4. CASE ss # <<>>
    <3>1. PICK w \in Text : FlattenSeq(ss) = ss[1] \o w
      BY <1>2, <2>4
    <3>2. Append(ss, x)[1] = ss[1] /\ ss[1] \in Text
      BY <2>4, EmptySeq, AppendProperties, ElementOfSeq
    <3>3. PICK y \in Text : y = ss[1]
      BY <3>2
    <3>4. (y \o w) \o x = y \o (w \o x) /\ w \o x \in Text
      BY TextAssoc, ConcatProperties DEF Text
    <3> QED
      BY <2>1, <2>2, <3>1, <3>2, <3>3, <3>4
  <2> QED
    BY <2>3, <2>4
<1> HIDE DEF T
<1>3. Seq(Text) \subseteq T
  BY <1>1, <1>2, SeqInduction
<1> QED
  BY <1>3 DEF T

\* Four texts, put together in two ways.
LEMMA FourTexts ==
    ASSUME NEW a \in Text, NEW b \in Text, NEW c \in Text, NEW d \in Text
    PROVE  /\ (a \o (b \o c)) \o d = a \o (b \o (c \o d))
           /\ c \o d \in Text /\ b \o (c \o d) \in Text
<1>1. c \o d \in Text /\ b \o c \in Text
  BY ConcatProperties DEF Text
<1>2. b \o (c \o d) \in Text
  BY <1>1, ConcatProperties DEF Text
<1>3. \A s, t, u \in Text : (s \o t) \o u = s \o (t \o u)
  BY TextAssoc
<1>4. \A t \in Text : (a \o t) \o d = a \o (t \o d)
  BY <1>3, Zenon
<1>5. (a \o (b \o c)) \o d = a \o ((b \o c) \o d)
  BY <1>1, <1>4, Zenon
<1>6. \A u \in Text : (b \o c) \o u = b \o (c \o u)
  BY <1>3, Zenon
<1>7. (b \o c) \o d = b \o (c \o d)
  BY <1>6, Zenon
<1> QED
  BY <1>1, <1>2, <1>5, <1>7

\* Escaping everything twice leaves an escape, and the request is rejected.
LEMMA TwiceIsRejected ==
    ASSUME NEW d \in Text, d # <<>>
    PROVE  RejectsPath(FlattenSeq([i \in DOMAIN d |-> EscapedTwice(d[i])]))
<1> DEFINE ss == [i \in DOMAIN d |-> EscapedTwice(d[i])]
<1>0. Len(d) \in Nat \ {0} /\ DOMAIN d = 1..Len(d) /\ \A i \in 1..Len(d) : d[i] \in Byte
  BY EmptySeq, LenProperties, ElementOfSeq DEF Text
<1>1. ASSUME NEW c \in Byte
      PROVE  \E h, l \in Byte : /\ IsXDigit(h) /\ IsXDigit(l)
                                /\ EscapedTwice(c) = Escaped(Percent) \o (<<h>> \o <<l>>)
  <2>1. PICK h \in Byte, l \in Byte : h = HexDigit(c \div 16) /\ l = HexDigit(c % 16) /\ IsXDigit(h) /\ IsXDigit(l)
    BY HexRoundTrip
  <2>2. Tail(Escaped(c)) = <<h, l>>
    BY <2>1 DEF Escaped
  <2>3. Escaped(Percent) = <<Percent, 50, 53>>
    BY DEF Escaped, Percent, HexDigit
  <2>4. <<h>> \o <<l>> = <<h, l>>
    BY TwoBytes
  <2> QED
    BY <2>1, <2>2, <2>3, <2>4 DEF EscapedTwice
<1>2. ss \in Seq(Text) /\ ss # <<>> /\ ss[1] = EscapedTwice(d[1])
  <2>1. ASSUME NEW c \in Byte PROVE EscapedTwice(c) \in Text
    <3>1. PICK h \in Byte, l \in Byte : EscapedTwice(c) = Escaped(Percent) \o (<<h>> \o <<l>>)
      BY <1>1
    <3>2. Percent \in Byte /\ <<h>> \in Seq(Byte) /\ <<l>> \in Seq(Byte)
      BY DEF Percent, Byte
    <3>3. <<h>> \o <<l>> \in Seq(Byte) /\ Escaped(Percent) \in Seq(Byte)
      BY <3>2, EscapedIs, ConcatProperties DEF Text
    <3> QED
      BY <3>1, <3>3, ConcatProperties DEF Text
  <2>2. ss \in [1..Len(d) -> Text]
    BY <1>0, <2>1
  <2> QED
    BY <1>0, <2>2
<1>3. PICK h \in Byte, l \in Byte : IsXDigit(h) /\ IsXDigit(l) /\ ss[1] = Escaped(Percent) \o (<<h>> \o <<l>>)
  <2>1. PICK c \in Byte : c = d[1]
    BY <1>0
  <2> HIDE DEF ss
  <2> QED
    BY ZenonT(60), <1>1, <1>2, <2>1
<1>4. PICK w \in Text : FlattenSeq(ss) = ss[1] \o w
  <2> HIDE DEF ss
  <2> QED
    BY <1>2, FlatFirst
<1>5. PICK E \in Text, H \in Text, L \in Text : E = Escaped(Percent) /\ H = <<h>> /\ L = <<l>>
  <2>1. Percent \in Byte
    BY DEF Percent, Byte
  <2>2. Escaped(Percent) \in Text
    BY <2>1, EscapedIs
  <2>3. <<h>> \in Text /\ <<l>> \in Text
    BY DEF Text
  <2> QED
    BY <2>2, <2>3
<1>6. /\ (E \o (H \o L)) \o w = E \o (H \o (L \o w))
      /\ L \o w \in Text /\ H \o (L \o w) \in Text
  <2> DEFINE Fact(a, b, c, e) == /\ (a \o (b \o c)) \o e = a \o (b \o (c \o e))
                                 /\ c \o e \in Text /\ b \o (c \o e) \in Text
  <2>1. \A a, b, c, e \in Text : Fact(a, b, c, e)
    BY FourTexts
  <2> HIDE DEF Fact
  <2>2. Fact(E, H, L, w)
    BY <2>1
  <2> QED
    BY <2>2 DEF Fact
<1>7. PICK u \in Text : u = urlDecode(w)
  BY DecodeType
<1>8. urlDecode(FlattenSeq(ss)) = <<Percent>> \o (<<h>> \o (<<l>> \o u))
  <2>1. Spells(L, l) /\ Spells(H, h) /\ Spells(E, Percent) /\ Percent \in Byte
    BY <1>3, <1>5 DEF Spells, IsXDigit, IsDigit, Percent, Plus, Byte
  <2>2. urlDecode(L \o w) = <<l>> \o u
    BY <1>7, <2>1, SpelledFirst
  <2>3. urlDecode(H \o (L \o w)) = <<h>> \o urlDecode(L \o w)
    BY <1>6, <2>1, SpelledFirst
  <2>4. urlDecode(E \o (H \o (L \o w))) = <<Percent>> \o urlDecode(H \o (L \o w))
    BY <1>6, <2>1, SpelledFirst
  <2>5. FlattenSeq(ss) = E \o (H \o (L \o w))
    <3> HIDE DEF ss
    <3> QED
      BY <1>3, <1>4, <1>5, <1>6
  <2> HIDE DEF ss
  <2> QED
    BY <2>2, <2>3, <2>4, <2>5
<1>9. ASSUME NEW c \in Byte, NEW t \in Text
      PROVE  /\ <<c>> \o t \in Text /\ Len(<<c>> \o t) = Len(t) + 1 /\ (<<c>> \o t)[1] = c
             /\ \A i \in 1..Len(t) : (<<c>> \o t)[i + 1] = t[i]
  <2>1. <<c>> \in Seq(Byte) /\ Len(<<c>>) = 1 /\ <<c>>[1] = c /\ t \in Seq(Byte) /\ Len(t) \in Nat
    BY LenProperties DEF Text
  <2>2. /\ <<c>> \o t \in Seq(Byte) /\ Len(<<c>> \o t) = 1 + Len(t)
        /\ \A i \in 1..(1 + Len(t)) : (<<c>> \o t)[i] = IF i <= 1 THEN <<c>>[i] ELSE t[i - 1]
    BY <2>1, ConcatProperties
  <2>3. ASSUME NEW i \in 1..Len(t) PROVE (<<c>> \o t)[i + 1] = t[i]
    <3>1. PICK j \in 1..(1 + Len(t)) : j = i + 1 /\ ~(j <= 1) /\ j - 1 = i
      BY <2>1
    <3> QED
      BY <2>2, <3>1
  <2> QED
    BY <2>1, <2>2, <2>3 DEF Text
<1>p. Percent \in Byte
  BY DEF Percent, Byte
<1>x. PICK x \in Text : x = <<l>> \o u
  BY <1>9
<1>y. PICK y \in Text : y = <<h>> \o x
  BY <1>9
<1>z. PICK z \in Text : z = <<Percent>> \o y
  BY <1>9, <1>p
<1>10. x = <<l>> \o u /\ y = <<h>> \o x /\ z = <<Percent>> \o y
  BY <1>x, <1>y, <1>z
<1>11. z[1] = Percent /\ z[1 + 1] = h /\ z[1 + 2] = l /\ Len(z) \in Nat /\ 1 + 2 <= Len(z)
  <2>1. Len(u) \in Nat /\ Percent \in Byte
    BY LenProperties DEF Text, Percent, Byte
  <2>2. Len(x) = Len(u) + 1 /\ x[1] = l
    BY <1>9, <1>10
  <2>3. Len(y) = Len(x) + 1 /\ y[1] = h /\ \A i \in 1..Len(x) : y[i + 1] = x[i]
    BY <1>9, <1>10
  <2>4. Len(z) = Len(y) + 1 /\ z[1] = Percent /\ \A i \in 1..Len(y) : z[i + 1] = y[i]
    BY <1>9, <1>10, <2>1
  <2> QED
    BY <2>1, <2>2, <2>3, <2>4
<1>12. isDoubleEncoded(z)
  <2>1. 1 \in DOMAIN z
    BY <1>11, LenProperties DEF Text
  <2> QED
    BY <1>3, <1>11, <2>1 DEF isDoubleEncoded
<1> HIDE DEF ss
<1>13. RejectsPath(FlattenSeq(ss))
  BY <1>8, <1>10, <1>12 DEF RejectsPath
<1> QED
  BY <1>13 DEF ss

\* A text with some of its bytes escaped decodes to itself.
LEMMA EncodingsDecode ==
    ASSUME NEW d \in Seq(PlainByte), NEW e
    PROVE  urlDecode(FlattenSeq([i \in DOMAIN d |-> IF i \in e THEN Escaped(d[i]) ELSE <<d[i]>>])) = d
<1> DEFINE ss == [i \in DOMAIN d |-> IF i \in e THEN Escaped(d[i]) ELSE <<d[i]>>]
<1>1. d \in Text /\ Len(d) \in Nat /\ DOMAIN d = 1..Len(d) /\ \A i \in 1..Len(d) : d[i] \in PlainByte
  <2>1. PlainByte \subseteq Byte
    BY DEF PlainByte
  <2> QED
    BY <2>1, LenProperties, ElementOfSeq, SeqDef DEF Text
<1>2. ASSUME NEW i \in 1..Len(d) PROVE ss[i] \in Text /\ Spells(ss[i], d[i])
  <2>1. PICK c \in Byte : c = d[i] /\ c # Percent /\ c # Plus
    BY <1>1 DEF PlainByte
  <2>2. <<c>> \in Text /\ Escaped(c) \in Text
    BY EscapedIs DEF Text
  <2>3. ss[i] = IF i \in e THEN Escaped(c) ELSE <<c>>
    BY <1>1, <2>1
  <2> HIDE DEF ss
  <2> QED
    BY <2>1, <2>2, <2>3 DEF Spells
<1>3. ss \in Seq(Text) /\ Len(ss) = Len(d)
  <2>1. ss \in [1..Len(d) -> Text]
    BY <1>1, <1>2
  <2> HIDE DEF ss
  <2> QED
    BY <1>1, <2>1
<1> HIDE DEF ss
<1>4. SpelledBy(d, ss)
  BY <1>2, <1>3 DEF SpelledBy
<1>5. urlDecode(FlattenSeq(ss)) = d
  BY <1>1, <1>3, <1>4, DecodeUndoes
<1> QED
  BY <1>5 DEF ss

\* A joined path is never empty.
LEMMA JoinNotEmpty == ASSUME NEW segs \in Seq(PlainSeg) PROVE Join(segs) # <<>>
<1>1. <<>> \in Text /\ <<>> \o <<>> = <<>> /\ <<>> \o segs = segs
  BY EmptySeq, ConcatEmptySeq DEF Text
<1>2. Segs(<<>> \o Join(segs)) = <<>> \o segs
  BY <1>1, SegsJoin, SegsEmpty
<1>3. CASE segs = <<>>
  BY <1>3 DEF Join
<1>4. CASE segs # <<>>
  BY <1>1, <1>2, <1>4, SegsEmpty
<1> QED
  BY <1>3, <1>4

\* Every spelling of a path that Request::parse accepts becomes the path.
THEOREM SpellingsUndone ==
    ASSUME NEW p \in Meanable, NEW raw \in Spellings(p), ~RejectsPath(raw)
    PROVE  ParsedPath(raw) = p
<1>1. PICK d \in Detours(p) : raw \in Encodings(d)
  BY DEF Spellings
<1>2. PICK segs \in Seq(PlainSeg) : p = Join(segs)
  BY DEF Meanable
<1>3. p \in Seq(PlainByte) /\ p # <<>>
  <2>1. p \in Seq(PlainByte)
    BY DEF Meanable
  <2>2. p # <<>>
    BY <1>2, JoinNotEmpty
  <2> QED
    BY <2>1, <2>2
<1>4. d \in Seq(PlainByte) /\ d # <<>> /\ d \in Text
  <2>1. d \in Seq(PlainByte) /\ d # <<>>
    BY <1>1, <1>3, DetourBytes
  <2> QED
    BY <2>1, SeqDef DEF PlainByte, Text
<1>5. raw # FlattenSeq([i \in DOMAIN d |-> EscapedTwice(d[i])])
  BY <1>4, TwiceIsRejected
<1>6. PICK e \in SUBSET DOMAIN d :
         raw = FlattenSeq([i \in DOMAIN d |-> IF i \in e THEN Escaped(d[i]) ELSE <<d[i]>>])
  BY <1>1, <1>5 DEF Encodings
<1>7. urlDecode(raw) = d
  BY <1>4, <1>6, EncodingsDecode
<1>8. normalizePath(d) = p
  BY <1>1, <1>2, NormalizeUndoes
<1> QED
  BY <1>7, <1>8 DEF ParsedPath

-----------------------------------------------------------------------------
(* urlEncode and parseQuery. *)

\* What is put together from texts without sep is without sep.
LEMMA FreeConcat ==
    ASSUME NEW s \in Text, NEW t \in Text, NEW sep, Free(s, sep), Free(t, sep)
    PROVE  s \o t \in Text /\ Free(s \o t, sep)
<1>1. /\ s \o t \in Seq(Byte) /\ Len(s \o t) = Len(s) + Len(t) /\ Len(s) \in Nat /\ Len(t) \in Nat
      /\ \A i \in 1..(Len(s) + Len(t)) : (s \o t)[i] = IF i <= Len(s) THEN s[i] ELSE t[i - Len(s)]
  BY ConcatProperties, LenProperties DEF Text
<1>2. ASSUME NEW i \in 1..(Len(s) + Len(t)) PROVE (s \o t)[i] # sep
  <2>1. CASE i <= Len(s)
    BY <1>1, <2>1 DEF Free
  <2>2. CASE ~(i <= Len(s))
    <3>1. i - Len(s) \in 1..Len(t)
      BY <1>1, <2>2
    <3> QED
      BY <1>1, <2>2, <3>1 DEF Free
  <2> QED
    BY <2>1, <2>2
<1> QED
  BY <1>1, <1>2 DEF Free, Text

\* Texts without a separator make a text without it.
LEMMA FlatFree ==
    ASSUME NEW sep
    PROVE  \A ss \in Seq(FreeTexts(sep)) : FlattenSeq(ss) \in FreeTexts(sep)
<1> DEFINE T == {ss \in Seq(FreeTexts(sep)) : FlattenSeq(ss) \in FreeTexts(sep)}
<1>1. <<>> \in T
  <2>1. <<>> \in FreeTexts(sep) /\ <<>> \in Seq(FreeTexts(sep))
    BY EmptySeq DEF FreeTexts, Free, Text
  <2> QED
    BY <2>1, FlatEmpty
<1>2. ASSUME NEW ss \in Seq(FreeTexts(sep)), NEW x \in FreeTexts(sep), ss \in T
      PROVE  Append(ss, x) \in T
  <2>1. ss \in Seq(Text) /\ x \in Text /\ Append(ss, x) \in Seq(FreeTexts(sep))
    BY FreeSeq, AppendProperties DEF FreeTexts
  <2>2. FlattenSeq(Append(ss, x)) = FlattenSeq(ss) \o x
    BY <2>1, FlatAppend
  <2>3. FlattenSeq(ss) \o x \in FreeTexts(sep)
    BY <1>2, FreeConcat DEF FreeTexts
  <2> QED
    BY <2>1, <2>2, <2>3
<1> HIDE DEF T
<1>3. Seq(FreeTexts(sep)) \subseteq T
  BY <1>1, <1>2, SeqInduction
<1> QED
  BY <1>3 DEF T

\* urlEncode leaves no separator of a query, and urlDecode undoes it.
LEMMA EncodeRoundTrip ==
    ASSUME NEW x \in Text
    PROVE  /\ urlEncode(x) \in FreeTexts(Ampersand) /\ urlEncode(x) \in FreeTexts(Equals)
           /\ urlDecode(urlEncode(x)) = x
<1> DEFINE ss == [i \in DOMAIN x |-> IF Unreserved(x[i]) THEN <<x[i]>> ELSE Escaped(x[i])]
<1>1. Len(x) \in Nat /\ DOMAIN x = 1..Len(x) /\ \A i \in 1..Len(x) : x[i] \in Byte
  BY LenProperties, ElementOfSeq DEF Text
<1>2. ASSUME NEW c \in Byte, NEW y, y = IF Unreserved(c) THEN <<c>> ELSE Escaped(c)
      PROVE  y \in Text /\ Spells(y, c) /\ Free(y, Ampersand) /\ Free(y, Equals)
  <2>1. CASE Unreserved(c)
    <3>1. c # Percent /\ c # Plus /\ c # Ampersand /\ c # Equals
      BY <2>1 DEF Unreserved, IsAlnum, IsDigit, Dot, Percent, Plus, Ampersand, Equals
    <3>2. y = <<c>> /\ <<c>> \in Seq(Byte) /\ Len(<<c>>) = 1 /\ <<c>>[1] = c
      BY <1>2, <2>1
    <3> QED
      BY <3>1, <3>2 DEF Text, Spells, Free
  <2>2. CASE ~Unreserved(c)
    <3>1. PICK h \in Byte, l \in Byte : h = HexDigit(c \div 16) /\ l = HexDigit(c % 16) /\ IsXDigit(h) /\ IsXDigit(l)
      BY HexRoundTrip
    <3>2. y \in Text /\ Len(y) = 3 /\ y[1] = Percent /\ y[2] = h /\ y[3] = l /\ y = Escaped(c)
      BY <1>2, <2>2, <3>1, EscapedIs
    <3>3. \A z \in {Ampersand, Equals} : Percent # z /\ h # z /\ l # z
      BY <3>1 DEF IsXDigit, IsDigit, Percent, Ampersand, Equals
    <3> QED
      BY <3>2, <3>3 DEF Spells, Free
  <2> QED
    BY <2>1, <2>2
<1>3. ASSUME NEW i \in 1..Len(x)
      PROVE  ss[i] \in FreeTexts(Ampersand) \cap FreeTexts(Equals) /\ Spells(ss[i], x[i])
  <2>1. PICK c \in Byte : c = x[i]
    BY <1>1
  <2>2. ss[i] = IF Unreserved(c) THEN <<c>> ELSE Escaped(c)
    BY <1>1, <2>1
  <2> HIDE DEF ss
  <2> QED
    BY <1>2, <2>1, <2>2 DEF FreeTexts
<1>4. /\ ss \in Seq(FreeTexts(Ampersand)) /\ ss \in Seq(FreeTexts(Equals)) /\ ss \in Seq(Text)
      /\ Len(ss) = Len(x)
  <2>1. DOMAIN ss = 1..Len(x) /\ ss = [i \in 1..Len(x) |-> ss[i]]
    BY <1>1
  <2> HIDE DEF ss
  <2>2. ss \in [1..Len(x) -> FreeTexts(Ampersand)] /\ ss \in [1..Len(x) -> FreeTexts(Equals)]
    BY <1>3, <2>1
  <2>3. ss \in Seq(FreeTexts(Ampersand)) /\ ss \in Seq(FreeTexts(Equals)) /\ Len(ss) = Len(x)
    BY <1>1, <2>2
  <2> QED
    BY <2>3, FreeSeq
<1>5. urlEncode(x) = FlattenSeq(ss)
  BY DEF urlEncode
<1> HIDE DEF ss
<1>6. SpelledBy(x, ss)
  BY <1>3, <1>4 DEF SpelledBy
<1> QED
  BY <1>4, <1>5, <1>6, FlatFree, DecodeUndoes

\* Without the first byte of the first text.
LEMMA TailConcat ==
    ASSUME NEW s \in Text, s # <<>>, NEW t \in Text
    PROVE  s \o t # <<>> /\ Tail(s \o t) = Tail(s) \o t
<1>1. /\ s \o t \in Seq(Byte) /\ Len(s \o t) = Len(s) + Len(t) /\ Len(s) \in Nat \ {0} /\ Len(t) \in Nat
      /\ \A i \in 1..(Len(s) + Len(t)) : (s \o t)[i] = IF i <= Len(s) THEN s[i] ELSE t[i - Len(s)]
  BY ConcatProperties, LenProperties, EmptySeq DEF Text
<1>2. s \o t # <<>>
  BY <1>1, EmptySeq
<1>3. /\ Tail(s \o t) \in Seq(Byte) /\ Len(Tail(s \o t)) = Len(s) + Len(t) - 1
      /\ \A i \in 1..(Len(s) + Len(t) - 1) : Tail(s \o t)[i] = (s \o t)[i + 1]
  BY <1>1, <1>2, HeadTailProperties
<1>4. /\ Tail(s) \in Seq(Byte) /\ Len(Tail(s)) = Len(s) - 1
      /\ \A i \in 1..(Len(s) - 1) : Tail(s)[i] = s[i + 1]
  BY HeadTailProperties DEF Text
<1>5. /\ Tail(s) \o t \in Seq(Byte) /\ Len(Tail(s) \o t) = Len(s) - 1 + Len(t)
      /\ \A i \in 1..(Len(s) - 1 + Len(t)) :
            (Tail(s) \o t)[i] = IF i <= Len(s) - 1 THEN Tail(s)[i] ELSE t[i - (Len(s) - 1)]
  BY <1>4, ConcatProperties DEF Text
<1>6. ASSUME NEW i \in 1..(Len(s) + Len(t) - 1) PROVE Tail(s \o t)[i] = (Tail(s) \o t)[i]
  <2>1. PICK j \in 1..(Len(s) + Len(t)) : j = i + 1
    BY <1>1
  <2>2. Tail(s \o t)[i] = (s \o t)[j]
    BY <1>3, <2>1
  <2>3. CASE i <= Len(s) - 1
    <3>1. j <= Len(s) /\ i \in 1..(Len(s) - 1) /\ i \in 1..(Len(s) - 1 + Len(t))
      BY <1>1, <2>1, <2>3
    <3>2. (s \o t)[j] = s[j]
      BY <1>1, <3>1
    <3>3. (Tail(s) \o t)[i] = s[j]
      BY <1>4, <1>5, <2>1, <2>3, <3>1
    <3> QED
      BY <2>2, <3>2, <3>3
  <2>4. CASE ~(i <= Len(s) - 1)
    <3>1. ~(j <= Len(s)) /\ j - Len(s) = i - (Len(s) - 1) /\ i \in 1..(Len(s) - 1 + Len(t))
      BY <1>1, <2>1, <2>4
    <3>2. (s \o t)[j] = t[j - Len(s)]
      BY <1>1, <3>1
    <3>3. (Tail(s) \o t)[i] = t[i - (Len(s) - 1)]
      BY <1>5, <2>4, <3>1
    <3> QED
      BY <2>2, <3>1, <3>2, <3>3
  <2> QED
    BY <2>3, <2>4
<1>7. Tail(s \o t) = Tail(s) \o t
  <2>1. PICK a \in Seq(Byte), b \in Seq(Byte) : a = Tail(s \o t) /\ b = Tail(s) \o t
    BY <1>3, <1>5
  <2>2. Len(a) = Len(b) /\ Len(a) = Len(s) + Len(t) - 1
    BY <1>1, <1>3, <1>5, <2>1
  <2>3. \A i \in 1..Len(a) : a[i] = b[i]
    BY <1>6, <2>1, <2>2
  <2> QED
    BY <2>1, <2>2, <2>3, SeqEqual
<1> QED
  BY <1>2, <1>7

\* The first byte of two texts is that of the first.
LEMMA HeadConcat ==
    ASSUME NEW s \in Text, s # <<>>, NEW t \in Text
    PROVE  Head(s \o t) = Head(s)
<1>1. Len(s) \in Nat \ {0} /\ 1 \in 1..(Len(s) + Len(t)) /\ 1 <= Len(s)
  BY LenProperties, EmptySeq DEF Text
<1>2. PICK u \in Text : u = s \o t /\ u[1] = s[1] /\ u # <<>>
  <2>1. s \o t \in Text /\ s \o t # <<>>
    BY TailConcat, ConcatProperties DEF Text
  <2>2. (s \o t)[1] = s[1]
    BY <1>1, ConcatProperties DEF Text
  <2> QED
    BY <2>1, <2>2
<1>3. Head(u) = u[1] /\ Head(s) = s[1]
  BY <1>2 DEF Text
<1> QED
  BY <1>2, <1>3

\* A text without separators is one piece.
LEMMA SplitOne ==
    ASSUME NEW sep, NEW x \in FreeTexts(sep)
    PROVE  Split(x, sep) = <<x>>
<1>1. x \in Text /\ <<>> \in Text /\ Free(x, sep) /\ <<>> \o x = x
  BY EmptySeq, ConcatEmptySeq DEF FreeTexts, Text
<1>2. Split(<<>> \o x, sep) = Longer(<<<<>>>>, x)
  BY <1>1, SplitFree, SplitEmpty
<1>3. <<>> \in Seq(Text) /\ <<<<>>>> = Append(<<>>, <<>>)
  BY EmptySeq
<1>4. Front(Append(<<>>, <<>>)) = <<>> /\ Last(Append(<<>>, <<>>)) = <<>>
  BY <1>1, <1>3, FrontLastAppend
<1>5. Longer(<<<<>>>>, x) = Append(<<>>, x)
  BY <1>1, <1>3, <1>4 DEF Longer
<1> QED
  BY <1>1, <1>2, <1>5

\* Splitting a chain, after its first byte, gives its pieces back.
SplitsBack(sep, segs) ==
    /\ Chain(sep, segs) \in Text /\ Chain(sep, segs) # <<>> /\ Head(Chain(sep, segs)) = sep
    /\ Split(Tail(Chain(sep, segs)), sep) = segs

\* Without its first separator, a chain is split into its texts.
LEMMA ChainSplits ==
    ASSUME NEW sep \in Byte
    PROVE  \A segs \in Seq(FreeTexts(sep)) : segs # <<>> => SplitsBack(sep, segs)
<1> DEFINE T == {segs \in Seq(FreeTexts(sep)) : segs # <<>> => SplitsBack(sep, segs)}
<1>0. <<sep>> \in Text /\ <<sep>> # <<>> /\ Head(<<sep>>) = sep /\ Tail(<<sep>>) = <<>>
  BY DEF Text
<1>1. <<>> \in T
  BY EmptySeq
<1>2. ASSUME NEW segs \in Seq(FreeTexts(sep)), NEW x \in FreeTexts(sep), segs \in T
      PROVE  Append(segs, x) \in T
  <2>1. segs \in Seq(Text) /\ x \in Text /\ Free(x, sep) /\ Append(segs, x) \in Seq(FreeTexts(sep))
    BY FreeSeq, AppendProperties DEF FreeTexts
  <2>2. PICK c \in Text : c = Chain(sep, segs)
    BY <2>1, ChainType
  <2>3. PICK y \in Text : y = <<sep>> \o x
    BY <1>0, <2>1, ConcatProperties DEF Text
  <2>4. Chain(sep, Append(segs, x)) = c \o y /\ c \o y \in Text
    BY <2>1, <2>2, <2>3, ChainAppend, ConcatProperties DEF Text
  <2>5. y # <<>> /\ Tail(y) = <<>> \o x /\ <<>> \o x = x /\ Head(y) = sep
    <3>1. y # <<>> /\ Tail(y) = Tail(<<sep>>) \o x
      BY <1>0, <2>1, <2>3, TailConcat
    <3>2. <<>> \o x = x
      BY <2>1, ConcatEmptySeq DEF Text
    <3>3. Head(y) = sep
      BY <2>1, <2>3 DEF Text
    <3> QED
      BY <1>0, <3>1, <3>2, <3>3
  <2>6. CASE segs = <<>>
    <3>1. c \o y = y
      BY <2>2, <2>6, ChainEmpty, ConcatEmptySeq DEF Text
    <3>2. Split(x, sep) = Append(segs, x)
      BY <2>6, SplitOne
    <3>3. SplitsBack(sep, Append(segs, x))
      BY <2>4, <2>5, <3>1, <3>2 DEF SplitsBack
    <3> QED
      BY <2>1, <3>3
  <2>7. CASE segs # <<>>
    <3>1. c # <<>> /\ Head(c) = sep /\ Split(Tail(c), sep) = segs
      BY <1>2, <2>2, <2>7 DEF SplitsBack
    <3>2. c \o y # <<>> /\ Tail(c \o y) = Tail(c) \o y
      BY <3>1, TailConcat
    <3>3. Head(c \o y) = sep
      BY <3>1, HeadConcat
    <3>4. PICK d \in Text : d = Tail(c)
      <4>1. Tail(c) \in Text
        BY <3>1, HeadTailProperties DEF Text
      <4> QED
        BY <4>1
    <3>5. Split(d \o y, sep) = Append(segs, x)
      BY <2>1, <2>3, <3>1, <3>4, SplitAtSep
    <3>6. SplitsBack(sep, Append(segs, x))
      BY <2>4, <3>2, <3>3, <3>4, <3>5 DEF SplitsBack
    <3> QED
      BY <2>1, <3>6
  <2> QED
    BY <2>6, <2>7
<1> HIDE DEF T
<1>3. Seq(FreeTexts(sep)) \subseteq T
  BY <1>1, <1>2, SeqInduction
<1> QED
  BY <1>3 DEF T

\* What follows the first of two texts is the second.
LEMMA SecondPart ==
    ASSUME NEW s \in Text, NEW t \in Text, NEW n, n = Len(s) + 1
    PROVE  SubSeq(s \o t, n, Len(s \o t)) = t
<1>1. /\ s \o t \in Seq(Byte) /\ Len(s \o t) = Len(s) + Len(t) /\ Len(s) \in Nat /\ Len(t) \in Nat
      /\ t \in Seq(Byte)
  BY ConcatProperties, LenProperties DEF Text
<1>2. PICK m \in Int : m = Len(s \o t)
  BY <1>1
<1>3. CASE t = <<>>
  <2>1. m < n /\ n \in Int
    BY <1>1, <1>2, <1>3
  <2> QED
    BY <1>2, <1>3, <2>1, SubSeqEmpty
<1>4. CASE t # <<>>
  <2>1. Len(t) \in Nat \ {0}
    BY <1>1, <1>4, EmptySeq
  <2>2. n \in (Len(s) + 1)..(Len(s) + Len(t)) /\ m \in (Len(s) + 1)..(Len(s) + Len(t))
    BY <1>1, <1>2, <2>1
  <2>3. SubSeq(s \o t, n, m) = SubSeq(t, n - Len(s), m - Len(s))
    BY <1>1, <2>2, SubSeqOfConcat2 DEF Text
  <2>4. n - Len(s) = 1 /\ m - Len(s) = Len(t)
    BY <1>1, <1>2
  <2> QED
    BY <1>1, <1>2, <2>3, <2>4, SubSeqFull
<1> QED
  BY <1>3, <1>4

\* A field as a client sends it.
Pair(f) == urlEncode(f[1]) \o <<Equals>> \o urlEncode(f[2])

\* A field as a client sends it holds no `&', and is split at `=' and decoded
\* to its name and value.
LEMMA PairSplits ==
    ASSUME NEW f \in Text \X Text
    PROVE  /\ Pair(f) \in FreeTexts(Ampersand) /\ Pair(f) # <<>>
           /\ urlDecode(Before(Pair(f), Equals)) = f[1]
           /\ urlDecode(After(Pair(f), Equals)) = f[2]
<1>0. \A s, t, u \in Text : (s \o t) \o u = s \o (t \o u)
  BY TextAssoc
<1>1. PICK a \in Text, b \in Text : a = f[1] /\ b = f[2]
  OBVIOUS
<1>2. PICK x \in Text, y \in Text : x = urlEncode(a) /\ y = urlEncode(b)
  BY EncodeRoundTrip DEF FreeTexts
<1>3. /\ Free(x, Ampersand) /\ Free(y, Ampersand) /\ Free(x, Equals) /\ Free(y, Equals)
      /\ x \in FreeTexts(Equals) /\ urlDecode(x) = a /\ urlDecode(y) = b
  BY <1>2, EncodeRoundTrip DEF FreeTexts
<1>4. PICK q \in Text : q = <<Equals>> /\ Free(q, Ampersand) /\ q # <<>> /\ Len(q) = 1
  <2>1. Equals \in Byte /\ Equals # Ampersand
    BY DEF Equals, Ampersand, Byte
  <2>2. <<Equals>> \in Seq(Byte) /\ <<Equals>> # <<>> /\ Len(<<Equals>>) = 1 /\ <<Equals>>[1] = Equals
    BY <2>1
  <2>3. Free(<<Equals>>, Ampersand)
    BY <2>1, <2>2 DEF Free
  <2> QED
    BY <2>2, <2>3 DEF Text
<1>5. PICK v \in Text : v = x \o q /\ Free(v, Ampersand) /\ Len(v) = Len(x) + 1 /\ v # <<>>
  <2>1. x \o q \in Text /\ Free(x \o q, Ampersand)
    BY <1>3, <1>4, FreeConcat
  <2>2. Len(x \o q) = Len(x) + 1
    BY <1>4, ConcatProperties DEF Text
  <2>3. x \o q # <<>>
    BY <1>4, ConcatEqualIffEmpty DEF Text
  <2> QED
    BY <2>1, <2>2, <2>3
<1>6. PICK p \in Text : p = v \o y /\ Free(p, Ampersand) /\ p # <<>> /\ p = Pair(f)
  <2>1. v \o y \in Text /\ Free(v \o y, Ampersand)
    BY <1>3, <1>5, FreeConcat
  <2>2. v \o y # <<>>
    BY <1>5, ConcatEqualIffEmpty DEF Text
  <2>3. v \o y = Pair(f)
    BY <1>1, <1>2, <1>4, <1>5 DEF Pair
  <2> QED
    BY <2>1, <2>2, <2>3
<1>7. Before(p, Equals) = x
  <2>1. p = x \o (q \o y)
    <3>1. (x \o q) \o y = x \o (q \o y)
      <4>1. \A t, u \in Text : (x \o t) \o u = x \o (t \o u)
        BY <1>0, Zenon
      <4>2. \A u \in Text : (x \o q) \o u = x \o (q \o u)
        BY <4>1, Zenon
      <4> QED
        BY <4>2, Zenon
    <3>2. v = x \o q
      BY <1>5
    <3>3. p = v \o y
      BY <1>6
    <3> QED
      BY <3>1, <3>2, <3>3, Zenon
  <2>2. Equals \in Byte
    BY DEF Equals, Byte
  <2>3. Split(p, Equals) = Append(Split(x, Equals), y)
    BY <1>3, <1>4, <2>1, <2>2, SplitAtSep
  <2>4. Split(x, Equals) = <<x>>
    BY <1>3, SplitOne
  <2>5. Head(Append(<<x>>, y)) = x
    OBVIOUS
  <2> QED
    BY <2>3, <2>4, <2>5 DEF Before
<1>8. After(p, Equals) = y
  <2>1. PICK n \in Int : n = Len(v) + 1 /\ n = Len(x) + 2
    BY <1>5, LenProperties DEF Text
  <2>2. SubSeq(v \o y, n, Len(v \o y)) = y
    BY <2>1, SecondPart
  <2> QED
    BY <1>6, <1>7, <2>1, <2>2 DEF After
<1> QED
  BY <1>1, <1>3, <1>6, <1>7, <1>8 DEF FreeTexts

\* The fields of a form: texts, and no name twice.
Forms == {fields \in SUBSET (Text \X Text) :
             /\ IsFiniteSet(fields)
             /\ \A f, g \in fields : f[1] = g[1] => f = g}

\* SetToSeq lists the elements of a finite set, each once.
LEMMA SetSequence ==
    ASSUME NEW S, IsFiniteSet(S)
    PROVE  /\ SetToSeq(S) \in Seq(S)
           /\ \A x \in S : \E i \in DOMAIN SetToSeq(S) : SetToSeq(S)[i] = x
           /\ IsInjective(SetToSeq(S))
<1>1. PICK n \in Nat : n = Cardinality(S)
  BY FS_CardinalityType
<1>2. PICK g : g \in Bijection(1..n, S)
  BY <1>1, FS_CardinalityType DEF ExistsBijection
<1>3. g \in [1..n -> S] /\ IsInjective(g)
  BY <1>2 DEF Bijection, Injection
<1>4. SetToSeq(S) \in [1..n -> S] /\ IsInjective(SetToSeq(S))
  BY <1>1, <1>3 DEF SetToSeq
<1>5. PICK s \in [1..n -> S] : s = SetToSeq(S) /\ IsInjective(s)
  BY <1>4
<1>6. s \in Injection(1..n, S)
  BY <1>5 DEF Injection
<1>7. Cardinality(1..n) = n
  BY <1>1, FS_Interval
<1>8. s \in Surjection(1..n, S)
  BY <1>1, <1>6, <1>7, FS_Injection
<1>9. \A x \in S : \E i \in 1..n : s[i] = x
  BY <1>8 DEF Surjection
<1>10. s \in Seq(S) /\ DOMAIN s = 1..n
  BY <1>1, <1>5
<1> QED
  BY <1>5, <1>9, <1>10

\* parseQuery undoes what a client makes of a form.
THEOREM QueryRoundTrip ==
    ASSUME NEW fields \in Forms
    PROVE  parseQuery(QueryText(fields)) = fields
<1>1. IsFiniteSet(fields) /\ fields \subseteq Text \X Text /\ \A f, g \in fields : f[1] = g[1] => f = g
  BY DEF Forms
<1>2. PICK fs \in Seq(fields) : fs = SetToSeq(fields)
  BY <1>1, SetSequence
<1>3. (\A x \in fields : \E i \in DOMAIN fs : fs[i] = x) /\ IsInjective(fs)
  BY <1>1, <1>2, SetSequence
<1>4. /\ Len(fs) \in Nat /\ DOMAIN fs = 1..Len(fs)
      /\ \A i \in 1..Len(fs) : fs[i] \in fields /\ fs[i] \in Text \X Text
  BY <1>1, LenProperties, ElementOfSeq
<1> DEFINE ps == [i \in DOMAIN fs |-> Pair(fs[i])]
<1>5. /\ ps \in Seq(FreeTexts(Ampersand)) /\ Len(ps) = Len(fs) /\ DOMAIN ps = 1..Len(fs)
      /\ \A i \in 1..Len(fs) : ps[i] = Pair(fs[i]) /\ ps[i] # <<>>
  <2>1. ps \in [1..Len(fs) -> FreeTexts(Ampersand)]
    BY <1>4, PairSplits
  <2>2. \A i \in 1..Len(fs) : ps[i] = Pair(fs[i]) /\ ps[i] # <<>>
    BY <1>4, PairSplits
  <2> HIDE DEF ps
  <2> QED
    BY <1>4, <2>1, <2>2
<1>6. QueryText(fields) = IF fs = <<>> THEN <<>> ELSE Tail(Chain(Ampersand, ps))
  <2>1. [i \in DOMAIN fs |-> <<Ampersand>> \o (urlEncode(fs[i][1]) \o <<Equals>> \o urlEncode(fs[i][2]))]
          = [i \in DOMAIN ps |-> <<Ampersand>> \o ps[i]]
    BY <1>4, <1>5 DEF Pair
  <2> QED
    BY <1>2, <2>1 DEF QueryText, Chain
<1> HIDE DEF ps
<1>7. PICK all \in Seq(Text) : all = Split(QueryText(fields), Ampersand)
         /\ (IF Last(all) = <<>> THEN Front(all) ELSE all) = ps
  <2>1. CASE fs = <<>>
    <3>1. ps = <<>> /\ <<>> \in Seq(Text) /\ <<>> \in Text
      BY <1>5, <2>1, EmptySeq DEF Text
    <3>2. Split(<<>>, Ampersand) = Append(<<>>, <<>>) /\ Append(<<>>, <<>>) \in Seq(Text)
      BY <3>1, SplitEmpty
    <3>3. Last(Append(<<>>, <<>>)) = <<>> /\ Front(Append(<<>>, <<>>)) = <<>>
      BY <3>1, FrontLastAppend
    <3> QED
      BY <1>6, <2>1, <3>1, <3>2, <3>3
  <2>2. CASE fs # <<>>
    <3>1. Len(ps) # 0 /\ ps # <<>> /\ ps \in Seq(Text)
      BY <1>4, <1>5, <2>2, EmptySeq, FreeSeq
    <3>2. Ampersand \in Byte
      BY DEF Ampersand, Byte
    <3>3. Split(QueryText(fields), Ampersand) = ps
      BY <1>5, <1>6, <2>2, <3>1, <3>2, ChainSplits DEF SplitsBack
    <3>4. Last(ps) # <<>>
      <4>1. Len(ps) \in 1..Len(fs)
        BY <1>4, <1>5, <3>1
      <4>2. Last(ps) = ps[Len(ps)]
        BY DEF Last
      <4> QED
        BY <1>5, <4>1, <4>2
    <3> QED
      BY <3>1, <3>3, <3>4
  <2> QED
    BY <2>1, <2>2
<1>8. ASSUME NEW i \in 1..Len(fs)
      PROVE  /\ urlDecode(Before(ps[i], Equals)) = fs[i][1]
             /\ urlDecode(After(ps[i], Equals)) = fs[i][2]
  BY <1>4, <1>5, PairSplits
<1>9. \A j, k \in 1..Len(fs) : k > j => fs[k][1] # fs[j][1]
  <2> SUFFICES ASSUME NEW j \in 1..Len(fs), NEW k \in 1..Len(fs), k > j, fs[k][1] = fs[j][1]
               PROVE  FALSE
    OBVIOUS
  <2>1. fs[k] = fs[j]
    BY <1>1, <1>4
  <2>2. k = j
    BY <1>3, <1>4, <2>1 DEF IsInjective
  <2> QED
    BY <2>2
<1> DEFINE key(i) == urlDecode(Before(ps[i], Equals))
           last == {j \in DOMAIN ps : \A k \in DOMAIN ps : k > j => key(k) # key(j)}
<1>10. last = 1..Len(fs)
  BY <1>5, <1>8, <1>9
<1>11. parseQuery(QueryText(fields)) = {<<key(i), urlDecode(After(ps[i], Equals))>> : i \in last}
  BY <1>7 DEF parseQuery
<1>12. \A i \in 1..Len(fs) : <<key(i), urlDecode(After(ps[i], Equals))>> = fs[i]
  <2> SUFFICES ASSUME NEW i \in 1..Len(fs) PROVE <<key(i), urlDecode(After(ps[i], Equals))>> = fs[i]
    OBVIOUS
  <2>1. fs[i] = <<fs[i][1], fs[i][2]>>
    BY <1>4
  <2> QED
    BY <1>8, <2>1
<1> HIDE DEF key
<1>13. parseQuery(QueryText(fields)) = {fs[i] : i \in 1..Len(fs)}
  BY <1>10, <1>11, <1>12
<1> QED
  BY <1>3, <1>4, <1>13

-----------------------------------------------------------------------------
(* Router::resolve. *)

\* The pieces of a text hold no separator.
LEMMA PiecesFree ==
    ASSUME NEW sep
    PROVE  \A s \in Text : Split(s, sep) \in Seq(FreeTexts(sep)) \ {<<>>}
<1> DEFINE T == {s \in Text : Split(s, sep) \in Seq(FreeTexts(sep)) \ {<<>>}}
<1>0. <<>> \in FreeTexts(sep) /\ <<>> \in Text
  BY EmptySeq DEF FreeTexts, Free, Text
<1>1. <<>> \in T
  <2>1. <<>> \in Seq(FreeTexts(sep)) /\ <<<<>>>> = Append(<<>>, <<>>)
    BY EmptySeq
  <2>2. Append(<<>>, <<>>) \in Seq(FreeTexts(sep)) /\ Append(<<>>, <<>>) # <<>>
    BY <1>0, <2>1, AppendProperties
  <2> QED
    BY <1>0, <2>1, <2>2, SplitEmpty
<1>2. ASSUME NEW s \in Seq(Byte), NEW c \in Byte, s \in T PROVE Append(s, c) \in T
  <2>1. s \in Text /\ Append(s, c) \in Text
    BY AppendProperties DEF Text
  <2>2. PICK ps \in Seq(FreeTexts(sep)) : ps = Split(s, sep) /\ ps # <<>>
    BY <1>2
  <2>3. Split(Append(s, c), sep) = NextPieces(ps, c, sep)
    BY <2>1, <2>2, SplitAppend
  <2>4. PICK f \in Seq(FreeTexts(sep)), l \in FreeTexts(sep) : f = Front(ps) /\ l = Last(ps)
    BY <2>2, FrontLast
  <2>5. CASE c = sep
    <3>1. NextPieces(ps, c, sep) = Append(ps, <<>>)
      BY <2>5 DEF NextPieces
    <3>2. Append(ps, <<>>) \in Seq(FreeTexts(sep)) /\ Append(ps, <<>>) # <<>>
      BY <1>0, AppendProperties
    <3> QED
      BY <2>1, <2>3, <3>1, <3>2
  <2>6. CASE c # sep
    <3>1. NextPieces(ps, c, sep) = Append(f, Append(l, c))
      BY <2>4, <2>6 DEF NextPieces
    <3>2. l \in Text /\ Free(l, sep)
      BY DEF FreeTexts
    <3>3. PICK m \in FreeTexts(sep) : m = Append(l, c)
      <4>1. Append(l, c) \in Text /\ Free(Append(l, c), sep)
        BY <2>6, <3>2, FreeAppend, AppendProperties DEF Text
      <4> QED
        BY <4>1 DEF FreeTexts
    <3>4. Append(f, m) \in Seq(FreeTexts(sep)) /\ Append(f, m) # <<>>
      BY AppendProperties
    <3> QED
      BY <2>1, <2>3, <3>1, <3>3, <3>4
  <2> QED
    BY <2>5, <2>6
<1> HIDE DEF T
<1>3. Seq(Byte) \subseteq T
  BY <1>1, <1>2, SeqInduction
<1> QED
  BY <1>3 DEF T, Text

\* The parts of a path hold no slashes.
LEMMA PartsType ==
    ASSUME NEW p \in Text, p # <<>>
    PROVE  Parts(p) \in Seq(FreeTexts(Slash))
<1>1. Tail(p) \in Text
  BY HeadTailProperties DEF Text
<1>2. PICK all \in Seq(FreeTexts(Slash)) : all = Split(Tail(p), Slash) /\ all # <<>>
  BY <1>1, PiecesFree
<1>3. Front(all) \in Seq(FreeTexts(Slash))
  BY <1>2, FrontLast
<1> QED
  BY <1>2, <1>3 DEF Parts

\* A path's parts are the segments it is joined from.
LEMMA PartsJoin ==
    ASSUME NEW segs \in Seq(PlainSeg)
    PROVE  Parts(Join(segs)) = segs
<1>1. CASE segs = <<>>
  <2>1. Join(segs) = <<Slash>> /\ Tail(<<Slash>>) = <<>>
    BY <1>1 DEF Join
  <2>2. <<>> \in Seq(Text) /\ <<>> \in Text /\ Split(<<>>, Slash) = Append(<<>>, <<>>)
    BY SplitEmpty, EmptySeq DEF Text
  <2>3. Last(Append(<<>>, <<>>)) = <<>> /\ Front(Append(<<>>, <<>>)) = <<>>
    BY <2>2, FrontLastAppend
  <2> QED
    BY <1>1, <2>1, <2>2, <2>3 DEF Parts
<1>2. CASE segs # <<>>
  <2>1. Join(segs) = Chain(Slash, segs)
    BY <1>2 DEF Join, Chain
  <2>2. Split(Tail(Chain(Slash, segs)), Slash) = segs
    BY <1>2, SlashIsByte, PlainSeqs, ChainSplits DEF SplitsBack
  <2>3. Last(segs) \in PlainSeg
    BY <1>2, FrontLast
  <2>4. Last(segs) # <<>>
    BY <2>3 DEF PlainSeg, Skipped
  <2> QED
    BY <2>1, <2>2, <2>4 DEF Parts
<1> QED
  BY <1>1, <1>2

\* Only one sequence of non-empty segments without slashes is joined to a path.
LEMMA JoinInjective ==
    ASSUME NEW segs \in Seq(PlainSeg), NEW v \in Seq(FreeTexts(Slash)), Join(v) = Join(segs)
    PROVE  v = segs \/ (v = <<<<>>>> /\ segs = <<>>)
<1>1. CASE v = <<>> /\ segs = <<>>
  BY <1>1
<1>2. ASSUME NEW u \in Seq(FreeTexts(Slash)), u # <<>>, Join(u) = <<Slash>>
      PROVE  u = <<<<>>>>
  <2>1. Chain(Slash, u) = <<Slash>>
    BY <1>2 DEF Join, Chain
  <2>2. Split(Tail(Chain(Slash, u)), Slash) = u
    BY <1>2, SlashIsByte, ChainSplits DEF SplitsBack
  <2>3. Tail(<<Slash>>) = <<>>
    OBVIOUS
  <2> QED
    BY <2>1, <2>2, <2>3, SplitEmpty
<1>3. CASE v # <<>> /\ segs = <<>>
  BY <1>2, <1>3 DEF Join
<1>4. CASE v = <<>> /\ segs # <<>>
  <2>1. Join(segs) = <<Slash>>
    BY <1>4 DEF Join
  <2>2. segs = <<<<>>>>
    BY <1>2, <1>4, <2>1, PlainSeqs
  <2>3. Last(segs) = <<>>
    BY <2>2 DEF Last
  <2>4. Last(segs) \in PlainSeg
    BY <1>4, FrontLast
  <2> QED
    BY <2>3, <2>4 DEF PlainSeg, Skipped
<1>5. CASE v # <<>> /\ segs # <<>>
  <2>1. Chain(Slash, v) = Chain(Slash, segs)
    BY <1>5 DEF Join, Chain
  <2>2. Split(Tail(Chain(Slash, v)), Slash) = v /\ Split(Tail(Chain(Slash, segs)), Slash) = segs
    BY <1>5, SlashIsByte, PlainSeqs, ChainSplits DEF SplitsBack
  <2> QED
    BY <2>1, <2>2
<1> QED
  BY <1>1, <1>3, <1>4, <1>5

\* No two parameters among the parts have one name.
OneName(parts) ==
    \A i, j \in DOMAIN parts :
        IsParameter(parts[i]) /\ IsParameter(parts[j]) /\ Tail(parts[i]) = Tail(parts[j]) => i = j

\* The paths an application registers: no empty segment, no parameter twice.
RoutePaths ==
    {p \in Text \ {<<>>} :
        (\A i \in DOMAIN Parts(p) : Parts(p)[i] # <<>>) /\ OneName(Parts(p))}

\* The names of a route's parameters.
Names(parts) == {Tail(p) : p \in {q \in Range(parts) : IsParameter(q)}}

\* A route's parts with values for its parameters.
Value(part, params) ==
    IF IsParameter(part) /\ \E b \in params : b[1] = Tail(part)
    THEN (CHOOSE b \in params : b[1] = Tail(part))[2] ELSE part
Filled(parts, params) == [i \in DOMAIN parts |-> Value(parts[i], params)]

\* Substituted joins the parts with the values in them.
LEMMA SubstitutedIs ==
    ASSUME NEW p, NEW params
    PROVE  Substituted(p, params) = Join(Filled(Parts(p), params))
BY DEF Substituted, Filled, Value

\* If params gives every parameter of a matching route the part of the path
\* at its place, the route becomes the path.
Binds(parts, segs, params) ==
    \A i \in DOMAIN parts : IsParameter(parts[i]) =>
        /\ <<Tail(parts[i]), segs[i]>> \in params
        /\ \A b \in params : b[1] = Tail(parts[i]) => b = <<Tail(parts[i]), segs[i]>>

\* A route's parts, with the right values in them, are those of the path.
LEMMA FilledIs ==
    ASSUME NEW parts \in Seq(Text), NEW segs \in Seq(Text), Matches(parts, segs), NEW params,
           Binds(parts, segs, params)
    PROVE  Filled(parts, params) = segs
<1>1. /\ Len(parts) = Len(segs) /\ DOMAIN parts = 1..Len(segs) /\ DOMAIN segs = 1..Len(segs)
      /\ segs \in [1..Len(segs) -> Text]
  BY LenProperties DEF Matches, SameLength
<1>2. ASSUME NEW i \in 1..Len(segs) PROVE Value(parts[i], params) = segs[i]
  <2>1. CASE IsParameter(parts[i])
    <3>1. PICK part, seg : part = parts[i] /\ seg = segs[i]
      OBVIOUS
    <3>2. <<Tail(part), seg>> \in params /\ \A b \in params : b[1] = Tail(part) => b = <<Tail(part), seg>>
      BY <1>1, <2>1, <3>1 DEF Binds
    <3>3. \E b \in params : b[1] = Tail(part)
      BY <3>2
    <3>4. (CHOOSE b \in params : b[1] = Tail(part)) = <<Tail(part), seg>>
      BY <3>2, <3>3
    <3>5. Value(part, params) = <<Tail(part), seg>>[2]
      BY <2>1, <3>1, <3>3, <3>4 DEF Value
    <3> QED
      BY <3>1, <3>5
  <2>2. CASE ~IsParameter(parts[i])
    BY <1>1, <2>2 DEF Value, Matches
  <2> QED
    BY <2>1, <2>2
<1> QED
  BY <1>1, <1>2 DEF Filled

\* resolve binds every parameter to the part of the path at its place.
LEMMA BindingsBind ==
    ASSUME NEW parts \in Seq(Text), NEW segs \in Seq(Text), OneName(parts)
    PROVE  Binds(parts, segs, Bindings(parts, segs))
<1> DEFINE named == {i \in DOMAIN parts : IsParameter(parts[i])}
<1>1. {j \in named : \A k \in named : k > j => parts[k] # parts[j]} = named
  <2>1. ASSUME NEW j \in named, NEW k \in named, k > j PROVE parts[k] # parts[j]
    <3>1. j \in Nat /\ k \in Nat
      BY LenProperties
    <3> QED
      BY <2>1, <3>1 DEF OneName
  <2> QED
    BY <2>1
<1>2. Bindings(parts, segs) = {<<Tail(parts[i]), segs[i]>> : i \in named}
  BY <1>1 DEF Bindings
<1>3. ASSUME NEW i \in named
      PROVE  /\ <<Tail(parts[i]), segs[i]>> \in Bindings(parts, segs)
             /\ \A b \in Bindings(parts, segs) : b[1] = Tail(parts[i]) => b = <<Tail(parts[i]), segs[i]>>
  <2>1. ASSUME NEW b \in Bindings(parts, segs), b[1] = Tail(parts[i])
        PROVE  b = <<Tail(parts[i]), segs[i]>>
    <3>1. PICK k \in named : b = <<Tail(parts[k]), segs[k]>>
      BY <1>2
    <3>2. Tail(parts[k]) = Tail(parts[i])
      BY <2>1, <3>1
    <3>3. k = i
      BY <3>2 DEF OneName
    <3> QED
      BY <3>1, <3>3
  <2> QED
    BY <1>2, <2>1
<1> QED
  BY <1>3 DEF Binds

\* A route that matches stands for the path, and what resolve binds shows it.
LEMMA MatchStands ==
    ASSUME NEW p \in RoutePaths, NEW segs \in Seq(PlainSeg), HasParameter(p), Matches(Parts(p), segs)
    PROVE  StandsFor(p, Join(segs)) /\ Substituted(p, Bindings(Parts(p), segs)) = Join(segs)
<1>0. p \in Text /\ p # <<>> /\ OneName(Parts(p)) /\ segs \in Seq(Text)
  BY PlainSeqs DEF RoutePaths
<1>1. PICK parts \in Seq(Text) : parts = Parts(p) /\ OneName(parts) /\ Matches(parts, segs)
  BY <1>0, PartsType, FreeSeq
<1>2. Len(parts) = Len(segs) /\ DOMAIN parts = 1..Len(segs) /\ DOMAIN segs = 1..Len(segs)
  BY <1>0, <1>1, LenProperties DEF Matches, SameLength
<1>3. Substituted(p, Bindings(parts, segs)) = Join(segs)
  BY <1>0, <1>1, BindingsBind, FilledIs, SubstitutedIs
<1> DEFINE names == Names(parts)
           At(n) == CHOOSE i \in DOMAIN parts : IsParameter(parts[i]) /\ Tail(parts[i]) = n
           values == [n \in names |-> segs[At(n)]]
           params == {<<n, values[n]>> : n \in names}
<1>4. ASSUME NEW n \in names PROVE At(n) \in DOMAIN parts /\ IsParameter(parts[At(n)]) /\ Tail(parts[At(n)]) = n
  <2>1. \E i \in DOMAIN parts : IsParameter(parts[i]) /\ Tail(parts[i]) = n
    BY DEF Names, Range
  <2> QED
    BY <2>1
<1>5. ASSUME NEW i \in DOMAIN parts, IsParameter(parts[i]) PROVE Tail(parts[i]) \in names /\ At(Tail(parts[i])) = i
  <2>1. Tail(parts[i]) \in names
    BY <1>5 DEF Names, Range
  <2> QED
    BY <1>1, <1>4, <1>5, <2>1 DEF OneName
<1> HIDE DEF At
<1>6. values \in [names -> Range(segs)]
  BY <1>2, <1>4 DEF Range
<1>7. Binds(parts, segs, params)
  <2>1. ASSUME NEW i \in DOMAIN parts, IsParameter(parts[i])
        PROVE  /\ <<Tail(parts[i]), segs[i]>> \in params
               /\ \A b \in params : b[1] = Tail(parts[i]) => b = <<Tail(parts[i]), segs[i]>>
    <3>1. PICK m \in names : m = Tail(parts[i]) /\ values[m] = segs[i]
      BY <1>5, <2>1
    <3> HIDE DEF values
    <3>2. ASSUME NEW b \in params, b[1] = m PROVE b = <<m, values[m]>>
      <4>1. PICK n \in names : b = <<n, values[n]>>
        OBVIOUS
      <4>2. n = m
        BY <3>2, <4>1
      <4> QED
        BY <4>1, <4>2
    <3>3. <<m, values[m]>> \in params
      OBVIOUS
    <3> HIDE DEF params
    <3> QED
      BY <3>1, <3>2, <3>3
  <2> QED
    BY <2>1 DEF Binds
<1> HIDE DEF params
<1>8. Substituted(p, params) = Join(segs)
  BY <1>0, <1>1, <1>7, FilledIs, SubstitutedIs
<1>9. Parts(Join(segs)) = segs
  BY PartsJoin
<1>10. \E vs \in [Names(Parts(p)) -> Range(Parts(Join(segs)))] :
          Substituted(p, {<<n, vs[n]>> : n \in Names(Parts(p))}) = Join(segs)
  <2> HIDE DEF values
  <2>1. values \in [Names(Parts(p)) -> Range(Parts(Join(segs)))]
    BY <1>1, <1>6, <1>9
  <2>2. Substituted(p, {<<n, values[n]>> : n \in Names(Parts(p))}) = Join(segs)
    BY <1>1, <1>8 DEF params
  <2> QED
    BY <2>1, <2>2
<1>11. StandsFor(p, Join(segs))
  BY <1>10 DEF StandsFor, Names
<1> QED
  BY <1>1, <1>3, <1>11

\* A route that stands for a path with other text matches it.
LEMMA StandsMatch ==
    ASSUME NEW p \in RoutePaths, NEW segs \in Seq(PlainSeg), StandsFor(p, Join(segs)), p # Join(segs)
    PROVE  HasParameter(p) /\ Matches(Parts(p), segs)
<1>0. p \in Text /\ p # <<>> /\ segs \in Seq(FreeTexts(Slash))
  BY PlainSeqs DEF RoutePaths
<1>1. PICK parts \in Seq(FreeTexts(Slash)) : parts = Parts(p) /\ \A i \in DOMAIN parts : parts[i] # <<>>
  BY <1>0, PartsType DEF RoutePaths
<1>2. Parts(Join(segs)) = segs
  BY PartsJoin
<1>3. HasParameter(p) /\ \E vs \in [Names(parts) -> Range(segs)] :
          Substituted(p, {<<n, vs[n]>> : n \in Names(parts)}) = Join(segs)
  BY <1>1, <1>2 DEF StandsFor, Names
<1>4. PICK vs \in [Names(parts) -> Range(segs)] :
          Substituted(p, {<<n, vs[n]>> : n \in Names(parts)}) = Join(segs)
  BY <1>3
<1> DEFINE params == {<<n, vs[n]>> : n \in Names(parts)}
           v == Filled(parts, params)
<1>5. Join(v) = Join(segs)
  BY <1>1, <1>4, SubstitutedIs
<1>6. ASSUME NEW i \in DOMAIN parts
      PROVE  IF IsParameter(parts[i]) THEN v[i] \in Range(segs) ELSE v[i] = parts[i]
  <2>1. CASE IsParameter(parts[i])
    <3>1. PICK part : part = parts[i]
      OBVIOUS
    <3>2. Tail(part) \in Names(parts)
      BY <2>1, <3>1 DEF Names, Range
    <3>3. \E b \in params : b[1] = Tail(part)
      <4>1. <<Tail(part), vs[Tail(part)]>> \in params
        BY <3>2
      <4> QED
        BY <4>1
    <3>4. PICK b \in params : b = (CHOOSE c \in params : c[1] = Tail(part))
      BY <3>3
    <3>5. b[2] \in Range(segs)
      <4>1. PICK n \in Names(parts) : b = <<n, vs[n]>>
        OBVIOUS
      <4> QED
        BY <4>1
    <3>6. v[i] = b[2]
      BY <2>1, <3>1, <3>3, <3>4 DEF Filled, Value
    <3> QED
      BY <2>1, <3>5, <3>6
  <2>2. CASE ~IsParameter(parts[i])
    BY <2>2 DEF Filled, Value
  <2> QED
    BY <2>1, <2>2
<1>7. Len(parts) \in Nat /\ DOMAIN parts = 1..Len(parts) /\ \A i \in 1..Len(parts) : parts[i] \in FreeTexts(Slash)
  BY LenProperties, ElementOfSeq
<1>8. v \in Seq(FreeTexts(Slash)) /\ Len(v) = Len(parts) /\ DOMAIN v = 1..Len(parts)
  <2>1. DOMAIN v = 1..Len(parts) /\ v = [i \in 1..Len(parts) |-> v[i]]
    BY <1>7 DEF Filled
  <2>2. Range(segs) \subseteq FreeTexts(Slash)
    BY <1>0, RangeOfSeq
  <2> HIDE DEF v
  <2>3. \A i \in 1..Len(parts) : v[i] \in FreeTexts(Slash)
    BY <1>6, <1>7, <2>2
  <2>4. v \in [1..Len(parts) -> FreeTexts(Slash)]
    BY <2>1, <2>3
  <2> QED
    BY <1>7, <2>1, <2>4
<1> HIDE DEF v
<1>9. v = segs
  <2>1. CASE v = <<<<>>>> /\ segs = <<>>
    <3>1. 1 \in DOMAIN parts /\ v[1] = <<>> /\ Range(segs) = {}
      BY <1>7, <1>8, <2>1 DEF Range
    <3> QED
      BY <1>1, <1>6, <3>1
  <2> QED
    BY <1>5, <1>8, <2>1, JoinInjective
<1>10. Matches(parts, segs)
  BY <1>1, <1>6, <1>7, <1>8, <1>9 DEF Matches, SameLength
<1> QED
  BY <1>1, <1>3, <1>10

-----------------------------------------------------------------------------
(* PathGuard between Request::parse and the router. *)

\* Paths is closed: what Request::parse makes of the requests is among them.
Closed == \A a \in Asks : Parsed[a.path] \subseteq Paths

\* What clients ask for: paths they can mean.
AsksMean == \A a \in Asks : a.path \in Paths \cap Meanable

\* Request::parse undoes spellings: it makes the path that the client meant of
\* all those that it accepts.
LEMMA OneMeaning ==
    ASSUME AsksMean
    PROVE  \A a \in Asks : a.path \in Paths /\ Parsed[a.path] \subseteq {a.path}
BY SpellingsUndone DEF AsksMean, Parsed

\* Every step of the gateway is one of PathGuard, or leaves it alone.
LEMMA GuardSteps == ASSUME Closed PROVE [GNext]_gvars => [Next]_vars
<1> SUFFICES ASSUME [GNext]_gvars PROVE [Next]_vars
  OBVIOUS
<1>1. CASE Configure
  <2>1. ASSUME NEW r \in Routes, AddRoute(r) PROVE [Next]_vars
    BY <2>1 DEF AddRoute
  <2>4. ASSUME Mount \/ \E p \in WsPaths : Ws(p) PROVE [Next]_vars
    BY <2>4 DEF Mount, Ws
  <2>2. ASSUME NEW e, AddExact(e) \/ AddPrefix(e) \/ AddExt(e) PROVE [Next]_vars
    BY <2>2 DEF AddExact, AddPrefix, AddExt, Next, SetUp
  <2>3. CASE Serve \/ \E i \in Ips : AddWhitelist(i)
    BY <2>3 DEF Next, SetUp
  <2> QED
    BY <1>1, <2>1, <2>2, <2>3, <2>4 DEF Configure
<1>2. ASSUME NEW t \in Threads, Request(t) PROVE [Next]_vars
  <2>1. ASSUME NEW a \in Asks, BadRequest(t, a) PROVE [Next]_vars
    BY <2>1 DEF BadRequest
  <2>2. ASSUME NEW a \in Asks, NEW i \in Ips, Arrive(t, i, a) PROVE [Next]_vars
    BY <2>2 DEF Arrive, Closed, Next, Check
  <2>3. CASE Judge(t) \/ Answer(t)
    BY <2>3 DEF Judge, Answer, Next, Check
  <2>4. ASSUME NEW a \in Asks, NEW i \in Ips, Upgrade(t, i, a) \/ NoRouter(t, i, a) PROVE [Next]_vars
    BY <2>4 DEF Upgrade, NoRouter, AtOnce
  <2> QED
    BY <1>2, <2>1, <2>2, <2>3, <2>4 DEF Request
<1>3. CASE UNCHANGED gvars
  BY <1>3 DEF gvars
<1> QED
  BY <1>1, <1>2, <1>3 DEF GNext

\* Without a router no middleware runs.
Unmounted == mounted \/ (refused = {} /\ \A t \in Threads : pc[t] = "idle")

\* Every step of the gateway keeps a refused client out.
LEMMA RefusedStep ==
    ASSUME IInv, Unmounted, RefusedStaysOut, [GNext]_gvars
    PROVE  Unmounted' /\ RefusedStaysOut'
<1>1. CASE Configure
  <2>1. UNCHANGED <<pc, refused, reply>> /\ (mounted => mounted')
    BY <1>1 DEF Configure, AddRoute, Mount, Ws, AddExact, AddPrefix, AddExt, AddPattern, AddWhitelist,
       Serve, vars, gate, tables
  <2> QED
    BY <2>1 DEF Unmounted, RefusedStaysOut
<1>2. ASSUME NEW t \in Threads, Request(t) PROVE Unmounted' /\ RefusedStaysOut'
  <2>1. ASSUME NEW a \in Asks, BadRequest(t, a) PROVE Unmounted' /\ RefusedStaysOut'
    BY <2>1 DEF BadRequest, vars, gate, tables, Unmounted, RefusedStaysOut
  <2>2. ASSUME NEW a \in Asks, NEW i \in Ips, Upgrade(t, i, a) \/ NoRouter(t, i, a)
        PROVE  Unmounted' /\ RefusedStaysOut'
    <3>1. UNCHANGED <<pc, refused, mounted>> /\ reply'.ask = a
      BY <2>2 DEF Upgrade, NoRouter, AtOnce, vars, gate, tables
    <3>2. reply'.late = (i \in refused)
      BY <2>2 DEF Upgrade, NoRouter, AtOnce
    <3>3. a.upgrade \/ refused = {}
      BY <2>2 DEF Upgrade, NoRouter, Unmounted
    <3>4. reply'.late => a.upgrade
      BY <3>2, <3>3, Zenon
    <3>5. RefusedStaysOut'
      BY <3>1, <3>4, Zenon DEF RefusedStaysOut
    <3> QED
      BY <3>1, <3>5 DEF Unmounted
  <2>3. ASSUME mounted, UNCHANGED mounted, reply' = NoReply PROVE Unmounted' /\ RefusedStaysOut'
    BY <2>3 DEF NoReply, Unmounted, RefusedStaysOut
  <2>4. ASSUME NEW a \in Asks, NEW i \in Ips, Arrive(t, i, a) PROVE Unmounted' /\ RefusedStaysOut'
    BY <2>3, <2>4 DEF Arrive, tables
  <2>5. CASE Judge(t)
    <3>1. pc[t] # "idle" /\ UNCHANGED mounted /\ reply' = NoReply
      BY <2>5 DEF Judge, IsBlocked, Match, Insert, gate, tables
    <3> QED
      BY <2>3, <3>1 DEF Unmounted
  <2>6. CASE Answer(t)
    <3>1. pc[t] # "idle" /\ UNCHANGED mounted /\ mounted
      BY <2>6 DEF Answer, Leave, tables, Unmounted
    <3>2. \/ reply'.status = 403
          \/ pc[t] = "pass" /\ reply'.late = late[t]
      BY <2>6 DEF Answer, Answered
    <3>3. pc[t] = "pass" => ~late[t]
      BY DEF IInv, OffenderShutOut
    <3> QED
      BY <3>1, <3>2, <3>3 DEF Unmounted, RefusedStaysOut
  <2> QED
    BY <1>2, <2>1, <2>2, <2>4, <2>5, <2>6 DEF Request
<1>3. CASE UNCHANGED gvars
  BY <1>3 DEF gvars, vars, gate, tables, Unmounted, RefusedStaysOut
<1> QED
  BY <1>1, <1>2, <1>3 DEF GNext

\* Between Request::parse and the router PathGuard keeps its promises: a refused
\* client gets nothing but 400 and 403 unless it asks for an upgrade, which does
\* not come to PathGuard, and only offenders are refused: the invariants
\* RefusedStaysOut and OnlyOffendersRefused of the run Gateway, for every set of
\* paths that is closed, and any workers, clients, patterns and routes.
THEOREM GuardedGateway ==
    ASSUME Closed
    PROVE  GSpec => [](RefusedStaysOut /\ OnlyOffendersRefused)
<1>1. GInit => IInv /\ Unmounted /\ RefusedStaysOut
  BY InitIInv DEF GInit, Init, Unmounted, RefusedStaysOut, NoReply
<1>2. IInv /\ Unmounted /\ RefusedStaysOut /\ [GNext]_gvars => IInv' /\ Unmounted' /\ RefusedStaysOut'
  BY GuardSteps, NextIInv, RefusedStep
<1>3. IInv => OnlyOffendersRefused
  BY DEF IInv
<1> QED
  BY <1>1, <1>2, <1>3, PTL DEF GSpec

\* The request on worker t is for the path its client meant, and if that is
\* blocked, only the whitelist lets it pass.
Meant(t) ==
    pc[t] # "idle" =>
        /\ ask[t] \in Asks /\ path[t] = ask[t].path /\ ~ask[t].upgrade
        /\ pc[t] = "pass" /\ path[t] \in patterns => ip[t] \in whitelist

GuardInv ==
    /\ ask \in [Threads -> Asks \cup {NoPath}]
    /\ \A t \in Threads : Meant(t)

\* Every step of the gateway keeps GuardInv.
LEMMA GuardInvStep ==
    ASSUME AsksMean, IInv, IInv', GuardInv, [GNext]_gvars
    PROVE  GuardInv'
<1> USE DEF GuardInv
<1>0. TypeOK /\ TypeOK'
  BY DEF IInv
<1>1. CASE Configure
  <2>1. UNCHANGED <<pc, ip, path, ask>>
    BY <1>1 DEF Configure, AddRoute, Mount, Ws, AddExact, AddPrefix, AddExt, AddPattern, AddWhitelist, Serve,
       vars, request, gate
  <2>2. ~serving
    BY <1>1 DEF Configure, AddRoute, Mount, Ws, AddExact, AddPrefix, AddExt, AddPattern, AddWhitelist, Serve
  <2>3. \A t \in Threads : pc[t] = "idle"
    BY <2>2 DEF IInv, Knows
  <2> QED
    BY <2>1, <2>3 DEF Meant
<1>2. ASSUME NEW t \in Threads, Request(t) PROVE GuardInv'
  <2>0. patterns' = patterns /\ whitelist' = whitelist
    BY <1>2 DEF Request, BadRequest, Upgrade, NoRouter, AtOnce, Arrive, Begin, Judge, IsBlocked, Match, Insert, Answer, Leave,
       vars, config
  <2>1. ASSUME NEW a \in Asks, BadRequest(t, a) PROVE GuardInv'
    BY <2>1 DEF BadRequest, vars, config, request, gate, Meant
  <2>5. ASSUME NEW a \in Asks, NEW i \in Ips, Upgrade(t, i, a) \/ NoRouter(t, i, a) PROVE GuardInv'
    <3>1. UNCHANGED <<pc, ip, path, ask>>
      BY <2>5 DEF Upgrade, NoRouter, AtOnce, vars, request, gate
    <3> QED
      BY <2>0, <3>1 DEF Meant
  <2>2. ASSUME NEW a \in Asks, NEW i \in Ips, Arrive(t, i, a) PROVE GuardInv'
    <3>1. PICK p \in Parsed[a.path] : Begin(t, i, p)
      BY <2>2 DEF Arrive
    <3>2. p = a.path
      BY <3>1, OneMeaning
    <3>3. /\ pc' = [pc EXCEPT ![t] = IF i \in whitelist THEN "pass" ELSE "isBlocked"]
          /\ ip' = [ip EXCEPT ![t] = i] /\ path' = [path EXCEPT ![t] = a.path]
          /\ ask' = [ask EXCEPT ![t] = a] /\ ~a.upgrade
      BY <2>2, <3>1, <3>2 DEF Arrive, Begin, Goto, Whitelisted
    <3> QED
      BY <1>0, <2>0, <3>3 DEF TypeOK, Meant
  <2>3. CASE Judge(t)
    BY <1>0, <2>0, <2>3 DEF Judge, IsBlocked, Match, Insert, Goto, request, gate, TypeOK, Meant
  <2>4. CASE Answer(t)
    BY <1>0, <2>0, <2>4 DEF Answer, Leave, Goto, TypeOK, Meant
  <2> QED
    BY <1>2, <2>1, <2>2, <2>3, <2>4, <2>5 DEF Request
<1>3. CASE UNCHANGED gvars
  BY <1>3 DEF gvars, vars, config, request, gate, Meant
<1> QED
  BY <1>1, <1>2, <1>3 DEF GNext

\* No request for a blocked path passes, however its path is spelled and
\* however requests, workers and the growing blacklist interleave: the
\* invariant NoSpellingGetsThrough of the run Gateway, for all paths that are
\* normalised and hold neither `%' nor `+', which a client has to escape.
THEOREM BlockedStaysBlocked ==
    ASSUME AsksMean
    PROVE  GSpec => []NoSpellingGetsThrough
<1>1. Closed
  BY OneMeaning DEF Closed
<1>2. GInit => GuardInv /\ IInv
  BY InitIInv DEF GInit, Init, GuardInv, Meant
<1>3. IInv /\ GuardInv /\ [GNext]_gvars => IInv' /\ GuardInv'
  BY <1>1, GuardSteps, NextIInv, GuardInvStep
<1>4. GuardInv => NoSpellingGetsThrough
  BY DEF GuardInv, Meant, NoSpellingGetsThrough
<1> QED
  BY <1>2, <1>3, <1>4, PTL DEF GSpec

\* The fields of the request on worker t are those its client sent.
FieldsInv ==
    /\ pc \in [Threads -> {"idle", "isBlocked", "match", "insert", "pass", "refuse"}]
    /\ ask \in [Threads -> Asks \cup {NoPath}] /\ query = [t \in Threads |-> query[t]]
    /\ \A t \in Threads : pc[t] # "idle" => query[t] = ask[t].fields
    /\ FieldsArrive

\* The handler sees the fields that the client sent, whatever bytes they are
\* made of and however requests interleave: the invariant FieldsArrive of the
\* run Gateway, for all forms in which no name occurs twice.
THEOREM FormsArrive ==
    ASSUME \A a \in Asks : a.fields \in Forms
    PROVE  GSpec => []FieldsArrive
<1>1. GInit => FieldsInv
  BY DEF GInit, Init, FieldsInv, FieldsArrive, NoReply
<1>2. ASSUME FieldsInv, [GNext]_gvars PROVE FieldsInv'
  <2> USE <1>2 DEF FieldsInv
  <2>1. CASE Configure
    <3>1. UNCHANGED <<pc, ask, query, reply>>
      BY <2>1 DEF Configure, AddRoute, Mount, Ws, AddExact, AddPrefix, AddExt, AddPattern, AddWhitelist, Serve,
         vars, request, gate
    <3> QED
      BY <3>1 DEF FieldsArrive
  <2>2. ASSUME NEW t \in Threads, Request(t) PROVE FieldsInv'
    <3>1. ASSUME NEW a \in Asks, BadRequest(t, a) PROVE FieldsInv'
      BY <3>1 DEF BadRequest, vars, gate, FieldsArrive
    <3>5. ASSUME NEW a \in Asks, NEW i \in Ips, Upgrade(t, i, a) \/ NoRouter(t, i, a) PROVE FieldsInv'
      <4>1. Fields[a] = a.fields
        BY QueryRoundTrip DEF Fields
      <4>2. UNCHANGED <<pc, ask, query>> /\ reply'.ask = a /\ reply'.query = Fields[a]
        BY <3>5 DEF Upgrade, NoRouter, AtOnce, vars, gate
      <4>3. FieldsArrive'
        BY <4>1, <4>2 DEF FieldsArrive
      <4> QED
        BY <4>2, <4>3
    <3>2. ASSUME NEW a \in Asks, NEW i \in Ips, Arrive(t, i, a) PROVE FieldsInv'
      <4>1. Fields[a] = a.fields
        BY QueryRoundTrip DEF Fields
      <4>2. PICK l \in {"pass", "isBlocked"} : pc' = [pc EXCEPT ![t] = l]
        BY <3>2 DEF Arrive, Begin, Goto
      <4>3. /\ ask' = [ask EXCEPT ![t] = a] /\ query' = [query EXCEPT ![t] = a.fields]
            /\ reply' = NoReply
        BY <3>2, <4>1 DEF Arrive
      <4>4. FieldsArrive'
        BY <4>3 DEF FieldsArrive, NoReply
      <4> QED
        BY <4>2, <4>3, <4>4
    <3>3. CASE Judge(t)
      <4>1. /\ pc[t] # "idle" /\ reply' = NoReply /\ UNCHANGED <<ask, query>>
            /\ \E l \in {"refuse", "match", "insert", "pass"} : pc' = [pc EXCEPT ![t] = l]
        BY <3>3 DEF Judge, IsBlocked, Match, Insert, Goto, gate
      <4>2. FieldsArrive'
        BY <4>1 DEF FieldsArrive, NoReply
      <4> QED
        BY <4>1, <4>2
    <3>4. CASE Answer(t)
      <4>1. /\ pc[t] # "idle" /\ pc' = [pc EXCEPT ![t] = "idle"]
            /\ ask' = [ask EXCEPT ![t] = NoPath] /\ query' = [query EXCEPT ![t] = {}]
        BY <3>4 DEF Answer, Leave, Goto
      <4>2. \E s, r : reply' = Answered(t, s, r)
        BY <3>4 DEF Answer
      <4>3. FieldsArrive'
        BY <4>1, <4>2 DEF FieldsArrive, Answered
      <4> QED
        BY <4>1, <4>3
    <3> QED
      BY <2>2, <3>1, <3>2, <3>3, <3>4, <3>5 DEF Request
  <2>3. CASE UNCHANGED gvars
    BY <2>3 DEF gvars, vars, gate, FieldsArrive
  <2> QED
    BY <1>2, <2>1, <2>2, <2>3 DEF GNext
<1>3. FieldsInv => FieldsArrive
  BY DEF FieldsInv
<1> QED
  BY <1>1, <1>2, <1>3, PTL DEF GSpec

\* What resolve finds for a path p and a method m in the table rs: the part of
\* HandlerFitsPath that is about the router.
Fits(rs, m, p, r) ==
    /\ r.found <=> \E key \in {k \in DOMAIN rs : k[1] = m} : StandsFor(key[2], p)
    /\ r.found =>
          \E key \in {k \in DOMAIN rs : k[1] = m} :
             /\ rs[key] = r.handler
             /\ <<m, p>> \in DOMAIN rs => key[2] = p
             /\ Substituted(key[2], r.params) = p

\* A table of routes that the application registered.
Table(rs) == \A key \in DOMAIN rs : key = <<key[1], key[2]>> /\ key[2] \in RoutePaths

\* Whatever resolve finds fits the table and the path.
LEMMA ResolveFits ==
    ASSUME NEW rs, Table(rs), NEW m, NEW p, p \in Meanable, NEW r \in resolve(rs, m, p)
    PROVE  Fits(rs, m, p, r)
<1>1. PICK segs \in Seq(PlainSeg) : p = Join(segs)
  BY DEF Meanable
<1>2. Parts(p) = segs
  BY <1>1, PartsJoin
<1> DEFINE mine == {k \in DOMAIN rs : k[1] = m}
           hits == {k \in DOMAIN rs : k[1] = m /\ HasParameter(k[2]) /\ Matches(Parts(k[2]), Parts(p))}
<1>3. ASSUME NEW key \in hits
      PROVE  /\ key \in mine /\ StandsFor(key[2], p)
             /\ Substituted(key[2], Bindings(Parts(key[2]), Parts(p))) = p
  <2>1. PICK q \in RoutePaths : q = key[2]
    BY DEF Table
  <2>2. HasParameter(q) /\ Matches(Parts(q), segs)
    BY <1>2, <2>1
  <2>3. StandsFor(q, p) /\ Substituted(q, Bindings(Parts(q), segs)) = p
    BY <1>1, <2>2, MatchStands
  <2> QED
    BY <1>2, <2>1, <2>3
<1>4. CASE <<m, p>> \in DOMAIN rs
  <2>1. r = Found(rs[<<m, p>>], {})
    BY <1>4 DEF resolve
  <2>2. PICK key \in mine : key = <<m, p>> /\ key[2] = p
    BY <1>4
  <2>3. StandsFor(key[2], p)
    BY <2>2 DEF StandsFor
  <2>4. Substituted(p, {}) = p
    <3>1. segs \in Seq(Text)
      BY PlainSeqs
    <3>2. segs = [i \in DOMAIN segs |-> segs[i]]
      BY <3>1, LenProperties
    <3>3. Filled(segs, {}) = segs
      BY <3>2 DEF Filled, Value
    <3> QED
      BY <1>1, <1>2, <3>3, SubstitutedIs
  <2>5. r.found /\ r.handler = rs[key] /\ r.params = {}
    BY <2>1, <2>2 DEF Found
  <2> QED
    BY <2>2, <2>3, <2>4, <2>5 DEF Fits
<1>5. CASE <<m, p>> \notin DOMAIN rs /\ hits # {}
  <2>1. r \in {Found(rs[key], Bindings(Parts(key[2]), Parts(p))) : key \in hits}
    BY <1>5 DEF resolve
  <2>2. PICK key \in hits : r = Found(rs[key], Bindings(Parts(key[2]), Parts(p)))
    BY <2>1
  <2>3. r.found /\ r.handler = rs[key] /\ r.params = Bindings(Parts(key[2]), Parts(p))
    BY <2>2 DEF Found
  <2>4. key \in mine /\ StandsFor(key[2], p) /\ Substituted(key[2], r.params) = p
    BY <1>3, <2>3
  <2> HIDE DEF hits
  <2> QED
    BY <1>5, <2>3, <2>4 DEF Fits
<1>6. CASE <<m, p>> \notin DOMAIN rs /\ hits = {}
  <2>1. r = NotFound
    BY <1>6 DEF resolve
  <2>2. ASSUME NEW key \in mine, StandsFor(key[2], p) PROVE FALSE
    <3>1. PICK q \in RoutePaths : q = key[2] /\ key = <<m, q>>
      BY DEF Table
    <3>2. q # p
      BY <1>6, <3>1
    <3>3. HasParameter(q) /\ Matches(Parts(q), segs)
      BY <1>1, <2>2, <3>1, <3>2, StandsMatch
    <3>4. key \in hits
      BY <1>2, <3>1, <3>3
    <3> QED
      BY <1>6, <3>4
  <2>3. ~r.found
    BY <2>1 DEF NotFound
  <2> QED
    BY <2>2, <2>3 DEF Fits
<1> QED
  BY <1>4, <1>5, <1>6

\* The paths of the routes are well-formed.
RoutesMean == \A r \in Routes : r.path \in RoutePaths

\* The table holds registered routes; nothing is answered before the server
\* runs, and the last answer fits the table.
FitsInv ==
    /\ Table(routes)
    /\ reply.status # 0 => serving
    /\ reply.status \in {200, 404, 500} /\ ~reply.ask.upgrade /\ mounted =>
          Fits(routes, reply.ask.method, reply.ask.path, reply.found)
    /\ reply.status \in {101, 404} /\ reply.ask.upgrade =>
          (reply.status = 101 <=> reply.ask.path \in ws_routes)

\* Every step of the gateway keeps FitsInv.
LEMMA FitsInvStep ==
    ASSUME AsksMean, RoutesMean, IInv, GuardInv, FitsInv, [GNext]_gvars
    PROVE  FitsInv'
<1>1. CASE Configure
  <2>1. ~serving /\ reply.status = 0 /\ reply' = reply
    BY <1>1 DEF Configure, AddRoute, Mount, Ws, AddExact, AddPrefix, AddExt, AddPattern, AddWhitelist, Serve, FitsInv
  <2>2. CASE UNCHANGED routes
    BY <2>1, <2>2 DEF FitsInv
  <2>3. ASSUME NEW r \in Routes, AddRoute(r) PROVE FitsInv'
    <3>1. routes' = addRoute(routes, r.method, r.path, r.handler)
      BY <2>3 DEF AddRoute
    <3>2. DOMAIN routes' = DOMAIN routes \cup {<<r.method, r.path>>}
      BY <3>1 DEF addRoute
    <3>3. Table(routes')
      BY <3>2 DEF Table, FitsInv, RoutesMean
    <3> QED
      BY <2>1, <3>3 DEF FitsInv
  <2> QED
    BY <1>1, <2>2, <2>3 DEF Configure, Mount, Ws, gate, tables
<1>2. ASSUME NEW t \in Threads, Request(t) PROVE FitsInv'
  <2>0. routes' = routes /\ serving' = serving /\ mounted' = mounted /\ ws_routes' = ws_routes
    BY <1>2 DEF Request, BadRequest, Upgrade, NoRouter, AtOnce, Arrive, Begin, Judge, IsBlocked, Match, Insert,
       Answer, Leave, vars, config, gate, tables
  <2>1. ASSUME NEW a \in Asks, BadRequest(t, a) PROVE FitsInv'
    BY <2>0, <2>1 DEF BadRequest, FitsInv
  <2>4. ASSUME NEW a \in Asks, NEW i \in Ips, Upgrade(t, i, a) PROVE FitsInv'
    <3>1. PICK p \in Parsed[a.path] : AtOnce(t, i, a, IF p \in ws_routes THEN 101 ELSE 404)
      BY <2>4 DEF Upgrade
    <3>2. p = a.path
      BY <3>1, OneMeaning
    <3>3. /\ reply'.ask = a /\ reply'.status = IF a.path \in ws_routes THEN 101 ELSE 404
          /\ serving /\ a.upgrade
      BY <2>4, <3>1, <3>2 DEF Upgrade, AtOnce
    <3> QED
      BY <2>0, <3>3 DEF FitsInv
  <2>5. ASSUME NEW a \in Asks, NEW i \in Ips, NoRouter(t, i, a) PROVE FitsInv'
    <3>1. reply'.ask = a /\ ~a.upgrade /\ ~mounted /\ serving
      BY <2>5 DEF NoRouter, AtOnce
    <3> QED
      BY <2>0, <3>1 DEF FitsInv
  <2>2. CASE reply' = NoReply
    BY <2>0, <2>2 DEF NoReply, FitsInv
  <2>3. CASE Answer(t)
    <3>1. pc[t] \in {"pass", "refuse"} /\ serving
      BY <2>3 DEF Answer, Leave, IInv, Knows
    <3>2. CASE reply' = Answered(t, 403, NotFound)
      BY <2>0, <3>1, <3>2 DEF Answered, FitsInv
    <3>3. ASSUME NEW r \in resolve(routes, ask[t].method, path[t]), NEW s, reply' = Answered(t, s, r),
                 pc[t] = "pass"
          PROVE  FitsInv'
      <4>1. path[t] = ask[t].path /\ ask[t] \in Asks /\ ~ask[t].upgrade
        BY <3>3 DEF GuardInv, Meant
      <4>2. PICK m, p : m = ask[t].method /\ p = path[t]
        OBVIOUS
      <4>3. p \in Meanable
        BY <4>1, <4>2 DEF AsksMean
      <4>4. Fits(routes, m, p, r)
        BY <3>3, <4>2, <4>3, ResolveFits DEF FitsInv
      <4>5. reply'.ask = ask[t] /\ reply'.found = r
        BY <3>3 DEF Answered
      <4> QED
        BY <2>0, <3>1, <4>1, <4>2, <4>4, <4>5 DEF FitsInv
    <3> QED
      BY <2>3, <3>2, <3>3 DEF Answer
  <2> QED
    BY <1>2, <2>1, <2>2, <2>3, <2>4, <2>5 DEF Request, Arrive, Judge
<1>3. CASE UNCHANGED gvars
  BY <1>3 DEF gvars, vars, config, gate, tables, FitsInv
<1> QED
  BY <1>1, <1>2, <1>3 DEF GNext

\* A handler runs for a path exactly when a route of its method stands for the
\* path that the client meant, however it is spelled, and it gets parameters
\* that make the path of the route: the invariant HandlerFitsPath of the run
\* Gateway, for all such paths and all routes without empty segments in which
\* no parameter occurs twice.  A WebSocket's handler runs for its path alone.
THEOREM RightHandler ==
    ASSUME AsksMean, RoutesMean
    PROVE  GSpec => []HandlerFitsPath
<1>1. Closed
  BY OneMeaning DEF Closed
<1>2. GInit => IInv /\ GuardInv /\ FitsInv
  BY InitIInv DEF GInit, Init, GuardInv, Meant, FitsInv, Table, NoReply
<1>3. IInv /\ GuardInv /\ FitsInv /\ [GNext]_gvars => IInv' /\ GuardInv' /\ FitsInv'
  BY <1>1, GuardSteps, NextIInv, GuardInvStep, FitsInvStep
<1>4. FitsInv => HandlerFitsPath
  BY DEF FitsInv, Fits, HandlerFitsPath
<1> QED
  BY <1>2, <1>3, <1>4, PTL DEF GSpec
=============================================================================
