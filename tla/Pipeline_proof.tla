--------------------------- MODULE Pipeline_proof ---------------------------
(***************************************************************************)
(* Proofs about module Pipeline, for every set of chains of middlewares,   *)
(* of any length and order.                                                *)
(***************************************************************************)
EXTENDS Pipeline, TLAPS

\* The headers that middlewares set.
Names == {"Set-Cookie", "X-CSRF-Token", "Content-Security-Policy",
          "Access-Control-Allow-Origin"}

PTypeOK ==
    /\ chain \in Seq(Kinds)
    /\ pos \in 1..(Len(chain) + 1)
    /\ method \in Methods
    /\ cookie \in BOOLEAN /\ session \in BOOLEAN /\ created \in BOOLEAN
    /\ handled \in BOOLEAN /\ threw \in BOOLEAN
    /\ pc \in {"chain", "caught", "send", "done", "crashed"}
    /\ res \in [status : Nat, headers : SUBSET Names]

\* Some middleware of kind k has called next().
Passed(k) == \E i \in 1..(pos - 1) : chain[i] = k

\* What the middlewares behind `pos' have made sure of.
SessionSet == Passed("session") => session
TokenChecked == Passed("csrf") /\ method = "POST" => token = "good" /\ session
TokenNeedsCookie == (token = "good" => cookie) /\ (created => ~cookie)

HandledAtEnd == handled => AtLast

\* A crash happens in a csrf() that no session() precedes.
CrashIsUnordered ==
    pc = "crashed" => /\ pos <= Len(chain) /\ chain[pos] = "csrf"
                      /\ ~Passed("session")

\* The response still has the new session's cookie until it is replaced.
CookieKept ==
    created /\ ~threw /\ ~(AtLast /\ target = "missing" /\ pc # "chain")
        => "Set-Cookie" \in res.headers
CaughtThrew == pc = "caught" => threw

IInv ==
    /\ PTypeOK /\ SessionSet /\ TokenChecked /\ TokenNeedsCookie
    /\ HandledAtEnd /\ CrashIsUnordered /\ CookieKept /\ CaughtThrew

LEMMA InitIInv == Init => IInv
<1> SUFFICES ASSUME Init PROVE IInv
  OBVIOUS
<1>1. /\ chain \in Seq(Kinds) /\ cookie \in BOOLEAN /\ session = FALSE
      /\ created = FALSE /\ handled = FALSE /\ threw = FALSE
  BY ChainsOfKinds, Zenon DEF Init
<1>2. Len(chain) \in Nat
  BY <1>1
<1>3. session \in BOOLEAN /\ created \in BOOLEAN /\ handled \in BOOLEAN /\ threw \in BOOLEAN
  BY <1>1, Zenon
<1>4. PTypeOK
  BY <1>1, <1>2, <1>3 DEF Init, PTypeOK
<1>5. token = "good" => cookie
  BY DEF Init
<1> QED
  BY <1>1, <1>2, <1>3, <1>4, <1>5 DEF Init, IInv, SessionSet, TokenChecked,
     TokenNeedsCookie, HandledAtEnd, CrashIsUnordered, CookieKept, CaughtThrew,
     Passed

\* The middlewares that a step of next() leaves behind.
LEMMA PassedStep ==
    ASSUME PTypeOK, At(chain[pos]), pos' = pos + 1, UNCHANGED chain, NEW k
    PROVE  Passed(k)' <=> Passed(k) \/ chain[pos] = k
BY DEF PTypeOK, At, Passed

LEMMA NextIInv == IInv /\ [Next]_vars => IInv'
<1> SUFFICES ASSUME IInv, [Next]_vars PROVE IInv'
  OBVIOUS
<1> USE DEF IInv
<1>0. Len(chain) \in Nat /\ Len(chain) >= 0
  BY DEF PTypeOK
<1>1. ASSUME At(chain[pos]), UNCHANGED <<request, session, created, handled, threw>>,
             \E hs \in SUBSET Names : Pass(hs),
             chain[pos] = "session" => session,
             chain[pos] = "csrf" /\ method = "POST" => token = "good" /\ session
      PROVE  IInv'
  \* a middleware that is passed and sets nothing but headers
  <2>0. PICK hs \in SUBSET Names : Pass(hs)
    BY <1>1
  <2>1. PTypeOK'
    BY <1>0, <1>1, <2>0 DEF PTypeOK, At, Pass, request
  <2>2. \A k : Passed(k)' <=> Passed(k) \/ chain[pos] = k
    BY <1>1, <2>0, PassedStep DEF Pass, request
  <2>3. SessionSet' /\ TokenChecked' /\ TokenNeedsCookie'
    BY <1>1, <2>2 DEF SessionSet, TokenChecked, TokenNeedsCookie, request
  <2>4. HandledAtEnd'
    BY <1>0, <1>1, <2>0 DEF HandledAtEnd, AtLast, At, PTypeOK, Pass, request
  <2>5. "Set-Cookie" \in res.headers => "Set-Cookie" \in res'.headers
    BY <1>1, <2>0 DEF Pass, PTypeOK
  <2>6. CookieKept' /\ CaughtThrew' /\ CrashIsUnordered'
    BY <1>1, <2>0, <2>5 DEF CookieKept, CaughtThrew, CrashIsUnordered, At, Pass, request
  <2> QED
    BY <2>1, <2>3, <2>4, <2>6
<1>2. ASSUME \/ At(chain[pos]) /\ UNCHANGED handled
             \/ AtEnd /\ target # "missing" /\ handled' \in BOOLEAN,
             UNCHANGED <<request, session, created, threw>>,
             \E status \in Nat : Answer(status)
      PROVE  IInv'
  \* the response is answered without next()
  <2>0. PICK status \in Nat : Answer(status)
    BY <1>2
  <2>1. PTypeOK'
    BY <1>0, <1>2, <2>0 DEF PTypeOK, Answer, request
  <2>2. \A k : Passed(k)' <=> Passed(k)
    BY <1>2, <2>0 DEF Answer, request, Passed
  <2>3. SessionSet' /\ TokenChecked' /\ TokenNeedsCookie'
    BY <1>2, <2>2 DEF SessionSet, TokenChecked, TokenNeedsCookie, request
  <2>4. HandledAtEnd'
    BY <1>2, <2>0 DEF HandledAtEnd, AtEnd, AtLast, Answer, request
  <2>5. res'.headers = res.headers
    BY <1>2, <2>0 DEF Answer, PTypeOK
  <2>6. CookieKept' /\ CaughtThrew' /\ CrashIsUnordered'
    BY <1>0, <1>2, <2>0, <2>5 DEF CookieKept, CaughtThrew, CrashIsUnordered, At, AtEnd, AtLast,
       Answer, request, PTypeOK
  <2> QED
    BY <2>1, <2>3, <2>4, <2>6
<1>3. CASE Session
  <2>1. PTypeOK'
    <3>1. session' \in BOOLEAN /\ created' \in BOOLEAN
      BY <1>3, Zenon DEF Session
    <3> QED
      BY <1>0, <1>3, <3>1 DEF PTypeOK, Names, Session, At, Pass, request
  <2>2. \A k : Passed(k)' <=> Passed(k) \/ chain[pos] = k
    BY <1>3, PassedStep DEF Session, At, Pass, request
  <2>3. SessionSet' /\ TokenChecked' /\ TokenNeedsCookie'
    BY <1>3, <2>2 DEF SessionSet, TokenChecked, TokenNeedsCookie, Session, At, request
  <2>4. HandledAtEnd'
    BY <1>0, <1>3 DEF HandledAtEnd, AtLast, At, PTypeOK, Pass, Session, request
  <2>5. created' => "Set-Cookie" \in res'.headers
    BY <1>3 DEF Session, Pass, PTypeOK
  <2>6. CookieKept' /\ CaughtThrew' /\ CrashIsUnordered'
    BY <1>3, <2>5 DEF CookieKept, CaughtThrew, CrashIsUnordered, At, Session, Pass, request
  <2> QED
    BY <2>1, <2>3, <2>4, <2>6
<1>4. CASE Csrf
  <2>1. /\ At(chain[pos]) /\ chain[pos] = "csrf" /\ session
        /\ UNCHANGED <<request, session, created, handled, threw>>
        /\ UNCHANGED <<request, session, created, threw>> /\ UNCHANGED handled
    BY <1>4 DEF Csrf, At, HandledAtEnd, PTypeOK
  <2>2. CASE method = "GET" /\ Pass({"X-CSRF-Token"})
    <3>1. \E hs \in SUBSET Names : Pass(hs)
      <4>1. {"X-CSRF-Token"} \in SUBSET Names
        BY DEF Names
      <4> QED
        BY <2>2, <4>1, Zenon
    <3> QED
      BY <1>1, <2>1, <2>2, <3>1
  <2>3. CASE method = "POST" /\ TokenMatches /\ Pass({})
    <3>1. \E hs \in SUBSET Names : Pass(hs)
      BY <2>3, Zenon
    <3> QED
      BY <1>1, <2>1, <2>3, <3>1 DEF TokenMatches
  <2>4. CASE Answer(403) \/ Answer(res.status)
    <3>1. 403 \in Nat /\ res.status \in Nat
      BY DEF PTypeOK
    <3>2. \E s \in Nat : Answer(s)
      BY <2>4, <3>1, Zenon
    <3> QED
      BY <1>2, <2>1, <3>2
  <2> QED
    BY <1>4, <2>2, <2>3, <2>4 DEF Csrf
<1>5. CASE CsrfWithoutSession
  <2>1. \A k : Passed(k)' <=> Passed(k)
    BY <1>5 DEF CsrfWithoutSession, request, Passed
  <2> QED
    BY <1>5, <2>1 DEF CsrfWithoutSession, At, request, PTypeOK, SessionSet, TokenChecked,
       TokenNeedsCookie, HandledAtEnd, AtLast, CrashIsUnordered, CookieKept, CaughtThrew
<1>6. CASE CsrfSkips \/ SecureHeaders \/ Cors \/ Guard \/ Plain
  <2>1. /\ At(chain[pos]) /\ UNCHANGED <<request, session, created, handled, threw>>
        /\ UNCHANGED <<request, session, created, threw>>
        /\ UNCHANGED handled
    BY <1>6 DEF CsrfSkips, SecureHeaders, Cors, Guard, Plain, At, HandledAtEnd, PTypeOK
  <2>2. CASE \E hs \in SUBSET Names : Pass(hs) /\ chain[pos] \notin {"session", "csrf"}
    BY <1>1, <2>1, <2>2
  <2>3. CASE \E s \in Nat : Answer(s)
    BY <1>2, <2>1, <2>3
  <2>4. /\ {} \in SUBSET Names /\ {"Content-Security-Policy"} \in SUBSET Names
        /\ {"Access-Control-Allow-Origin"} \in SUBSET Names
        /\ {204, 400, 403, 429} \subseteq Nat /\ res.status \in Nat
    BY DEF PTypeOK, Names
  <2>5. (\E hs \in SUBSET Names : Pass(hs)) \/ (\E s \in Nat : Answer(s))
    <3>1. CASE CsrfSkips
      BY <2>4, <3>1, Zenon DEF CsrfSkips
    <3>2. CASE SecureHeaders
      BY <2>4, <3>2, Zenon DEF SecureHeaders
    <3>3. CASE Cors
      BY <2>4, <3>3, ZenonT(60) DEF Cors
    <3>4. CASE Guard
      <4>1. (\E s \in {400, 403, 429} : Answer(s)) => \E s \in Nat : Answer(s)
        BY <2>4
      <4> QED
        BY <2>4, <3>4, <4>1, ZenonT(60) DEF Guard
    <3>5. CASE Plain
      BY <2>4, <3>5, Zenon DEF Plain
    <3> QED
      BY <1>6, <3>1, <3>2, <3>3, <3>4, <3>5
  <2>6. chain[pos] \in {"session", "csrf"} => \E s \in Nat : Answer(s)
    <3>1. chain[pos] \in {"session", "csrf"} => CsrfSkips
      BY <1>6 DEF SecureHeaders, Cors, Guard, Plain, At
    <3> QED
      BY <2>4, <3>1, Zenon DEF CsrfSkips
  <2> QED
    BY <2>2, <2>3, <2>5, <2>6, Zenon
<1>7. CASE Throw
  <2>1. \A k : Passed(k)' <=> Passed(k)
    BY <1>7 DEF Throw, request, Passed
  <2>2. PTypeOK' /\ threw' = TRUE
    BY <1>7, Zenon DEF Throw, PTypeOK, request
  <2>3. HandledAtEnd'
    BY <1>7 DEF Throw, HandledAtEnd, AtLast, AtEnd, request
  <2> QED
    BY <1>7, <2>1, <2>2, <2>3 DEF Throw, request, SessionSet, TokenChecked,
       TokenNeedsCookie, CrashIsUnordered, CookieKept, CaughtThrew
<1>8. CASE Handle \/ ServeStatic
  <2>1. PICK s \in {200, 302, 413} : Answer(s)
    BY <1>8 DEF Handle, ServeStatic
  <2>2. /\ AtEnd /\ target # "missing" /\ UNCHANGED <<request, session, created, threw>>
        /\ handled' \in BOOLEAN
    BY <1>8, Zenon DEF Handle, ServeStatic, PTypeOK
  <2> QED
    BY <1>2, <2>1, <2>2
<1>9. CASE NotFound \/ Caught
  <2>1. \A k : Passed(k)' <=> Passed(k)
    BY <1>9 DEF NotFound, Caught, request, Passed
  <2>2. PTypeOK'
    BY <1>9 DEF NotFound, Caught, PTypeOK, request, ErrorResponse, StatusOfError
  <2>3. (AtEnd /\ target = "missing") \/ threw
    BY <1>9 DEF NotFound, Caught, CaughtThrew
  <2> QED
    BY <1>9, <2>1, <2>2, <2>3 DEF NotFound, Caught, request, SessionSet, TokenChecked,
       TokenNeedsCookie, HandledAtEnd, AtLast, AtEnd, CrashIsUnordered, CookieKept, CaughtThrew
<1>10. CASE Send
  <2>1. \A k : Passed(k)' <=> Passed(k)
    BY <1>10 DEF Send, request, Passed
  <2> QED
    BY <1>10, <2>1 DEF Send, request, PTypeOK, SessionSet, TokenChecked,
       TokenNeedsCookie, HandledAtEnd, AtLast, CrashIsUnordered, CookieKept, CaughtThrew
<1>11. CASE UNCHANGED vars
  <2>1. \A k : Passed(k)' <=> Passed(k)
    BY <1>11 DEF vars, request, Passed
  <2> QED
    BY <1>11, <2>1 DEF vars, request, PTypeOK, SessionSet, TokenChecked,
       TokenNeedsCookie, HandledAtEnd, AtLast, CrashIsUnordered, CookieKept, CaughtThrew
<1> QED
  BY <1>3, <1>4, <1>5, <1>6, <1>7, <1>8, <1>9, <1>10, <1>11 DEF Next, Ended

LEMMA Invariance == Spec => []IInv
BY InitIInv, NextIInv, PTL DEF Spec

\* However long the chain and whatever else is in it, csrf() never meets a
\* null req.session when session() is registered before it.
THEOREM OrderedChainsNeverCrash == Spec => []CrashOnlyUnordered
<1>1. IInv => CrashOnlyUnordered
  BY DEF IInv, PTypeOK, CrashIsUnordered, CrashOnlyUnordered, SessionFirst, Passed
<1> QED
  BY <1>1, Invariance, PTL

\* In every chain that has csrf() anywhere, a handler is entered for a POST,
\* PUT or DELETE only with the token of the session the request came with.
THEOREM HandlersAreProtected == Spec => []WritesNeedToken
<1>1. IInv => WritesNeedToken
  <2> SUFFICES ASSUME IInv, handled, method = "POST", Has("csrf")
               PROVE  token = "good" /\ session /\ ~created
    BY DEF WritesNeedToken
  <2>1. Passed("csrf")
    BY DEF IInv, HandledAtEnd, AtLast, Has, Passed, PTypeOK
  <2> QED
    BY <2>1 DEF IInv, TokenChecked, TokenNeedsCookie
<1> QED
  BY <1>1, Invariance, PTL

\* No middleware takes the new session's cookie out of the response again:
\* only an exception or the 404 page does.
THEOREM NewSessionsReachTheClient == Spec => []NewSessionIsAnnounced
<1>1. IInv => NewSessionIsAnnounced
  BY DEF IInv, CookieKept, NewSessionIsAnnounced
<1> QED
  BY <1>1, Invariance, PTL
=============================================================================
