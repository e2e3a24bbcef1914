------------------------- MODULE RateLimiter_proof --------------------------
(***************************************************************************)
(* Proofs about the rate limiter, for every limit and period, any number   *)
(* of workers and clients and every pattern of requests.                   *)
(***************************************************************************)
EXTENDS RateLimiter, TLAPS

USE MaxPos, PeriodPos

(* One client's bucket: the times s at which its requests passed, and the  *)
(* level l of the bucket at the time T.                                    *)

\* What passed since the k-th request, and what is left, is at most a full
\* bucket and the refill since then.
Spent(s, l, T) ==
    \A k \in 1..Len(s) : Period * (Len(s) - k + 1) + l <= Max * Period + Max * (T - s[k])

\* A bucket that is not full has been drained by the requests since some k-th
\* one, and by nothing else.
Drawn(s, l, T) ==
    \/ l = Max * Period
    \/ \E k \in 1..Len(s) : l >= Max * Period - Period * (Len(s) - k + 1) + Max * (T - s[k])

InOrder(s, T) ==
    \A k, m \in 1..Len(s) : s[k] <= T /\ (k <= m => s[k] <= s[m])

Bucket(s, l, T) ==
    /\ s \in Seq(Nat) /\ l \in Nat /\ l <= Max * Period /\ T \in Nat
    /\ InOrder(s, T) /\ Spent(s, l, T) /\ Drawn(s, l, T)

Burst(s) ==
    \A k, m \in 1..Len(s) :
        k <= m => Period * (m - k + 1) <= Max * Period + Max * (s[m] - s[k])

LEMMA FullBucket == ASSUME NEW T \in Nat PROVE Bucket(<<>>, Max * Period, T)
BY DEF Bucket, InOrder, Spent, Drawn

\* tokens += elapsed * max / period, cut off at max
LEMMA RefillKeeps ==
    ASSUME NEW s, NEW l, NEW T, Bucket(s, l, T), NEW U \in Nat, T <= U
    PROVE  Bucket(s, Refilled(l, U - T), U)
<1> DEFINE e == U - T
<1>0. /\ s \in Seq(Nat) /\ Len(s) \in Nat /\ \A k \in 1..Len(s) : s[k] \in Nat
      /\ l \in Nat /\ T \in Nat /\ e \in Nat /\ l <= Max * Period
  BY DEF Bucket
<1>1. e * Max \in Nat /\ Max * Period \in Nat /\ U = T + e
  BY <1>0
<1>2. \A x \in Nat : Max * ((T + e) - x) = Max * (T - x) + e * Max
  BY <1>0
<1> DEFINE r == Refilled(l, e)
<1>3. /\ r \in Nat /\ r <= Max * Period /\ r <= l + e * Max
      /\ r = Max * Period \/ r = l + e * Max
  BY <1>0, <1>1 DEF Refilled, Capped, Min2
<1>4. InOrder(s, U)
  BY <1>0, <1>1 DEF Bucket, InOrder
<1>5. Spent(s, r, U)
  <2> SUFFICES ASSUME NEW k \in 1..Len(s)
               PROVE  Period * (Len(s) - k + 1) + r <= Max * Period + Max * (U - s[k])
    BY DEF Spent
  <2>1. Period * (Len(s) - k + 1) + l <= Max * Period + Max * (T - s[k])
    BY DEF Bucket, Spent
  <2>2. Max * (U - s[k]) = Max * (T - s[k]) + e * Max
    BY <1>0, <1>1, <1>2
  <2>3. Period * (Len(s) - k + 1) \in Int /\ Max * (T - s[k]) \in Int
    BY <1>0
  <2> DEFINE p == Period * (Len(s) - k + 1)
  <2> DEFINE c == Max * (T - s[k])
  <2> DEFINE f == Max * Period
  <2> DEFINE d == e * Max
  <2>4. /\ p + l <= f + c /\ r <= l + d /\ Max * (U - s[k]) = c + d
        /\ p \in Int /\ c \in Int /\ f \in Int /\ d \in Int /\ r \in Int /\ l \in Int
    BY <1>0, <1>1, <1>3, <2>1, <2>2, <2>3
  <2> HIDE DEF e, r, p, c, f, d
  <2>5. p + r <= f + (c + d)
    BY <2>4
  <2> QED
    BY <2>4, <2>5 DEF p, f
<1>6. Drawn(s, r, U)
  <2>1. CASE r = Max * Period
    BY <2>1 DEF Drawn
  <2>2. CASE r = l + e * Max /\ l = Max * Period
    <3> HIDE DEF e, r
    <3> QED
      BY <1>0, <1>1, <1>3, <2>2 DEF Drawn
  <2>3. ASSUME r = l + e * Max,
               NEW k \in 1..Len(s),
               l >= Max * Period - Period * (Len(s) - k + 1) + Max * (T - s[k])
        PROVE  Drawn(s, r, U)
    <3>1. Max * (U - s[k]) = Max * (T - s[k]) + e * Max
      BY <1>0, <1>1, <1>2
    <3>2. Period * (Len(s) - k + 1) \in Int /\ Max * (T - s[k]) \in Int
      BY <1>0
    <3> DEFINE p == Period * (Len(s) - k + 1)
    <3> DEFINE c == Max * (T - s[k])
    <3> DEFINE f == Max * Period
    <3> DEFINE d == e * Max
    <3>3. /\ l >= f - p + c /\ r = l + d /\ Max * (U - s[k]) = c + d
          /\ p \in Int /\ c \in Int /\ f \in Int /\ d \in Int /\ r \in Int /\ l \in Int
      BY <1>0, <1>1, <1>3, <2>3, <3>1, <3>2
    <3> HIDE DEF e, r, p, c, f, d
    <3>4. r >= f - p + (c + d)
      BY <3>3
    <3> QED
      BY <3>3, <3>4 DEF Drawn, p, f
  <2> QED
    BY <1>3, <2>1, <2>2, <2>3 DEF Bucket, Drawn
<1> QED
  BY <1>0, <1>3, <1>4, <1>5, <1>6 DEF Bucket

\* tokens -= 1
LEMMA TakeKeeps ==
    ASSUME NEW s, NEW l, NEW T, Bucket(s, l, T), l >= Period, Burst(s)
    PROVE  Bucket(Append(s, T), l - Period, T) /\ Burst(Append(s, T))
<1> DEFINE a == Append(s, T)
<1> DEFINE n == Len(s)
<1>0. /\ s \in Seq(Nat) /\ n \in Nat /\ \A k \in 1..n : s[k] \in Nat
      /\ l \in Nat /\ T \in Nat /\ l <= Max * Period
  BY DEF Bucket
<1>1. /\ a \in Seq(Nat) /\ Len(a) = n + 1 /\ a[n + 1] = T
      /\ \A k \in 1..n : a[k] = s[k]
  BY <1>0
<1>2. \A k \in 1..(n + 1) : k \in 1..n \/ k = n + 1
  BY <1>0
<1> HIDE DEF a
<1>3. InOrder(a, T)
  <2> SUFFICES ASSUME NEW k \in 1..(n + 1), NEW m \in 1..(n + 1)
               PROVE  a[k] <= T /\ (k <= m => a[k] <= a[m])
    BY <1>1 DEF InOrder
  <2>1. \A j \in 1..n : s[j] <= T
    BY DEF Bucket, InOrder
  <2>2. CASE m \in 1..n /\ k \in 1..n
    BY <1>1, <2>1, <2>2 DEF Bucket, InOrder
  <2>3. CASE m = n + 1
    BY SMTT(30), <1>0, <1>1, <1>2, <2>1, <2>3
  <2>4. CASE m \in 1..n /\ k = n + 1
    BY <1>0, <1>1, <2>4
  <2> QED
    BY <1>2, <2>2, <2>3, <2>4
<1>4. \A k \in 1..n : Period * ((n + 1) - k + 1) + (l - Period) <= Max * Period + Max * (T - s[k])
  <2> TAKE k \in 1..n
  <2>1. Period * (n - k + 1) + l <= Max * Period + Max * (T - s[k])
    BY DEF Bucket, Spent
  <2>2. Period * ((n + 1) - k + 1) + (l - Period) = Period * (n - k + 1) + l
    BY <1>0
  <2> QED
    BY <2>1, <2>2
<1>5. Spent(a, l - Period, T)
  <2> SUFFICES ASSUME NEW k \in 1..(n + 1)
               PROVE  Period * ((n + 1) - k + 1) + (l - Period) <= Max * Period + Max * (T - a[k])
    BY <1>1 DEF Spent
  <2>1. CASE k \in 1..n
    BY <1>1, <1>4, <2>1
  <2>2. CASE k = n + 1
    BY <1>0, <1>1, <2>2
  <2> QED
    BY <1>2, <2>1, <2>2
<1>6. Drawn(a, l - Period, T)
  <2>1. CASE l = Max * Period
    <3>1. Period * ((n + 1) - (n + 1) + 1) = Period /\ Max * (T - a[n + 1]) = 0
      BY <1>0, <1>1
    <3>2. PICK j \in 1..Len(a) : j = n + 1
      BY <1>0, <1>1
    <3>3. l - Period >= Max * Period - Period * (Len(a) - j + 1) + Max * (T - a[j])
      BY <1>0, <1>1, <2>1, <3>1, <3>2
    <3> QED
      BY <3>3 DEF Drawn
  <2>2. ASSUME NEW k \in 1..n,
               l >= Max * Period - Period * (n - k + 1) + Max * (T - s[k])
        PROVE  Drawn(a, l - Period, T)
    <3>1. Period * ((n + 1) - k + 1) = Period * (n - k + 1) + Period
      BY <1>0
    <3>2. Period * (n - k + 1) \in Int /\ Max * (T - s[k]) \in Int /\ Max * Period \in Int
      BY <1>0
    <3> DEFINE p == Period * (n - k + 1)
    <3> DEFINE c == Max * (T - s[k])
    <3> DEFINE f == Max * Period
    <3>3. /\ l >= f - p + c /\ p \in Int /\ c \in Int /\ f \in Int
          /\ Period * ((n + 1) - k + 1) = p + Period
      BY <2>2, <3>1, <3>2
    <3> HIDE DEF p, c, f
    <3>4. l - Period >= f - (p + Period) + c
      BY <1>0, <3>3
    <3>5. l - Period >= f - Period * ((n + 1) - k + 1) + c
      BY <3>3, <3>4
    <3>6. k \in 1..Len(a) /\ a[k] = s[k]
      BY <1>0, <1>1
    <3> QED
      BY <1>1, <3>5, <3>6 DEF Drawn, c, f
  <2> QED
    BY <2>1, <2>2 DEF Bucket, Drawn
<1>7. Burst(a)
  <2> SUFFICES ASSUME NEW k \in 1..(n + 1), NEW m \in 1..(n + 1), k <= m
               PROVE  Period * (m - k + 1) <= Max * Period + Max * (a[m] - a[k])
    BY <1>1 DEF Burst
  <2>1. CASE m \in 1..n
    <3>1. k \in 1..n
      BY <1>0, <2>1
    <3> QED
      BY <1>1, <2>1, <3>1 DEF Burst
  <2>2. CASE m = n + 1 /\ k \in 1..n
    <3>1. Period * ((n + 1) - k + 1) + (l - Period) <= Max * Period + Max * (T - s[k])
      BY <1>4, <2>2
    <3>2. Period * ((n + 1) - k + 1) \in Int /\ Max * (T - s[k]) \in Int /\ Max * Period \in Int
      BY <1>0, <2>2
    <3> DEFINE p == Period * ((n + 1) - k + 1)
    <3> DEFINE c == Max * (T - s[k])
    <3> DEFINE f == Max * Period
    <3>3. p <= f + c
      <4>1. p + (l - Period) <= f + c /\ p \in Int /\ c \in Int /\ f \in Int
        BY <3>1, <3>2
      <4> HIDE DEF p, c, f
      <4> QED
        BY <1>0, <4>1
    <3> QED
      BY <1>1, <2>2, <3>3
  <2>3. CASE m = n + 1 /\ k = n + 1
    <3>1. Period <= Max * Period
      BY <1>0
    <3>2. a[m] = T /\ a[k] = T /\ Period * (m - k + 1) = Period /\ Max * (T - T) = 0
      BY <1>0, <1>1, <2>3
    <3> QED
      BY <3>1, <3>2
  <2> QED
    BY <1>2, <2>1, <2>2, <2>3
<1> QED
  BY <1>0, <1>1, <1>3, <1>5, <1>6, <1>7 DEF Bucket, a

\* A client with less than one token has had Max requests in a Period.  If the
\* Max-th last one were older, the bucket would have been refilled since, and
\* what Drawn says was taken from it would be more than Burst allows.
LEMMA RefusedIsOver ==
    ASSUME NEW s, NEW l, NEW T, Bucket(s, l, T), l < Period, Burst(s)
    PROVE  Len(s) >= Max /\ s[Len(s) - Max + 1] > T - Period
<1> DEFINE n == Len(s)
<1>0. /\ s \in Seq(Nat) /\ n \in Nat /\ \A k \in 1..n : s[k] \in Nat
      /\ l \in Nat /\ T \in Nat
  BY DEF Bucket
<1>1. l # Max * Period
  BY <1>0
<1>2. PICK k \in 1..n : l >= Max * Period - Period * (n - k + 1) + Max * (T - s[k])
  BY <1>1 DEF Bucket, Drawn
<1> DEFINE m == n - k + 1
<1>3. m \in Nat /\ s[k] \in Nat /\ T - s[k] \in Nat
  BY <1>0 DEF Bucket, InOrder
<1>4. Period * m > Max * Period - Period + Max * (T - s[k])
  <2> DEFINE p == Period * m
  <2> DEFINE c == Max * (T - s[k])
  <2> DEFINE f == Max * Period
  <2>1. l >= f - p + c /\ p \in Int /\ c \in Int /\ f \in Int
    BY <1>0, <1>2, <1>3
  <2> HIDE DEF p, c, f
  <2>2. p > f - Period + c
    BY <1>0, <2>1
  <2> QED
    BY <2>2 DEF p, c, f
<1>5. m >= Max
  <2>1. Max * (T - s[k]) >= 0
    BY <1>3
  <2>2. Period * m > Max * Period - Period
    <3> DEFINE p == Period * m
    <3> DEFINE c == Max * (T - s[k])
    <3> DEFINE f == Max * Period
    <3>1. p > f - Period + c /\ c >= 0 /\ p \in Int /\ c \in Int /\ f \in Int
      BY <1>3, <1>4, <2>1
    <3> HIDE DEF p, c, f
    <3>2. p > f - Period
      BY <3>1
    <3> QED
      BY <3>2 DEF p, f
  <2>3. Period * m > Period * (Max - 1)
    BY <1>3, <2>2
  <2>4. m > Max - 1
    <3> HIDE DEF m
    <3>1. ASSUME m <= Max - 1 PROVE FALSE
      <4>1. Period * m <= Period * (Max - 1)
        BY <1>3, <3>1
      <4> QED
        BY <1>3, <2>3, <4>1
    <3> QED
      BY <1>3, <3>1
  <2> QED
    BY <1>3, <2>4
<1> DEFINE j == n - Max + 1
<1>6. j \in 1..n /\ k <= j /\ s[j] \in Nat /\ s[k] <= s[j]
  <2>1. j \in 1..n /\ k <= j
    BY <1>0, <1>5
  <2> QED
    BY <1>0, <2>1 DEF Bucket, InOrder
<1>7. Period * (j - k + 1) <= Max * Period + Max * (s[j] - s[k])
  BY <1>6 DEF Burst
<1>8. Period * (j - k + 1) = Period * m - Max * Period + Period
  BY <1>0
<1>9. s[j] > T - Period
  <2> SUFFICES ASSUME s[j] <= T - Period PROVE FALSE
    BY SMTT(30), <1>0, <1>6
  <2>0. PICK u, v \in Nat : u = s[k] /\ v = s[j]
    BY <1>3, <1>6
  <2>1. PICK x \in Int : x = v - u
    OBVIOUS
  <2>2. PICK y \in Int : y = T - u
    BY <1>0
  <2>3. y >= Period + x
    <3>1. v <= T - Period
      BY <2>0
    <3> QED
      BY <1>0, <2>1, <2>2, <3>1
  <2> DEFINE p == Period * m
  <2> DEFINE f == Max * Period
  <2>4. Max * y >= Max * (Period + x) /\ Max * (Period + x) = f + Max * x
    BY <2>3
  <2>5. p > f - Period + Max * y
    BY <1>4, <2>0, <2>2
  <2>6. p - f + Period <= f + Max * x
    BY <1>7, <1>8, <2>0, <2>1
  <2> DEFINE c == Max * y
  <2> DEFINE d == Max * x
  <2>7. /\ p > f - Period + c /\ p - f + Period <= f + d /\ c >= f + d
    BY <2>4, <2>5, <2>6
  <2>8. p \in Int /\ c \in Int /\ f \in Int /\ d \in Int
    BY <1>3
  <2> HIDE DEF p, c, f, d
  <2> QED
    BY <2>7, <2>8
<1> QED
  BY <1>0, <1>5, <1>6, <1>9

-----------------------------------------------------------------------------
(* The middleware, on any number of workers. *)

Types ==
    /\ clock \in Nat
    /\ admitted \in [Ips -> Seq(Nat)] /\ initialized \in [Ips -> BOOLEAN]
    /\ tokens \in [Ips -> Int] /\ last_refill \in [Ips -> Nat]
    /\ pc \in [Threads -> {"idle", "refill", "decide"}]
    /\ ip \in [Threads -> Ips \cup {NoIp}]
    /\ now \in [Threads -> Nat] /\ level \in [Threads -> Int]
    /\ raced \subseteq Ips

\* The bucket of a client that has not raced is one, and not from the future.
StoredOf(i) ==
    /\ initialized[i] => /\ Bucket(admitted[i], tokens[i], last_refill[i])
                         /\ last_refill[i] <= clock
    /\ ~initialized[i] => admitted[i] = <<>>

Stored == \A i \in Ips : Burst(admitted[i]) /\ (i \notin raced => StoredOf(i))

\* Of a client that has not raced there is one request at a time.
Alone ==
    \A s, t \in Threads :
        s # t /\ pc[s] # "idle" /\ pc[t] # "idle" /\ ip[s] = ip[t] => ip[s] \in raced

\* What such a request knows: its client's bucket is not newer than its reading
\* of the clock, and the level it has computed is that of the bucket.
Knows(t, i) ==
    /\ initialized[i] => last_refill[i] <= now[t]
    /\ pc[t] = "decide" => Bucket(admitted[i], level[t], now[t])

InHand(t) ==
    pc[t] # "idle" =>
        /\ ip[t] \in Ips /\ now[t] <= clock
        /\ ip[t] \notin raced => Knows(t, ip[t])

\* Refusals were of clients over their limit, and stay so.
OverLimit(r) ==
    /\ r.ip \in Ips /\ r.at \in Nat /\ r.after \in Nat
    /\ r.after <= Len(admitted[r.ip]) /\ r.after >= Max
    /\ admitted[r.ip][r.after - Max + 1] > r.at - Period

Refusals == \A r \in rejected : OverLimit(r)

IInv == Types /\ Stored /\ Alone /\ (\A t \in Threads : InHand(t)) /\ Refusals

LEMMA InitIInv == Init => IInv
BY DEF Init, IInv, Types, Stored, StoredOf, Alone, InHand, Refusals, Burst

LEMMA TickIInv == ASSUME IInv, Tick PROVE IInv'
<1> USE DEF IInv
<1>1. /\ clock' = clock + 1 /\ clock \in Nat /\ rejected' = {}
      /\ UNCHANGED <<tokens, last_refill, initialized, pc, ip, now, level, raced, admitted>>
  BY DEF Tick, local, Types
<1>2. Types' /\ Refusals' /\ Alone'
  BY <1>1 DEF Types, Refusals, Alone
<1>3. Stored'
  BY <1>1 DEF Stored, StoredOf, Types
<1>4. \A t \in Threads : InHand(t)'
  BY <1>1 DEF InHand, Knows, Types
<1> QED
  BY <1>2, <1>3, <1>4

\* A request that arrives while another of its client is under way makes the
\* client one that has raced.
LEMMA ArriveIInv == ASSUME IInv, NEW t \in Threads, NEW i \in Ips, Arrive(t, i) PROVE IInv'
<1> USE DEF IInv
<1>1. /\ pc[t] = "idle" /\ pc' = [pc EXCEPT ![t] = "refill"] /\ ip' = [ip EXCEPT ![t] = i]
      /\ now' = [now EXCEPT ![t] = clock] /\ raced' = raced \cup Races(i)
      /\ admitted' = [j \in Ips |-> IF j \in raced' THEN <<>> ELSE admitted[j]]
      /\ rejected' = {r \in rejected : r.ip \notin raced'}
      /\ UNCHANGED <<clock, tokens, last_refill, initialized, level>>
  BY DEF Arrive
<1>2. Races(i) \subseteq Ips /\ raced \subseteq raced'
  BY <1>1 DEF Races
<1>3. \A s \in Threads : s # t => pc'[s] = pc[s] /\ ip'[s] = ip[s] /\ now'[s] = now[s]
  BY <1>1 DEF Types
<1>4. pc'[t] = "refill" /\ ip'[t] = i /\ now'[t] = clock
  BY <1>1 DEF Types
<1>5. \A j \in Ips : j \notin raced' => admitted'[j] = admitted[j] /\ j \notin raced
  BY <1>1, <1>2
<1>6. Types'
  BY <1>1, <1>2 DEF Types
<1>7. Stored'
  <2> SUFFICES ASSUME NEW j \in Ips PROVE Burst(admitted'[j]) /\ (j \notin raced' => StoredOf(j)')
    BY DEF Stored
  <2>1. CASE j \in raced'
    BY <1>1, <2>1 DEF Burst
  <2>2. CASE j \notin raced'
    BY <1>1, <1>5, <2>2 DEF Stored, StoredOf
  <2> QED
    BY <2>1, <2>2
<1>8. Alone'
  <2>1. \A s \in Threads : s # t /\ pc[s] # "idle" /\ ip[s] = i => i \in Races(i)
    BY DEF Races, Busy
  <2> QED
    BY <1>1, <1>2, <1>3, <1>4, <2>1 DEF Alone
<1>9. \A s \in Threads : InHand(s)'
  <2>1. InHand(t)'
    BY <1>1, <1>4, <1>5 DEF InHand, Knows, Stored, StoredOf, Types
  <2>2. ASSUME NEW s \in Threads, s # t PROVE InHand(s)'
    BY <1>1, <1>3, <1>5, <2>2 DEF InHand, Knows
  <2> QED
    BY <2>1, <2>2
<1>10. Refusals'
  BY <1>1, <1>5 DEF Refusals, OverLimit
<1> QED
  BY <1>6, <1>7, <1>8, <1>9, <1>10

LEMMA RefillIInv == ASSUME IInv, NEW t \in Threads, Refill(t) PROVE IInv'
<1> USE DEF IInv
<1> DEFINE i == ip[t]
<1>1. /\ pc[t] = "refill" /\ pc' = [pc EXCEPT ![t] = "decide"]
      /\ level' = [level EXCEPT ![t] =
            IF initialized[i] THEN Refilled(tokens[i], now[t] - last_refill[i])
                              ELSE Refilled(Max * Period, 0)]
      /\ UNCHANGED <<clock, tokens, last_refill, initialized, ip, now, raced, admitted, rejected>>
  BY DEF Refill
<1>2. i \in Ips /\ now[t] \in Nat /\ last_refill[i] \in Nat /\ tokens[i] \in Int
  BY <1>1 DEF InHand, Types
<1>3. ASSUME i \notin raced PROVE Bucket(admitted[i], level'[t], now[t])
  <2>1. CASE initialized[i]
    <3>1. Bucket(admitted[i], tokens[i], last_refill[i]) /\ last_refill[i] <= now[t]
      BY <1>1, <1>2, <1>3, <2>1 DEF Stored, StoredOf, InHand, Knows
    <3>2. level'[t] = Refilled(tokens[i], now[t] - last_refill[i])
      BY <1>1, <2>1 DEF Types
    <3> QED
      BY <1>2, <3>1, <3>2, RefillKeeps
  <2>2. CASE ~initialized[i]
    <3>1. admitted[i] = <<>>
      BY <1>2, <1>3, <2>2 DEF Stored, StoredOf
    <3>2. level'[t] = Refilled(Max * Period, 0)
      BY <1>1, <2>2 DEF Types
    <3>3. Refilled(Max * Period, 0) = Max * Period
      BY DEF Refilled, Capped, Min2
    <3> QED
      BY <1>2, <3>1, <3>2, <3>3, FullBucket
  <2> QED
    BY <2>1, <2>2
<1>4. level' \in [Threads -> Int]
  <2>1. \A l \in Int, e \in Int : Refilled(l, e) \in Int
    BY DEF Refilled, Capped, Min2
  <2>2. Max * Period \in Int /\ now[t] - last_refill[i] \in Int
    BY <1>2
  <2>3. PICK l \in Int : level' = [level EXCEPT ![t] = l]
    <3>1. Refilled(tokens[i], now[t] - last_refill[i]) \in Int /\ Refilled(Max * Period, 0) \in Int
      <4>1. Refilled(tokens[i], now[t] - last_refill[i]) \in Int
        BY <1>2, <2>1, <2>2, Zenon
      <4>2. 0 \in Int
        OBVIOUS
      <4> QED
        BY <2>1, <2>2, <4>1, <4>2, Zenon
    <3>2. CASE initialized[i]
      BY <1>1, <3>1, <3>2
    <3>3. CASE ~initialized[i]
      BY <1>1, <3>1, <3>3
    <3> QED
      BY <3>2, <3>3
  <2> QED
    BY <2>3 DEF Types
<1>5. Types' /\ Refusals' /\ Stored' /\ Alone'
  BY <1>1, <1>4 DEF Types, Refusals, OverLimit, Stored, StoredOf, Alone
<1>6. InHand(t)'
  <2>1. pc'[t] = "decide" /\ ip'[t] = i /\ now'[t] = now[t] /\ admitted' = admitted
    BY <1>1 DEF Types
  <2>2. ip[t] \notin raced => Knows(t, ip[t])'
    BY <1>1, <1>3, <2>1 DEF InHand, Knows
  <2> QED
    BY <1>1, <1>2, <2>1, <2>2 DEF InHand, Knows
<1>7. ASSUME NEW s \in Threads, s # t PROVE InHand(s)'
  <2>1. pc'[s] = pc[s] /\ level'[s] = level[s]
    BY <1>1, <1>7 DEF Types
  <2> QED
    BY <1>1, <2>1 DEF InHand, Knows
<1> QED
  BY <1>5, <1>6, <1>7

\* What Admit and Reject do besides counting.
LEMMA LeaveKeeps ==
    ASSUME IInv, NEW t \in Threads, NEW i \in Ips, i = ip[t], pc[t] # "idle", Leave(t),
           UNCHANGED <<clock, raced>>,
           last_refill' = [last_refill EXCEPT ![i] = now[t]],
           initialized' = [initialized EXCEPT ![i] = TRUE],
           \A j \in Ips : j # i => admitted'[j] = admitted[j]
    PROVE  Alone' /\ \A s \in Threads : InHand(s)'
<1> USE DEF IInv
<1>1. pc'[t] = "idle" /\ \A s \in Threads : s # t => /\ pc'[s] = pc[s] /\ ip'[s] = ip[s]
                                                     /\ now'[s] = now[s] /\ level'[s] = level[s]
  BY DEF Leave, Types
<1>2. Alone'
  BY <1>1 DEF Alone
<1>3. ASSUME NEW s \in Threads, pc'[s] # "idle" PROVE InHand(s)'
  <2>1. s # t /\ pc[s] # "idle"
    BY <1>1, <1>3
  <2>2. ip[s] \in Ips /\ now[s] <= clock
    BY <2>1 DEF InHand
  <2>3. ASSUME ip[s] \notin raced PROVE ip[s] # i /\ Knows(s, ip[s])
    BY <2>1, <2>3 DEF Alone, InHand
  <2>4. ASSUME ip[s] \notin raced PROVE Knows(s, ip[s])'
    <3>1. /\ ip'[s] = ip[s] /\ admitted'[ip[s]] = admitted[ip[s]]
          /\ initialized'[ip[s]] = initialized[ip[s]] /\ last_refill'[ip[s]] = last_refill[ip[s]]
      BY <1>1, <2>1, <2>2, <2>3, <2>4 DEF Types
    <3> QED
      BY <1>1, <2>1, <2>3, <2>4, <3>1 DEF Knows
  <2> QED
    BY <1>1, <2>1, <2>2, <2>4 DEF InHand
<1> QED
  BY <1>2, <1>3 DEF InHand

\* A request of a client that has raced leaves the other clients' buckets and
\* histories alone.
LEMMA RacedIInv ==
    ASSUME IInv, NEW t \in Threads, Admit(t) \/ Reject(t), ip[t] \in raced
    PROVE  IInv'
<1> USE DEF IInv
<1>1. PICK i \in Ips : i = ip[t]
  BY DEF Types
<1>2. /\ UNCHANGED <<clock, raced, admitted, rejected>> /\ pc[t] = "decide" /\ Leave(t)
      /\ last_refill' = [last_refill EXCEPT ![i] = now[t]]
      /\ initialized' = [initialized EXCEPT ![i] = TRUE]
      /\ tokens' = [tokens EXCEPT ![i] = level[t] - Cost] \/ tokens' = [tokens EXCEPT ![i] = level[t]]
  BY <1>1 DEF Admit, Reject
<1>3. Types'
  BY <1>2 DEF Types, Leave, Cost
<1>4. Alone' /\ \A s \in Threads : InHand(s)'
  BY <1>1, <1>2, LeaveKeeps
<1>5. Stored'
  <2> SUFFICES ASSUME NEW j \in Ips PROVE Burst(admitted'[j]) /\ (j \notin raced' => StoredOf(j)')
    BY DEF Stored
  <2>1. Burst(admitted'[j])
    BY <1>2 DEF Stored
  <2>2. ASSUME j \notin raced' PROVE StoredOf(j)'
    <3>1. j # i /\ j \notin raced
      BY <1>1, <1>2, <2>2
    <3>2. tokens'[j] = tokens[j] /\ initialized'[j] = initialized[j] /\ last_refill'[j] = last_refill[j]
      BY <1>2, <3>1 DEF Types
    <3> QED
      BY <1>2, <3>1, <3>2 DEF Stored, StoredOf
  <2> QED
    BY <2>1, <2>2
<1>6. Refusals'
  BY <1>2 DEF Refusals, OverLimit
<1> QED
  BY <1>3, <1>4, <1>5, <1>6

LEMMA DecideIInv ==
    ASSUME IInv, NEW t \in Threads, Admit(t) \/ Reject(t), ip[t] \notin raced
    PROVE  IInv'
<1> USE DEF IInv
<1>1. PICK i \in Ips : i = ip[t]
  BY DEF Admit, Reject, InHand
<1>2. PICK s, l, T : s = admitted[i] /\ l = level[t] /\ T = now[t]
  OBVIOUS
<1>3. Bucket(s, l, T) /\ Burst(s) /\ T <= clock /\ s \in Seq(Nat) /\ T \in Nat /\ l \in Nat
  BY <1>1, <1>2 DEF Admit, Reject, InHand, Knows, Stored, Bucket
<1>4. /\ clock' = clock /\ raced' = raced /\ pc[t] = "decide" /\ Leave(t)
      /\ initialized' = [initialized EXCEPT ![i] = TRUE]
      /\ last_refill' = [last_refill EXCEPT ![i] = T]
  BY <1>1, <1>2 DEF Admit, Reject
<1>5. CASE Admit(t)
  <2>1. /\ l >= Period /\ tokens' = [tokens EXCEPT ![i] = l - Period]
        /\ admitted' = [admitted EXCEPT ![i] = Append(s, T)] /\ rejected' = rejected
    BY <1>1, <1>2, <1>5 DEF Admit, Cost
  <2>2. Bucket(Append(s, T), l - Period, T) /\ Burst(Append(s, T))
    BY <1>3, <2>1, TakeKeeps
  <2>3. Append(s, T) \in Seq(Nat) /\ Len(Append(s, T)) = Len(s) + 1
        /\ \A k \in 1..Len(s) : Append(s, T)[k] = s[k]
    BY <1>3
  <2>4. Types'
    BY SMTT(30), <1>3, <1>4, <2>1, <2>3 DEF Types, Leave
  <2>5. Stored'
    <3> SUFFICES ASSUME NEW j \in Ips PROVE Burst(admitted'[j]) /\ (j \notin raced => StoredOf(j)')
      BY <1>4 DEF Stored
    <3>1. CASE j = i
      BY <1>3, <1>4, <2>1, <2>2, <3>1 DEF StoredOf, Types
    <3>2. CASE j # i
      <4>1. /\ admitted'[j] = admitted[j] /\ tokens'[j] = tokens[j]
            /\ initialized'[j] = initialized[j] /\ last_refill'[j] = last_refill[j]
        BY <1>4, <2>1, <3>2 DEF Types
      <4> QED
        BY <1>4, <4>1 DEF Stored, StoredOf
    <3> QED
      BY <3>1, <3>2
  <2>6. Refusals'
    <3> SUFFICES ASSUME NEW r \in rejected
                 PROVE  /\ r.ip \in Ips /\ r.at \in Nat /\ r.after \in Nat /\ r.after >= Max
                        /\ r.after <= Len(admitted'[r.ip])
                        /\ admitted'[r.ip][r.after - Max + 1] > r.at - Period
      BY <2>1 DEF Refusals, OverLimit
    <3>1. /\ r.ip \in Ips /\ r.at \in Nat /\ r.after \in Nat
          /\ r.after <= Len(admitted[r.ip]) /\ r.after >= Max
          /\ admitted[r.ip][r.after - Max + 1] > r.at - Period
      BY DEF Refusals, OverLimit
    <3>2. CASE r.ip # i
      BY <2>1, <3>1, <3>2 DEF Types
    <3>3. CASE r.ip = i
      <4>1. admitted'[r.ip] = Append(s, T) /\ admitted[r.ip] = s
        BY <1>2, <2>1, <3>3 DEF Types
      <4>0. Len(s) \in Nat
        BY <1>3
      <4>2. PICK x, n \in Nat : x = r.after /\ n = Len(s)
        BY <3>1, <4>0
      <4>3. x <= n /\ x >= Max
        BY <3>1, <4>1, <4>2
      <4>4. x - Max + 1 \in 1..n /\ x <= n + 1
        BY <4>3
      <4> QED
        BY <2>3, <3>1, <4>1, <4>2, <4>4
    <3> QED
      BY <3>2, <3>3
  <2>7. \A j \in Ips : j # i => admitted'[j] = admitted[j]
    BY <2>1 DEF Types
  <2>8. Alone' /\ \A p \in Threads : InHand(p)'
    BY <1>1, <1>2, <1>4, <2>7, LeaveKeeps
  <2> QED
    BY <2>4, <2>5, <2>6, <2>8
<1>6. CASE Reject(t)
  <2>1. /\ l < Period /\ tokens' = [tokens EXCEPT ![i] = l]
        /\ admitted' = admitted
        /\ rejected' = rejected \cup {[ip |-> i, at |-> T, after |-> Len(s)]}
    BY <1>1, <1>2, <1>6 DEF Reject
  <2>2. Types'
    BY <1>3, <1>4, <2>1 DEF Types, Leave
  <2>3. Stored'
    <3> SUFFICES ASSUME NEW j \in Ips PROVE Burst(admitted[j]) /\ (j \notin raced => StoredOf(j)')
      BY <1>4, <2>1 DEF Stored
    <3>1. CASE j = i
      BY <1>2, <1>3, <1>4, <2>1, <3>1 DEF StoredOf, Types
    <3>2. CASE j # i
      <4>1. /\ tokens'[j] = tokens[j]
            /\ initialized'[j] = initialized[j] /\ last_refill'[j] = last_refill[j]
        BY <1>4, <2>1, <3>2 DEF Types
      <4> QED
        BY <1>4, <2>1, <4>1 DEF Stored, StoredOf
    <3> QED
      BY <3>1, <3>2
  <2>4. Len(s) >= Max /\ s[Len(s) - Max + 1] > T - Period /\ Len(s) \in Nat
    BY <1>3, <2>1, RefusedIsOver
  <2>5. Refusals'
    <3>1. /\ i \in Ips /\ T \in Nat /\ Len(s) <= Len(admitted[i])
          /\ admitted[i][Len(s) - Max + 1] > T - Period
      BY <1>2, <1>3, <2>4
    <3> QED
      BY <2>1, <2>4, <3>1 DEF Refusals, OverLimit
  <2>6. Alone' /\ \A p \in Threads : InHand(p)'
    BY <1>1, <1>2, <1>4, <2>1, LeaveKeeps
  <2> QED
    BY <2>2, <2>3, <2>5, <2>6
<1> QED
  BY <1>5, <1>6

LEMMA NextIInv == IInv /\ [Next]_vars => IInv'
<1> SUFFICES ASSUME IInv, [Next]_vars PROVE IInv'
  OBVIOUS
<1>1. CASE UNCHANGED vars
  BY <1>1 DEF vars, local, IInv, Types, Stored, StoredOf, Alone, InHand, Knows, Refusals, OverLimit
<1> QED
  BY <1>1, TickIInv, ArriveIInv, RefillIInv, RacedIInv, DecideIInv DEF Next

\* A client whose requests did not race never gets more through than a full
\* bucket plus what is refilled meanwhile, for every limit and period, over any
\* stretch of time and on any number of workers: the invariant BurstPlusRefill
\* of the run RateLimiter_bucket.
THEOREM BurstIsBounded == Spec => []BurstPlusRefill
<1>1. IInv => BurstPlusRefill
  BY DEF IInv, Stored, Burst, BurstPlusRefill
<1> QED
  BY <1>1, NextIInv, InitIInv, PTL DEF Spec

\* A client that stays within its limit, and whose requests did not race, is
\* never refused: the invariant RefusedOnlyOverLimit of the run
\* RateLimiter_bucket, for every limit and period and any number of workers.
THEOREM OnlyExcessIsRefused == Spec => []RefusedOnlyOverLimit
<1>1. IInv => RefusedOnlyOverLimit
  BY DEF IInv, Refusals, OverLimit, RefusedOnlyOverLimit
<1> QED
  BY <1>1, NextIInv, InitIInv, PTL DEF Spec
=============================================================================
