---------------------------- MODULE RateLimiter ----------------------------
(***************************************************************************)
(* The token-bucket middleware RateLimiter(max_requests, period_seconds)   *)
(* of src/security/rate_limiter.cpp.                                       *)
(*                                                                         *)
(* A bucket's double `tokens' is kept here in units of 1/Period token, so  *)
(* that a second refills Max units, a request costs Period units, and the  *)
(* arithmetic is exact (rounding of doubles is left out).  The buckets are *)
(* shared by all workers without a lock: a request reads the clock, then   *)
(* the bucket, then writes it, in three steps.  Of two requests of one     *)
(* client at the same time an update can be lost, and a new client whose   *)
(* bucket is put into the map while another request uses the map is        *)
(* undefined behaviour; `raced' notes both.                                *)
(***************************************************************************)
EXTENDS Integers, Sequences

CONSTANTS
    Threads,    \* workers that run the middleware
    Ips,        \* client addresses
    NoIp,
    Max,        \* max_requests
    Period,     \* period_seconds
    MaxTime     \* bound of the model: the steady clock stops here

ASSUME NoIpIsNoIp == NoIp \notin Ips
ASSUME MaxPos == Max \in Nat \ {0}
ASSUME PeriodPos == Period \in Nat \ {0}
ASSUME MaxTimeNat == MaxTime \in Nat

VARIABLES
    clock,          \* steady_clock, in seconds
    tokens,         \* tokens[ip], in units of 1/Period
    last_refill,    \* last_refill[ip]
    initialized,    \* initialized[ip]: the bucket exists
    pc,             \* where each worker is in the middleware
    ip, now, level, \* its locals: the client, the time, the tokens it read
    raced,          \* history: clients of whose buckets nothing is known
    admitted,       \* history of the other clients: when their requests passed
    rejected        \* and their refusals since the clock's last tick: whose (ip),
                    \* when (at), and how many had passed before (after)

local == <<pc, ip, now, level>>
vars == <<clock, tokens, last_refill, initialized, local, raced, admitted, rejected>>

Init ==
    /\ clock = 0
    /\ tokens = [i \in Ips |-> 0] /\ last_refill = [i \in Ips |-> 0]
    /\ initialized = [i \in Ips |-> FALSE]
    /\ pc = [t \in Threads |-> "idle"]
    /\ ip = [t \in Threads |-> NoIp]
    /\ now = [t \in Threads |-> 0] /\ level = [t \in Threads |-> 0]
    /\ admitted = [i \in Ips |-> <<>>]
    /\ rejected = {} /\ raced = {}

Tick ==
    /\ clock < MaxTime
    /\ clock' = clock + 1
    /\ rejected' = {}
    /\ UNCHANGED <<tokens, last_refill, initialized, local, raced, admitted>>

-----------------------------------------------------------------------------
Min2(a, b) == IF a <= b THEN a ELSE b

Uncapped(l) == l                         \* mutant
Capped(l) == Min2(l, Max * Period)

\* tokens after a refill of `elapsed' seconds
Refilled(l, elapsed) == Capped(l + elapsed * Max)

CostDouble == 2 * Period                 \* mutant
Cost == Period                           \* one token

\* Clients with a request under way.
Busy == {ip[t] : t \in {s \in Threads : pc[s] # "idle"}}

\* What a request of client i races with: another one of i for i's bucket; any
\* other for the map, if one of them is going to insert a bucket.
Races(i) ==
    IF \E j \in Busy : ~initialized[i] \/ ~initialized[j] THEN Ips
    ELSE Busy \cap {i}

\* auto now = steady_clock::now()
Arrive(t, i) ==
    /\ pc[t] = "idle"
    /\ pc' = [pc EXCEPT ![t] = "refill"]
    /\ ip' = [ip EXCEPT ![t] = i]
    /\ now' = [now EXCEPT ![t] = clock]
    /\ raced' = raced \cup Races(i)
    /\ admitted' = [j \in Ips |-> IF j \in raced' THEN <<>> ELSE admitted[j]]
    /\ rejected' = {r \in rejected : r.ip \notin raced'}
    /\ UNCHANGED <<clock, tokens, last_refill, initialized, level>>

\* Read the bucket (a full one, if it is new) and compute the refill.
Refill(t) ==
    LET i == ip[t] IN
    /\ pc[t] = "refill"
    /\ level' = [level EXCEPT ![t] =
            IF initialized[i] THEN Refilled(tokens[i], now[t] - last_refill[i])
                              ELSE Refilled(Max * Period, 0)]
    /\ pc' = [pc EXCEPT ![t] = "decide"]
    /\ UNCHANGED <<clock, tokens, last_refill, initialized, ip, now, raced, admitted, rejected>>

Leave(t) ==
    /\ pc' = [pc EXCEPT ![t] = "idle"]
    /\ ip' = [ip EXCEPT ![t] = NoIp]
    /\ now' = [now EXCEPT ![t] = 0]
    /\ level' = [level EXCEPT ![t] = 0]

\* At least one token: take it, write the bucket, call next().
Admit(t) ==
    LET i == ip[t] IN
    /\ pc[t] = "decide" /\ level[t] >= Period
    /\ tokens' = [tokens EXCEPT ![i] = level[t] - Cost]
    /\ last_refill' = [last_refill EXCEPT ![i] = now[t]]
    /\ initialized' = [initialized EXCEPT ![i] = TRUE]
    /\ admitted' = IF i \in raced THEN admitted ELSE [admitted EXCEPT ![i] = Append(@, now[t])]
    /\ Leave(t)
    /\ UNCHANGED <<clock, raced, rejected>>

\* 429 Too Many Requests
Reject(t) ==
    LET i == ip[t] IN
    /\ pc[t] = "decide" /\ level[t] < Period
    /\ tokens' = [tokens EXCEPT ![i] = level[t]]
    /\ last_refill' = [last_refill EXCEPT ![i] = now[t]]
    /\ initialized' = [initialized EXCEPT ![i] = TRUE]
    /\ rejected' = IF i \in raced THEN rejected
                   ELSE rejected \cup {[ip |-> i, at |-> now[t], after |-> Len(admitted[i])]}
    /\ Leave(t)
    /\ UNCHANGED <<clock, raced, admitted>>

Next ==
    \/ Tick
    \/ \E t \in Threads :
          \/ \E i \in Ips : Arrive(t, i)
          \/ Refill(t) \/ Admit(t) \/ Reject(t)

Spec == Init /\ [][Next]_vars

-----------------------------------------------------------------------------
(* Properties. *)

\* From any request of a client that passed to any later one, at most a full
\* bucket plus what is refilled meanwhile got through, whatever the pattern of
\* its requests and pauses and on whatever workers, as long as none of them
\* raced: the cap, the refill and the cost of a request fit together.  Within
\* one period that is less than twice the limit, not the limit: see WithinLimit.
BurstPlusRefill ==
    \A i \in Ips : \A k, l \in 1..Len(admitted[i]) :
        k <= l => Period * (l - k + 1)
                     <= Max * Period + Max * (admitted[i][l] - admitted[i][k])

\* A client that stays within its limit is never refused, if its requests did
\* not race: one is turned away only if Max others were let through in the
\* Period before it.
RefusedOnlyOverLimit ==
    \A r \in rejected :
        /\ r.after >= Max
        /\ admitted[r.ip][r.after - Max + 1] > r.at - Period

\* "100 requests per 60 seconds": of more than Max requests that pass, the last
\* is a Period later than the first.  A full bucket is refilled while it is
\* being emptied, and lets more through.
WithinLimit ==
    \A i \in Ips : \A k \in 1..(Len(admitted[i]) - Max) :
        admitted[i][k + Max] - admitted[i][k] >= Period
=============================================================================
