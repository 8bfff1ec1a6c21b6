------------------------------ MODULE Limiter ------------------------------
(***************************************************************************)
(* What store's rate limiter promises its callers, with no table, lock or  *)
(* address in it: in no stretch of time does a bucket pay out more than    *)
(* its capacity and what that stretch refills, a call is told "allowed"    *)
(* only when every bucket it asked has paid, and is told "refused" only    *)
(* when one more payment would have broken that bound.  A call may always  *)
(* fail: a failed call counts as refused (ratelimit.go, ConsumeRateLimit). *)
(* A payment is dated between the call's start and its end.                *)
(***************************************************************************)
EXTENDS Integers, FiniteSets

CONSTANTS Callers, Buckets, Capacity, Rate, MaxTime

VARIABLES now,      \* the server's clock
          paid,     \* paid[b][t]: how often bucket b paid with date t
          want,     \* want[c]: the buckets the current call of c asks, or none
          start,    \* start[c]: when that call began
          verdict   \* what c has been told: "none" while it waits
vars == <<now, paid, want, start, verdict>>

Times == 0 .. MaxTime

\* All that payments f of one bucket make up to a date, and between a and t.
Total(f) == LET T[u \in Times] == IF u = 0 THEN f[0] ELSE T[u - 1] + f[u] IN T

Payout(f, a, t) == Total(f)[t] - Total(f)[a] + f[a]

\* No stretch of time pays out more than it may.
Within(f) == \A a \in Times, t \in Times :
                a <= t => Payout(f, a, t) <= Capacity + Rate * (t - a)

\* One more payment now would be one too many.
Exhausted(f) == ~ Within([f EXCEPT ![now] = @ + 1])

Init == /\ now = 0
        /\ paid = [b \in Buckets |-> [t \in Times |-> 0]]
        /\ want = [c \in Callers |-> {}]
        /\ start = [c \in Callers |-> 0]
        /\ verdict = [c \in Callers |-> "error"]

Tick == /\ now < MaxTime
        /\ now' = now + 1
        /\ UNCHANGED <<paid, want, start, verdict>>

\* A call asks buckets w; it may fail at once.
Ask(c, w) == /\ want[c] = {} /\ w # {}
             /\ \/ /\ want' = [want EXCEPT ![c] = w]
                   /\ start' = [start EXCEPT ![c] = now]
                   /\ verdict' = [verdict EXCEPT ![c] = "none"]
                \/ /\ verdict' = [verdict EXCEPT ![c] = "error"]
                   /\ UNCHANGED <<want, start>>
             /\ UNCHANGED <<now, paid>>

\* The call is over.
Over(c) == /\ want' = [want EXCEPT ![c] = {}]
           /\ start' = [start EXCEPT ![c] = 0]

Refuse(c) == /\ verdict[c] = "none"
             /\ \E b \in want[c] : Exhausted(paid[b])
             /\ verdict' = [verdict EXCEPT ![c] = "refused"]
             /\ UNCHANGED <<now, paid, want, start>>

Fail(c) == /\ want[c] # {}
           /\ verdict' = [verdict EXCEPT ![c] = IF @ = "none" THEN "error" ELSE @]
           /\ Over(c)
           /\ UNCHANGED <<now, paid>>

\* Buckets D pay c, each with its date, all of them at once.  Only a call that
\* every bucket paid may hear so, and it may not hear it.
Pay(c, D, date) ==
  /\ D \subseteq want[c] /\ want[c] # {}
  /\ \A b \in D : date[b] \in start[c] .. now
  /\ paid' = [b \in Buckets |-> IF b \in D THEN [paid[b] EXCEPT ![date[b]] = @ + 1] ELSE paid[b]]
  /\ \A b \in D : Within(paid'[b])
  /\ \/ verdict[c] = "none" /\ D = want[c] /\ verdict' = [verdict EXCEPT ![c] = "allowed"]
     \/ verdict[c] = "none" /\ verdict' = [verdict EXCEPT ![c] = "error"]
     \/ verdict[c] = "refused" /\ UNCHANGED verdict
  /\ Over(c)
  /\ UNCHANGED now

Next == \/ Tick
        \/ \E c \in Callers :
             \/ \E w \in SUBSET Buckets : Ask(c, w)
             \/ Refuse(c)
             \/ Fail(c)
             \/ \E D \in SUBSET want[c] : \E date \in [D -> Times] : Pay(c, D, date)

Spec == Init /\ [][Next]_vars
=============================================================================
