----------------------------- MODULE RateLimitProofs ----------------------------
(***************************************************************************)
(* The table of token buckets implements the limiter it promises to be,    *)
(* for any number of callers, requests, scopes and addresses, any capacity *)
(* and refill: whatever calls wait for each other, fail or lose their      *)
(* answer, and whenever the sweep forgets a row.                           *)
(***************************************************************************)
EXTENDS RateLimit, FiniteSetTheorems, WellFoundedInduction, TLAPS

Times     == Promise!Times
Total(f)  == Promise!Total(f)
Payout(f, a, t) == Promise!Payout(f, a, t)
Within(f) == Promise!Within(f)

-------------------------------------------------------------------------------
(* What has been paid up to a date.                                          *)

\* Among sets of members of a finite set, one contains no other.
LEMMA HasMinimal ==
  ASSUME NEW S, IsFiniteSet(S), NEW T, T \subseteq SUBSET S, T # {}
  PROVE  \E x \in T : \A y \in T : ~(<<y, x>> \in StrictSubsetOrdering(S))
<1>1. IsWellFoundedOn(StrictSubsetOrdering(S), FiniteSubsetsOf(S))
  BY FS_StrictSubsetOrderingWellFounded
<1>2. T \subseteq FiniteSubsetsOf(S)
  BY FS_Subset DEF FiniteSubsetsOf
<1> QED  BY <1>1, <1>2, WFMin

\* Some dates have a first one.
LEMMA HasFirst ==
  ASSUME NEW S \in SUBSET Times, S # {}
  PROVE  \E b \in S : b \in Nat /\ \A c \in S : c \in Nat /\ b <= c
<1> DEFINE Below(b) == {c \in S : c < b}
           Belows   == {Below(b) : b \in S}
<1>1. S \in SUBSET Nat /\ IsFiniteSet(S)
  <2>1. IsFiniteSet(0 .. MaxTime)
    BY RateLimitAssumption, FS_Interval
  <2>2. S \in SUBSET (0 .. MaxTime)
    BY DEF Times, Promise!Times
  <2>3. IsFiniteSet(S)
    BY <2>1, <2>2, FS_Subset
  <2> QED  BY <2>2, <2>3, RateLimitAssumption
<1>2. Belows \subseteq SUBSET S /\ Belows # {}
  OBVIOUS
<1>3. PICK T \in Belows : \A U \in Belows : ~(<<U, T>> \in StrictSubsetOrdering(S))
  <2> HIDE DEF Belows
  <2> QED  BY <1>1, <1>2, HasMinimal
<1>4. PICK b \in S : T = Below(b)
  OBVIOUS
<1>5. ASSUME NEW c \in S, c < b
      PROVE  FALSE
  <2>1. c \in Nat /\ b \in Nat /\ ~(c < c) /\ \A d \in S : d \in Nat /\ (d < c => d < b)
    BY <1>1, <1>5
  <2>2. Below(c) \subseteq Below(b) /\ c \in Below(b) /\ c \notin Below(c)
    BY <1>5, <2>1
  <2>3. Below(c) \in SUBSET S /\ Below(b) \in SUBSET S /\ Below(c) # Below(b)
    BY <2>2
  <2>4. <<Below(c), Below(b)>> \in StrictSubsetOrdering(S)
    <3> HIDE DEF Below
    <3> QED  BY <2>2, <2>3 DEF StrictSubsetOrdering
  <2> QED  BY <1>3, <1>4, <2>4
<1> QED  BY <1>1, <1>5

\* T is the total of f up to date n.
Sums(f, T, n) ==
  /\ T \in [0 .. n -> Nat]
  /\ T[0] = f[0]
  /\ \A u \in 1 .. n : T[u] = T[u - 1] + f[u]

Ledger == [Times -> Nat]

\* There is a total: it could not stop at a first date.
LEMMA TotalSums ==
  ASSUME NEW f \in Ledger
  PROVE  Sums(f, Total(f), MaxTime)
<1>0. MaxTime \in Nat /\ \A u \in 0 .. MaxTime : u \in Nat /\ f[u] \in Nat
  BY RateLimitAssumption DEF Ledger, Times, Promise!Times
<1>1. ASSUME NEW n \in Times
      PROVE  \E T : Sums(f, T, n)
  <2> DEFINE bad == {m \in Times : ~ \E T : Sums(f, T, m)}
  <2>1. CASE bad = {}
    BY <2>1
  <2>2. CASE bad # {}
    <3>1. PICK b \in bad : b \in Nat /\ \A c \in bad : c \in Nat /\ b <= c
      <4> HIDE DEF Sums
      <4>1. bad \in SUBSET Times
        OBVIOUS
      <4> HIDE DEF bad
      <4> QED  BY <2>2, <4>1, HasFirst
    <3>2. CASE b = 0
      <4>1. Sums(f, [u \in 0 .. 0 |-> f[0]], 0)
        BY <1>0 DEF Sums
      <4> QED  BY <3>1, <3>2, <4>1
    <3>3. CASE b # 0
      <4>0. b \in 0 .. MaxTime
        BY <3>1 DEF Times, Promise!Times
      <4>1. b - 1 \in Times /\ b - 1 \in Nat /\ ~(b <= b - 1)
        BY <1>0, <3>1, <3>3, <4>0 DEF Times, Promise!Times
      <4>2. PICK T : Sums(f, T, b - 1)
        BY <3>1, <4>1
      <4>3. PICK U : U = [u \in 0 .. b |-> IF u = b THEN T[b - 1] + f[b] ELSE T[u]]
        OBVIOUS
      <4>4. Sums(f, U, b)
        <5>1. /\ T \in [0 .. b - 1 -> Nat] /\ T[0] = f[0]
              /\ \A u \in 1 .. b - 1 : T[u] = T[u - 1] + f[u]
          BY <4>2 DEF Sums
        <5>2. \A u \in 0 .. b - 1 : U[u] = T[u] /\ U[u] \in Nat
          BY <3>1, <4>1, <4>3, <5>1
        <5>3. U[b] = U[b - 1] + f[b] /\ U[b] \in Nat
          BY <1>0, <3>1, <4>0, <4>1, <4>3, <5>1
        <5>4. U \in [0 .. b -> Nat]
          <6>1. \A u \in 0 .. b : U[u] \in Nat
            BY <3>1, <5>2, <5>3
          <6> QED  BY <4>3, <6>1
        <5>5. ASSUME NEW u \in 1 .. b PROVE U[u] = U[u - 1] + f[u]
          <6>1. CASE u = b
            BY <5>3, <6>1
          <6>2. CASE u # b
            <7>1. u \in 1 .. b - 1 /\ u \in 0 .. b - 1 /\ u - 1 \in 0 .. b - 1
              BY <3>1, <6>2
            <7> QED  BY <5>1, <5>2, <7>1
          <6> QED  BY <6>1, <6>2
        <5>6. U[0] = f[0]
          BY <3>1, <3>3, <5>1, <5>2
        <5> QED  BY <5>4, <5>5, <5>6 DEF Sums
      <4> QED  BY <3>1, <4>4
    <3> QED  BY <3>2, <3>3
  <2> QED  BY <2>1, <2>2
<1>2. PICK T : Sums(f, T, MaxTime)
  BY <1>0, <1>1 DEF Times, Promise!Times
<1>3. T = [u \in Times |-> IF u = 0 THEN f[0] ELSE T[u - 1] + f[u]]
  BY <1>0, <1>2 DEF Sums, Times, Promise!Times
<1>4. Total(f) = [u \in Times |-> IF u = 0 THEN f[0] ELSE Total(f)[u - 1] + f[u]]
  BY <1>3 DEF Total, Promise!Total, Times
<1>5. PICK V : V = Total(f)
  OBVIOUS
<1>6. V = [u \in 0 .. MaxTime |-> IF u = 0 THEN f[0] ELSE V[u - 1] + f[u]]
  BY <1>4, <1>5 DEF Times, Promise!Times
<1>7. V[0] = f[0] /\ \A u \in 1 .. MaxTime : V[u] = V[u - 1] + f[u]
  BY <1>0, <1>6
<1>8. \A u \in Times : V[u] = T[u]
  <2> DEFINE bad == {u \in Times : V[u] # T[u]}
  <2>1. CASE bad # {}
    <3>1. PICK b \in bad : b \in Nat /\ \A c \in bad : c \in Nat /\ b <= c
      <4>1. bad \in SUBSET Times
        OBVIOUS
      <4> HIDE DEF bad
      <4> QED  BY <2>1, <4>1, HasFirst
    <3>2. b # 0 /\ b \in 1 .. MaxTime /\ b - 1 \in Times /\ ~(b <= b - 1)
      BY <1>0, <1>2, <1>7, <3>1 DEF Sums, Times, Promise!Times
    <3>3. V[b - 1] = T[b - 1]
      BY <3>1, <3>2
    <3> QED  BY <1>2, <1>7, <3>1, <3>2, <3>3 DEF Sums
  <2> QED  BY <2>1
<1>9. V \in [0 .. MaxTime -> Nat]
  <2>1. \A u \in 0 .. MaxTime : V[u] \in Nat
    BY <1>2, <1>8 DEF Sums, Times, Promise!Times
  <2>2. DOMAIN V = 0 .. MaxTime /\ V = [u \in 0 .. MaxTime |-> V[u]]
    BY <1>6
  <2> QED  BY <2>1, <2>2
<1> QED  BY <1>5, <1>7, <1>9 DEF Sums

\* f with one more payment at date d.
Paying(f, d) == [f EXCEPT ![d] = @ + 1]

\* Dates are natural numbers.
LEMMA TimesAreNumbers ==
  /\ MaxTime \in Nat /\ \A t \in Times : t \in Nat /\ t <= MaxTime
  /\ \A t \in Times : t # 0 => t - 1 \in Times /\ t \in 1 .. MaxTime
  BY RateLimitAssumption DEF Times, Promise!Times

\* One more payment raises the totals from its date on.
LEMMA TotalRises ==
  ASSUME NEW f \in Ledger, NEW d \in Times
  PROVE  /\ Paying(f, d) \in Ledger
         /\ \A u \in Times : Total(Paying(f, d))[u] = Total(f)[u] + (IF u >= d THEN 1 ELSE 0)
<1>1. PICK g : g = Paying(f, d)
  OBVIOUS
<1>2. g \in Ledger /\ \A u \in Times : g[u] = IF u = d THEN f[u] + 1 ELSE f[u]
  BY <1>1, TimesAreNumbers DEF Paying, Ledger
<1>3. PICK V, W : V = Total(f) /\ W = Total(g)
  OBVIOUS
<1>4. Sums(f, V, MaxTime) /\ Sums(g, W, MaxTime)
  BY <1>2, <1>3, TotalSums
<1>5. \A u \in Times : V[u] \in Nat /\ W[u] \in Nat /\ f[u] \in Nat
  BY <1>4, TimesAreNumbers DEF Sums, Ledger, Times, Promise!Times
<1>6. \A u \in Times : W[u] = V[u] + (IF u >= d THEN 1 ELSE 0)
  <2> DEFINE bad == {u \in Times : W[u] # V[u] + (IF u >= d THEN 1 ELSE 0)}
  <2>1. CASE bad # {}
    <3>1. PICK b \in bad : b \in Nat /\ \A c \in bad : c \in Nat /\ b <= c
      <4>1. bad \in SUBSET Times
        OBVIOUS
      <4> HIDE DEF bad
      <4> QED  BY <2>1, <4>1, HasFirst
    <3>2. b # 0
      <4>1. W[0] = g[0] /\ V[0] = f[0]
        BY <1>4 DEF Sums
      <4> QED  BY <1>2, <1>5, <3>1, <4>1, TimesAreNumbers
    <3>3. b - 1 \in Times /\ b \in 1 .. MaxTime /\ ~(b <= b - 1)
      BY <3>1, <3>2, TimesAreNumbers
    <3>4. W[b - 1] = V[b - 1] + (IF b - 1 >= d THEN 1 ELSE 0)
      BY <3>1, <3>3
    <3>5. W[b] = W[b - 1] + g[b] /\ V[b] = V[b - 1] + f[b]
      BY <1>4, <3>3 DEF Sums
    <3>6. W[b] = V[b] + (IF b >= d THEN 1 ELSE 0)
      <4>1. b \in Nat /\ d \in Nat /\ V[b - 1] \in Nat /\ f[b] \in Nat /\ g[b] = IF b = d THEN f[b] + 1 ELSE f[b]
        BY <1>2, <1>5, <3>1, <3>3, TimesAreNumbers
      <4> QED  BY <3>4, <3>5, <4>1
    <3> QED  BY <3>1, <3>6
  <2> QED  BY <2>1
<1> QED  BY <1>1, <1>2, <1>3, <1>6

\* After the last payment the total rests.
LEMMA TotalRests ==
  ASSUME NEW f \in Ledger, NEW p \in Times, \A t \in Times : t > p => f[t] = 0
  PROVE  \A u \in Times : u >= p => Total(f)[u] = Total(f)[p]
<1>1. PICK V : V = Total(f)
  OBVIOUS
<1>2. Sums(f, V, MaxTime)
  BY <1>1, TotalSums
<1>3. \A u \in Times : V[u] \in Nat
  BY <1>2 DEF Sums, Times, Promise!Times
<1> DEFINE bad == {u \in Times : u >= p /\ V[u] # V[p]}
<1>4. CASE bad # {}
  <2>1. PICK b \in bad : b \in Nat /\ \A c \in bad : c \in Nat /\ b <= c
    <3>1. bad \in SUBSET Times
      OBVIOUS
    <3> HIDE DEF bad
    <3> QED  BY <1>4, <3>1, HasFirst
  <2>2. b > p /\ p \in Nat
    BY <2>1, TimesAreNumbers
  <2>3. b - 1 \in Times /\ b \in 1 .. MaxTime /\ ~(b <= b - 1) /\ b - 1 >= p
    BY <2>1, <2>2, TimesAreNumbers
  <2>4. V[b - 1] = V[p] /\ f[b] = 0
    BY <2>1, <2>2, <2>3
  <2>5. V[b] = V[b - 1] + f[b]
    BY <1>2, <2>3 DEF Sums
  <2> QED  BY <1>3, <2>1, <2>3, <2>4, <2>5
<1> QED  BY <1>1, <1>4

\* What a stretch of time has paid.
LEMMA PayoutIs ==
  ASSUME NEW f \in Ledger
  PROVE  \A a, t \in Times : Payout(f, a, t) \in Int /\ Payout(f, a, a) = f[a]
<1>1. PICK V : V = Total(f)
  OBVIOUS
<1>2. \A u \in Times : V[u] \in Nat /\ f[u] \in Nat
  BY <1>1, TotalSums DEF Sums, Times, Promise!Times, Ledger
<1>3. \A a, t : Payout(f, a, t) = V[t] - V[a] + f[a]
  BY <1>1 DEF Payout, Promise!Payout, Total
<1> QED  BY <1>2, <1>3

\* One more payment counts in every stretch that holds its date, and in no other.
LEMMA PayoutRises ==
  ASSUME NEW f \in Ledger, NEW d \in Times
  PROVE  \A a, t \in Times :
           a <= t => Payout(Paying(f, d), a, t) = Payout(f, a, t) + (IF a <= d /\ d <= t THEN 1 ELSE 0)
<1>1. PICK g : g = Paying(f, d)
  OBVIOUS
<1>2. PICK V, W : V = Total(f) /\ W = Total(g)
  OBVIOUS
<1>3. \A u \in Times : W[u] = V[u] + (IF u >= d THEN 1 ELSE 0)
  BY <1>1, <1>2, TotalRises
<1>4. \A u \in Times : V[u] \in Nat /\ f[u] \in Nat /\ u \in Nat
  BY <1>2, TotalSums, TimesAreNumbers DEF Sums, Times, Promise!Times, Ledger
<1>5. \A u \in Times : g[u] = IF u = d THEN f[u] + 1 ELSE f[u]
  BY <1>1 DEF Paying, Ledger
<1>6. \A a, t : Payout(f, a, t) = V[t] - V[a] + f[a] /\ Payout(g, a, t) = W[t] - W[a] + g[a]
  BY <1>2 DEF Payout, Promise!Payout, Total
<1>7. ASSUME NEW a \in Times, NEW t \in Times, a <= t
      PROVE  Payout(g, a, t) = Payout(f, a, t) + (IF a <= d /\ d <= t THEN 1 ELSE 0)
  <2>1. PICK va, vt, fa : va = V[a] /\ vt = V[t] /\ fa = f[a]
    OBVIOUS
  <2>2. va \in Nat /\ vt \in Nat /\ fa \in Nat /\ a \in Nat /\ t \in Nat /\ d \in Nat
    BY <1>4, <2>1
  <2>3. /\ W[a] = va + (IF a >= d THEN 1 ELSE 0) /\ W[t] = vt + (IF t >= d THEN 1 ELSE 0)
        /\ g[a] = fa + (IF a = d THEN 1 ELSE 0)
    BY <1>3, <1>5, <2>1, <2>2
  <2>4. Payout(f, a, t) = vt - va + fa /\ Payout(g, a, t) = W[t] - W[a] + g[a]
    BY <1>6, <2>1
  <2> QED  BY <1>7, <2>2, <2>3, <2>4
<1> QED  BY <1>1, <1>7

\* Where nothing is paid any more, a stretch's payments do not grow.
LEMMA PayoutRests ==
  ASSUME NEW f \in Ledger, NEW p \in Times, \A t \in Times : t > p => f[t] = 0
  PROVE  \A a, t \in Times : t >= p /\ a <= t =>
           Payout(f, a, t) = IF a <= p THEN Payout(f, a, p) ELSE 0
<1>1. PICK V : V = Total(f)
  OBVIOUS
<1>2. \A u \in Times : V[u] \in Nat /\ f[u] \in Nat /\ u \in Nat
  BY <1>1, TotalSums, TimesAreNumbers DEF Sums, Times, Promise!Times, Ledger
<1>3. \A a, t : Payout(f, a, t) = V[t] - V[a] + f[a]
  BY <1>1 DEF Payout, Promise!Payout, Total
<1>4. \A u \in Times : u >= p => V[u] = V[p]
  BY <1>1, TotalRests
<1>5. ASSUME NEW a \in Times, NEW t \in Times, t >= p, a <= t
      PROVE  Payout(f, a, t) = IF a <= p THEN Payout(f, a, p) ELSE 0
  <2>1. CASE a <= p
    BY <1>3, <1>4, <1>5, <2>1
  <2>2. CASE ~(a <= p)
    <3>1. V[a] = V[p] /\ V[t] = V[p] /\ f[a] = 0 /\ V[p] \in Nat
      BY <1>2, <1>4, <1>5, <2>2
    <3> QED  BY <1>3, <2>2, <3>1
  <2> QED  BY <2>1, <2>2
<1> QED  BY <1>5

-------------------------------------------------------------------------------
(* One bucket and its row.                                                   *)

\* What a bucket regains in a time; products are kept out of what follows.
Earned(n) == Rate * n

\* What a stretch of time refills: a multiple of the rate, more the longer.
LEMMA EarnedIs ==
  /\ Earned(0) = 0
  /\ \A x \in Int : Earned(x) \in Int /\ Earned(x + 1) = Earned(x) + Rate
  /\ \A x, y \in Int : Earned(x + y) = Earned(x) + Earned(y)
  /\ \A x \in Nat : Earned(x) >= x
  /\ \A x, y \in Int : x <= y => Earned(x) <= Earned(y)
  BY RateLimitAssumption DEF Earned

\* What is regained from one date to another.
LEMMA EarnedSince ==
  \A a, t \in Times : /\ Earned(t - a) \in Int
                      /\ a <= t => Earned(t - a) >= 0
                      /\ a = t => Earned(t - a) = 0
                      /\ a < t => Earned(t - a) >= 1
                      /\ \A u \in Times : t <= u => Earned(t - a) <= Earned(u - a)
<1> SUFFICES ASSUME NEW a \in Times, NEW t \in Times, NEW u \in Times
             PROVE  /\ Earned(t - a) \in Int
                    /\ a <= t => Earned(t - a) >= 0
                    /\ a = t => Earned(t - a) = 0
                    /\ a < t => Earned(t - a) >= 1
                    /\ t <= u => Earned(t - a) <= Earned(u - a)
  OBVIOUS
<1>1. a \in Nat /\ t \in Nat /\ u \in Nat
  BY TimesAreNumbers
<1>2. PICK d, e : d = t - a /\ e = u - a
  OBVIOUS
<1>3. d \in Int /\ e \in Int
  BY <1>1, <1>2
<1>4. /\ Earned(d) \in Int
      /\ d >= 0 => Earned(d) >= d
      /\ d = 0 => Earned(d) = 0
      /\ d <= e => Earned(d) <= Earned(e)
  <2>1. d >= 0 => d \in Nat
    BY <1>3
  <2> QED  BY <1>3, <2>1, EarnedIs
<1> QED  BY <1>1, <1>2, <1>3, <1>4

Row == [tokens : 0 .. Capacity - 1, at : Times]

\* The tokens of a row at a date, before the cap of its capacity.
Level(row, now) == row.tokens + Earned(now - row.at)

\* What a statement reads is the row's level, capped.
LEMMA RefilledIs ==
  ASSUME NEW row \in Row, NEW now \in Times
  PROVE  Level(row, now) \in Int /\ Refilled(row, now) = Lesser(Capacity, Level(row, now))
<1>1. row.tokens \in Int /\ row.at \in Int /\ now \in Int /\ Capacity \in Nat /\ Rate \in Nat
  BY RateLimitAssumption, TimesAreNumbers DEF Row
<1>2. (now - row.at) * Rate = Rate * (now - row.at)
  BY <1>1
<1> QED  BY <1>1, <1>2, EarnedIs DEF Refilled, Level, Earned

\* No row: whatever was paid, the bucket has been full again for a while.
FullAgain(f, now) ==
  \A a \in Times : a <= now => Payout(f, a, now) <= 0 \/ Payout(f, a, now) < Earned(now - a)

\* A row that tells what is left: for no stretch too much, and when it is less than
\* all, for some stretch exactly. Once no statement begun before it can be waiting, the
\* first part holds with a token to spare; it is what lets the row be forgotten.
Spare(row, now) == IF now - row.at > MaxWait THEN 1 ELSE 0
NotTooMuch(row, f, now) ==
  \A a \in Times : a <= row.at =>
    Payout(f, a, now) + Lesser(Capacity + Spare(row, now), Level(row, now)) <= Capacity + Earned(now - a)
NotTooLittle(row, f, now) ==
  \/ Refilled(row, now) = Capacity
  \/ \E a \in Times : /\ a <= row.at
                      /\ Payout(f, a, now) + Refilled(row, now) = Capacity + Earned(now - a)

Tells(row, f, now) ==
  /\ row \in Row /\ row.at <= now
  /\ \A t \in Times : t > row.at => f[t] = 0
  /\ NotTooMuch(row, f, now) /\ NotTooLittle(row, f, now)

Fits(row, f, now) ==
  /\ \A t \in Times : t > now => f[t] = 0
  /\ IF row = NoRow THEN FullAgain(f, now) ELSE Tells(row, f, now)

\* A bucket nobody has asked yet.
LEMMA FreshFits ==
  ASSUME NEW f, f = [t \in Times |-> 0], NEW now \in Times
  PROVE  Fits(NoRow, f, now) /\ Within(f) /\ f \in Ledger
<1>1. f \in Ledger /\ \A t \in Times : f[t] = 0
  BY DEF Ledger
<1>2. 0 \in Times /\ MaxTime \in Nat
  BY TimesAreNumbers DEF Times, Promise!Times
<1>3. \A a, t \in Times : a <= t => Payout(f, a, t) = 0
  <2>1. \A a, t \in Times : t >= 0 /\ a <= t => Payout(f, a, t) = IF a <= 0 THEN Payout(f, a, 0) ELSE 0
    BY <1>1, <1>2, PayoutRests
  <2>2. Payout(f, 0, 0) = 0
    BY <1>1, <1>2, PayoutIs
  <2>3. \A a \in Times : a <= 0 => a = 0
    BY TimesAreNumbers
  <2> QED  BY <2>1, <2>2, <2>3, TimesAreNumbers
<1>4. Within(f)
  <2> SUFFICES ASSUME NEW a \in Times, NEW t \in Times, a <= t
               PROVE  Payout(f, a, t) <= Capacity + Earned(t - a)
    BY DEF Within, Promise!Within, Payout, Times, Earned
  <2>1. t - a \in Nat
    BY TimesAreNumbers
  <2>2. Earned(t - a) \in Int /\ Earned(t - a) >= t - a
    BY <2>1, EarnedIs
  <2> QED  BY <1>3, <2>1, <2>2, RateLimitAssumption
<1> QED  BY <1>1, <1>3, <1>4 DEF Fits, FullAgain

\* Time passes: what a bucket regains, its row shows.
LEMMA TimeFits ==
  ASSUME NEW row, NEW f \in Ledger, NEW now \in Times, now + 1 \in Times, Fits(row, f, now)
  PROVE  Fits(row, f, now + 1)
<1>0. now \in Nat /\ Capacity \in Nat /\ Rate \in Nat /\ Rate >= 1 /\ MaxWait \in Nat
  BY RateLimitAssumption, TimesAreNumbers
<1>1. \A t \in Times : t > now => f[t] = 0
  BY DEF Fits
<1>2. \A a \in Times : a <= now + 1 =>
        Payout(f, a, now + 1) = IF a <= now THEN Payout(f, a, now) ELSE 0
  BY <1>0, <1>1, PayoutRests
<1>3. \A a \in Times : /\ Earned((now + 1) - a) = Earned(now - a) + Rate
                       /\ Earned(now - a) \in Int /\ a \in Nat
  <2> SUFFICES ASSUME NEW a \in Times
               PROVE  /\ Earned((now + 1) - a) = Earned(now - a) + Rate
                      /\ Earned(now - a) \in Int /\ a \in Nat
    OBVIOUS
  <2>1. a \in Nat /\ now - a \in Int /\ (now + 1) - a = (now - a) + 1
    BY <1>0, TimesAreNumbers
  <2> QED  BY <2>1, EarnedIs
<1>4. \A a \in Times : Payout(f, a, now) \in Int
  BY PayoutIs
<1>5. CASE row = NoRow
  <2>1. FullAgain(f, now)
    BY <1>5 DEF Fits
  <2>2. ASSUME NEW a \in Times, a <= now + 1
        PROVE  Payout(f, a, now + 1) <= 0 \/ Payout(f, a, now + 1) < Earned((now + 1) - a)
    BY <1>0, <1>2, <1>3, <1>4, <2>1, <2>2 DEF FullAgain
  <2>3. FullAgain(f, now + 1)
    BY <2>2 DEF FullAgain
  <2> QED  BY <1>0, <1>1, <1>5, <2>3, TimesAreNumbers DEF Fits
<1>6. CASE row # NoRow
  <2>1. Tells(row, f, now)
    BY <1>6 DEF Fits
  <2>2. PICK at \in Times : at = row.at
    BY <2>1 DEF Tells, Row
  <2>3. PICK v, w : v = Level(row, now) /\ w = Level(row, now + 1)
    OBVIOUS
  <2>4. row \in Row /\ at <= now /\ at \in Nat
    BY <2>1, <2>2, TimesAreNumbers DEF Tells
  <2>5. v \in Int /\ w = v + Rate
    <3>1. row.tokens \in Int
      BY <2>4 DEF Row
    <3>2. PICK e, d : e = Earned(now - at) /\ d = Earned((now + 1) - at)
      OBVIOUS
    <3>3. e \in Int /\ d = e + Rate
      BY <1>3, <3>2
    <3>4. v = row.tokens + e /\ w = row.tokens + d
      BY <2>2, <2>3, <3>2 DEF Level
    <3> QED  BY <1>0, <3>1, <3>3, <3>4
  <2>6. /\ Refilled(row, now) = Lesser(Capacity, v)
        /\ Refilled(row, now + 1) = Lesser(Capacity, w)
    BY <2>3, <2>4, RefilledIs
  <2>7. NotTooMuch(row, f, now + 1)
    <3> SUFFICES ASSUME NEW a \in Times, a <= at
                 PROVE  Payout(f, a, now + 1) + Lesser(Capacity + Spare(row, now + 1), w)
                          <= Capacity + Earned((now + 1) - a)
      BY <2>2, <2>3 DEF NotTooMuch
    <3>1. Payout(f, a, now) + Lesser(Capacity + Spare(row, now), v) <= Capacity + Earned(now - a)
      BY <2>1, <2>2, <2>3 DEF Tells, NotTooMuch
    <3>2. Payout(f, a, now + 1) = Payout(f, a, now)
      BY <1>0, <1>2, <1>3, <2>4
    <3>3. Spare(row, now) \in {0, 1} /\ Spare(row, now + 1) \in {0, 1}
      BY DEF Spare
    <3>4. Lesser(Capacity + Spare(row, now + 1), w) <= Lesser(Capacity + Spare(row, now), v) + Rate
      BY <1>0, <2>5, <3>3 DEF Lesser
    <3>5. PICK p, q, x, y : /\ p = Payout(f, a, now) /\ q = Earned(now - a)
                            /\ x = Lesser(Capacity + Spare(row, now), v)
                            /\ y = Lesser(Capacity + Spare(row, now + 1), w)
      OBVIOUS
    <3>6. p \in Int /\ q \in Int /\ x \in Int /\ y \in Int
      BY <1>0, <1>3, <1>4, <2>5, <3>3, <3>5 DEF Lesser
    <3> QED  BY <1>0, <1>3, <3>1, <3>2, <3>4, <3>5, <3>6
  <2>8. NotTooLittle(row, f, now + 1)
    <3>1. CASE v + Rate >= Capacity
      BY <1>0, <2>5, <2>6, <3>1 DEF NotTooLittle, Lesser
    <3>2. CASE ~(v + Rate >= Capacity)
      <4>1. Refilled(row, now) = v /\ Refilled(row, now + 1) = v + Rate /\ v # Capacity
        BY <1>0, <2>5, <2>6, <3>2 DEF Lesser
      <4>2. PICK a \in Times : a <= row.at /\ Payout(f, a, now) + v = Capacity + Earned(now - a)
        BY <2>1, <4>1 DEF Tells, NotTooLittle
      <4>3. Payout(f, a, now + 1) = Payout(f, a, now)
        BY <1>0, <1>2, <1>3, <2>2, <2>4, <4>2
      <4>4. Payout(f, a, now + 1) + (v + Rate) = Capacity + Earned((now + 1) - a)
        BY <1>0, <1>3, <1>4, <2>5, <4>2, <4>3
      <4> QED  BY <4>1, <4>2, <4>4 DEF NotTooLittle
    <3> QED  BY <3>1, <3>2
  <2>9. Tells(row, f, now + 1)
    BY <1>0, <2>1, <2>2, <2>4, <2>7, <2>8 DEF Tells
  <2> QED  BY <1>0, <1>1, <1>6, <2>9, TimesAreNumbers DEF Fits
<1> QED  BY <1>5, <1>6

\* A row the sweep may forget has been full again for a while, and was last
\* paid from before any statement began that may still wait for it.
LEMMA ForgottenFits ==
  ASSUME NEW row, NEW f \in Ledger, NEW now \in Times, row # NoRow, Fits(row, f, now),
         row.at < now - Retention
  PROVE  Fits(NoRow, f, now) /\ \A t \in Times : t >= now - MaxWait => f[t] = 0
<1>0. /\ now \in Nat /\ Capacity \in Nat /\ Rate \in Nat /\ Rate >= 1
      /\ MaxWait \in Nat /\ Retention \in Nat /\ MaxWait < Retention
  BY RateLimitAssumption, TimesAreNumbers
<1>1. Tells(row, f, now) /\ \A t \in Times : t > now => f[t] = 0
  BY DEF Fits
<1>2. PICK at \in Times : at = row.at
  BY <1>1 DEF Tells, Row
<1>3. at \in Nat /\ at < now - Retention /\ row \in Row /\ \A t \in Times : t > at => f[t] = 0
  BY <1>1, <1>2, TimesAreNumbers DEF Tells
<1>4. Level(row, now) \in Int /\ Level(row, now) >= Capacity + 1
  <2>1. row.tokens \in Nat
    BY <1>3, RateLimitAssumption DEF Row
  <2>2. PICK e, d : e = Earned(now - at) /\ d = Earned(Retention + 1)
    OBVIOUS
  <2>3. d = Earned(Retention) + Rate /\ Earned(Retention) >= Capacity /\ Earned(Retention) \in Int
    <3>1. Earned(Retention) >= Capacity
      BY RateLimitAssumption DEF Earned
    <3> QED  BY <1>0, <2>2, <3>1, EarnedIs
  <2>4. d <= e /\ e \in Int
    <3>1. Retention + 1 <= now - at /\ Retention + 1 \in Int /\ now - at \in Int
      BY <1>0, <1>3
    <3> QED  BY <2>2, <3>1, EarnedIs
  <2>5. Level(row, now) = row.tokens + e
    BY <1>2, <2>2 DEF Level
  <2> QED  BY <1>0, <2>1, <2>3, <2>4, <2>5
<1>5. Spare(row, now) = 1
  BY <1>0, <1>2, <1>3 DEF Spare
<1>6. FullAgain(f, now)
  <2> SUFFICES ASSUME NEW a \in Times, a <= now
               PROVE  Payout(f, a, now) <= 0 \/ Payout(f, a, now) < Earned(now - a)
    BY DEF FullAgain
  <2>0. a \in Nat /\ Payout(f, a, now) \in Int /\ Earned(now - a) \in Int
    BY TimesAreNumbers, PayoutIs, EarnedSince
  <2>1. CASE a <= at
    <3>1. Payout(f, a, now) + Lesser(Capacity + 1, Level(row, now)) <= Capacity + Earned(now - a)
      BY <1>1, <1>2, <1>5, <2>1 DEF Tells, NotTooMuch
    <3>2. Lesser(Capacity + 1, Level(row, now)) = Capacity + 1
      BY <1>0, <1>4 DEF Lesser
    <3> QED  BY <1>0, <2>0, <3>1, <3>2
  <2>2. CASE ~(a <= at)
    <3>1. Payout(f, a, now) = 0
      BY <1>0, <1>3, <2>2, PayoutRests
    <3> QED  BY <3>1
  <2> QED  BY <2>1, <2>2
<1> QED  BY <1>0, <1>1, <1>3, <1>6, TimesAreNumbers DEF Fits

\* What holds of a payment: the row it leaves tells it, and no stretch has paid
\* too much.
Pays(row, f, now) == Fits(row, Paying(f, row.at), now) /\ Within(Paying(f, row.at))

\* A payment from a row, dated now.
LEMMA UpdatePays ==
  ASSUME NEW row, NEW f \in Ledger, NEW now \in Times, row # NoRow, Fits(row, f, now),
         Within(f), Refilled(row, now) >= 1
  PROVE  /\ [tokens |-> Refilled(row, now) - 1, at |-> now] \in Row
         /\ Pays([tokens |-> Refilled(row, now) - 1, at |-> now], f, now)
<1>0. now \in Nat /\ Capacity \in Nat /\ Capacity >= 1 /\ Rate \in Nat /\ MaxWait \in Nat
  BY RateLimitAssumption, TimesAreNumbers
<1>1. Tells(row, f, now) /\ \A t \in Times : t > now => f[t] = 0
  BY DEF Fits
<1>2. PICK at \in Times : at = row.at
  BY <1>1 DEF Tells, Row
<1>3. row \in Row /\ at \in Nat /\ at <= now /\ \A t \in Times : t > at => f[t] = 0
  BY <1>1, <1>2, TimesAreNumbers DEF Tells
<1>4. PICK v : v = Refilled(row, now)
  OBVIOUS
<1>5. /\ v = Lesser(Capacity, Level(row, now)) /\ Level(row, now) \in Int
      /\ v \in Nat /\ v >= 1 /\ v <= Capacity
  BY <1>0, <1>3, <1>4, RefilledIs DEF Lesser
<1>6. PICK new : new = [tokens |-> v - 1, at |-> now]
  OBVIOUS
<1>7. new \in Row /\ new.at = now /\ new.tokens = v - 1 /\ new # NoRow
  <2>1. new \in Row
    BY <1>0, <1>5, <1>6 DEF Row
  <2>2. NoRow.tokens = -1
    BY DEF NoRow
  <2> QED  BY <1>5, <1>6, <2>1, <2>2
<1>8. PICK g : g = Paying(f, now)
  OBVIOUS
<1>9. /\ g \in Ledger /\ \A t \in Times : t > now => g[t] = 0
  <2>1. \A t \in Times : t > now => t # now
    BY <1>0
  <2> QED  BY <1>1, <1>8, <2>1, TotalRises DEF Paying, Ledger
<1>10. \A a \in Times : a <= now => /\ Payout(g, a, now) = Payout(f, a, now) + 1
                                    /\ Payout(f, a, now) \in Int /\ a \in Nat
                                    /\ Earned(now - a) \in Int /\ Earned(now - a) >= 0
  <2> SUFFICES ASSUME NEW a \in Times, a <= now
               PROVE  /\ Payout(g, a, now) = Payout(f, a, now) + 1
                      /\ Payout(f, a, now) \in Int /\ a \in Nat
                      /\ Earned(now - a) \in Int /\ Earned(now - a) >= 0
    OBVIOUS
  <2>1. a \in Nat
    BY TimesAreNumbers
  <2>2. Earned(now - a) \in Int /\ Earned(now - a) >= 0
    BY EarnedSince
  <2>3. Payout(g, a, now) = Payout(f, a, now) + 1
    BY <1>0, <1>8, <2>1, PayoutRises
  <2> QED  BY <2>1, <2>2, <2>3, PayoutIs
<1>11. Level(new, now) = v - 1 /\ Refilled(new, now) = v - 1 /\ Spare(new, now) = 0
  <2>1. now - now = 0
    BY <1>0
  <2>2. Level(new, now) = v - 1
    BY <1>5, <1>7, <2>1, EarnedIs DEF Level
  <2>3. Refilled(new, now) = v - 1
    BY <1>0, <1>5, <1>7, <2>2, RefilledIs DEF Lesser
  <2> QED  BY <1>0, <1>7, <2>1, <2>2, <2>3 DEF Spare
\* Before the payment no stretch up to now left less than the row says.
<1>12. \A a \in Times : a <= now => Payout(f, a, now) + v <= Capacity + Earned(now - a)
  <2> SUFFICES ASSUME NEW a \in Times, a <= now
               PROVE  Payout(f, a, now) + v <= Capacity + Earned(now - a)
    OBVIOUS
  <2>0. Payout(f, a, now) \in Int /\ a \in Nat /\ Earned(now - a) \in Int /\ Earned(now - a) >= 0
    BY <1>10
  <2>1. CASE a <= at
    <3>1. Payout(f, a, now) + Lesser(Capacity + Spare(row, now), Level(row, now)) <= Capacity + Earned(now - a)
      BY <1>1, <1>2, <2>1 DEF Tells, NotTooMuch
    <3>2. Spare(row, now) \in {0, 1}
      BY DEF Spare
    <3>3. v <= Lesser(Capacity + Spare(row, now), Level(row, now))
          /\ Lesser(Capacity + Spare(row, now), Level(row, now)) \in Int
      BY <1>0, <1>5, <3>2 DEF Lesser
    <3> QED  BY <1>0, <1>5, <2>0, <3>1, <3>3
  <2>2. CASE ~(a <= at)
    <3>1. Payout(f, a, now) = 0
      BY <1>3, <2>2, PayoutRests
    <3> QED  BY <1>0, <1>5, <2>0, <3>1
  <2> QED  BY <2>1, <2>2
<1>13. NotTooMuch(new, g, now)
  <2> SUFFICES ASSUME NEW a \in Times, a <= now
               PROVE  Payout(g, a, now) + Lesser(Capacity + 0, v - 1) <= Capacity + Earned(now - a)
    BY <1>7, <1>11 DEF NotTooMuch
  <2>1. Lesser(Capacity + 0, v - 1) = v - 1
    BY <1>0, <1>5 DEF Lesser
  <2> QED  BY <1>0, <1>5, <1>10, <1>12, <2>1
<1>14. NotTooLittle(new, g, now)
  <2>1. CASE v = Capacity
    <3>1. Payout(f, now, now) = f[now] /\ f[now] \in Nat /\ Earned(now - now) = 0
      BY PayoutIs, EarnedSince DEF Ledger
    <3>2. Payout(f, now, now) + v <= Capacity + Earned(now - now) /\ Payout(g, now, now) = Payout(f, now, now) + 1
      BY <1>0, <1>10, <1>12
    <3>3. Payout(g, now, now) + (v - 1) = Capacity + Earned(now - now)
      BY <1>0, <1>5, <2>1, <3>1, <3>2
    <3>4. now <= new.at
      BY <1>0, <1>7
    <3> QED  BY <1>11, <3>3, <3>4 DEF NotTooLittle
  <2>2. CASE v # Capacity
    <3>1. PICK a \in Times : a <= at /\ Payout(f, a, now) + v = Capacity + Earned(now - a)
      BY <1>1, <1>2, <1>4, <2>2 DEF Tells, NotTooLittle
    <3>2. a <= now /\ a <= new.at
      BY <1>0, <1>3, <1>7, <3>1, TimesAreNumbers
    <3>3. Payout(g, a, now) + (v - 1) = Capacity + Earned(now - a)
      BY <1>0, <1>5, <1>10, <3>1, <3>2
    <3> QED  BY <1>11, <3>2, <3>3 DEF NotTooLittle
  <2> QED  BY <2>1, <2>2
<1>15. Fits(new, g, now)
  BY <1>0, <1>7, <1>9, <1>13, <1>14 DEF Fits, Tells
<1>16. Within(g)
  <2> SUFFICES ASSUME NEW a \in Times, NEW t \in Times, a <= t
               PROVE  Payout(g, a, t) <= Capacity + Earned(t - a)
    BY DEF Within, Promise!Within, Payout, Times, Earned
  <2>0. a \in Nat /\ t \in Nat /\ t - a \in Nat
    BY TimesAreNumbers
  <2>1. CASE t < now
    <3>1. Payout(g, a, t) = Payout(f, a, t)
      BY <1>0, <1>8, <2>0, <2>1, PayoutRises, PayoutIs
    <3>2. Payout(f, a, t) <= Capacity + Earned(t - a)
      BY DEF Within, Promise!Within, Payout, Times, Earned
    <3> QED  BY <3>1, <3>2
  <2>2. CASE ~(t < now) /\ a <= now
    <3>1. Payout(g, a, t) = Payout(g, a, now)
      BY <1>0, <1>9, <2>0, <2>2, PayoutRests
    <3>2. Payout(g, a, now) <= Capacity + Earned(now - a)
      BY <1>0, <1>5, <1>10, <1>12, <2>2
    <3>3. Earned(now - a) <= Earned(t - a) /\ Earned(now - a) \in Int /\ Earned(t - a) \in Int
      BY <1>0, <2>0, <2>2, EarnedSince
    <3>4. Payout(g, a, now) \in Int
      BY <1>9, PayoutIs
    <3> QED  BY <1>0, <3>1, <3>2, <3>3, <3>4
  <2>3. CASE ~(a <= now)
    <3>1. Payout(g, a, t) = 0
      BY <1>0, <1>9, <2>0, <2>3, PayoutRests
    <3>2. Earned(t - a) \in Int /\ Earned(t - a) >= 0
      BY EarnedSince
    <3> QED  BY <1>0, <2>0, <3>1, <3>2
  <2> QED  BY <2>1, <2>2, <2>3
<1> QED  BY <1>4, <1>6, <1>7, <1>8, <1>15, <1>16 DEF Pays

\* A payment that makes the row, dated when its statement began.
LEMMA InsertPays ==
  ASSUME NEW f \in Ledger, NEW now \in Times, NEW asked \in Times, Fits(NoRow, f, now), Within(f),
         asked <= now, now - asked <= MaxWait, \A t \in Times : t >= asked => f[t] = 0
  PROVE  /\ [tokens |-> Capacity - 1, at |-> asked] \in Row
         /\ Pays([tokens |-> Capacity - 1, at |-> asked], f, now)
<1>0. /\ now \in Nat /\ asked \in Nat /\ Capacity \in Nat /\ Capacity >= 1
      /\ Rate \in Nat /\ Rate >= 1 /\ MaxWait \in Nat
  BY RateLimitAssumption, TimesAreNumbers
<1>1. FullAgain(f, now)
  BY DEF Fits
<1>2. PICK new : new = [tokens |-> Capacity - 1, at |-> asked]
  OBVIOUS
<1>3. new \in Row /\ new.at = asked /\ new.tokens = Capacity - 1 /\ new # NoRow
  <2>1. new \in Row
    BY <1>0, <1>2 DEF Row
  <2>2. NoRow.tokens = -1
    BY DEF NoRow
  <2> QED  BY <1>0, <1>2, <2>1, <2>2
<1>4. PICK g : g = Paying(f, asked)
  OBVIOUS
<1>5. g \in Ledger /\ \A t \in Times : t > asked => g[t] = 0
  <2>1. \A t \in Times : t > asked => t # asked /\ t >= asked
    BY <1>0, TimesAreNumbers
  <2> QED  BY <1>4, <2>1, TotalRises DEF Paying, Ledger
<1>6. \A a \in Times : a <= asked => /\ Payout(g, a, now) = Payout(f, a, now) + 1
                                     /\ Payout(f, a, now) \in Int /\ a \in Nat /\ a <= now
                                     /\ Earned(now - a) \in Int /\ Earned(now - a) >= 0
  <2> SUFFICES ASSUME NEW a \in Times, a <= asked
               PROVE  /\ Payout(g, a, now) = Payout(f, a, now) + 1
                      /\ Payout(f, a, now) \in Int /\ a \in Nat /\ a <= now
                      /\ Earned(now - a) \in Int /\ Earned(now - a) >= 0
    OBVIOUS
  <2>1. a \in Nat /\ a <= now
    BY <1>0, TimesAreNumbers
  <2>2. Payout(g, a, now) = Payout(f, a, now) + 1
    BY <1>0, <1>4, <2>1, PayoutRises
  <2> QED  BY <2>1, <2>2, PayoutIs, EarnedSince
<1>7. PICK e : e = Earned(now - asked)
  OBVIOUS
<1>8. e \in Int /\ e >= 0 /\ (asked < now => e >= 1) /\ (asked = now => e = 0)
  BY <1>0, <1>7, EarnedSince
<1>9. /\ Level(new, now) = (Capacity - 1) + e /\ Spare(new, now) = 0
      /\ Refilled(new, now) = Lesser(Capacity, (Capacity - 1) + e)
  <2>1. Level(new, now) = (Capacity - 1) + e
    BY <1>3, <1>7 DEF Level
  <2> QED  BY <1>0, <1>3, <2>1, RefilledIs DEF Spare
<1>10. NotTooMuch(new, g, now)
  <2> SUFFICES ASSUME NEW a \in Times, a <= asked
               PROVE  Payout(g, a, now) + Lesser(Capacity + 0, (Capacity - 1) + e) <= Capacity + Earned(now - a)
    BY <1>3, <1>9 DEF NotTooMuch
  <2>1. Payout(f, a, now) <= 0 \/ Payout(f, a, now) < Earned(now - a)
    BY <1>1, <1>6 DEF FullAgain
  <2>2. PICK p, q, l : p = Payout(f, a, now) /\ q = Earned(now - a) /\ l = Lesser(Capacity + 0, (Capacity - 1) + e)
    OBVIOUS
  <2>3. p \in Int /\ q \in Int /\ q >= 0 /\ Payout(g, a, now) = p + 1 /\ (p <= 0 \/ p < q)
    BY <1>6, <2>1, <2>2
  <2>4. l \in Int /\ l <= Capacity /\ (asked = now => l = Capacity - 1)
    BY <1>0, <1>8, <2>2 DEF Lesser
  <2>5. asked < now => q >= 1
    BY <1>0, <1>6, <2>2, EarnedSince
  <2> QED  BY <1>0, <2>2, <2>3, <2>4, <2>5
<1>11. NotTooLittle(new, g, now)
  <2>1. CASE asked < now
    <3>1. Refilled(new, now) = Capacity
      BY <1>0, <1>8, <1>9, <2>1 DEF Lesser
    <3> QED  BY <3>1 DEF NotTooLittle
  <2>2. CASE asked = now
    <3>1. Refilled(new, now) = Capacity - 1
      BY <1>0, <1>8, <1>9, <2>2 DEF Lesser
    <3>2. Payout(f, now, now) = f[now] /\ f[now] = 0
      BY <1>0, <2>2, PayoutIs
    <3>3. Payout(g, now, now) = 1 /\ Earned(now - now) = 0
      BY <1>0, <1>6, <2>2, <3>2, EarnedSince
    <3>4. Payout(g, now, now) + (Capacity - 1) = Capacity + Earned(now - now) /\ now <= new.at
      BY <1>0, <1>3, <2>2, <3>3
    <3> QED  BY <3>1, <3>4 DEF NotTooLittle
  <2> QED  BY <1>0, <2>1, <2>2
<1>12. Fits(new, g, now)
  <2>1. \A t \in Times : t > now => t > asked
    BY <1>0, TimesAreNumbers
  <2> QED  BY <1>3, <1>5, <1>10, <1>11, <2>1 DEF Fits, Tells
\* Before the payment nothing was paid on its date: what had been paid by the
\* date before it leaves room for one more.
<1>13. Within(g)
  <2> SUFFICES ASSUME NEW a \in Times, NEW t \in Times, a <= t
               PROVE  Payout(g, a, t) <= Capacity + Earned(t - a)
    BY DEF Within, Promise!Within, Payout, Times, Earned
  <2>0. a \in Nat /\ t \in Nat /\ Earned(t - a) \in Int /\ Earned(t - a) >= 0
    BY TimesAreNumbers, EarnedSince
  <2>w. \A b, u \in Times : b <= u => Payout(f, b, u) <= Capacity + Earned(u - b)
    BY DEF Within, Promise!Within, Payout, Times, Earned
  <2>1. CASE t < asked \/ a > asked
    <3>1. Payout(g, a, t) = Payout(f, a, t)
      BY <1>0, <1>4, <2>0, <2>1, PayoutRises, PayoutIs
    <3> QED  BY <2>w, <3>1
  <2>2. CASE a = asked /\ asked <= t
    <3>1. Payout(g, a, t) = Payout(g, a, asked)
      BY <1>0, <1>5, <2>0, <2>2, PayoutRests
    <3>2. Payout(g, a, asked) = g[asked] /\ g[asked] = 1
      <4>1. g[asked] = f[asked] + 1 /\ f[asked] = 0
        BY <1>0, <1>4 DEF Paying, Ledger
      <4> QED  BY <1>5, <2>2, <4>1, PayoutIs
    <3> QED  BY <1>0, <2>0, <3>1, <3>2
  <2>3. CASE a < asked /\ asked <= t
    <3>1. PICK b \in Times : b = asked - 1
      BY <1>0, <2>0, <2>3, TimesAreNumbers
    <3>2. b \in Nat /\ a <= b /\ b <= t /\ \A u \in Times : u > b => f[u] = 0
      <4>1. \A u \in Times : u > b => u >= asked
        BY <1>0, <3>1, TimesAreNumbers
      <4> QED  BY <1>0, <2>0, <2>3, <3>1, <4>1, TimesAreNumbers
    <3>3. Payout(f, a, t) = Payout(f, a, b)
      BY <2>0, <3>2, PayoutRests
    <3>4. Payout(f, a, b) <= Capacity + Earned(b - a)
      BY <2>w, <3>2
    <3>5. Earned(b - a) + 1 <= Earned(t - a) /\ Earned(b - a) \in Int
      <4>1. PICK d : d = b - a
        OBVIOUS
      <4>2. d \in Int /\ asked - a = d + 1
        BY <1>0, <2>0, <3>1, <3>2, <4>1
      <4>3. Earned(asked - a) = Earned(d) + Rate /\ Earned(d) \in Int
        BY <4>2, EarnedIs
      <4>4. Earned(asked - a) <= Earned(t - a)
        BY <2>3, EarnedSince
      <4> QED  BY <1>0, <2>0, <4>1, <4>3, <4>4
    <3>6. Payout(g, a, t) = Payout(f, a, t) + 1
      BY <1>0, <1>4, <2>0, <2>3, PayoutRises
    <3>7. Payout(f, a, t) \in Int
      BY PayoutIs
    <3> QED  BY <1>0, <2>0, <3>3, <3>4, <3>5, <3>6, <3>7
  <2> QED  BY <1>0, <2>0, <2>1, <2>2, <2>3
<1> QED  BY <1>2, <1>3, <1>4, <1>12, <1>13 DEF Pays

\* A row with nothing left to give: one more payment would be too many.
LEMMA EmptyIsExhausted ==
  ASSUME NEW row, NEW f \in Ledger, NEW now \in Times, row # NoRow, Fits(row, f, now),
         ~(Refilled(row, now) >= 1)
  PROVE  ~Within(Paying(f, now))
<1>0. now \in Nat /\ Capacity \in Nat /\ Capacity >= 1 /\ Rate \in Nat
  BY RateLimitAssumption, TimesAreNumbers
<1>1. Tells(row, f, now)
  BY DEF Fits
<1>2. PICK at \in Times : at = row.at /\ at <= now /\ row \in Row
  BY <1>1 DEF Tells, Row
<1>3. Refilled(row, now) = 0
  <2>1. PICK e : e = Earned(now - at)
    OBVIOUS
  <2>2. e \in Int /\ e >= 0 /\ row.tokens \in Nat
    BY <1>0, <1>2, <2>1, EarnedSince, RateLimitAssumption DEF Row
  <2>3. Level(row, now) = row.tokens + e
    BY <1>2, <2>1 DEF Level
  <2>4. Refilled(row, now) = Lesser(Capacity, row.tokens + e)
    BY <1>2, <2>3, RefilledIs
  <2> QED  BY <1>0, <2>2, <2>4 DEF Lesser
<1>4. PICK a \in Times : a <= at /\ Payout(f, a, now) + 0 = Capacity + Earned(now - a)
  BY <1>0, <1>1, <1>2, <1>3 DEF Tells, NotTooLittle
<1>5. a <= now /\ a \in Nat
  <2>1. a \in Nat /\ at \in Nat /\ at <= now
    BY <1>2, TimesAreNumbers
  <2> QED  BY <1>0, <1>4, <2>1
<1>6. Payout(Paying(f, now), a, now) = Payout(f, a, now) + 1
  BY <1>0, <1>5, PayoutRises
<1>7. Payout(f, a, now) \in Int /\ Earned(now - a) \in Int
  BY PayoutIs, EarnedSince
<1>8. ~(Payout(Paying(f, now), a, now) <= Capacity + Earned(now - a))
  BY <1>0, <1>4, <1>6, <1>7
<1> QED  BY <1>5, <1>8 DEF Within, Promise!Within, Payout, Times, Earned

\* Nothing was paid just now by a bucket that has no row.
LEMMA QuietNow ==
  ASSUME NEW f \in Ledger, NEW now \in Times, Fits(NoRow, f, now)
  PROVE  \A t \in Times : t >= now => f[t] = 0
<1>1. now \in Nat /\ \A t \in Times : t > now => f[t] = 0
  BY TimesAreNumbers DEF Fits
<1>2. Payout(f, now, now) <= 0 \/ Payout(f, now, now) < Earned(now - now)
  BY <1>1 DEF Fits, FullAgain
<1>3. Payout(f, now, now) = f[now] /\ f[now] \in Nat /\ Earned(now - now) = 0
  BY PayoutIs, EarnedSince DEF Ledger
<1>4. f[now] = 0
  BY <1>2, <1>3
<1> QED  BY <1>1, <1>4, TimesAreNumbers

-------------------------------------------------------------------------------
(* Whose bucket a key is.                                                    *)

\* A served request asks bucket k for account a.
Serves(k, a) ==
  \E r \in Requests : /\ Served(r)
                      /\ \E i \in 1 .. Len(r.scopes) : BucketsOf(r)[i] = k /\ AccountsOf(r)[i] = a

\* A bucket serves one account and an account has one bucket.
LEMMA OneToOne ==
  ASSUME KeysFollowCustomers, NEW k, NEW a, NEW l, NEW b, Serves(k, a), Serves(l, b)
  PROVE  k = l <=> a = b
  BY DEF KeysFollowCustomers, Serves

\* What a served request asks: as many buckets as scopes, all different, for as
\* many accounts.
LEMMA RequestAsks ==
  ASSUME NEW r \in Requests, NEW n, n = Len(r.scopes)
  PROVE  /\ n \in Nat /\ n >= 1
         /\ BucketsOf(r) \in Seq(Keys) /\ Len(BucketsOf(r)) = n
         /\ \A i \in 1 .. n : /\ BucketsOf(r)[i] \in Keys /\ AccountsOf(r)[i] \in Accounts
                              /\ Served(r) => Serves(BucketsOf(r)[i], AccountsOf(r)[i])
         /\ \A i, j \in 1 .. n : BucketsOf(r)[i] = BucketsOf(r)[j] => i = j
<1>1. n \in Nat /\ n >= 1 /\ \A i, j \in 1 .. n : r.scopes[i] = r.scopes[j] => i = j
  BY CallAssumption
<1>2. \A i \in 1 .. n : BucketsOf(r)[i] \in Keys /\ AccountsOf(r)[i] \in Accounts
  BY DEF Keys, Accounts
<1>3. PICK e : e = [i \in 1 .. n |-> IF r.scopes[i] = "auth_ip" THEN DeriveIPKey(r.xff, r.remote) ELSE <<r.email>>]
  OBVIOUS
<1>4. BucketsOf(r) = [i \in 1 .. n |-> <<r.scopes[i], e[i]>>]
  BY <1>3 DEF BucketsOf
<1>5. BucketsOf(r) \in Seq(Keys) /\ Len(BucketsOf(r)) = n
  <2>1. PICK B : B = BucketsOf(r)
    OBVIOUS
  <2>2. B \in [1 .. n -> Keys]
    BY <1>2, <1>4, <2>1
  <2> QED  BY <1>1, <2>1, <2>2
<1>6. ASSUME NEW i \in 1 .. n, NEW j \in 1 .. n, BucketsOf(r)[i] = BucketsOf(r)[j]
      PROVE  i = j
  <2>1. <<r.scopes[i], e[i]>> = <<r.scopes[j], e[j]>>
    BY <1>4, <1>6
  <2> QED  BY <1>1, <2>1
<1> QED  BY <1>1, <1>2, <1>5, <1>6 DEF Serves

-------------------------------------------------------------------------------
(* The invariant.                                                            *)

ShapeInv ==
  /\ clock \in Times
  /\ holder \in [Keys -> Callers \cup {"none", Cleaner}]
  /\ pc \in [Callers -> {"idle", "ask", "wait", "end"}]
  /\ req \in [Callers -> Requests \cup {NoRequest}]
  /\ began \in [Callers -> Times] /\ since \in [Callers -> Times]
  /\ todo \in [Callers -> Seq(Keys)]
  /\ draft \in [Callers -> [Keys -> Row \cup {NoRow}]]
  /\ verdict \in [Callers -> {"none", "refused", "allowed", "error"}]

\* How many buckets a call has asked, and which.
Asked(c) == Len(req[c].scopes) - Len(todo[c])
Bucket(c, i) == BucketsOf(req[c])[i]

IdleInv(c) == req[c] = NoRequest /\ \A k \in Keys : draft[c][k] = NoRow

\* A call holds the rows it has asked, and has written them unless one refused;
\* it dates what it writes between its start and now.
BusyInv(c) ==
  /\ req[c] \in Requests /\ Served(req[c]) /\ verdict[c] \in {"none", "refused"}
  /\ began[c] <= clock
  /\ Len(todo[c]) <= Len(req[c].scopes) /\ (pc[c] = "end" <=> Len(todo[c]) = 0)
  /\ \A j \in 1 .. Len(todo[c]) : todo[c][j] = Bucket(c, Asked(c) + j)
  /\ \A i \in 1 .. Asked(c) : /\ holder[Bucket(c, i)] = c
                              /\ draft[c][Bucket(c, i)] # NoRow \/ verdict[c] = "refused"
  /\ \A k \in Keys : draft[c][k] # NoRow =>
       /\ began[c] <= draft[c][k].at /\ draft[c][k].at <= clock
       /\ \E i \in 1 .. Asked(c) : k = Bucket(c, i)
  /\ pc[c] = "wait" => /\ began[c] <= since[c] /\ since[c] <= clock
                       /\ clock - since[c] <= MaxWait

CallInv(c) == IF pc[c] = "idle" THEN IdleInv(c) ELSE BusyInv(c)

\* Committed rows tell what was paid, and so will written ones.
PaidInv == \A a \in Accounts : paid[a] \in Ledger /\ Within(paid[a])

TableInv == \A k \in Keys, a \in Accounts : Serves(k, a) => Fits(rows[k], paid[a], clock)

DraftInv == \A c \in Callers, k \in Keys, a \in Accounts :
              draft[c][k] # NoRow /\ Serves(k, a) => Pays(draft[c][k], paid[a], clock)

\* While no row is there, nothing was paid since any waiting statement began.
WaitInv == \A c \in Callers, k \in Keys, a \in Accounts :
             pc[c] = "wait" /\ rows[k] = NoRow /\ Serves(k, a) =>
               \A t \in Times : t >= since[c] => paid[a][t] = 0

\* The sweep holds what it is about to delete, and it is stale.
SweepInv ==
  /\ sweep \in [pc : {"idle", "run"}, cutoff : Int, left : SUBSET Keys, deleted : SUBSET Keys]
  /\ sweep.pc = "idle" => sweep.deleted = {}
  /\ sweep.pc # "idle" => sweep.cutoff <= clock - Retention
  /\ \A k \in sweep.deleted : k \in Keys /\ holder[k] = Cleaner /\ Stale(rows[k], sweep.cutoff)

BooksInv == PaidInv /\ TableInv /\ DraftInv /\ WaitInv

LimitInv == ShapeInv /\ (\A c \in Callers : CallInv(c)) /\ BooksInv /\ SweepInv

\* An empty table keeps empty books.
LEMMA StartFits == Init => LimitInv
<1> SUFFICES ASSUME Init PROVE LimitInv
  OBVIOUS
<1>1. 0 \in Times
  BY TimesAreNumbers DEF Times, Promise!Times
<1>2. ShapeInv
  BY <1>1 DEF Init, ShapeInv
<1>3. \A c \in Callers : CallInv(c)
  BY DEF Init, CallInv, IdleInv
<1>4. BooksInv
  <2>1. \A a \in Accounts : paid[a] = [t \in Times |-> 0]
    BY DEF Init, Times, Promise!Times
  <2>2. PaidInv
    BY <1>1, <2>1, FreshFits DEF PaidInv
  <2>3. TableInv
    BY <1>1, <2>1, FreshFits DEF TableInv, Init
  <2> QED  BY <2>1, <2>2, <2>3 DEF BooksInv, DraftInv, WaitInv, Init
<1>5. SweepInv
  BY DEF Init, Idle, SweepInv
<1> QED  BY <1>2, <1>3, <1>4, <1>5 DEF LimitInv

\* The buckets a busy call asks.
LEMMA BucketsAre ==
  ASSUME NEW c \in Callers, BusyInv(c), Len(todo[c]) \in Nat
  PROVE  /\ Len(req[c].scopes) \in Nat /\ Len(req[c].scopes) >= 1
         /\ Asked(c) \in Nat /\ Asked(c) <= Len(req[c].scopes)
         /\ \A i \in 1 .. Len(req[c].scopes) :
              /\ Bucket(c, i) \in Keys /\ AccountsOf(req[c])[i] \in Accounts
              /\ Serves(Bucket(c, i), AccountsOf(req[c])[i])
         /\ \A i, j \in 1 .. Len(req[c].scopes) : Bucket(c, i) = Bucket(c, j) => i = j
<1>1. PICK r \in Requests : r = req[c] /\ Served(r)
  BY DEF BusyInv
<1>2. PICK n : n = Len(r.scopes)
  OBVIOUS
<1>3. /\ n \in Nat /\ n >= 1
      /\ \A i \in 1 .. n : /\ BucketsOf(r)[i] \in Keys /\ AccountsOf(r)[i] \in Accounts
                           /\ Serves(BucketsOf(r)[i], AccountsOf(r)[i])
      /\ \A i, j \in 1 .. n : BucketsOf(r)[i] = BucketsOf(r)[j] => i = j
  BY <1>1, <1>2, RequestAsks
<1>4. PICK m \in Nat : m = Len(todo[c])
  OBVIOUS
<1>5. m <= n /\ Asked(c) = n - m
  BY <1>1, <1>2, <1>4 DEF BusyInv, Asked
<1>6. Len(req[c].scopes) = n /\ req[c] = r /\ \A i : Bucket(c, i) = BucketsOf(r)[i]
  BY <1>1, <1>2 DEF Bucket
<1>7. Asked(c) \in Nat /\ Asked(c) <= n
  BY <1>3, <1>4, <1>5
<1> QED  BY <1>3, <1>6, <1>7

\* What others do does not disturb a call, if it keeps its locks.
LEMMA CallStays ==
  ASSUME NEW d \in Callers, CallInv(d), Len(todo[d]) \in Nat,
         pc'[d] = pc[d], req'[d] = req[d], began'[d] = began[d], todo'[d] = todo[d],
         since'[d] = since[d], draft'[d] = draft[d], verdict'[d] = verdict[d], clock' = clock,
         \A k \in Keys : holder[k] = d => holder'[k] = d
  PROVE  CallInv(d)'
<1>1. CASE pc[d] = "idle"
  BY <1>1 DEF CallInv, IdleInv
<1>2. CASE pc[d] # "idle"
  <2>1. BusyInv(d)
    BY <1>2 DEF CallInv
  <2>2. Asked(d)' = Asked(d) /\ \A i : Bucket(d, i)' = Bucket(d, i)
    BY DEF Asked, Bucket
  <2>3. \A i \in 1 .. Asked(d) : Bucket(d, i) \in Keys
    BY <2>1, BucketsAre
  <2>4. \A i \in 1 .. Asked(d) : /\ holder'[Bucket(d, i)] = d
                                 /\ draft'[d][Bucket(d, i)] # NoRow \/ verdict'[d] = "refused"
    BY <2>1, <2>3 DEF BusyInv
  <2>5. BusyInv(d)'
    BY <2>1, <2>2, <2>4 DEF BusyInv
  <2> QED  BY <1>2, <2>5 DEF CallInv
<1> QED  BY <1>1, <1>2

\* The length of what is left to ask.
LEMMA TodoLength ==
  ASSUME ShapeInv
  PROVE  \A c \in Callers : todo[c] \in Seq(Keys) /\ Len(todo[c]) \in Nat
  BY DEF ShapeInv

\* Time passes.
LEMMA TickKeeps == LimitInv /\ Tick => LimitInv'
<1> SUFFICES ASSUME LimitInv, Tick PROVE LimitInv'
  OBVIOUS
<1>0. ShapeInv /\ BooksInv /\ SweepInv /\ \A c \in Callers : CallInv(c)
  BY DEF LimitInv
<1>1. /\ clock < MaxTime /\ clock' = clock + 1 /\ \A c \in Callers : Patient(c)
      /\ UNCHANGED <<rows, holder, calls, sweep, paid>>
  BY DEF Tick
<1>2. clock \in Times /\ clock + 1 \in Times /\ clock \in Nat
  BY <1>0, <1>1, TimesAreNumbers DEF ShapeInv, Times, Promise!Times
<1>3. ShapeInv'
  BY <1>0, <1>1, <1>2 DEF ShapeInv, calls
<1>4. ASSUME NEW c \in Callers PROVE CallInv(c)'
  <2>1. CASE pc[c] = "idle"
    BY <1>0, <1>1, <2>1 DEF CallInv, IdleInv, calls
  <2>2. CASE pc[c] # "idle"
    <3>1. BusyInv(c)
      BY <1>0, <2>2 DEF CallInv
    <3>2. Asked(c)' = Asked(c) /\ \A i : Bucket(c, i)' = Bucket(c, i)
      BY <1>1 DEF Asked, Bucket, calls
    <3>3. began[c] \in Nat /\ since[c] \in Nat /\ MaxWait \in Nat
      BY <1>0, TimesAreNumbers, RateLimitAssumption DEF ShapeInv
    <3>4. began[c] <= clock + 1
      BY <1>2, <3>1, <3>3 DEF BusyInv
    <3>5. ASSUME NEW k \in Keys, draft[c][k] # NoRow
          PROVE  /\ began[c] <= draft[c][k].at /\ draft[c][k].at <= clock + 1
                 /\ \E i \in 1 .. Asked(c) : k = Bucket(c, i)
      <4>1. draft[c][k] \in Row
        BY <1>0, <3>5 DEF ShapeInv
      <4>2. draft[c][k].at \in Nat
        BY <4>1, TimesAreNumbers DEF Row
      <4> QED  BY <1>2, <3>1, <3>5, <4>2 DEF BusyInv
    <3>6. pc[c] = "wait" => /\ began[c] <= since[c] /\ since[c] <= clock + 1
                            /\ (clock + 1) - since[c] <= MaxWait
      BY <1>1, <1>2, <3>1, <3>3 DEF BusyInv, Patient
    <3>7. BusyInv(c)'
      BY <1>1, <3>1, <3>2, <3>4, <3>5, <3>6 DEF BusyInv, calls
    <3> QED  BY <1>1, <2>2, <3>7 DEF CallInv, calls
  <2> QED  BY <2>1, <2>2
<1>5. BooksInv'
  <2>1. PaidInv'
    BY <1>0, <1>1 DEF BooksInv, PaidInv
  <2>2. TableInv'
    <3> SUFFICES ASSUME NEW k \in Keys, NEW a \in Accounts, Serves(k, a)
                 PROVE  Fits(rows[k], paid[a], clock + 1)
      BY <1>1 DEF TableInv
    <3>1. paid[a] \in Ledger /\ Fits(rows[k], paid[a], clock)
      BY <1>0 DEF BooksInv, PaidInv, TableInv
    <3> QED  BY <1>2, <3>1, TimeFits
  <2>3. DraftInv'
    <3> SUFFICES ASSUME NEW c \in Callers, NEW k \in Keys, NEW a \in Accounts,
                        draft[c][k] # NoRow, Serves(k, a)
                 PROVE  Pays(draft[c][k], paid[a], clock + 1)
      BY <1>1 DEF DraftInv, calls
    <3>1. paid[a] \in Ledger /\ Pays(draft[c][k], paid[a], clock)
      BY <1>0 DEF BooksInv, PaidInv, DraftInv
    <3>2. draft[c][k].at \in Times
      BY <1>0 DEF ShapeInv, Row
    <3>3. Paying(paid[a], draft[c][k].at) \in Ledger
      BY <3>1, <3>2, TotalRises
    <3> QED  BY <1>2, <3>1, <3>3, TimeFits DEF Pays
  <2>4. WaitInv'
    BY <1>0, <1>1 DEF BooksInv, WaitInv, calls
  <2> QED  BY <2>1, <2>2, <2>3, <2>4 DEF BooksInv
<1>6. SweepInv'
  <2>1. sweep.pc # "idle" => sweep.cutoff <= (clock + 1) - Retention
    BY <1>0, <1>2, RateLimitAssumption DEF SweepInv
  <2> QED  BY <1>0, <1>1, <2>1 DEF SweepInv
<1> QED  BY <1>3, <1>4, <1>5, <1>6 DEF LimitInv

\* A request arrives.
LEMMA BeginKeeps ==
  ASSUME LimitInv, NEW c \in Callers, NEW r \in Requests, Begin(c, r)
  PROVE  LimitInv'
<1>0. ShapeInv /\ BooksInv /\ SweepInv /\ \A d \in Callers : CallInv(d)
  BY DEF LimitInv
<1>1. pc[c] = "idle" /\ UNCHANGED <<clock, rows, holder, draft, sweep, paid>>
  BY DEF Begin
<1>2. clock \in Times /\ clock \in Nat
  BY <1>0, TimesAreNumbers DEF ShapeInv
<1>3. CASE ~Served(r)
  <2>1. verdict' = [verdict EXCEPT ![c] = "error"] /\ UNCHANGED <<pc, req, began, todo, since>>
    BY <1>3 DEF Begin
  <2>2. ShapeInv'
    BY <1>0, <1>1, <2>1 DEF ShapeInv
  <2>3. ASSUME NEW d \in Callers PROVE CallInv(d)'
    <3>1. CASE d = c
      BY <1>0, <1>1, <2>1, <3>1 DEF CallInv, IdleInv
    <3>2. CASE d # c
      <4>1. verdict'[d] = verdict[d] /\ Len(todo[d]) \in Nat
        BY <1>0, <2>1, <3>2, TodoLength DEF ShapeInv
      <4> QED  BY <1>0, <1>1, <2>1, <4>1, CallStays
    <3> QED  BY <3>1, <3>2
  <2>4. BooksInv'
    BY <1>0, <1>1, <2>1 DEF BooksInv, PaidInv, TableInv, DraftInv, WaitInv
  <2>5. SweepInv'
    BY <1>0, <1>1 DEF SweepInv
  <2> QED  BY <2>2, <2>3, <2>4, <2>5 DEF LimitInv
<1>4. CASE Served(r)
  <2>1. /\ verdict' = [verdict EXCEPT ![c] = "none"]
        /\ pc' = [pc EXCEPT ![c] = "wait"] /\ since' = [since EXCEPT ![c] = clock]
        /\ req' = [req EXCEPT ![c] = r] /\ began' = [began EXCEPT ![c] = clock]
        /\ todo' = [todo EXCEPT ![c] = BucketsOf(r)]
    BY <1>4 DEF Begin
  <2>2. PICK n : n = Len(r.scopes)
    OBVIOUS
  <2>3. n \in Nat /\ n >= 1 /\ BucketsOf(r) \in Seq(Keys) /\ Len(BucketsOf(r)) = n
    BY <2>2, RequestAsks
  <2>4. ShapeInv'
    BY <1>0, <1>1, <2>1, <2>3 DEF ShapeInv
  <2>5. /\ verdict'[c] = "none" /\ pc'[c] = "wait" /\ since'[c] = clock /\ req'[c] = r
        /\ began'[c] = clock /\ todo'[c] = BucketsOf(r)
    BY <1>0, <2>1 DEF ShapeInv
  <2>6. \A d \in Callers \ {c} : /\ verdict'[d] = verdict[d] /\ pc'[d] = pc[d] /\ since'[d] = since[d]
                                 /\ req'[d] = req[d] /\ began'[d] = began[d] /\ todo'[d] = todo[d]
    BY <1>0, <2>1 DEF ShapeInv
  <2>7. CallInv(c)'
    <3>1. \A k \in Keys : draft[c][k] = NoRow
      BY <1>0, <1>1 DEF CallInv, IdleInv
    <3>2. Asked(c)' = 0 /\ \A i : Bucket(c, i)' = BucketsOf(r)[i]
      BY <2>2, <2>3, <2>5 DEF Asked, Bucket
    <3>3. \A j \in 1 .. Len(todo'[c]) : todo'[c][j] = Bucket(c, Asked(c) + j)'
      BY <2>3, <2>5, <3>2
    <3>4. Len(todo'[c]) = n /\ n # 0 /\ Len(req'[c].scopes) = n /\ n <= n
      BY <2>2, <2>3, <2>5
    <3>5. clock <= clock /\ clock - clock <= MaxWait
      BY <1>2, RateLimitAssumption
    <3>6. BusyInv(c)'
      BY <1>1, <1>4, <2>5, <3>1, <3>2, <3>3, <3>4, <3>5 DEF BusyInv
    <3> QED  BY <2>5, <3>6 DEF CallInv
  <2>8. ASSUME NEW d \in Callers PROVE CallInv(d)'
    <3>1. CASE d # c
      BY <1>0, <1>1, <2>6, <3>1, CallStays, TodoLength
    <3> QED  BY <2>7, <3>1
  <2>9. BooksInv'
    <3>1. WaitInv'
      <4> SUFFICES ASSUME NEW d \in Callers, NEW k \in Keys, NEW a \in Accounts,
                          pc'[d] = "wait", rows[k] = NoRow, Serves(k, a), NEW t \in Times, t >= since'[d]
                   PROVE  paid[a][t] = 0
        BY <1>1 DEF WaitInv
      <4>1. CASE d = c
        <5>1. paid[a] \in Ledger /\ Fits(NoRow, paid[a], clock)
          BY <1>0 DEF BooksInv, PaidInv, TableInv
        <5> QED  BY <1>2, <2>5, <4>1, <5>1, QuietNow
      <4>2. CASE d # c
        BY <1>0, <2>6, <4>2 DEF BooksInv, WaitInv
      <4> QED  BY <4>1, <4>2
    <3> QED  BY <1>0, <1>1, <3>1 DEF BooksInv, PaidInv, TableInv, DraftInv
  <2>10. SweepInv'
    BY <1>0, <1>1 DEF SweepInv
  <2> QED  BY <2>4, <2>8, <2>9, <2>10 DEF LimitInv
<1> QED  BY <1>3, <1>4

\* The next statement of a transaction starts.
LEMMA SendKeeps ==
  ASSUME LimitInv, NEW c \in Callers, Send(c)
  PROVE  LimitInv'
<1>0. ShapeInv /\ BooksInv /\ SweepInv /\ \A d \in Callers : CallInv(d)
  BY DEF LimitInv
<1>1. /\ pc[c] = "ask" /\ since' = [since EXCEPT ![c] = clock] /\ pc' = [pc EXCEPT ![c] = "wait"]
      /\ UNCHANGED <<clock, rows, holder, req, began, todo, draft, verdict, sweep, paid>>
  BY DEF Send
<1>2. clock \in Times /\ clock \in Nat
  BY <1>0, TimesAreNumbers DEF ShapeInv
<1>3. ShapeInv'
  BY <1>0, <1>1 DEF ShapeInv
<1>4. /\ since'[c] = clock /\ pc'[c] = "wait"
      /\ \A d \in Callers \ {c} : since'[d] = since[d] /\ pc'[d] = pc[d]
  BY <1>0, <1>1 DEF ShapeInv
<1>5. CallInv(c)'
  <2>1. BusyInv(c)
    BY <1>0, <1>1 DEF CallInv
  <2>2. Asked(c)' = Asked(c) /\ \A i : Bucket(c, i)' = Bucket(c, i)
    BY <1>1 DEF Asked, Bucket
  <2>3. clock <= clock /\ clock - clock <= MaxWait
    BY <1>2, RateLimitAssumption
  <2>4. BusyInv(c)'
    BY <1>1, <1>4, <2>1, <2>2, <2>3 DEF BusyInv
  <2> QED  BY <1>4, <2>4 DEF CallInv
<1>6. ASSUME NEW d \in Callers PROVE CallInv(d)'
  <2>1. CASE d # c
    BY <1>0, <1>1, <1>4, <2>1, CallStays, TodoLength
  <2> QED  BY <1>5, <2>1
<1>7. WaitInv'
  <2> SUFFICES ASSUME NEW d \in Callers, NEW k \in Keys, NEW a \in Accounts,
                      pc'[d] = "wait", rows[k] = NoRow, Serves(k, a), NEW t \in Times, t >= since'[d]
               PROVE  paid[a][t] = 0
    BY <1>1 DEF WaitInv
  <2>1. CASE d = c
    <3>1. paid[a] \in Ledger /\ Fits(NoRow, paid[a], clock)
      BY <1>0 DEF BooksInv, PaidInv, TableInv
    <3> QED  BY <1>2, <1>4, <2>1, <3>1, QuietNow
  <2>2. CASE d # c
    BY <1>0, <1>4, <2>2 DEF BooksInv, WaitInv
  <2> QED  BY <2>1, <2>2
<1>8. BooksInv' /\ SweepInv'
  BY <1>0, <1>1, <1>7 DEF BooksInv, PaidInv, TableInv, DraftInv, SweepInv
<1> QED  BY <1>3, <1>6, <1>8 DEF LimitInv

\* What a statement writes once it has the row: a payment.
LEMMA AnswerPays ==
  ASSUME LimitInv, NEW c \in Callers, pc[c] = "wait", NEW k \in Keys, NEW a \in Accounts,
         Serves(k, a), Admits(rows[k])
  PROVE  /\ Written(rows[k], since[c]) \in Row
         /\ Pays(Written(rows[k], since[c]), paid[a], clock)
         /\ since[c] <= Written(rows[k], since[c]).at \/ Written(rows[k], since[c]).at = clock
         /\ Written(rows[k], since[c]).at <= clock /\ began[c] <= Written(rows[k], since[c]).at
<1>0. ShapeInv /\ BooksInv /\ CallInv(c)
  BY DEF LimitInv
<1>1. /\ clock \in Times /\ since[c] \in Times /\ paid[a] \in Ledger /\ Within(paid[a])
      /\ Fits(rows[k], paid[a], clock)
  BY <1>0 DEF ShapeInv, BooksInv, PaidInv, TableInv
<1>2. began[c] <= since[c] /\ since[c] <= clock /\ clock - since[c] <= MaxWait /\ began[c] <= clock
  BY <1>0 DEF CallInv, BusyInv
<1>3. clock \in Nat /\ since[c] \in Nat
  BY <1>1, TimesAreNumbers
<1>4. CASE rows[k] = NoRow
  <2>1. \A t \in Times : t >= since[c] => paid[a][t] = 0
    BY <1>0, <1>4 DEF BooksInv, WaitInv
  <2>2. Written(rows[k], since[c]) = [tokens |-> Capacity - 1, at |-> since[c]]
    BY <1>4 DEF Written
  <2>3. PICK w : w = [tokens |-> Capacity - 1, at |-> since[c]]
    OBVIOUS
  <2>4. w \in Row /\ Pays(w, paid[a], clock) /\ w.at = since[c]
    <3>1. PICK f, now, asked : f = paid[a] /\ now = clock /\ asked = since[c]
      OBVIOUS
    <3> QED  BY <1>1, <1>2, <1>4, <2>1, <2>3, <3>1, InsertPays
  <2> QED  BY <1>2, <1>3, <2>2, <2>3, <2>4
<1>5. CASE rows[k] # NoRow
  <2>1. Refilled(rows[k], clock) >= 1
    BY <1>5 DEF Admits
  <2>2. Written(rows[k], since[c]) = [tokens |-> Refilled(rows[k], clock) - 1, at |-> clock]
    BY <1>5 DEF Written
  <2>3. PICK w : w = [tokens |-> Refilled(rows[k], clock) - 1, at |-> clock]
    OBVIOUS
  <2>4. w \in Row /\ Pays(w, paid[a], clock) /\ w.at = clock
    <3>1. PICK row, f, now : row = rows[k] /\ f = paid[a] /\ now = clock
      OBVIOUS
    <3> QED  BY <1>1, <1>5, <2>1, <2>3, <3>1, UpdatePays
  <2> QED  BY <1>2, <1>3, <2>2, <2>3, <2>4
<1> QED  BY <1>4, <1>5

\* The row's lock is had and the answer known.
LEMMA AnswerKeeps ==
  ASSUME LimitInv, NEW c \in Callers, Answer(c)
  PROVE  LimitInv'
<1>0. ShapeInv /\ BooksInv /\ SweepInv /\ \A d \in Callers : CallInv(d)
  BY DEF LimitInv
<1>1. PICK k : k = Head(todo[c])
  OBVIOUS
<1>2. /\ pc[c] = "wait" /\ holder[k] = "none" /\ holder' = [holder EXCEPT ![k] = c]
      /\ \/ /\ Admits(rows[k]) /\ UNCHANGED verdict
            /\ draft' = [draft EXCEPT ![c][k] = Written(rows[k], since[c])]
         \/ /\ ~Admits(rows[k]) /\ UNCHANGED draft
            /\ verdict' = [verdict EXCEPT ![c] = "refused"]
      /\ todo' = [todo EXCEPT ![c] = Tail(@)]
      /\ pc' = [pc EXCEPT ![c] = IF Len(todo[c]) > 1 THEN "ask" ELSE "end"]
      /\ since' = [since EXCEPT ![c] = 0]
      /\ UNCHANGED <<clock, rows, req, began, sweep, paid>>
  BY <1>1 DEF Answer
<1>3. BusyInv(c)
  BY <1>0, <1>2 DEF CallInv
<1>4. PICK T \in Seq(Keys) : T = todo[c]
  BY <1>0 DEF ShapeInv
<1>5. PICK m \in Nat : m = Len(T)
  BY <1>4
<1>6. PICK n : n = Len(req[c].scopes)
  OBVIOUS
<1>7. PICK i0 : i0 = Asked(c) + 1
  OBVIOUS
<1>8. n \in Nat /\ m # 0 /\ m <= n /\ Asked(c) = n - m /\ i0 \in 1 .. n
  <2>1. n \in Nat
    BY <1>3, <1>4, <1>5, <1>6, BucketsAre
  <2>2. m # 0 /\ m <= n /\ Asked(c) = n - m
    BY <1>2, <1>3, <1>4, <1>5, <1>6 DEF BusyInv, Asked
  <2> QED  BY <1>5, <1>7, <2>1, <2>2
<1>9. k = Bucket(c, i0) /\ k \in Keys
  <2>1. k = T[1]
    BY <1>1, <1>4, <1>5, <1>8
  <2>2. T[1] = Bucket(c, Asked(c) + 1)
    <3>1. 1 \in 1 .. m
      BY <1>5, <1>8
    <3>2. \A j \in 1 .. m : T[j] = Bucket(c, Asked(c) + j)
      BY <1>3, <1>4, <1>5 DEF BusyInv
    <3> QED  BY <3>1, <3>2
  <2> QED  BY <1>3, <1>4, <1>5, <1>6, <1>7, <1>8, <2>1, <2>2, BucketsAre
<1>10. PICK a \in Accounts : Serves(k, a)
  BY <1>3, <1>4, <1>5, <1>6, <1>8, <1>9, BucketsAre
<1>11. PICK w : w = Written(rows[k], since[c])
  OBVIOUS
<1>12. Admits(rows[k]) => /\ w \in Row /\ w # NoRow /\ w.at <= clock /\ began[c] <= w.at
                          /\ \A b \in Accounts : Serves(k, b) => Pays(w, paid[b], clock)
  <2> SUFFICES ASSUME Admits(rows[k])
               PROVE  /\ w \in Row /\ w # NoRow /\ w.at <= clock /\ began[c] <= w.at
                      /\ \A b \in Accounts : Serves(k, b) => Pays(w, paid[b], clock)
    OBVIOUS
  <2>1. \A b \in Accounts : Serves(k, b) =>
          w \in Row /\ Pays(w, paid[b], clock) /\ w.at <= clock /\ began[c] <= w.at
    BY <1>2, <1>9, <1>11, AnswerPays
  <2>2. w \in Row
    BY <1>10, <2>1
  <2>3. w # NoRow
    <3>1. w.tokens \in Nat /\ NoRow.tokens = -1
      BY <2>2, RateLimitAssumption DEF Row, NoRow
    <3> QED  BY <3>1
  <2> QED  BY <1>10, <2>1, <2>2, <2>3
<1>13. /\ todo'[c] = Tail(T) /\ Tail(T) \in Seq(Keys) /\ Len(Tail(T)) = m - 1
       /\ \A j \in 1 .. m - 1 : Tail(T)[j] = T[j + 1]
  BY <1>0, <1>2, <1>4, <1>5, <1>8 DEF ShapeInv
<1>14. ShapeInv'
  <2>1. 0 \in Times
    BY TimesAreNumbers DEF Times, Promise!Times
  <2>2. draft' \in [Callers -> [Keys -> Row \cup {NoRow}]]
    <3>1. CASE Admits(rows[k])
      <4>1. draft' = [draft EXCEPT ![c] = [draft[c] EXCEPT ![k] = w]] /\ w \in Row
        BY <1>2, <1>11, <1>12, <3>1
      <4> QED  BY <1>0, <4>1 DEF ShapeInv
    <3>2. CASE ~Admits(rows[k])
      BY <1>0, <1>2, <3>2 DEF ShapeInv
    <3> QED  BY <3>1, <3>2
  <2>3. todo' \in [Callers -> Seq(Keys)]
    BY <1>0, <1>2, <1>4, <1>13 DEF ShapeInv
  <2>4. holder' \in [Keys -> Callers \cup {"none", Cleaner}] /\ verdict' \in [Callers -> {"none", "refused", "allowed", "error"}]
    BY <1>0, <1>2 DEF ShapeInv
  <2>5. pc' \in [Callers -> {"idle", "ask", "wait", "end"}]
    BY <1>0, <1>2 DEF ShapeInv
  <2> QED  BY <1>0, <1>2, <2>1, <2>2, <2>3, <2>4, <2>5 DEF ShapeInv
<1>15. /\ holder'[k] = c /\ \A l \in Keys : l # k => holder'[l] = holder[l]
       /\ pc'[c] = IF m > 1 THEN "ask" ELSE "end"
       /\ \A d \in Callers \ {c} : pc'[d] = pc[d] /\ todo'[d] = todo[d] /\ since'[d] = since[d]
                                   /\ draft'[d] = draft[d] /\ verdict'[d] = verdict[d]
       /\ \A l \in Keys : l # k => draft'[c][l] = draft[c][l]
       /\ Admits(rows[k]) => draft'[c][k] = w /\ verdict'[c] = verdict[c]
       /\ ~Admits(rows[k]) => draft'[c][k] = draft[c][k] /\ verdict'[c] = "refused"
  BY <1>0, <1>2, <1>4, <1>5, <1>9, <1>11 DEF ShapeInv
<1>16. Asked(c)' = i0 /\ Asked(c) = i0 - 1 /\ \A i : Bucket(c, i)' = Bucket(c, i)
  <2>1. Len(todo'[c]) = m - 1 /\ req' = req
    BY <1>2, <1>13
  <2>2. Asked(c)' = n - (m - 1)
    BY <1>6, <2>1 DEF Asked
  <2>3. Asked(c)' = i0 /\ Asked(c) = i0 - 1
    BY <1>5, <1>7, <1>8, <2>2
  <2> QED  BY <2>1, <2>3 DEF Bucket
<1>17. /\ \A i \in 1 .. n : Bucket(c, i) \in Keys
       /\ \A i, j \in 1 .. n : Bucket(c, i) = Bucket(c, j) => i = j
  BY <1>3, <1>4, <1>5, <1>6, BucketsAre
<1>18. BusyInv(c)'
  <2>1. verdict'[c] \in {"none", "refused"} /\ (verdict[c] = "refused" => verdict'[c] = "refused")
    BY <1>3, <1>15 DEF BusyInv
  <2>2. m - 1 <= n /\ (pc'[c] = "end" <=> m - 1 = 0)
    <3>1. m - 1 <= n /\ (m > 1 <=> m - 1 # 0)
      <4>1. m \in Nat /\ n \in Nat /\ m # 0 /\ m <= n
        BY <1>5, <1>8
      <4> QED  BY <4>1
    <3>2. pc'[c] = "end" <=> ~(m > 1)
      <4>1. m > 1 => pc'[c] = "ask"
        BY <1>15
      <4>2. ~(m > 1) => pc'[c] = "end"
        BY <1>15
      <4>3. "ask" # "end"
        OBVIOUS
      <4> QED  BY <4>1, <4>2, <4>3
    <3> QED  BY <3>1, <3>2
  <2>3. \A j \in 1 .. m - 1 : todo'[c][j] = Bucket(c, i0 + j)
    <3> SUFFICES ASSUME NEW j \in 1 .. m - 1 PROVE Tail(T)[j] = Bucket(c, i0 + j)
      BY <1>13
    <3>1. j + 1 \in 1 .. m /\ (i0 - 1) + (j + 1) = i0 + j
      BY <1>5, <1>8
    <3>2. \A h \in 1 .. m : T[h] = Bucket(c, (i0 - 1) + h)
      BY <1>3, <1>4, <1>5, <1>16 DEF BusyInv
    <3>3. T[j + 1] = Bucket(c, (i0 - 1) + (j + 1))
      BY <3>1, <3>2
    <3> QED  BY <1>13, <3>1, <3>3
  <2>4. ASSUME NEW i \in 1 .. i0
        PROVE  /\ holder'[Bucket(c, i)] = c
               /\ draft'[c][Bucket(c, i)] # NoRow \/ verdict'[c] = "refused"
    <3>1. CASE i = i0
      BY <1>9, <1>12, <1>15, <3>1
    <3>2. CASE i # i0
      <4>1. i \in 1 .. i0 - 1 /\ i \in 1 .. n
        BY <1>8, <3>2
      <4>2. Bucket(c, i) # k /\ Bucket(c, i) \in Keys
        BY <1>8, <1>9, <1>17, <3>2, <4>1
      <4>3. holder[Bucket(c, i)] = c /\ (draft[c][Bucket(c, i)] # NoRow \/ verdict[c] = "refused")
        BY <1>3, <1>16, <4>1 DEF BusyInv
      <4> QED  BY <1>15, <2>1, <4>2, <4>3
    <3> QED  BY <3>1, <3>2
  <2>5. ASSUME NEW l \in Keys, draft'[c][l] # NoRow
        PROVE  /\ began[c] <= draft'[c][l].at /\ draft'[c][l].at <= clock
               /\ \E i \in 1 .. i0 : l = Bucket(c, i)
    <3>1. CASE l = k /\ Admits(rows[k])
      BY <1>8, <1>9, <1>12, <1>15, <3>1
    <3>2. CASE ~(l = k /\ Admits(rows[k]))
      <4>1. draft'[c][l] = draft[c][l]
        BY <1>15, <3>2
      <4>2. PICK i \in 1 .. Asked(c) : l = Bucket(c, i)
        BY <1>3, <2>5, <4>1 DEF BusyInv
      <4>3. i \in 1 .. i0
        BY <1>8, <1>16
      <4> QED  BY <1>3, <2>5, <4>1, <4>2, <4>3 DEF BusyInv
    <3> QED  BY <3>1, <3>2
  <2>6. pc'[c] # "wait"
    BY <1>15
  <2>7. Len(todo'[c]) = m - 1 /\ req' = req /\ began' = began /\ clock' = clock
    BY <1>2, <1>13
  <2>8. req[c] \in Requests /\ Served(req[c]) /\ began[c] <= clock
    BY <1>3 DEF BusyInv
  <2> QED  BY <1>6, <1>16, <2>1, <2>2, <2>3, <2>4, <2>5, <2>6, <2>7, <2>8 DEF BusyInv
<1>19. ASSUME NEW d \in Callers PROVE CallInv(d)'
  <2>1. CASE d = c
    BY <1>15, <1>18, <2>1 DEF CallInv
  <2>2. CASE d # c
    <3>1. \A l \in Keys : holder[l] = d => holder'[l] = d
      <4>1. d # "none"
        BY CallAssumption
      <4> QED  BY <1>2, <1>15, <4>1
    <3>2. /\ req'[d] = req[d] /\ began'[d] = began[d] /\ clock' = clock
          /\ pc'[d] = pc[d] /\ todo'[d] = todo[d] /\ since'[d] = since[d]
          /\ draft'[d] = draft[d] /\ verdict'[d] = verdict[d]
      BY <1>2, <1>15, <2>2
    <3> QED  BY <1>0, <3>1, <3>2, CallStays, TodoLength
  <2> QED  BY <2>1, <2>2
<1>20. BooksInv'
  <2>1. DraftInv'
    <3> SUFFICES ASSUME NEW d \in Callers, NEW l \in Keys, NEW b \in Accounts,
                        draft'[d][l] # NoRow, Serves(l, b)
                 PROVE  Pays(draft'[d][l], paid[b], clock)
      BY <1>2 DEF DraftInv
    <3>1. CASE d = c /\ l = k /\ Admits(rows[k])
      BY <1>12, <1>15, <3>1
    <3>2. CASE ~(d = c /\ l = k /\ Admits(rows[k]))
      <4>1. draft'[d][l] = draft[d][l]
        BY <1>15, <3>2
      <4> QED  BY <1>0, <4>1 DEF BooksInv, DraftInv
    <3> QED  BY <3>1, <3>2
  <2>2. WaitInv'
    <3> SUFFICES ASSUME NEW d \in Callers, NEW l \in Keys, NEW b \in Accounts,
                        pc'[d] = "wait", rows[l] = NoRow, Serves(l, b), NEW t \in Times, t >= since'[d]
                 PROVE  paid[b][t] = 0
      BY <1>2 DEF WaitInv
    <3>1. d # c
      BY <1>15
    <3>2. pc[d] = "wait" /\ since'[d] = since[d]
      BY <1>15, <3>1
    <3> QED  BY <1>0, <3>2 DEF BooksInv, WaitInv
  <2> QED  BY <1>0, <1>2, <2>1, <2>2 DEF BooksInv, PaidInv, TableInv
<1>21. SweepInv'
  <2>1. ASSUME NEW l \in sweep.deleted PROVE l \in Keys /\ holder'[l] = Cleaner /\ Stale(rows[l], sweep.cutoff)
    <3>1. l \in Keys /\ holder[l] = Cleaner /\ Stale(rows[l], sweep.cutoff)
      BY <1>0 DEF SweepInv
    <3>2. l # k
      BY <1>2, <3>1 DEF Cleaner
    <3> QED  BY <1>15, <3>1, <3>2
  <2> QED  BY <1>0, <1>2, <2>1 DEF SweepInv
<1> QED  BY <1>14, <1>19, <1>20, <1>21 DEF LimitInv

(* The end of a call.                                                        *)

\* What account a will have paid once call c commits.
NewPaid(c, a) == [t \in Times |-> paid[a][t] + Cardinality({k \in Charged(c, a) : draft[c][k].at = t})]

\* A call charges an account for the bucket it wrote for it.
LEMMA ChargedIs ==
  ASSUME KeysFollowCustomers, LimitInv, NEW c \in Callers, pc[c] # "idle", NEW a \in Accounts
  PROVE  /\ \A k \in Charged(c, a) : k \in Spends(c) /\ Serves(k, a)
         /\ \A k \in Spends(c) : Serves(k, a) => k \in Charged(c, a)
<1>0. ShapeInv /\ BusyInv(c)
  BY DEF LimitInv, CallInv
<1>1. PICK n : n = Len(req[c].scopes)
  OBVIOUS
<1>2. Len(todo[c]) \in Nat
  BY <1>0, TodoLength
<1>3. /\ n \in Nat /\ Asked(c) \in Nat /\ Asked(c) <= n
      /\ \A i \in 1 .. n : Serves(Bucket(c, i), AccountsOf(req[c])[i])
  BY <1>0, <1>1, <1>2, BucketsAre
<1>4. ASSUME NEW k \in Charged(c, a) PROVE k \in Spends(c) /\ Serves(k, a)
  <2>1. k \in Spends(c)
    BY DEF Charged
  <2>2. PICK i \in 1 .. n : BucketsOf(req[c])[i] = k /\ AccountsOf(req[c])[i] = a
    BY <1>1 DEF Charged
  <2> QED  BY <1>3, <2>1, <2>2 DEF Bucket
<1>5. ASSUME NEW k \in Spends(c), Serves(k, a) PROVE k \in Charged(c, a)
  <2>1. PICK i \in 1 .. Asked(c) : k = Bucket(c, i)
    BY <1>0 DEF Spends, BusyInv
  <2>2. i \in 1 .. n
    BY <1>3
  <2>3. Serves(k, AccountsOf(req[c])[i])
    BY <1>3, <2>1, <2>2
  <2>4. AccountsOf(req[c])[i] = a
    BY <1>5, <2>3, OneToOne
  <2> QED  BY <1>1, <2>1, <2>2, <2>4 DEF Charged, Bucket
<1> QED  BY <1>4, <1>5

\* Its commit charges each account it wrote a bucket for once, on the row's date.
LEMMA PaymentIs ==
  ASSUME KeysFollowCustomers, LimitInv, NEW c \in Callers, pc[c] # "idle", NEW a \in Accounts
  PROVE  /\ \A k \in Spends(c) : Serves(k, a) => NewPaid(c, a) = Paying(paid[a], draft[c][k].at)
         /\ (\A k \in Spends(c) : ~Serves(k, a)) => NewPaid(c, a) = paid[a]
<1>0. ShapeInv /\ paid[a] \in [Times -> Nat]
  BY DEF LimitInv, BooksInv, PaidInv, Ledger
<1>1. ASSUME NEW k \in Spends(c), Serves(k, a)
      PROVE  NewPaid(c, a) = Paying(paid[a], draft[c][k].at)
  <2>1. Charged(c, a) = {k}
    <3>1. \A l \in Charged(c, a) : l = k
      BY <1>1, ChargedIs, OneToOne
    <3> QED  BY <1>1, <3>1, ChargedIs
  <2>2. PICK at : at = draft[c][k].at
    OBVIOUS
  <2>3. ASSUME NEW t \in Times
        PROVE  Cardinality({l \in Charged(c, a) : draft[c][l].at = t}) = IF t = at THEN 1 ELSE 0
    <3>1. CASE t = at
      <4>1. {l \in Charged(c, a) : draft[c][l].at = t} = {k}
        BY <2>1, <2>2, <3>1
      <4> QED  BY <3>1, <4>1, FS_Singleton
    <3>2. CASE t # at
      <4>1. {l \in Charged(c, a) : draft[c][l].at = t} = {}
        BY <2>1, <2>2, <3>2
      <4> QED  BY <3>2, <4>1, FS_EmptySet
    <3> QED  BY <3>1, <3>2
  <2>4. NewPaid(c, a) = [t \in Times |-> paid[a][t] + (IF t = at THEN 1 ELSE 0)]
    BY <2>3 DEF NewPaid
  <2>5. \A t \in Times : paid[a][t] + 0 = paid[a][t]
    BY <1>0
  <2> QED  BY <1>0, <2>2, <2>4, <2>5 DEF Paying
<1>2. ASSUME \A k \in Spends(c) : ~Serves(k, a)
      PROVE  NewPaid(c, a) = paid[a]
  <2>1. Charged(c, a) = {}
    BY <1>2, ChargedIs
  <2>2. \A t \in Times : {l \in Charged(c, a) : draft[c][l].at = t} = {}
    BY <2>1
  <2>3. \A t \in Times : Cardinality({l \in Charged(c, a) : draft[c][l].at = t}) = 0
    BY <2>2, FS_EmptySet
  <2>4. NewPaid(c, a) = [t \in Times |-> paid[a][t] + 0]
    BY <2>3 DEF NewPaid
  <2>5. \A t \in Times : paid[a][t] + 0 = paid[a][t]
    BY <1>0
  <2> QED  BY <1>0, <2>4, <2>5
<1> QED  BY <1>1, <1>2

\* A row a call has written is one it holds.
LEMMA WrittenIsHeld ==
  ASSUME LimitInv, NEW c \in Callers, NEW k \in Keys, draft[c][k] # NoRow
  PROVE  pc[c] # "idle" /\ holder[k] = c
<1>1. pc[c] # "idle"
  BY DEF LimitInv, CallInv, IdleInv
<1>2. BusyInv(c)
  BY <1>1 DEF LimitInv, CallInv
<1>3. PICK i \in 1 .. Asked(c) : k = Bucket(c, i)
  BY <1>2 DEF BusyInv
<1> QED  BY <1>1, <1>2, <1>3 DEF BusyInv

\* Who has released what.
LEMMA ReleasedKeeps ==
  ASSUME ShapeInv, NEW who, NEW k \in Keys
  PROVE  /\ Released(who) \in [Keys -> Callers \cup {"none", Cleaner}]
         /\ holder[k] # who => Released(who)[k] = holder[k]
  BY DEF ShapeInv, Released

\* What ending a call leaves of it, and of the others.
LEMMA FinishedLeaves ==
  ASSUME LimitInv, NEW c \in Callers, Finished(c), clock' = clock,
         \/ verdict' = verdict
         \/ \E v \in {"allowed", "error", "refused"} : verdict' = [verdict EXCEPT ![c] = v]
  PROVE  /\ ShapeInv' /\ \A d \in Callers : CallInv(d)'
         /\ pc'[c] = "idle" /\ \A k \in Keys : draft'[c][k] = NoRow
         /\ \A d \in Callers \ {c} : pc'[d] = pc[d] /\ draft'[d] = draft[d] /\ since'[d] = since[d]
         /\ \A k \in Keys : holder[k] # c => holder'[k] = holder[k]
<1>0. ShapeInv /\ \A d \in Callers : CallInv(d)
  BY DEF LimitInv
<1>1. /\ pc' = [pc EXCEPT ![c] = "idle"] /\ req' = [req EXCEPT ![c] = NoRequest]
      /\ began' = [began EXCEPT ![c] = 0] /\ since' = [since EXCEPT ![c] = 0]
      /\ todo' = [todo EXCEPT ![c] = <<>>]
      /\ draft' = [draft EXCEPT ![c] = [k \in Keys |-> NoRow]]
      /\ holder' = Released(c)
  BY DEF Finished
<1>2. /\ pc'[c] = "idle" /\ req'[c] = NoRequest /\ \A k \in Keys : draft'[c][k] = NoRow
      /\ \A d \in Callers \ {c} : /\ pc'[d] = pc[d] /\ draft'[d] = draft[d] /\ since'[d] = since[d]
                                  /\ req'[d] = req[d] /\ began'[d] = began[d] /\ todo'[d] = todo[d]
                                  /\ verdict'[d] = verdict[d]
  BY <1>0, <1>1 DEF ShapeInv
<1>3. ShapeInv'
  <2>1. 0 \in Times /\ <<>> \in Seq(Keys)
    BY TimesAreNumbers DEF Times, Promise!Times
  <2>2. holder' \in [Keys -> Callers \cup {"none", Cleaner}]
    BY <1>0, <1>1, ReleasedKeeps DEF Released, ShapeInv
  <2>3. verdict' \in [Callers -> {"none", "refused", "allowed", "error"}]
    BY <1>0 DEF ShapeInv
  <2>4. draft' \in [Callers -> [Keys -> Row \cup {NoRow}]] /\ todo' \in [Callers -> Seq(Keys)]
    BY <1>0, <1>1, <2>1 DEF ShapeInv
  <2>5. /\ pc' \in [Callers -> {"idle", "ask", "wait", "end"}]
        /\ req' \in [Callers -> Requests \cup {NoRequest}]
        /\ began' \in [Callers -> Times] /\ since' \in [Callers -> Times]
    BY <1>0, <1>1, <2>1 DEF ShapeInv
  <2> QED  BY <1>0, <2>2, <2>3, <2>4, <2>5 DEF ShapeInv
<1>4. \A k \in Keys : holder[k] # c => holder'[k] = holder[k]
  BY <1>0, <1>1, ReleasedKeeps
<1>5. ASSUME NEW d \in Callers PROVE CallInv(d)'
  <2>1. CASE d = c
    BY <1>2, <2>1 DEF CallInv, IdleInv
  <2>2. CASE d # c
    BY <1>0, <1>2, <1>4, <2>2, CallStays, TodoLength
  <2> QED  BY <2>1, <2>2
<1> QED  BY <1>2, <1>3, <1>4, <1>5

\* A call gives up.
LEMMA AbortKeeps ==
  ASSUME LimitInv, NEW c \in Callers, Abort(c)
  PROVE  LimitInv'
<1>0. BooksInv /\ SweepInv
  BY DEF LimitInv
<1>1. Finished(c) /\ UNCHANGED <<clock, rows, sweep, paid>>
  BY DEF Abort
<1>2. \E v \in {"allowed", "error", "refused"} : verdict' = [verdict EXCEPT ![c] = v]
  BY DEF Abort
<1>3. /\ ShapeInv' /\ \A d \in Callers : CallInv(d)'
      /\ pc'[c] = "idle" /\ \A k \in Keys : draft'[c][k] = NoRow
      /\ \A d \in Callers \ {c} : pc'[d] = pc[d] /\ draft'[d] = draft[d] /\ since'[d] = since[d]
      /\ \A k \in Keys : holder[k] # c => holder'[k] = holder[k]
  BY <1>1, <1>2, FinishedLeaves
<1>4. DraftInv'
  <2> SUFFICES ASSUME NEW d \in Callers, NEW k \in Keys, NEW a \in Accounts,
                      draft'[d][k] # NoRow, Serves(k, a)
               PROVE  Pays(draft'[d][k], paid[a], clock)
    BY <1>1 DEF DraftInv
  <2>1. d # c /\ draft'[d] = draft[d]
    BY <1>3
  <2> QED  BY <1>0, <2>1 DEF BooksInv, DraftInv
<1>5. WaitInv'
  <2> SUFFICES ASSUME NEW d \in Callers, NEW k \in Keys, NEW a \in Accounts,
                      pc'[d] = "wait", rows[k] = NoRow, Serves(k, a), NEW t \in Times, t >= since'[d]
               PROVE  paid[a][t] = 0
    BY <1>1 DEF WaitInv
  <2>1. d # c /\ pc'[d] = pc[d] /\ since'[d] = since[d]
    BY <1>3
  <2> QED  BY <1>0, <2>1 DEF BooksInv, WaitInv
<1>6. PaidInv' /\ TableInv'
  BY <1>0, <1>1 DEF BooksInv, PaidInv, TableInv
<1>7. SweepInv'
  <2>1. ASSUME NEW k \in sweep.deleted
        PROVE  k \in Keys /\ holder'[k] = Cleaner /\ Stale(rows[k], sweep.cutoff)
    <3>1. k \in Keys /\ holder[k] = Cleaner /\ Stale(rows[k], sweep.cutoff)
      BY <1>0 DEF SweepInv
    <3>2. holder[k] # c
      BY <3>1, CallAssumption
    <3> QED  BY <1>3, <3>1, <3>2
  <2> QED  BY <1>0, <1>1, <2>1 DEF SweepInv
<1> QED  BY <1>3, <1>4, <1>5, <1>6, <1>7 DEF LimitInv, BooksInv

\* A call commits: the rows it wrote and what they cost appear together.
LEMMA CommitKeeps ==
  ASSUME KeysFollowCustomers, LimitInv, NEW c \in Callers, Commit(c)
  PROVE  LimitInv'
<1>0. ShapeInv /\ BooksInv /\ SweepInv
  BY DEF LimitInv
<1>1. /\ pc[c] = "end" /\ Finished(c) /\ UNCHANGED <<clock, sweep>>
      /\ rows' = [k \in Keys |-> IF k \in Spends(c) THEN draft[c][k] ELSE rows[k]]
  BY DEF Commit
<1>2. paid' = [a \in Accounts |-> NewPaid(c, a)]
  BY DEF Commit, NewPaid, Times, Promise!Times
<1>3. \/ verdict' = verdict
      \/ \E v \in {"allowed", "error", "refused"} : verdict' = [verdict EXCEPT ![c] = v]
  BY DEF Commit
<1>4. /\ ShapeInv' /\ \A d \in Callers : CallInv(d)'
      /\ pc'[c] = "idle" /\ \A k \in Keys : draft'[c][k] = NoRow
      /\ \A d \in Callers \ {c} : pc'[d] = pc[d] /\ draft'[d] = draft[d] /\ since'[d] = since[d]
      /\ \A k \in Keys : holder[k] # c => holder'[k] = holder[k]
  BY <1>1, <1>3, FinishedLeaves
<1>5. /\ \A k \in Spends(c), a \in Accounts : Serves(k, a) => paid'[a] = Paying(paid[a], draft[c][k].at)
      /\ \A a \in Accounts : (\A k \in Spends(c) : ~Serves(k, a)) => paid'[a] = paid[a]
  BY <1>1, <1>2, PaymentIs
\* A bucket it did not write is not charged.
<1>6. \A k \in Keys \ Spends(c), a \in Accounts : Serves(k, a) => paid'[a] = paid[a]
  BY <1>5, OneToOne
<1>7. \A k \in Spends(c), a \in Accounts : Serves(k, a) =>
        /\ k \in Keys /\ rows'[k] = draft[c][k] /\ draft[c][k] \in Row
        /\ Fits(draft[c][k], paid'[a], clock) /\ Within(paid'[a])
  <2> SUFFICES ASSUME NEW k \in Spends(c), NEW a \in Accounts, Serves(k, a)
               PROVE  /\ k \in Keys /\ rows'[k] = draft[c][k] /\ draft[c][k] \in Row
                      /\ Fits(draft[c][k], paid'[a], clock) /\ Within(paid'[a])
    OBVIOUS
  <2>1. k \in Keys /\ draft[c][k] # NoRow
    BY DEF Spends
  <2>2. Pays(draft[c][k], paid[a], clock)
    BY <1>0, <2>1 DEF BooksInv, DraftInv
  <2>3. draft[c][k] \in Row
    BY <1>0, <2>1 DEF ShapeInv
  <2> QED  BY <1>1, <1>5, <2>1, <2>2, <2>3 DEF Pays
<1>8. PaidInv'
  <2> SUFFICES ASSUME NEW a \in Accounts PROVE paid'[a] \in Ledger /\ Within(paid'[a])
    BY DEF PaidInv
  <2>0. paid[a] \in Ledger /\ Within(paid[a])
    BY <1>0 DEF BooksInv, PaidInv
  <2>1. CASE \A k \in Spends(c) : ~Serves(k, a)
    BY <1>5, <2>0, <2>1
  <2>2. CASE \E k \in Spends(c) : Serves(k, a)
    <3>1. PICK k \in Spends(c) : Serves(k, a)
      BY <2>2
    <3>2. draft[c][k].at \in Times
      BY <1>7, <3>1 DEF Row
    <3>3. Paying(paid[a], draft[c][k].at) \in Ledger
      BY <2>0, <3>2, TotalRises
    <3> QED  BY <1>5, <1>7, <3>1, <3>3
  <2> QED  BY <2>1, <2>2
<1>9. TableInv'
  <2> SUFFICES ASSUME NEW k \in Keys, NEW a \in Accounts, Serves(k, a)
               PROVE  Fits(rows'[k], paid'[a], clock)
    BY <1>1 DEF TableInv
  <2>1. CASE k \in Spends(c)
    BY <1>7, <2>1
  <2>2. CASE k \notin Spends(c)
    <3>1. rows'[k] = rows[k] /\ paid'[a] = paid[a]
      BY <1>1, <1>6, <2>2
    <3> QED  BY <1>0, <3>1 DEF BooksInv, TableInv
  <2> QED  BY <2>1, <2>2
<1>10. DraftInv'
  <2> SUFFICES ASSUME NEW d \in Callers, NEW k \in Keys, NEW a \in Accounts,
                      draft'[d][k] # NoRow, Serves(k, a)
               PROVE  Pays(draft'[d][k], paid'[a], clock)
    BY <1>1 DEF DraftInv
  <2>1. d # c /\ draft'[d] = draft[d]
    BY <1>4
  <2>2. holder[k] = d
    BY <2>1, WrittenIsHeld
  <2>3. k \notin Spends(c)
    BY <2>1, <2>2, WrittenIsHeld DEF Spends
  <2>4. paid'[a] = paid[a]
    BY <1>6, <2>3
  <2> QED  BY <1>0, <2>1, <2>4 DEF BooksInv, DraftInv
<1>11. WaitInv'
  <2> SUFFICES ASSUME NEW d \in Callers, NEW k \in Keys, NEW a \in Accounts,
                      pc'[d] = "wait", rows'[k] = NoRow, Serves(k, a), NEW t \in Times, t >= since'[d]
               PROVE  paid'[a][t] = 0
    BY DEF WaitInv
  <2>1. d # c /\ pc'[d] = pc[d] /\ since'[d] = since[d]
    BY <1>4
  <2>2. k \notin Spends(c)
    BY <1>1 DEF Spends
  <2>3. rows[k] = NoRow /\ paid'[a] = paid[a]
    BY <1>1, <1>6, <2>2
  <2> QED  BY <1>0, <2>1, <2>3 DEF BooksInv, WaitInv
<1>12. SweepInv'
  <2>1. ASSUME NEW k \in sweep.deleted
        PROVE  k \in Keys /\ holder'[k] = Cleaner /\ Stale(rows'[k], sweep.cutoff)
    <3>1. k \in Keys /\ holder[k] = Cleaner /\ Stale(rows[k], sweep.cutoff)
      BY <1>0 DEF SweepInv
    <3>2. holder[k] # c
      BY <3>1, CallAssumption
    <3>3. k \notin Spends(c)
      BY <3>2, WrittenIsHeld DEF Spends
    <3> QED  BY <1>1, <1>4, <3>1, <3>2, <3>3
  <2> QED  BY <1>0, <1>1, <2>1 DEF SweepInv
<1> QED  BY <1>4, <1>8, <1>9, <1>10, <1>11, <1>12 DEF LimitInv, BooksInv

-------------------------------------------------------------------------------
(* The sweep.                                                                *)

\* What concerns calls and their books, when only locks they do not hold move.
LEMMA LocksMove ==
  ASSUME LimitInv, UNCHANGED <<clock, calls>>,
         holder' \in [Keys -> Callers \cup {"none", Cleaner}],
         \A k \in Keys : holder[k] \in Callers => holder'[k] = holder[k]
  PROVE  ShapeInv' /\ \A d \in Callers : CallInv(d)'
<1>1. ShapeInv /\ \A d \in Callers : CallInv(d)
  BY DEF LimitInv
<1>2. ShapeInv'
  BY <1>1 DEF ShapeInv, calls
<1>3. ASSUME NEW d \in Callers PROVE CallInv(d)'
  <2>1. /\ pc'[d] = pc[d] /\ req'[d] = req[d] /\ began'[d] = began[d] /\ todo'[d] = todo[d]
        /\ since'[d] = since[d] /\ draft'[d] = draft[d] /\ verdict'[d] = verdict[d] /\ clock' = clock
    BY DEF calls
  <2>2. \A k \in Keys : holder[k] = d => holder'[k] = d
    OBVIOUS
  <2> QED  BY <1>1, <2>1, <2>2, CallStays, TodoLength
<1> QED  BY <1>2, <1>3

\* The sweep fixes its cutoff.
LEMMA SweepStartKeeps == LimitInv /\ SweepStart => LimitInv'
<1> SUFFICES ASSUME LimitInv, SweepStart PROVE LimitInv'
  OBVIOUS
<1>0. ShapeInv /\ BooksInv /\ SweepInv
  BY DEF LimitInv
<1>1. /\ sweep' = [pc |-> "run", cutoff |-> clock - Retention, deleted |-> {},
                   left |-> {k \in Keys : Stale(rows[k], clock - Retention)}]
      /\ UNCHANGED <<clock, rows, holder, calls, paid>>
  BY DEF SweepStart
<1>2. ShapeInv' /\ \A d \in Callers : CallInv(d)'
  BY <1>0, <1>1, LocksMove DEF ShapeInv
<1>3. BooksInv'
  BY <1>0, <1>1 DEF BooksInv, PaidInv, TableInv, DraftInv, WaitInv, calls
<1>4. SweepInv'
  <2>1. clock \in Nat /\ Retention \in Nat
    BY <1>0, TimesAreNumbers, RateLimitAssumption DEF ShapeInv
  <2>2. clock - Retention \in Int /\ clock - Retention <= clock - Retention
    BY <2>1
  <2> QED  BY <1>1, <2>2 DEF SweepInv
<1> QED  BY <1>2, <1>3, <1>4 DEF LimitInv

\* It takes a row's lock if the row is still stale.
LEMMA SweepRowKeeps ==
  ASSUME LimitInv, NEW k \in Keys, SweepRow(k)
  PROVE  LimitInv'
<1>0. ShapeInv /\ BooksInv /\ SweepInv
  BY DEF LimitInv
<1>1. /\ sweep.pc = "run" /\ holder[k] = "none" /\ UNCHANGED <<clock, rows, calls, paid>>
      /\ sweep' = [sweep EXCEPT !.left = @ \ {k},
                     !.deleted = IF Stale(rows[k], sweep.cutoff) THEN @ \cup {k} ELSE @]
      /\ holder' = IF Stale(rows[k], sweep.cutoff) THEN [holder EXCEPT ![k] = Cleaner] ELSE holder
  BY DEF SweepRow
<1>2. /\ holder' \in [Keys -> Callers \cup {"none", Cleaner}]
      /\ \A l \in Keys : l # k => holder'[l] = holder[l]
      /\ Stale(rows[k], sweep.cutoff) => holder'[k] = Cleaner
      /\ ~Stale(rows[k], sweep.cutoff) => holder' = holder
  BY <1>0, <1>1 DEF ShapeInv
<1>3. \A l \in Keys : holder[l] \in Callers => holder'[l] = holder[l]
  BY <1>1, <1>2, CallAssumption
<1>4. ShapeInv' /\ \A d \in Callers : CallInv(d)'
  BY <1>1, <1>2, <1>3, LocksMove
<1>5. BooksInv'
  BY <1>0, <1>1 DEF BooksInv, PaidInv, TableInv, DraftInv, WaitInv, calls
<1>6. SweepInv'
  <2>1. PICK s : s = sweep
    OBVIOUS
  <2>2. s \in [pc : {"idle", "run"}, cutoff : Int, left : SUBSET Keys, deleted : SUBSET Keys]
    BY <1>0, <2>1 DEF SweepInv
  <2>3. PICK stale \in BOOLEAN : stale = Stale(rows[k], s.cutoff)
    BY DEF Stale
  <2>4. sweep' = [s EXCEPT !.left = @ \ {k}, !.deleted = IF stale THEN @ \cup {k} ELSE @]
    BY <1>1, <2>1, <2>3
  <2>5. /\ sweep' \in [pc : {"idle", "run"}, cutoff : Int, left : SUBSET Keys, deleted : SUBSET Keys]
        /\ sweep'.pc = s.pc /\ sweep'.cutoff = s.cutoff
        /\ sweep'.deleted = IF stale THEN s.deleted \cup {k} ELSE s.deleted
    BY <2>2, <2>4
  <2>6. ASSUME NEW l \in sweep'.deleted
        PROVE  l \in Keys /\ holder'[l] = Cleaner /\ Stale(rows[l], s.cutoff)
    <3>1. CASE l = k /\ stale
      BY <1>2, <2>1, <2>3, <3>1
    <3>2. CASE ~(l = k /\ stale)
      <4>1. l \in s.deleted
        BY <2>5, <2>6, <3>2
      <4>2. l \in Keys /\ holder[l] = Cleaner /\ Stale(rows[l], s.cutoff)
        BY <1>0, <2>1, <4>1 DEF SweepInv
      <4>3. l # k
        BY <1>1, <4>2 DEF Cleaner
      <4> QED  BY <1>2, <4>2, <4>3
    <3> QED  BY <3>1, <3>2
  <2>7. s.pc # "idle" /\ s.cutoff <= clock - Retention
    BY <1>0, <1>1, <2>1 DEF SweepInv
  <2>8. sweep'.pc # "idle" /\ sweep'.cutoff <= clock' - Retention
    BY <1>1, <2>5, <2>7
  <2>9. \A l \in sweep'.deleted : l \in Keys /\ holder'[l] = Cleaner /\ Stale(rows'[l], sweep'.cutoff)
    BY <1>1, <2>5, <2>6
  <2> QED  BY <2>5, <2>8, <2>9 DEF SweepInv
<1> QED  BY <1>4, <1>5, <1>6 DEF LimitInv

\* A row the sweep deletes was full, and no statement waits for it since before
\* its last payment.
LEMMA SweepEndKeeps == LimitInv /\ SweepEnd => LimitInv'
<1> SUFFICES ASSUME LimitInv, SweepEnd PROVE LimitInv'
  OBVIOUS
<1>0. ShapeInv /\ BooksInv /\ SweepInv
  BY DEF LimitInv
<1>1. /\ sweep.pc = "run" /\ holder' = Released(Cleaner) /\ sweep' = Idle
      /\ rows' = [k \in Keys |-> IF k \in sweep.deleted THEN NoRow ELSE rows[k]]
      /\ UNCHANGED <<clock, calls, paid>>
  BY DEF SweepEnd
<1>2. clock \in Times /\ clock \in Nat /\ Retention \in Nat /\ MaxWait \in Nat
  BY <1>0, TimesAreNumbers, RateLimitAssumption DEF ShapeInv
<1>3. /\ holder' \in [Keys -> Callers \cup {"none", Cleaner}]
      /\ \A k \in Keys : holder[k] \in Callers => holder'[k] = holder[k]
  BY <1>0, <1>1, ReleasedKeeps, CallAssumption DEF Released, ShapeInv
<1>4. ShapeInv' /\ \A d \in Callers : CallInv(d)'
  BY <1>1, <1>3, LocksMove
<1>5. ASSUME NEW k \in sweep.deleted, NEW a \in Accounts, Serves(k, a)
      PROVE  Fits(NoRow, paid[a], clock) /\ \A t \in Times : t >= clock - MaxWait => paid[a][t] = 0
  <2>1. k \in Keys /\ rows[k] # NoRow /\ rows[k].at < sweep.cutoff
    BY <1>0 DEF SweepInv, Stale
  <2>2. sweep.cutoff <= clock - Retention /\ sweep.cutoff \in Int
    BY <1>0, <1>1 DEF SweepInv
  <2>3. paid[a] \in Ledger /\ Fits(rows[k], paid[a], clock)
    BY <1>0, <1>5, <2>1 DEF BooksInv, PaidInv, TableInv
  <2>4. rows[k].at \in Nat
    BY <2>1, <2>3, TimesAreNumbers DEF Fits, Tells, Row
  <2>5. rows[k].at < clock - Retention
    BY <1>2, <2>1, <2>2, <2>4
  <2>6. PICK row, f, now : row = rows[k] /\ f = paid[a] /\ now = clock
    OBVIOUS
  <2> QED  BY <1>2, <2>1, <2>3, <2>5, <2>6, ForgottenFits
<1>6. TableInv'
  <2> SUFFICES ASSUME NEW k \in Keys, NEW a \in Accounts, Serves(k, a)
               PROVE  Fits(rows'[k], paid[a], clock)
    BY <1>1 DEF TableInv
  <2>1. CASE k \in sweep.deleted
    BY <1>1, <1>5, <2>1
  <2>2. CASE k \notin sweep.deleted
    BY <1>0, <1>1, <2>2 DEF BooksInv, TableInv
  <2> QED  BY <2>1, <2>2
<1>7. WaitInv'
  <2> SUFFICES ASSUME NEW d \in Callers, NEW k \in Keys, NEW a \in Accounts,
                      pc[d] = "wait", rows'[k] = NoRow, Serves(k, a), NEW t \in Times, t >= since[d]
               PROVE  paid[a][t] = 0
    BY <1>1 DEF WaitInv, calls
  <2>1. CASE k \in sweep.deleted
    <3>1. BusyInv(d) /\ since[d] \in Nat
      BY <1>0, TimesAreNumbers DEF LimitInv, CallInv, ShapeInv
    <3>2. clock - since[d] <= MaxWait
      BY <3>1 DEF BusyInv
    <3>3. t >= clock - MaxWait
      BY <1>2, <3>1, <3>2, TimesAreNumbers
    <3> QED  BY <1>5, <2>1, <3>3
  <2>2. CASE k \notin sweep.deleted
    BY <1>0, <1>1, <2>2 DEF BooksInv, WaitInv
  <2> QED  BY <2>1, <2>2
<1>8. PaidInv' /\ DraftInv'
  BY <1>0, <1>1 DEF BooksInv, PaidInv, DraftInv, calls
<1>9. SweepInv'
  BY <1>1 DEF SweepInv, Idle
<1> QED  BY <1>4, <1>6, <1>7, <1>8, <1>9 DEF LimitInv, BooksInv

\* It fails, and what it would have deleted stays.
LEMMA SweepFailKeeps == LimitInv /\ SweepFail => LimitInv'
<1> SUFFICES ASSUME LimitInv, SweepFail PROVE LimitInv'
  OBVIOUS
<1>0. ShapeInv /\ BooksInv
  BY DEF LimitInv
<1>1. /\ holder' = Released(Cleaner) /\ sweep' = Idle
      /\ UNCHANGED <<clock, rows, calls, paid>>
  BY DEF SweepFail
<1>2. /\ holder' \in [Keys -> Callers \cup {"none", Cleaner}]
      /\ \A k \in Keys : holder[k] \in Callers => holder'[k] = holder[k]
  BY <1>0, <1>1, ReleasedKeeps, CallAssumption DEF Released, ShapeInv
<1>3. ShapeInv' /\ \A d \in Callers : CallInv(d)'
  BY <1>1, <1>2, LocksMove
<1>4. BooksInv'
  BY <1>0, <1>1 DEF BooksInv, PaidInv, TableInv, DraftInv, WaitInv, calls
<1>5. SweepInv'
  BY <1>1 DEF SweepInv, Idle
<1> QED  BY <1>3, <1>4, <1>5 DEF LimitInv

\* Every step keeps the invariant.
LEMMA NextKeeps == KeysFollowCustomers /\ LimitInv /\ [Next]_vars => LimitInv'
<1> SUFFICES ASSUME KeysFollowCustomers, LimitInv, [Next]_vars PROVE LimitInv'
  OBVIOUS
<1>1. ASSUME NEW c \in Callers, \/ \E r \in Requests : Begin(c, r)
                                \/ Send(c) \/ Answer(c) \/ Commit(c) \/ Abort(c)
      PROVE  LimitInv'
  BY <1>1, BeginKeeps, SendKeeps, AnswerKeeps, CommitKeeps, AbortKeeps
<1>2. CASE UNCHANGED vars
  BY <1>2 DEF vars, calls, LimitInv, ShapeInv, CallInv, IdleInv, BusyInv, Asked, Bucket,
              BooksInv, PaidInv, TableInv, DraftInv, WaitInv, SweepInv
<1>3. CASE \E k \in Keys : SweepRow(k)
  BY <1>3, SweepRowKeeps
<1> QED  BY <1>1, <1>2, <1>3, TickKeeps, SweepStartKeeps, SweepEndKeeps, SweepFailKeeps DEF Next

-------------------------------------------------------------------------------
(* The limiter's promise, kept step by step.                                 *)

\* The accounts a request asks, and what every call asks now.
AccountsAsked(r) == {AccountsOf(r)[i] : i \in 1 .. Len(r.scopes)}
Wants == [c \in Callers |-> AccountsAsked(req[c])]

\* A caller without a request asks no account.
LEMMA NothingAsked == AccountsAsked(NoRequest) = {}
<1>1. Len(NoRequest.scopes) = 0
  BY DEF NoRequest
<1>2. 1 .. 0 = {}
  OBVIOUS
<1> QED  BY <1>1, <1>2 DEF AccountsAsked

\* Every request asks some account.
LEMMA SomethingAsked ==
  ASSUME NEW r \in Requests
  PROVE  AccountsAsked(r) # {} /\ AccountsAsked(r) \in SUBSET Accounts
<1>1. PICK n : n = Len(r.scopes)
  OBVIOUS
<1>2. n \in Nat /\ n >= 1 /\ \A i \in 1 .. n : AccountsOf(r)[i] \in Accounts
  BY <1>1, RequestAsks
<1>3. 1 \in 1 .. n
  BY <1>2
<1> QED  BY <1>1, <1>2, <1>3 DEF AccountsAsked

\* Nothing was asked, nothing paid: the promise's beginning.
LEMMA StartIsPromised == Init => Promise!Init
<1> SUFFICES ASSUME Init PROVE Promise!Init
  OBVIOUS
<1>1. \A c \in Callers : req[c] = NoRequest
  BY DEF Init
<1>2. Wants = [c \in Callers |-> {}]
  BY <1>1, NothingAsked DEF Wants
<1> QED  BY <1>2 DEF Init, Promise!Init, Promise!Times, Wants, AccountsAsked

\* When a call starts or ends, only what it asks changes.
LEMMA WantsFollow ==
  ASSUME ShapeInv, NEW c \in Callers, NEW r, req' = [req EXCEPT ![c] = r]
  PROVE  Wants' = [Wants EXCEPT ![c] = AccountsAsked(r)]
<1>1. \A d \in Callers : req'[d] = IF d = c THEN r ELSE req[d]
  BY DEF ShapeInv
<1>2. \A d \in Callers : Wants'[d] = IF d = c THEN AccountsAsked(r) ELSE Wants[d]
  BY <1>1 DEF Wants
<1>3. Wants' = [d \in Callers |-> Wants'[d]] /\ Wants = [d \in Callers |-> Wants[d]]
  BY DEF Wants
<1> QED  BY <1>2, <1>3

\* A request that arrives, served or not, asks.
LEMMA BeginIsPromised ==
  ASSUME LimitInv, NEW c \in Callers, NEW r \in Requests, Begin(c, r)
  PROVE  Promise!Ask(c, AccountsAsked(r))
<1>0. ShapeInv /\ AccountsAsked(r) # {}
  BY SomethingAsked DEF LimitInv
<1>1. pc[c] = "idle" /\ UNCHANGED <<clock, paid>>
  BY DEF Begin
<1>2. Wants[c] = {}
  BY <1>1, NothingAsked DEF Wants, LimitInv, CallInv, IdleInv
<1>3. CASE ~Served(r)
  <2>1. verdict' = [verdict EXCEPT ![c] = "error"] /\ UNCHANGED <<req, began>>
    BY <1>3 DEF Begin
  <2>2. Wants' = Wants
    BY <2>1 DEF Wants
  <2> QED  BY <1>0, <1>1, <1>2, <2>1, <2>2 DEF Promise!Ask, Wants, AccountsAsked
<1>4. CASE Served(r)
  <2>1. /\ verdict' = [verdict EXCEPT ![c] = "none"]
        /\ req' = [req EXCEPT ![c] = r] /\ began' = [began EXCEPT ![c] = clock]
    BY <1>4 DEF Begin
  <2>2. Wants' = [Wants EXCEPT ![c] = AccountsAsked(r)]
    BY <1>0, <2>1, WantsFollow
  <2> QED  BY <1>0, <1>1, <1>2, <2>1, <2>2 DEF Promise!Ask, Wants, AccountsAsked
<1> QED  BY <1>3, <1>4

\* A refusal is deserved: the row has nothing left, so its account is exhausted.
LEMMA AnswerIsPromised ==
  ASSUME LimitInv, NEW c \in Callers, Answer(c)
  PROVE  Promise!Refuse(c) \/ UNCHANGED Promise!vars
<1>0. ShapeInv /\ BooksInv
  BY DEF LimitInv
<1>1. PICK k : k = Head(todo[c])
  OBVIOUS
<1>2. /\ pc[c] = "wait" /\ UNCHANGED <<clock, rows, req, began, paid>>
      /\ \/ Admits(rows[k]) /\ UNCHANGED verdict
         \/ ~Admits(rows[k]) /\ verdict' = [verdict EXCEPT ![c] = "refused"]
  BY <1>1 DEF Answer
<1>3. Wants' = Wants
  BY <1>2 DEF Wants
<1>4. verdict[c] \in {"none", "refused"} /\ BusyInv(c)
  BY <1>2 DEF LimitInv, CallInv, BusyInv
<1>5. CASE Admits(rows[k]) \/ verdict[c] = "refused"
  <2>1. verdict' = verdict
    BY <1>0, <1>2, <1>5 DEF ShapeInv
  <2> QED  BY <1>2, <1>3, <2>1 DEF Promise!vars, Wants, AccountsAsked
<1>6. CASE ~Admits(rows[k]) /\ verdict[c] = "none"
  <2>1. PICK T \in Seq(Keys) : T = todo[c]
    BY <1>0 DEF ShapeInv
  <2>2. PICK m \in Nat : m = Len(T)
    BY <2>1
  <2>3. PICK n : n = Len(req[c].scopes)
    OBVIOUS
  <2>4. /\ n \in Nat
        /\ \A i \in 1 .. n : /\ Bucket(c, i) \in Keys /\ AccountsOf(req[c])[i] \in Accounts
                             /\ Serves(Bucket(c, i), AccountsOf(req[c])[i])
    BY <1>4, <2>1, <2>2, <2>3, BucketsAre
  <2>5. PICK i0 : i0 = Asked(c) + 1
    OBVIOUS
  <2>6. m # 0 /\ m <= n /\ Asked(c) = n - m
    BY <1>2, <1>4, <2>1, <2>2, <2>3 DEF BusyInv, Asked
  <2>7. i0 \in 1 .. n /\ 1 \in 1 .. m
    BY <2>2, <2>4, <2>5, <2>6
  <2>8. k = Bucket(c, i0)
    <3>1. \A j \in 1 .. m : T[j] = Bucket(c, Asked(c) + j)
      BY <1>4, <2>1, <2>2 DEF BusyInv
    <3>2. T[1] = Bucket(c, i0)
      BY <2>5, <2>7, <3>1
    <3>3. k = T[1]
      BY <1>1, <2>1, <2>2, <2>6
    <3> QED  BY <3>2, <3>3
  <2>9. PICK a : a = AccountsOf(req[c])[i0]
    OBVIOUS
  <2>10. k \in Keys /\ a \in Accounts /\ Serves(k, a) /\ a \in Wants[c]
    <3>1. a \in AccountsAsked(req[c])
      BY <2>3, <2>7, <2>9 DEF AccountsAsked
    <3> QED  BY <2>4, <2>7, <2>8, <2>9, <3>1 DEF Wants
  <2>11. ~Within(Paying(paid[a], clock))
    <3>1. rows[k] # NoRow /\ ~(Refilled(rows[k], clock) >= 1)
      BY <1>6 DEF Admits
    <3>2. clock \in Times /\ paid[a] \in Ledger /\ Fits(rows[k], paid[a], clock)
      BY <1>0, <2>10 DEF BooksInv, PaidInv, TableInv, ShapeInv
    <3>3. PICK row, f, now : row = rows[k] /\ f = paid[a] /\ now = clock
      OBVIOUS
    <3> QED  BY <3>1, <3>2, <3>3, EmptyIsExhausted
  <2>12. Promise!Exhausted(paid[a])
    BY <2>11 DEF Promise!Exhausted, Within, Paying
  <2>13. \E b \in Wants[c] : Promise!Exhausted(paid[b])
    BY <2>10, <2>12
  <2> QED  BY <1>2, <1>3, <1>6, <2>13 DEF Promise!Refuse, Wants, AccountsAsked
<1> QED  BY <1>4, <1>5, <1>6

\* A call that gives up has failed.
LEMMA AbortIsPromised ==
  ASSUME LimitInv, NEW c \in Callers, Abort(c)
  PROVE  Promise!Fail(c)
<1>0. ShapeInv
  BY DEF LimitInv
<1>1. /\ pc[c] # "idle" /\ UNCHANGED <<clock, paid>>
      /\ verdict' = [verdict EXCEPT ![c] = IF @ = "refused" THEN @ ELSE "error"]
      /\ req' = [req EXCEPT ![c] = NoRequest] /\ began' = [began EXCEPT ![c] = 0]
  BY DEF Abort, Finished
<1>2. verdict[c] \in {"none", "refused"} /\ req[c] \in Requests
  BY <1>1 DEF LimitInv, CallInv, BusyInv
<1>3. Wants[c] # {}
  BY <1>2, SomethingAsked DEF Wants
<1>4. Wants' = [Wants EXCEPT ![c] = {}]
  BY <1>0, <1>1, WantsFollow, NothingAsked
<1>5. verdict' = [verdict EXCEPT ![c] = IF @ = "none" THEN "error" ELSE @]
  BY <1>1, <1>2
<1> QED  BY <1>1, <1>3, <1>4, <1>5 DEF Promise!Fail, Promise!Over, Wants, AccountsAsked

\* The bucket call c wrote for account a, the accounts it pays from and when.
Wrote(c, a)   == CHOOSE k \in Spends(c) : Serves(k, a)
PaidFrom(c)   == {a \in Accounts : \E k \in Spends(c) : Serves(k, a)}
PaidWhen(c)   == [a \in PaidFrom(c) |-> draft[c][Wrote(c, a)].at]

\* A commit pays from every account whose bucket it wrote, on the rows' dates.
LEMMA CommitIsPromised ==
  ASSUME KeysFollowCustomers, LimitInv, NEW c \in Callers, Commit(c)
  PROVE  \E D \in SUBSET Wants[c] : \E date \in [D -> Times] : Promise!Pay(c, D, date)
<1>0. ShapeInv /\ BooksInv
  BY DEF LimitInv
<1>1. /\ pc[c] = "end" /\ UNCHANGED clock
      /\ req' = [req EXCEPT ![c] = NoRequest] /\ began' = [began EXCEPT ![c] = 0]
  BY DEF Commit, Finished
<1>2. paid' = [a \in Accounts |-> NewPaid(c, a)]
  BY DEF Commit, NewPaid, Times, Promise!Times
<1>3. \/ verdict[c] = "refused" /\ UNCHANGED verdict
      \/ /\ verdict[c] # "refused"
         /\ \E v \in {"allowed", "error"} : verdict' = [verdict EXCEPT ![c] = v]
  BY DEF Commit
<1>4. BusyInv(c)
  BY <1>1 DEF LimitInv, CallInv
<1>5. verdict[c] \in {"none", "refused"} /\ req[c] \in Requests
  BY <1>4 DEF BusyInv
<1>6. Wants[c] = AccountsAsked(req[c]) /\ Wants[c] # {} /\ Wants' = [Wants EXCEPT ![c] = {}]
  BY <1>0, <1>1, <1>5, SomethingAsked, NothingAsked, WantsFollow DEF Wants
<1>7. PICK D, date : D = PaidFrom(c) /\ date = PaidWhen(c)
  OBVIOUS
<1>8. ASSUME NEW a \in D
      PROVE  /\ a \in Accounts /\ a \in Wants[c]
             /\ date[a] \in Times /\ began[c] <= date[a] /\ date[a] <= clock
             /\ paid'[a] = Paying(paid[a], date[a]) /\ Within(paid'[a])
  <2>1. a \in Accounts /\ \E k \in Spends(c) : Serves(k, a)
    BY <1>7 DEF PaidFrom
  <2>2. PICK k : k = Wrote(c, a)
    OBVIOUS
  <2>3. k \in Spends(c) /\ Serves(k, a)
    BY <2>1, <2>2 DEF Wrote
  <2>4. date[a] = draft[c][k].at
    BY <1>7, <2>2 DEF PaidWhen
  <2>5. k \in Keys /\ draft[c][k] # NoRow
    BY <2>3 DEF Spends
  <2>6. draft[c][k].at \in Times /\ began[c] <= draft[c][k].at /\ draft[c][k].at <= clock
    BY <1>0, <1>4, <2>5 DEF BusyInv, ShapeInv, Row
  <2>7. paid'[a] = Paying(paid[a], draft[c][k].at)
    BY <1>1, <1>2, <2>1, <2>3, PaymentIs
  <2>8. Within(Paying(paid[a], draft[c][k].at))
    BY <1>0, <2>1, <2>3, <2>5 DEF BooksInv, DraftInv, Pays
  <2>9. a \in Wants[c]
    <3>1. k \in Charged(c, a)
      BY <1>1, <2>1, <2>3, ChargedIs
    <3> QED  BY <1>6, <3>1 DEF Charged, AccountsAsked
  <2> QED  BY <2>1, <2>4, <2>6, <2>7, <2>8, <2>9
<1>9. D \in SUBSET Wants[c] /\ date \in [D -> Times]
  <2>1. date = [a \in D |-> date[a]]
    BY <1>7 DEF PaidWhen
  <2> QED  BY <1>8, <2>1
<1>10. \A a \in D : date[a] \in began[c] .. clock
  <2>1. \A a \in D : date[a] \in Int
    BY <1>8, TimesAreNumbers
  <2>2. began[c] \in Int /\ clock \in Int
    BY <1>0, TimesAreNumbers DEF ShapeInv
  <2> QED  BY <1>8, <2>1, <2>2
<1>11. paid' = [a \in Accounts |-> IF a \in D THEN [paid[a] EXCEPT ![date[a]] = @ + 1] ELSE paid[a]]
  <2>1. ASSUME NEW a \in Accounts, a \notin D PROVE paid'[a] = paid[a]
    <3>1. \A k \in Spends(c) : ~Serves(k, a)
      BY <1>7, <2>1 DEF PaidFrom
    <3> QED  BY <1>1, <1>2, <3>1, PaymentIs
  <2>2. \A a \in Accounts : paid'[a] = IF a \in D THEN [paid[a] EXCEPT ![date[a]] = @ + 1] ELSE paid[a]
    BY <1>8, <2>1 DEF Paying
  <2>3. paid' = [a \in Accounts |-> paid'[a]]
    BY <1>2
  <2> QED  BY <2>2, <2>3
\* Nothing was refused and nothing is left to ask: every account has paid.
<1>12. verdict[c] = "none" => D = Wants[c]
  <2> SUFFICES ASSUME verdict[c] = "none", NEW a \in Wants[c] PROVE a \in D
    BY <1>9
  <2>1. PICK n : n = Len(req[c].scopes)
    OBVIOUS
  <2>2. Len(todo[c]) = 0
    BY <1>1, <1>4 DEF BusyInv
  <2>3. /\ n \in Nat
        /\ \A i \in 1 .. n : /\ Bucket(c, i) \in Keys /\ AccountsOf(req[c])[i] \in Accounts
                             /\ Serves(Bucket(c, i), AccountsOf(req[c])[i])
    BY <1>4, <2>1, <2>2, BucketsAre
  <2>4. Asked(c) = n
    BY <2>1, <2>2, <2>3 DEF Asked
  <2>5. PICK i \in 1 .. n : a = AccountsOf(req[c])[i]
    BY <1>6, <2>1 DEF AccountsAsked
  <2>6. draft[c][Bucket(c, i)] # NoRow
    BY <1>4, <2>4 DEF BusyInv
  <2>7. Bucket(c, i) \in Spends(c)
    BY <2>3, <2>6 DEF Spends
  <2> QED  BY <1>7, <2>3, <2>5, <2>7 DEF PaidFrom
<1>13. \/ verdict[c] = "none" /\ D = Wants[c] /\ verdict' = [verdict EXCEPT ![c] = "allowed"]
       \/ verdict[c] = "none" /\ verdict' = [verdict EXCEPT ![c] = "error"]
       \/ verdict[c] = "refused" /\ UNCHANGED verdict
  BY <1>3, <1>5, <1>12
<1>14. \A a \in D : Promise!Within(paid'[a])
  BY <1>8 DEF Within
<1>15. Promise!Pay(c, D, date)
  BY <1>1, <1>6, <1>9, <1>10, <1>11, <1>13, <1>14 DEF Promise!Pay, Promise!Over, Wants, AccountsAsked
<1> QED  BY <1>9, <1>15

\* Every step of the table is a step of the limiter, or none of its business.
LEMMA StepIsPromised ==
  KeysFollowCustomers /\ LimitInv /\ [Next]_vars => [Promise!Next]_(Promise!vars)
<1> SUFFICES ASSUME KeysFollowCustomers, LimitInv, [Next]_vars
             PROVE  Promise!Next \/ UNCHANGED Promise!vars
  OBVIOUS
<1>1. ASSUME NEW c \in Callers, NEW r \in Requests, Begin(c, r)
      PROVE  Promise!Next
  <2>1. Promise!Ask(c, AccountsAsked(r)) /\ AccountsAsked(r) \in SUBSET Accounts
    BY <1>1, BeginIsPromised, SomethingAsked
  <2> QED  BY <2>1 DEF Promise!Next
<1>2. ASSUME NEW c \in Callers, Answer(c)
      PROVE  Promise!Next \/ UNCHANGED Promise!vars
  BY <1>2, AnswerIsPromised DEF Promise!Next
<1>3. ASSUME NEW c \in Callers, Commit(c)
      PROVE  Promise!Next
  <2>1. \E D \in SUBSET Wants[c] : \E date \in [D -> Times] : Promise!Pay(c, D, date)
    BY <1>3, CommitIsPromised
  <2> QED  BY <2>1 DEF Promise!Next, Wants, AccountsAsked, Times
<1>4. ASSUME NEW c \in Callers, Abort(c)
      PROVE  Promise!Next
  BY <1>4, AbortIsPromised DEF Promise!Next
<1>5. CASE Tick
  <2>1. Promise!Tick
    BY <1>5 DEF Tick, calls, Promise!Tick
  <2> QED  BY <2>1 DEF Promise!Next
<1>6. ASSUME UNCHANGED <<clock, paid, req, began, verdict>>
      PROVE  UNCHANGED Promise!vars
  BY <1>6 DEF Promise!vars
<1>7. CASE (\E c \in Callers : Send(c)) \/ UNCHANGED vars
  BY <1>6, <1>7 DEF Send, vars, calls
<1>8. CASE SweepStart \/ SweepEnd \/ SweepFail \/ \E k \in Keys : SweepRow(k)
  BY <1>6, <1>8 DEF SweepStart, SweepEnd, SweepFail, SweepRow, calls
<1> QED  BY <1>1, <1>2, <1>3, <1>4, <1>5, <1>7, <1>8 DEF Next

\* The table keeps the limiter's promise: no customer is paid more than its
\* capacity and the refill, none is refused for nothing, whatever calls wait for
\* each other, fail or lose their answer and whenever the sweep forgets a row,
\* as long as two requests ask one bucket exactly when they are one customer's
\* (ConsumeRateLimit, ConsumeRateLimits, CleanupRateLimits).
THEOREM TableKeepsItsPromise ==
  ASSUME KeysFollowCustomers
  PROVE  Spec => KeepsItsPromise
<1>1. Spec => []LimitInv
  <2>1. KeysFollowCustomers
    OBVIOUS
  <2>2. LimitInv /\ [Next]_vars => LimitInv'
    BY <2>1, NextKeeps
  <2> QED  BY <2>2, StartFits, PTL DEF Spec
<1>2. LimitInv /\ [Next]_vars => [Promise!Next]_(Promise!vars)
  BY StepIsPromised
<1> QED  BY <1>1, <1>2, StartIsPromised, PTL DEF Spec, KeepsItsPromise, Promise!Spec
===============================================================================
